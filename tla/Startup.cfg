CONSTANTS
    Settings <- MCSettings
    Failing <- Steps
    Boards <- MCBoards
    Behind <- MCBehind
    Trace <- MCTrace
SPECIFICATION FairSpec
INVARIANTS TypeOK
PROPERTIES ButtonPolled SettingTaken AgentComesUp
