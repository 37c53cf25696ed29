CONSTANTS
    DefaultEpoch <- MCDefaultEpoch
    Epoch <- MCEpoch
    MaxStart = 4
    MaxTime = 50
    TickWrap = 32
SPECIFICATION FairSpec
INVARIANTS TypeOK WaitBounded
PROPERTIES InitTimeReturns SyncKept TimeForward
