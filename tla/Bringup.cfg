CONSTANT
    Boards <- MCBoards
SPECIFICATION MainSpec
INVARIANTS TypeOK InUseRuns NeverTooFast AsDeclared MemoryAsLinked RoutedBeforeUse UnitsKeepRate
PROPERTIES FlashClockKept ChangedWhileOff MemoryKept PhyLeavesReset
CHECK_DEADLOCK FALSE
