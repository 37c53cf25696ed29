CONSTANTS
    TmpSize = 8
    PageSize = 16
    MaxAddr = 15
    MaxLen = 24
    DriverFails = TRUE
    MaxBusy = 2
SPECIFICATION FairSpec
INVARIANTS TypeOK ReadsRight NothingOutside DriverLimits
PROPERTIES ReadEnds
CHECK_DEADLOCK FALSE
