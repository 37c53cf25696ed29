CONSTANTS
    Versions <- MCVersions
    Policies <- EitherPolicy
    Failing <- Tolerated
    MaxCuts = 2
SPECIFICATION FairSpec
INVARIANTS TypeOK SlotsInv NeverBricked ConfirmedWasTested TestingMeansRevert ConfirmedStays
PROPERTIES RunningImageKept PromiseKept DeviceComesBack
