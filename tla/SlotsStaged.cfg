CONSTANTS
    Versions <- MCVersions
    Policies <- MarkedFirst
    Failing <- Tolerated
    MaxCuts = 0
SPECIFICATION Spec
INVARIANTS StagedIsReported
