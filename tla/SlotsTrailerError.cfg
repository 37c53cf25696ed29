CONSTANTS
    Versions <- MCVersions
    Policies <- MarkedFirst
    Failing <- TrailerOnly
    MaxCuts = 0
SPECIFICATION Spec
INVARIANTS TestingMeansRevert
