CONSTANTS
    Versions <- MCVersions
    Policies <- MarkedFirst
    Failing <- HeaderOnly
    MaxCuts = 0
SPECIFICATION Spec
INVARIANTS ConfirmedStays
