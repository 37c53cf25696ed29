CONSTANTS
    DefaultEpoch <- MCDefaultEpoch
    Epoch <- MCEpoch
    MaxStart = 4
    MaxTime = 50
    TickWrap = 32
SPECIFICATION Spec
INVARIANTS EpochIsOfBoot
