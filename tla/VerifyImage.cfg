CONSTANTS
    HeaderUnits = 16
    SlotUnits = 128
    Ones16 = 31
    Ones32 = 1023
    Headers <- MCHeaders
    Bodies <- MCBodies
    Protected <- MCProtected
    Tlvs = 6
SPECIFICATION Spec
INVARIANTS TypeOK AcceptedIsWritten WholeIsAccepted
CHECK_DEADLOCK FALSE
