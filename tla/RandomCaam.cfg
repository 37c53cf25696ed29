CONSTANTS
    Registers = {1, 2}
    Sizes = {8, 16, 32}
SPECIFICATION Spec
INVARIANTS EveryByteRandom
