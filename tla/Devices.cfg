CONSTANTS
    Registers = {1, 2}
    Sizes = {32}
SPECIFICATION Spec
INVARIANTS ReadsWhatItAsked SclWithin RandomOnSuccess
