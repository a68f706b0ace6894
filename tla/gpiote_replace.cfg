SPECIFICATION Spec
CONSTANTS
    NUMBER_OF_GPIO_TE = 2
    Pins = {0, 1}
    Callbacks = {f, g}
    NoCb = NoCb
    Usages <- MCTwice
    MaxAttach = 3
CHECK_DEADLOCK FALSE
INVARIANTS
    ReplacesPrevious
