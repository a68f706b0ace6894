SPECIFICATION Spec
CONSTANTS
    value1 = value1
    Chars = {value1}
    NumServices = 1
    Setups <- MCIndicating
    MaxEvents <- MCIndicateBound
    Capacity = 2
    Cccd <- MCIndicate
    Patient = TRUE
    Byte = 4
    MaxAttrs <- MCIndicateBound
INVARIANTS
    CanIndicateWhenFree
