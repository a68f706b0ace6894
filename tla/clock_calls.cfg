SPECIFICATION Spec
CONSTANTS
    CyclesPerUs = 3
    UsPerMs = 2
    Word = 8
    MaxMs = 2
INVARIANTS
    MicrosInCall
    DelayBounds
PROPERTIES
    DelayReturns
