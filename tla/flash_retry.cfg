SPECIFICATION Spec
CONSTANTS
    Data = {d1, d2}
    Blank = Blank
    Garbled = Garbled
    Clients = {"manager"}
INVARIANTS
    PageAsAsked
