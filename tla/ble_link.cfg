SPECIFICATION Spec
CONSTANTS
    value1 = value1
    Chars = {value1}
    NumServices = 3
    Setups <- MCSetups
    MaxEvents <- MCMaxEvents
    Capacity = 2
    Cccd <- MCAll
    Patient = TRUE
    Byte = 3
    MaxAttrs <- MCMaxAttrs
INVARIANTS
    NotOverdrawn
    SetValueTruthful
    SubscriptionsAgree
    RequestTracked
    ForgetsPeer
PROPERTIES
    DiscoveryEnds
    RequestsEnd
