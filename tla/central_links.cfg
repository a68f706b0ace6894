SPECIFICATION Spec
CONSTANTS
    Conns = {h1, h2}
    Invalid = none
    Peers = {p, q}
    NoPeer = nobody
    Has <- MCHas
    NumServices = 2
    Props <- MCProps
    Chars = {c}
    Cccd <- MCCccd
    Setups <- MCSetups
    Capacity = 1
    Byte = 3
    MAX_PERIPHERAL = 2
    MaxEvents <- MCMaxEvents
SYMMETRY Symmetry
INVARIANTS
    TypeOK
    LinksInTable
    ScansWhileRoom
    NotOverdrawn
    AsksOwner
    ReportsAllServices
    RequestTracked
