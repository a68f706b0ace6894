SPECIFICATION SoftSpec
CONSTANTS
    NUMBER_OF_GPIO_TE = 2
    Pins = {4, 5, 9, 11}
    Callbacks = {f, handle}
    NoCb = NoCb
    MaxAttach = 3
    Ports = {9, 11}
    NoPort = NoPort
    handle_interrupt = handle
    SS_MAX_RX_BUFF = 3
    Usages <- MCUsages
    MaxFrame = 3
CHECK_DEADLOCK FALSE
INVARIANTS
    FramesReceived
    ListenerArmed
    CleanTransmit
