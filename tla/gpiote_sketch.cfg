SPECIFICATION Spec
CONSTANTS
    NUMBER_OF_GPIO_TE = 2
    Pins = {0, 1, 5}
    Callbacks = {f, g}
    NoCb = NoCb
    Usages <- MCUsages
    MaxAttach = 3
CHECK_DEADLOCK FALSE
INVARIANTS
    HandlerFindsChannel
    LastFunctionRuns
    ChannelsMatchPins
PROPERTIES
    RunsOnEdge
    EdgeAnswered
