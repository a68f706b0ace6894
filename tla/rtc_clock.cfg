SPECIFICATION Spec
CONSTANTS
    Sixty = 3
    HalfDay = 2
    TicksPerSec = 2
    CcRange = 512
    Starts <- MCStarts
    Times <- MCTimes
    Dates <- MCDates
    Alarms <- MCAlarms
INVARIANTS
    CountTogether
    RdnCounts
    GetTimeBehind
    
PROPERTIES
    ClockAdvances
CHECK_DEADLOCK FALSE
