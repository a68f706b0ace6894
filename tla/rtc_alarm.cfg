SPECIFICATION Spec
CONSTANTS
    Sixty = 3
    HalfDay = 2
    TicksPerSec = 2
    CcRange = 512
    Starts <- MCAlarmStarts
    Times <- MCTimes
    Dates <- MCDates
    Alarms <- MCAlarms
INVARIANTS
    AlarmOnSeconds
CHECK_DEADLOCK FALSE
