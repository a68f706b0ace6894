--------------------------------- MODULE MCRtc ---------------------------------
(* The calendar clock on small instances: minutes of three seconds, days of    *)
(* four hours, and the calendar as it is.                                      *)
EXTENDS Rtc

hms(h, m, s) == [hour |-> h, minute |-> m, second |-> s]
dmy(d, m, y) == [day |-> d, month |-> m, year |-> y]

\* One call, an alarm among them, in the two days to the first of March and a bit;
\* two of them, from two seconds to midnight on into the day after.
MCAlarmStarts ==
    {[time |-> t, date |-> dmy(27, 2, 3), time_Mode |-> "H24", calls |-> 1,
      ticks |-> 150, quiet |-> 146] :
        t \in {hms(1, 1, 1), hms(3, 2, 0)}}
    \cup {[time |-> hms(3, 2, 1), date |-> dmy(28, 2, 3), time_Mode |-> "H24", calls |-> 2,
           ticks |-> 30, quiet |-> 27]}

MCStarts == MCAlarmStarts \cup UNION {
    \* The last second of every day of nine years.
    {[time |-> hms(DayHours - 1, Sixty - 1, Sixty - 1), date |-> d, time_Mode |-> "H24",
      calls |-> 0, ticks |-> TicksPerSec, quiet |-> 0] :
        d \in {x \in [day : 1 .. 31, month : 1 .. 12, year : 0 .. 8] : validDate(x)}},
    \* A day and more without a call.
    {[time |-> hms(0, 0, 0), date |-> dmy(28, 2, 3), time_Mode |-> "H12",
      calls |-> 0, ticks |-> 40 * TicksPerSec, quiet |-> 0]},
    \* Two calls, anywhere in some seconds around a midnight; a clock never set.
    {[time |-> t, date |-> d, time_Mode |-> f, calls |-> 2, ticks |-> 2 * TicksPerSec, quiet |-> 0] :
        t \in {hms(3, 2, 1), hms(2, 1, 2), hms(0, 0, 0)},
        d \in {dmy(31, 12, 4), dmy(0, 0, 0)}, f \in {"H24", "H12"}},
    \* Three, so that the callback of the first makes the third within the second.
    {[time |-> hms(0, 0, 2), date |-> dmy(28, 2, 3), time_Mode |-> "H24", calls |-> 3,
      ticks |-> 4, quiet |-> 2]}}

MCTimes == {hms(2, 2, 2), hms(1, 3, 0)}
MCDates == {dmy(30, 2, 5), dmy(29, 2, 4)}

\* The first of March, and for the alarm on a day of the month one of this month.
MCAlarms ==
    {[mode |-> m, polled |-> m # "MMSS", time |-> hms(h, 1, s), pm |-> FALSE,
      date |-> IF m = "DDHHMMSS" THEN dmy(28, 2, 3) ELSE dmy(1, 3, 3)] :
        m \in {"OFF", "SEC", "MMSS", "HHMMSS", "DDHHMMSS", "MMDDHHMMSS", "YYMMDDHHMMSS"},
        h \in {0, 3}, s \in {0, 2}}
===============================================================================
