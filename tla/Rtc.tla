---------------------------------- MODULE Rtc ----------------------------------
(***************************************************************************)
(* The calendar clock, libraries/RTC/RTCInt.cpp: RTC2 ticks eight times a  *)
(* second, its handler counts seconds, minutes, hours, days, months and    *)
(* years in timeInt and dateInt, and rings an alarm when the counter of    *)
(* the peripheral reaches a compare value.  The sketch sets and reads the  *)
(* fields one by one; the handler preempts it between any two, and runs    *)
(* the callback of an alarm, which may set and read them too.              *)
(***************************************************************************)
EXTENDS Integers, Sequences

CONSTANTS
    Sixty,         \* 60, the seconds of a minute and the minutes of an hour
    HalfDay,       \* 12, the hours of half a day
    TicksPerSec,   \* 8
    CcRange,       \* 2^24, the range of COUNTER and CC
    Starts,        \* clocks that have been set: time, date, time_Mode, and the
                   \* bounds: the calls and ticks that follow, and for how many
                   \* of the last ticks the sketch is quiet
    Times, Dates,  \* what the sketch sets the clock to
    Alarms         \* the alarms it asks for: mode, polled, time, pm, date

ASSUME RtcAssumption ==
    /\ {Sixty, HalfDay, TicksPerSec, CcRange} \subseteq Nat \ {0}
    /\ CcRange % TicksPerSec = 0
    /\ Times \subseteq [hour : Nat, minute : Nat, second : Nat]
    /\ Dates \subseteq [day : Nat, month : Nat, year : Nat]
    /\ \A s \in Starts :
         /\ s.time \in [hour : Nat, minute : 0 .. Sixty - 1, second : 0 .. Sixty - 1]
         /\ s.date \in [day : Nat, month : 0 .. 12, year : Nat]
         /\ s.time_Mode \in {"H24", "H12"}
    /\ \A a \in Alarms :
         /\ a.mode \in {"OFF", "SEC", "MMSS", "HHMMSS", "DDHHMMSS", "MMDDHHMMSS", "YYMMDDHHMMSS"}
         /\ a.time \in [hour : Nat, minute : Nat, second : Nat]
         /\ a.date \in [day : Nat, month : Nat, year : Nat]
         /\ a.polled \in BOOLEAN /\ a.pm \in BOOLEAN

DayHours == 2 * HalfDay
Hour     == Sixty * Sixty
DaySecs  == DayHours * Hour

\* The counter reaches a day ahead, and the other intervals of the alarms on a
\* time of day.
ASSUME CounterAssumption == DaySecs * TicksPerSec < CcRange

VARIABLES
    timeInt, dateInt, count,   \* the clock, and the ticks of this second
    time_Mode,                 \* "H24" or "H12"
    time, date,                \* what the sketch reads, and what it sets alarms by
    Alarm_Mode, alarm,         \* addDay, addMonth, sec_to_next_int, polled (type), set
    COUNTER, cc, intCompare,   \* the peripheral
    call,                      \* the call in progress: what it has still to do
    preempted,                 \* in a callback <<the call it preempted>>, else <<>>
    target,                    \* history: the alarm asked for, as time and date
    timely,                    \* history: the alarm is one that is kept, see below
    rang,                      \* history: the last tick rang it
    left                       \* history: calls and ticks still to come

clock  == <<timeInt, dateInt>>
rtc2   == <<COUNTER, cc, intCompare>>
alarms == <<Alarm_Mode, alarm>>
ghosts == <<target, timely, rang>>
vars   == <<clock, count, time_Mode, time, date, alarms, rtc2, call, preempted,
            ghosts, left>>

Idle     == [op |-> "idle"]
NoTarget == [mode |-> "OFF"]

\* When a call began in which a callback has come: no clock.
never == <<[hour |-> -1, minute |-> 0, second |-> 0], [day |-> -1, month |-> 0, year |-> 0]>>

\* After begin(), and setTime() and setDate() if they have been called.
Init ==
    /\ \E s \in Starts :
         /\ timeInt = s.time /\ dateInt = s.date /\ time_Mode = s.time_Mode
         /\ left = [calls |-> s.calls, ticks |-> s.ticks, quiet |-> s.quiet]
    /\ count = 0 /\ COUNTER = 0 /\ cc = 0 /\ intCompare = FALSE
    /\ time = [hour |-> 0, minute |-> 0, second |-> 0, Tmode |-> FALSE]
    /\ date = [day |-> 0, month |-> 0, year |-> 0]
    /\ Alarm_Mode = "OFF"
    /\ alarm = [addDay |-> 0, addMonth |-> FALSE, sec_to_next_int |-> 0,
                polled |-> TRUE, set |-> FALSE]
    /\ call = Idle /\ preempted = <<>>
    /\ target = NoTarget /\ timely = FALSE /\ rang = FALSE

-------------------------------------------------------------------------------
(* The calendar. *)

\* The day that is one too many, in a common and in a leap year.
daysPerMonth ==
    << <<32, 32>>, <<29, 30>>, <<32, 32>>, <<31, 31>>, <<32, 32>>, <<31, 31>>,
       <<32, 32>>, <<32, 32>>, <<31, 31>>, <<32, 32>>, <<31, 31>>, <<32, 32>> >>

isLeap(y) == y % 4 = 0

\* C's division, towards 0.
quotient(a, b) == IF a >= 0 THEN a \div b ELSE -((-a) \div b)

\* Mutant of rdn: January and February count from their own year.
rdnOwnYear(y, m, d) ==
    365 * y + quotient(y, 4) - quotient(y, 100) + quotient(y, 400)
        + quotient(153 * m - 457, 5) + d - 306

\* Rata Die: the number of a day.
rdn(y, m, d) ==
    LET yy == IF m < 3 THEN y - 1 ELSE y
        mm == IF m < 3 THEN m + 12 ELSE m
    IN  365 * yy + quotient(yy, 4) - quotient(yy, 100) + quotient(yy, 400)
            + quotient(153 * mm - 457, 5) + d - 306

\* Mutant of nextDay: February of a leap year ends a day early.
nextDayCommon(d) ==
    LET last == d.month \in 1 .. 12 /\ d.day + 1 = daysPerMonth[d.month][1]
    IN  {IF ~last THEN [d EXCEPT !.day = @ + 1]
         ELSE IF d.month < 12 THEN [d EXCEPT !.day = 1, !.month = @ + 1]
         ELSE [day |-> 1, month |-> 1, year |-> d.year + 1]}

\* The dates the handler may go on to.  A month of 0, the clock's before it is
\* set, reads in front of the table.
nextDay(d) ==
    LET lasts == IF d.month \in 1 .. 12
                 THEN {d.day + 1 = daysPerMonth[d.month][IF isLeap(d.year) THEN 2 ELSE 1]}
                 ELSE BOOLEAN
    IN  {IF ~last THEN [d EXCEPT !.day = @ + 1]
         ELSE IF d.month # 12 THEN [d EXCEPT !.day = 1, !.month = @ + 1]
         ELSE [day |-> 1, month |-> 1, year |-> d.year + 1] : last \in lasts}

nextTime(t) ==
    IF t.second + 1 # Sixty THEN [t EXCEPT !.second = @ + 1]
    ELSE IF t.minute + 1 # Sixty THEN [t EXCEPT !.second = 0, !.minute = @ + 1]
    ELSE [hour |-> IF t.hour + 1 = DayHours THEN 0 ELSE t.hour + 1, minute |-> 0, second |-> 0]

\* An hour of 24 or more is never followed by a midnight.
midnight(t) == t = [hour |-> DayHours - 1, minute |-> Sixty - 1, second |-> Sixty - 1]

onDate(mode) == mode \in {"DDHHMMSS", "MMDDHHMMSS", "YYMMDDHHMMSS"}

-------------------------------------------------------------------------------
(* The reference: days and seconds counted from the first of January of the    *)
(* year 0, a leap year, and which alarms the code keeps.                       *)

monthDays(m, y) ==
    CASE m = 2 -> IF isLeap(y) THEN 29 ELSE 28
      [] m \in {4, 6, 9, 11} -> 30
      [] OTHER -> 31

validDate(d) == d.year \in Nat /\ d.month \in 1 .. 12 /\ d.day \in 1 .. monthDays(d.month, d.year)
validTime(t) == t.hour < DayHours /\ t.minute < Sixty /\ t.second < Sixty
valid        == validTime(timeInt) /\ validDate(dateInt)

\* The days of a common year before each month.
before == <<0, 31, 59, 90, 120, 151, 181, 212, 243, 273, 304, 334>>

dayNumber(d) ==
    365 * d.year + (d.year + 3) \div 4 + before[d.month]
        + (IF d.month > 2 /\ isLeap(d.year) THEN 1 ELSE 0) + d.day - 1

secOfDay(t) == t.hour * Hour + t.minute * Sixty + t.second
instant     == dayNumber(dateInt) * DaySecs + secOfDay(timeInt)

\* The clock is at the alarm asked for: for an alarm on a date, at that date and
\* the time of day at which it was set.
atTarget ==
    LET t == target.time  d == target.date IN
    CASE target.mode = "SEC"    -> timeInt.second = t.second
      [] target.mode = "MMSS"   -> timeInt.second = t.second /\ timeInt.minute = t.minute
      [] target.mode = "HHMMSS" -> timeInt.second = t.second /\ timeInt.minute = t.minute
                                   /\ timeInt.hour = t.hour
      [] target.mode = "DDHHMMSS"     -> timeInt = t /\ dateInt.day = d.day
      [] target.mode = "MMDDHHMMSS"   -> timeInt = t /\ dateInt.day = d.day /\ dateInt.month = d.month
      [] target.mode = "YYMMDDHHMMSS" -> timeInt = t /\ dateInt = d

\* The years whose days rdn counts as the clock does: it drops the leap day of a
\* century, and divides towards 0 in the January and February of the year 0.
counted(d) == d.year < 100 /\ ~(d.year = 0 /\ d.month < 3)

\* The alarms that setAlarm gets right.  Set in the first second of the counter
\* (behind begin or an alarm), on a valid clock that does not move meanwhile, by a
\* call that no callback comes in, and never after an alarm on a date; not for an
\* earlier time of the same minute or hour, nor for an hour that is over today; a
\* date later this month (year), at most as far as the counter reaches.  And kept until the next call that sets an
\* alarm: it changes the interval before it arms, and may return without arming.
ahead == dayNumber(date) - dayNumber(dateInt)
kept ==
    /\ COUNTER < TicksPerSec /\ call.since = clock /\ valid
    /\ alarm.addDay = 0 \/ Alarm_Mode = "MMDDHHMMSS"
    /\ ~alarm.addMonth \/ Alarm_Mode = "DDHHMMSS"
    /\ LET t == time  i == timeInt IN
       CASE Alarm_Mode = "SEC"    -> t.second < Sixty
         [] Alarm_Mode = "MMSS"   -> /\ t.minute < Sixty /\ t.second < Sixty
                                     /\ t.minute # i.minute \/ t.second >= i.second
         [] Alarm_Mode = "HHMMSS" -> validTime(t) /\ secOfDay(t) >= secOfDay(i)
         [] onDate(Alarm_Mode)    ->
              /\ validDate(date) /\ ahead > 0 /\ ahead * DaySecs * TicksPerSec < CcRange
              /\ Alarm_Mode = "YYMMDDHHMMSS" => counted(date) /\ counted(dateInt)
              /\ Alarm_Mode # "YYMMDDHHMMSS" => date.year = dateInt.year
              /\ Alarm_Mode = "DDHHMMSS" => date.month = dateInt.month
              /\ Alarm_Mode = "MMDDHHMMSS" => ~isLeap(date.year)
         [] OTHER -> FALSE

-------------------------------------------------------------------------------
(* RTC2_IRQHandler: a tick, and the alarm if the counter has reached CC.  A  *)
(* CC just ahead of the counter, which the peripheral may miss, is met.      *)

secondsEnd == count + 1 = TicksPerSec
fires      == intCompare /\ (COUNTER + 1) % CcRange = cc

Tick ==
    /\ count' = IF secondsEnd THEN 0 ELSE count + 1
    /\ timeInt' = IF secondsEnd THEN nextTime(timeInt) ELSE timeInt
    /\ dateInt' \in IF secondsEnd /\ midnight(timeInt) THEN nextDay(dateInt) ELSE {dateInt}
    /\ left' = [left EXCEPT !.ticks = @ - 1]

\* Mutant of Compare: the interval is taken for ticks.
CompareInTicks ==
    /\ cc' = alarm.sec_to_next_int % CcRange
    /\ UNCHANGED alarm

\* The compare value of the next alarm is the interval computed before this one;
\* then the interval is computed anew.
Compare ==
    /\ cc' = (alarm.sec_to_next_int * TicksPerSec) % CcRange
    /\ LET y == dateInt'.year  m == dateInt'.month  d == dateInt'.day
           yearly == IF alarm.addDay = 5 THEN 366 * DaySecs ELSE alarm.sec_to_next_int
       IN  alarm' = [addDay   |-> CASE alarm.addDay = 0 -> 0
                                    [] alarm.addDay = 5 -> 1
                                    [] OTHER -> alarm.addDay + 1,
                     addMonth |-> alarm.addMonth,
                     sec_to_next_int |-> IF alarm.addMonth
                                         THEN (rdn(y, m + 1, d) - rdn(y, m, d)) * DaySecs
                                         ELSE yearly,
                     polled |-> alarm.polled,
                     set |-> alarm.set \/ alarm.polled]

\* The callback, if there is one, runs within the handler, and makes calls or none.
\* It is over before the next tick.
Callback ==
    \/ UNCHANGED <<call, preempted>>
    \/ /\ fires /\ ~alarm.polled
       /\ call' = Idle /\ preempted' = <<call>>

\* Mutant of RTC2_IRQHandler: the counter runs on behind an alarm.
RTC2_IRQHandlerRunsOn ==
    /\ left.ticks > 0 /\ preempted = <<>>
    /\ Tick
    /\ COUNTER' = (COUNTER + 1) % CcRange
    /\ IF fires THEN Compare ELSE UNCHANGED <<cc, alarm>>
    /\ rang' = fires
    /\ timely' = (timely /\ ~(rang /\ onDate(target.mode)))
    /\ Callback
    /\ UNCHANGED <<time_Mode, time, date, Alarm_Mode, intCompare, target>>

RTC2_IRQHandler ==
    /\ left.ticks > 0 /\ preempted = <<>>
    /\ Tick
    /\ COUNTER' = IF fires THEN 0 ELSE (COUNTER + 1) % CcRange
    /\ IF fires THEN Compare ELSE UNCHANGED <<cc, alarm>>
    /\ rang' = fires
    /\ timely' = (timely /\ ~(rang /\ onDate(target.mode)))
    /\ Callback
    /\ UNCHANGED <<time_Mode, time, date, Alarm_Mode, intCompare, target>>

-------------------------------------------------------------------------------
(* The sketch, and the callback: a call is the steps it has still to do,     *)
(* each a name and what it is given.                                         *)

sketchRuns == left.ticks >= left.quiet

begins(op, todo) ==
    /\ sketchRuns /\ call = Idle /\ left.calls > 0
    /\ left' = [left EXCEPT !.calls = @ - 1]
    /\ call' = [op |-> op, todo |-> todo, since |-> clock, sec |-> 0, days |-> 0]
    /\ UNCHANGED preempted

step(f) ==
    /\ sketchRuns /\ call # Idle /\ call.todo # <<>> /\ Head(call.todo)[1] = f
    /\ UNCHANGED <<preempted, left>>
arg  == Head(call.todo)
done == call' = [call EXCEPT !.todo = Tail(@)]

Return ==
    /\ call # Idle /\ call.todo = <<>>
    /\ call' = Idle
    /\ UNCHANGED <<clock, count, time_Mode, time, date, alarms, rtc2, preempted, ghosts, left>>

\* The call that was preempted goes on.  What it began with no longer counts, and an
\* alarm set meanwhile is not kept by a call that sets the clock or an alarm.
CallbackReturn ==
    /\ preempted # <<>> /\ call = Idle
    /\ call' = IF preempted[1] = Idle THEN Idle ELSE [preempted[1] EXCEPT !.since = never]
    /\ preempted' = <<>>
    /\ timely' = (timely /\ preempted[1].op \notin {"set", "setAlarm"})
    /\ UNCHANGED <<clock, count, time_Mode, time, date, alarms, rtc2, target, rang, left>>

\* setTime and setDate, or one of the functions they call.
timeSteps(t, pm) ==
    << <<"hour", t.hour, pm>>, <<"minute", t.minute>>,
       <<"second", t.second>> >>
dateSteps(d) ==
    << <<"day", d.day>>, <<"month", d.month>>, <<"year", d.year>> >>

Set(steps) ==
    /\ \E some \in {steps} \cup {<<steps[k]>> : k \in DOMAIN steps} : begins("set", some)
    /\ target' = NoTarget
    /\ timely' = FALSE
    /\ UNCHANGED <<clock, count, time_Mode, time, date, alarms, rtc2, rang>>

\* What is out of its range is not set; a year may be anything.
SetHour ==
    /\ step("hour") /\ done
    /\ timeInt' = [timeInt EXCEPT !.hour =
           CASE time_Mode = "H24" /\ arg[2] < DayHours -> arg[2]
             [] time_Mode = "H12" /\ arg[2] <= HalfDay -> IF arg[3] THEN arg[2] + HalfDay ELSE arg[2]
             [] OTHER -> @]
    /\ UNCHANGED <<dateInt, count, time_Mode, time, date, alarms, rtc2, ghosts>>

SetTimeField(f) ==
    /\ step(f) /\ done
    /\ timeInt' = IF arg[2] < Sixty THEN [timeInt EXCEPT ![f] = arg[2]] ELSE timeInt
    /\ UNCHANGED <<dateInt, count, time_Mode, time, date, alarms, rtc2, ghosts>>

SetDateField(f) ==
    /\ step(f) /\ done
    /\ dateInt' = IF f = "year" \/ arg[2] \in 1 .. (IF f = "day" THEN 31 ELSE 12)
                  THEN [dateInt EXCEPT ![f] = arg[2]] ELSE dateInt
    /\ UNCHANGED <<timeInt, count, time_Mode, time, date, alarms, rtc2, ghosts>>

\* Mutant of getSteps: the least significant first.
getStepsBackwards == << <<"getSecond">>, <<"getMinute">>, <<"getHour">> >>

getSteps == << <<"getHour">>, <<"getMinute">>, <<"getSecond">> >>

GetTime ==
    /\ begins("getTime", getSteps)
    /\ UNCHANGED <<clock, count, time_Mode, time, date, alarms, rtc2, ghosts>>

GetHour ==
    /\ step("getHour") /\ done
    /\ LET pm == time_Mode = "H12" /\ timeInt.hour > HalfDay
       IN  time' = [time EXCEPT !.hour  = IF pm THEN timeInt.hour - HalfDay ELSE timeInt.hour,
                                !.Tmode = IF time_Mode = "H12" THEN pm ELSE @]
    /\ UNCHANGED <<clock, count, time_Mode, date, alarms, rtc2, ghosts>>

GetTimeField(f, getter) ==
    /\ step(getter) /\ done
    /\ time' = [time EXCEPT ![f] = timeInt[f]]
    /\ UNCHANGED <<clock, count, time_Mode, date, alarms, rtc2, ghosts>>

\* getDate, which no property is about but the alarm's: date is written.
GetDate ==
    /\ begins("getDate", << <<"getDay">>, <<"getMonth">>, <<"getYear">> >>)
    /\ UNCHANGED <<clock, count, time_Mode, time, date, alarms, rtc2, ghosts>>

GetDateField(f, getter) ==
    /\ step(getter) /\ done
    /\ date' = [date EXCEPT ![f] = dateInt[f]]
    /\ UNCHANGED <<clock, count, time_Mode, time, alarms, rtc2, ghosts>>

AlarmClearFlag ==
    /\ sketchRuns /\ call = Idle /\ alarm.set
    /\ alarm' = [alarm EXCEPT !.set = FALSE]
    /\ UNCHANGED <<clock, count, time_Mode, time, date, Alarm_Mode, rtc2, call,
                   preempted, ghosts, left>>

-------------------------------------------------------------------------------
(* enableAlarm, the fields of time and date that the sketch fills in, and      *)
(* setAlarm: the readings of the clock, each with what it does to sec.         *)

alarmSteps(mode) ==
    LET all == << <<"alarmHour">>, <<"alarmMinute">>, <<"alarmSecond">>, <<"arm">> >>
    IN  CASE mode = "HHMMSS" -> all
          [] mode = "MMSS"   -> SubSeq(all, 2, 4)
          [] mode = "SEC"    -> SubSeq(all, 3, 4)
          [] onDate(mode)    -> << <<"alarmDays">>, <<"arm">> >>
          [] mode = "OFF"    -> << <<"arm">> >>

SetAlarm(a) ==
    /\ begins("setAlarm", alarmSteps(a.mode))
    /\ Alarm_Mode' = a.mode
    /\ alarm' = [alarm EXCEPT !.polled = a.polled]
    /\ time' = [hour |-> a.time.hour, minute |-> a.time.minute, second |-> a.time.second,
                Tmode |-> a.pm]
    /\ date' = a.date
    /\ timely' = FALSE
    /\ UNCHANGED <<clock, count, time_Mode, rtc2, target, rang>>

\* The days to the date, and the interval to the alarm after it.  A year that
\* is today's sets no alarm.
AlarmDays ==
    /\ step("alarmDays")
    /\ LET d == dateInt  a == date
           days ==
             CASE Alarm_Mode = "YYMMDDHHMMSS" ->
                    rdn(a.year, a.month, a.day) - rdn(d.year, d.month, d.day)
               [] Alarm_Mode = "MMDDHHMMSS" ->
                    LET this == rdn(0, a.month, a.day) - rdn(0, d.month, d.day)
                    IN  IF this # 0 THEN this
                        ELSE rdn(d.year + 1, a.month, a.day) - rdn(d.year, d.month, d.day)
               [] OTHER ->    \* DDHHMMSS
                    LET this == rdn(d.year, a.month, a.day) - rdn(d.year, d.month, d.day)
                    IN  IF this # 0 THEN this
                        ELSE rdn(d.year, d.month + 1, a.day) - rdn(d.year, d.month, d.day)
       IN  /\ call' = [call EXCEPT !.days = days,
                           !.todo = IF Alarm_Mode = "YYMMDDHHMMSS" /\ days = 0 THEN <<>> ELSE Tail(@)]
           /\ alarm' =
                CASE Alarm_Mode = "YYMMDDHHMMSS" -> [alarm EXCEPT !.sec_to_next_int = -1]
                  [] Alarm_Mode = "MMDDHHMMSS" ->
                       [alarm EXCEPT !.sec_to_next_int = (IF isLeap(d.year) THEN 366 ELSE 365) * DaySecs,
                                     !.addDay = (d.year % 4) + 1]
                  [] OTHER ->
                       [alarm EXCEPT !.sec_to_next_int =
                                         (rdn(d.year, d.month + 2, a.day)
                                          - rdn(d.year, d.month + 1, a.day)) * DaySecs,
                                     !.addMonth = TRUE]
    /\ UNCHANGED <<clock, count, time_Mode, time, date, Alarm_Mode, rtc2, ghosts>>

\* What a unit adds to sec: one that is earlier than now comes with a carry of
\* the next unit, which is taken back from it unless it is none.
carry(sec, to, now, unit) ==
    LET more == (IF to < now THEN Sixty - now + to ELSE to - now) * unit
    IN  IF sec = 0 THEN more
        ELSE IF to < now THEN sec - (Sixty * unit - more)
        ELSE sec + more

AlarmHour ==
    /\ step("alarmHour")
    /\ LET h == IF time_Mode = "H12" /\ time.Tmode THEN time.hour + HalfDay ELSE time.hour
       IN  /\ time' = [time EXCEPT !.hour = h]
           /\ call' = [call EXCEPT !.todo = Tail(@), !.sec =
                  (IF h < timeInt.hour THEN DayHours - timeInt.hour + time.second
                   ELSE h - timeInt.hour) * Hour]
    /\ alarm' = [alarm EXCEPT !.sec_to_next_int = DaySecs]
    /\ UNCHANGED <<clock, count, time_Mode, date, Alarm_Mode, rtc2, ghosts>>

AlarmMinute ==
    /\ step("alarmMinute")
    /\ call' = [call EXCEPT !.todo = Tail(@),
                           !.sec = carry(@, time.minute, timeInt.minute, Sixty)]
    /\ alarm' = [alarm EXCEPT !.sec_to_next_int = IF Alarm_Mode = "MMSS" THEN Hour ELSE @]
    /\ UNCHANGED <<clock, count, time_Mode, time, date, Alarm_Mode, rtc2, ghosts>>

AlarmSecond ==
    /\ step("alarmSecond")
    /\ call' = [call EXCEPT !.todo = Tail(@),
                           !.sec = carry(@, time.second, timeInt.second, 1)]
    /\ alarm' = [alarm EXCEPT !.sec_to_next_int = IF Alarm_Mode = "SEC" THEN Sixty ELSE @]
    /\ UNCHANGED <<clock, count, time_Mode, time, date, Alarm_Mode, rtc2, ghosts>>

\* An alarm for this very moment waits for the next.
waitSecs ==
    LET sec == call.sec + call.days * DaySecs
    IN  CASE sec = 0 /\ Alarm_Mode = "HHMMSS" -> DaySecs
          [] sec = 0 /\ Alarm_Mode = "MMSS"   -> Hour
          [] sec = 0 /\ Alarm_Mode = "SEC"    -> Sixty
          [] OTHER -> sec

AlarmArm ==
    /\ step("arm") /\ done
    /\ cc' = (waitSecs * TicksPerSec) % CcRange
    /\ intCompare' = TRUE
    /\ target' = [mode |-> Alarm_Mode, date |-> date,
                  time |-> IF onDate(Alarm_Mode) THEN timeInt ELSE time]
    /\ timely' = kept
    /\ rang' = FALSE
    /\ UNCHANGED <<clock, count, time_Mode, time, date, alarms, COUNTER>>

Sketch ==
    \/ \E t \in Times, pm \in BOOLEAN : Set(timeSteps(t, pm))
    \/ \E d \in Dates : Set(dateSteps(d))
    \/ SetHour \/ SetTimeField("minute") \/ SetTimeField("second")
    \/ \E f \in {"day", "month", "year"} : SetDateField(f)
    \/ GetTime \/ GetHour \/ GetTimeField("minute", "getMinute") \/ GetTimeField("second", "getSecond")
    \/ GetDate \/ GetDateField("day", "getDay") \/ GetDateField("month", "getMonth")
    \/ GetDateField("year", "getYear")
    \/ \E a \in Alarms : SetAlarm(a)
    \/ AlarmDays \/ AlarmHour \/ AlarmMinute \/ AlarmSecond \/ AlarmArm
    \/ AlarmClearFlag \/ Return \/ CallbackReturn

Next == RTC2_IRQHandler \/ Sketch

Spec == Init /\ [][Next]_vars

-------------------------------------------------------------------------------
(* Correctness. *)

\* Minutes and seconds keep to their range, whatever is set and when.  An hour
\* may not: 12 p.m. sets 24, which is never followed by a midnight.
TypeOK ==
    /\ timeInt \in [hour : Nat, minute : 0 .. Sixty - 1, second : 0 .. Sixty - 1]
    /\ dateInt \in [day : Nat, month : 0 .. 12, year : Nat]
    /\ count \in 0 .. TicksPerSec - 1 /\ time_Mode \in {"H24", "H12"}
    /\ COUNTER \in 0 .. CcRange - 1 /\ cc \in 0 .. CcRange - 1
    /\ intCompare \in BOOLEAN /\ timely \in BOOLEAN /\ rang \in BOOLEAN
    /\ alarm \in [addDay : 0 .. 5, addMonth : BOOLEAN, sec_to_next_int : Int,
                  polled : BOOLEAN, set : BOOLEAN]
    /\ time \in [hour : Nat, minute : Nat, second : Nat, Tmode : BOOLEAN]
    /\ date \in [day : Nat, month : Nat, year : Nat]

\* The counter that alarms are compared with and the clock that they are meant
\* for count the same seconds: although an alarm resets the one and not the
\* other, they begin a second at the same tick.
CountTogether == COUNTER % TicksPerSec = count

\* Every eight ticks a valid clock goes on by one second, over the ends of
\* minutes, hours, days, months and years, leap years or not.
ClockAdvances ==
    [][RTC2_IRQHandler /\ valid => valid' /\ instant' = instant + (IF secondsEnd THEN 1 ELSE 0)]_vars

\* The day numbers by which the days to an alarm are counted are those of the
\* clock's calendar, for the years of a century but the January and February of
\* its first.
RdnCounts ==
    validDate(dateInt) /\ counted(dateInt) =>
        rdn(dateInt.year, dateInt.month, dateInt.day) - rdn(0, 3, 1)
            = dayNumber(dateInt) - dayNumber([day |-> 1, month |-> 3, year |-> 0])

got   == call.op = "getTime" /\ call.todo = <<>>
shown == [hour |-> time.hour + (IF time_Mode = "H12" /\ time.Tmode THEN HalfDay ELSE 0),
          minute |-> time.minute, second |-> time.second]

\* getTime, which the handler may interrupt between any two readings, is never
\* ahead of the clock, unless midnight falls in the call; and unless a minute
\* ends in the call, it returns a time of the call.  Not so if a callback that
\* comes in the call sets the clock or fills in time.
GetTimeBehind ==
    got /\ validTime(timeInt) /\ call.since[2] = dateInt =>
        /\ secOfDay(shown) <= secOfDay(timeInt)
        /\ secOfDay(timeInt) \div Sixty = secOfDay(call.since[1]) \div Sixty =>
               secOfDay(shown) >= secOfDay(call.since[1])

\* What setAlarm does, for the alarms that it gets right: one on a time of day rings
\* when the clock shows it, and at no other time ever after; one on a date rings on
\* that date, at the time of day at which it was set.  RTCInt.cpp 357-362 say more,
\* and the code breaks it: that an alarm on a date matches the time of day asked
\* for, which setAlarm does not read, and that a match comes again, when for an
\* alarm on a date only the first ring is the one asked for: a month of ticks does
\* not fit the counter.
AlarmMatches == rang /\ timely => atTarget

\* "SEC  alarm match on seconds" (RTCInt.cpp 357), whenever it is set.
AlarmOnSeconds == rang /\ target.mode = "SEC" => timeInt.second = target.time.second

===============================================================================
