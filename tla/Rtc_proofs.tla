------------------------------ MODULE Rtc_proofs -------------------------------
(***************************************************************************)
(* For every year, and any division of the day and of the second: the      *)
(* clock advances as the calendar does, the day numbers of the alarms are  *)
(* those of the calendar, and the counter that alarms are compared with    *)
(* begins its seconds with the clock.                                      *)
(***************************************************************************)
EXTENDS Rtc, Division, SequenceTheorems

Time == [hour : Nat, minute : 0 .. Sixty - 1, second : 0 .. Sixty - 1]
Date == [day : Nat, month : 0 .. 12, year : Nat]

\* The derived constants.
LEMMA Constants ==
    /\ Sixty \in Nat \ {0} /\ HalfDay \in Nat \ {0}
    /\ TicksPerSec \in Nat \ {0} /\ CcRange \in Nat \ {0}
    /\ DayHours \in Nat \ {0} /\ Hour \in Nat \ {0} /\ DaySecs \in Nat \ {0}
<1>1. /\ Sixty \in Nat \ {0} /\ HalfDay \in Nat \ {0}
      /\ TicksPerSec \in Nat \ {0} /\ CcRange \in Nat \ {0}
  BY RtcAssumption
<1>2. DayHours \in Nat \ {0} /\ Hour \in Nat \ {0}
  BY <1>1 DEF DayHours, Hour
<1>3. DaySecs \in Nat \ {0}
  BY <1>2 DEF DaySecs
<1> QED
  BY <1>1, <1>2, <1>3

-------------------------------------------------------------------------------
(* The calendar. *)

\* A second later.
LEMMA NextTime ==
    ASSUME NEW t \in Time, validTime(t)
    PROVE  /\ nextTime(t) \in Time /\ validTime(nextTime(t))
           /\ midnight(t) => /\ secOfDay(t) = DaySecs - 1
                             /\ secOfDay(nextTime(t)) = 0
           /\ ~midnight(t) => secOfDay(nextTime(t)) = secOfDay(t) + 1
           /\ secOfDay(t) \in Nat
<1> USE Constants
<1> DEFINE h == t.hour  m == t.minute  s == t.second
<1>1. /\ h \in Nat /\ m \in 0 .. Sixty - 1 /\ s \in 0 .. Sixty - 1 /\ h < DayHours
      /\ t = [hour |-> h, minute |-> m, second |-> s]
  BY DEF Time, validTime
<1> HIDE DEF h, m, s
<1>2. secOfDay(t) = h * Hour + m * Sixty + s
  BY <1>1 DEF secOfDay
<1>3. h * Hour \in Nat /\ m * Sixty \in Nat
  BY <1>1
<1>4. CASE s + 1 # Sixty
  <2>1. nextTime(t) = [hour |-> h, minute |-> m, second |-> s + 1] /\ ~midnight(t)
    BY <1>1, <1>4 DEF nextTime, midnight
  <2> QED
    BY <1>1, <1>2, <1>3, <1>4, <2>1 DEF Time, validTime, secOfDay
<1>5. CASE s + 1 = Sixty /\ m + 1 # Sixty
  <2>1. nextTime(t) = [hour |-> h, minute |-> m + 1, second |-> 0] /\ ~midnight(t)
    BY <1>1, <1>5 DEF nextTime, midnight
  <2>2. (m + 1) * Sixty = m * Sixty + s + 1
    BY <1>1, <1>5
  <2>3. secOfDay(nextTime(t)) = h * Hour + (m + 1) * Sixty + 0
    BY <2>1 DEF secOfDay
  <2> QED
    BY <1>1, <1>2, <1>3, <1>5, <2>1, <2>2, <2>3 DEF Time, validTime
<1>6. CASE s + 1 = Sixty /\ m + 1 = Sixty
  <2>1. nextTime(t) = [hour |-> IF h + 1 = DayHours THEN 0 ELSE h + 1,
                       minute |-> 0, second |-> 0]
    BY <1>1, <1>6 DEF nextTime
  <2>2. midnight(t) <=> h + 1 = DayHours
    BY <1>1, <1>6 DEF midnight
  <2>3. m * Sixty + s + 1 = Hour
    <3>1. (m + 1) * Sixty = m * Sixty + Sixty /\ (m + 1) * Sixty = Hour
      BY <1>1, <1>6 DEF Hour
    <3> QED
      BY <1>1, <1>3, <1>6, <3>1
  <2>4. (h + 1) * Hour = h * Hour + Hour
    BY <1>1
  <2>5. secOfDay(t) + 1 = (h + 1) * Hour
    BY <1>1, <1>2, <1>3, <2>3, <2>4
  <2>6. nextTime(t) \in Time /\ validTime(nextTime(t))
    BY <1>1, <2>1 DEF Time, validTime
  <2>7. CASE h + 1 = DayHours
    <3>1. secOfDay(nextTime(t)) = 0 * Hour + 0 * Sixty + 0
      BY <2>1, <2>7 DEF secOfDay
    <3> QED
      BY <1>1, <1>2, <1>3, <2>2, <2>5, <2>6, <2>7, <3>1 DEF DaySecs
  <2>8. CASE h + 1 # DayHours
    <3>1. secOfDay(nextTime(t)) = (h + 1) * Hour + 0 * Sixty + 0
      BY <2>1, <2>8 DEF secOfDay
    <3> QED
      BY <1>1, <1>2, <1>3, <2>2, <2>4, <2>5, <2>6, <2>8, <3>1
  <2> QED
    BY <2>7, <2>8
<1> QED
  BY <1>1, <1>4, <1>5, <1>6

\* The table holds the days of the months, and one.
LEMMA TableOfDays ==
    ASSUME NEW m \in 1 .. 12, NEW y \in Nat
    PROVE  daysPerMonth[m][IF isLeap(y) THEN 2 ELSE 1] = monthDays(m, y) + 1
<1>1. m \in {1, 2, 3, 4, 5, 6, 7, 8, 9, 10, 11, 12}
  OBVIOUS
<1> QED
  BY <1>1 DEF daysPerMonth, monthDays

\* A day later, in every year.
LEMMA NextDay ==
    ASSUME NEW d \in Date, validDate(d)
    PROVE  \A n \in nextDay(d) :
             n \in Date /\ validDate(n) /\ dayNumber(n) = dayNumber(d) + 1
<1> DEFINE dd == d.day  m == d.month  y == d.year
<1>1. /\ dd \in Nat /\ m \in 1 .. 12 /\ y \in Nat
      /\ d = [day |-> dd, month |-> m, year |-> y]
      /\ dd \in 1 .. monthDays(m, y)
  BY DEF Date, validDate
<1> HIDE DEF dd, m, y
<1>2. monthDays(m, y) \in 28 .. 31
  BY <1>1 DEF monthDays
<1>3. nextDay(d) = {IF dd # monthDays(m, y) THEN [d EXCEPT !.day = @ + 1]
                    ELSE IF m # 12 THEN [d EXCEPT !.day = 1, !.month = @ + 1]
                    ELSE [day |-> 1, month |-> 1, year |-> y + 1]}
  <2>1. (dd + 1 = daysPerMonth[m][IF isLeap(y) THEN 2 ELSE 1]) <=> dd = monthDays(m, y)
    BY <1>1, <1>2, TableOfDays
  <2> QED
    BY <1>1, <2>1 DEF nextDay
<1>4. CASE dd # monthDays(m, y)
  <2>1. \A n \in nextDay(d) : n = [day |-> dd + 1, month |-> m, year |-> y]
    BY <1>1, <1>3, <1>4
  <2>2. dd + 1 \in 1 .. monthDays(m, y)
    BY <1>1, <1>2, <1>4
  <2>3. before[m] \in Int
    BY <1>1 DEF before
  <2>4. (y + 3) \div 4 \in Int
    BY <1>1
  <2>5. \A n \in nextDay(d) : n \in Date /\ validDate(n)
    BY <1>1, <2>1, <2>2 DEF Date, validDate
  <2>6. \A n \in nextDay(d) : dayNumber(n) = dayNumber(d) + 1
    BY <1>1, <2>1, <2>3, <2>4 DEF dayNumber
  <2> QED
    BY <2>5, <2>6
<1>5. CASE dd = monthDays(m, y) /\ m # 12
  <2>1. \A n \in nextDay(d) : n = [day |-> 1, month |-> m + 1, year |-> y]
    BY <1>1, <1>3, <1>5
  <2>2. m \in {1, 2, 3, 4, 5, 6, 7, 8, 9, 10, 11}
    BY <1>1, <1>5
  <2>3. before[m + 1] + (IF m + 1 > 2 /\ isLeap(y) THEN 1 ELSE 0)
          = before[m] + (IF m > 2 /\ isLeap(y) THEN 1 ELSE 0) + monthDays(m, y)
    BY <1>1, <2>2 DEF before, monthDays
  <2>4. monthDays(m + 1, y) \in 28 .. 31 /\ before[m] \in Int /\ before[m + 1] \in Int
    BY <1>1, <2>2 DEF monthDays, before
  <2>5. (y + 3) \div 4 \in Int
    BY <1>1
  <2> QED
    BY <1>1, <1>5, <2>1, <2>2, <2>3, <2>4, <2>5 DEF Date, validDate, dayNumber
<1>6. CASE dd = monthDays(m, y) /\ m = 12
  <2>1. \A n \in nextDay(d) : n = [day |-> 1, month |-> 1, year |-> y + 1]
    BY <1>1, <1>3, <1>6
  <2>2. monthDays(12, y) = 31 /\ monthDays(1, y + 1) = 31
    BY DEF monthDays
  <2>3. before[1] = 0 /\ before[12] = 334
    BY DEF before
  <2>4. (y + 1 + 3) \div 4 = ((y + 3) \div 4) + (IF isLeap(y) THEN 1 ELSE 0)
    BY <1>1 DEF isLeap
  <2>5. (y + 3) \div 4 \in Int
    BY <1>1
  <2> QED
    BY <1>1, <1>6, <2>1, <2>2, <2>3, <2>4, <2>5 DEF Date, validDate, dayNumber
<1> QED
  BY <1>4, <1>5, <1>6

\* The day numbers that alarms are counted with: a leap year every four years,
\* for a century; before the year 0, whose January and February are left out,
\* the division is towards 0.
LEMMA DayNumbers ==
    ASSUME NEW y \in Nat, NEW m \in 1 .. 12, NEW d \in Nat,
           y < 100, ~(y = 0 /\ m < 3)
    PROVE  rdn(y, m, d) - rdn(0, 3, 1)
             = dayNumber([day |-> d, month |-> m, year |-> y])
                 - dayNumber([day |-> 1, month |-> 3, year |-> 0])
<1>1. rdn(0, 3, 1) = 0 + 0 - 0 + 0 + 0 + 1 - 306
  BY DEF rdn, quotient
<1>2. dayNumber([day |-> 1, month |-> 3, year |-> 0]) = 60
  BY DEF dayNumber, before, isLeap
<1>3. m \in {1, 2, 3, 4, 5, 6, 7, 8, 9, 10, 11, 12}
  OBVIOUS
<1>4. ASSUME m < 3
      PROVE  /\ rdn(y, m, d) = 365 * (y - 1) + ((y - 1) \div 4)
                                 + ((153 * (m + 12) - 457) \div 5) + d - 306
             /\ dayNumber([day |-> d, month |-> m, year |-> y])
                  = 365 * y + ((y + 3) \div 4) + before[m] + d - 1
  <2>1. /\ y - 1 \in Nat /\ (y - 1) \div 100 = 0 /\ (y - 1) \div 400 = 0
        /\ 153 * (m + 12) - 457 >= 0
    BY <1>4
  <2>2. rdn(y, m, d) = 365 * (y - 1) + ((y - 1) \div 4) - 0 + 0
                         + ((153 * (m + 12) - 457) \div 5) + d - 306
    BY <1>4, <2>1 DEF rdn, quotient
  <2>3. before[m] \in Int /\ (y + 3) \div 4 \in Int
    BY <1>3 DEF before
  <2> QED
    BY <1>4, <2>2, <2>3 DEF dayNumber
<1>5. ASSUME ~(m < 3)
      PROVE  /\ rdn(y, m, d) = 365 * y + (y \div 4)
                                 + ((153 * m - 457) \div 5) + d - 306
             /\ dayNumber([day |-> d, month |-> m, year |-> y])
                  = 365 * y + ((y + 3) \div 4) + before[m]
                      + (IF isLeap(y) THEN 1 ELSE 0) + d - 1
  BY <1>3, <1>5 DEF rdn, quotient, dayNumber
<1>6. CASE m < 3
  <2>1. ((153 * (m + 12) - 457) \div 5) = before[m] + 306
    BY <1>3, <1>6 DEF before
  <2>2. before[m] \in Int /\ ((y + 3) \div 4) = ((y - 1) \div 4) + 1
    BY <1>6 DEF before
  <2> QED
    BY <1>1, <1>2, <1>4, <1>6, <2>1, <2>2
<1>7. CASE ~(m < 3)
  <2>1. ((153 * m - 457) \div 5) = before[m] - 59
    BY <1>3, <1>7 DEF before
  <2>2. ((y + 3) \div 4) + (IF isLeap(y) THEN 1 ELSE 0) = (y \div 4) + 1
    BY DEF isLeap
  <2>3. before[m] \in Int /\ (y \div 4) \in Int
    BY <1>3 DEF before
  <2> QED
    BY <1>1, <1>2, <1>5, <1>7, <2>1, <2>2, <2>3
<1> QED
  BY <1>6, <1>7

-------------------------------------------------------------------------------
(* Types. *)

\* What a call has still to do: every step with what it is given.
Steps ==
    {<<"hour", h, pm>> : h \in Nat, pm \in BOOLEAN}
    \cup {<<f, n>> : f \in {"minute", "second", "day", "month", "year"}, n \in Nat}
    \cup {<<f>> : f \in {"getHour", "getMinute", "getSecond", "getDay", "getMonth",
                         "getYear", "alarmHour", "alarmMinute", "alarmSecond",
                         "alarmDays", "arm"}}

CallOK ==
    call # Idle => /\ call.todo \in Seq(Steps)
                   /\ call.sec \in Int /\ call.days \in Int
                   /\ call = [op |-> call.op, todo |-> call.todo, since |-> call.since,
                              sec |-> call.sec, days |-> call.days]

\* So has one that a callback has preempted.
PreemptedOK ==
    preempted # <<>> =>
        LET c == preempted[1] IN
        /\ preempted = <<c>>
        /\ c # Idle => /\ c.todo \in Seq(Steps)
                        /\ c.sec \in Int /\ c.days \in Int
                        /\ c = [op |-> c.op, todo |-> c.todo, since |-> c.since,
                                sec |-> c.sec, days |-> c.days]

Types ==
    /\ TypeOK /\ CallOK
    /\ Alarm_Mode \in {"OFF", "SEC", "MMSS", "HHMMSS", "DDHHMMSS", "MMDDHHMMSS",
                       "YYMMDDHHMMSS"}

TypeInv == Types /\ PreemptedOK

\* A step that is given a value.
LEMMA StepArgument ==
    ASSUME NEW f, f \in {"hour", "minute", "second", "day", "month", "year"},
           NEW s \in Steps, s[1] = f
    PROVE  s[2] \in Nat
  BY DEF Steps

\* The steps of the calls are steps.
LEMMA CallSteps ==
    /\ \A t \in Times, pm \in BOOLEAN : timeSteps(t, pm) \in Seq(Steps)
    /\ \A d \in Dates : dateSteps(d) \in Seq(Steps)
    /\ getSteps \in Seq(Steps)
    /\ << <<"getDay">>, <<"getMonth">>, <<"getYear">> >> \in Seq(Steps)
<1>1. ASSUME NEW t \in Times, NEW pm \in BOOLEAN
      PROVE  timeSteps(t, pm) \in Seq(Steps)
  <2>1. t.hour \in Nat /\ t.minute \in Nat /\ t.second \in Nat
    BY RtcAssumption
  <2>2. <<"hour", t.hour, pm>> \in Steps
    BY <2>1 DEF Steps
  <2>3. <<"minute", t.minute>> \in Steps /\ <<"second", t.second>> \in Steps
    BY <2>1 DEF Steps
  <2> QED
    BY <2>2, <2>3 DEF timeSteps
<1>2. ASSUME NEW d \in Dates
      PROVE  dateSteps(d) \in Seq(Steps)
  <2>1. d.day \in Nat /\ d.month \in Nat /\ d.year \in Nat
    BY RtcAssumption
  <2>2. /\ <<"day", d.day>> \in Steps /\ <<"month", d.month>> \in Steps
        /\ <<"year", d.year>> \in Steps
    BY <2>1 DEF Steps
  <2> QED
    BY <2>2 DEF dateSteps
<1>3. getSteps \in Seq(Steps)
  <2>1. <<"getHour">> \in Steps /\ <<"getMinute">> \in Steps /\ <<"getSecond">> \in Steps
    BY DEF Steps
  <2> QED
    BY <2>1 DEF getSteps
<1>4. << <<"getDay">>, <<"getMonth">>, <<"getYear">> >> \in Seq(Steps)
  <2>1. <<"getDay">> \in Steps /\ <<"getMonth">> \in Steps /\ <<"getYear">> \in Steps
    BY DEF Steps
  <2> QED
    BY <2>1
<1> QED
  BY <1>1, <1>2, <1>3, <1>4

\* So are those of setAlarm, which are as many as its mode needs.
LEMMA AlarmCallSteps ==
    ASSUME NEW a \in Alarms
    PROVE  alarmSteps(a.mode) \in Seq(Steps)
<1>1. /\ <<"alarmHour">> \in Steps /\ <<"alarmMinute">> \in Steps
      /\ <<"alarmSecond">> \in Steps /\ <<"alarmDays">> \in Steps
      /\ <<"arm">> \in Steps
  BY DEF Steps
<1> DEFINE all == << <<"alarmHour">>, <<"alarmMinute">>, <<"alarmSecond">>, <<"arm">> >>
<1>2. all \in Seq(Steps) /\ Len(all) = 4
  BY <1>1
<1>3. SubSeq(all, 2, 4) \in Seq(Steps) /\ SubSeq(all, 3, 4) \in Seq(Steps)
  BY <1>2
<1>4. << <<"alarmDays">>, <<"arm">> >> \in Seq(Steps) /\ << <<"arm">> >> \in Seq(Steps)
  BY <1>1
<1>5. a.mode \in {"OFF", "SEC", "MMSS", "HHMMSS", "DDHHMMSS", "MMDDHHMMSS", "YYMMDDHHMMSS"}
  BY RtcAssumption
<1>6. CASE a.mode = "HHMMSS"
  <2>1. alarmSteps(a.mode) = all
    BY <1>6 DEF alarmSteps, onDate
  <2> HIDE DEF all
  <2> QED
    BY <1>2, <2>1
<1>7. CASE a.mode = "MMSS"
  <2>1. alarmSteps(a.mode) = SubSeq(all, 2, 4)
    BY <1>7 DEF alarmSteps, onDate
  <2> HIDE DEF all
  <2> QED
    BY <1>3, <2>1
<1>8. CASE a.mode = "SEC"
  <2>1. alarmSteps(a.mode) = SubSeq(all, 3, 4)
    BY <1>8 DEF alarmSteps, onDate
  <2> HIDE DEF all
  <2> QED
    BY <1>3, <2>1
<1>9. CASE a.mode \in {"DDHHMMSS", "MMDDHHMMSS", "YYMMDDHHMMSS"}
  BY <1>4, <1>9 DEF alarmSteps, onDate
<1>10. CASE a.mode = "OFF"
  BY <1>4, <1>10 DEF alarmSteps, onDate
<1> QED
  BY <1>5, <1>6, <1>7, <1>8, <1>9, <1>10

\* What the alarms are computed with.
LEMMA DayNumberType ==
    ASSUME NEW y \in Int, NEW m \in Int, NEW d \in Int
    PROVE  rdn(y, m, d) \in Int
<1>1. \A a \in Int : /\ quotient(a, 4) \in Int /\ quotient(a, 100) \in Int
                     /\ quotient(a, 400) \in Int /\ quotient(a, 5) \in Int
  BY DEF quotient
<1>2. /\ (IF m < 3 THEN y - 1 ELSE y) \in Int
      /\ 153 * (IF m < 3 THEN m + 12 ELSE m) - 457 \in Int
  OBVIOUS
<1> QED
  BY <1>1, <1>2 DEF rdn

\* The clock as it has been set.
LEMMA InitTypes == Init => TypeInv
<1> SUFFICES ASSUME Init
             PROVE  TypeInv
  OBVIOUS
<1>1. timeInt \in Time /\ dateInt \in Date /\ time_Mode \in {"H24", "H12"}
  BY RtcAssumption DEF Init, Time, Date
<1>2. /\ alarm \in [addDay : 0 .. 5, addMonth : BOOLEAN, sec_to_next_int : Int,
                     polled : BOOLEAN, set : BOOLEAN]
      /\ time \in [hour : Nat, minute : Nat, second : Nat, Tmode : BOOLEAN]
      /\ date \in [day : Nat, month : Nat, year : Nat]
  BY DEF Init
<1>3. intCompare \in BOOLEAN /\ timely \in BOOLEAN /\ rang \in BOOLEAN
  BY DEF Init
<1>4. CallOK
  BY DEF Init, CallOK
<1> QED
  BY <1>1, <1>2, <1>3, <1>4, Constants DEF Init, TypeInv, Types, PreemptedOK, TypeOK, Time, Date

\* A second and a day later, on a clock that need not be valid.
LEMMA NextTimeType ==
    ASSUME NEW t \in Time
    PROVE  nextTime(t) \in Time
<1>1. PICK h \in Nat, m \in 0 .. Sixty - 1, s \in 0 .. Sixty - 1 :
         t = [hour |-> h, minute |-> m, second |-> s]
  BY DEF Time
<1>2. \/ nextTime(t) = [hour |-> h, minute |-> m, second |-> s + 1] /\ s + 1 # Sixty
      \/ nextTime(t) = [hour |-> h, minute |-> m + 1, second |-> 0] /\ m + 1 # Sixty
      \/ nextTime(t) = [hour |-> IF h + 1 = DayHours THEN 0 ELSE h + 1,
                        minute |-> 0, second |-> 0]
  BY <1>1 DEF nextTime
<1> QED
  BY <1>2, Constants DEF Time

\* A day may follow in front of the table too, where the month is 0.
LEMMA NextDayType ==
    ASSUME NEW d \in Date
    PROVE  nextDay(d) \subseteq Date
<1>1. PICK dd \in Nat, m \in 0 .. 12, y \in Nat :
         d = [day |-> dd, month |-> m, year |-> y]
  BY DEF Date
<1>2. \A n \in nextDay(d) :
         \/ n = [day |-> dd + 1, month |-> m, year |-> y]
         \/ n = [day |-> 1, month |-> m + 1, year |-> y] /\ m # 12
         \/ n = [day |-> 1, month |-> 1, year |-> y + 1]
  <2> SUFFICES ASSUME NEW n \in nextDay(d)
               PROVE  \/ n = [day |-> dd + 1, month |-> m, year |-> y]
                      \/ n = [day |-> 1, month |-> m + 1, year |-> y] /\ m # 12
                      \/ n = [day |-> 1, month |-> 1, year |-> y + 1]
    OBVIOUS
  <2>1. n \in {[d EXCEPT !.day = @ + 1],
               IF d.month # 12 THEN [d EXCEPT !.day = 1, !.month = @ + 1]
               ELSE [day |-> 1, month |-> 1, year |-> d.year + 1]}
    BY DEF nextDay
  <2> QED
    BY <1>1, <2>1
<1> QED
  BY <1>2 DEF Date

\* The handler.
LEMMA TickTypes ==
    ASSUME TypeInv, RTC2_IRQHandler
    PROVE  Types'
<1> USE Constants
<1>1. /\ timeInt \in Time /\ dateInt \in Date /\ count \in 0 .. TicksPerSec - 1
      /\ COUNTER \in 0 .. CcRange - 1 /\ cc \in 0 .. CcRange - 1
      /\ alarm \in [addDay : 0 .. 5, addMonth : BOOLEAN, sec_to_next_int : Int,
                     polled : BOOLEAN, set : BOOLEAN]
  BY DEF TypeInv, Types, TypeOK, Time, Date
<1>2. timeInt' \in Time
  <2>1. nextTime(timeInt) \in Time
    BY <1>1, NextTimeType
  <2> QED
    BY <1>1, <2>1 DEF RTC2_IRQHandler, Tick
<1>3. dateInt' \in Date
  <2>1. nextDay(dateInt) \subseteq Date
    BY <1>1, NextDayType
  <2> QED
    BY <1>1, <2>1 DEF RTC2_IRQHandler, Tick
<1>4. count' \in 0 .. TicksPerSec - 1
  BY <1>1 DEF RTC2_IRQHandler, Tick, secondsEnd
<1>5. COUNTER' \in 0 .. CcRange - 1
  <2>1. (COUNTER + 1) % CcRange \in 0 .. CcRange - 1
    BY <1>1, ModRange
  <2> QED
    BY <2>1 DEF RTC2_IRQHandler
<1>6. /\ cc' \in 0 .. CcRange - 1
      /\ alarm' \in [addDay : 0 .. 5, addMonth : BOOLEAN, sec_to_next_int : Int,
                      polled : BOOLEAN, set : BOOLEAN]
  <2>1. CASE Compare
    <3>1. alarm.sec_to_next_int * TicksPerSec \in Int
      BY <1>1
    <3>2. (alarm.sec_to_next_int * TicksPerSec) % CcRange \in 0 .. CcRange - 1
      BY <3>1, ModRange
    <3>3. /\ rdn(dateInt'.year, dateInt'.month + 1, dateInt'.day) \in Int
          /\ rdn(dateInt'.year, dateInt'.month, dateInt'.day) \in Int
      <4> DEFINE y == dateInt'.year  m == dateInt'.month  d == dateInt'.day
                 k == m + 1
      <4>1. y \in Int /\ m \in Int /\ d \in Int /\ k \in Int
        BY <1>3 DEF Date
      <4> HIDE DEF y, m, d, k
      <4>2. rdn(y, k, d) \in Int /\ rdn(y, m, d) \in Int
        BY <4>1, DayNumberType
      <4> QED
        BY <4>2 DEF y, m, d, k
    <3>4. (rdn(dateInt'.year, dateInt'.month + 1, dateInt'.day)
             - rdn(dateInt'.year, dateInt'.month, dateInt'.day)) * DaySecs \in Int
      BY <3>3
    <3>5. (IF alarm.addDay = 5 THEN 366 * DaySecs ELSE alarm.sec_to_next_int) \in Int
      BY <1>1
    <3>6. (CASE alarm.addDay = 0 -> 0 [] alarm.addDay = 5 -> 1
             [] OTHER -> alarm.addDay + 1) \in 0 .. 5
      BY <1>1
    <3>7. (alarm.set \/ alarm.polled) \in BOOLEAN
      OBVIOUS
    <3> QED
      BY <1>1, <2>1, <3>2, <3>4, <3>5, <3>6, <3>7 DEF Compare
  <2>2. CASE UNCHANGED <<cc, alarm>>
    BY <1>1, <2>2
  <2> QED
    BY <2>1, <2>2 DEF RTC2_IRQHandler
<1>7. /\ UNCHANGED <<time_Mode, time, date, Alarm_Mode, intCompare>>
  BY DEF RTC2_IRQHandler
<1>8. rang' \in BOOLEAN
  BY DEF RTC2_IRQHandler, fires, TypeInv, Types, TypeOK
<1>9. timely' \in BOOLEAN
  BY DEF RTC2_IRQHandler
<1>10. CallOK'
  BY DEF TypeInv, Types, CallOK, RTC2_IRQHandler, Callback
<1> QED
  BY <1>2, <1>3, <1>4, <1>5, <1>6, <1>7, <1>8, <1>9, <1>10
     DEF TypeInv, Types, TypeOK, Time, Date

\* The steps of a call: the first is done, and the others remain.
LEMMA StepDone ==
    ASSUME TypeInv, NEW f, step(f)
    PROVE  /\ arg \in Steps /\ arg[1] = f /\ call # Idle
           /\ Tail(call.todo) \in Seq(Steps)
<1>1. call.todo \in Seq(Steps) /\ call.todo # <<>> /\ Head(call.todo)[1] = f
  BY DEF step, TypeInv, Types, CallOK
<1> QED
  BY <1>1 DEF step, arg

\* A call that has done a step keeps its type.
LEMMA DoneTypes ==
    ASSUME TypeInv, NEW f, step(f), done
    PROVE  CallOK'
<1>1. call = [op |-> call.op, todo |-> call.todo, since |-> call.since,
              sec |-> call.sec, days |-> call.days]
      /\ call.sec \in Int /\ call.days \in Int
  BY DEF TypeInv, Types, CallOK, step
<1>2. call' = [op |-> call.op, todo |-> Tail(call.todo), since |-> call.since,
               sec |-> call.sec, days |-> call.days]
  BY <1>1 DEF done
<1> QED
  BY <1>1, <1>2, StepDone DEF CallOK

\* So does one that begins.
LEMMA BeginTypes ==
    ASSUME NEW op, NEW todo \in Seq(Steps), begins(op, todo)
    PROVE  CallOK'
  BY DEF begins, CallOK

\* A call that goes on behind a callback is what it was, but for when it began.
LEMMA Resumes ==
    ASSUME TypeInv, CallbackReturn
    PROVE  \/ call' = Idle
           \/ /\ preempted[1] # Idle /\ call' # Idle
              /\ call'.op = preempted[1].op /\ call'.todo = preempted[1].todo
              /\ call'.since = never /\ call'.todo \in Seq(Steps)
              /\ call'.sec \in Int /\ call'.days \in Int
              /\ call' = [op |-> call'.op, todo |-> call'.todo, since |-> call'.since,
                          sec |-> call'.sec, days |-> call'.days]
<1>1. CASE preempted[1] = Idle
  BY <1>1 DEF CallbackReturn
<1>2. CASE preempted[1] # Idle
  <2>1. PICK c : c = preempted[1]
    OBVIOUS
  <2>2. /\ c.todo \in Seq(Steps) /\ c.sec \in Int /\ c.days \in Int
        /\ c = [op |-> c.op, todo |-> c.todo, since |-> c.since,
                sec |-> c.sec, days |-> c.days]
    BY <1>2, <2>1 DEF CallbackReturn, TypeInv, PreemptedOK
  <2>3. call' = [c EXCEPT !.since = never]
    BY <1>2, <2>1 DEF CallbackReturn
  <2>4. call' = [op |-> c.op, todo |-> c.todo, since |-> never, sec |-> c.sec, days |-> c.days]
    BY <2>2, <2>3
  <2>5. call' # Idle
    BY <2>4 DEF Idle
  <2> QED
    BY <1>2, <2>1, <2>2, <2>4, <2>5
<1> QED
  BY <1>1, <1>2

\* A call of the sketch begins or ends.
LEMMA CallTypes ==
    ASSUME TypeInv,
           \/ \E t \in Times, pm \in BOOLEAN : Set(timeSteps(t, pm))
           \/ \E d \in Dates : Set(dateSteps(d))
           \/ GetTime \/ GetDate \/ Return \/ CallbackReturn \/ AlarmClearFlag
           \/ \E a \in Alarms : SetAlarm(a)
    PROVE  Types'
<1>1. ASSUME NEW todo \in Seq(Steps), Set(todo)
      PROVE  Types'
  <2>1. PICK some \in {todo} \cup {<<todo[k]>> : k \in DOMAIN todo} : begins("set", some)
    BY <1>1 DEF Set
  <2>2. some \in Seq(Steps)
    <3>1. ASSUME NEW k \in DOMAIN todo
          PROVE  <<todo[k]>> \in Seq(Steps)
      <4>1. todo[k] \in Steps
        OBVIOUS
      <4> HIDE DEF Steps
      <4> QED
        BY <4>1
    <3> QED
      BY <2>1, <3>1
  <2>3. CallOK'
    BY <2>1, <2>2, BeginTypes
  <2>4. timely' \in BOOLEAN
    BY <1>1 DEF Set
  <2> QED
    BY <1>1, <2>3, <2>4 DEF Set, TypeInv, Types, TypeOK, clock, alarms, rtc2
<1>2. CASE GetTime
  <2>1. CallOK'
    BY <1>2, BeginTypes, CallSteps DEF GetTime
  <2> QED
    BY <1>2, <2>1 DEF GetTime, TypeInv, Types, TypeOK, clock, alarms, rtc2, ghosts
<1>3. CASE GetDate
  <2>1. CallOK'
    BY <1>3, BeginTypes, CallSteps DEF GetDate
  <2> QED
    BY <1>3, <2>1 DEF GetDate, TypeInv, Types, TypeOK, clock, alarms, rtc2, ghosts
<1>4. CASE Return
  BY <1>4 DEF Return, TypeInv, Types, TypeOK, CallOK, clock, alarms, rtc2, ghosts
<1>5. CASE AlarmClearFlag
  <2>1. alarm' \in [addDay : 0 .. 5, addMonth : BOOLEAN, sec_to_next_int : Int,
                    polled : BOOLEAN, set : BOOLEAN]
    BY <1>5 DEF AlarmClearFlag, TypeInv, Types, TypeOK
  <2> QED
    BY <1>5, <2>1 DEF AlarmClearFlag, TypeInv, Types, TypeOK, CallOK, clock, rtc2, ghosts
<1>6. ASSUME NEW a \in Alarms, SetAlarm(a)
      PROVE  Types'
  <2>1. /\ a.mode \in {"OFF", "SEC", "MMSS", "HHMMSS", "DDHHMMSS", "MMDDHHMMSS",
                       "YYMMDDHHMMSS"}
        /\ a.time \in [hour : Nat, minute : Nat, second : Nat]
        /\ a.date \in [day : Nat, month : Nat, year : Nat]
        /\ a.polled \in BOOLEAN /\ a.pm \in BOOLEAN
    BY RtcAssumption
  <2>2. CallOK'
    BY <1>6, BeginTypes, AlarmCallSteps DEF SetAlarm
  <2>3. /\ alarm' \in [addDay : 0 .. 5, addMonth : BOOLEAN, sec_to_next_int : Int,
                       polled : BOOLEAN, set : BOOLEAN]
    BY <1>6, <2>1 DEF SetAlarm, TypeInv, Types, TypeOK
  <2>4. time' \in [hour : Nat, minute : Nat, second : Nat, Tmode : BOOLEAN]
    BY <1>6, <2>1 DEF SetAlarm
  <2> QED
    BY <1>6, <2>1, <2>2, <2>3, <2>4
       DEF SetAlarm, TypeInv, Types, TypeOK, clock, rtc2
<1>7. CASE CallbackReturn
  <2>1. CallOK' /\ timely' \in BOOLEAN
    BY <1>7, Resumes DEF CallbackReturn, CallOK
  <2> QED
    BY <1>7, <2>1 DEF CallbackReturn, TypeInv, Types, TypeOK, clock, alarms, rtc2
<1> QED
  BY <1>1, <1>2, <1>3, <1>4, <1>5, <1>6, <1>7, CallSteps

\* The steps of the calls that set the clock.
LEMMA SetterTypes ==
    ASSUME TypeInv,
           \/ SetHour \/ SetTimeField("minute") \/ SetTimeField("second")
           \/ \E f \in {"day", "month", "year"} : SetDateField(f)
    PROVE  Types'
<1>1. timeInt \in Time /\ dateInt \in Date
  BY DEF TypeInv, Types, TypeOK, Time, Date
<1>2. CASE SetHour
  <2>1. step("hour") /\ done
    BY <1>2 DEF SetHour
  <2>2. CallOK' /\ arg[2] \in Nat
    BY <2>1, DoneTypes, StepDone, StepArgument
  <2> HIDE DEF arg
  <2>3. timeInt' \in Time
    <3>1. PICK h : timeInt' = [timeInt EXCEPT !.hour = h] /\ h \in Nat
      <4>1. timeInt.hour \in Nat
        BY <1>1 DEF Time
      <4> QED
        BY <1>2, <2>2, <4>1, Constants DEF SetHour
    <3> QED
      BY <1>1, <3>1 DEF Time
  <2> QED
    BY <1>2, <2>2, <2>3 DEF SetHour, TypeInv, Types, TypeOK, Time, alarms, rtc2, ghosts
<1>3. ASSUME NEW f \in {"minute", "second"}, SetTimeField(f)
      PROVE  Types'
  <2>1. step(f) /\ done
    BY <1>3 DEF SetTimeField
  <2>2. CallOK' /\ arg[2] \in Nat
    BY <2>1, DoneTypes, StepDone, StepArgument
  <2>3. timeInt' \in Time
    BY <1>1, <1>3, <2>2, Constants DEF SetTimeField, Time
  <2> QED
    BY <1>3, <2>2, <2>3 DEF SetTimeField, TypeInv, Types, TypeOK, Time, alarms, rtc2, ghosts
<1>4. ASSUME NEW f \in {"day", "month", "year"}, SetDateField(f)
      PROVE  Types'
  <2>1. step(f) /\ done
    BY <1>4 DEF SetDateField
  <2>2. CallOK' /\ arg[2] \in Nat
    BY <2>1, DoneTypes, StepDone, StepArgument
  <2>3. dateInt' \in Date
    BY <1>1, <1>4, <2>2 DEF SetDateField, Date
  <2> QED
    BY <1>4, <2>2, <2>3 DEF SetDateField, TypeInv, Types, TypeOK, Date, alarms, rtc2, ghosts
<1> QED
  BY <1>2, <1>3, <1>4

\* The steps of the calls that read it.
LEMMA GetterTypes ==
    ASSUME TypeInv,
           \/ GetHour
           \/ GetTimeField("minute", "getMinute") \/ GetTimeField("second", "getSecond")
           \/ GetDateField("day", "getDay") \/ GetDateField("month", "getMonth")
           \/ GetDateField("year", "getYear")
    PROVE  Types'
<1>1. /\ timeInt \in Time /\ dateInt \in Date
      /\ time \in [hour : Nat, minute : Nat, second : Nat, Tmode : BOOLEAN]
      /\ date \in [day : Nat, month : Nat, year : Nat]
  BY DEF TypeInv, Types, TypeOK, Time, Date
<1>2. CASE GetHour
  <2>1. CallOK'
    BY <1>2, DoneTypes DEF GetHour
  <2>2. time' \in [hour : Nat, minute : Nat, second : Nat, Tmode : BOOLEAN]
    <3> DEFINE pm == time_Mode = "H12" /\ timeInt.hour > HalfDay
    <3>1. (IF pm THEN timeInt.hour - HalfDay ELSE timeInt.hour) \in Nat
      BY <1>1, Constants DEF Time
    <3>2. (IF time_Mode = "H12" THEN pm ELSE time.Tmode) \in BOOLEAN
      BY <1>1
    <3> QED
      BY <1>1, <1>2, <3>1, <3>2 DEF GetHour
  <2> QED
    BY <1>2, <2>1, <2>2 DEF GetHour, TypeInv, Types, TypeOK, clock, alarms, rtc2, ghosts
<1>3. ASSUME NEW f \in {"minute", "second"}, NEW g, GetTimeField(f, g)
      PROVE  Types'
  <2>1. CallOK'
    BY <1>3, DoneTypes DEF GetTimeField
  <2>2. time' \in [hour : Nat, minute : Nat, second : Nat, Tmode : BOOLEAN]
    BY <1>1, <1>3, Constants DEF GetTimeField, Time
  <2> QED
    BY <1>3, <2>1, <2>2 DEF GetTimeField, TypeInv, Types, TypeOK, clock, alarms, rtc2, ghosts
<1>4. ASSUME NEW f \in {"day", "month", "year"}, NEW g, GetDateField(f, g)
      PROVE  Types'
  <2>1. CallOK'
    BY <1>4, DoneTypes DEF GetDateField
  <2>2. date' \in [day : Nat, month : Nat, year : Nat]
    BY <1>1, <1>4 DEF GetDateField, Date
  <2> QED
    BY <1>4, <2>1, <2>2 DEF GetDateField, TypeInv, Types, TypeOK, clock, alarms, rtc2, ghosts
<1> QED
  BY <1>2, <1>3, <1>4

\* What setAlarm has counted to the alarm.
LEMMA WaitType ==
    ASSUME TypeInv, AlarmArm
    PROVE  waitSecs \in Int
<1>1. call.sec \in Int /\ call.days \in Int
  BY DEF TypeInv, Types, CallOK, AlarmArm, step
<1>2. call.sec + call.days * DaySecs \in Int
  BY <1>1, Constants
<1> QED
  BY <1>2, Constants DEF waitSecs

\* The steps of setAlarm.
LEMMA AlarmTypes ==
    ASSUME TypeInv, AlarmDays \/ AlarmHour \/ AlarmMinute \/ AlarmSecond \/ AlarmArm
    PROVE  Types'
<1>1. /\ timeInt \in Time /\ dateInt \in Date
      /\ time \in [hour : Nat, minute : Nat, second : Nat, Tmode : BOOLEAN]
      /\ date \in [day : Nat, month : Nat, year : Nat]
      /\ alarm \in [addDay : 0 .. 5, addMonth : BOOLEAN, sec_to_next_int : Int,
                     polled : BOOLEAN, set : BOOLEAN]
      /\ cc \in 0 .. CcRange - 1
  BY DEF TypeInv, Types, TypeOK, Time, Date
<1>2. call # Idle => /\ call.sec \in Int /\ call.days \in Int
                     /\ call.todo \in Seq(Steps)
  BY DEF TypeInv, Types, CallOK
<1>3. ASSUME call # Idle, NEW n \in Int, NEW e \in Int, NEW todo \in Seq(Steps),
             call' = [call EXCEPT !.todo = todo, !.sec = n, !.days = e]
      PROVE  CallOK'
  <2>1. call = [op |-> call.op, todo |-> call.todo, since |-> call.since,
                sec |-> call.sec, days |-> call.days]
    BY <1>3 DEF TypeInv, Types, CallOK
  <2>2. call' = [op |-> call.op, todo |-> todo, since |-> call.since,
                 sec |-> n, days |-> e]
    BY <1>3, <2>1
  <2> QED
    BY <2>2 DEF CallOK
<1>4. call # Idle =>
        call = [op |-> call.op, todo |-> call.todo, since |-> call.since,
                sec |-> call.sec, days |-> call.days]
  BY DEF TypeInv, Types, CallOK
<1>5. CASE AlarmDays
  <2> DEFINE dy == dateInt.year  dm == dateInt.month  dd == dateInt.day
             ay == date.year     am == date.month     ad == date.day
  <2>1. /\ dy \in Int /\ dm \in Int /\ dd \in Int
        /\ ay \in Int /\ am \in Int /\ ad \in Int
    BY <1>1 DEF Date
  <2>2. PICK days \in Int, todo \in Seq(Steps) :
           call' = [call EXCEPT !.days = days, !.todo = todo]
    <3>1. \A y, m, d \in Int : rdn(y, m, d) \in Int
      BY DayNumberType
    <3> DEFINE days ==
             CASE Alarm_Mode = "YYMMDDHHMMSS" -> rdn(ay, am, ad) - rdn(dy, dm, dd)
               [] Alarm_Mode = "MMDDHHMMSS" ->
                    LET this == rdn(0, am, ad) - rdn(0, dm, dd)
                    IN  IF this # 0 THEN this ELSE rdn(dy + 1, am, ad) - rdn(dy, dm, dd)
               [] OTHER ->
                    LET this == rdn(dy, am, ad) - rdn(dy, dm, dd)
                    IN  IF this # 0 THEN this ELSE rdn(dy, dm + 1, ad) - rdn(dy, dm, dd)
    <3>2. /\ rdn(ay, am, ad) \in Int /\ rdn(dy, dm, dd) \in Int
          /\ rdn(0, am, ad) \in Int /\ rdn(0, dm, dd) \in Int
          /\ rdn(dy + 1, am, ad) \in Int /\ rdn(dy, am, ad) \in Int
          /\ rdn(dy, dm + 1, ad) \in Int
      <4> DEFINE y1 == dy + 1  m1 == dm + 1
      <4>1. y1 \in Int /\ m1 \in Int
        BY <2>1
      <4> HIDE DEF y1, m1, dy, dm, dd, ay, am, ad
      <4>2. rdn(y1, am, ad) \in Int /\ rdn(dy, m1, ad) \in Int
        BY <2>1, <3>1, <4>1
      <4>3. /\ rdn(ay, am, ad) \in Int /\ rdn(dy, dm, dd) \in Int
            /\ rdn(0, am, ad) \in Int /\ rdn(0, dm, dd) \in Int
            /\ rdn(dy, am, ad) \in Int
        <5>1. rdn(0, am, ad) \in Int /\ rdn(0, dm, dd) \in Int
          BY <2>1, DayNumberType
        <5>2. rdn(ay, am, ad) \in Int /\ rdn(dy, dm, dd) \in Int
          BY <2>1, <3>1
        <5>3. rdn(dy, am, ad) \in Int
          BY <2>1, <3>1
        <5> QED
          BY <5>1, <5>2, <5>3
      <4> QED
        BY <4>2, <4>3 DEF y1, m1
    <3>3. days \in Int
      BY <3>2
    <3>4. call' = [call EXCEPT !.days = days,
                     !.todo = IF Alarm_Mode = "YYMMDDHHMMSS" /\ days = 0
                              THEN <<>> ELSE Tail(@)]
      BY <1>5 DEF AlarmDays
    <3> HIDE DEF days
    <3>5. Tail(call.todo) \in Seq(Steps) /\ <<>> \in Seq(Steps)
      BY <1>5, StepDone DEF AlarmDays
    <3> QED
      BY <3>3, <3>4, <3>5
  <2>3. CallOK'
    <3>1. call # Idle
      BY <1>5 DEF AlarmDays, step
    <3>2. call' = [call EXCEPT !.todo = todo, !.sec = call.sec, !.days = days]
      BY <1>4, <2>2, <3>1
    <3> QED
      BY <1>2, <1>3, <3>1, <3>2
  <2>4. alarm' \in [addDay : 0 .. 5, addMonth : BOOLEAN, sec_to_next_int : Int,
                    polled : BOOLEAN, set : BOOLEAN]
    <3>1. (dy % 4) + 1 \in 0 .. 5
      BY <2>1
    <3>2. (IF isLeap(dy) THEN 366 ELSE 365) * DaySecs \in Int
      BY Constants
    <3>3. (rdn(dy, dm + 2, ad) - rdn(dy, dm + 1, ad)) * DaySecs \in Int
      <4> DEFINE m1 == dm + 1  m2 == dm + 2
      <4>1. m1 \in Int /\ m2 \in Int
        BY <2>1
      <4> HIDE DEF m1, m2, dy, dm, ad
      <4>2. rdn(dy, m1, ad) \in Int /\ rdn(dy, m2, ad) \in Int
        BY <2>1, <4>1, DayNumberType
      <4>3. rdn(dy, dm + 1, ad) \in Int /\ rdn(dy, dm + 2, ad) \in Int
        BY <4>2 DEF m1, m2
      <4> QED
        BY <4>3, Constants
    <3>4. \/ alarm' = [alarm EXCEPT !.sec_to_next_int = -1]
          \/ alarm' = [alarm EXCEPT !.sec_to_next_int =
                             (IF isLeap(dy) THEN 366 ELSE 365) * DaySecs,
                                    !.addDay = (dy % 4) + 1]
          \/ alarm' = [alarm EXCEPT !.sec_to_next_int =
                             (rdn(dy, dm + 2, ad) - rdn(dy, dm + 1, ad)) * DaySecs,
                                    !.addMonth = TRUE]
      BY <1>5 DEF AlarmDays
    <3>5. PICK n \in Int, k \in 0 .. 5, b \in BOOLEAN :
             alarm' = [alarm EXCEPT !.sec_to_next_int = n, !.addDay = k, !.addMonth = b]
      <4> DEFINE yearly  == (IF isLeap(dy) THEN 366 ELSE 365) * DaySecs
                 monthly == (rdn(dy, dm + 2, ad) - rdn(dy, dm + 1, ad)) * DaySecs
                 day     == (dy % 4) + 1
      <4>1. yearly \in Int /\ monthly \in Int /\ day \in 0 .. 5
        BY <3>1, <3>2, <3>3
      <4> HIDE DEF yearly, monthly, day
      <4>2. \/ alarm' = [alarm EXCEPT !.sec_to_next_int = -1, !.addDay = @, !.addMonth = @]
            \/ alarm' = [alarm EXCEPT !.sec_to_next_int = yearly, !.addDay = day,
                                      !.addMonth = @]
            \/ alarm' = [alarm EXCEPT !.sec_to_next_int = monthly, !.addDay = @,
                                      !.addMonth = TRUE]
        <5>1. \/ alarm' = [alarm EXCEPT !.sec_to_next_int = -1]
              \/ alarm' = [alarm EXCEPT !.sec_to_next_int = yearly, !.addDay = day]
              \/ alarm' = [alarm EXCEPT !.sec_to_next_int = monthly, !.addMonth = TRUE]
          BY <3>4 DEF yearly, monthly, day
        <5>2. [alarm EXCEPT !.sec_to_next_int = -1]
                = [alarm EXCEPT !.sec_to_next_int = -1, !.addDay = @, !.addMonth = @]
          BY <1>1
        <5>3. [alarm EXCEPT !.sec_to_next_int = yearly, !.addDay = day]
                = [alarm EXCEPT !.sec_to_next_int = yearly, !.addDay = day, !.addMonth = @]
          BY <1>1
        <5>4. [alarm EXCEPT !.sec_to_next_int = monthly, !.addMonth = TRUE]
                = [alarm EXCEPT !.sec_to_next_int = monthly, !.addDay = @, !.addMonth = TRUE]
          BY <1>1
        <5> QED
          BY <5>1, <5>2, <5>3, <5>4
      <4>3. alarm.addDay \in 0 .. 5 /\ alarm.addMonth \in BOOLEAN /\ -1 \in Int
        BY <1>1
      <4> QED
        BY <4>1, <4>2, <4>3
    <3> QED
      BY <1>1, <3>5
  <2> QED
    BY <1>5, <2>3, <2>4 DEF AlarmDays, TypeInv, Types, TypeOK, clock, rtc2, ghosts
<1>6. ASSUME NEW sec \in Int, NEW to \in Int, NEW now \in Int, NEW unit \in Int
      PROVE  carry(sec, to, now, unit) \in Int
  <2>1. /\ (IF to < now THEN Sixty - now + to ELSE to - now) * unit \in Int
        /\ Sixty * unit \in Int
    BY <1>6, Constants
  <2> QED
    BY <1>6, <2>1 DEF carry
<1>7. CASE AlarmHour
  <2> DEFINE h == IF time_Mode = "H12" /\ time.Tmode THEN time.hour + HalfDay ELSE time.hour
             n == (IF h < timeInt.hour THEN DayHours - timeInt.hour + time.second
                   ELSE h - timeInt.hour) * Hour
  <2>1. h \in Nat
    BY <1>1, Constants
  <2>2. n \in Int
    <3> HIDE DEF h
    <3> QED
      BY <1>1, <2>1, Constants DEF Time
  <2>3. /\ step("alarmHour")
        /\ call' = [call EXCEPT !.todo = Tail(@), !.sec = n]
        /\ time' = [time EXCEPT !.hour = h]
        /\ alarm' = [alarm EXCEPT !.sec_to_next_int = DaySecs]
    BY <1>7 DEF AlarmHour
  <2> HIDE DEF h, n
  <2>4. CallOK'
    <3>1. call # Idle /\ Tail(call.todo) \in Seq(Steps)
      BY <2>3, StepDone
    <3>2. call' = [call EXCEPT !.todo = Tail(call.todo), !.sec = n, !.days = call.days]
      BY <1>4, <2>3, <3>1
    <3> QED
      BY <1>2, <1>3, <2>2, <3>1, <3>2
  <2>5. /\ time' \in [hour : Nat, minute : Nat, second : Nat, Tmode : BOOLEAN]
        /\ alarm' \in [addDay : 0 .. 5, addMonth : BOOLEAN, sec_to_next_int : Int,
                       polled : BOOLEAN, set : BOOLEAN]
    BY <1>1, <2>1, <2>3, Constants
  <2> QED
    BY <1>7, <2>4, <2>5 DEF AlarmHour, TypeInv, Types, TypeOK, clock, rtc2, ghosts
<1>8. CASE AlarmMinute \/ AlarmSecond
  <2>1. PICK n \in Int : /\ call # Idle /\ Tail(call.todo) \in Seq(Steps)
                         /\ call' = [call EXCEPT !.todo = Tail(@), !.sec = n]
    <3>1. CASE AlarmMinute
      <4>1. call # Idle /\ Tail(call.todo) \in Seq(Steps)
        BY <3>1, StepDone DEF AlarmMinute
      <4>2. carry(call.sec, time.minute, timeInt.minute, Sixty) \in Int
        <5>1. /\ call.sec \in Int /\ time.minute \in Int /\ timeInt.minute \in Int
              /\ Sixty \in Int
          BY <1>1, <1>2, <4>1, Constants DEF Time
        <5> QED
          BY <1>6, <5>1
      <4>3. call' = [call EXCEPT !.todo = Tail(@),
                       !.sec = carry(call.sec, time.minute, timeInt.minute, Sixty)]
        BY <3>1 DEF AlarmMinute
      <4> QED
        BY <4>1, <4>2, <4>3
    <3>2. CASE AlarmSecond
      <4>1. call # Idle /\ Tail(call.todo) \in Seq(Steps)
        BY <3>2, StepDone DEF AlarmSecond
      <4>2. carry(call.sec, time.second, timeInt.second, 1) \in Int
        <5>1. /\ call.sec \in Int /\ time.second \in Int /\ timeInt.second \in Int
              /\ 1 \in Int
          BY <1>1, <1>2, <4>1, Constants DEF Time
        <5> QED
          BY <1>6, <5>1
      <4>3. call' = [call EXCEPT !.todo = Tail(@),
                       !.sec = carry(call.sec, time.second, timeInt.second, 1)]
        BY <3>2 DEF AlarmSecond
      <4> QED
        BY <4>1, <4>2, <4>3
    <3> QED
      BY <1>8, <3>1, <3>2
  <2>2. CallOK'
    <3>1. call' = [call EXCEPT !.todo = Tail(call.todo), !.sec = n, !.days = call.days]
      BY <1>4, <2>1
    <3> QED
      BY <1>2, <1>3, <2>1, <3>1
  <2>3. alarm' \in [addDay : 0 .. 5, addMonth : BOOLEAN, sec_to_next_int : Int,
                    polled : BOOLEAN, set : BOOLEAN]
    BY <1>1, <1>8, Constants DEF AlarmMinute, AlarmSecond
  <2> QED
    BY <1>8, <2>2, <2>3
       DEF AlarmMinute, AlarmSecond, TypeInv, Types, TypeOK, clock, rtc2, ghosts
<1>9. CASE AlarmArm
  <2>1. CallOK'
    BY <1>9, DoneTypes DEF AlarmArm
  <2>2. waitSecs \in Int
    BY <1>9, WaitType
  <2>3. cc' \in 0 .. CcRange - 1
    <3>1. waitSecs * TicksPerSec \in Int
      BY <2>2, Constants
    <3>2. (waitSecs * TicksPerSec) % CcRange \in 0 .. CcRange - 1
      BY <3>1, Constants, ModRange
    <3> QED
      BY <1>9, <3>2 DEF AlarmArm
  <2>4. timely' \in BOOLEAN
    BY <1>9 DEF AlarmArm, kept
  <2>5. intCompare' \in BOOLEAN /\ rang' \in BOOLEAN
    BY <1>9 DEF AlarmArm
  <2> QED
    BY <1>9, <2>1, <2>3, <2>4, <2>5 DEF AlarmArm, TypeInv, Types, TypeOK, clock, alarms
<1> QED
  BY <1>5, <1>7, <1>8, <1>9

\* Only the handler and its end touch the call that a callback has preempted.
LEMMA PreemptedKept ==
    ASSUME Sketch, ~CallbackReturn
    PROVE  preempted' = preempted
  BY DEF Sketch, Set, SetHour, SetTimeField, SetDateField, GetTime, GetHour, GetTimeField,
         GetDate, GetDateField, SetAlarm, AlarmDays, AlarmHour, AlarmMinute, AlarmSecond,
         AlarmArm, AlarmClearFlag, Return, step, begins

\* Every step keeps the types.
LEMMA StepTypes == TypeInv /\ [Next]_vars => TypeInv'
<1> SUFFICES ASSUME TypeInv, [Next]_vars
             PROVE  TypeInv'
  OBVIOUS
<1>1. CASE RTC2_IRQHandler
  <2>1. CASE UNCHANGED preempted
    BY <1>1, <2>1, TickTypes DEF TypeInv, PreemptedOK
  <2>2. CASE preempted' = <<call>>
    <3>1. preempted'[1] = call
      BY <2>2
    <3>2. PreemptedOK'
      BY <2>2, <3>1 DEF PreemptedOK, TypeInv, Types, CallOK
    <3> QED
      BY <1>1, <3>2, TickTypes DEF TypeInv
  <2> QED
    BY <1>1, <2>1, <2>2 DEF RTC2_IRQHandler, Callback
<1>2. CASE Sketch
  <2>1. Types'
    BY <1>2, CallTypes, SetterTypes, GetterTypes, AlarmTypes DEF Sketch
  <2>2. PreemptedOK'
    <3>1. CASE CallbackReturn
      BY <3>1 DEF CallbackReturn, PreemptedOK
    <3>2. CASE ~CallbackReturn
      BY <1>2, <3>2, PreemptedKept DEF PreemptedOK, TypeInv
    <3> QED
      BY <3>1, <3>2
  <2> QED
    BY <2>1, <2>2 DEF TypeInv
<1>3. CASE UNCHANGED vars
  BY <1>3 DEF vars, TypeInv, Types, TypeOK, CallOK, PreemptedOK, clock, alarms, rtc2, ghosts
<1> QED
  BY <1>1, <1>2, <1>3 DEF Next

\* They are an invariant.
LEMMA TypeInvariance == Spec => []TypeInv
  BY InitTypes, StepTypes, PTL DEF Spec

\* Every variable keeps its type: minutes and seconds keep to their range,
\* whatever is set, read and computed, and the compare value to its 24 bits
\* (RTCInt.cpp).
THEOREM TypeCorrect == Spec => []TypeOK
<1>1. TypeInv => TypeOK
  BY DEF TypeInv, Types
<1> QED
  BY <1>1, TypeInvariance, PTL

-------------------------------------------------------------------------------
(* The clock. *)

\* A tick on a valid clock.
LEMMA TickAdvances ==
    ASSUME TypeInv, RTC2_IRQHandler, valid
    PROVE  /\ valid' /\ instant' = instant + (IF secondsEnd THEN 1 ELSE 0)
           /\ instant \in Int
<1>1. timeInt \in Time /\ dateInt \in Date /\ validTime(timeInt) /\ validDate(dateInt)
  BY DEF TypeInv, Types, TypeOK, Time, Date, valid
<1>2. dayNumber(dateInt) \in Int /\ secOfDay(timeInt) \in Nat /\ DaySecs \in Int
  <2>1. before[dateInt.month] \in Int /\ (dateInt.year + 3) \div 4 \in Int
    <3>1. dateInt.month \in {1, 2, 3, 4, 5, 6, 7, 8, 9, 10, 11, 12} /\ dateInt.year \in Nat
      BY <1>1 DEF validDate, Date
    <3> QED
      BY <3>1 DEF before
  <2>2. dayNumber(dateInt) \in Int
    BY <1>1, <2>1 DEF dayNumber, Date
  <2> QED
    BY <1>1, <2>2, NextTime, Constants
<1>3. dayNumber(dateInt) * DaySecs \in Int /\ instant \in Int
  BY <1>2 DEF instant
<1>4. CASE ~secondsEnd
  BY <1>1, <1>2, <1>3, <1>4 DEF RTC2_IRQHandler, Tick, valid, instant
<1>5. CASE secondsEnd /\ ~midnight(timeInt)
  <2>1. timeInt' = nextTime(timeInt) /\ dateInt' = dateInt
    BY <1>5 DEF RTC2_IRQHandler, Tick
  <2>2. validTime(timeInt') /\ secOfDay(timeInt') = secOfDay(timeInt) + 1
    BY <1>1, <1>5, <2>1, NextTime
  <2> QED
    BY <1>1, <1>2, <1>3, <1>5, <2>1, <2>2 DEF valid, instant
<1>6. CASE secondsEnd /\ midnight(timeInt)
  <2>1. timeInt' = nextTime(timeInt) /\ dateInt' \in nextDay(dateInt)
    BY <1>6 DEF RTC2_IRQHandler, Tick
  <2>2. /\ validTime(timeInt') /\ secOfDay(timeInt') = 0
        /\ secOfDay(timeInt) = DaySecs - 1
    BY <1>1, <1>6, <2>1, NextTime
  <2>3. validDate(dateInt') /\ dayNumber(dateInt') = dayNumber(dateInt) + 1
    BY <1>1, <2>1, NextDay
  <2>4. (dayNumber(dateInt) + 1) * DaySecs = dayNumber(dateInt) * DaySecs + DaySecs
    BY <1>2
  <2> QED
    BY <1>2, <1>3, <1>6, <2>2, <2>3, <2>4 DEF valid, instant
<1> QED
  BY <1>4, <1>5, <1>6

\* Every eight ticks a valid clock goes on by one second, over the ends of
\* minutes, hours, days, months and years, in every year (RTCInt.cpp 543-567).
THEOREM CalendarIsKept == Spec => ClockAdvances
<1>1. TypeInv /\ [Next]_vars =>
        [RTC2_IRQHandler /\ valid =>
            valid' /\ instant' = instant + (IF secondsEnd THEN 1 ELSE 0)]_vars
  BY TickAdvances
<1> QED
  BY <1>1, TypeInvariance, PTL DEF Spec, ClockAdvances

\* The days to an alarm are counted as the clock counts them, for every day of
\* the years of a century (RTCInt.cpp 530-534).
THEOREM DaysAreCounted == Spec => []RdnCounts
<1>1. TypeInv => RdnCounts
  <2> SUFFICES ASSUME TypeInv, validDate(dateInt), counted(dateInt)
               PROVE  rdn(dateInt.year, dateInt.month, dateInt.day) - rdn(0, 3, 1)
                        = dayNumber(dateInt)
                            - dayNumber([day |-> 1, month |-> 3, year |-> 0])
    BY DEF RdnCounts
  <2>1. PICK d \in Nat, m \in 0 .. 12, y \in Nat :
           dateInt = [day |-> d, month |-> m, year |-> y]
    BY DEF TypeInv, Types, TypeOK
  <2>2. m \in 1 .. 12
    BY <2>1 DEF validDate
  <2>3. y < 100 /\ ~(y = 0 /\ m < 3)
    BY <2>1 DEF counted
  <2> QED
    BY <2>1, <2>2, <2>3, DayNumbers
<1> QED
  BY <1>1, TypeInvariance, PTL

-------------------------------------------------------------------------------
(* The counter that alarms are compared with. *)

\* A compare value is a whole number of seconds: this, beside the theorem's
\* formula, is what an alarm that clears the counter needs.
CountInv == CountTogether /\ cc % TicksPerSec = 0

\* What is written to CC.
LEMMA WholeSeconds ==
    ASSUME NEW n \in Int
    PROVE  ((n * TicksPerSec) % CcRange) % TicksPerSec = 0
<1>1. TicksPerSec \in Nat \ {0} /\ CcRange \in Nat \ {0} /\ CcRange % TicksPerSec = 0
  BY Constants, RtcAssumption
<1>2. n * TicksPerSec \in Int /\ n * TicksPerSec = TicksPerSec * n + 0
  BY <1>1
<1>3. (TicksPerSec * n + 0) % TicksPerSec = 0
  BY <1>1, ModUnique
<1> DEFINE ticks == n * TicksPerSec
<1> HIDE DEF ticks
<1>4. (ticks % CcRange) % TicksPerSec = ticks % TicksPerSec
  <2>1. ticks \in Int
    BY <1>2 DEF ticks
  <2> QED
    BY <1>1, <2>1, ModOfMod
<1> QED
  BY <1>2, <1>3, <1>4 DEF ticks

\* The handler: an alarm rings at the end of a second only.
LEMMA TickCounts ==
    ASSUME TypeInv, CountInv, RTC2_IRQHandler
    PROVE  CountInv'
<1> DEFINE next == COUNTER + 1
<1>1. /\ TicksPerSec \in Nat \ {0} /\ CcRange \in Nat \ {0} /\ CcRange % TicksPerSec = 0
      /\ next \in Int /\ COUNTER \in Int
      /\ COUNTER % TicksPerSec = count /\ cc % TicksPerSec = 0
  BY Constants, RtcAssumption DEF TypeInv, Types, TypeOK, CountInv, CountTogether
<1>2. next % TicksPerSec = count'
  <2>1. count' = IF count = TicksPerSec - 1 THEN 0 ELSE count + 1
    <3>1. count \in 0 .. TicksPerSec - 1
      BY DEF TypeInv, Types, TypeOK
    <3>2. count' = IF count + 1 = TicksPerSec THEN 0 ELSE count + 1
      BY DEF RTC2_IRQHandler, Tick, secondsEnd
    <3> QED
      BY <1>1, <3>1, <3>2
  <2>2. next % TicksPerSec =
          IF COUNTER % TicksPerSec = TicksPerSec - 1 THEN 0
          ELSE (COUNTER % TicksPerSec) + 1
    BY <1>1, ModStep
  <2> QED
    BY <1>1, <2>1, <2>2
<1>3. (next % CcRange) % TicksPerSec = next % TicksPerSec
  BY <1>1, ModOfMod
<1>4. CASE fires
  <2>1. next % CcRange = cc
    BY <1>4 DEF fires
  <2>2. count' = 0
    BY <1>1, <1>2, <1>3, <2>1
  <2>3. COUNTER' = 0 /\ cc' = (alarm.sec_to_next_int * TicksPerSec) % CcRange
    BY <1>4 DEF RTC2_IRQHandler, Compare
  <2>4. 0 % TicksPerSec = 0
    BY <1>1
  <2>5. alarm.sec_to_next_int \in Int
    BY DEF TypeInv, Types, TypeOK
  <2> QED
    BY <2>2, <2>3, <2>4, <2>5, WholeSeconds DEF CountInv, CountTogether
<1>5. CASE ~fires
  <2>1. COUNTER' = next % CcRange /\ cc' = cc
    BY <1>5 DEF RTC2_IRQHandler
  <2> QED
    BY <1>1, <1>2, <1>3, <2>1 DEF CountInv, CountTogether
<1> QED
  BY <1>4, <1>5

\* setAlarm arms the compare value, and nothing else of the sketch's touches
\* what counts.
LEMMA SketchCounts ==
    ASSUME TypeInv, CountInv, Sketch
    PROVE  CountInv'
<1>1. CASE AlarmArm
  <2>1. cc' = (waitSecs * TicksPerSec) % CcRange /\ UNCHANGED <<COUNTER, count>>
    BY <1>1 DEF AlarmArm
  <2>2. waitSecs \in Int
    BY <1>1, WaitType
  <2> QED
    BY <2>1, <2>2, WholeSeconds DEF CountInv, CountTogether
<1>2. CASE ~AlarmArm
  <2>1. UNCHANGED <<COUNTER, count, cc>>
    BY <1>2 DEF Sketch, Set, SetHour, SetTimeField, SetDateField, GetTime, GetHour,
                GetTimeField, GetDate, GetDateField, SetAlarm, AlarmDays, AlarmHour,
                AlarmMinute, AlarmSecond, AlarmClearFlag, Return, CallbackReturn, rtc2
  <2> QED
    BY <2>1 DEF CountInv, CountTogether
<1> QED
  BY <1>1, <1>2

LEMMA CountInvariance == Spec => []CountInv
<1>1. Init => CountInv
  <2>1. 0 % TicksPerSec = 0
    BY Constants
  <2> QED
    BY <2>1 DEF Init, CountInv, CountTogether
<1>2. TypeInv /\ CountInv /\ [Next]_vars => CountInv'
  <2> SUFFICES ASSUME TypeInv, CountInv, [Next]_vars
               PROVE  CountInv'
    OBVIOUS
  <2>1. CASE UNCHANGED vars
    BY <2>1 DEF vars, rtc2, CountInv, CountTogether
  <2> QED
    BY <2>1, TickCounts, SketchCounts DEF Next
<1> QED
  BY <1>1, <1>2, TypeInvariance, PTL DEF Spec

\* The counter that alarms are compared with and the clock that they are meant
\* for begin a second at the same tick, although an alarm resets the one and
\* not the other and the counter wraps (RTCInt.cpp 494, 547-572).
THEOREM CountsTogether == Spec => []CountTogether
<1>1. CountInv => CountTogether
  BY DEF CountInv
<1> QED
  BY <1>1, CountInvariance, PTL

-------------------------------------------------------------------------------
(* getTime, and the handler between its readings. *)

\* The order of times, whose hours need not be valid, and of dates.
NotLater(a, b) ==
    \/ a.hour < b.hour
    \/ a.hour = b.hour /\ a.minute < b.minute
    \/ a.hour = b.hour /\ a.minute = b.minute /\ a.second <= b.second
Later(a, b) ==
    \/ a.year > b.year
    \/ a.year = b.year /\ a.month > b.month
    \/ a.year = b.year /\ a.month = b.month /\ a.day > b.day

\* A call in which a callback has come began at no time of the clock's.
LEMMA NoClock ==
    ASSUME TypeInv
    PROVE  never # clock /\ never[2] # dateInt /\ never \notin Time \X Date
<1>1. never[1].hour = -1 /\ never[2].day = -1
  BY DEF never
<1>2. /\ clock[1] = timeInt /\ timeInt.hour \in Nat /\ dateInt.day \in Nat
  BY DEF clock, TypeInv, Types, TypeOK
<1>3. ASSUME never \in Time \X Date
      PROVE  never[1].hour \in Nat
  BY <1>3 DEF Time
<1> QED
  BY <1>1, <1>2, <1>3

\* What getTime has still to read, once it has the hour, and the minute.
hourRead   == << <<"getMinute">>, <<"getSecond">> >>
minuteRead == << <<"getSecond">> >>

\* The clock does not go back, so what has been read, and the time at which the
\* call began, are at or before it.  The hour that was read is not before the
\* call; a minute may be, if an hour has ended since, but not while the clock
\* still shows the minute in which the call began.
Reading ==
    LET s == call.since[1]  hasHour == call.todo # getSteps
        hasMinute == call.todo \in {minuteRead, <<>>}  hasSecond == call.todo = <<>>
    IN  /\ NotLater(s, timeInt)
        /\ hasHour => s.hour <= shown.hour /\ shown.hour <= timeInt.hour
        /\ hasMinute => /\ time.minute < Sixty
                        /\ shown.hour = timeInt.hour => time.minute <= timeInt.minute
        /\ hasSecond => time.second < Sixty /\ NotLater(shown, timeInt)
        /\ timeInt.hour = s.hour /\ timeInt.minute = s.minute =>
             /\ hasMinute => time.minute = s.minute
             /\ hasSecond => time.second >= s.second

GetInv ==
    call.op = "getTime" /\ call.since # never =>
        /\ call.since \in Time \X Date
        /\ call.todo \in {getSteps, hourRead, minuteRead, <<>>}
        /\ \/ dateInt = call.since[2] /\ Reading
           \/ Later(dateInt, call.since[2])

\* Which readings remain, and which is next.
LEMMA GetStages ==
    /\ Tail(getSteps) = hourRead /\ Tail(hourRead) = minuteRead /\ Tail(minuteRead) = <<>>
    /\ Head(getSteps)[1] = "getHour" /\ Head(hourRead)[1] = "getMinute"
    /\ Head(minuteRead)[1] = "getSecond"
    /\ getSteps \notin {hourRead, minuteRead, <<>>} /\ hourRead \notin {minuteRead, <<>>}
    /\ minuteRead # <<>>
<1>1. /\ Len(getSteps) = 3 /\ Len(hourRead) = 2 /\ Len(minuteRead) = 1
      /\ Len(<<>>) = 0
  BY DEF getSteps, hourRead, minuteRead
<1>2. /\ Tail(getSteps) = hourRead /\ Tail(hourRead) = minuteRead /\ Tail(minuteRead) = <<>>
  BY DEF getSteps, hourRead, minuteRead
<1>3. /\ Head(getSteps)[1] = "getHour" /\ Head(hourRead)[1] = "getMinute"
      /\ Head(minuteRead)[1] = "getSecond"
  BY DEF getSteps, hourRead, minuteRead
<1> HIDE DEF getSteps, hourRead, minuteRead
<1>4. getSteps # hourRead /\ getSteps # minuteRead /\ hourRead # minuteRead
  BY <1>1
<1>5. getSteps # <<>> /\ hourRead # <<>> /\ minuteRead # <<>>
  BY <1>1
<1>6. getSteps \notin {hourRead, minuteRead, <<>>} /\ hourRead \notin {minuteRead, <<>>}
  BY <1>4, <1>5
<1> QED
  BY <1>2, <1>3, <1>5, <1>6, Zenon

\* A time of day is its minutes, and its seconds.
LEMMA MinutesOfDay ==
    ASSUME NEW t, t.hour \in Nat, t.minute \in 0 .. Sixty - 1, t.second \in 0 .. Sixty - 1
    PROVE  /\ secOfDay(t) = (t.hour * Sixty + t.minute) * Sixty + t.second
           /\ t.hour * Sixty + t.minute \in Nat
<1>1. Sixty \in Nat
  BY Constants
<1>2. ASSUME NEW h \in Nat, NEW m \in Nat
      PROVE  /\ h * (Sixty * Sixty) + m * Sixty = (h * Sixty + m) * Sixty
             /\ h * Sixty + m \in Nat
  BY <1>1
<1>3. t.minute \in Nat
  BY <1>1
<1> QED
  BY <1>2, <1>3 DEF secOfDay, Hour

\* A time that is not later is no more seconds into its day.
LEMMA SecondsInOrder ==
    ASSUME NEW a, NEW b, NotLater(a, b),
           a.hour \in Nat, a.minute \in 0 .. Sixty - 1, a.second \in 0 .. Sixty - 1,
           b.hour \in Nat, b.minute \in 0 .. Sixty - 1, b.second \in 0 .. Sixty - 1
    PROVE  secOfDay(a) <= secOfDay(b)
<1> DEFINE m == a.hour * Sixty + a.minute   n == b.hour * Sixty + b.minute
<1>1. /\ secOfDay(a) = m * Sixty + a.second /\ m \in Nat
      /\ secOfDay(b) = n * Sixty + b.second /\ n \in Nat
  BY MinutesOfDay
<1>2. Sixty \in Nat \ {0}
  BY Constants
<1>3. m < n \/ (m = n /\ a.second <= b.second)
  <2>1. CASE a.hour < b.hour
    <3>1. a.hour * Sixty + a.minute < b.hour * Sixty + b.minute
      <4>1. a.hour \in Int /\ b.hour \in Int
        OBVIOUS
      <4> QED
        BY <1>2, <2>1, <4>1, QuotientsInOrder
    <3> QED
      BY <3>1
  <2>2. CASE a.hour = b.hour /\ a.minute < b.minute
    <3>1. b.hour * Sixty \in Int
      BY <1>2
    <3>2. a.minute \in Int /\ b.minute \in Int
      BY <1>2
    <3> QED
      BY <2>2, <3>1, <3>2
  <2>3. CASE a.hour = b.hour /\ a.minute = b.minute /\ a.second <= b.second
    BY <2>3
  <2> QED
    BY <2>1, <2>2, <2>3 DEF NotLater
<1> HIDE DEF m, n
<1>4. CASE m < n
  <2>1. m * Sixty + a.second < n * Sixty + b.second
    BY <1>1, <1>2, <1>4, QuotientsInOrder
  <2>2. secOfDay(a) \in Int /\ secOfDay(b) \in Int
    BY <1>1, <1>2
  <2> QED
    BY <1>1, <2>1, <2>2
<1>5. CASE m = n /\ a.second <= b.second
  <2>1. n * Sixty \in Int /\ a.second \in Int /\ b.second \in Int
    BY <1>1, <1>2
  <2> QED
    BY <1>1, <1>5, <2>1
<1> QED
  BY <1>3, <1>4, <1>5

\* The minute of the day tells the hour and the minute.
LEMMA MinuteOfDay ==
    ASSUME NEW a, NEW b,
           a.hour \in Nat, a.minute \in 0 .. Sixty - 1, a.second \in 0 .. Sixty - 1,
           b.hour \in Nat, b.minute \in 0 .. Sixty - 1, b.second \in 0 .. Sixty - 1,
           secOfDay(a) \div Sixty = secOfDay(b) \div Sixty
    PROVE  a.hour = b.hour /\ a.minute = b.minute
<1>1. Sixty \in Nat \ {0}
  BY Constants
<1>2. ASSUME NEW n \in Int, NEW r \in 0 .. Sixty - 1
      PROVE  /\ (n * Sixty + r) \div Sixty = n
             /\ (n * Sixty + r) % Sixty = r
  <2>1. n * Sixty = Sixty * n
    BY <1>1
  <2>2. (Sixty * n + r) \div Sixty = n /\ (Sixty * n + r) % Sixty = r
    BY <1>1, DivUnique, ModUnique
  <2> QED
    BY <2>1, <2>2
<1> DEFINE m == a.hour * Sixty + a.minute   n == b.hour * Sixty + b.minute
<1>3. /\ secOfDay(a) = m * Sixty + a.second /\ m \in Nat
      /\ secOfDay(b) = n * Sixty + b.second /\ n \in Nat
  BY MinutesOfDay
<1>4. /\ m \div Sixty = a.hour /\ m % Sixty = a.minute
      /\ n \div Sixty = b.hour /\ n % Sixty = b.minute
  BY <1>2
<1> HIDE DEF m, n
<1>5. m = n
  <2>1. (m * Sixty + a.second) \div Sixty = m /\ (n * Sixty + b.second) \div Sixty = n
    BY <1>2, <1>3
  <2> QED
    BY <1>3, <2>1
<1> QED
  BY <1>4, <1>5

\* The clock goes on: to a later time or, at midnight, to a later day.
LEMMA TickGoesOn ==
    ASSUME TypeInv, RTC2_IRQHandler
    PROVE  \/ dateInt' = dateInt /\ NotLater(timeInt, timeInt')
           \/ Later(dateInt', dateInt)
<1> USE Constants
<1>1. timeInt \in Time /\ dateInt \in Date
  BY DEF TypeInv, Types, TypeOK, Time, Date
<1>2. PICK h \in Nat, m \in 0 .. Sixty - 1, s \in 0 .. Sixty - 1 :
         timeInt = [hour |-> h, minute |-> m, second |-> s]
  BY <1>1 DEF Time
<1>3. CASE ~secondsEnd
  BY <1>2, <1>3 DEF RTC2_IRQHandler, Tick, NotLater
<1>4. CASE secondsEnd /\ ~midnight(timeInt)
  <2>1. timeInt' = nextTime(timeInt) /\ dateInt' = dateInt
    BY <1>4 DEF RTC2_IRQHandler, Tick
  <2>2. \/ nextTime(timeInt) = [hour |-> h, minute |-> m, second |-> s + 1]
        \/ nextTime(timeInt) = [hour |-> h, minute |-> m + 1, second |-> 0]
        \/ nextTime(timeInt) = [hour |-> h + 1, minute |-> 0, second |-> 0]
    <3>1. ~(h + 1 = DayHours /\ m + 1 = Sixty /\ s + 1 = Sixty)
      <4>1. ~(h = DayHours - 1 /\ m = Sixty - 1 /\ s = Sixty - 1)
        BY <1>2, <1>4 DEF midnight
      <4> QED
        BY <4>1
    <3> QED
      BY <1>2, <3>1 DEF nextTime
  <2> QED
    BY <1>2, <2>1, <2>2 DEF NotLater
<1>5. CASE secondsEnd /\ midnight(timeInt)
  <2>1. PICK d \in Nat, mm \in 0 .. 12, y \in Nat :
           dateInt = [day |-> d, month |-> mm, year |-> y]
    BY <1>1 DEF Date
  <2>2. dateInt' \in nextDay(dateInt)
    BY <1>5 DEF RTC2_IRQHandler, Tick
  <2>3. dateInt' \in {[dateInt EXCEPT !.day = @ + 1],
                      IF dateInt.month # 12 THEN [dateInt EXCEPT !.day = 1, !.month = @ + 1]
                      ELSE [day |-> 1, month |-> 1, year |-> dateInt.year + 1]}
    BY <2>2 DEF nextDay
  <2>4. \/ dateInt' = [day |-> d + 1, month |-> mm, year |-> y]
        \/ dateInt' = [day |-> 1, month |-> mm + 1, year |-> y]
        \/ dateInt' = [day |-> 1, month |-> 1, year |-> y + 1]
    BY <2>1, <2>3
  <2> QED
    BY <2>1, <2>4 DEF Later
<1> QED
  BY <1>3, <1>4, <1>5

\* The handler between two readings.
LEMMA GetTick ==
    ASSUME TypeInv, GetInv, RTC2_IRQHandler
    PROVE  GetInv'
<1>0. CASE call' = Idle
  BY <1>0 DEF Idle, GetInv
<1> SUFFICES ASSUME call' # Idle
             PROVE  GetInv'
  BY <1>0
<1>1. UNCHANGED <<time_Mode, time, call>>
  BY DEF RTC2_IRQHandler, Callback
<1> SUFFICES ASSUME call.op = "getTime", call.since # never
             PROVE  /\ call.since \in Time \X Date
                    /\ call.todo \in {getSteps, hourRead, minuteRead, <<>>}
                    /\ \/ dateInt' = call.since[2] /\ Reading'
                       \/ Later(dateInt', call.since[2])
  BY <1>1 DEF GetInv
<1>2. /\ call.since[1] \in Time /\ call.since[2] \in Date
      /\ call.todo \in {getSteps, hourRead, minuteRead, <<>>}
      /\ \/ dateInt = call.since[2] /\ Reading
         \/ Later(dateInt, call.since[2])
  BY DEF GetInv
<1>3. /\ timeInt \in Time /\ timeInt' \in Time /\ dateInt \in Date /\ dateInt' \in Date
  BY TickTypes DEF TypeInv, Types, TypeOK, Time, Date
<1>4. \/ dateInt' = dateInt /\ NotLater(timeInt, timeInt')
      \/ Later(dateInt', dateInt)
  BY TickGoesOn
<1>5. CASE Later(dateInt, call.since[2]) \/ Later(dateInt', dateInt)
  <2>1. Later(dateInt', call.since[2])
    <3>1. /\ call.since[2].year \in Nat /\ call.since[2].month \in Nat /\ call.since[2].day \in Nat
          /\ dateInt.year \in Nat /\ dateInt.month \in Nat /\ dateInt.day \in Nat
          /\ dateInt'.year \in Nat /\ dateInt'.month \in Nat /\ dateInt'.day \in Nat
      <4>1. ASSUME NEW d \in Date
            PROVE  d.year \in Nat /\ d.month \in Nat /\ d.day \in Nat
        BY DEF Date
      <4> QED
        BY <1>2, <1>3, <4>1
    <3>2. \/ dateInt' = dateInt /\ Later(dateInt, call.since[2])
          \/ dateInt = call.since[2] /\ Later(dateInt', dateInt)
          \/ Later(dateInt, call.since[2]) /\ Later(dateInt', dateInt)
      BY <1>2, <1>4, <1>5
    <3> QED
      BY <3>1, <3>2 DEF Later
  <2> QED
    BY <1>2, <2>1 DEF GetInv
<1>6. CASE dateInt' = dateInt /\ NotLater(timeInt, timeInt') /\ dateInt = call.since[2] /\ Reading
  <2> DEFINE s == call.since[1]  n == timeInt  k == timeInt'
  <2>1. /\ time.minute \in Nat /\ time.second \in Nat /\ shown.hour \in Nat
    BY Constants DEF TypeInv, Types, TypeOK, shown
  <2>2. /\ s.hour \in Nat /\ s.minute \in Nat /\ s.second \in Nat
        /\ n.hour \in Nat /\ n.minute \in Nat /\ n.second \in Nat
        /\ k.hour \in Nat /\ k.minute \in Nat /\ k.second \in Nat
    <3>1. ASSUME NEW t \in Time
          PROVE  t.hour \in Nat /\ t.minute \in Nat /\ t.second \in Nat
      BY Constants DEF Time
    <3> QED
      BY <1>2, <1>3, <3>1
  <2>3. shown' = shown /\ shown.minute = time.minute /\ shown.second = time.second
    BY <1>1 DEF shown
  <2>4. NotLater(s, n) /\ NotLater(n, k)
    BY <1>6 DEF Reading
  <2>5. NotLater(s, k)
    BY <2>2, <2>4 DEF NotLater
  <2>6. n.hour <= k.hour /\ (k.hour = n.hour => n.minute <= k.minute)
    BY <2>2, <2>4 DEF NotLater
  <2>7. k.hour = s.hour /\ k.minute = s.minute => n.hour = s.hour /\ n.minute = s.minute
    BY <2>2, <2>4 DEF NotLater
  <2>8. ASSUME NotLater(shown, n)
        PROVE  NotLater(shown, k)
    BY <2>1, <2>2, <2>3, <2>4, <2>8 DEF NotLater
  <2>9. ASSUME shown.hour <= n.hour, shown.hour = n.hour => time.minute <= n.minute
        PROVE  shown.hour <= k.hour /\ (shown.hour = k.hour => time.minute <= k.minute)
    BY <2>1, <2>2, <2>6, <2>9
  <2>10. call.todo \in {minuteRead, <<>>} => call.todo # getSteps
    BY GetStages
  <2>11. call.todo # getSteps => shown.hour <= k.hour
    BY <1>6, <2>1, <2>2, <2>6 DEF Reading
  <2>12. Reading'
    BY <1>1, <1>6, <2>3, <2>5, <2>7, <2>8, <2>9, <2>10, <2>11 DEF Reading
  <2> QED
    BY <1>2, <1>6, <2>12 DEF GetInv
<1> QED
  BY <1>2, <1>4, <1>5, <1>6

\* A reading is the one that is next.
LEMMA GetReads ==
    ASSUME TypeInv, GetInv, call.op = "getTime", call.since # never,
           \/ GetHour \/ GetTimeField("minute", "getMinute")
           \/ GetTimeField("second", "getSecond")
    PROVE  GetInv'
<1> DEFINE s == call.since[1]  n == timeInt
<1>1. /\ call.since \in Time \X Date
      /\ call.todo \in {getSteps, hourRead, minuteRead, <<>>}
      /\ \/ dateInt = call.since[2] /\ Reading
         \/ Later(dateInt, call.since[2])
  BY DEF GetInv
<1>2. /\ n.hour \in Nat /\ n.minute \in 0 .. Sixty - 1 /\ n.second \in 0 .. Sixty - 1
      /\ s.hour \in Nat /\ s.minute \in 0 .. Sixty - 1 /\ s.second \in 0 .. Sixty - 1
      /\ Sixty \in Nat
  BY <1>1, Constants DEF TypeInv, Types, TypeOK, Time
<1>3. /\ UNCHANGED <<timeInt, dateInt, time_Mode>>
      /\ call' = [call EXCEPT !.todo = Tail(@)]
  BY DEF GetHour, GetTimeField, done, clock
<1>4. call'.op = "getTime" /\ call'.since = call.since /\ call'.todo = Tail(call.todo)
  <2>1. call = [op |-> call.op, todo |-> call.todo, since |-> call.since,
                sec |-> call.sec, days |-> call.days]
    BY DEF TypeInv, Types, CallOK, step, GetHour, GetTimeField
  <2>2. call' = [op |-> call.op, todo |-> Tail(call.todo), since |-> call.since,
                 sec |-> call.sec, days |-> call.days]
    BY <1>3, <2>1
  <2> QED
    BY <2>2
<1>5. time \in [hour : Nat, minute : Nat, second : Nat, Tmode : BOOLEAN]
  BY DEF TypeInv, Types, TypeOK
<1>6. CASE GetHour
  <2>1. call.todo = getSteps
    BY <1>1, <1>6, GetStages DEF GetHour, step
  <2>2. call'.todo = hourRead
    BY <1>4, <2>1, GetStages
  <2>3. shown'.hour = n.hour
    <3>1. CASE time_Mode = "H12" /\ n.hour > HalfDay
      <4>1. time'.hour = n.hour - HalfDay /\ time'.Tmode = TRUE
        BY <1>5, <1>6, <3>1 DEF GetHour
      <4> QED
        <5>1. shown'.hour = time'.hour + HalfDay
          BY <1>3, <3>1, <4>1 DEF shown
        <5> QED
          BY <1>2, <4>1, <5>1, Constants
    <3>2. CASE time_Mode = "H12" /\ ~(n.hour > HalfDay)
      <4>1. time'.hour = n.hour /\ time'.Tmode = FALSE
        BY <1>5, <1>6, <3>2 DEF GetHour
      <4> QED
        <5>1. shown'.hour = time'.hour + 0
          BY <1>3, <3>2, <4>1 DEF shown
        <5> QED
          BY <1>2, <4>1, <5>1
    <3>3. CASE time_Mode # "H12"
      <4>1. time'.hour = n.hour
        BY <1>5, <1>6, <3>3 DEF GetHour
      <4> QED
        <5>1. shown'.hour = time'.hour + 0
          BY <1>3, <3>3 DEF shown
        <5> QED
          BY <1>2, <4>1, <5>1
    <3> QED
      BY <3>1, <3>2, <3>3
  <2>4. ASSUME Reading
        PROVE  Reading'
    <3>1. NotLater(s, n) /\ s.hour <= n.hour
      BY <1>2, <2>4 DEF Reading, NotLater
    <3>2. call'.todo \notin {minuteRead, <<>>} /\ call'.todo # getSteps /\ call'.todo # <<>>
      BY <2>2, GetStages
    <3>3. call'.since = call.since /\ timeInt' = timeInt
      BY <1>3, <1>4
    <3> QED
      BY <1>2, <2>3, <3>1, <3>2, <3>3 DEF Reading
  <2> QED
    BY <1>1, <1>3, <1>4, <2>2, <2>4 DEF GetInv
<1>7. CASE GetTimeField("minute", "getMinute")
  <2>1. call.todo = hourRead
    BY <1>1, <1>7, GetStages DEF GetTimeField, step
  <2>2. call'.todo = minuteRead
    BY <1>4, <2>1, GetStages
  <2>3. time'.minute = n.minute /\ shown'.hour = shown.hour
    BY <1>3, <1>5, <1>7 DEF GetTimeField, shown
  <2>4. ASSUME Reading
        PROVE  Reading'
    <3>1. /\ NotLater(s, n) /\ s.hour <= shown.hour /\ shown.hour <= n.hour
      BY <2>1, <2>4, GetStages DEF Reading
    <3>2. call'.todo \in {minuteRead, <<>>} /\ call'.todo # getSteps /\ call'.todo # <<>>
      BY <2>2, GetStages
    <3>3. call'.since = call.since /\ timeInt' = timeInt
      BY <1>3, <1>4
    <3> QED
      BY <1>2, <2>3, <3>1, <3>2, <3>3 DEF Reading
  <2> QED
    BY <1>1, <1>3, <1>4, <2>2, <2>4 DEF GetInv
<1>8. CASE GetTimeField("second", "getSecond")
  <2>1. call.todo = minuteRead
    BY <1>1, <1>8, GetStages DEF GetTimeField, step
  <2>2. call'.todo = <<>>
    BY <1>4, <2>1, GetStages
  <2>3. time'.second = n.second /\ time'.minute = time.minute /\ shown'.hour = shown.hour
    BY <1>3, <1>5, <1>8 DEF GetTimeField, shown
  <2>4. ASSUME Reading
        PROVE  Reading'
    <3>1. /\ NotLater(s, n) /\ s.hour <= shown.hour /\ shown.hour <= n.hour
          /\ time.minute < Sixty /\ (shown.hour = n.hour => time.minute <= n.minute)
          /\ n.hour = s.hour /\ n.minute = s.minute => time.minute = s.minute
      BY <2>1, <2>4, GetStages DEF Reading
    <3>2. <<>> # getSteps
      BY GetStages
    <3>3. /\ shown'.minute = time.minute /\ shown'.second = n.second
          /\ shown.hour \in Nat /\ time.minute \in Nat
      BY <1>5, <2>3, Constants DEF shown
    <3>4. NotLater(shown', n)
      BY <1>2, <2>3, <3>1, <3>3 DEF NotLater
    <3>5. n.hour = s.hour /\ n.minute = s.minute => n.second >= s.second
      BY <1>2, <3>1 DEF NotLater
    <3> QED
      BY <1>2, <1>3, <1>4, <2>2, <2>3, <3>1, <3>2, <3>4, <3>5 DEF Reading
  <2> QED
    BY <1>1, <1>3, <1>4, <2>2, <2>4 DEF GetInv
<1> QED
  BY <1>6, <1>7, <1>8

\* The steps of the calls.
CallStep ==
    \/ SetHour \/ SetTimeField("minute") \/ SetTimeField("second")
    \/ \E f \in {"day", "month", "year"} : SetDateField(f)
    \/ GetHour \/ GetTimeField("minute", "getMinute") \/ GetTimeField("second", "getSecond")
    \/ GetDateField("day", "getDay") \/ GetDateField("month", "getMonth")
    \/ GetDateField("year", "getYear")
    \/ AlarmDays \/ AlarmHour \/ AlarmMinute \/ AlarmSecond \/ AlarmArm

\* A step does not change whose it is, and leaves the steps behind it, or none.
LEMMA StepKeeps ==
    ASSUME TypeInv, CallStep
    PROVE  /\ call # Idle /\ call.todo # <<>>
           /\ call'.op = call.op /\ call'.since = call.since
           /\ call'.todo = Tail(call.todo) \/ (AlarmDays /\ call'.todo = <<>>)
<1>1. call # Idle /\ call.todo # <<>>
  BY DEF CallStep, step, SetHour, SetTimeField, SetDateField, GetHour, GetTimeField,
         GetDateField, AlarmDays, AlarmHour, AlarmMinute, AlarmSecond, AlarmArm
<1>2. call = [op |-> call.op, todo |-> call.todo, since |-> call.since,
              sec |-> call.sec, days |-> call.days]
  BY <1>1 DEF TypeInv, Types, CallOK
<1>3. ASSUME NEW todo, NEW n
      PROVE  /\ call' = [call EXCEPT !.todo = todo] =>
                   call'.op = call.op /\ call'.since = call.since /\ call'.todo = todo
             /\ call' = [call EXCEPT !.todo = todo, !.sec = n] =>
                   call'.op = call.op /\ call'.since = call.since /\ call'.todo = todo
             /\ call' = [call EXCEPT !.days = n, !.todo = todo] =>
                   call'.op = call.op /\ call'.since = call.since /\ call'.todo = todo
  BY <1>2
<1>4. ASSUME done
      PROVE  call'.op = call.op /\ call'.since = call.since /\ call'.todo = Tail(call.todo)
  <2>1. call' = [call EXCEPT !.todo = Tail(call.todo)]
    BY <1>4 DEF done
  <2> QED
    BY <1>3, <2>1
<1>5. CASE AlarmDays
  <2>1. PICK todo, days : /\ call' = [call EXCEPT !.days = days, !.todo = todo]
                          /\ todo \in {Tail(call.todo), <<>>}
    BY <1>5 DEF AlarmDays
  <2> QED
    BY <1>1, <1>3, <1>5, <2>1
<1>6. CASE AlarmHour \/ AlarmMinute \/ AlarmSecond
  <2>1. PICK sec : call' = [call EXCEPT !.todo = Tail(call.todo), !.sec = sec]
    BY <1>6 DEF AlarmHour, AlarmMinute, AlarmSecond
  <2>2. PICK todo : todo = Tail(call.todo)
    OBVIOUS
  <2> QED
    BY <1>1, <1>3, <2>1, <2>2
<1> QED
  BY <1>1, <1>4, <1>5, <1>6
     DEF CallStep, SetHour, SetTimeField, SetDateField, GetHour, GetTimeField, GetDateField,
         AlarmArm

\* No other step of the sketch's belongs to a getTime.
LEMMA GetOthers ==
    ASSUME TypeInv, GetInv, Sketch
    PROVE  GetInv'
<1>1. CASE GetTime
  <2>1. /\ call' = [op |-> "getTime", todo |-> getSteps, since |-> clock, sec |-> 0, days |-> 0]
        /\ UNCHANGED <<timeInt, dateInt>>
    BY <1>1 DEF GetTime, begins, clock
  <2>2. timeInt \in Time /\ dateInt \in Date
    BY DEF TypeInv, Types, TypeOK, Time, Date
  <2>3. NotLater(timeInt, timeInt)
    BY <2>2, Constants DEF NotLater, Time
  <2>4. Reading'
    <3>1. getSteps \notin {minuteRead, <<>>}
      BY GetStages
    <3> QED
      BY <2>1, <2>3, <3>1 DEF Reading, clock
  <2> QED
    BY <2>1, <2>2, <2>4 DEF GetInv, clock
<1>2. CASE call.op = "getTime" /\ call.since # never /\ (\/ GetHour \/ GetTimeField("minute", "getMinute")
                                                           \/ GetTimeField("second", "getSecond"))
  BY <1>2, GetReads
<1>3. CASE AlarmClearFlag \/ UNCHANGED vars
  <2>1. UNCHANGED <<timeInt, dateInt, time_Mode, time, call>>
    BY <1>3 DEF AlarmClearFlag, vars, clock
  <2> QED
    BY <2>1 DEF GetInv, Reading, shown
<1>4. ASSUME NEW op, NEW todo, begins(op, todo), op # "getTime"
      PROVE  GetInv'
  BY <1>4 DEF begins, GetInv
<1>5. CASE Return \/ CallbackReturn
  <2>1. CASE Return
    BY <2>1 DEF Return, Idle, GetInv
  <2>2. CASE CallbackReturn
    BY <2>2, Resumes DEF Idle, GetInv
  <2> QED
    BY <1>5, <2>1, <2>2
<1>6. ASSUME NEW f, step(f), f \notin {"getHour", "getMinute", "getSecond"},
             call'.op = call.op, call'.since = call.since
      PROVE  GetInv'
  <2>1. call.op # "getTime" \/ call.since = never
    BY <1>6, GetStages DEF step, GetInv
  <2> QED
    BY <1>6, <2>1 DEF GetInv
<1>7. CASE CallStep
  <2>1. call'.op = call.op /\ call'.since = call.since
    BY <1>7, StepKeeps
  <2>2. \/ GetHour \/ GetTimeField("minute", "getMinute") \/ GetTimeField("second", "getSecond")
        \/ \E f : step(f) /\ f \notin {"getHour", "getMinute", "getSecond"}
    BY <1>7 DEF CallStep, SetHour, SetTimeField, SetDateField, GetDateField, AlarmDays,
                AlarmHour, AlarmMinute, AlarmSecond, AlarmArm
  <2>3. CASE \E f : step(f) /\ f \notin {"getHour", "getMinute", "getSecond"}
    BY <1>6, <2>1, <2>3
  <2>4. CASE call.op # "getTime" \/ call.since = never
    BY <2>1, <2>4 DEF GetInv
  <2> QED
    BY <1>2, <2>2, <2>3, <2>4
<1> QED
  BY <1>1, <1>2, <1>3, <1>4, <1>5, <1>6, <1>7
     DEF Sketch, CallStep, Set, GetDate, SetAlarm

\* getTime, which the handler may interrupt between any two of its readings, is
\* never ahead of the clock unless midnight falls in the call; and unless a
\* minute ends in the call, it returns a time of the call (RTCInt.cpp 106-114).
THEOREM GetTimeStaysBehind == Spec => []GetTimeBehind
<1>1. Init => GetInv
  BY DEF Init, Idle, GetInv
<1>2. TypeInv /\ GetInv /\ [Next]_vars => GetInv'
  <2> SUFFICES ASSUME TypeInv, GetInv, [Next]_vars
               PROVE  GetInv'
    OBVIOUS
  <2>1. CASE UNCHANGED vars
    BY <2>1 DEF vars, clock, GetInv, Reading, shown
  <2> QED
    BY <2>1, GetTick, GetOthers DEF Next
<1>3. TypeInv /\ GetInv => GetTimeBehind
  <2> SUFFICES ASSUME TypeInv, GetInv, got, validTime(timeInt), call.since[2] = dateInt
               PROVE  /\ secOfDay(shown) <= secOfDay(timeInt)
                      /\ secOfDay(timeInt) \div Sixty = secOfDay(call.since[1]) \div Sixty =>
                           secOfDay(shown) >= secOfDay(call.since[1])
    BY DEF GetTimeBehind
  <2> DEFINE s == call.since[1]  n == timeInt
  <2>1. call.op = "getTime" /\ call.todo = <<>> /\ call.since \in Time \X Date
    BY NoClock DEF got, GetInv
  <2>2. /\ n.hour \in Nat /\ n.minute \in 0 .. Sixty - 1 /\ n.second \in 0 .. Sixty - 1
        /\ s.hour \in Nat /\ s.minute \in 0 .. Sixty - 1 /\ s.second \in 0 .. Sixty - 1
    BY <2>1, Constants DEF TypeInv, Types, TypeOK, Time
  <2>3. ~Later(dateInt, call.since[2])
    BY DEF Later, TypeInv, Types, TypeOK
  <2>4. Reading
    BY <2>1, <2>3, NoClock DEF GetInv
  <2>5. /\ NotLater(shown, n) /\ s.hour <= shown.hour /\ shown.hour <= n.hour
        /\ time.minute < Sixty /\ time.second < Sixty
        /\ n.hour = s.hour /\ n.minute = s.minute =>
             time.minute = s.minute /\ time.second >= s.second
    BY <2>1, <2>4, GetStages DEF Reading
  <2>6. /\ shown.hour \in Nat /\ shown.minute \in 0 .. Sixty - 1
        /\ shown.second \in 0 .. Sixty - 1
        /\ shown.minute = time.minute /\ shown.second = time.second
    BY <2>5, Constants DEF TypeInv, Types, TypeOK, shown
  <2>7. secOfDay(shown) <= secOfDay(n)
    BY <2>2, <2>5, <2>6, SecondsInOrder
  <2>8. ASSUME secOfDay(n) \div Sixty = secOfDay(s) \div Sixty
        PROVE  secOfDay(s) <= secOfDay(shown)
    <3>1. n.hour = s.hour /\ n.minute = s.minute
      BY <2>2, <2>8, MinuteOfDay
    <3>2. NotLater(s, shown)
      BY <2>2, <2>5, <2>6, <3>1 DEF NotLater
    <3> QED
      BY <2>2, <2>6, <3>2, SecondsInOrder
  <2>9. secOfDay(shown) \in Int /\ secOfDay(s) \in Int
    BY <2>2, <2>6, Constants DEF secOfDay
  <2> QED
    BY <2>7, <2>8, <2>9
<1> QED
  BY <1>1, <1>2, <1>3, TypeInvariance, PTL DEF Spec

-------------------------------------------------------------------------------
(* Alarms: the days to a date. *)

\* The first day of a month, in its year.
monthStart(m, y) == before[m] + (IF m > 2 /\ isLeap(y) THEN 1 ELSE 0)

\* The months of a year follow one another.
LEMMA MonthsInOrder ==
    ASSUME NEW y \in Nat, NEW m \in 1 .. 12
    PROVE  /\ monthStart(m, y) \in Nat /\ monthDays(m, y) \in 28 .. 31
           /\ monthStart(m, y) + monthDays(m, y) <= 365 + (IF isLeap(y) THEN 1 ELSE 0)
           /\ \A n \in 1 .. 12 : m < n => monthStart(m, y) + monthDays(m, y) <= monthStart(n, y)
<1>1. m \in {1, 2, 3, 4, 5, 6, 7, 8, 9, 10, 11, 12}
  OBVIOUS
<1>2. /\ monthStart(m, y) \in Nat /\ monthDays(m, y) \in 28 .. 31
      /\ monthStart(m, y) + monthDays(m, y) <= 365 + (IF isLeap(y) THEN 1 ELSE 0)
  BY <1>1 DEF monthStart, monthDays, before
<1>3. ASSUME NEW n \in 1 .. 12, m < n
      PROVE  monthStart(m, y) + monthDays(m, y) <= monthStart(n, y)
  <2>1. n \in {1, 2, 3, 4, 5, 6, 7, 8, 9, 10, 11, 12}
    OBVIOUS
  <2> QED
    BY <1>1, <1>3, <2>1 DEF monthStart, monthDays, before
<1> QED
  BY <1>2, <1>3

\* A day number is a number.
LEMMA DayNumberIsNat ==
    ASSUME NEW d \in Date, validDate(d)
    PROVE  /\ dayNumber(d) \in Nat
           /\ dayNumber(d) = 365 * d.year + ((d.year + 3) \div 4) + monthStart(d.month, d.year)
                               + d.day - 1
<1>1. d.year \in Nat /\ d.month \in 1 .. 12 /\ d.day \in Nat /\ d.day >= 1
  BY DEF Date, validDate
<1>2. monthStart(d.month, d.year) \in Nat
  BY <1>1, MonthsInOrder
<1>3. before[d.month] \in Int
  <2>1. d.month \in {1, 2, 3, 4, 5, 6, 7, 8, 9, 10, 11, 12}
    BY <1>1
  <2> QED
    BY <2>1 DEF before
<1>4. dayNumber(d) = 365 * d.year + ((d.year + 3) \div 4) + monthStart(d.month, d.year)
                       + d.day - 1
  BY <1>1, <1>3 DEF dayNumber, monthStart
<1>5. (d.year + 3) \div 4 \in Nat
  BY <1>1
<1> QED
  BY <1>1, <1>2, <1>4, <1>5

\* An earlier date has a lower number: no year, month or day is counted twice.
LEMMA DatesInOrder ==
    ASSUME NEW a \in Date, NEW b \in Date, validDate(a), validDate(b), Later(b, a)
    PROVE  dayNumber(a) < dayNumber(b)
<1> DEFINE y == a.year  m == a.month  d == a.day
           z == b.year  n == b.month  e == b.day
<1>1. /\ y \in Nat /\ m \in 1 .. 12 /\ d \in 1 .. monthDays(m, y)
      /\ z \in Nat /\ n \in 1 .. 12 /\ e \in 1 .. monthDays(n, z)
  BY DEF Date, validDate
<1>2. /\ dayNumber(a) = 365 * y + ((y + 3) \div 4) + monthStart(m, y) + d - 1
      /\ dayNumber(b) = 365 * z + ((z + 3) \div 4) + monthStart(n, z) + e - 1
  BY DayNumberIsNat
<1>3. z > y \/ (z = y /\ n > m) \/ (z = y /\ n = m /\ e > d)
  BY DEF Later
<1> HIDE DEF y, m, d, z, n, e
<1>4. /\ monthStart(m, y) \in Nat /\ monthDays(m, y) \in 28 .. 31
      /\ monthStart(n, z) \in Nat /\ monthDays(n, z) \in 28 .. 31
      /\ monthStart(m, y) + monthDays(m, y) <= 365 + (IF isLeap(y) THEN 1 ELSE 0)
  <2>1. /\ monthStart(m, y) \in Nat /\ monthDays(m, y) \in 28 .. 31
        /\ monthStart(m, y) + monthDays(m, y) <= 365 + (IF isLeap(y) THEN 1 ELSE 0)
    <3>1. y \in Nat /\ m \in 1 .. 12
      BY <1>1
    <3>2. monthStart(m, y) \in Nat /\ monthDays(m, y) \in 28 .. 31
      BY <3>1, MonthsInOrder, Zenon
    <3>3. monthStart(m, y) + monthDays(m, y) <= 365 + (IF isLeap(y) THEN 1 ELSE 0)
      BY <3>1, MonthsInOrder
    <3> QED
      BY <3>2, <3>3
  <2>2. monthStart(n, z) \in Nat /\ monthDays(n, z) \in 28 .. 31
    <3>1. z \in Nat /\ n \in 1 .. 12
      BY <1>1
    <3> QED
      BY <3>1, MonthsInOrder, Zenon
  <2> QED
    BY <2>1, <2>2
<1>5. (y + 3) \div 4 \in Nat /\ (z + 3) \div 4 \in Nat
  BY <1>1
<1>6. CASE z > y
  <2>1. ((y + 4) \div 4) <= ((z + 3) \div 4)
    BY <1>1, <1>6
  <2>2. (y + 4) \div 4 = ((y + 3) \div 4) + (IF isLeap(y) THEN 1 ELSE 0)
    BY <1>1 DEF isLeap
  <2>3. ((y + 3) \div 4) + (IF isLeap(y) THEN 1 ELSE 0) <= ((z + 3) \div 4)
    BY <2>1, <2>2
  <2>4. 365 * y + 365 <= 365 * z
    BY <1>1, <1>6
  <2> QED
    BY <1>1, <1>2, <1>4, <1>5, <2>3, <2>4
<1>7. CASE z = y /\ n > m
  <2>1. monthStart(m, y) + monthDays(m, y) <= monthStart(n, z)
    BY <1>1, <1>7, MonthsInOrder
  <2> QED
    BY <1>1, <1>2, <1>4, <1>5, <1>7, <2>1
<1>8. CASE z = y /\ n = m /\ e > d
  BY <1>1, <1>2, <1>4, <1>5, <1>8
<1> QED
  BY <1>3, <1>6, <1>7, <1>8

\* So the number of a day tells the date.
LEMMA DayNumberTells ==
    ASSUME NEW a \in Date, NEW b \in Date, validDate(a), validDate(b),
           dayNumber(a) = dayNumber(b)
    PROVE  a = b
<1>1. dayNumber(a) \in Nat
  BY DayNumberIsNat
<1>2. ~Later(a, b) /\ ~Later(b, a)
  <2>1. ASSUME Later(a, b)  PROVE FALSE
    BY <1>1, <2>1, DatesInOrder
  <2>2. ASSUME Later(b, a)  PROVE FALSE
    BY <1>1, <2>2, DatesInOrder
  <2> QED
    BY <2>1, <2>2
<1> QED
  BY <1>2 DEF Later, Date

\* In a common year the days between two dates are those that rdn counts in the
\* year 0, whose January and February it takes for those of a common year.
LEMMA DaysInCommonYear ==
    ASSUME NEW a \in Date, NEW b \in Date, validDate(a), validDate(b),
           a.year = b.year, ~isLeap(a.year)
    PROVE  rdn(0, a.month, a.day) - rdn(0, b.month, b.day) = dayNumber(a) - dayNumber(b)
<1>1. ASSUME NEW m \in 1 .. 12, NEW d \in Nat
      PROVE  rdn(0, m, d) = before[m] + d - 365 /\ before[m] \in Nat
  <2>1. m \in {1, 2, 3, 4, 5, 6, 7, 8, 9, 10, 11, 12}
    OBVIOUS
  <2>2. before[m] \in Nat
    BY <2>1 DEF before
  <2>3. CASE m < 3
    <3>1. m \in {1, 2}
      BY <2>3
    <3>2. ((153 * (m + 12) - 457) \div 5) = before[m] + 306
      BY <3>1 DEF before
    <3>3. 153 * (m + 12) - 457 >= 0
      BY <3>1
    <3>4. rdn(0, m, d) = 365 * (0 - 1) + 0 - 0 + 0 + ((153 * (m + 12) - 457) \div 5) + d - 306
      BY <2>3, <3>3 DEF rdn, quotient
    <3> QED
      BY <2>2, <3>2, <3>4
  <2>4. CASE ~(m < 3)
    <3>1. ((153 * m - 457) \div 5) = before[m] - 59
      BY <2>1, <2>4 DEF before
    <3>2. 153 * m - 457 >= 0
      BY <2>4
    <3>3. rdn(0, m, d) = 365 * 0 + 0 - 0 + 0 + ((153 * m - 457) \div 5) + d - 306
      BY <2>4, <3>2 DEF rdn, quotient
    <3> QED
      BY <2>2, <3>1, <3>3
  <2> QED
    BY <2>2, <2>3, <2>4
<1>2. /\ a.month \in 1 .. 12 /\ a.day \in Nat /\ b.month \in 1 .. 12 /\ b.day \in Nat
      /\ a.year \in Nat
  BY DEF Date, validDate
<1>3. /\ monthStart(a.month, a.year) = before[a.month]
      /\ monthStart(b.month, a.year) = before[b.month]
  <2>1. before[a.month] \in Nat /\ before[b.month] \in Nat
    BY <1>1, <1>2
  <2> QED
    BY <2>1 DEF monthStart
<1> DEFINE f == 365 * a.year + ((a.year + 3) \div 4)
           p == before[a.month]  q == before[b.month]
<1>4. f \in Int /\ p \in Nat /\ q \in Nat
  <2>1. p \in Nat /\ q \in Nat
    BY <1>1, <1>2
  <2>2. f \in Int
    BY <1>2
  <2> QED
    BY <2>1, <2>2
<1>5. dayNumber(a) = f + p + a.day - 1 /\ dayNumber(b) = f + q + b.day - 1
  BY <1>3, DayNumberIsNat
<1>6. /\ rdn(0, a.month, a.day) = p + a.day - 365
      /\ rdn(0, b.month, b.day) = q + b.day - 365
  <2>1. \A m \in 1 .. 12, d \in Nat : rdn(0, m, d) = before[m] + d - 365
    BY <1>1
  <2>2. /\ rdn(0, a.month, a.day) = before[a.month] + a.day - 365
        /\ rdn(0, b.month, b.day) = before[b.month] + b.day - 365
    BY <1>2, <2>1
  <2> QED
    BY <2>2
<1> HIDE DEF f, p, q
<1> QED
  BY <1>2, <1>4, <1>5, <1>6

\* In one month the days between two dates are what they are.
LEMMA DaysInMonth ==
    ASSUME NEW a \in Date, NEW b \in Date, validDate(a), validDate(b),
           a.year = b.year, a.month = b.month
    PROVE  rdn(a.year, a.month, a.day) - rdn(b.year, b.month, b.day) = dayNumber(a) - dayNumber(b)
<1> DEFINE y == b.year  m == b.month  d == a.day  e == b.day
<1>1. y \in Nat /\ m \in 1 .. 12 /\ d \in Nat /\ e \in Nat
  BY DEF Date, validDate
<1>2. /\ dayNumber(a) = 365 * y + ((y + 3) \div 4) + monthStart(m, y) + d - 1
      /\ dayNumber(b) = 365 * y + ((y + 3) \div 4) + monthStart(m, y) + e - 1
  BY DayNumberIsNat
<1> HIDE DEF y, m, d, e
<1>3. \E k \in Int : rdn(y, m, d) = k + d /\ rdn(y, m, e) = k + e
  <2>1. \A x \in Int : /\ quotient(x, 4) \in Int /\ quotient(x, 100) \in Int
                       /\ quotient(x, 400) \in Int /\ quotient(x, 5) \in Int
    BY DEF quotient
  <2> DEFINE yy == IF m < 3 THEN y - 1 ELSE y
             mm == IF m < 3 THEN m + 12 ELSE m
             k  == 365 * yy + quotient(yy, 4) - quotient(yy, 100) + quotient(yy, 400)
                     + quotient(153 * mm - 457, 5) - 306
  <2>2. yy \in Int /\ 153 * mm - 457 \in Int
    BY <1>1
  <2>3. k \in Int /\ \A x \in Nat : rdn(y, m, x) = k + x
    <3>1. \A x \in Nat : rdn(y, m, x) = 365 * yy + quotient(yy, 4) - quotient(yy, 100)
                                          + quotient(yy, 400) + quotient(153 * mm - 457, 5) + x - 306
      BY DEF rdn
    <3>2. /\ quotient(yy, 4) \in Int /\ quotient(yy, 100) \in Int /\ quotient(yy, 400) \in Int
          /\ quotient(153 * mm - 457, 5) \in Int /\ 365 * yy \in Int
      BY <2>1, <2>2
    <3>3. k \in Int
      BY <3>2
    <3>4. ASSUME NEW x \in Nat
          PROVE  rdn(y, m, x) = k + x
      BY <3>1, <3>2
    <3> QED
      BY <3>3, <3>4
  <2> HIDE DEF k
  <2> QED
    BY <1>1, <2>3
<1> DEFINE s == 365 * y + ((y + 3) \div 4) + monthStart(m, y)
<1>4. s \in Int
  <2>1. monthStart(m, y) \in Nat
    BY <1>1, MonthsInOrder
  <2>2. (y + 3) \div 4 \in Int
    BY <1>1
  <2> QED
    BY <1>1, <2>1, <2>2
<1> HIDE DEF s
<1>5. dayNumber(a) = s + d - 1 /\ dayNumber(b) = s + e - 1
  BY <1>2 DEF s
<1>6. rdn(y, m, d) - rdn(y, m, e) = d - e
  BY <1>1, <1>3
<1>7. dayNumber(a) - dayNumber(b) = d - e
  BY <1>1, <1>4, <1>5
<1> QED
  BY <1>6, <1>7 DEF y, m, d, e

-------------------------------------------------------------------------------
(* Alarms: the seconds to a time of day. *)

timed(mode) == mode \in {"SEC", "MMSS", "HHMMSS"}

\* An alarm on a time of day comes back after its period, at its phase of it.
period(mode) == CASE mode = "SEC" -> Sixty [] mode = "MMSS" -> Hour [] OTHER -> DaySecs

phase(mode, t) ==
    CASE mode = "SEC"  -> t.second
      [] mode = "MMSS" -> t.minute * Sixty + t.second
      [] OTHER         -> secOfDay(t)

\* The fields that the mode compares are in their range.
inRange(mode, t) ==
    /\ t.hour \in Nat /\ t.minute \in Nat /\ t.second \in Nat /\ t.second < Sixty
    /\ mode # "SEC" => t.minute < Sixty
    /\ mode = "HHMMSS" => t.hour < DayHours

\* What setAlarm has counted to the time t at the time i, when the minutes, the
\* seconds and the compare value are next.
atMinute(mode, t, i) ==
    IF mode = "HHMMSS"
    THEN (IF t.hour < i.hour THEN DayHours - i.hour + t.second ELSE t.hour - i.hour) * Hour
    ELSE 0
atSecond(mode, t, i) ==
    IF mode = "SEC" THEN 0 ELSE carry(atMinute(mode, t, i), t.minute, i.minute, Sixty)
atArm(mode, t, i) == carry(atSecond(mode, t, i), t.second, i.second, 1)

\* The periods divide one another.
LEMMA Periods ==
    ASSUME NEW mode, timed(mode)
    PROVE  /\ period(mode) \in Nat \ {0}
           /\ period(mode) * TicksPerSec \in Nat /\ period(mode) * TicksPerSec < CcRange
<1> DEFINE s == Sixty  h == Hour  d == DaySecs  k == DayHours
<1>1. s \in Nat \ {0} /\ h \in Nat \ {0} /\ d \in Nat \ {0} /\ k \in Nat \ {0}
  BY Constants
<1>2. TicksPerSec \in Nat \ {0} /\ CcRange \in Nat
  BY Constants
<1>3. d * TicksPerSec < CcRange
  BY CounterAssumption
<1>4. h = s * s /\ d = k * h
  BY DEF Hour, DaySecs
<1>5. period(mode) \in {s, h, d}
  BY DEF period, timed
<1> HIDE DEF s, h, d, k
<1>6. 1 * s <= s * s /\ 1 * h <= k * h
  BY <1>1, TimesMonotone
<1>7. s <= d /\ h <= d
  BY <1>1, <1>4, <1>6
<1>8. s * TicksPerSec <= d * TicksPerSec /\ h * TicksPerSec <= d * TicksPerSec
  BY <1>1, <1>2, <1>7, TimesMonotone
<1>9. ASSUME NEW p \in {s, h, d}
      PROVE  p \in Nat \ {0} /\ p * TicksPerSec \in Nat /\ p * TicksPerSec < CcRange
  <2>1. p \in Nat \ {0} /\ p * TicksPerSec <= d * TicksPerSec
    BY <1>1, <1>2, <1>8
  <2>2. p * TicksPerSec \in Nat /\ d * TicksPerSec \in Nat
    BY <1>1, <1>2, <2>1
  <2> QED
    BY <1>2, <1>3, <2>1, <2>2
<1> QED
  BY <1>5, <1>9

\* Minutes and seconds, counted.
LEMMA Digits ==
    ASSUME NEW k \in Nat \ {0}, NEW n \in Nat, NEW m \in Nat, n < k, m < Sixty
    PROVE  n * Sixty + m \in 0 .. k * Sixty - 1
<1>1. Sixty \in Nat
  BY Constants
<1>2. (n + 1) * Sixty <= k * Sixty
  BY <1>1, TimesMonotone
<1>3. (n + 1) * Sixty = n * Sixty + Sixty /\ n * Sixty \in Nat /\ k * Sixty \in Nat
  BY <1>1
<1> QED
  BY <1>1, <1>2, <1>3

\* A phase is within the period.
LEMMA Phases ==
    ASSUME NEW mode, timed(mode), NEW t, inRange(mode, t)
    PROVE  phase(mode, t) \in 0 .. period(mode) - 1
<1>1. t.hour \in Nat /\ t.minute \in Nat /\ t.second \in Nat /\ t.second < Sixty
  BY DEF inRange
<1>2. CASE mode = "SEC"
  BY <1>1, <1>2, Constants DEF phase, period
<1>3. CASE mode = "MMSS"
  <2>1. t.minute * Sixty + t.second \in 0 .. Sixty * Sixty - 1
    BY <1>1, <1>3, Constants, Digits DEF inRange
  <2> QED
    BY <1>3, <2>1 DEF phase, period, Hour
<1>4. CASE mode = "HHMMSS"
  <2>1. t.minute < Sixty /\ t.hour < DayHours
    BY <1>4 DEF inRange
  <2>2. t.hour * Sixty + t.minute \in 0 .. DayHours * Sixty - 1 /\ DayHours * Sixty \in Nat \ {0}
    <3>1. DayHours \in Nat \ {0} /\ Sixty \in Nat \ {0}
      BY Constants
    <3>2. t.hour * Sixty + t.minute \in 0 .. DayHours * Sixty - 1
      BY <1>1, <2>1, <3>1, Digits
    <3>3. DayHours * Sixty \in Nat \ {0}
      BY <3>1
    <3> QED
      BY <3>2, <3>3
  <2> DEFINE n == t.hour * Sixty + t.minute  k == DayHours * Sixty
  <2>3. n \in Nat /\ n < k /\ k \in Nat \ {0}
    BY <2>2
  <2> HIDE DEF n, k
  <2>4. n * Sixty + t.second \in 0 .. k * Sixty - 1
    BY <1>1, <2>3, Digits
  <2>5. secOfDay(t) = n * Sixty + t.second
    <3>1. t.minute \in 0 .. Sixty - 1 /\ t.second \in 0 .. Sixty - 1
      BY <1>1, <2>1, Constants
    <3> QED
      BY <1>1, <3>1, MinutesOfDay DEF n
  <2>6. k * Sixty = DaySecs
    BY Constants DEF k, DaySecs, Hour
  <2> QED
    BY <1>4, <2>4, <2>5, <2>6 DEF phase, period
<1> QED
  BY <1>2, <1>3, <1>4 DEF timed

\* The clock is at the phase of its time.
LEMMA PhaseOfInstant ==
    ASSUME NEW mode, timed(mode), NEW t, inRange(mode, t), NEW d \in Nat
    PROVE  /\ d * DaySecs + secOfDay(t) \in Nat
           /\ (d * DaySecs + secOfDay(t)) % period(mode) = phase(mode, t)
<1> DEFINE h == t.hour  m == t.minute  s == t.second  p == period(mode)  f == phase(mode, t)
<1>1. h \in Nat /\ m \in Nat /\ s \in Nat
  BY DEF inRange
<1>2. /\ Sixty \in Nat \ {0} /\ Hour \in Nat \ {0} /\ DayHours \in Nat \ {0}
      /\ DaySecs \in Nat \ {0}
  BY Constants
<1>3. secOfDay(t) = h * Hour + m * Sixty + s
  BY DEF secOfDay
<1>4. p \in Nat \ {0} /\ f \in 0 .. p - 1
  BY Periods, Phases
<1> HIDE DEF h, m, s
<1>5. d * DaySecs \in Nat /\ h * Hour \in Nat /\ m * Sixty \in Nat
  BY <1>1, <1>2
<1>6. \E q \in Int : d * DaySecs + secOfDay(t) = p * q + f
  <2>1. CASE mode = "SEC"
    <3>1. p = Sixty /\ f = s
      BY <2>1 DEF period, phase, s
    <3>2. h * Hour = Sixty * (h * Sixty) /\ d * DaySecs = Sixty * (d * (DayHours * Sixty))
      BY <1>1, <1>2 DEF Hour, DaySecs
    <3> DEFINE x == h * Sixty  y == d * (DayHours * Sixty)
    <3>3. x \in Int /\ y \in Int
      BY <1>1, <1>2
    <3>4. h * Hour = Sixty * x /\ d * DaySecs = Sixty * y
      BY <3>2
    <3> HIDE DEF x, y
    <3>5. Sixty * (x + y + m) = Sixty * x + Sixty * y + m * Sixty
      BY <1>1, <1>2, <3>3
    <3>6. d * DaySecs + secOfDay(t) = Sixty * (x + y + m) + s
      BY <1>1, <1>2, <1>3, <1>5, <3>3, <3>4, <3>5
    <3>7. x + y + m \in Int
      BY <1>1, <3>3
    <3> QED
      BY <3>1, <3>6, <3>7
  <2>2. CASE mode = "MMSS"
    <3>1. p = Hour /\ f = m * Sixty + s
      BY <2>2 DEF period, phase, m, s
    <3>2. d * DaySecs = Hour * (d * DayHours)
      BY <1>1, <1>2 DEF DaySecs
    <3> DEFINE y == d * DayHours
    <3>3. y \in Int /\ d * DaySecs = Hour * y
      BY <1>2, <3>2
    <3> HIDE DEF y
    <3>4. Hour * (y + h) = Hour * y + h * Hour
      BY <1>1, <1>2, <3>3
    <3>5. d * DaySecs + secOfDay(t) = Hour * (y + h) + (m * Sixty + s)
      BY <1>1, <1>2, <1>3, <1>5, <3>3, <3>4
    <3>6. y + h \in Int
      BY <1>1, <3>3
    <3> QED
      BY <3>1, <3>5, <3>6
  <2>3. CASE mode = "HHMMSS"
    <3>1. p = DaySecs /\ f = secOfDay(t)
      BY <2>3 DEF period, phase
    <3>2. d * DaySecs + secOfDay(t) = DaySecs * d + secOfDay(t)
      BY <1>2
    <3> QED
      BY <3>1, <3>2
  <2> QED
    BY <2>1, <2>2, <2>3 DEF timed
<1> HIDE DEF p, f
<1>7. (d * DaySecs + secOfDay(t)) % p = f
  BY <1>4, <1>6, ModUnique
<1>8. d * DaySecs + secOfDay(t) \in Nat
  BY <1>1, <1>3, <1>5
<1> QED
  BY <1>7, <1>8 DEF p, f

\* And the phase tells the fields that the mode compares.
LEMMA PhaseTells ==
    ASSUME NEW mode, timed(mode), NEW a, NEW b, inRange(mode, a), inRange(mode, b),
           phase(mode, a) = phase(mode, b)
    PROVE  /\ a.second = b.second
           /\ mode # "SEC" => a.minute = b.minute
           /\ mode = "HHMMSS" => a.hour = b.hour
<1>1. /\ a.hour \in Nat /\ a.minute \in Nat /\ a.second \in 0 .. Sixty - 1
      /\ b.hour \in Nat /\ b.minute \in Nat /\ b.second \in 0 .. Sixty - 1
      /\ Sixty \in Nat \ {0}
  BY Constants DEF inRange
<1>2. ASSUME NEW n \in Int, NEW r \in 0 .. Sixty - 1
      PROVE  /\ (n * Sixty + r) \div Sixty = n
             /\ (n * Sixty + r) % Sixty = r
  <2>1. n * Sixty = Sixty * n
    BY <1>1
  <2>2. (Sixty * n + r) \div Sixty = n /\ (Sixty * n + r) % Sixty = r
    BY <1>1, DivUnique, ModUnique
  <2> QED
    BY <2>1, <2>2
<1>3. CASE mode = "SEC"
  BY <1>3 DEF phase
<1>4. CASE mode = "MMSS"
  <2>1. a.minute * Sixty + a.second = b.minute * Sixty + b.second
    BY <1>4 DEF phase
  <2> DEFINE x == a.minute * Sixty + a.second  y == b.minute * Sixty + b.second
  <2>2. a.minute \in Int /\ b.minute \in Int
    BY <1>1
  <2>3. /\ x \div Sixty = a.minute /\ x % Sixty = a.second
        /\ y \div Sixty = b.minute /\ y % Sixty = b.second
    BY <1>1, <1>2, <2>2
  <2>4. x = y
    BY <2>1
  <2> HIDE DEF x, y
  <2> QED
    BY <1>4, <2>3, <2>4
<1>5. CASE mode = "HHMMSS"
  <2>1. a.minute \in 0 .. Sixty - 1 /\ b.minute \in 0 .. Sixty - 1
    BY <1>1, <1>5 DEF inRange
  <2>2. secOfDay(a) = secOfDay(b)
    BY <1>5 DEF phase
  <2>3. a.hour = b.hour /\ a.minute = b.minute
    BY <1>1, <2>1, <2>2, MinuteOfDay
  <2>4. a.second = b.second
    <3> DEFINE n == a.hour * Sixty + a.minute
    <3>1. n \in Int /\ secOfDay(a) = n * Sixty + a.second /\ secOfDay(b) = n * Sixty + b.second
      BY <1>1, <2>1, <2>3, MinutesOfDay
    <3> HIDE DEF n
    <3>2. (n * Sixty + a.second) % Sixty = a.second /\ (n * Sixty + b.second) % Sixty = b.second
      BY <1>1, <1>2, <3>1
    <3> QED
      BY <2>2, <3>1, <3>2
  <2> QED
    BY <2>3, <2>4
<1> QED
  BY <1>3, <1>4, <1>5 DEF timed

\* A unit that is earlier than now is the next one's carry, unless there is
\* nothing to carry to.
LEMMA Carry ==
    ASSUME NEW sec \in Nat, NEW to \in 0 .. Sixty - 1, NEW now \in 0 .. Sixty - 1,
           NEW unit \in Nat
    PROVE  carry(sec, to, now, unit) =
             IF sec # 0 \/ to >= now THEN sec + (to - now) * unit
             ELSE (Sixty + (to - now)) * unit
<1>1. Sixty \in Nat
  BY Constants
<1>2. CASE to >= now
  BY <1>1, <1>2 DEF carry
<1>3. CASE to < now
  <2> DEFINE more == (Sixty - now + to) * unit
  <2>1. carry(sec, to, now, unit) = IF sec = 0 THEN more ELSE sec - (Sixty * unit - more)
    BY <1>1, <1>3 DEF carry
  <2>2. more = Sixty * unit + (to - now) * unit /\ more = (Sixty + (to - now)) * unit
    BY <1>1
  <2>3. Sixty * unit \in Int /\ (to - now) * unit \in Int
    BY <1>1
  <2> HIDE DEF more
  <2>4. sec # 0 => sec - (Sixty * unit - more) = sec + (to - now) * unit
    BY <2>2, <2>3
  <2> QED
    BY <1>1, <1>3, <2>1, <2>2, <2>4
<1> QED
  BY <1>1, <1>2, <1>3

\* The alarms on a time of day that are kept wait for the phase of the time asked
\* for, in this period or in the next.
LEMMA TimedWait ==
    ASSUME NEW mode, timed(mode), NEW t, inRange(mode, t), NEW i, inRange("HHMMSS", i),
           mode = "MMSS" => t.minute # i.minute \/ t.second >= i.second,
           mode = "HHMMSS" => secOfDay(t) >= secOfDay(i)
    PROVE  /\ atArm(mode, t, i) \in 0 .. period(mode) - 1
           /\ \E k \in {0, 1} :
                atArm(mode, t, i) = phase(mode, t) - phase(mode, i) + k * period(mode)
<1> DEFINE h == t.hour  m == t.minute  s == t.second
           x == i.hour  y == i.minute  z == i.second
           p == period(mode)  f == phase(mode, t)  g == phase(mode, i)
           w == atArm(mode, t, i)  v == atSecond(mode, t, i)  u == atMinute(mode, t, i)
<1>1. /\ Sixty \in Nat \ {0} /\ Hour \in Nat \ {0} /\ Hour = Sixty * Sixty
  BY Constants DEF Hour
<1>2. /\ h \in Nat /\ m \in Nat /\ s \in 0 .. Sixty - 1
      /\ x \in Nat /\ y \in 0 .. Sixty - 1 /\ z \in 0 .. Sixty - 1
      /\ mode # "SEC" => m \in 0 .. Sixty - 1
  BY <1>1 DEF inRange
<1>3. p \in Nat \ {0} /\ f \in 0 .. p - 1 /\ g \in 0 .. p - 1
  <2>1. inRange(mode, i)
    BY DEF inRange
  <2> QED
    BY <2>1, Periods, Phases
<1>4. /\ w = carry(v, s, z, 1)
      /\ mode # "SEC" => v = carry(u, m, y, Sixty)
  BY DEF atArm, atSecond
<1>8. ASSUME v \in Nat
      PROVE  w = IF v # 0 \/ s >= z THEN v + (s - z) * 1 ELSE (Sixty + (s - z)) * 1
  <2> HIDE DEF h, m, s, x, y, z, p, f, g, w, v, u
  <2>1. s \in 0 .. Sixty - 1 /\ z \in 0 .. Sixty - 1
    BY <1>2
  <2>2. carry(v, s, z, 1) = IF v # 0 \/ s >= z THEN v + (s - z) * 1
                            ELSE (Sixty + (s - z)) * 1
    BY <1>8, <2>1, Carry
  <2> QED
    BY <1>4, <2>2
<1>9. ASSUME mode # "SEC", u \in Nat
      PROVE  v = IF u # 0 \/ m >= y THEN u + (m - y) * Sixty
                 ELSE (Sixty + (m - y)) * Sixty
  <2> HIDE DEF h, m, s, x, y, z, p, f, g, w, v, u
  <2>1. m \in 0 .. Sixty - 1 /\ y \in 0 .. Sixty - 1 /\ Sixty \in Nat
    BY <1>1, <1>2, <1>9
  <2>2. carry(u, m, y, Sixty) = IF u # 0 \/ m >= y THEN u + (m - y) * Sixty
                                ELSE (Sixty + (m - y)) * Sixty
    BY <1>9, <2>1, Carry
  <2> QED
    BY <1>4, <1>9, <2>2
<1>5. CASE mode = "SEC"
  <2>1. v = 0 /\ p = Sixty /\ f = s /\ g = z
    BY <1>5 DEF atSecond, period, phase
  <2> HIDE DEF h, m, s, x, y, z, p, f, g, w, v, u
  <2>2. w = IF s >= z THEN 0 + (s - z) * 1 ELSE (Sixty + (s - z)) * 1
    <3>1. v \in Nat
      BY <2>1
    <3>2. w = IF v # 0 \/ s >= z THEN v + (s - z) * 1 ELSE (Sixty + (s - z)) * 1
      BY <3>1, <1>8
    <3> QED
      BY <2>1, <3>2
  <2>3. \/ w = f - g + 0 * p
        \/ w = f - g + 1 * p
    BY <1>1, <1>2, <2>1, <2>2
  <2>4. w \in 0 .. p - 1
    BY <1>1, <1>2, <2>1, <2>2
  <2> QED
    BY <2>3, <2>4 DEF p, f, g, w
<1>6. CASE mode = "MMSS"
  <2>1. u = 0 /\ p = Hour /\ f = m * Sixty + s /\ g = y * Sixty + z
    BY <1>6 DEF atMinute, period, phase
  <2>2. m # y \/ s >= z
    BY <1>6
  <2> HIDE DEF h, m, s, x, y, z, p, f, g, w, v, u
  <2>3. v = IF m >= y THEN 0 + (m - y) * Sixty ELSE (Sixty + (m - y)) * Sixty
    <3>1. u \in Nat /\ Sixty \in Nat
      BY <1>1, <2>1
    <3>2. v = IF u # 0 \/ m >= y THEN u + (m - y) * Sixty ELSE (Sixty + (m - y)) * Sixty
      BY <1>6, <3>1, <1>9
    <3> QED
      BY <2>1, <3>2
  <2>4. m * Sixty \in Nat /\ y * Sixty \in Nat
    BY <1>1, <1>2, <1>6
  <2>5. /\ (m - y) * Sixty = m * Sixty - y * Sixty
        /\ (Sixty + (m - y)) * Sixty = Hour + m * Sixty - y * Sixty
    BY <1>1, <1>2, <1>6
  <2>6. CASE m > y
    <3>1. y * Sixty + z < m * Sixty + s
      BY <1>1, <1>2, <1>6, <2>6, QuotientsInOrder
    <3>2. y * Sixty + 0 < m * Sixty + 0
      BY <1>1, <1>2, <1>6, <2>6, QuotientsInOrder
    <3>3. v = m * Sixty - y * Sixty /\ v \in Nat /\ v # 0
      BY <1>2, <2>3, <2>4, <2>5, <2>6, <3>2
    <3>4. w = v + (s - z) * 1
      BY <3>3, <1>8
    <3>5. w = f - g + 0 * p
      BY <1>2, <1>3, <2>1, <2>4, <3>3, <3>4
    <3>6. w \in 0 .. p - 1
      BY <1>2, <1>3, <2>1, <2>4, <3>1, <3>3, <3>4
    <3> QED
      BY <3>5, <3>6 DEF p, f, g, w
  <2>7. CASE m = y
    <3>1. v = 0 /\ s >= z
      BY <1>1, <1>2, <2>2, <2>3, <2>5, <2>7, <2>4
    <3>2. w = 0 + (s - z) * 1
      BY <3>1, <1>8
    <3>3. w = f - g + 0 * p
      BY <1>2, <1>3, <2>1, <2>4, <2>7, <3>2
    <3>4. w \in 0 .. p - 1
      BY <1>2, <1>3, <2>1, <2>4, <2>7, <3>1, <3>2
    <3> QED
      BY <3>3, <3>4 DEF p, f, g, w
  <2>8. CASE m < y
    <3>1. m * Sixty + s < y * Sixty + z
      BY <1>1, <1>2, <1>6, <2>8, QuotientsInOrder
    <3>2. v = Hour + m * Sixty - y * Sixty
      BY <1>2, <1>6, <2>3, <2>5, <2>8
    <3>3. v \in Nat /\ v # 0
      <4>1. 0 * Sixty + 0 < (Sixty + (m - y)) * Sixty + 0
        <5>1. Sixty + (m - y) \in Int /\ 0 < Sixty + (m - y)
          BY <1>1, <1>2, <1>6
        <5> QED
          BY <1>1, <5>1, QuotientsInOrder
      <4>2. 0 < v
        BY <1>1, <1>2, <2>5, <3>2, <4>1
      <4> QED
        BY <1>1, <2>4, <3>2, <4>2
    <3>4. w = v + (s - z) * 1
      BY <3>3, <1>8
    <3>5. w = f - g + 1 * p
      BY <1>1, <1>2, <1>3, <2>1, <2>4, <3>2, <3>4
    <3>6. w \in 0 .. p - 1
      BY <1>1, <1>2, <1>3, <2>1, <2>4, <3>1, <3>2, <3>4
    <3> QED
      BY <3>5, <3>6 DEF p, f, g, w
  <2> QED
    BY <1>2, <1>6, <2>6, <2>7, <2>8
<1>7. CASE mode = "HHMMSS"
  <2>1. f = secOfDay(t) /\ g = secOfDay(i) /\ g <= f
    BY <1>7 DEF phase
  <2>2. u = (IF h < x THEN DayHours - x + s ELSE h - x) * Hour
    BY <1>7 DEF atMinute
  <2> DEFINE a == h * Sixty + m  b == x * Sixty + y
  <2>3. f = a * Sixty + s /\ g = b * Sixty + z /\ a \in Nat /\ b \in Nat
    BY <1>2, <1>7, <2>1, MinutesOfDay
  <2> HIDE DEF h, m, s, x, y, z, p, f, g, w, v, u
  <2>4. m \in 0 .. Sixty - 1
    BY <1>2, <1>7
  <2>5. b <= a
    <3>1. ASSUME a < b
          PROVE  FALSE
      <4>1. a * Sixty + s < b * Sixty + z
        BY <1>1, <1>2, <2>3, <3>1, QuotientsInOrder
      <4> QED
        BY <1>3, <2>1, <2>3, <4>1
    <3> QED
      BY <2>3, <3>1
  <2>6. x <= h /\ (x = h => y <= m)
    <3>1. ASSUME h < x
          PROVE  FALSE
      <4>1. h * Sixty + m < x * Sixty + y
        BY <1>1, <1>2, <2>4, <3>1, QuotientsInOrder
      <4> QED
        BY <2>3, <2>5, <4>1
    <3>2. ASSUME x = h
          PROVE  y <= m
      <4>1. h * Sixty \in Nat
        BY <1>1, <1>2
      <4> QED
        BY <1>2, <2>4, <2>5, <3>2, <4>1
    <3> QED
      BY <1>2, <3>1, <3>2
  <2>7. u = (h - x) * Hour /\ u \in Nat /\ (u = 0 => y <= m)
    <3>1. u = (h - x) * Hour
      BY <1>2, <2>2, <2>6
    <3>2. h - x \in Nat
      BY <1>2, <2>6
    <3>3. u \in Nat
      BY <1>1, <3>1, <3>2
    <3>4. ASSUME h - x # 0
          PROVE  u # 0
      <4>1. 0 * Hour + 0 < (h - x) * Hour + 0
        BY <1>1, <3>2, <3>4, QuotientsInOrder
      <4> QED
        BY <1>1, <3>1, <3>3, <4>1
    <3> QED
      BY <1>2, <2>6, <3>1, <3>3, <3>4
  <2>8. v = u + (m - y) * Sixty
    <3>1. v = IF u # 0 \/ m >= y THEN u + (m - y) * Sixty ELSE (Sixty + (m - y)) * Sixty
      BY <1>7, <2>7, <1>9
    <3> QED
      BY <1>2, <2>4, <2>7, <3>1
  <2>9. v = (a - b) * Sixty
    <3>1. (h - x) * Hour = (h * Sixty - x * Sixty) * Sixty
      BY <1>1, <1>2
    <3>2. (h * Sixty - x * Sixty) * Sixty + (m - y) * Sixty = ((h * Sixty + m) - (x * Sixty + y)) * Sixty
      BY <1>1, <1>2
    <3> QED
      BY <2>7, <2>8, <3>1, <3>2
  <2> HIDE DEF a, b
  <2>10. v \in Nat /\ v = a * Sixty - b * Sixty /\ (v = 0 => a = b)
    <3>1. a - b \in Nat
      BY <2>3, <2>5
    <3>2. (a - b) * Sixty \in Nat /\ (a - b) * Sixty = a * Sixty - b * Sixty
      BY <1>1, <2>3, <3>1
    <3>3. ASSUME a - b # 0
          PROVE  v # 0
      <4>1. 0 * Sixty + 0 < (a - b) * Sixty + 0
        BY <1>1, <3>1, <3>3, QuotientsInOrder
      <4> QED
        BY <1>1, <2>9, <3>2, <4>1
    <3> QED
      BY <2>3, <2>9, <3>2, <3>3
  <2>11. a * Sixty \in Nat /\ b * Sixty \in Nat
    BY <1>1, <2>3
  <2>12. v # 0 \/ s >= z
    BY <1>2, <2>1, <2>3, <2>10, <2>11
  <2>13. w = v + (s - z) * 1
    BY <2>10, <2>12, <1>8
  <2>14. w = f - g + 0 * p
    BY <1>2, <1>3, <2>3, <2>10, <2>11, <2>13
  <2>15. w \in 0 .. p - 1
    BY <1>3, <2>1, <2>14
  <2> QED
    BY <2>14, <2>15 DEF p, f, g, w
<1> QED
  BY <1>5, <1>6, <1>7 DEF timed

-------------------------------------------------------------------------------
(* Alarms: the call that sets one. *)

clockSteps  == {"hour", "minute", "second", "day", "month", "year"}
armSteps == {"alarmHour", "alarmMinute", "alarmSecond", "alarmDays", "arm"}

\* The steps that a call may have: the clock is set and alarms are armed by no
\* others than the calls that are there for it.
StepsOf(op) ==
    {s \in Steps : /\ s[1] \in clockSteps => op = "set"
                   /\ s[1] \in armSteps => op = "setAlarm"}

OwnInv ==
    /\ call # Idle => call.todo \in Seq(StepsOf(call.op))
    /\ preempted # <<>> /\ preempted[1] # Idle =>
         preempted[1].todo \in Seq(StepsOf(preempted[1].op))

\* What setAlarm has still to do.
armStep    == << <<"arm">> >>
daysStep   == << <<"alarmDays">>, <<"arm">> >>
secondStep == << <<"alarmSecond">>, <<"arm">> >>
minuteStep == << <<"alarmMinute">>, <<"alarmSecond">>, <<"arm">> >>
hourStep   == << <<"alarmHour">>, <<"alarmMinute">>, <<"alarmSecond">>, <<"arm">> >>

\* The days that setAlarm counts to a date.
daysTo(mode, a, d) ==
    CASE mode = "YYMMDDHHMMSS" -> rdn(a.year, a.month, a.day) - rdn(d.year, d.month, d.day)
      [] mode = "MMDDHHMMSS" ->
           LET this == rdn(0, a.month, a.day) - rdn(0, d.month, d.day)
           IN  IF this # 0 THEN this
               ELSE rdn(d.year + 1, a.month, a.day) - rdn(d.year, d.month, d.day)
      [] OTHER ->
           LET this == rdn(d.year, a.month, a.day) - rdn(d.year, d.month, d.day)
           IN  IF this # 0 THEN this
               ELSE rdn(d.year, d.month + 1, a.day) - rdn(d.year, d.month, d.day)

\* What it has counted on a clock that has not moved since.
Counted ==
    LET w == call.todo  n == alarm.sec_to_next_int IN
    /\ w \in {hourStep, minuteStep, secondStep} => timed(Alarm_Mode) /\ call.days = 0
    /\ w = hourStep => Alarm_Mode = "HHMMSS"
    /\ w = minuteStep => /\ Alarm_Mode # "SEC" /\ call.sec = atMinute(Alarm_Mode, time, timeInt)
                         /\ Alarm_Mode = "HHMMSS" => n = period(Alarm_Mode)
    /\ w = secondStep => /\ call.sec = atSecond(Alarm_Mode, time, timeInt)
                         /\ Alarm_Mode # "SEC" => n = period(Alarm_Mode)
    /\ w = daysStep => onDate(Alarm_Mode) /\ call.sec = 0
    /\ w = armStep /\ timed(Alarm_Mode) =>
         call.sec = atArm(Alarm_Mode, time, timeInt) /\ call.days = 0 /\ n = period(Alarm_Mode)
    /\ w = armStep /\ onDate(Alarm_Mode) =>
         call.sec = 0 /\ call.days = daysTo(Alarm_Mode, date, dateInt)

\* No alarm is one that is kept while the clock is being set, or an alarm.
SetInv ==
    /\ call.op = "set" => ~timely
    /\ call.op = "setAlarm" /\ call.todo # <<>> => ~timely
    /\ call.op = "setAlarm" /\ call.since # never =>
         /\ call.since \in Time \X Date
         /\ \/ dateInt = call.since[2] /\ NotLater(call.since[1], timeInt)
            \/ Later(dateInt, call.since[2])
         /\ call.todo \in {hourStep, minuteStep, secondStep, daysStep, armStep, <<>>}
         /\ call.todo # <<>> /\ call.since = clock => Counted

\* The steps of setAlarm, one behind the other.
LEMMA AlarmStages ==
    /\ Tail(hourStep) = minuteStep /\ Tail(minuteStep) = secondStep
    /\ Tail(secondStep) = armStep /\ Tail(daysStep) = armStep /\ Tail(armStep) = <<>>
    /\ Head(hourStep)[1] = "alarmHour" /\ Head(minuteStep)[1] = "alarmMinute"
    /\ Head(secondStep)[1] = "alarmSecond" /\ Head(daysStep)[1] = "alarmDays"
    /\ Head(armStep)[1] = "arm"
    /\ hourStep \notin {minuteStep, secondStep, daysStep, armStep, <<>>}
    /\ minuteStep \notin {secondStep, daysStep, armStep, <<>>}
    /\ secondStep \notin {daysStep, armStep, <<>>} /\ daysStep \notin {armStep, <<>>}
    /\ armStep # <<>>
<1>1. /\ Tail(hourStep) = minuteStep /\ Tail(minuteStep) = secondStep
      /\ Tail(secondStep) = armStep /\ Tail(daysStep) = armStep /\ Tail(armStep) = <<>>
  BY DEF hourStep, minuteStep, secondStep, daysStep, armStep
<1>2. /\ Head(hourStep)[1] = "alarmHour" /\ Head(minuteStep)[1] = "alarmMinute"
      /\ Head(secondStep)[1] = "alarmSecond" /\ Head(daysStep)[1] = "alarmDays"
      /\ Head(armStep)[1] = "arm"
  BY DEF hourStep, minuteStep, secondStep, daysStep, armStep
<1>3. /\ Len(hourStep) = 4 /\ Len(minuteStep) = 3 /\ Len(secondStep) = 2
      /\ Len(daysStep) = 2 /\ Len(armStep) = 1 /\ Len(<<>>) = 0
  BY DEF hourStep, minuteStep, secondStep, daysStep, armStep
<1> HIDE DEF hourStep, minuteStep, secondStep, daysStep, armStep
<1>4. /\ hourStep # minuteStep /\ hourStep # secondStep /\ hourStep # daysStep
      /\ hourStep # armStep /\ minuteStep # secondStep /\ minuteStep # daysStep
      /\ minuteStep # armStep /\ secondStep # daysStep /\ secondStep # armStep
      /\ daysStep # armStep
  BY <1>2
<1>5. /\ hourStep # <<>> /\ minuteStep # <<>> /\ secondStep # <<>> /\ daysStep # <<>>
      /\ armStep # <<>>
  BY <1>3
<1> QED
  BY <1>1, <1>2, <1>4, <1>5

\* And the first ones, of every mode.
LEMMA AlarmBegins ==
    ASSUME NEW mode
    PROVE  /\ mode = "HHMMSS" => alarmSteps(mode) = hourStep
           /\ mode = "MMSS" => alarmSteps(mode) = minuteStep
           /\ mode = "SEC" => alarmSteps(mode) = secondStep
           /\ onDate(mode) => alarmSteps(mode) = daysStep
           /\ mode = "OFF" => alarmSteps(mode) = armStep
<1> DEFINE S == {<<"alarmHour">>, <<"alarmMinute">>, <<"alarmSecond">>, <<"arm">>}
<1>0. /\ hourStep \in Seq(S) /\ Len(hourStep) = 4
      /\ hourStep[2] = <<"alarmMinute">> /\ hourStep[3] = <<"alarmSecond">>
      /\ hourStep[4] = <<"arm">>
  BY DEF hourStep
<1>1. SubSeq(hourStep, 2, 4) = minuteStep
  <2>1. SubSeq(hourStep, 2, 4) \in Seq(S)
    BY <1>0
  <2>2. /\ Len(SubSeq(hourStep, 2, 4)) = 3
        /\ SubSeq(hourStep, 2, 4)[1] = hourStep[2]
        /\ SubSeq(hourStep, 2, 4)[2] = hourStep[3]
        /\ SubSeq(hourStep, 2, 4)[3] = hourStep[4]
    BY <1>0
  <2> DEFINE s == SubSeq(hourStep, 2, 4)
  <2>3. s \in Seq(S) /\ Len(s) = 3 /\ s[1] = <<"alarmMinute">> /\ s[2] = <<"alarmSecond">>
        /\ s[3] = <<"arm">>
    BY <1>0, <2>1, <2>2
  <2> HIDE DEF s
  <2>4. /\ minuteStep \in Seq(S) /\ Len(minuteStep) = 3
        /\ minuteStep[1] = <<"alarmMinute">> /\ minuteStep[2] = <<"alarmSecond">>
        /\ minuteStep[3] = <<"arm">>
    BY DEF minuteStep
  <2> HIDE DEF S
  <2>5. ASSUME NEW i \in 1 .. Len(s)
        PROVE  s[i] = minuteStep[i]
    <3>1. i \in {1, 2, 3}
      BY <2>3
    <3> QED
      BY <2>3, <2>4, <3>1
  <2>6. s = minuteStep
    BY <2>3, <2>4, <2>5, SeqEqual
  <2> QED
    BY <2>6 DEF s
<1>2. SubSeq(hourStep, 3, 4) = secondStep
  <2>1. SubSeq(hourStep, 3, 4) \in Seq(S)
    BY <1>0
  <2>2. /\ Len(SubSeq(hourStep, 3, 4)) = 2
        /\ SubSeq(hourStep, 3, 4)[1] = hourStep[3]
        /\ SubSeq(hourStep, 3, 4)[2] = hourStep[4]
    BY <1>0
  <2> DEFINE s == SubSeq(hourStep, 3, 4)
  <2>3. s \in Seq(S) /\ Len(s) = 2 /\ s[1] = <<"alarmSecond">> /\ s[2] = <<"arm">>
    BY <1>0, <2>1, <2>2
  <2> HIDE DEF s
  <2>4. /\ secondStep \in Seq(S) /\ Len(secondStep) = 2
        /\ secondStep[1] = <<"alarmSecond">> /\ secondStep[2] = <<"arm">>
    BY DEF secondStep
  <2> HIDE DEF S
  <2>5. \A i \in 1 .. Len(s) : s[i] = secondStep[i]
    BY <2>3, <2>4
  <2>6. s = secondStep
    BY <2>3, <2>4, <2>5, SeqEqual
  <2> QED
    BY <2>6 DEF s
<1>3. mode = "HHMMSS" => alarmSteps(mode) = hourStep
  BY DEF alarmSteps, onDate, hourStep
<1>4. ASSUME mode = "MMSS"
      PROVE  alarmSteps(mode) = minuteStep
  <2>1. alarmSteps(mode) = SubSeq(hourStep, 2, 4)
    BY <1>4 DEF alarmSteps, onDate, hourStep
  <2> QED
    BY <1>1, <2>1
<1>5. ASSUME mode = "SEC"
      PROVE  alarmSteps(mode) = secondStep
  <2>1. alarmSteps(mode) = SubSeq(hourStep, 3, 4)
    BY <1>5 DEF alarmSteps, onDate, hourStep
  <2> QED
    BY <1>2, <2>1
<1>6. onDate(mode) => alarmSteps(mode) = daysStep
  BY DEF alarmSteps, onDate, daysStep
<1>7. mode = "OFF" => alarmSteps(mode) = armStep
  BY DEF alarmSteps, onDate, armStep
<1> QED
  BY <1>3, <1>4, <1>5, <1>6, <1>7

\* The steps of each call are its own.
LEMMA OwnSteps ==
    ASSUME TypeInv, OwnInv, [Next]_vars
    PROVE  OwnInv'
<1>1. \A op : StepsOf(op) \subseteq Steps
  BY DEF StepsOf
<1>2. CASE RTC2_IRQHandler \/ AlarmClearFlag \/ UNCHANGED vars
  <2>1. CASE UNCHANGED <<call, preempted>>
    BY <2>1 DEF OwnInv
  <2>2. CASE call' = Idle /\ preempted' = <<call>>
    <3>1. preempted'[1] = call
      BY <2>2
    <3> QED
      BY <2>2, <3>1 DEF OwnInv
  <2> QED
    BY <1>2, <2>1, <2>2 DEF RTC2_IRQHandler, Callback, AlarmClearFlag, vars
<1>3. CASE Return
  BY <1>3 DEF Return, OwnInv
<1>11. CASE CallbackReturn
  <2>1. preempted' = <<>> /\ preempted # <<>>
    BY <1>11 DEF CallbackReturn
  <2> QED
    BY <1>11, <2>1, Resumes DEF OwnInv
<1>12. CallStep => preempted' = preempted
  BY DEF CallStep, SetHour, SetTimeField, SetDateField, GetHour, GetTimeField,
         GetDateField, AlarmDays, AlarmHour, AlarmMinute, AlarmSecond, AlarmArm, step
<1>4. CASE CallStep
  <2> DEFINE S == StepsOf(call.op)
  <2>1. call.todo \in Seq(S) /\ call.todo # <<>>
    BY <1>4, StepKeeps DEF OwnInv
  <2> HIDE DEF S
  <2>2. Tail(call.todo) \in Seq(S) /\ <<>> \in Seq(S)
    BY <2>1
  <2> QED
    BY <1>4, <1>12, <2>2, StepKeeps DEF OwnInv, S
<1>5. ASSUME NEW op, NEW todo \in Seq(StepsOf(op)), begins(op, todo)
      PROVE  OwnInv'
  BY <1>5 DEF begins, OwnInv
<1>6. ASSUME NEW t \in Times, NEW pm \in BOOLEAN, Set(timeSteps(t, pm))
      PROVE  OwnInv'
  <2>1. /\ <<"hour", t.hour, pm>> \in Steps /\ <<"minute", t.minute>> \in Steps
        /\ <<"second", t.second>> \in Steps
    BY RtcAssumption DEF Steps
  <2> DEFINE S == StepsOf("set")
  <2>2. /\ <<"hour", t.hour, pm>> \in S /\ <<"minute", t.minute>> \in S
        /\ <<"second", t.second>> \in S
    BY <2>1 DEF StepsOf, armSteps
  <2> HIDE DEF S
  <2>3. timeSteps(t, pm) \in Seq(S)
    BY <2>2 DEF timeSteps
  <2>4. \A k \in DOMAIN timeSteps(t, pm) : <<timeSteps(t, pm)[k]>> \in Seq(S)
    BY <2>3
  <2> QED
    BY <1>5, <1>6, <2>3, <2>4 DEF Set, S
<1>7. ASSUME NEW d \in Dates, Set(dateSteps(d))
      PROVE  OwnInv'
  <2>1. /\ <<"day", d.day>> \in Steps /\ <<"month", d.month>> \in Steps
        /\ <<"year", d.year>> \in Steps
    BY RtcAssumption DEF Steps
  <2> DEFINE S == StepsOf("set")
  <2>2. /\ <<"day", d.day>> \in S /\ <<"month", d.month>> \in S /\ <<"year", d.year>> \in S
    BY <2>1 DEF StepsOf, armSteps
  <2> HIDE DEF S
  <2>3. dateSteps(d) \in Seq(S)
    BY <2>2 DEF dateSteps
  <2>4. \A k \in DOMAIN dateSteps(d) : <<dateSteps(d)[k]>> \in Seq(S)
    BY <2>3
  <2> QED
    BY <1>5, <1>7, <2>3, <2>4 DEF Set, S
<1>8. CASE GetTime
  <2> DEFINE S == StepsOf("getTime")
  <2>1. <<"getHour">> \in S /\ <<"getMinute">> \in S /\ <<"getSecond">> \in S
    BY DEF StepsOf, Steps, clockSteps, armSteps
  <2> HIDE DEF S
  <2>2. getSteps \in Seq(S)
    BY <2>1 DEF getSteps
  <2> QED
    BY <1>5, <1>8, <2>2 DEF GetTime, S
<1>9. CASE GetDate
  <2> DEFINE S == StepsOf("getDate")
  <2>1. <<"getDay">> \in S /\ <<"getMonth">> \in S /\ <<"getYear">> \in S
    BY DEF StepsOf, Steps, clockSteps, armSteps
  <2> HIDE DEF S
  <2>2. << <<"getDay">>, <<"getMonth">>, <<"getYear">> >> \in Seq(S)
    BY <2>1
  <2> QED
    BY <1>5, <1>9, <2>2 DEF GetDate, S
<1>10. ASSUME NEW a \in Alarms, SetAlarm(a)
       PROVE  OwnInv'
  <2> DEFINE S == StepsOf("setAlarm")
  <2>1. /\ <<"alarmHour">> \in S /\ <<"alarmMinute">> \in S /\ <<"alarmSecond">> \in S
        /\ <<"alarmDays">> \in S /\ <<"arm">> \in S
    BY DEF StepsOf, Steps, clockSteps
  <2> HIDE DEF S
  <2>2. /\ hourStep \in Seq(S) /\ minuteStep \in Seq(S) /\ secondStep \in Seq(S)
        /\ daysStep \in Seq(S) /\ armStep \in Seq(S)
    BY <2>1 DEF hourStep, minuteStep, secondStep, daysStep, armStep
  <2>3. a.mode \in {"OFF", "SEC", "MMSS", "HHMMSS", "DDHHMMSS", "MMDDHHMMSS", "YYMMDDHHMMSS"}
    BY RtcAssumption
  <2>4. alarmSteps(a.mode) \in Seq(S)
    BY <2>2, <2>3, AlarmBegins DEF onDate
  <2> QED
    BY <1>5, <1>10, <2>4 DEF SetAlarm, S
<1> QED
  BY <1>2, <1>3, <1>4, <1>6, <1>7, <1>8, <1>9, <1>10, <1>11
     DEF Next, Sketch, CallStep

\* Whose a step is.
LEMMA StepOwner ==
    ASSUME TypeInv, OwnInv, NEW f, step(f)
    PROVE  /\ f \in clockSteps => call.op = "set"
           /\ f \in armSteps => call.op = "setAlarm"
<1>1. call.todo \in Seq(StepsOf(call.op)) /\ call.todo # <<>> /\ Head(call.todo)[1] = f
  BY DEF step, OwnInv
<1> DEFINE S == StepsOf(call.op)
<1>2. Head(call.todo) \in S
  <2>1. call.todo \in Seq(S) /\ call.todo # <<>>
    BY <1>1
  <2> HIDE DEF S
  <2> QED
    BY <2>1
<1> QED
  BY <1>1, <1>2 DEF StepsOf

\* An alarm rings at the end of a second.
LEMMA RingsAtSecond ==
    ASSUME TypeInv, CountInv, fires
    PROVE  secondsEnd
<1> DEFINE next == COUNTER + 1
<1>1. /\ TicksPerSec \in Nat \ {0} /\ CcRange \in Nat \ {0} /\ CcRange % TicksPerSec = 0
      /\ next \in Int /\ COUNTER \in Int /\ count \in 0 .. TicksPerSec - 1
      /\ COUNTER % TicksPerSec = count /\ cc % TicksPerSec = 0
  BY Constants, RtcAssumption DEF TypeInv, Types, TypeOK, CountInv, CountTogether
<1>2. next % TicksPerSec =
        IF COUNTER % TicksPerSec = TicksPerSec - 1 THEN 0 ELSE (COUNTER % TicksPerSec) + 1
  BY <1>1, ModStep
<1>3. next % TicksPerSec = IF count = TicksPerSec - 1 THEN 0 ELSE count + 1
  BY <1>1, <1>2
<1>4. (next % CcRange) % TicksPerSec = next % TicksPerSec
  BY <1>1, ModOfMod
<1>5. next % CcRange = cc
  BY DEF fires
<1>6. next % TicksPerSec = 0
  BY <1>1, <1>4, <1>5
<1> HIDE DEF next
<1> QED
  BY <1>1, <1>3, <1>6 DEF secondsEnd

\* And the clock is not then what it was.
LEMMA SecondMoves ==
    ASSUME TypeInv, RTC2_IRQHandler, secondsEnd
    PROVE  timeInt' # timeInt
<1>1. PICK h \in Nat, m \in 0 .. Sixty - 1, s \in 0 .. Sixty - 1 :
         timeInt = [hour |-> h, minute |-> m, second |-> s]
  BY DEF TypeInv, Types, TypeOK
<1>2. timeInt' = nextTime(timeInt)
  BY DEF RTC2_IRQHandler, Tick
<1>3. \/ nextTime(timeInt) = [hour |-> h, minute |-> m, second |-> s + 1]
      \/ nextTime(timeInt) = [hour |-> h, minute |-> m + 1, second |-> 0]
      \/ nextTime(timeInt) = [hour |-> IF h + 1 = DayHours THEN 0 ELSE h + 1,
                              minute |-> 0, second |-> 0]
  BY <1>1 DEF nextTime
<1>4. (IF h + 1 = DayHours THEN 0 ELSE h + 1) # h
  BY Constants DEF DayHours
<1>5. timeInt'.second = s + 1 \/ timeInt'.minute = m + 1 \/ timeInt'.hour # h
  BY <1>2, <1>3, <1>4
<1>6. timeInt.second = s /\ timeInt.minute = m /\ timeInt.hour = h
  BY <1>1
<1> QED
  BY <1>5, <1>6, Constants

\* The handler: a clock that is where it was when the call began has not moved in
\* between, and no alarm has rung.
LEMMA SetTick ==
    ASSUME TypeInv, CountInv, SetInv, RTC2_IRQHandler
    PROVE  SetInv'
<1>0. CASE call' = Idle
  BY <1>0 DEF Idle, SetInv
<1> SUFFICES ASSUME call' # Idle
             PROVE  SetInv'
  BY <1>0
<1>1. /\ UNCHANGED <<time, date, Alarm_Mode, call>>
      /\ timely' => timely
  BY DEF RTC2_IRQHandler, Callback
<1> SUFFICES ASSUME call.op = "setAlarm", call.since # never
             PROVE  /\ \/ dateInt' = call.since[2] /\ NotLater(call.since[1], timeInt')
                       \/ Later(dateInt', call.since[2])
                    /\ call.todo # <<>> /\ call.since = clock' => Counted'
  BY <1>1 DEF SetInv
<1>2. /\ call.since \in Time \X Date
      /\ \/ dateInt = call.since[2] /\ NotLater(call.since[1], timeInt)
         \/ Later(dateInt, call.since[2])
      /\ call.todo # <<>> /\ call.since = clock => Counted
  BY DEF SetInv
<1>3. PICK s, d : s = call.since[1] /\ d = call.since[2]
  OBVIOUS
<1>4. s \in Time /\ d \in Date /\ call.since = <<s, d>>
  BY <1>2, <1>3
<1>5. /\ timeInt \in Time /\ timeInt' \in Time /\ dateInt \in Date /\ dateInt' \in Date
  BY TickTypes DEF TypeInv, Types, TypeOK, Time, Date
<1>6. \/ dateInt' = dateInt /\ NotLater(timeInt, timeInt')
      \/ Later(dateInt', dateInt)
  BY TickGoesOn
<1>7. /\ \A a, b, c \in Date : Later(a, b) /\ Later(b, c) => Later(a, c)
      /\ \A a \in Date : ~Later(a, a)
  <2>1. ASSUME NEW a \in Date
        PROVE  a.year \in Nat /\ a.month \in Nat /\ a.day \in Nat
    BY DEF Date
  <2> QED
    BY <2>1 DEF Later
<1>8. /\ \A a, b, c \in Time : NotLater(a, b) /\ NotLater(b, c) => NotLater(a, c)
      /\ \A a, b \in Time : NotLater(a, b) /\ NotLater(b, a) => a = b
  <2>1. ASSUME NEW a \in Time
        PROVE  /\ a.hour \in Nat /\ a.minute \in Nat /\ a.second \in Nat
               /\ a = [hour |-> a.hour, minute |-> a.minute, second |-> a.second]
    BY Constants DEF Time
  <2>2. ASSUME NEW a \in Time, NEW b \in Time, NotLater(a, b), NotLater(b, a)
        PROVE  a = b
    <3>1. a.hour = b.hour /\ a.minute = b.minute /\ a.second = b.second
      BY <2>1, <2>2 DEF NotLater
    <3> QED
      BY <2>1, <3>1
  <2>3. ASSUME NEW a \in Time, NEW b \in Time, NEW c \in Time, NotLater(a, b), NotLater(b, c)
        PROVE  NotLater(a, c)
    BY <2>1, <2>3 DEF NotLater
  <2> QED
    BY <2>2, <2>3
<1>9. \/ dateInt' = d /\ dateInt = d /\ NotLater(s, timeInt) /\ NotLater(timeInt, timeInt')
      \/ Later(dateInt', d)
  BY <1>2, <1>3, <1>4, <1>5, <1>6, <1>7
<1>10. \/ dateInt' = d /\ NotLater(s, timeInt')
       \/ Later(dateInt', d)
  BY <1>4, <1>5, <1>8, <1>9
<1>11. ASSUME call.todo # <<>>, call.since = clock'
       PROVE  Counted'
  <2>1. timeInt' = s /\ dateInt' = d
    BY <1>4, <1>11 DEF clock
  <2>2. dateInt = d /\ NotLater(s, timeInt) /\ NotLater(timeInt, s)
    BY <1>4, <1>7, <1>9, <2>1
  <2>3. timeInt = s
    BY <1>4, <1>5, <1>8, <2>2
  <2>4. ~fires
    BY <2>1, <2>3, RingsAtSecond, SecondMoves
  <2>5. Counted /\ UNCHANGED <<timeInt, dateInt, alarm>>
    BY <1>2, <1>4, <1>11, <2>1, <2>2, <2>3, <2>4 DEF clock, RTC2_IRQHandler
  <2> QED
    BY <1>1, <2>5 DEF Counted
<1> QED
  BY <1>3, <1>10, <1>11

\* A call begins.
LEMMA SetBegins ==
    ASSUME TypeInv, SetInv,
           \/ \E t \in Times, pm \in BOOLEAN : Set(timeSteps(t, pm))
           \/ \E d \in Dates : Set(dateSteps(d))
           \/ GetTime \/ GetDate \/ \E a \in Alarms : SetAlarm(a)
    PROVE  SetInv'
<1>1. ASSUME NEW todo, Set(todo)
      PROVE  SetInv'
  BY <1>1 DEF Set, begins, SetInv
<1>2. CASE GetTime \/ GetDate
  BY <1>2 DEF GetTime, GetDate, begins, SetInv
<1>3. ASSUME NEW a \in Alarms, SetAlarm(a)
      PROVE  SetInv'
  <2>1. /\ call' = [op |-> "setAlarm", todo |-> alarmSteps(a.mode), since |-> clock,
                    sec |-> 0, days |-> 0]
        /\ Alarm_Mode' = a.mode /\ timely' = FALSE /\ UNCHANGED <<timeInt, dateInt>>
    BY <1>3 DEF SetAlarm, begins, clock
  <2>2. a.mode \in {"OFF", "SEC", "MMSS", "HHMMSS", "DDHHMMSS", "MMDDHHMMSS", "YYMMDDHHMMSS"}
    BY RtcAssumption
  <2>3. timeInt \in Time /\ dateInt \in Date /\ NotLater(timeInt, timeInt)
    BY Constants DEF TypeInv, Types, TypeOK, Time, Date, NotLater
  <2>4. \/ a.mode = "HHMMSS" /\ call'.todo = hourStep
        \/ a.mode = "MMSS" /\ call'.todo = minuteStep
        \/ a.mode = "SEC" /\ call'.todo = secondStep
        \/ onDate(a.mode) /\ call'.todo = daysStep
        \/ a.mode = "OFF" /\ call'.todo = armStep
    BY <2>1, <2>2, AlarmBegins DEF onDate
  <2>5. Counted'
    <3>1. call'.sec = 0 /\ call'.days = 0
      BY <2>1
    <3>2. CASE a.mode = "HHMMSS" /\ call'.todo = hourStep
      BY <2>1, <3>1, <3>2, AlarmStages DEF Counted, timed
    <3>3. CASE a.mode = "MMSS" /\ call'.todo = minuteStep
      BY <2>1, <3>1, <3>3, AlarmStages DEF Counted, timed, atMinute
    <3>4. CASE a.mode = "SEC" /\ call'.todo = secondStep
      BY <2>1, <3>1, <3>4, AlarmStages DEF Counted, timed, atSecond
    <3>5. CASE onDate(a.mode) /\ call'.todo = daysStep
      BY <2>1, <3>1, <3>5, AlarmStages DEF Counted
    <3>6. CASE a.mode = "OFF" /\ call'.todo = armStep
      BY <2>1, <3>1, <3>6, AlarmStages DEF Counted, timed, onDate
    <3> QED
      BY <2>4, <3>2, <3>3, <3>4, <3>5, <3>6
  <2> QED
    BY <2>1, <2>3, <2>4, <2>5 DEF SetInv, clock
<1> QED
  BY <1>1, <1>2, <1>3

\* What a step of setAlarm counts is what its place in the call asks for.
LEMMA SetComputes ==
    ASSUME TypeInv, OwnInv, SetInv,
           AlarmDays \/ AlarmHour \/ AlarmMinute \/ AlarmSecond
    PROVE  SetInv'
<1>1. CallStep /\ UNCHANGED <<timeInt, dateInt, date, Alarm_Mode, timely>>
  BY DEF CallStep, AlarmDays, AlarmHour, AlarmMinute, AlarmSecond, clock, ghosts
<1>2. call.op = "setAlarm"
  BY StepOwner DEF AlarmDays, AlarmHour, AlarmMinute, AlarmSecond, armSteps
<1>3. call'.op = "setAlarm" /\ call'.since = call.since /\ call.todo # <<>>
  BY <1>1, <1>2, StepKeeps
<1>0. CASE call.since = never
  BY <1>0, <1>1, <1>2, <1>3 DEF SetInv
<1> SUFFICES ASSUME call.since # never
             PROVE  SetInv'
  BY <1>0
<1>4. /\ call.since \in Time \X Date
      /\ \/ dateInt = call.since[2] /\ NotLater(call.since[1], timeInt)
         \/ Later(dateInt, call.since[2])
      /\ call.todo \in {hourStep, minuteStep, secondStep, daysStep, armStep}
      /\ ~timely
      /\ call.since = clock => Counted
  BY <1>2, <1>3 DEF SetInv
<1>5. call = [op |-> call.op, todo |-> call.todo, since |-> call.since,
              sec |-> call.sec, days |-> call.days]
  BY <1>1, StepKeeps DEF TypeInv, Types, CallOK
<1>6. /\ alarm \in [addDay : 0 .. 5, addMonth : BOOLEAN, sec_to_next_int : Int,
                    polled : BOOLEAN, set : BOOLEAN]
      /\ time \in [hour : Nat, minute : Nat, second : Nat, Tmode : BOOLEAN]
  BY DEF TypeInv, Types, TypeOK
<1>7. ASSUME call'.todo \in {minuteStep, secondStep, armStep, <<>>},
             Counted => Counted' \/ call'.todo = <<>>
      PROVE  SetInv'
  <2>1. ~timely'
    BY <1>1, <1>4
  <2>2. clock' = clock
    BY <1>1 DEF clock
  <2> QED
    BY <1>1, <1>3, <1>4, <1>7, <2>1, <2>2 DEF SetInv
<1>8. CASE AlarmHour
  <2>1. call.todo = hourStep
    BY <1>4, <1>8, AlarmStages DEF AlarmHour, step
  <2> DEFINE h == IF time_Mode = "H12" /\ time.Tmode THEN time.hour + HalfDay ELSE time.hour
             n == (IF h < timeInt.hour THEN DayHours - timeInt.hour + time.second
                   ELSE h - timeInt.hour) * Hour
  <2>2. /\ time' = [time EXCEPT !.hour = h]
        /\ call' = [call EXCEPT !.todo = Tail(call.todo), !.sec = n]
        /\ alarm' = [alarm EXCEPT !.sec_to_next_int = DaySecs]
    BY <1>8 DEF AlarmHour
  <2> HIDE DEF h
  <2>3. /\ call'.todo = minuteStep /\ call'.sec = n /\ call'.days = call.days
        /\ time'.hour = h /\ time'.second = time.second
        /\ alarm'.sec_to_next_int = DaySecs
    <3>1. call'.todo = Tail(call.todo) /\ call'.sec = n /\ call'.days = call.days
      <4> HIDE DEF n
      <4> QED
        BY <1>5, <2>2
    <3> QED
      BY <1>6, <2>1, <2>2, <3>1, AlarmStages
  <2>4. Counted => Counted'
    <3> SUFFICES ASSUME Counted
                 PROVE  Counted'
      OBVIOUS
    <3>1. timed(Alarm_Mode) /\ call.days = 0 /\ Alarm_Mode = "HHMMSS"
      BY <2>1 DEF Counted
    <3>2. atMinute(Alarm_Mode, time', timeInt) = n
      BY <2>3, <3>1 DEF atMinute
    <3>3. period(Alarm_Mode) = DaySecs
      BY <3>1 DEF period
    <3> HIDE DEF n
    <3> QED
      BY <1>1, <2>3, <3>1, <3>2, <3>3, AlarmStages DEF Counted
  <2> QED
    BY <1>7, <2>3, <2>4
<1>9. CASE AlarmMinute
  <2>1. call.todo = minuteStep
    BY <1>4, <1>9, AlarmStages DEF AlarmMinute, step
  <2>2. /\ call'.todo = secondStep /\ call'.days = call.days
        /\ call'.sec = carry(call.sec, time.minute, timeInt.minute, Sixty)
        /\ time' = time
        /\ Alarm_Mode = "MMSS" => alarm'.sec_to_next_int = Hour
        /\ Alarm_Mode # "MMSS" => alarm'.sec_to_next_int = alarm.sec_to_next_int
    <3> DEFINE n == carry(call.sec, time.minute, timeInt.minute, Sixty)
    <3>1. call' = [call EXCEPT !.todo = Tail(call.todo), !.sec = n]
      BY <1>9 DEF AlarmMinute
    <3>2. call'.todo = Tail(call.todo) /\ call'.sec = n /\ call'.days = call.days
      <4> HIDE DEF n
      <4> QED
        BY <1>5, <3>1
    <3>3. /\ time' = time
          /\ alarm' = [alarm EXCEPT !.sec_to_next_int = IF Alarm_Mode = "MMSS" THEN Hour ELSE @]
      BY <1>9 DEF AlarmMinute
    <3> QED
      BY <1>6, <2>1, <3>2, <3>3, AlarmStages
  <2>3. Counted => Counted'
    <3> SUFFICES ASSUME Counted
                 PROVE  Counted'
      OBVIOUS
    <3>1. /\ timed(Alarm_Mode) /\ call.days = 0 /\ Alarm_Mode # "SEC"
          /\ call.sec = atMinute(Alarm_Mode, time, timeInt)
          /\ Alarm_Mode = "HHMMSS" => alarm.sec_to_next_int = period(Alarm_Mode)
      BY <2>1 DEF Counted
    <3>2. call'.sec = atSecond(Alarm_Mode, time, timeInt)
      BY <2>2, <3>1 DEF atSecond
    <3>3. alarm'.sec_to_next_int = period(Alarm_Mode)
      BY <2>2, <3>1 DEF period, timed
    <3> QED
      BY <1>1, <2>2, <3>1, <3>2, <3>3, AlarmStages DEF Counted
  <2> QED
    BY <1>7, <2>2, <2>3
<1>10. CASE AlarmSecond
  <2>1. call.todo = secondStep
    BY <1>4, <1>10, AlarmStages DEF AlarmSecond, step
  <2>2. /\ call'.todo = armStep /\ call'.days = call.days
        /\ call'.sec = carry(call.sec, time.second, timeInt.second, 1)
        /\ time' = time
        /\ Alarm_Mode = "SEC" => alarm'.sec_to_next_int = Sixty
        /\ Alarm_Mode # "SEC" => alarm'.sec_to_next_int = alarm.sec_to_next_int
    <3> DEFINE n == carry(call.sec, time.second, timeInt.second, 1)
    <3>1. call' = [call EXCEPT !.todo = Tail(call.todo), !.sec = n]
      BY <1>10 DEF AlarmSecond
    <3>2. call'.todo = Tail(call.todo) /\ call'.sec = n /\ call'.days = call.days
      <4> HIDE DEF n
      <4> QED
        BY <1>5, <3>1
    <3>3. /\ time' = time
          /\ alarm' = [alarm EXCEPT !.sec_to_next_int = IF Alarm_Mode = "SEC" THEN Sixty ELSE @]
      BY <1>10 DEF AlarmSecond
    <3> QED
      BY <1>6, <2>1, <3>2, <3>3, AlarmStages
  <2>3. Counted => Counted'
    <3> SUFFICES ASSUME Counted
                 PROVE  Counted'
      OBVIOUS
    <3>1. /\ timed(Alarm_Mode) /\ call.days = 0
          /\ call.sec = atSecond(Alarm_Mode, time, timeInt)
          /\ Alarm_Mode # "SEC" => alarm.sec_to_next_int = period(Alarm_Mode)
      BY <2>1 DEF Counted
    <3>2. call'.sec = atArm(Alarm_Mode, time, timeInt)
      BY <2>2, <3>1 DEF atArm
    <3>3. alarm'.sec_to_next_int = period(Alarm_Mode)
      BY <2>2, <3>1 DEF period, timed
    <3>4. ~onDate(Alarm_Mode)
      BY <3>1 DEF timed, onDate
    <3> QED
      BY <1>1, <2>2, <3>1, <3>2, <3>3, <3>4, AlarmStages DEF Counted
  <2> QED
    BY <1>7, <2>2, <2>3
<1>11. CASE AlarmDays
  <2>1. call.todo = daysStep
    BY <1>4, <1>11, AlarmStages DEF AlarmDays, step
  <2>2. /\ call'.todo \in {armStep, <<>>} /\ call'.sec = call.sec
        /\ call'.days = daysTo(Alarm_Mode, date, dateInt)
    <3> DEFINE n == daysTo(Alarm_Mode, date, dateInt)
    <3>1. PICK todo : /\ call' = [call EXCEPT !.days = n, !.todo = todo]
                      /\ todo \in {Tail(call.todo), <<>>}
      BY <1>11 DEF AlarmDays, daysTo
    <3>2. call'.todo = todo /\ call'.sec = call.sec /\ call'.days = n
      <4> HIDE DEF n
      <4> QED
        BY <1>5, <3>1
    <3> QED
      BY <2>1, <3>1, <3>2, AlarmStages
  <2>3. Counted => Counted' \/ call'.todo = <<>>
    <3> SUFFICES ASSUME Counted, call'.todo = armStep
                 PROVE  Counted'
      BY <2>2
    <3>1. onDate(Alarm_Mode) /\ call.sec = 0
      BY <2>1 DEF Counted
    <3>2. ~timed(Alarm_Mode)
      BY <3>1 DEF timed, onDate
    <3> QED
      BY <1>1, <2>2, <3>1, <3>2, AlarmStages DEF Counted
  <2> QED
    BY <1>7, <2>2, <2>3
<1> QED
  BY <1>8, <1>9, <1>10, <1>11

\* Every step of the sketch's.
LEMMA SetSketch ==
    ASSUME TypeInv, OwnInv, SetInv, Sketch
    PROVE  SetInv'
<1>1. CASE AlarmClearFlag
  <2>1. /\ UNCHANGED <<timeInt, dateInt, time, date, Alarm_Mode, call, timely>>
        /\ alarm'.sec_to_next_int = alarm.sec_to_next_int
    BY <1>1 DEF AlarmClearFlag, clock, ghosts, TypeInv, Types, TypeOK
  <2> QED
    BY <2>1 DEF SetInv, Counted, clock
<1>2. CASE Return
  BY <1>2 DEF Return, Idle, SetInv
<1>6. CASE CallbackReturn
  <2>1. timely' => preempted[1].op \notin {"set", "setAlarm"}
    BY <1>6 DEF CallbackReturn
  <2> QED
    BY <1>6, <2>1, Resumes DEF Idle, SetInv
<1>3. CASE AlarmArm
  <2>1. call.op = "setAlarm"
    BY <1>3, StepOwner DEF AlarmArm, armSteps
  <2>0. CASE call.since = never
    <3>1. CallStep /\ timely' = kept
      BY <1>3 DEF CallStep, AlarmArm
    <3>2. ~kept
      BY <2>0, NoClock DEF kept
    <3> QED
      BY <2>0, <2>1, <3>1, <3>2, StepKeeps DEF SetInv
  <2> SUFFICES ASSUME call.since # never
               PROVE  SetInv'
    BY <2>0
  <2>2. call.todo \in {hourStep, minuteStep, secondStep, daysStep, armStep, <<>>}
    BY <2>1 DEF SetInv
  <2>3. call.todo = armStep
    BY <1>3, <2>2, AlarmStages DEF AlarmArm, step
  <2>4. CallStep
    BY <1>3 DEF CallStep
  <2>5. call'.todo = Tail(call.todo) /\ call'.op = "setAlarm" /\ call'.since = call.since
    <3>1. ~AlarmDays
      BY <2>3, AlarmStages DEF AlarmDays, step
    <3> QED
      BY <2>1, <2>4, <3>1, StepKeeps
  <2>6. call'.todo = <<>>
    BY <2>3, <2>5, AlarmStages
  <2>7. UNCHANGED <<timeInt, dateInt>>
    BY <1>3 DEF AlarmArm, clock
  <2> QED
    BY <2>1, <2>5, <2>6, <2>7 DEF SetInv
<1>4. ASSUME \/ SetHour \/ SetTimeField("minute") \/ SetTimeField("second")
             \/ \E f \in {"day", "month", "year"} : SetDateField(f)
      PROVE  SetInv'
  <2>1. call.op = "set"
    BY <1>4, StepOwner DEF SetHour, SetTimeField, SetDateField, clockSteps
  <2>2. CallStep /\ timely' = timely
    BY <1>4 DEF CallStep, SetHour, SetTimeField, SetDateField, ghosts
  <2>3. call'.op = "set"
    BY <2>1, <2>2, StepKeeps
  <2> QED
    BY <2>1, <2>2, <2>3 DEF SetInv
<1>5. ASSUME \/ GetHour
             \/ GetTimeField("minute", "getMinute") \/ GetTimeField("second", "getSecond")
             \/ GetDateField("day", "getDay") \/ GetDateField("month", "getMonth")
             \/ GetDateField("year", "getYear")
      PROVE  SetInv'
  <2>1. /\ CallStep /\ timely' = timely
        /\ \E f \in {"getHour", "getMinute", "getSecond", "getDay", "getMonth", "getYear"} : step(f)
    BY <1>5 DEF CallStep, GetHour, GetTimeField, GetDateField, ghosts
  <2>2. call.op # "setAlarm" \/ (call.since = never /\ call.todo # <<>>)
    <3>1. ASSUME call.op = "setAlarm", call.since # never
          PROVE  FALSE
      <4>1. call.todo \in {hourStep, minuteStep, secondStep, daysStep, armStep}
        BY <2>1, <3>1 DEF SetInv, step
      <4> QED
        BY <2>1, <4>1, AlarmStages DEF step
    <3> QED
      BY <2>1, <3>1 DEF step
  <2>3. call'.op = call.op /\ call'.since = call.since
    BY <2>1, StepKeeps
  <2> QED
    BY <2>1, <2>2, <2>3 DEF SetInv
<1> QED
  BY <1>1, <1>2, <1>3, <1>4, <1>5, <1>6, SetBegins, SetComputes DEF Sketch

-------------------------------------------------------------------------------
(* Alarms: the one that is armed. *)

\* In n seconds the clock will be at the time, or the date, asked for.
TimeIn(n) ==
    /\ timed(target.mode) /\ inRange(target.mode, target.time)
    /\ (instant + n) % period(target.mode) = phase(target.mode, target.time)
    /\ alarm.sec_to_next_int = period(target.mode) /\ alarm.addDay = 0 /\ ~alarm.addMonth
DateIn(n) ==
    /\ onDate(target.mode) /\ target.date \in Date /\ validDate(target.date)
    /\ target.time \in Time /\ validTime(target.time)
    /\ instant + n = dayNumber(target.date) * DaySecs + secOfDay(target.time)

\* The counter is at the second e, its compare value is the second c, and the
\* alarm is due when as many have passed.
Due ==
    /\ valid /\ intCompare
    /\ \E c, e \in Nat : /\ e < c /\ c * TicksPerSec < CcRange
                         /\ cc = c * TicksPerSec /\ COUNTER = e * TicksPerSec + count
                         /\ TimeIn(c - e) \/ DateIn(c - e)

\* An alarm on a date is due once, one on a time of day again and again.
AlarmInv ==
    timely => /\ rang => atTarget
              /\ ~(rang /\ onDate(target.mode)) => Due

\* The days that setAlarm counts to a date that is kept are those to it.
LEMMA DaysToDate ==
    ASSUME TypeInv, kept, onDate(Alarm_Mode)
    PROVE  /\ daysTo(Alarm_Mode, date, dateInt) = dayNumber(date) - dayNumber(dateInt)
           /\ date \in Date /\ validDate(date) /\ dateInt \in Date /\ validDate(dateInt)
<1>1. /\ validDate(date) /\ validDate(dateInt) /\ ahead > 0
      /\ Alarm_Mode = "YYMMDDHHMMSS" => counted(date) /\ counted(dateInt)
      /\ Alarm_Mode # "YYMMDDHHMMSS" => date.year = dateInt.year
      /\ Alarm_Mode = "DDHHMMSS" => date.month = dateInt.month
      /\ Alarm_Mode = "MMDDHHMMSS" => ~isLeap(date.year)
  <2>1. Alarm_Mode \notin {"SEC", "MMSS", "HHMMSS"}
    BY DEF onDate
  <2> QED
    BY <2>1 DEF kept, valid
<1>2. dateInt \in Date /\ date \in [day : Nat, month : Nat, year : Nat]
  BY DEF TypeInv, Types, TypeOK, Date
<1>3. date \in Date
  BY <1>1, <1>2 DEF Date, validDate
<1>4. dayNumber(date) \in Nat /\ dayNumber(dateInt) \in Nat
  BY <1>1, <1>2, <1>3, DayNumberIsNat
<1>5. dayNumber(date) - dayNumber(dateInt) # 0
  BY <1>1, <1>4 DEF ahead
<1>6. CASE Alarm_Mode = "YYMMDDHHMMSS"
  <2>1. ASSUME NEW d \in Date, validDate(d), counted(d)
        PROVE  rdn(d.year, d.month, d.day) - rdn(0, 3, 1)
                 = dayNumber(d) - dayNumber([day |-> 1, month |-> 3, year |-> 0])
    <3>1. /\ d.year \in Nat /\ d.month \in 1 .. 12 /\ d.day \in Nat
          /\ d = [day |-> d.day, month |-> d.month, year |-> d.year]
      BY <2>1 DEF Date, validDate
    <3>2. d.year < 100 /\ ~(d.year = 0 /\ d.month < 3)
      BY <2>1 DEF counted
    <3> QED
      BY <3>1, <3>2, DayNumbers
  <2> DEFINE r == rdn(0, 3, 1)  n == dayNumber([day |-> 1, month |-> 3, year |-> 0])
             x == rdn(date.year, date.month, date.day)
             y == rdn(dateInt.year, dateInt.month, dateInt.day)
  <2>2. x - r = dayNumber(date) - n /\ y - r = dayNumber(dateInt) - n
    BY <1>1, <1>2, <1>3, <1>6, <2>1
  <2>3. r \in Int /\ x \in Int /\ y \in Int
    <3>1. ASSUME NEW d \in Date
          PROVE  rdn(d.year, d.month, d.day) \in Int
      <4>1. d.year \in Int /\ d.month \in Int /\ d.day \in Int
        BY DEF Date
      <4> QED
        BY <4>1, DayNumberType
    <3>2. r \in Int
      BY DayNumberType
    <3> QED
      BY <1>2, <1>3, <3>1, <3>2
  <2>4. n \in Int
    BY DEF dayNumber, before, isLeap
  <2>5. daysTo(Alarm_Mode, date, dateInt) = x - y
    BY <1>6 DEF daysTo
  <2> HIDE DEF r, n, x, y
  <2>6. x - y = dayNumber(date) - dayNumber(dateInt)
    BY <1>4, <2>2, <2>3, <2>4
  <2> QED
    BY <1>1, <1>2, <1>3, <2>5, <2>6
<1>7. CASE Alarm_Mode = "MMDDHHMMSS"
  <2>1. rdn(0, date.month, date.day) - rdn(0, dateInt.month, dateInt.day)
          = dayNumber(date) - dayNumber(dateInt)
    BY <1>1, <1>2, <1>3, <1>7, DaysInCommonYear
  <2> QED
    BY <1>1, <1>2, <1>3, <1>5, <1>7, <2>1 DEF daysTo
<1>8. CASE Alarm_Mode = "DDHHMMSS"
  <2>1. rdn(dateInt.year, date.month, date.day) - rdn(dateInt.year, dateInt.month, dateInt.day)
          = dayNumber(date) - dayNumber(dateInt)
    BY <1>1, <1>2, <1>3, <1>8, DaysInMonth
  <2> QED
    BY <1>1, <1>2, <1>3, <1>5, <1>8, <2>1 DEF daysTo
<1> QED
  BY <1>6, <1>7, <1>8 DEF onDate

\* The instant of a clock, and the phases it is at.
LEMMA ClockInstant ==
    ASSUME NEW t \in Time, NEW d \in Date, validTime(t), validDate(d)
    PROVE  LET n == dayNumber(d) * DaySecs + secOfDay(t) IN
           /\ dayNumber(d) \in Nat /\ secOfDay(t) \in 0 .. DaySecs - 1
           /\ n \in Nat /\ inRange("HHMMSS", t)
           /\ \A mode : timed(mode) => inRange(mode, t) /\ n % period(mode) = phase(mode, t)
<1>1. dayNumber(d) \in Nat
  BY DayNumberIsNat
<1>2. inRange("HHMMSS", t)
  BY Constants DEF inRange, Time, validTime
<1>3. \A mode : inRange(mode, t)
  BY <1>2 DEF inRange
<1>4. secOfDay(t) \in 0 .. DaySecs - 1
  <2>1. phase("HHMMSS", t) \in 0 .. period("HHMMSS") - 1
    BY <1>2, Phases DEF timed
  <2> QED
    BY <2>1 DEF phase, period
<1>5. ASSUME NEW mode, timed(mode)
      PROVE  (dayNumber(d) * DaySecs + secOfDay(t)) % period(mode) = phase(mode, t)
  BY <1>1, <1>3, <1>5, PhaseOfInstant
<1>6. dayNumber(d) * DaySecs + secOfDay(t) \in Nat
  BY <1>1, <1>2, PhaseOfInstant DEF timed
<1> QED
  BY <1>1, <1>2, <1>3, <1>4, <1>5, <1>6

\* At the phase of a time of day the clock is at that time, ...
LEMMA TimeReached ==
    ASSUME NEW t \in Time, NEW d \in Date, validTime(t), validDate(d),
           NEW mode, timed(mode), NEW a, inRange(mode, a),
           (dayNumber(d) * DaySecs + secOfDay(t)) % period(mode) = phase(mode, a)
    PROVE  /\ t.second = a.second
           /\ mode # "SEC" => t.minute = a.minute
           /\ mode = "HHMMSS" => t.hour = a.hour
<1>1. inRange(mode, t) /\ phase(mode, t) = phase(mode, a)
  BY ClockInstant
<1> QED
  BY <1>1, PhaseTells

\* ... and at the instant of a date and a time, at both.
LEMMA DateReached ==
    ASSUME NEW t \in Time, NEW d \in Date, validTime(t), validDate(d),
           NEW a \in Date, validDate(a), NEW b \in Time, validTime(b),
           dayNumber(d) * DaySecs + secOfDay(t) = dayNumber(a) * DaySecs + secOfDay(b)
    PROVE  d = a /\ t = b
<1> DEFINE m == dayNumber(d)  n == dayNumber(a)  r == secOfDay(t)  s == secOfDay(b)
<1>1. /\ m \in Nat /\ n \in Nat /\ r \in 0 .. DaySecs - 1 /\ s \in 0 .. DaySecs - 1
      /\ DaySecs \in Nat \ {0}
  BY ClockInstant, DayNumberIsNat, Constants
<1>2. m * DaySecs + r = n * DaySecs + s
  OBVIOUS
<1> HIDE DEF m, n, r, s
<1>3. m * DaySecs = DaySecs * m /\ n * DaySecs = DaySecs * n
  BY <1>1
<1>4. (DaySecs * m + r) \div DaySecs = m /\ (DaySecs * n + s) \div DaySecs = n
  BY <1>1, DivUnique
<1>5. m = n /\ r = s
  BY <1>1, <1>2, <1>3, <1>4
<1>6. d = a
  BY <1>5, DayNumberTells DEF m, n
<1>7. t = b
  <2>1. inRange("HHMMSS", t) /\ inRange("HHMMSS", b)
    BY ClockInstant
  <2>2. phase("HHMMSS", t) = phase("HHMMSS", b)
    BY <1>5 DEF phase, r, s
  <2>3. t.second = b.second /\ t.minute = b.minute /\ t.hour = b.hour
    BY <2>1, <2>2, PhaseTells DEF timed
  <2> QED
    BY <2>3 DEF Time
<1> QED
  BY <1>6, <1>7

\* The counter, before the compare value.
LEMMA NextTick ==
    ASSUME NEW c \in Nat, NEW e \in Nat, e < c, c * TicksPerSec < CcRange,
           NEW n \in 0 .. TicksPerSec - 1
    PROVE  /\ (e * TicksPerSec + n + 1) % CcRange = e * TicksPerSec + n + 1
           /\ n + 1 = TicksPerSec => e * TicksPerSec + n + 1 = (e + 1) * TicksPerSec
           /\ e + 1 # c => (e + 1) * TicksPerSec # c * TicksPerSec
<1>1. TicksPerSec \in Nat \ {0} /\ CcRange \in Nat \ {0}
  BY Constants
<1>2. (e + 1) * TicksPerSec = e * TicksPerSec + TicksPerSec /\ e * TicksPerSec \in Nat
  BY <1>1
<1>3. (e + 1) * TicksPerSec <= c * TicksPerSec /\ c * TicksPerSec \in Nat
  BY <1>1, TimesMonotone
<1>4. e * TicksPerSec + n + 1 \in 0 .. CcRange - 1
  BY <1>1, <1>2, <1>3
<1>5. ASSUME e + 1 # c
      PROVE  (e + 1) * TicksPerSec # c * TicksPerSec
  <2>1. (e + 1) * TicksPerSec + 0 < c * TicksPerSec + 0
    BY <1>1, <1>5, QuotientsInOrder
  <2> QED
    BY <1>2, <1>3, <2>1
<1>6. \A x \in 0 .. CcRange - 1 : x % CcRange = x
  BY <1>1
<1> QED
  BY <1>2, <1>4, <1>5, <1>6

\* What setAlarm counts to an alarm on a time of day.
LEMMA ArmTimed ==
    ASSUME TypeInv, kept, timed(Alarm_Mode), call.days = 0,
           call.sec = atArm(Alarm_Mode, time, timeInt)
    PROVE  /\ waitSecs \in Nat \ {0} /\ waitSecs * TicksPerSec < CcRange
           /\ inRange(Alarm_Mode, time)
           /\ (instant + waitSecs) % period(Alarm_Mode) = phase(Alarm_Mode, time)
           /\ alarm.addDay = 0 /\ ~alarm.addMonth
<1> DEFINE p == period(Alarm_Mode)  f == phase(Alarm_Mode, time)
           w == atArm(Alarm_Mode, time, timeInt)
<1>1. Alarm_Mode \in {"SEC", "MMSS", "HHMMSS"}
  BY DEF timed
<1>2. /\ time.hour \in Nat /\ time.minute \in Nat /\ time.second \in Nat
      /\ timeInt \in Time /\ dateInt \in Date /\ validTime(timeInt) /\ validDate(dateInt)
  BY DEF TypeInv, Types, TypeOK, Time, Date, kept, valid
<1>3. /\ alarm.addDay = 0 /\ ~alarm.addMonth
      /\ Alarm_Mode = "SEC" => time.second < Sixty
      /\ Alarm_Mode = "MMSS" => /\ time.minute < Sixty /\ time.second < Sixty
                                /\ time.minute # timeInt.minute \/ time.second >= timeInt.second
      /\ Alarm_Mode = "HHMMSS" => validTime(time) /\ secOfDay(time) >= secOfDay(timeInt)
  <2>1. alarm.addDay = 0 /\ ~alarm.addMonth
    BY <1>1 DEF kept
  <2>2. Alarm_Mode = "SEC" => time.second < Sixty
    BY DEF kept, onDate
  <2>3. Alarm_Mode = "MMSS" => /\ time.minute < Sixty /\ time.second < Sixty
                               /\ time.minute # timeInt.minute \/ time.second >= timeInt.second
    BY DEF kept, onDate
  <2>4. Alarm_Mode = "HHMMSS" => validTime(time) /\ secOfDay(time) >= secOfDay(timeInt)
    BY DEF kept, onDate
  <2> QED
    BY <2>1, <2>2, <2>3, <2>4
<1>4. inRange(Alarm_Mode, time)
  BY <1>1, <1>2, <1>3 DEF inRange, validTime
<1>5. /\ inRange("HHMMSS", timeInt) /\ instant \in Nat
      /\ instant % p = phase(Alarm_Mode, timeInt)
  BY <1>2, ClockInstant DEF instant
<1>6. w \in 0 .. p - 1 /\ \E k \in {0, 1} : w = f - (instant % p) + k * p
  BY <1>3, <1>4, <1>5, TimedWait
<1>7. p \in Nat \ {0} /\ p * TicksPerSec < CcRange /\ f \in 0 .. p - 1
  BY <1>4, Periods, Phases
<1>8. waitSecs = IF w = 0 THEN p ELSE w
  <2>1. call.sec = w /\ call.days * DaySecs = 0
    BY Constants
  <2>2. w + 0 = w
    BY <1>6
  <2>3. waitSecs = CASE w = 0 /\ Alarm_Mode = "HHMMSS" -> DaySecs
                     [] w = 0 /\ Alarm_Mode = "MMSS"   -> Hour
                     [] w = 0 /\ Alarm_Mode = "SEC"    -> Sixty
                     [] OTHER -> w
    BY <2>1, <2>2 DEF waitSecs
  <2> HIDE DEF w
  <2> QED
    BY <1>1, <2>3 DEF period
<1> HIDE DEF p, f, w
<1>9. waitSecs \in 1 .. p
  BY <1>6, <1>7, <1>8
<1>10. (instant + waitSecs) % p = f
  <2>1. PICK k \in {0, 1} : w = f - (instant % p) + k * p
    BY <1>6
  <2>2. PICK n \in Nat, m \in Nat : n = instant /\ m = waitSecs
    BY <1>5, <1>9
  <2> DEFINE q == n \div p  g == n % p
  <2>3. q \in Int /\ g \in Int /\ n = p * q + g /\ w = f - g + k * p /\ f \in Int /\ p \in Int
    BY <1>7, <2>1, <2>2, ModRange
  <2> HIDE DEF q, g
  <2>4. PICK j \in Int : m = f - g + j * p
    <3>1. w = 0 => m = f - g + (k + 1) * p
      BY <1>8, <2>2, <2>3
    <3>2. w # 0 => m = f - g + k * p
      BY <1>8, <2>2, <2>3
    <3> QED
      BY <3>1, <3>2
  <2>5. n + m = p * (q + j) + f /\ q + j \in Int
    <3>1. p * (q + j) = p * q + j * p /\ p * q \in Int /\ j * p \in Int
      BY <2>3
    <3> QED
      BY <2>3, <2>4, <3>1
  <2>6. (n + m) % p = f
    BY <1>7, <2>5, ModUnique
  <2> QED
    BY <2>2, <2>6
<1>11. waitSecs * TicksPerSec < CcRange
  <2>1. waitSecs * TicksPerSec <= p * TicksPerSec
    BY <1>7, <1>9, Constants, TimesMonotone
  <2>2. waitSecs * TicksPerSec \in Nat /\ p * TicksPerSec \in Nat
    BY <1>7, <1>9, Constants
  <2> QED
    BY <1>7, <2>1, <2>2, Constants
<1> QED
  BY <1>3, <1>4, <1>7, <1>9, <1>10, <1>11 DEF p, f

\* And to one on a date.
LEMMA ArmDate ==
    ASSUME TypeInv, kept, onDate(Alarm_Mode), call.sec = 0,
           call.days = daysTo(Alarm_Mode, date, dateInt)
    PROVE  /\ waitSecs \in Nat \ {0} /\ waitSecs * TicksPerSec < CcRange
           /\ date \in Date /\ validDate(date)
           /\ instant + waitSecs = dayNumber(date) * DaySecs + secOfDay(timeInt)
           /\ secOfDay(timeInt) \in 0 .. DaySecs - 1
<1>1. Alarm_Mode \notin {"SEC", "MMSS", "HHMMSS"}
  BY DEF onDate
<1>2. ahead > 0 /\ ahead * DaySecs * TicksPerSec < CcRange
  BY <1>1 DEF kept
<1>3. timeInt \in Time /\ validTime(timeInt)
  BY DEF TypeInv, Types, TypeOK, Time, kept, valid
<1>4. /\ call.days = ahead
      /\ date \in Date /\ validDate(date) /\ dateInt \in Date /\ validDate(dateInt)
  BY DaysToDate DEF ahead
<1>5. /\ dayNumber(date) \in Nat /\ dayNumber(dateInt) \in Nat
      /\ secOfDay(timeInt) \in 0 .. DaySecs - 1
  BY <1>3, <1>4, ClockInstant, DayNumberIsNat
<1>6. ahead \in Nat \ {0}
  BY <1>2, <1>5 DEF ahead
<1>7. ahead * DaySecs \in Nat \ {0}
  <2>1. 0 * DaySecs + 0 < ahead * DaySecs + 0
    BY <1>6, Constants, QuotientsInOrder
  <2> QED
    BY <1>6, <2>1, Constants
<1>8. waitSecs = ahead * DaySecs
  <2>1. 0 + ahead * DaySecs = ahead * DaySecs
    BY <1>7
  <2>2. waitSecs = call.sec + call.days * DaySecs
    BY <1>1 DEF waitSecs
  <2> QED
    BY <1>4, <2>1, <2>2
<1>9. instant + waitSecs = dayNumber(date) * DaySecs + secOfDay(timeInt)
  <2> DEFINE n == dayNumber(date)  m == dayNumber(dateInt)  s == secOfDay(timeInt)
  <2>1. instant = m * DaySecs + s /\ waitSecs = (n - m) * DaySecs
    BY <1>8 DEF instant, ahead
  <2>2. n \in Nat /\ m \in Nat /\ s \in Nat /\ DaySecs \in Nat
    BY <1>5, Constants
  <2> HIDE DEF n, m, s
  <2>3. (n - m) * DaySecs = n * DaySecs - m * DaySecs
    BY <2>2
  <2>4. n * DaySecs \in Nat /\ m * DaySecs \in Nat
    BY <2>2
  <2>5. instant + waitSecs = n * DaySecs + s
    BY <2>1, <2>2, <2>3, <2>4
  <2> QED
    BY <2>5 DEF n, s
<1> QED
  BY <1>2, <1>4, <1>5, <1>7, <1>8, <1>9

\* So an alarm that is kept is due when it is armed.
LEMMA ArmDue ==
    ASSUME TypeInv, CountInv, OwnInv, SetInv, AlarmArm, kept
    PROVE  Due'
<1>1. call.op = "setAlarm"
  BY StepOwner DEF AlarmArm, armSteps
<1>2. call.todo = armStep
  <2>1. call.since # never
    BY NoClock DEF kept
  <2> QED
    BY <1>1, <2>1, AlarmStages DEF SetInv, AlarmArm, step
<1>3. Counted
  BY <1>1, <1>2, AlarmStages, NoClock DEF SetInv, kept
<1>4. timed(Alarm_Mode) \/ onDate(Alarm_Mode)
  BY DEF kept, timed
<1>5. /\ timed(Alarm_Mode) => /\ call.sec = atArm(Alarm_Mode, time, timeInt)
                              /\ call.days = 0
                              /\ alarm.sec_to_next_int = period(Alarm_Mode)
      /\ onDate(Alarm_Mode) => /\ call.sec = 0
                               /\ call.days = daysTo(Alarm_Mode, date, dateInt)
  BY <1>2, <1>3, AlarmStages DEF Counted
<1>6. /\ UNCHANGED <<timeInt, dateInt, count, alarm, COUNTER>>
      /\ target' = [mode |-> Alarm_Mode, date |-> date,
                    time |-> IF onDate(Alarm_Mode) THEN timeInt ELSE time]
      /\ intCompare' /\ cc' = (waitSecs * TicksPerSec) % CcRange
  BY DEF AlarmArm, clock, alarms
<1>7. valid' /\ instant' = instant
  BY <1>6 DEF kept, valid, instant
<1>8. /\ target'.mode = Alarm_Mode /\ target'.date = date
      /\ timed(Alarm_Mode) => target'.time = time
      /\ onDate(Alarm_Mode) => target'.time = timeInt
  BY <1>6 DEF timed, onDate
<1>9. waitSecs \in Nat \ {0} /\ waitSecs * TicksPerSec < CcRange
  BY <1>4, <1>5, ArmTimed, ArmDate
<1>10. cc' = waitSecs * TicksPerSec
  <2>1. waitSecs * TicksPerSec \in 0 .. CcRange - 1
    BY <1>9, Constants
  <2>2. \A x \in 0 .. CcRange - 1 : x % CcRange = x
    BY Constants
  <2> QED
    BY <1>6, <2>1, <2>2
<1>11. COUNTER' = 0 * TicksPerSec + count'
  <2>1. /\ COUNTER \in 0 .. TicksPerSec - 1 /\ COUNTER % TicksPerSec = count
        /\ TicksPerSec \in Nat \ {0}
    BY Constants DEF kept, TypeInv, Types, TypeOK, CountInv, CountTogether
  <2>2. COUNTER % TicksPerSec = COUNTER
    BY <2>1
  <2> QED
    BY <1>6, <2>1, <2>2
<1>12. PICK n \in Nat : n = waitSecs
  BY <1>9
<1>13. TimeIn(n)' \/ DateIn(n)'
  <2>1. CASE timed(Alarm_Mode)
    <3>1. /\ inRange(Alarm_Mode, time) /\ alarm.addDay = 0 /\ ~alarm.addMonth
          /\ (instant + n) % period(Alarm_Mode) = phase(Alarm_Mode, time)
      BY <1>5, <1>12, <2>1, ArmTimed
    <3>2. alarm' = alarm /\ alarm.sec_to_next_int = period(Alarm_Mode)
      BY <1>5, <1>6, <2>1
    <3> QED
      BY <1>7, <1>8, <2>1, <3>1, <3>2 DEF TimeIn
  <2>2. CASE onDate(Alarm_Mode)
    <3>1. /\ date \in Date /\ validDate(date) /\ timeInt \in Time /\ validTime(timeInt)
          /\ instant + n = dayNumber(date) * DaySecs + secOfDay(timeInt)
      BY <1>5, <1>12, <2>2, ArmDate DEF TypeInv, Types, TypeOK, Time, kept, valid
    <3> QED
      BY <1>7, <1>8, <2>2, <3>1 DEF DateIn
  <2> QED
    BY <1>4, <2>1, <2>2
<1>14. n \in Nat /\ 0 \in Nat /\ 0 < n /\ n * TicksPerSec < CcRange /\ cc' = n * TicksPerSec
  BY <1>9, <1>10, <1>12
<1>15. TimeIn(n - 0)' \/ DateIn(n - 0)'
  <2>1. n - 0 = n
    BY <1>14
  <2> QED
    BY <1>13, <2>1
<1>16. valid' /\ intCompare'
  BY <1>6, <1>7
<1> QED
  BY <1>11, <1>14, <1>15, <1>16 DEF Due

\* An alarm that is due comes a tick nearer, or rings at the time or the date
\* that it was set for, and one on a time of day is due again.
LEMMA DueTick ==
    ASSUME TypeInv, CountInv, Due, RTC2_IRQHandler
    PROVE  /\ ~rang' => Due'
           /\ rang' => atTarget' /\ (onDate(target.mode) \/ Due')
<1>1. PICK c, e \in Nat :
        /\ e < c /\ c * TicksPerSec < CcRange
        /\ cc = c * TicksPerSec /\ COUNTER = e * TicksPerSec + count
        /\ TimeIn(c - e) \/ DateIn(c - e)
  BY DEF Due
<1>2. /\ valid /\ intCompare /\ count \in 0 .. TicksPerSec - 1
      /\ TicksPerSec \in Nat \ {0} /\ DaySecs \in Nat \ {0}
      /\ alarm \in [addDay : 0 .. 5, addMonth : BOOLEAN, sec_to_next_int : Int,
                    polled : BOOLEAN, set : BOOLEAN]
  BY Constants DEF Due, TypeInv, Types, TypeOK
<1>3. /\ valid' /\ instant' = instant + (IF secondsEnd THEN 1 ELSE 0) /\ instant \in Int
  BY <1>2, TickAdvances
<1>4. /\ UNCHANGED <<target, intCompare>> /\ rang' = fires
      /\ count' = IF secondsEnd THEN 0 ELSE count + 1
      /\ fires => COUNTER' = 0 /\ Compare
      /\ ~fires => COUNTER' = (COUNTER + 1) % CcRange /\ UNCHANGED <<cc, alarm>>
  BY DEF RTC2_IRQHandler, Tick
<1>5. timeInt' \in Time /\ dateInt' \in Date /\ validTime(timeInt') /\ validDate(dateInt')
  BY <1>3, TickTypes DEF TypeInv, Types, TypeOK, Time, Date, valid
<1>6. /\ (COUNTER + 1) % CcRange = e * TicksPerSec + count + 1
      /\ secondsEnd => e * TicksPerSec + count + 1 = (e + 1) * TicksPerSec
      /\ e + 1 # c => (e + 1) * TicksPerSec # c * TicksPerSec
  <2>1. /\ (e * TicksPerSec + count + 1) % CcRange = e * TicksPerSec + count + 1
        /\ count + 1 = TicksPerSec => e * TicksPerSec + count + 1 = (e + 1) * TicksPerSec
        /\ e + 1 # c => (e + 1) * TicksPerSec # c * TicksPerSec
    BY <1>1, <1>2, NextTick
  <2> QED
    BY <1>1, <2>1 DEF secondsEnd
<1>7. valid' /\ intCompare'
  BY <1>2, <1>3, <1>4
<1>8. CASE ~fires /\ ~secondsEnd
  <2>1. /\ cc' = c * TicksPerSec /\ COUNTER' = e * TicksPerSec + count'
        /\ UNCHANGED <<alarm, target>> /\ instant' = instant
    <3>1. count' = count + 1 /\ e * TicksPerSec \in Nat
      BY <1>1, <1>2, <1>4, <1>8
    <3>2. e * TicksPerSec + (count + 1) = e * TicksPerSec + count + 1
      BY <1>2, <3>1
    <3> QED
      BY <1>1, <1>3, <1>4, <1>6, <1>8, <3>1, <3>2
  <2>2. TimeIn(c - e)' \/ DateIn(c - e)'
    BY <1>1, <2>1 DEF TimeIn, DateIn
  <2> QED
    BY <1>1, <1>4, <1>7, <1>8, <2>1, <2>2 DEF Due
<1>9. CASE ~fires /\ secondsEnd
  <2>1. /\ cc' = c * TicksPerSec /\ COUNTER' = (e + 1) * TicksPerSec + count'
        /\ UNCHANGED <<alarm, target>> /\ instant' = instant + 1
    <3>1. count' = 0 /\ (e + 1) * TicksPerSec \in Nat
      BY <1>1, <1>2, <1>4, <1>9
    <3>2. (e + 1) * TicksPerSec + 0 = (e + 1) * TicksPerSec
      BY <3>1
    <3> QED
      BY <1>1, <1>3, <1>4, <1>6, <1>9, <3>1, <3>2
  <2>2. PICK d \in Nat : d = e + 1
    BY <1>1
  <2>3. d < c
    <3>1. e + 1 # c
      BY <1>1, <1>2, <1>6, <1>9 DEF fires
    <3> QED
      BY <1>1, <2>2, <3>1
  <2>4. instant' + (c - d) = instant + (c - e)
    BY <1>1, <1>3, <2>1, <2>2
  <2>5. TimeIn(c - d)' \/ DateIn(c - d)'
    BY <1>1, <2>1, <2>4 DEF TimeIn, DateIn
  <2> QED
    BY <1>1, <1>4, <1>7, <1>9, <2>1, <2>2, <2>3, <2>5 DEF Due
<1>10. CASE fires
  <2>1. secondsEnd
    BY <1>10, RingsAtSecond
  <2>2. c - e = 1 /\ instant' = instant + 1 /\ instant' \in Int
    <3>1. e + 1 = c
      BY <1>1, <1>6, <1>10, <2>1 DEF fires
    <3> QED
      BY <1>1, <1>3, <2>1, <3>1
  <2>3. instant' = dayNumber(dateInt') * DaySecs + secOfDay(timeInt')
    BY DEF instant
  <2>4. CASE TimeIn(c - e)
    <3>1. PICK mode, t, p :
            /\ mode = target.mode /\ t = target.time /\ p = period(mode)
      OBVIOUS
    <3>2. /\ timed(mode) /\ inRange(mode, t) /\ instant' % p = phase(mode, t)
          /\ alarm.sec_to_next_int = p /\ alarm.addDay = 0 /\ ~alarm.addMonth
      BY <2>2, <2>4, <3>1 DEF TimeIn
    <3>3. p \in Nat \ {0} /\ p * TicksPerSec \in Nat /\ p * TicksPerSec < CcRange
      BY <3>1, <3>2, Periods
    <3>4. /\ timeInt'.second = t.second
          /\ mode # "SEC" => timeInt'.minute = t.minute
          /\ mode = "HHMMSS" => timeInt'.hour = t.hour
      BY <1>5, <2>3, <3>1, <3>2, TimeReached
    <3>5. atTarget'
      BY <1>4, <3>1, <3>2, <3>4 DEF atTarget, timed
    <3>6. cc' = p * TicksPerSec
      <4>1. cc' = (p * TicksPerSec) % CcRange
        BY <1>4, <1>10, <3>2 DEF Compare
      <4>2. \A x \in 0 .. CcRange - 1 : x % CcRange = x
        BY Constants
      <4> QED
        BY <3>3, <4>1, <4>2, Constants
    <3>7. alarm'.sec_to_next_int = p /\ alarm'.addDay = 0 /\ ~alarm'.addMonth
      BY <1>4, <1>10, <3>2 DEF Compare
    <3>8. COUNTER' = 0 * TicksPerSec + count'
      BY <1>2, <1>4, <1>10, <2>1
    <3>9. (instant' + p) % p = phase(mode, t)
      <4>1. PICK n \in Int : n = instant'
        BY <2>2
      <4>2. PICK k \in Int : k = 1
        OBVIOUS
      <4>3. (n + p * k) % p = n % p
        BY <3>3, ModShift
      <4>4. p * k = p
        BY <3>3, <4>2
      <4> QED
        BY <3>2, <4>1, <4>3, <4>4
    <3>10. TimeIn(p - 0)'
      <4>1. p - 0 = p
        BY <3>3
      <4>2. TimeIn(p)'
        BY <1>4, <3>1, <3>2, <3>7, <3>9 DEF TimeIn
      <4> QED
        BY <4>1, <4>2
    <3>11. p \in Nat /\ 0 \in Nat /\ 0 < p
      BY <3>3
    <3>12. Due'
      BY <1>7, <3>3, <3>6, <3>8, <3>10, <3>11 DEF Due
    <3> QED
      BY <1>4, <1>10, <3>5, <3>12
  <2>5. CASE DateIn(c - e)
    <3>1. PICK a, b : /\ a = target.date /\ b = target.time
                      /\ instant' = dayNumber(a) * DaySecs + secOfDay(b)
      BY <2>2, <2>5 DEF DateIn
    <3>2. /\ a \in Date /\ validDate(a) /\ b \in Time /\ validTime(b)
          /\ onDate(target.mode)
      BY <2>5, <3>1 DEF DateIn
    <3>3. dateInt' = a /\ timeInt' = b
      BY <1>5, <2>3, <3>1, <3>2, DateReached
    <3>4. atTarget'
      BY <1>4, <3>1, <3>2, <3>3 DEF atTarget, onDate
    <3> QED
      BY <1>4, <1>10, <3>2, <3>4
  <2> QED
    BY <1>1, <2>4, <2>5
<1> QED
  BY <1>4, <1>8, <1>9, <1>10

\* The handler.
LEMMA AlarmTick ==
    ASSUME TypeInv, CountInv, AlarmInv, RTC2_IRQHandler
    PROVE  AlarmInv'
<1> SUFFICES ASSUME timely'
             PROVE  /\ rang' => atTarget'
                    /\ ~(rang' /\ onDate(target'.mode)) => Due'
  BY DEF AlarmInv
<1>1. timely /\ ~(rang /\ onDate(target.mode)) /\ target' = target
  BY DEF RTC2_IRQHandler
<1>2. Due
  BY <1>1 DEF AlarmInv
<1> QED
  BY <1>1, <1>2, DueTick

\* The sketch: an alarm is due from when it is armed until the next is set.
LEMMA AlarmSketch ==
    ASSUME TypeInv, CountInv, OwnInv, SetInv, AlarmInv, Sketch
    PROVE  AlarmInv'
<1>1. CASE AlarmArm
  <2>1. timely' = kept /\ rang' = FALSE
    BY <1>1 DEF AlarmArm
  <2> QED
    BY <1>1, <2>1, ArmDue DEF AlarmInv
<1>2. ASSUME ~timely'
      PROVE  AlarmInv'
  BY <1>2 DEF AlarmInv
<1>3. ASSUME \/ \E t \in Times, pm \in BOOLEAN : Set(timeSteps(t, pm))
             \/ \E d \in Dates : Set(dateSteps(d))
             \/ \E a \in Alarms : SetAlarm(a)
      PROVE  ~timely'
  BY <1>3 DEF Set, SetAlarm
<1>4. ASSUME \/ SetHour \/ SetTimeField("minute") \/ SetTimeField("second")
             \/ \E f \in {"day", "month", "year"} : SetDateField(f)
      PROVE  ~timely'
  <2>1. call.op = "set" /\ timely' = timely
    BY <1>4, StepOwner DEF SetHour, SetTimeField, SetDateField, clockSteps, ghosts
  <2> QED
    BY <2>1 DEF SetInv
<1>5. ASSUME AlarmDays \/ AlarmHour \/ AlarmMinute \/ AlarmSecond
      PROVE  ~timely'
  <2>1. call.op = "setAlarm" /\ timely' = timely /\ call.todo # <<>>
    BY <1>5, StepOwner
       DEF AlarmDays, AlarmHour, AlarmMinute, AlarmSecond, armSteps, ghosts, step
  <2> QED
    BY <2>1 DEF SetInv
<1>6. ASSUME UNCHANGED <<timeInt, dateInt, count, COUNTER, cc, intCompare, target, rang>>,
             timely' => timely,
             /\ alarm'.sec_to_next_int = alarm.sec_to_next_int
             /\ alarm'.addDay = alarm.addDay /\ alarm'.addMonth = alarm.addMonth
      PROVE  AlarmInv'
  <2>1. atTarget' <=> atTarget
    BY <1>6 DEF atTarget
  <2>2. valid' <=> valid
    BY <1>6 DEF valid
  <2>3. instant' = instant
    BY <1>6 DEF instant
  <2>4. \A n : (TimeIn(n)' <=> TimeIn(n)) /\ (DateIn(n)' <=> DateIn(n))
    BY <1>6, <2>3 DEF TimeIn, DateIn
  <2>5. Due => Due'
    BY <1>6, <2>2, <2>4 DEF Due
  <2> QED
    BY <1>6, <2>1, <2>5 DEF AlarmInv
<1>7. CASE AlarmClearFlag
  <2>1. /\ alarm'.sec_to_next_int = alarm.sec_to_next_int
        /\ alarm'.addDay = alarm.addDay /\ alarm'.addMonth = alarm.addMonth
    BY <1>7 DEF AlarmClearFlag, TypeInv, Types, TypeOK
  <2> QED
    BY <1>6, <1>7, <2>1 DEF AlarmClearFlag, clock, rtc2, ghosts
<1>9. CASE CallbackReturn
  BY <1>6, <1>9 DEF CallbackReturn, clock, rtc2, alarms
<1>8. CASE \/ Return \/ GetTime \/ GetDate \/ GetHour
           \/ GetTimeField("minute", "getMinute") \/ GetTimeField("second", "getSecond")
           \/ GetDateField("day", "getDay") \/ GetDateField("month", "getMonth")
           \/ GetDateField("year", "getYear")
  BY <1>6, <1>8
     DEF Return, GetTime, GetDate, GetHour, GetTimeField, GetDateField, clock, rtc2,
         ghosts, alarms
<1> QED
  BY <1>1, <1>2, <1>3, <1>4, <1>5, <1>7, <1>8, <1>9 DEF Sketch

\* An alarm of those that setAlarm gets right (see kept) rings, on a time of day, when
\* the clock shows it and at no other time ever after; on a date, the first time on
\* that date at the time of day at which it was set (RTCInt.cpp 484-499, 570-591;
\* lines 357-362 say that the time of day asked for is matched on a date too, which
\* the code does not do).  So on any calendar day, and however the handler, its
\* callback and the sketch's calls interleave.
THEOREM AlarmsMatch == Spec => []AlarmMatches
<1>1. Init => OwnInv /\ SetInv /\ AlarmInv
  BY DEF Init, Idle, OwnInv, SetInv, AlarmInv
<1>2. /\ TypeInv /\ CountInv /\ OwnInv /\ SetInv /\ AlarmInv /\ [Next]_vars
      => OwnInv' /\ SetInv' /\ AlarmInv'
  <2> SUFFICES ASSUME TypeInv, CountInv, OwnInv, SetInv, AlarmInv, [Next]_vars
               PROVE  OwnInv' /\ SetInv' /\ AlarmInv'
    OBVIOUS
  <2>1. OwnInv'
    BY OwnSteps
  <2>2. CASE RTC2_IRQHandler
    BY <2>1, <2>2, SetTick, AlarmTick
  <2>3. CASE Sketch
    BY <2>1, <2>3, SetSketch, AlarmSketch
  <2>4. CASE UNCHANGED vars
    <3>1. SetInv'
      BY <2>4 DEF vars, clock, alarms, ghosts, SetInv, Counted
    <3>2. AlarmInv'
      BY <2>4 DEF vars, clock, alarms, rtc2, ghosts, AlarmInv, Due, TimeIn, DateIn, valid,
                  instant, atTarget
    <3> QED
      BY <2>1, <3>1, <3>2
  <2> QED
    BY <2>2, <2>3, <2>4 DEF Next
<1>3. AlarmInv => AlarmMatches
  BY DEF AlarmInv, AlarmMatches
<1> QED
  BY <1>1, <1>2, <1>3, TypeInvariance, CountInvariance, PTL DEF Spec
===============================================================================
