----------------------------- MODULE Clock_proofs ------------------------------
(***************************************************************************)
(* For any clock rate and any width of the counts: every variable keeps    *)
(* its type, and delay takes the time it is asked for, also when the tick  *)
(* count wraps while it waits and whatever holds off the tick's handler.   *)
(***************************************************************************)
EXTENDS Clock, Division

\* The derived constants.
LEMMA Constants ==
    /\ Period \in Nat \ {0} /\ LOAD \in Nat /\ Period = LOAD + 1
    /\ Horizon \in Nat \ {0}
  BY ClockAssumption DEF Period, LOAD, Horizon

\* The timer goes on by a cycle, or begins a period.
LEMMA TimerNext ==
    ASSUME NEW t \in Int
    PROVE  (t + 1) % Period = IF t % Period = LOAD THEN 0 ELSE (t % Period) + 1
<1> DEFINE P == Period
<1>1. P \in Nat \ {0} /\ LOAD = P - 1
  BY Constants
<1> HIDE DEF P
<1>2. (t + 1) % P = IF t % P = P - 1 THEN 0 ELSE (t % P) + 1
  BY <1>1, ModStep
<1> QED
  BY <1>1, <1>2 DEF P

-------------------------------------------------------------------------------
(* Types. *)

\* The types of the calls in progress, and of what micros has read.
LEMMA CallTypes ==
    /\ Idle \in Calls
    /\ \A old \in Reading, now \in Reading :
         /\ [op |-> "pend", old |-> old, now |-> now] \in Calls
         /\ [op |-> "count", old |-> old, now |-> now] \in Calls
         /\ [op |-> "ticks", old |-> old] \in Calls
    /\ \A ms \in 1 .. MaxMs :
         /\ \A start \in 0 .. Word - 1 : [op |-> "yield", ms |-> ms, start |-> start] \in Calls
         /\ [op |-> "delay", ms |-> ms] \in Calls
  BY DEF Calls

LEMMA ReadingTypes ==
    /\ NoRead \in Reading
    /\ \A t \in 0 .. LOAD : [NoRead EXCEPT !.ticks = t] \in Reading
    /\ \A r \in Reading, p \in {0, 1} : [r EXCEPT !.pend = p] \in Reading
  BY Constants, ClockAssumption DEF Reading, NoRead

\* The initial state has its types, and each step keeps them.
LEMMA InitType == Init => TypeOK
<1> SUFFICES ASSUME Init
             PROVE  TypeOK
  OBVIOUS
<1>1. pendst \in BOOLEAN /\ ticked \in BOOLEAN
  BY DEF Init
<1>2. time \in 0 .. Horizon - 1 /\ elapsed \in 0 .. Horizon
  BY Constants DEF Init
<1>3. call \in Calls
  BY CallTypes DEF Init
<1> QED
  BY <1>1, <1>2, <1>3, ClockAssumption DEF Init, TypeOK

LEMMA StepType == TypeOK /\ [Next]_vars => TypeOK'
<1> SUFFICES ASSUME TypeOK, [Next]_vars
             PROVE  TypeOK'
  OBVIOUS
<1> USE Constants, ClockAssumption DEF TypeOK
<1>a. VAL \in 0 .. LOAD
  BY ModRange DEF VAL
<1>1. CASE Cycle
  <2>1. (time + 1) % Horizon \in 0 .. Horizon - 1
    BY ModRange
  <2>2. pendst' \in BOOLEAN
    BY <1>1 DEF Cycle
  <2>3. ticked' \in BOOLEAN
    BY <1>1 DEF Cycle
  <2>4. elapsed' \in 0 .. Horizon
    BY <1>1 DEF Cycle
  <2> QED
    BY <1>1, <2>1, <2>2, <2>3, <2>4 DEF Cycle
<1>2. CASE SysTick_Handler
  <2>1. (_ulTickCount + 1) % Word \in 0 .. Word - 1
    BY ModRange
  <2> QED
    BY <1>2, <2>1 DEF SysTick_Handler
<1>3. CASE Mask \/ Preempt \/ Release
  BY <1>3 DEF Mask, Preempt, Release
<1>4. CASE MicrosBegin
  <2>1. ticked' \in BOOLEAN
    BY <1>4 DEF MicrosBegin, begins
  <2>3. elapsed' \in 0 .. Horizon
    BY <1>4 DEF MicrosBegin, begins
  <2>2. call' \in Calls
    BY <1>a, <1>4, CallTypes, ReadingTypes DEF MicrosBegin
  <2> QED
    BY <1>4, <2>1, <2>2, <2>3 DEF MicrosBegin
<1>5. CASE MicrosPend
  <2>1. PICK old \in Reading, now \in Reading :
           call = [op |-> "pend", old |-> old, now |-> now]
    BY <1>5 DEF MicrosPend, Calls, Idle
  <2>2. PICK p \in {0, 1} :
           call' = [op |-> "count", old |-> old, now |-> [now EXCEPT !.pend = p]]
    BY <1>5, <2>1 DEF MicrosPend
  <2>3. call' \in Calls
    BY <2>2, CallTypes, ReadingTypes
  <2> QED
    BY <1>5, <2>3 DEF MicrosPend, steps
<1>6. ASSUME call.op = "count"
      PROVE  /\ reading \in Reading /\ call.old \in Reading /\ call.now \in Reading
             /\ microsOf(call.old) \in 0 .. Word - 1
  <2>1. PICK old \in Reading, now \in Reading :
           call = [op |-> "count", old |-> old, now |-> now]
    BY <1>6 DEF Calls, Idle
  <2>2. reading \in Reading
    BY <2>1 DEF reading, Reading
  <2>3. (LOAD - old.ticks) \div CyclesPerUs \in Int
    BY ModRange DEF Reading
  <2>4. ((old.count + old.pend) * UsPerMs + (LOAD - old.ticks) \div CyclesPerUs) \in Int
    BY <2>3 DEF Reading
  <2>5. microsOf(old) \in 0 .. Word - 1
    BY <2>4, ModRange DEF microsOf
  <2> QED
    BY <2>1, <2>2, <2>5
<1>7. CASE MicrosAgain
  BY <1>6, <1>7 DEF MicrosAgain, steps, Calls
<1>8. CASE MicrosTicks
  <2>1. call.old \in Reading
    BY <1>8 DEF MicrosTicks, Calls, Idle
  <2> QED
    BY <1>a, <1>8, <2>1, CallTypes, ReadingTypes DEF MicrosTicks, steps
<1>9. CASE MicrosReturn
  BY <1>6, <1>9 DEF MicrosReturn, steps, Calls
<1>10. ASSUME NEW ms \in 1 .. MaxMs, DelayBegin(ms)
       PROVE  TypeOK'
  <2>1. ticked' \in BOOLEAN
    BY <1>10 DEF DelayBegin, begins
  <2>3. elapsed' \in 0 .. Horizon
    BY <1>10 DEF DelayBegin, begins
  <2>2. call' \in Calls
    BY <1>10, CallTypes DEF DelayBegin
  <2> QED
    BY <1>10, <2>1, <2>2, <2>3 DEF DelayBegin
<1>11. CASE DelayYield
  BY <1>11 DEF DelayYield, steps
<1>12. CASE DelayReturn
  <2>1. call.ms \in 1 .. MaxMs
    BY <1>12 DEF DelayReturn, Calls, Idle
  <2> QED
    BY <1>12, <2>1 DEF DelayReturn, steps, Calls
<1>13. CASE Return
  <2>1. ticked' \in BOOLEAN
    BY <1>13 DEF Return
  <2>3. elapsed' \in 0 .. Horizon
    BY <1>13 DEF Return
  <2>2. call' \in Calls
    BY <1>13, CallTypes DEF Return
  <2> QED
    BY <1>13, <2>1, <2>2, <2>3 DEF Return
<1>14. CASE UNCHANGED vars
  BY <1>14 DEF vars
<1> QED
  BY <1>1, <1>2, <1>3, <1>4, <1>5, <1>7, <1>8, <1>9, <1>10, <1>11, <1>12,
     <1>13, <1>14 DEF Next, callerStep

\* Every variable keeps its type: in particular the counts keep to their word
\* (delay.c).
THEOREM TypeCorrect == Spec => []TypeOK
  BY InitType, StepType, PTL DEF Spec

-------------------------------------------------------------------------------
(* delay. *)

pend01 == IF pendst THEN 1 ELSE 0
waited == (_ulTickCount - call.start) % Word     \* the ticks counted since start
phase  == (time + 1) % Period                    \* cycles since the tick was due

\* The ticks counted and pending since delay began have taken their time: all
\* but the first a period each, the first at least a cycle.
DelayInv ==
    /\ call.op = "yield" =>
         elapsed = Horizon \/ (waited + pend01) * Period + phase <= elapsed + LOAD
    /\ DelayBounds

\* A cycle takes the phase on by one, or back to 0 as the tick becomes pending.
LEMMA PhaseStep ==
    ASSUME TypeOK, Cycle
    PROVE  /\ phase \in 0 .. LOAD
           /\ VAL = 1 => phase' = 0 /\ phase = LOAD
           /\ phase' \in {0, phase + 1}
<1> USE Constants DEF TypeOK
<1>b. (time + 2) % Period = IF (time + 1) % Period = LOAD
                            THEN 0 ELSE ((time + 1) % Period) + 1
  <2> DEFINE t == time + 1
  <2>1. t \in Int /\ time + 2 = t + 1
    OBVIOUS
  <2> HIDE DEF t
  <2>2. (t + 1) % Period = IF t % Period = LOAD THEN 0 ELSE (t % Period) + 1
    BY <2>1, TimerNext
  <2> QED
    BY <2>1, <2>2 DEF t
<1>1. phase' = (time + 2) % Period
  <2>1. CASE time + 1 < Horizon
    <3>1. (Horizon * 0 + (time + 1)) % Horizon = time + 1
      BY <2>1, ModUnique
    <3>2. time' = time + 1
      BY <3>1 DEF Cycle
    <3> QED
      BY <3>2 DEF phase
  <2>2. CASE time + 1 = Horizon
    <3>1. time' = 0
      <4>1. (Horizon * 1 + 0) % Horizon = 0
        BY ModUnique
      <4> QED
        BY <2>2, <4>1 DEF Cycle
    <3>2. (Period * Word + 0) % Period = 0 /\ (time + 1) % Period = 0
      BY <2>2, ModUnique, ClockAssumption DEF Horizon
    <3>3. (0 + 1) % Period = IF 0 % Period = LOAD THEN 0 ELSE (0 % Period) + 1
      BY TimerNext
    <3>4. (Period * 0 + 0) % Period = 0
      BY ModUnique
    <3> QED
      BY <1>b, <3>1, <3>2, <3>3, <3>4 DEF phase
  <2> QED
    BY <2>1, <2>2
<1>3. phase \in 0 .. LOAD
  BY ModRange DEF phase
<1>4. phase' \in {0, phase + 1}
  BY <1>1, <1>b DEF phase
<1>5. ASSUME VAL = 1
      PROVE  phase' = 0 /\ phase = LOAD
  <2>1. time % Period = LOAD - 1 /\ LOAD # 0
    BY <1>5, ModRange DEF VAL
  <2>2. (time + 1) % Period = (time % Period) + 1
    <3>1. time \in Int
      OBVIOUS
    <3>2. (time + 1) % Period = IF time % Period = LOAD THEN 0 ELSE (time % Period) + 1
      BY <3>1, TimerNext
    <3> QED
      BY <2>1, <3>2
  <2> QED
    BY <1>1, <1>b, <2>1, <2>2 DEF phase
<1> QED
  BY <1>3, <1>4, <1>5

\* One more tick is at most one more, whatever wraps.
LEMMA WaitedStep ==
    ASSUME NEW c \in Int, NEW s \in Int
    PROVE  /\ (((c + 1) % Word) - s) % Word <= ((c - s) % Word) + 1
           /\ (((c + 1) % Word) - s) % Word \in Nat /\ (c - s) % Word \in Nat
<1>1. (((c + 1) % Word) - s) % Word = (c + 1 - s) % Word
  <2> DEFINE k == c + 1
  <2>1. k \in Int
    OBVIOUS
  <2> HIDE DEF k
  <2>2. ((k % Word) - s) % Word = (k - s) % Word
    BY <2>1, ModDifference, ClockAssumption
  <2> QED
    BY <2>2 DEF k
<1> DEFINE a == c - s
<1>2. a \in Int /\ c + 1 - s = a + 1
  OBVIOUS
<1> HIDE DEF a
<1>3. (a + 1) % Word = IF a % Word = Word - 1 THEN 0 ELSE (a % Word) + 1
  BY <1>2, ModStep, ClockAssumption
<1>4. a % Word \in Nat
  BY <1>2, ModRange, ClockAssumption
<1> QED
  BY <1>1, <1>2, <1>3, <1>4 DEF a

\* What delay keeps, and what it computes.
LEMMA YieldTypes ==
    ASSUME TypeOK, call.op = "yield"
    PROVE  /\ call.start \in 0 .. Word - 1 /\ call.ms \in 1 .. MaxMs
           /\ waited \in 0 .. Word - 1
<1>1. PICK ms \in 1 .. MaxMs, start \in 0 .. Word - 1 :
         call = [op |-> "yield", ms |-> ms, start |-> start]
  BY DEF TypeOK, Calls, Idle
<1>2. _ulTickCount - start \in Int
  BY ClockAssumption DEF TypeOK
<1>3. (_ulTickCount - start) % Word \in 0 .. Word - 1
  BY <1>2, ModRange, ClockAssumption
<1> QED
  BY <1>1, <1>3 DEF waited

\* The invariant of delay.
LEMMA InitDelay == Init => DelayInv
  BY DEF Init, Idle, DelayInv, DelayBounds

LEMMA StepDelay == TypeOK /\ DelayInv /\ [Next]_vars => DelayInv'
<1> SUFFICES ASSUME TypeOK, DelayInv, [Next]_vars
             PROVE  DelayInv'
  OBVIOUS
<1>1. CASE Cycle
  <2>1. call' = call /\ UNCHANGED _ulTickCount /\ call.op # "delay"
    BY <1>1 DEF Cycle
  <2> SUFFICES ASSUME call.op = "yield"
               PROVE  elapsed' = Horizon
                        \/ (waited' + pend01') * Period + phase' <= elapsed' + LOAD
    BY <2>1 DEF DelayInv, DelayBounds
  <2>2. elapsed' = IF elapsed < Horizon THEN elapsed + 1 ELSE elapsed
    BY <1>1 DEF Cycle, Idle
  <2>3. waited' = waited /\ waited \in Nat
    BY <2>1, YieldTypes DEF waited
  <2>4. elapsed \in 0 .. Horizon /\ Horizon \in Nat
    BY Constants DEF TypeOK
  <2>5. CASE VAL = 1
    <3>1. pend01 = 0 /\ pend01' = 1
      BY <1>1, <2>5 DEF Cycle, tickWouldBeLost, pend01
    <3>2. phase' = 0 /\ phase = LOAD
      BY <1>1, <2>5, PhaseStep
    <3>3. (waited + 1) * Period = waited * Period + LOAD + 1
      BY <2>3, Constants
    <3>4. waited * Period \in Int
      BY <2>3, Constants
    <3>5. /\ (waited + pend01) * Period = waited * Period
          /\ (waited' + pend01') * Period = waited * Period + LOAD + 1
      BY <2>3, <3>1, <3>3
    <3> QED
      BY <2>2, <2>4, <3>2, <3>4, <3>5, Constants DEF DelayInv
  <2>6. CASE VAL # 1
    <3>1. pend01' = pend01 /\ pend01 \in Int
      BY <1>1, <2>6 DEF Cycle, pend01, TypeOK
    <3>2. phase \in Nat /\ phase' <= phase + 1 /\ phase' \in Int
      BY <1>1, PhaseStep, Constants
    <3>3. (waited + pend01) * Period \in Int
      BY <2>3, <3>1, Constants
    <3>4. (waited' + pend01') * Period = (waited + pend01) * Period
      BY <2>3, <3>1
    <3>5. elapsed = Horizon \/ (waited + pend01) * Period + phase <= elapsed + LOAD
      BY DEF DelayInv
    <3> QED
      BY <2>2, <2>4, <3>2, <3>3, <3>4, <3>5, Constants
  <2> QED
    BY <2>5, <2>6
<1>2. CASE SysTick_Handler
  <2>1. UNCHANGED <<call, elapsed, time>> /\ pendst /\ ~pendst'
        /\ _ulTickCount' = (_ulTickCount + 1) % Word
    BY <1>2 DEF SysTick_Handler, taken
  <2> SUFFICES ASSUME call.op = "yield"
               PROVE  elapsed' = Horizon
                        \/ (waited' + pend01') * Period + phase' <= elapsed' + LOAD
    BY <2>1 DEF DelayInv, DelayBounds
  <2>2. waited' <= waited + 1 /\ waited \in Nat /\ waited' \in Nat
    <3>1. _ulTickCount \in Int /\ call.start \in Int
      BY YieldTypes, ClockAssumption DEF TypeOK
    <3> QED
      BY <2>1, <3>1, WaitedStep DEF waited
  <2>3. pend01 = 1 /\ pend01' = 0
    BY <2>1 DEF pend01
  <2>4. waited' * Period <= (waited + 1) * Period
    <3>1. \A x, y \in Int : x <= y => x * Period <= y * Period
      BY TimesMonotone, Constants
    <3> QED
      BY <2>2, <3>1
  <2>5. /\ phase' = phase /\ phase \in Int /\ waited' * Period \in Int
        /\ (waited + 1) * Period \in Int /\ elapsed \in Int /\ LOAD \in Int
    BY <2>1, <2>2, ModRange, Constants DEF phase, TypeOK
  <2> QED
    BY <2>1, <2>2, <2>3, <2>4, <2>5 DEF DelayInv
<1>3. ASSUME NEW ms \in 1 .. MaxMs, DelayBegin(ms)
      PROVE  DelayInv'
  <2>1. /\ call' = [op |-> "yield", ms |-> ms, start |-> _ulTickCount]
        /\ UNCHANGED <<time, pendst, _ulTickCount>> /\ elapsed' = 0 /\ ~pendst
    BY <1>3 DEF DelayBegin, begins, callerRuns, taken
  <2>2. waited' = 0
    <3>1. (Word * 0 + 0) % Word = 0
      BY ModUnique, ClockAssumption
    <3>2. _ulTickCount - _ulTickCount = Word * 0 + 0
      BY ClockAssumption DEF TypeOK
    <3> QED
      BY <2>1, <3>1, <3>2 DEF waited
  <2>3. pend01' = 0
    BY <2>1 DEF pend01
  <2>4. phase' \in 0 .. LOAD
    BY <2>1, ModRange, Constants DEF phase, TypeOK
  <2>5. (waited' + pend01') * Period + phase' <= elapsed' + LOAD
    <3>1. (waited' + pend01') * Period = 0
      BY <2>2, <2>3, Constants
    <3> QED
      BY <2>1, <2>4, <3>1, Constants
  <2> QED
    BY <2>1, <2>5 DEF DelayInv, DelayBounds
<1>4. CASE DelayReturn
  <2>1. call.op = "yield" /\ ~delayLoops /\ UNCHANGED elapsed
        /\ call' = [op |-> "delay", ms |-> call.ms]
    BY <1>4 DEF DelayReturn, steps
  <2>2. call.ms \in Nat \ {0} /\ waited \in 0 .. Word - 1 /\ call.ms <= waited
    BY <2>1, YieldTypes DEF delayLoops, waited
  <2>3. elapsed > (call.ms - 1) * Period
    <3>1. CASE elapsed = Horizon
      <4>1. (call.ms - 1) * Period < Word * Period
        BY <2>2, Constants, ClockAssumption
      <4> QED
        BY <3>1, <4>1, Constants, ClockAssumption DEF Horizon
    <3>2. CASE elapsed # Horizon
      <4>1. (waited + pend01) * Period + phase <= elapsed + LOAD
        BY <2>1, <3>2 DEF DelayInv
      <4>2. phase \in Nat /\ pend01 \in Nat
        BY ModRange, Constants DEF phase, pend01, TypeOK
      <4>3. call.ms * Period <= (waited + pend01) * Period
        BY <2>2, <4>2, Constants
      <4>4. call.ms * Period = (call.ms - 1) * Period + LOAD + 1
        BY <2>2, Constants
      <4>5. /\ (waited + pend01) * Period \in Int /\ (call.ms - 1) * Period \in Int
            /\ call.ms * Period \in Int /\ elapsed \in Int /\ LOAD \in Int
        BY <2>2, <4>2, Constants DEF TypeOK
      <4> QED
        BY <4>1, <4>2, <4>3, <4>4, <4>5
    <3> QED
      BY <3>1, <3>2
  <2> QED
    BY <2>1, <2>3 DEF DelayInv, DelayBounds
<1>5. CASE Mask \/ Preempt \/ Release \/ DelayYield
  BY <1>5 DEF Mask, Preempt, Release, DelayYield, steps, DelayInv, DelayBounds,
              waited, pend01, phase
<1>6. CASE \/ MicrosBegin \/ MicrosPend \/ MicrosAgain \/ MicrosTicks
           \/ MicrosReturn \/ Return
  <2>1. call'.op \notin {"yield", "delay"}
    <3>1. CASE MicrosPend
      <4>1. call.op = "pend"
        BY <3>1 DEF MicrosPend
      <4>2. PICK old \in Reading, now \in Reading :
               call = [op |-> "pend", old |-> old, now |-> now]
        BY <4>1 DEF TypeOK, Calls, Idle
      <4> QED
        BY <3>1, <4>2 DEF MicrosPend
    <3>2. CASE \/ MicrosBegin \/ MicrosAgain \/ MicrosTicks
               \/ MicrosReturn \/ Return
      BY <3>2 DEF MicrosBegin, MicrosAgain, MicrosTicks, MicrosReturn, Return, Idle
    <3> QED
      BY <1>6, <3>1, <3>2
  <2> QED
    BY <2>1 DEF DelayInv, DelayBounds
<1>7. CASE UNCHANGED vars
  BY <1>7 DEF vars, DelayInv, DelayBounds, waited, pend01, phase
<1> QED
  BY <1>1, <1>2, <1>3, <1>4, <1>5, <1>6, <1>7 DEF Next, callerStep

\* delay(ms) returns after more than ms - 1 periods of SysTick, for every rate,
\* word and wait, also when _ulTickCount wraps meanwhile (delay.c, delay).
THEOREM DelayTakesItsTime == Spec => []DelayBounds
<1>1. Init => TypeOK /\ DelayInv
  BY InitType, InitDelay
<1>2. (TypeOK /\ DelayInv) /\ [Next]_vars => (TypeOK /\ DelayInv)'
  BY StepType, StepDelay
<1>3. TypeOK /\ DelayInv => DelayBounds
  BY DEF DelayInv
<1> QED
  BY <1>1, <1>2, <1>3, PTL DEF Spec

-------------------------------------------------------------------------------
(* micros. *)

\* Let t be a moment counted without a wrap.  So many ticks have become due by
\* then, of which so many have been counted.
ticksDue(t) == (t + 1) \div Period
counted(t)  == ticksDue(t) - pend01

\* What the variables say of the present moment T.
Present(T) ==
    /\ time = T % Horizon
    /\ elapsed <= T
    /\ _ulTickCount = counted(T) % Word

\* The readings made in the present round of the loop: the counter was read at
\* a moment t of the call, and the tick that ended its period is either counted
\* or has been seen to be pending.
NowRead(T, t) ==
    /\ call.now.ticks = LOAD - (t % Period)
    /\ call.op = "count" => t \div Period <= counted(T) + call.now.pend

NowInv(T) ==
    /\ call.op \in {"pend", "count"} => \E t \in T - elapsed .. T : NowRead(T, t)
    /\ call.op = "count" /\ call.now.pend = 1 => pendst /\ held = "caller"

\* The readings of the round before: the counter at the moment t, and K ticks.
\* The counter has then been read again, at a moment s that belongs to the
\* K + pend-th period if that is what the second round finds too.
OldRead(T, t, K) ==
    /\ call.old.ticks = LOAD - (t % Period)
    /\ call.old.count = K % Word
    /\ t \div Period <= K + call.old.pend
    /\ K <= counted(T)
    /\ (held = "caller" /\ K = counted(T)) \/ (K + 1) * Period > T - elapsed + 1
    /\ call.op = "ticks" =>
         /\ T >= (K + call.old.pend) * Period - 1
         /\ ticked => T >= (K + call.old.pend) * Period

OldAgain(T, s, K) ==
    /\ s >= (K + call.old.pend) * Period
    /\ call.now.ticks = LOAD - (s % Period)
    /\ call.op = "count" /\ call.now.pend = call.old.pend /\ K = counted(T) =>
         s < (K + call.old.pend + 1) * Period

OldReads(T, t, K) ==
    /\ OldRead(T, t, K)
    /\ call.op \in {"pend", "count"} => \E s \in Int : s <= T /\ OldAgain(T, s, K)

OldInv(T) ==
    call.op \in {"ticks", "pend", "count"} /\ call.old.ticks # -1 =>
        \E t \in T - elapsed .. T : \E K \in Int : OldReads(T, t, K)

\* The value micros returns is that of a moment X of the call, unless the call
\* took so long that every value is.
ResultInv(T) ==
    call.op = "micros" /\ elapsed <= (Word - 1) * Period =>
        \E X \in T - elapsed .. T : call.value = (X \div CyclesPerUs) % Word

Moment(T) ==
    /\ Present(T)
    /\ elapsed < Horizon => NowInv(T) /\ OldInv(T) /\ ResultInv(T)

MicrosInv == \E T \in Nat : Moment(T)

\* The reading of a period that is due, and the moments that belong to it.
LEMMA TicksDueBounds ==
    ASSUME NEW t \in Int
    PROVE  /\ ticksDue(t) \in Int
           /\ ticksDue(t) * Period <= t + 1
           /\ t + 1 < (ticksDue(t) + 1) * Period
<1> DEFINE P == Period  a == t + 1  q == a \div P
<1>1. P \in Nat \ {0} /\ a \in Int
  BY Constants
<1> HIDE DEF P, a
<1>2. q \in Int /\ a % P \in 0 .. P - 1 /\ a = P * q + (a % P)
  BY <1>1, ModRange
<1> HIDE DEF q
<1>3. P * q \in Int /\ q * P = P * q /\ (q + 1) * P = P * q + P
  BY <1>1, <1>2
<1>4. q * P <= a /\ a < (q + 1) * P
  BY <1>1, <1>2, <1>3
<1> QED
  BY <1>2, <1>4 DEF ticksDue, P, q, a

\* The moments between one tick and the next.
LEMMA TicksDueUnique ==
    ASSUME NEW t \in Int, NEW q \in Int, q * Period <= t + 1, t + 1 < (q + 1) * Period
    PROVE  ticksDue(t) = q
<1> DEFINE P == Period  r == t + 1 - P * q
<1>1. P \in Nat \ {0} /\ P * q \in Int /\ q * P = P * q /\ (q + 1) * P = P * q + P
  BY Constants
<1>2. r \in 0 .. P - 1 /\ t + 1 = P * q + r
  BY <1>1
<1> HIDE DEF P, r
<1>3. (P * q + r) \div P = q
  BY <1>1, <1>2, DivUnique
<1> QED
  BY <1>2, <1>3 DEF ticksDue, P

LEMMA TicksDueGrow ==
    ASSUME NEW s \in Int, NEW t \in Int, s <= t
    PROVE  ticksDue(s) <= ticksDue(t) /\ s \div Period <= ticksDue(t)
<1>1. s + 1 <= t + 1 /\ s <= t + 1 /\ s + 1 \in Int /\ t + 1 \in Int
  OBVIOUS
<1> QED
  BY <1>1, DivMonotone, Constants DEF ticksDue

\* The counter at the present moment.
LEMMA CounterAt ==
    ASSUME NEW T \in Nat, Present(T)
    PROVE  VAL = LOAD - (T % Period) /\ T % Period \in 0 .. LOAD
<1> DEFINE P == Period  H == Horizon
<1>1. P \in Nat \ {0} /\ H \in Nat \ {0} /\ LOAD = P - 1 /\ T \in Int
  BY Constants
<1>2. H % P = 0
  <2>1. (P * Word + 0) % P = 0
    BY <1>1, ModUnique, ClockAssumption
  <2>2. H = P * Word + 0
    BY <1>1, ClockAssumption DEF Horizon
  <2> QED
    BY <2>1, <2>2
<1> HIDE DEF P, H
<1>3. (T % H) % P = T % P
  BY <1>1, <1>2, ModOfMod
<1>4. T % P \in 0 .. P - 1
  BY <1>1, ModRange
<1> QED
  BY <1>1, <1>3, <1>4 DEF VAL, Present, P, H

\* A tick becomes due one cycle before the counter reloads.
LEMMA TickWhenDue ==
    ASSUME NEW T \in Nat, Present(T)
    PROVE  ticksDue(T + 1) = ticksDue(T) + (IF VAL = 1 THEN 1 ELSE 0)
<1> DEFINE P == Period  q == T \div P  r == T % P
<1>1. P \in Nat /\ P > 1 /\ LOAD = P - 1
  BY Constants, ClockAssumption DEF Period
<1>2. q \in Int /\ r \in 0 .. P - 1 /\ T = P * q + r /\ VAL = P - 1 - r
  BY <1>1, CounterAt, ModRange
<1>3. P * q \in Int /\ q * P = P * q /\ (q + 1) * P = P * q + P
      /\ (q + 1 + 1) * P = P * q + P + P
  BY <1>1, <1>2
<1>4. \A t \in Int, k \in Int :
         k * P <= t + 1 /\ t + 1 < (k + 1) * P => ticksDue(t) = k
  BY TicksDueUnique
<1> HIDE DEF P, q, r
<1>5. CASE r = P - 1
  <2>1. ticksDue(T) = q + 1 /\ ticksDue(T + 1) = q + 1
    BY <1>1, <1>2, <1>3, <1>4, <1>5
  <2> QED
    BY <1>1, <1>2, <1>5, <2>1
<1>6. CASE r = P - 2
  <2>1. ticksDue(T) = q /\ ticksDue(T + 1) = q + 1
    BY <1>1, <1>2, <1>3, <1>4, <1>6
  <2> QED
    BY <1>1, <1>2, <1>6, <2>1
<1>7. CASE r < P - 2
  <2>1. ticksDue(T) = q /\ ticksDue(T + 1) = q
    BY <1>1, <1>2, <1>3, <1>4, <1>7
  <2> QED
    BY <1>1, <1>2, <1>7, <2>1
<1> QED
  BY <1>1, <1>2, <1>5, <1>6, <1>7

\* How the present and the ticks counted go on.
LEMMA CountedTypes ==
    ASSUME TypeOK, NEW T \in Int
    PROVE  counted(T) \in Int /\ pend01 \in {0, 1} /\ elapsed \in Nat
           /\ ticksDue(T) \in Int /\ Period \in Nat /\ Period > 1 /\ LOAD = Period - 1
<1>1. pend01 \in {0, 1} /\ ticksDue(T) \in Int
  BY TicksDueBounds DEF pend01
<1> QED
  BY <1>1, Constants, ClockAssumption DEF TypeOK, counted, Period

LEMMA PresentCycle ==
    ASSUME TypeOK, NEW T \in Nat, Present(T), Cycle, NEW U \in Nat, U = T + 1
    PROVE  Present(U)' /\ counted(U)' = counted(T)
<1>1. counted(U)' = counted(T)
  <2>1. ticksDue(T + 1) = ticksDue(T) + (IF VAL = 1 THEN 1 ELSE 0)
    BY TickWhenDue
  <2>2. ticksDue(T) \in Int
    BY TicksDueBounds
  <2>3. pend01' = pend01 + (IF VAL = 1 THEN 1 ELSE 0) /\ pend01 \in {0, 1}
    <3>1. CASE VAL = 1
      <4>1. pendst = FALSE /\ pendst' = TRUE
        BY <3>1 DEF Cycle, tickWouldBeLost, TypeOK
      <4> QED
        BY <3>1, <4>1 DEF pend01
    <3>2. CASE VAL # 1
      BY <3>2 DEF Cycle, TypeOK, pend01
    <3> QED
      BY <3>1, <3>2
  <2> QED
    BY <2>1, <2>2, <2>3 DEF counted
<1>2. time' = U % Horizon
  <2> DEFINE H == Horizon
  <2>1. H \in Nat \ {0} /\ T \in Int
    BY Constants
  <2> HIDE DEF H
  <2>2. ((T % H) + 1) % H = (T + 1) % H
    BY <2>1, ModSuccessor
  <2> QED
    BY <2>2 DEF Present, Cycle, H
<1>3. elapsed' <= U
  BY Constants DEF Cycle, Present, TypeOK
<1> QED
  BY <1>1, <1>2, <1>3 DEF Present, Cycle

LEMMA PresentHandler ==
    ASSUME TypeOK, NEW T \in Nat, Present(T), SysTick_Handler
    PROVE  Present(T)' /\ counted(T)' = counted(T) + 1
<1>1. counted(T)' = counted(T) + 1 /\ counted(T) \in Int
  <2>1. pend01 = 1 /\ pend01' = 0
    BY DEF SysTick_Handler, taken, pend01
  <2>2. ticksDue(T) \in Int
    BY TicksDueBounds
  <2> QED
    BY <2>1, <2>2 DEF counted
<1>2. ((counted(T) % Word) + 1) % Word = (counted(T) + 1) % Word
  <2> DEFINE c == counted(T)
  <2>1. c \in Int /\ Word \in Nat \ {0}
    BY <1>1, ClockAssumption
  <2> HIDE DEF c
  <2>2. ((c % Word) + 1) % Word = (c + 1) % Word
    BY <2>1, ModSuccessor
  <2> QED
    BY <2>2 DEF c
<1> QED
  BY <1>1, <1>2 DEF Present, SysTick_Handler

\* The other steps take no time.
LEMMA PresentStays ==
    ASSUME TypeOK, NEW T \in Nat, Present(T),
           UNCHANGED <<time, pendst, _ulTickCount>>, elapsed' \in {elapsed, 0}
    PROVE  Present(T)' /\ counted(T)' = counted(T)
  BY DEF Present, counted, pend01, TypeOK

-------------------------------------------------------------------------------
(* The steps between those of the caller. *)

LEMMA CycleMoment ==
    ASSUME TypeOK, NEW T \in Nat, Moment(T), Cycle, NEW U \in Nat, U = T + 1
    PROVE  Moment(U)'
<1>a. Present(U)' /\ counted(U)' = counted(T)
  BY PresentCycle DEF Moment
<1> SUFFICES ASSUME elapsed' < Horizon
             PROVE  (NowInv(U) /\ OldInv(U) /\ ResultInv(U))'
  BY <1>a DEF Moment
<1>b. call' = call /\ held' = held /\ (pendst => pendst') /\ call.op # "micros"
  BY DEF Cycle
<1>1. CASE call = Idle
  BY <1>1, <1>b DEF NowInv, OldInv, ResultInv, Idle
<1>2. CASE call # Idle
  <2>1. /\ elapsed' = elapsed + 1 /\ ticked' = TRUE /\ elapsed < Horizon
        /\ elapsed \in Nat /\ U - elapsed' = T - elapsed
    BY <1>2, Constants DEF Cycle, TypeOK
  <2>2. NowInv(T) /\ OldInv(T)
    BY <2>1 DEF Moment
  <2>3. ResultInv(U)'
    BY <1>b DEF ResultInv
  <2>4. NowInv(U)'
    <3>1. ASSUME call.op \in {"pend", "count"}
          PROVE  \E t \in U - elapsed' .. U : NowRead(U, t)'
      <4>1. PICK t \in T - elapsed .. T : NowRead(T, t)
        BY <2>2, <3>1 DEF NowInv
      <4>2. t \in U - elapsed' .. U
        BY <2>1
      <4>3. NowRead(U, t)'
        BY <1>a, <1>b, <4>1 DEF NowRead
      <4> QED
        BY <4>2, <4>3
    <3>2. call.op = "count" /\ call.now.pend = 1 => pendst' /\ held' = "caller"
      BY <1>b, <2>2 DEF NowInv
    <3>3. /\ call'.op \in {"pend", "count"} =>
               \E t \in U - elapsed' .. U : NowRead(U, t)'
          /\ call'.op = "count" /\ call'.now.pend = 1 => pendst' /\ held' = "caller"
      BY <1>b, <3>1, <3>2
    <3> QED
      BY <3>3 DEF NowInv
  <2>5. OldInv(U)'
    <3> SUFFICES ASSUME call.op \in {"ticks", "pend", "count"}, call.old.ticks # -1
                 PROVE  \E t \in U - elapsed' .. U : \E K \in Int :
                            OldReads(U, t, K)'
      BY <1>b DEF OldInv
    <3>1. PICK t \in T - elapsed .. T : \E K \in Int : OldReads(T, t, K)
      BY <2>2 DEF OldInv
    <3>2. PICK K \in Int : OldReads(T, t, K)
      BY <3>1
    <3>3. t \in U - elapsed' .. U
      BY <2>1
    <3>4. OldRead(U, t, K)'
      <4>1. ASSUME call.op = "ticks"
            PROVE  U >= (K + call.old.pend) * Period
                   /\ U >= (K + call.old.pend) * Period - 1
        <5> DEFINE x == (K + call.old.pend) * Period
        <5>1. call.old.pend \in Int
          BY <4>1 DEF TypeOK, Calls, Reading, Idle
        <5>2. x \in Int /\ T >= x - 1
          BY <3>2, <4>1, <5>1, Constants DEF OldReads, OldRead
        <5> HIDE DEF x
        <5>3. U >= x /\ U >= x - 1
          BY <5>2
        <5> QED
          BY <5>3 DEF x
      <4>2. OldRead(T, t, K)
        BY <3>2 DEF OldReads
      <4>3. U - elapsed' + 1 = T - elapsed + 1
        BY <2>1
      <4> QED
        BY <1>a, <1>b, <2>1, <4>1, <4>2, <4>3 DEF OldRead
    <3>5. ASSUME NEW s \in Int, s <= T, OldAgain(T, s, K)
          PROVE  s <= U /\ OldAgain(U, s, K)'
      BY <1>a, <1>b, <3>5 DEF OldAgain
    <3>6. OldReads(U, t, K)'
      BY <1>b, <3>2, <3>4, <3>5 DEF OldReads
    <3> QED
      BY <3>3, <3>6
  <2> QED
    BY <2>3, <2>4, <2>5
<1> QED
  BY <1>1, <1>2

\* The types of what a call of micros has read.
LEMMA ReadTypes ==
    ASSUME TypeOK
    PROVE  /\ call.op \in {"ticks", "pend", "count"} => call.old \in Reading
           /\ call.op \in {"pend", "count"} => call.now \in Reading
           /\ call.op \in {"ticks", "pend", "count", "micros"} => call # Idle
  BY DEF TypeOK, Calls, Idle

\* A step that leaves the call alone, and takes no time: the handler may count
\* a tick unless it is held off.
LEMMA AsideMoment ==
    ASSUME TypeOK, NEW T \in Nat, Moment(T), Present(T)',
           UNCHANGED <<call, elapsed, ticked>>,
           \/ /\ counted(T)' = counted(T)
              /\ call # Idle /\ held = "caller" => held' = "caller" /\ (pendst => pendst')
           \/ counted(T)' = counted(T) + 1 /\ held # "caller"
    PROVE  Moment(T)'
<1> SUFFICES ASSUME elapsed < Horizon
             PROVE  NowInv(T)' /\ OldInv(T)' /\ ResultInv(T)'
  BY DEF Moment
<1>1. NowInv(T) /\ OldInv(T) /\ ResultInv(T)
  BY DEF Moment
<1>2. counted(T) \in Int /\ counted(T)' >= counted(T) /\ counted(T)' \in Int
  BY CountedTypes
<1>3. ResultInv(T)'
  BY <1>1 DEF ResultInv
<1>4. NowInv(T)'
  <2>1. ASSUME NEW t \in T - elapsed .. T, NowRead(T, t), call.op \in {"pend", "count"}
        PROVE  NowRead(T, t)'
    <3>1. ASSUME call.op = "count"
          PROVE  t \div Period <= counted(T)' + call.now.pend
      <4>1. call.now.pend \in Int
        BY <3>1, ReadTypes DEF Reading
      <4>2. t \div Period \in Int
        BY ModRange, Constants, CountedTypes
      <4>3. t \div Period <= counted(T) + call.now.pend
        BY <2>1, <3>1 DEF NowRead
      <4> HIDE DEF counted
      <4> QED
        BY <1>2, <4>1, <4>2, <4>3
    <3> QED
      BY <2>1, <3>1 DEF NowRead
  <2>2. call.op \in {"pend", "count"} => \E t \in T - elapsed .. T : NowRead(T, t)'
    BY <1>1, <2>1 DEF NowInv
  <2>3. call.op = "count" /\ call.now.pend = 1 => pendst' /\ held' = "caller"
    BY <1>1, ReadTypes DEF NowInv
  <2> QED
    BY <2>2, <2>3 DEF NowInv
<1>5. OldInv(T)'
  <2> SUFFICES ASSUME call.op \in {"ticks", "pend", "count"}, call.old.ticks # -1
               PROVE  \E t \in T - elapsed .. T : \E K \in Int : OldReads(T, t, K)'
    BY DEF OldInv
  <2>1. PICK t \in T - elapsed .. T : \E K \in Int : OldReads(T, t, K)
    BY <1>1 DEF OldInv
  <2>2. PICK K \in Int : OldReads(T, t, K)
    BY <2>1
  <2>3. OldRead(T, t, K)'
    <3>1. OldRead(T, t, K)
      BY <2>2 DEF OldReads
    <3>2. K <= counted(T)'
      BY <1>2, <3>1 DEF OldRead
    <3>3. \/ held' = "caller" /\ K = counted(T)'
          \/ (K + 1) * Period > T - elapsed + 1
      BY <3>1, ReadTypes DEF OldRead
    <3> QED
      BY <3>1, <3>2, <3>3 DEF OldRead
  <2>4. ASSUME NEW s \in Int, OldAgain(T, s, K)
        PROVE  OldAgain(T, s, K)'
    <3>1. K = counted(T)' => K = counted(T)
      <4>1. K <= counted(T)
        BY <2>2 DEF OldReads, OldRead
      <4> QED
        BY <1>2, <4>1
    <3> QED
      BY <2>4, <3>1 DEF OldAgain
  <2>5. OldReads(T, t, K)'
    BY <2>2, <2>3, <2>4 DEF OldReads
  <2> QED
    BY <2>5
<1> QED
  BY <1>3, <1>4, <1>5

-------------------------------------------------------------------------------
(* The steps of micros. *)

\* micros reads the counter, for the first time.
LEMMA BeginMoment ==
    ASSUME TypeOK, NEW T \in Nat, Moment(T), MicrosBegin
    PROVE  Moment(T)'
<1>1. Present(T)' /\ elapsed' = 0 /\ call'.op = "pend" /\ call'.old.ticks = -1
      /\ call'.now.ticks = VAL
  BY PresentStays DEF MicrosBegin, begins, Moment, NoRead
<1>2. VAL = LOAD - (T % Period)
  BY CounterAt DEF Moment
<1>3. T \in T - elapsed' .. T
  BY <1>1
<1>4. NowRead(T, T)'
  BY <1>1, <1>2 DEF NowRead
<1>5. NowInv(T)'
  BY <1>1, <1>3, <1>4 DEF NowInv
<1>6. OldInv(T)' /\ ResultInv(T)'
  BY <1>1 DEF OldInv, ResultInv
<1> QED
  BY <1>1, <1>5, <1>6 DEF Moment

\* It finds the tick pending only where it holds off the handler itself.
LEMMA PendMoment ==
    ASSUME TypeOK, NEW T \in Nat, Moment(T), MicrosPend
    PROVE  Moment(T)'
<1>1. /\ Present(T)' /\ counted(T)' = counted(T)
      /\ UNCHANGED <<elapsed, held, pendst>> /\ call.op = "pend"
  BY PresentStays DEF MicrosPend, steps, Moment
<1>2. PICK old \in Reading, now \in Reading :
         call = [op |-> "pend", old |-> old, now |-> now]
  BY <1>1 DEF TypeOK, Calls, Idle
<1>3. /\ call'.op = "count" /\ call'.old = call.old
      /\ call'.now.ticks = call.now.ticks /\ call'.now.pend = pend01
  BY <1>2 DEF MicrosPend, pend01, Reading
<1> SUFFICES ASSUME elapsed < Horizon
             PROVE  NowInv(T)' /\ OldInv(T)' /\ ResultInv(T)'
  BY <1>1 DEF Moment
<1>4. NowInv(T) /\ OldInv(T)
  BY DEF Moment
<1>5. /\ counted(T) \in Int /\ pend01 \in {0, 1} /\ ticksDue(T) \in Int
      /\ counted(T) + pend01 = ticksDue(T)
  BY CountedTypes DEF counted
<1>6. NowInv(T)'
  <2>1. PICK t \in T - elapsed .. T : NowRead(T, t)
    BY <1>1, <1>4 DEF NowInv
  <2>2. t \div Period <= ticksDue(T)
    BY TicksDueGrow, CountedTypes
  <2>3. NowRead(T, t)'
    BY <1>1, <1>3, <1>5, <2>1, <2>2 DEF NowRead
  <2>4. pend01 = 1 => pendst' /\ held' = "caller"
    BY <1>1 DEF MicrosPend, steps, callerRuns, taken, pend01, TypeOK
  <2>5. \E u \in T - elapsed' .. T : NowRead(T, u)'
    BY <1>1, <2>3
  <2> QED
    BY <1>3, <2>4, <2>5 DEF NowInv
<1>7. OldInv(T)'
  <2> SUFFICES ASSUME call.old.ticks # -1
               PROVE  \E t \in T - elapsed' .. T : \E K \in Int : OldReads(T, t, K)'
    BY <1>3 DEF OldInv
  <2>1. PICK t \in T - elapsed .. T : \E K \in Int : OldReads(T, t, K)
    BY <1>1, <1>4 DEF OldInv
  <2>2. PICK K \in Int : OldReads(T, t, K)
    BY <2>1
  <2>3. PICK s \in Int : s <= T /\ OldAgain(T, s, K)
    BY <1>1, <2>2 DEF OldReads
  <2>4. OldRead(T, t, K)'
    BY <1>1, <1>3, <2>2 DEF OldReads, OldRead
  <2>5. ASSUME pend01 = call.old.pend, K = counted(T)
        PROVE  s < (K + call.old.pend + 1) * Period
    <3>1. T + 1 < (ticksDue(T) + 1) * Period
      BY TicksDueBounds
    <3>2. K + call.old.pend = ticksDue(T)
      BY <1>5, <2>5
    <3> DEFINE x == (ticksDue(T) + 1) * Period
    <3>3. x \in Int
      BY <1>5, CountedTypes
    <3> HIDE DEF x
    <3>4. s < x
      BY <2>3, <3>1, <3>3 DEF x
    <3> QED
      BY <3>2, <3>4 DEF x
  <2>6. OldAgain(T, s, K)'
    BY <1>1, <1>3, <2>3, <2>5 DEF OldAgain
  <2>7. OldReads(T, t, K)'
    BY <1>3, <2>3, <2>4, <2>6 DEF OldReads
  <2> QED
    BY <1>1, <2>7
<1>8. ResultInv(T)'
  BY <1>3 DEF ResultInv
<1> QED
  BY <1>6, <1>7, <1>8

\* It reads the count, and goes round again: the readings become the old ones.
LEMMA AgainMoment ==
    ASSUME TypeOK, NEW T \in Nat, Moment(T), MicrosAgain
    PROVE  Moment(T)'
<1>1. /\ Present(T)' /\ counted(T)' = counted(T)
      /\ UNCHANGED <<elapsed, held, pendst>> /\ call.op = "count" /\ ticked' = FALSE
  BY PresentStays DEF MicrosAgain, steps, Moment
<1>2. call' = [op |-> "ticks", old |-> reading]
  BY DEF MicrosAgain
<1>3. /\ call'.op = "ticks" /\ call'.old.ticks = call.now.ticks
      /\ call'.old.pend = call.now.pend /\ call'.old.count = _ulTickCount
      /\ call.now.pend \in {0, 1}
  BY <1>1, <1>2, ReadTypes DEF reading, Reading
<1> SUFFICES ASSUME elapsed < Horizon
             PROVE  NowInv(T)' /\ OldInv(T)' /\ ResultInv(T)'
  BY <1>1 DEF Moment
<1>4. NowInv(T)' /\ ResultInv(T)'
  BY <1>3 DEF NowInv, ResultInv
<1>5. NowInv(T)
  BY DEF Moment
<1>6. PICK t \in T - elapsed .. T : NowRead(T, t)
  BY <1>1, <1>5 DEF NowInv
<1>a. PICK K \in Int : K = counted(T)
  BY CountedTypes
<1>7. /\ K \in Int /\ pend01 \in {0, 1} /\ ticksDue(T) \in Int /\ Period \in Nat
      /\ K = ticksDue(T) - pend01 /\ elapsed \in Nat
  BY <1>a, CountedTypes DEF counted
<1>8. /\ ticksDue(T) * Period <= T + 1
      /\ T + 1 < (ticksDue(T) + 1) * Period
  BY TicksDueBounds
<1>9. call.now.pend = 1 => pend01 = 1 /\ held = "caller"
  BY <1>1, <1>5 DEF NowInv, pend01
<1>10. held = "caller" \/ (K + 1) * Period > T - elapsed + 1
  <2>1. CASE held = "no"
    <3>1. pend01 = 0 /\ K + 1 = ticksDue(T) + 1
      BY <1>7, <2>1 DEF MicrosAgain, steps, callerRuns, taken, pend01
    <3> DEFINE x == (ticksDue(T) + 1) * Period
    <3>2. x \in Int /\ (K + 1) * Period = x
      BY <1>7, <3>1
    <3> HIDE DEF x
    <3>3. T - elapsed + 1 < x
      BY <1>7, <1>8, <3>2 DEF x
    <3> QED
      BY <3>2, <3>3, <1>7
  <2>2. held # "isr"
    BY DEF MicrosAgain, steps, callerRuns
  <2> QED
    BY <2>1, <2>2 DEF TypeOK
<1>11. T >= (K + call.now.pend) * Period - 1
  <2>1. K + call.now.pend <= ticksDue(T)
    BY <1>3, <1>7, <1>9
  <2>2. K + call.now.pend \in Int
    BY <1>3, <1>7
  <2>3. (K + call.now.pend) * Period <= ticksDue(T) * Period
    BY <1>7, <2>1, <2>2, TimesMonotone
  <2>4. (K + call.now.pend) * Period \in Int /\ ticksDue(T) * Period \in Int
    BY <1>7, <2>2
  <2> QED
    BY <1>8, <2>3, <2>4
<1>12. OldRead(T, t, K)'
  <2>1. /\ call.now.ticks = LOAD - (t % Period)
        /\ t \div Period <= K + call.now.pend
    BY <1>1, <1>6, <1>a DEF NowRead
  <2>2. _ulTickCount = K % Word
    BY <1>a DEF Moment, Present
  <2>3. K = counted(T)' /\ K <= counted(T)'
    BY <1>1, <1>7, <1>a
  <2> QED
    BY <1>1, <1>3, <1>10, <1>11, <2>1, <2>2, <2>3 DEF OldRead
<1>13. OldReads(T, t, K)'
  BY <1>3, <1>12 DEF OldReads
<1>14. OldInv(T)'
  <2>1. \E u \in T - elapsed' .. T : \E k \in Int : OldReads(T, u, k)'
    BY <1>1, <1>7, <1>13
  <2> QED
    BY <2>1 DEF OldInv
<1> QED
  BY <1>4, <1>14

\* It reads the counter again: by now a period that the old readings counted
\* as ended has ended.
LEMMA TicksMoment ==
    ASSUME TypeOK, NEW T \in Nat, Moment(T), MicrosTicks
    PROVE  Moment(T)'
<1>1. /\ Present(T)' /\ counted(T)' = counted(T)
      /\ UNCHANGED <<elapsed, held, pendst>> /\ call.op = "ticks"
      /\ (ticked \/ tickWouldBeLost)
  BY PresentStays DEF MicrosTicks, steps, Moment
<1>2. /\ call'.op = "pend" /\ call'.old = call.old
      /\ call'.now.ticks = LOAD - (T % Period)
  <2>1. VAL = LOAD - (T % Period)
    BY CounterAt DEF Moment
  <2> QED
    BY <2>1 DEF MicrosTicks, NoRead
<1> SUFFICES ASSUME elapsed < Horizon
             PROVE  NowInv(T)' /\ OldInv(T)' /\ ResultInv(T)'
  BY <1>1 DEF Moment
<1>3. ResultInv(T)'
  BY <1>2 DEF ResultInv
<1>4. NowInv(T)'
  <2>1. T \in T - elapsed' .. T
    BY <1>1, CountedTypes
  <2>2. NowRead(T, T)'
    BY <1>2 DEF NowRead
  <2> QED
    BY <1>2, <2>1, <2>2 DEF NowInv
<1>5. OldInv(T)'
  <2> SUFFICES ASSUME call.old.ticks # -1
               PROVE  \E t \in T - elapsed' .. T : \E K \in Int : OldReads(T, t, K)'
    BY <1>2 DEF OldInv
  <2>1. OldInv(T)
    BY DEF Moment
  <2>2. PICK t \in T - elapsed .. T : \E K \in Int : OldReads(T, t, K)
    BY <1>1, <2>1 DEF OldInv
  <2>3. PICK K \in Int : OldReads(T, t, K)
    BY <2>2
  <2>4. OldRead(T, t, K)
    BY <2>3 DEF OldReads
  <2> DEFINE k == K + call.old.pend  x == k * Period
  <2>5. k \in Int /\ x \in Int /\ Period \in Nat /\ Period > 1 /\ LOAD = Period - 1
    <3>1. call.old.pend \in Int
      BY <1>1, ReadTypes DEF Reading
    <3> QED
      BY <3>1, CountedTypes
  <2>6. T >= x
    <3>1. T >= x - 1 /\ (ticked => T >= x)
      BY <1>1, <2>4 DEF OldRead
    <3>2. CASE tickWouldBeLost
      <4>1. T % Period = Period - 2
        <5>1. VAL = 1 /\ VAL = LOAD - (T % Period) /\ T % Period \in 0 .. LOAD
          BY <3>2, CounterAt DEF tickWouldBeLost, Moment
        <5> QED
          BY <2>5, <5>1
      <4>2. T # x - 1
        <5> SUFFICES ASSUME T = x - 1
                     PROVE  FALSE
          OBVIOUS
        <5> DEFINE P == Period
        <5>1. P \in Nat \ {0} /\ k - 1 \in Int /\ P - 1 \in 0 .. P - 1
          BY <2>5
        <5>2. T = P * (k - 1) + (P - 1)
          <6>1. P * (k - 1) = k * P - P /\ k * P \in Int
            BY <2>5
          <6> QED
            BY <2>5, <6>1
        <5> HIDE DEF P, k
        <5>3. (P * (k - 1) + (P - 1)) % P = P - 1
          BY <5>1, ModUnique
        <5>4. T % P = P - 2
          BY <4>1 DEF P
        <5> QED
          BY <5>1, <5>2, <5>3, <5>4
      <4> HIDE DEF x
      <4> QED
        BY <2>5, <3>1, <4>2
    <3> HIDE DEF x
    <3> QED
      BY <1>1, <3>1, <3>2
  <2>7. OldRead(T, t, K)'
    BY <1>1, <1>2, <2>4 DEF OldRead
  <2>8. OldAgain(T, T, K)'
    BY <1>2, <2>6 DEF OldAgain
  <2>9. OldReads(T, t, K)'
    BY <2>7, <2>8 DEF OldReads
  <2> QED
    BY <1>1, <2>9
<1> QED
  BY <1>3, <1>4, <1>5

\* The microseconds at a moment r of the m-th period.
LEMMA MicrosAt ==
    ASSUME NEW m \in Int, NEW r \in 0 .. LOAD
    PROVE  /\ (m * Period + r) \div CyclesPerUs = m * UsPerMs + (r \div CyclesPerUs)
           /\ r \div CyclesPerUs \in Int
<1> DEFINE C == CyclesPerUs  a == r \div C  b == r % C
<1>1. C \in Nat \ {0} /\ UsPerMs \in Nat /\ r \in Int
  BY ClockAssumption, Constants
<1>2. a \in Int /\ b \in 0 .. C - 1 /\ r = C * a + b
  BY <1>1, ModRange
<1>3. m * Period = C * (m * UsPerMs)
  BY <1>1 DEF Period
<1> HIDE DEF C, a, b
<1>4. m * UsPerMs \in Int
  BY <1>1
<1> DEFINE n == m * UsPerMs
<1> HIDE DEF n
<1>5. C * (n + a) = C * n + C * a /\ C * n \in Int /\ C * a \in Int
  BY <1>1, <1>2, <1>4 DEF n
<1>6. m * Period + r = C * (n + a) + b
  BY <1>2, <1>3, <1>5 DEF n
<1>7. (C * (n + a) + b) \div C = n + a
  BY <1>1, <1>2, <1>4, DivUnique DEF n
<1> QED
  BY <1>2, <1>6, <1>7 DEF n, a, C

\* Two rounds that found the same ticks, and a counter that had not been
\* reloaded, belong to one period: the old readings name a moment of the call.
LEMMA ReturnMoment ==
    ASSUME TypeOK, NEW T \in Nat, Moment(T), MicrosReturn
    PROVE  Moment(T)'
<1>1. /\ Present(T)' /\ counted(T)' = counted(T)
      /\ UNCHANGED elapsed /\ call.op = "count" /\ stable
      /\ call'.op = "micros" /\ call'.value = microsOf(call.old)
  BY PresentStays DEF MicrosReturn, steps, Moment
<1>2. NowInv(T)' /\ OldInv(T)'
  BY <1>1 DEF NowInv, OldInv
<1> SUFFICES ASSUME elapsed < Horizon, elapsed <= (Word - 1) * Period
             PROVE  \E X \in T - elapsed .. T :
                        microsOf(call.old) = (X \div CyclesPerUs) % Word
  BY <1>1, <1>2 DEF Moment, ResultInv
<1> DEFINE p == call.old.pend
<1>3. /\ call.old \in Reading /\ call.now \in Reading /\ p \in {0, 1}
      /\ call.old.ticks # -1 /\ call.now.pend = p
      /\ call.old.count = _ulTickCount /\ call.old.ticks >= call.now.ticks
  BY <1>1, ReadTypes DEF stable, reading, Reading
<1>4. PICK t \in T - elapsed .. T : \E k \in Int : OldReads(T, t, k)
  BY <1>1, <1>3 DEF Moment, OldInv
<1>5. PICK K \in Int : OldReads(T, t, K)
  BY <1>4
<1>6. PICK s \in Int : s <= T /\ OldAgain(T, s, K)
  BY <1>1, <1>5 DEF OldReads
<1>a. PICK c \in Int : c = counted(T)
  BY CountedTypes
<1>7. /\ call.old.ticks = LOAD - (t % Period) /\ t \div Period <= K + p
      /\ call.old.count = K % Word /\ K <= c
      /\ K = c \/ (K + 1) * Period > T - elapsed + 1
  BY <1>5, <1>a DEF OldReads, OldRead
<1>8. /\ Period \in Nat \ {0} /\ LOAD = Period - 1 /\ Word \in Nat \ {0}
      /\ elapsed \in Nat /\ t \in Int
  BY Constants, ClockAssumption, CountedTypes
<1>9. K = c
  <2>1. c % Word = K % Word
    BY <1>3, <1>7, <1>a DEF Moment, Present
  <2>2. c < K + Word
    <3> SUFFICES ASSUME c >= K + Word, (K + 1) * Period > T - elapsed + 1
                 PROVE  FALSE
      BY <1>7, <1>8
    <3>1. c <= ticksDue(T) /\ ticksDue(T) \in Int
      BY <1>a, CountedTypes DEF counted
    <3>2. (K + Word) * Period <= ticksDue(T) * Period
      <4>1. K + Word <= ticksDue(T) /\ K + Word \in Int
        BY <1>8, <3>1
      <4> QED
        BY <1>8, <3>1, <4>1, TimesMonotone
    <3>3. ticksDue(T) * Period <= T + 1
      BY TicksDueBounds
    <3>4. /\ (K + Word) * Period = (K + 1) * Period + (Word - 1) * Period
          /\ (K + 1) * Period \in Int /\ (Word - 1) * Period \in Int
          /\ ticksDue(T) * Period \in Int
      BY <1>8, <3>1
    <3> QED
      BY <1>8, <3>2, <3>3, <3>4
  <2> QED
    BY <1>7, <1>8, <2>1, <2>2, ModEqual
<1> DEFINE m == K + p  r == t % Period  X == m * Period + r
<1>10. m \in Int /\ r \in 0 .. LOAD /\ t \div Period \in Int /\ X \in Int
       /\ m * Period \in Int /\ t = Period * (t \div Period) + r
  BY <1>3, <1>8, ModRange
<1>11. s >= m * Period /\ s < (m + 1) * Period /\ r <= s % Period
  <2>1. s >= m * Period /\ call.now.ticks = LOAD - (s % Period)
        /\ s < (m + 1) * Period
    BY <1>1, <1>3, <1>6, <1>9, <1>a DEF OldAgain
  <2>2. s % Period \in Int
    BY <1>8, ModRange
  <2> QED
    BY <1>3, <1>7, <1>8, <1>10, <2>1, <2>2
<1>12. X <= T
  <2>1. s % Period = s - m * Period
    <3> DEFINE P == Period  u == s - m * P
    <3>1. u \in 0 .. P - 1 /\ s = P * m + u
      <4>0. \A a, w \in Int : (a + 1) * w = a * w + w /\ w * a = a * w
        OBVIOUS
      <4> HIDE DEF m
      <4>1. (m + 1) * P = m * P + P /\ P * m = m * P
        BY <1>8, <1>10, <4>0
      <4>2. PICK b \in Int : b = m * P
        BY <1>10
      <4>3. s >= b /\ s < b + P /\ P * m = b /\ u = s - b
        BY <1>11, <4>1, <4>2
      <4> HIDE DEF u
      <4> QED
        BY <1>8, <4>2, <4>3
    <3> HIDE DEF u, P, m
    <3>2. (P * m + u) % P = u
      BY <1>8, <1>10, <3>1, ModUnique DEF P
    <3> QED
      BY <3>1, <3>2 DEF u, P
  <2> HIDE DEF m, r
  <2> QED
    BY <1>6, <1>10, <1>11, <2>1
<1>13. X >= T - elapsed
  <2>1. (t \div Period) * Period <= m * Period
    <3> HIDE DEF m
    <3> QED
      BY <1>7, <1>8, <1>10, TimesMonotone DEF m
  <2>2. Period * (t \div Period) = (t \div Period) * Period
        /\ (t \div Period) * Period \in Int
    BY <1>8, <1>10
  <2> HIDE DEF m, r
  <2> QED
    BY <1>8, <1>10, <2>1, <2>2
<1>14. microsOf(call.old) = (X \div CyclesPerUs) % Word
  <2>1. LOAD - call.old.ticks = r
    BY <1>7, <1>8, <1>10
  <2>2. /\ X \div CyclesPerUs = m * UsPerMs + (r \div CyclesPerUs)
        /\ r \div CyclesPerUs \in Int
    BY <1>10, MicrosAt
  <2> DEFINE q == K \div Word  a == r \div CyclesPerUs
  <2>3. q \in Int /\ K % Word \in Int /\ K = Word * q + (K % Word)
    BY <1>8, ModRange
  <2>4. microsOf(call.old) = (((K % Word) + p) * UsPerMs + a) % Word
    BY <1>7, <2>1 DEF microsOf
  <2> DEFINE j == K % Word  b == (j + p) * UsPerMs + a  e == q * UsPerMs
  <2>5. b \in Int /\ e \in Int
    BY <1>3, <2>2, <2>3, ClockAssumption
  <2>6. m * UsPerMs + a = b + Word * e
    <3>1. m = Word * q + (j + p)
      BY <1>3, <1>8, <2>3
    <3>2. /\ (Word * q + (j + p)) * UsPerMs
                 = Word * (q * UsPerMs) + (j + p) * UsPerMs
          /\ Word * (q * UsPerMs) \in Int /\ (j + p) * UsPerMs \in Int
      BY <1>3, <1>8, <2>3, ClockAssumption
    <3> HIDE DEF j, q, m, p, a
    <3> QED
      BY <2>2, <3>1, <3>2 DEF a
  <2> HIDE DEF b, e, m, a, r, X
  <2>7. (b + Word * e) % Word = b % Word
    BY <1>8, <2>5, ModShift
  <2> QED
    BY <2>2, <2>4, <2>6, <2>7 DEF a, b
<1> HIDE DEF X
<1> QED
  BY <1>8, <1>10, <1>12, <1>13, <1>14

LEMMA MomentStep ==
    ASSUME TypeOK, NEW T \in Nat, Moment(T), [Next]_vars
    PROVE  \E U \in Nat : Moment(U)'
<1> SUFFICES ASSUME ~Cycle
             PROVE  Moment(T)'
  <2>1. CASE Cycle
    <3>1. PICK U \in Nat : U = T + 1
      OBVIOUS
    <3> QED
      BY <2>1, <3>1, CycleMoment
  <2> QED
    BY <2>1
<1>a. Present(T) /\ elapsed \in Nat
  BY CountedTypes DEF Moment
<1>1. CASE SysTick_Handler
  <2>1. /\ Present(T)' /\ counted(T)' = counted(T) + 1 /\ held # "caller"
        /\ UNCHANGED <<call, elapsed, ticked>>
    BY <1>1, <1>a, PresentHandler DEF SysTick_Handler, taken
  <2> QED
    BY <2>1, AsideMoment
<1>2. CASE Mask \/ Preempt \/ Release \/ UNCHANGED vars
  <2>1. /\ Present(T)' /\ counted(T)' = counted(T)
        /\ UNCHANGED <<call, elapsed, ticked, pendst>>
    BY <1>2, <1>a, PresentStays DEF Mask, Preempt, Release, vars
  <2>2. call # Idle /\ held = "caller" => held' = "caller"
    BY <1>2 DEF Mask, Preempt, Release, vars
  <2> QED
    BY <2>1, <2>2, AsideMoment
<1>3. CASE MicrosBegin
  BY <1>3, BeginMoment
<1>4. CASE MicrosPend
  BY <1>4, PendMoment
<1>5. CASE MicrosAgain
  BY <1>5, AgainMoment
<1>6. CASE MicrosTicks
  BY <1>6, TicksMoment
<1>7. CASE MicrosReturn
  BY <1>7, ReturnMoment
<1>8. CASE \/ DelayYield \/ DelayReturn \/ Return
           \/ \E ms \in 1 .. MaxMs : DelayBegin(ms)
  <2>1. UNCHANGED <<time, pendst, _ulTickCount>> /\ elapsed' \in {elapsed, 0}
    BY <1>8 DEF DelayYield, DelayReturn, Return, DelayBegin, steps, begins
  <2>2. call'.op \notin {"ticks", "pend", "count", "micros"}
    BY <1>8 DEF DelayYield, DelayReturn, Return, DelayBegin, Idle
  <2>3. Present(T)'
    BY <1>a, <2>1, PresentStays
  <2> QED
    BY <2>2, <2>3 DEF Moment, NowInv, OldInv, ResultInv
<1> QED
  BY <1>1, <1>2, <1>3, <1>4, <1>5, <1>6, <1>7, <1>8 DEF Next, callerStep

LEMMA InitMoment == Init => MicrosInv
<1> SUFFICES ASSUME Init
             PROVE  Moment(0)
  BY DEF MicrosInv
<1>1. NowInv(0) /\ OldInv(0) /\ ResultInv(0)
  BY DEF Init, Idle, NowInv, OldInv, ResultInv
<1>2. ticksDue(0) = 0
  <2>1. 0 * Period <= 0 + 1 /\ 0 + 1 < (0 + 1) * Period
    BY Constants, ClockAssumption DEF Period
  <2> QED
    BY <2>1, TicksDueUnique
<1>3. counted(0) = 0
  BY <1>2 DEF counted, pend01, Init
<1>4. 0 % Word = 0 /\ 0 % Horizon = 0
  <2>1. (Word * 0 + 0) % Word = 0
    BY ModUnique, ClockAssumption
  <2>2. (Horizon * 0 + 0) % Horizon = 0
    BY ModUnique, Constants
  <2> QED
    BY <2>1, <2>2, ClockAssumption, Constants
<1> QED
  BY <1>1, <1>3, <1>4 DEF Moment, Present, Init

\* The microseconds that have passed, before and after the wraps.
LEMMA UsAt ==
    ASSUME NEW T \in Nat, Present(T)
    PROVE  us = (T \div CyclesPerUs) % Word /\ T \div CyclesPerUs \in Int
<1> DEFINE C == CyclesPerUs  H == Horizon  h == T \div H  n == T % H
           a == n \div C  b == n % C  g == UsPerMs * h
<1>1. /\ C \in Nat \ {0} /\ H \in Nat \ {0} /\ T \in Int /\ UsPerMs \in Nat
      /\ Word \in Nat \ {0} /\ H = C * UsPerMs * Word
  BY ClockAssumption, Constants DEF Horizon, Period
<1> HIDE DEF C, H
<1>2. h \in Int /\ n \in Int /\ T = H * h + n
  <2>1. H \in Nat \ {0} /\ T \in Int
    BY <1>1
  <2> QED
    BY <2>1, ModRange
<1> HIDE DEF h, n
<1>3. a \in Int /\ b \in 0 .. C - 1 /\ n = C * a + b
  BY <1>1, <1>2, ModRange
<1>4. H * h = C * (Word * g) /\ g \in Int
  BY <1>1, <1>2
<1> HIDE DEF a, b, g
<1>5. T = C * (a + Word * g) + b
  <2>1. Word * g \in Int
    BY <1>1, <1>4
  <2>2. C * (a + Word * g) = C * a + C * (Word * g)
        /\ C * a \in Int /\ C * (Word * g) \in Int
    BY <1>1, <1>3, <2>1
  <2> QED
    BY <1>2, <1>3, <1>4, <2>2
<1>6. T \div C = a + Word * g
  <2>1. a + Word * g \in Int
    BY <1>1, <1>3, <1>4
  <2>2. (C * (a + Word * g) + b) \div C = a + Word * g
    BY <1>1, <1>3, <2>1, DivUnique
  <2> QED
    BY <1>5, <2>2
<1>7. (a + Word * g) % Word = a % Word
  BY <1>1, <1>3, <1>4, ModShift
<1>8. a + Word * g \in Int
  BY <1>1, <1>3, <1>4
<1> QED
  BY <1>6, <1>7, <1>8 DEF us, Present, a, n, H, C

\* What micros returns lies in the call: shown from the invariant.
LEMMA MicrosInCallHolds ==
    ASSUME TypeOK, NEW T \in Nat, Moment(T)
    PROVE  MicrosInCall
<1> DEFINE C == CyclesPerUs
<1> SUFFICES ASSUME call.op = "micros"
             PROVE  (us - call.value) % Word <= (elapsed + C - 1) \div C
  BY DEF MicrosInCall
<1>1. /\ C \in Nat \ {0} /\ Word \in Nat \ {0} /\ elapsed \in Nat
      /\ Period \in Nat /\ Period >= C /\ Horizon = Period * Word
  <2>1. Period >= C
    BY ClockAssumption DEF Period
  <2> QED
    BY <2>1, ClockAssumption, CountedTypes DEF Horizon
<1>2. call.value \in Int /\ us \in Int
  <2>1. time \in Int /\ time \div C \in Int
    BY <1>1, Constants, ModRange DEF TypeOK
  <2> QED
    BY <1>1, <2>1, ModRange DEF us, TypeOK, Calls, Idle
<1>3. \A n \in Int : n * C <= elapsed + C - 1 => n <= (elapsed + C - 1) \div C
  <2> SUFFICES ASSUME NEW n \in Int, n * C <= elapsed + C - 1
               PROVE  n <= (elapsed + C - 1) \div C
    OBVIOUS
  <2> DEFINE a == n * C  b == elapsed + C - 1
  <2>1. a \in Int /\ b \in Int /\ a <= b /\ a = C * n + 0
    BY <1>1
  <2>2. (C * n + 0) \div C = n
    BY <1>1, DivUnique
  <2> HIDE DEF a, b, C
  <2>3. a \div C <= b \div C
    BY <1>1, <2>1, DivMonotone
  <2> QED
    BY <2>1, <2>2, <2>3 DEF b
<1>4. CASE elapsed > (Word - 1) * Period
  <2>1. (Word - 1) * C <= elapsed + C - 1
    <3>1. (Word - 1) * C <= (Word - 1) * Period
      BY <1>1
    <3>2. (Word - 1) * C \in Int /\ (Word - 1) * Period \in Int
      BY <1>1
    <3> QED
      BY <1>1, <1>4, <3>1, <3>2
  <2>2. Word - 1 <= (elapsed + C - 1) \div C
    BY <1>1, <1>3, <2>1
  <2>3. (us - call.value) % Word \in 0 .. Word - 1
    <3>1. us - call.value \in Int
      BY <1>2
    <3> QED
      BY <1>1, <3>1, ModRange
  <2>4. (elapsed + C - 1) \div C \in Int
    BY <1>1, ModRange
  <2> QED
    BY <1>1, <2>2, <2>3, <2>4
<1>5. CASE ~(elapsed > (Word - 1) * Period)
  <2>1. elapsed < Horizon /\ elapsed <= (Word - 1) * Period
    <3>1. (Word - 1) * Period = Horizon - Period /\ (Word - 1) * Period \in Int
          /\ Horizon \in Int
      BY <1>1
    <3> QED
      BY <1>1, <1>5, <3>1
  <2>2. PICK X \in T - elapsed .. T : call.value = (X \div C) % Word
    BY <2>1 DEF Moment, ResultInv
  <2> DEFINE A == T \div C  B == X \div C
  <2>3. us = A % Word
    BY UsAt DEF Moment
  <2>4. /\ A \in Int /\ T % C \in 0 .. C - 1 /\ T = C * A + (T % C)
        /\ B \in Int /\ X % C \in 0 .. C - 1 /\ X = C * B + (X % C)
        /\ X \in Int /\ B <= A
    <3>1. T \in Int /\ X \in Int /\ X <= T /\ C \in Nat \ {0}
      BY <1>1, <2>2
    <3> HIDE DEF C
    <3>2. A \in Int /\ T % C \in 0 .. C - 1 /\ T = C * A + (T % C)
      BY <3>1, ModRange
    <3>3. B \in Int /\ X % C \in 0 .. C - 1 /\ X = C * B + (X % C)
      BY <3>1, ModRange
    <3>4. B <= A
      BY <3>1, DivMonotone
    <3> QED
      BY <3>1, <3>2, <3>3, <3>4
  <2> HIDE DEF A, B, C
  <2>5. ((A % Word) - (B % Word)) % Word = (A - B) % Word
    <3> DEFINE q == B \div Word  r == B % Word
    <3>1. q \in Int /\ r \in Int /\ B = Word * q + r
      BY <1>1, <2>4, ModRange
    <3> HIDE DEF q, r
    <3>2. ((A % Word) - r) % Word = (A - r) % Word
      BY <1>1, <2>4, <3>1, ModDifference
    <3>3. A - r = (A - B) + Word * q /\ A - B \in Int
      BY <1>1, <2>4, <3>1
    <3>4. ((A - B) + Word * q) % Word = (A - B) % Word
      BY <1>1, <3>1, <3>3, ModShift
    <3> QED
      BY <3>2, <3>3, <3>4 DEF r
  <2>6. (A - B) % Word <= A - B
    <3> DEFINE n == A - B  q == n \div Word  r == n % Word
    <3>1. n \in Int /\ n >= 0
      BY <2>4
    <3> HIDE DEF n
    <3>2. q \in Int /\ r \in 0 .. Word - 1 /\ n = Word * q + r
      BY <1>1, <3>1, ModRange
    <3> HIDE DEF q, r
    <3>3. q >= 0
      <4> SUFFICES ASSUME q <= -1
                   PROVE  FALSE
        BY <3>2
      <4>1. Word * q <= Word * (-1)
        BY <1>1, <3>2
      <4> QED
        BY <1>1, <3>1, <3>2, <4>1
    <3>4. Word * q >= 0
      BY <1>1, <3>2, <3>3
    <3>5. r <= n
      BY <1>1, <3>1, <3>2, <3>4
    <3> QED
      BY <3>5 DEF r, n
  <2>7. (A - B) * C <= elapsed + C - 1
    <3>1. (A - B) * C = C * A - C * B /\ C * A \in Int /\ C * B \in Int
      BY <1>1, <2>4
    <3> QED
      BY <1>1, <2>2, <2>4, <3>1
  <2>8. A - B <= (elapsed + C - 1) \div C
    BY <1>3, <2>4, <2>7
  <2>9. /\ A - B \in Int /\ (A - B) % Word \in Int
        /\ (elapsed + C - 1) \div C \in Int
    BY <1>1, <2>4, ModRange
  <2> QED
    BY <2>2, <2>3, <2>5, <2>6, <2>8, <2>9 DEF B
<1> QED
  BY <1>4, <1>5

\* micros returns the time of a moment of the call, for every clock rate and
\* every width of the counts, whatever wraps or is held off (delay.c, micros).
THEOREM MicrosReturnsTheTime == Spec => []MicrosInCall
<1>1. Init => TypeOK /\ MicrosInv
  BY InitType, InitMoment
<1>2. (TypeOK /\ MicrosInv) /\ [Next]_vars => (TypeOK /\ MicrosInv)'
  <2> SUFFICES ASSUME TypeOK, MicrosInv, [Next]_vars
               PROVE  (TypeOK /\ MicrosInv)'
    OBVIOUS
  <2>1. PICK T \in Nat : Moment(T)
    BY DEF MicrosInv
  <2>2. PICK U \in Nat : Moment(U)'
    BY <2>1, MomentStep
  <2>3. MicrosInv'
    BY <2>2 DEF MicrosInv
  <2> QED
    BY <2>3, StepType
<1>3. TypeOK /\ MicrosInv => MicrosInCall
  BY MicrosInCallHolds DEF MicrosInv
<1> QED
  BY <1>1, <1>2, <1>3, PTL DEF Spec
===============================================================================
