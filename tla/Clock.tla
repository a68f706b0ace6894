-------------------------------- MODULE Clock ---------------------------------
(***************************************************************************)
(* Time, cores/arduino/delay.c: SysTick_Handler counts milliseconds in     *)
(* _ulTickCount; micros() combines that count, the SysTick counter and the *)
(* handler's pending bit, read one after the other without a lock; delay() *)
(* spins on the count.                                                     *)
(*                                                                         *)
(* SysTick counts down from LOAD to 0 and reloads; its exception becomes   *)
(* pending as the counter reaches 0.  The handler, which has the lowest    *)
(* priority, is held off by any other handler and where the caller masks   *)
(* interrupts or is a handler itself; always for less than one period, as  *)
(* a second tick while one is pending would be lost.                       *)
(***************************************************************************)
EXTENDS Integers

CONSTANTS
    CyclesPerUs,   \* VARIANT_MCK / 1000000, 64 on the boards
    UsPerMs,       \* 1000
    Word,          \* 2^w, the range of uint32_t
    MaxMs          \* bound: the longest delay asked for

ASSUME ClockAssumption ==
    /\ CyclesPerUs \in Nat \ {0} /\ UsPerMs \in Nat \ {0}
    /\ CyclesPerUs * UsPerMs > 1   \* a timer that reloads 0 does not count
    /\ Word \in Nat \ {0} /\ MaxMs \in Nat

Period  == CyclesPerUs * UsPerMs
LOAD    == Period - 1
Horizon == Period * Word        \* after so many cycles everything has wrapped

VARIABLES
    time,          \* cycles since the start, modulo Horizon
    pendst,        \* PENDSTSET
    held,          \* what holds off SysTick_Handler: nothing, the "caller",
                   \* which goes on meanwhile, or another "isr" that preempts
                   \* the caller
    _ulTickCount,
    call,          \* the call in progress: its operation, and what it has
                   \* read: now for ticks2, pend2, count2; old for ticks, pend,
                   \* count; start and ms of delay
    ticked,        \* a cycle has passed since the caller's last step
    elapsed        \* history: cycles since the call began, at most Horizon

vars == <<time, pendst, held, _ulTickCount, call, ticked, elapsed>>

VAL == LOAD - (time % Period)
us  == (time \div CyclesPerUs) % Word   \* the microseconds that have passed

NoRead == [ticks |-> -1, pend |-> 0, count |-> 0]
Idle   == [op |-> "idle"]

Init ==
    /\ time = 0 /\ pendst = FALSE /\ held = "no" /\ _ulTickCount = 0
    /\ call = Idle /\ ticked = FALSE /\ elapsed = 0

-------------------------------------------------------------------------------
(* The timer, its handler and what holds it off. *)

tickWouldBeLost == VAL = 1 /\ pendst

\* One cycle.  No tick is lost: see above.  The caller takes one for a step,
\* unless it is preempted or holds off the handler itself.
Cycle ==
    /\ call.op \notin {"micros", "delay"}
    /\ ticked => held # "no"
    /\ ~tickWouldBeLost
    /\ time' = (time + 1) % Horizon
    /\ pendst' = (pendst \/ VAL = 1)
    /\ IF call = Idle
         THEN UNCHANGED <<ticked, elapsed>>
         ELSE /\ ticked' = TRUE
              /\ elapsed' = IF elapsed < Horizon THEN elapsed + 1 ELSE elapsed
    /\ UNCHANGED <<held, _ulTickCount, call>>

taken == pendst /\ held = "no"

SysTick_Handler ==
    /\ taken
    /\ pendst' = FALSE
    /\ _ulTickCount' = (_ulTickCount + 1) % Word
    /\ UNCHANGED <<time, held, call, ticked, elapsed>>

\* The caller masks interrupts, or is a handler itself.
Mask ==
    /\ held = "no" /\ ~pendst /\ call = Idle
    /\ held' = "caller"
    /\ UNCHANGED <<time, pendst, _ulTickCount, call, ticked, elapsed>>

\* Other handlers run, for a cycle or more, between two steps of the caller.  If
\* they come together with the tick, they are taken to come just before it.
Preempt ==
    /\ held = "no" /\ ~pendst /\ ~ticked
    /\ held' = "isr"
    /\ UNCHANGED <<time, pendst, _ulTickCount, call, ticked, elapsed>>

Release ==
    /\ \/ held = "isr" /\ (ticked \/ call = Idle \/ tickWouldBeLost)
       \/ held = "caller" /\ call = Idle
    /\ held' = "no"
    /\ UNCHANGED <<time, pendst, _ulTickCount, call, ticked, elapsed>>

-------------------------------------------------------------------------------
(* The caller.  Its steps take a cycle or more, and a tick that can be    *)
(* taken is taken first.  One that holds off the handler is done before a  *)
(* tick is lost.                                                           *)

callerRuns == ~taken /\ held # "isr"

begins == call = Idle /\ callerRuns /\ ticked' = FALSE /\ elapsed' = 0
steps  == (ticked \/ tickWouldBeLost) /\ callerRuns /\ ticked' = FALSE /\ UNCHANGED elapsed

\* micros: the first of the readings, which are made in this order.
MicrosBegin ==
    /\ begins
    /\ call' = [op |-> "pend", old |-> NoRead, now |-> [NoRead EXCEPT !.ticks = VAL]]
    /\ UNCHANGED <<time, pendst, held, _ulTickCount>>

MicrosPend ==
    /\ steps /\ call.op = "pend"
    /\ call' = [call EXCEPT !.op = "count", !.now.pend = IF pendst THEN 1 ELSE 0]
    /\ UNCHANGED <<time, pendst, held, _ulTickCount>>

reading == [call.now EXCEPT !.count = _ulTickCount]

\* Mutant of stable: a rollover of the counter between readings is not seen.
stableNoRollover ==
    /\ call.old.ticks # -1
    /\ call.old.pend = reading.pend /\ call.old.count = reading.count

\* The condition that ends micros' loop.
stable ==
    /\ call.old.ticks # -1
    /\ call.old.pend = reading.pend /\ call.old.count = reading.count
    /\ call.old.ticks >= reading.ticks

\* The value micros returns for a reading.
microsOf(r) == ((r.count + r.pend) * UsPerMs + (LOAD - r.ticks) \div CyclesPerUs) % Word

MicrosAgain ==
    /\ steps /\ call.op = "count" /\ ~stable
    /\ call' = [op |-> "ticks", old |-> reading]
    /\ UNCHANGED <<time, pendst, held, _ulTickCount>>

MicrosTicks ==
    /\ steps /\ call.op = "ticks"
    /\ call' = [op |-> "pend", old |-> call.old, now |-> [NoRead EXCEPT !.ticks = VAL]]
    /\ UNCHANGED <<time, pendst, held, _ulTickCount>>

MicrosReturn ==
    /\ steps /\ call.op = "count" /\ stable
    /\ call' = [op |-> "micros", value |-> microsOf(call.old)]
    /\ UNCHANGED <<time, pendst, held, _ulTickCount>>

\* delay(ms): 0 returns at once.  A caller that holds off the handler does not
\* call delay, which would not return.
DelayBegin(ms) ==
    /\ begins /\ ms # 0 /\ held = "no"
    /\ call' = [op |-> "yield", ms |-> ms, start |-> _ulTickCount]
    /\ UNCHANGED <<time, pendst, held, _ulTickCount>>

\* Mutant of delayLoops: one tick less is waited for.
delayLoopsShort == (_ulTickCount - call.start) % Word < call.ms - 1

\* Mutant of delayLoops: the end is computed first, and may have wrapped.
delayLoopsUntil == _ulTickCount <= (call.start + call.ms - 1) % Word

\* The condition of delay's loop.
delayLoops == (_ulTickCount - call.start) % Word <= call.ms - 1

DelayYield ==
    /\ steps /\ call.op = "yield" /\ delayLoops
    /\ UNCHANGED <<time, pendst, held, _ulTickCount, call>>

DelayReturn ==
    /\ steps /\ call.op = "yield" /\ ~delayLoops
    /\ call' = [op |-> "delay", ms |-> call.ms]
    /\ UNCHANGED <<time, pendst, held, _ulTickCount>>

\* Back to the sketch.
Return ==
    /\ call.op \in {"micros", "delay"}
    /\ call' = Idle /\ ticked' = FALSE /\ elapsed' = 0
    /\ UNCHANGED <<time, pendst, held, _ulTickCount>>

callerStep ==
    \/ MicrosPend \/ MicrosAgain \/ MicrosTicks \/ MicrosReturn
    \/ DelayYield \/ DelayReturn \/ Return

Next ==
    \/ Cycle \/ SysTick_Handler \/ Mask \/ Preempt \/ Release
    \/ MicrosBegin \/ callerStep
    \/ \E ms \in 1 .. MaxMs : DelayBegin(ms)

\* The timer runs, its handler is not held off for ever, and the caller gets
\* on.  Nothing makes the sketch call.
Fairness == WF_vars(Cycle) /\ WF_vars(SysTick_Handler) /\ WF_vars(Release) /\ WF_vars(callerStep)

Spec == Init /\ [][Next]_vars /\ Fairness

-------------------------------------------------------------------------------
(* Properties. *)

Reading == [ticks : -1 .. LOAD, pend : {0, 1}, count : 0 .. Word - 1]

Calls ==
    {Idle}
    \cup [op : {"pend", "count"}, old : Reading, now : Reading]
    \cup [op : {"ticks"}, old : Reading]
    \cup [op : {"micros"}, value : 0 .. Word - 1]
    \cup [op : {"yield"}, ms : 1 .. MaxMs, start : 0 .. Word - 1]
    \cup [op : {"delay"}, ms : 1 .. MaxMs]

\* The type invariant: in particular the counts keep to their word.
TypeOK ==
    /\ time \in 0 .. Horizon - 1
    /\ pendst \in BOOLEAN /\ held \in {"no", "caller", "isr"}
    /\ _ulTickCount \in 0 .. Word - 1
    /\ call \in Calls
    /\ ticked \in BOOLEAN
    /\ elapsed \in 0 .. Horizon

\* micros returns the time of some moment of the call: not earlier than it
\* began, not later than it ends, also when the counter rolls over or the tick
\* is counted between its readings, and across the wrap of both counts
\* ("the number of microseconds since the board began", delay.h).
MicrosInCall ==
    call.op = "micros" => (us - call.value) % Word <= (elapsed + CyclesPerUs - 1) \div CyclesPerUs

\* delay(ms) returns after more than ms - 1 periods, also when _ulTickCount wraps
\* meanwhile.
DelayBounds == call.op = "delay" => elapsed > (call.ms - 1) * Period

\* delay returns.
DelayReturns == (call.op = "yield") ~> (call.op \in {"delay", "idle"})

===============================================================================
