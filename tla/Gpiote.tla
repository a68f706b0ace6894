-------------------------------- MODULE Gpiote --------------------------------
(***************************************************************************)
(* External interrupts, cores/arduino/WInterrupts.c: attachInterrupt and   *)
(* detachInterrupt hand out the channels of the GPIOTE peripheral, and     *)
(* GPIOTE_IRQHandler, the one handler of all channels, finds the channel   *)
(* whose event is set and runs the callback attached to it.                *)
(*                                                                         *)
(* The sketch makes one call at a time, in steps; the handler preempts it  *)
(* between any two steps and is taken before the sketch's next step.  A    *)
(* callback runs inside the handler and may itself attach and detach.      *)
(***************************************************************************)
EXTENDS Integers

CONSTANTS
    NUMBER_OF_GPIO_TE,  \* channels, 8 on the nRF52
    Pins,               \* the pins the sketch uses
    Callbacks,          \* the functions it attaches
    NoCb,               \* the null function pointer
    Usages,             \* how the interrupts may be used: sets of
                        \*   "attach", "detach"  a callback calls these
                        \*   "reattach"  a pin is attached while it is attached
    MaxAttach           \* bound: calls of attachInterrupt

ASSUME GpioteAssumption ==
    /\ NUMBER_OF_GPIO_TE \in Nat \ {0}
    /\ Pins \subseteq Nat
    /\ NoCb \notin Callbacks
    /\ MaxAttach \in Nat

Channels == 0 .. NUMBER_OF_GPIO_TE - 1
None     == -1                       \* no pin, no channel

VARIABLES
    usage,          \* how the interrupts are used, chosen once
    freeChannels,   \* freeChannels[j]: 1 free, 0 not free
    callbacksInt,   \* callbacksInt[j]: _ulPin, _callback, and whether _channel
                    \* and _mask have been filled in (they are 0 before that)
    mode,           \* mode[j]: the pin channel j watches, None if disabled
    event,          \* event[j]: EVENTS_IN[j]
    intEn,          \* intEn[j]: bit j of INTEN
    call,           \* the call the sketch is making and how far it is
    isr,            \* the channel being served, None outside the handler
    phase,          \* "callback" before the callback has run, "exit" after
    attached,       \* history: the function each pin is attached to
    owed,           \* history: the pins with an edge since their attachment
                    \* that no callback has answered
    attaches        \* history: how many calls of attachInterrupt so far

table  == <<freeChannels, callbacksInt>>
regs   == <<mode, event, intEn>>
ghosts == <<attached, owed, attaches>>
gpio   == <<table, regs, call, isr, phase, ghosts>>
vars   == <<usage, gpio>>

NoCall == [op |-> "none", pin |-> None, cb |-> NoCb, j |-> None]

Init ==
    /\ usage \in Usages
    /\ freeChannels = [j \in Channels |-> TRUE]
    /\ callbacksInt = [j \in Channels |-> [pin |-> 0, cb |-> NoCb, set |-> FALSE]]
    /\ mode  = [j \in Channels |-> None]
    /\ event = [j \in Channels |-> FALSE]
    /\ intEn = [j \in Channels |-> FALSE]
    /\ call = NoCall /\ isr = None /\ phase = "exit"
    /\ attached = [p \in Pins |-> NoCb]
    /\ owed = {}
    /\ attaches = 0

\* The first index of a set of channels, as the loops of the code find it.
isFirst(j, S) == j \in S /\ \A k \in S : j <= k

freeSet      == {j \in Channels : freeChannels[j]}
busySet      == Channels \ freeSet
entriesOf(p) == {j \in Channels : callbacksInt[j].pin = p}
pendingSet   == {j \in Channels : callbacksInt[j].set /\ event[j]}
irqRaised    == \E j \in Channels : event[j] /\ intEn[j]

-------------------------------------------------------------------------------
(* The sketch. *)

sketchRuns == isr = None /\ ~irqRaised

\* Whether the caller may attach p now.
mayAttach(p) ==
    /\ attaches < MaxAttach
    /\ ("reattach" \in usage \/ (attached[p] = NoCb /\ call.pin # p))

\* attachInterrupt: the first free channel, or -1.
AttachPick(p, cb) ==
    /\ sketchRuns /\ call = NoCall /\ mayAttach(p)
    /\ \E j \in Channels :
         /\ isFirst(j, freeSet)
         /\ call' = [op |-> "attach", pin |-> p, cb |-> cb, j |-> j]
    /\ attaches' = attaches + 1
    /\ UNCHANGED <<table, regs, isr, phase, attached, owed>>

AttachFails(p) ==
    /\ sketchRuns /\ call = NoCall /\ mayAttach(p)
    /\ freeSet = {}
    /\ attaches' = attaches + 1
    /\ UNCHANGED <<table, regs, call, isr, phase, attached, owed>>

\* Mutant of AttachRecord: _callback keeps its old value.
AttachKeepsCallback ==
    /\ sketchRuns /\ call.op = "attach"
    /\ callbacksInt' = [callbacksInt EXCEPT ![call.j].pin = call.pin,
                                            ![call.j].set = TRUE]
    /\ freeChannels' = [freeChannels EXCEPT ![call.j] = FALSE]
    /\ call' = [call EXCEPT !.op = "configure"]
    /\ UNCHANGED <<regs, isr, phase, ghosts>>

\* Mutant of AttachRecord: _channel and _mask are not filled in.
AttachWithoutChannel ==
    /\ sketchRuns /\ call.op = "attach"
    /\ callbacksInt' = [callbacksInt EXCEPT ![call.j].pin = call.pin,
                                            ![call.j].cb = call.cb]
    /\ freeChannels' = [freeChannels EXCEPT ![call.j] = FALSE]
    /\ call' = [call EXCEPT !.op = "configure"]
    /\ UNCHANGED <<regs, isr, phase, ghosts>>

\* The entry of callbacksInt is filled in and the channel taken ...
AttachRecord ==
    /\ sketchRuns /\ call.op = "attach"
    /\ callbacksInt' = [callbacksInt EXCEPT ![call.j] =
                           [pin |-> call.pin, cb |-> call.cb, set |-> TRUE]]
    /\ freeChannels' = [freeChannels EXCEPT ![call.j] = FALSE]
    /\ call' = [call EXCEPT !.op = "configure"]
    /\ UNCHANGED <<regs, isr, phase, ghosts>>

\* ... the channel is configured and its event enabled ...
AttachConfigure ==
    /\ sketchRuns /\ call.op = "configure"
    /\ mode' = [mode EXCEPT ![call.j] = call.pin]
    /\ call' = [call EXCEPT !.op = "enable"]
    /\ UNCHANGED <<table, event, intEn, isr, phase, ghosts>>

\* ... and its interrupt enabled.
AttachEnable ==
    /\ sketchRuns /\ call.op = "enable"
    /\ intEn' = [intEn EXCEPT ![call.j] = TRUE]
    /\ attached' = [attached EXCEPT ![call.pin] = call.cb]
    /\ call' = NoCall
    /\ UNCHANGED <<table, mode, event, isr, phase, owed, attaches>>

\* detachInterrupt: the first entry of the pin, busy or not.
DetachFind(p) ==
    /\ sketchRuns /\ call = NoCall
    /\ \E j \in Channels :
         /\ isFirst(j, entriesOf(p))
         /\ call' = [op |-> "disable", pin |-> p, cb |-> NoCb, j |-> j]
    /\ UNCHANGED <<table, regs, isr, phase, ghosts>>

DetachDisable ==
    /\ sketchRuns /\ call.op = "disable"
    /\ mode' = [mode EXCEPT ![call.j] = None]
    /\ call' = [call EXCEPT !.op = "mask"]
    /\ UNCHANGED <<table, event, intEn, isr, phase, ghosts>>

\* nrf_gpiote_int_disable of _mask, which is 0 in an entry never filled in.
DetachMask ==
    /\ sketchRuns /\ call.op = "mask"
    /\ intEn' = [intEn EXCEPT ![call.j] = @ /\ ~callbacksInt[call.j].set]
    /\ call' = [call EXCEPT !.op = "free"]
    /\ UNCHANGED <<table, mode, event, isr, phase, ghosts>>

\* Mutant of DetachFree: the channel is not given back.
DetachKeepsChannel ==
    /\ sketchRuns /\ call.op = "free"
    /\ attached' = [attached EXCEPT ![call.pin] = NoCb]
    /\ owed' = owed \ {call.pin}
    /\ call' = NoCall
    /\ UNCHANGED <<table, regs, isr, phase, attaches>>

DetachFree ==
    /\ sketchRuns /\ call.op = "free"
    /\ freeChannels' = [freeChannels EXCEPT ![call.j] = TRUE]
    /\ attached' = [attached EXCEPT ![call.pin] = NoCb]
    /\ owed' = owed \ {call.pin}
    /\ call' = NoCall
    /\ UNCHANGED <<callbacksInt, regs, isr, phase, attaches>>

Sketch ==
    \/ \E p \in Pins, cb \in Callbacks : AttachPick(p, cb)
    \/ \E p \in Pins : AttachFails(p) \/ DetachFind(p)
    \/ AttachRecord \/ AttachConfigure \/ AttachEnable
    \/ DetachDisable \/ DetachMask \/ DetachFree

-------------------------------------------------------------------------------
(* The handler. *)

\* Mutant of IrqEnter: the event is not cleared.
IrqEnterKeepsEvent ==
    /\ isr = None /\ irqRaised
    /\ \E j \in Channels :
         /\ isFirst(j, pendingSet)
         /\ isr' = j
         /\ intEn' = [intEn EXCEPT ![j] = FALSE]
         /\ owed' = owed \ {callbacksInt[j].pin}
    /\ phase' = "callback"
    /\ UNCHANGED <<table, mode, event, call, attached, attaches>>

\* It serves the first channel whose event is set, without a look at INTEN.  If
\* there were none the loop would end with j = NUMBER_OF_GPIO_TE, and what is
\* past the end of callbacksInt would be called.
IrqEnter ==
    /\ isr = None /\ irqRaised
    /\ \E j \in Channels \union {NUMBER_OF_GPIO_TE} :
         /\ isFirst(j, pendingSet \union {NUMBER_OF_GPIO_TE})
         /\ isr' = j
         /\ event' = [k \in Channels |-> event[k] /\ k # j]
         /\ intEn' = [k \in Channels |-> intEn[k] /\ k # j]
         /\ owed' = owed \ {callbacksInt[k].pin : k \in Channels \cap {j}}
    /\ phase' = "callback"
    /\ UNCHANGED <<table, mode, call, attached, attaches>>

\* The callback returns without calling attachInterrupt or detachInterrupt ...
CallbackReturns ==
    /\ isr # None /\ phase = "callback"
    /\ phase' = "exit"
    /\ UNCHANGED <<table, regs, call, isr, ghosts>>

\* ... or calls one of them; no step of the sketch comes in between.
CallbackDetaches(p) ==
    /\ isr # None /\ phase = "callback" /\ "detach" \in usage
    /\ \E j \in Channels :
         /\ isFirst(j, entriesOf(p))
         /\ mode' = [mode EXCEPT ![j] = None]
         /\ intEn' = [intEn EXCEPT ![j] = @ /\ ~callbacksInt[j].set]
         /\ freeChannels' = [freeChannels EXCEPT ![j] = TRUE]
    /\ attached' = [attached EXCEPT ![p] = NoCb]
    /\ owed' = owed \ {p}
    /\ phase' = "exit"
    /\ UNCHANGED <<callbacksInt, event, call, isr, attaches>>

CallbackAttaches(p, cb) ==
    /\ isr # None /\ phase = "callback" /\ "attach" \in usage
    /\ mayAttach(p)
    /\ \E j \in Channels :
         /\ isFirst(j, freeSet)
         /\ callbacksInt' = [callbacksInt EXCEPT ![j] =
                                [pin |-> p, cb |-> cb, set |-> TRUE]]
         /\ freeChannels' = [freeChannels EXCEPT ![j] = FALSE]
         /\ mode' = [mode EXCEPT ![j] = p]
         /\ intEn' = [intEn EXCEPT ![j] = TRUE]
    /\ attached' = [attached EXCEPT ![p] = cb]
    /\ attaches' = attaches + 1
    /\ phase' = "exit"
    /\ UNCHANGED <<event, call, isr, owed>>

\* Mutant of IrqExit: the interrupt of the channel stays disabled.
IrqExitMasked ==
    /\ isr \in Channels /\ phase = "exit"
    /\ isr' = None
    /\ UNCHANGED <<table, regs, call, phase, ghosts>>

\* The interrupt of the channel is enabled again, whatever the callback did.
IrqExit ==
    /\ isr \in Channels /\ phase = "exit"
    /\ intEn' = [intEn EXCEPT ![isr] = TRUE]
    /\ isr' = None
    /\ UNCHANGED <<table, mode, event, call, phase, ghosts>>

Handler ==
    \/ IrqEnter \/ CallbackReturns \/ IrqExit
    \/ \E p \in Pins : CallbackDetaches(p)
    \/ \E p \in Pins, cb \in Callbacks : CallbackAttaches(p, cb)

-------------------------------------------------------------------------------
(* The peripheral: an edge sets the event of every channel on its pin. *)

\* Between the step of attachInterrupt that configures the channel and that of
\* detachInterrupt that disables it.
watched(p) ==
    \/ call.op = "enable" /\ call.pin = p
    \/ attached[p] # NoCb /\ ~(call.op \in {"mask", "free"} /\ call.pin = p)

Edge(p) ==
    /\ event' = [j \in Channels |-> event[j] \/ mode[j] = p]
    /\ owed' = IF watched(p) THEN owed \union {p} ELSE owed
    /\ UNCHANGED <<table, mode, intEn, call, isr, phase, attached, attaches>>

Next ==
    /\ Sketch \/ Handler \/ \E p \in Pins : Edge(p)
    /\ UNCHANGED usage

Fairness ==
    /\ WF_gpio(Handler)
    /\ WF_gpio(AttachRecord \/ AttachConfigure \/ AttachEnable
               \/ DetachDisable \/ DetachMask \/ DetachFree)

Spec == Init /\ [][Next]_vars /\ Fairness
-------------------------------------------------------------------------------
(* Properties. *)

Entry == [pin : Pins \union {0}, cb : Callbacks \union {NoCb}, set : BOOLEAN]

Call == [op : {"none", "attach", "configure", "enable", "disable", "mask", "free"},
         pin : Pins \union {None}, cb : Callbacks \union {NoCb},
         j : Channels \union {None}]

TypeOK ==
    /\ usage \in Usages
    /\ freeChannels \in [Channels -> BOOLEAN]
    /\ callbacksInt \in [Channels -> Entry]
    /\ mode \in [Channels -> Pins \union {None}]
    /\ event \in [Channels -> BOOLEAN]
    /\ intEn \in [Channels -> BOOLEAN]
    /\ call \in Call
    /\ isr \in Channels \union {None, NUMBER_OF_GPIO_TE}
    /\ phase \in {"callback", "exit"}
    /\ attached \in [Pins -> Callbacks \union {NoCb}]
    /\ owed \subseteq Pins
    /\ attaches \in 0 .. MaxAttach

inCallback == isr \in Channels /\ phase = "callback"

\* The handler always finds the channel of its interrupt and never calls past
\* the end of callbacksInt (WInterrupts.c 62-75).
HandlerFindsChannel == isr # NUMBER_OF_GPIO_TE

\* A pin is detached before it is attached again, and callbacks do not call back.
Disciplined == usage \cap {"attach", "detach", "reattach"} = {}

\* "Replaces any previous function that was attached to the interrupt"
\* (WInterrupts.c 79): while a pin is attached only the function of the last
\* attachInterrupt runs for it.
ReplacesPrevious ==
    inCallback =>
        LET e == callbacksInt[isr]
        IN  attached[e.pin] \in {e.cb, NoCb}

\* So it is under the discipline, as then there is no previous function.
LastFunctionRuns == Disciplined => ReplacesPrevious

\* "Turns off the given interrupt" (WInterrupts.c 143): under the discipline no
\* function runs for a pin that has been detached and is not being attached
\* again.
TurnsOff ==
    Disciplined /\ inCallback =>
        LET p == callbacksInt[isr].pin
        IN  attached[p] # NoCb \/ (call.op = "enable" /\ call.pin = p)

\* Under the discipline, with no call in progress, the busy channels are those of
\* the attached pins, one for each: no call leaks a channel or leaves a pin
\* without its own.
ChannelsMatchPins ==
    Disciplined /\ call = NoCall =>
        /\ \A j \in busySet :
             /\ callbacksInt[j].cb # NoCb
             /\ attached[callbacksInt[j].pin] = callbacksInt[j].cb
        /\ \A j, k \in busySet : callbacksInt[j].pin = callbacksInt[k].pin => j = k
        /\ \A p \in Pins : attached[p] # NoCb =>
             \E j \in busySet : callbacksInt[j].pin = p

\* Under the discipline a callback starts only because of an edge on its pin
\* since the pin was attached: a channel handed to another pin carries no event
\* over.
RunsOnEdge == [][Disciplined /\ IrqEnter => callbacksInt[isr'].pin \in owed]_vars

\* The handler serves a channel below every busy channel of p.
servesBefore(p) ==
    /\ isr # None
    /\ \A j \in busySet : callbacksInt[j].pin = p => isr < j

\* An edge on an attached pin is answered by a callback, unless the pin is
\* detached: none is lost, also not the one that comes while the callback runs.
\* But the handler takes the lowest channel first (WInterrupts.c 65), and an edge
\* may wait for ever while edges on the channels below it never stop coming.
EdgeAnswered ==
    \A p \in Pins :
        Disciplined => []<>(p \notin owed) \/ []<>servesBefore(p)
===============================================================================
