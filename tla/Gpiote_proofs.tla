----------------------------- MODULE Gpiote_proofs ----------------------------
(***************************************************************************)
(* For any number of channels, pins and callbacks: the handler never runs  *)
(* off its table, whoever calls what; and if a pin is not attached twice   *)
(* and callbacks do not call back, each busy channel belongs to exactly    *)
(* one attached pin and only the current function of an attached pin runs. *)
(*                                                                         *)
(* From this, for any number of software serial ports and any size of      *)
(* their buffer: the port that listens is armed, nothing runs while a port *)
(* sends, and every frame is received.                                     *)
(***************************************************************************)
EXTENDS SoftSerial, Division, SequenceTheorems

\* A channel that can raise the interrupt has had its entry filled in.
OnlyFilledFire ==
    /\ \A j \in Channels :
         mode[j] # None \/ event[j] => callbacksInt[j].set
    /\ isr \in Channels => callbacksInt[isr].set
    /\ call # NoCall => call.j \in Channels /\ call.pin \in Pins
    /\ call.op \in {"attach", "configure", "enable"} => call.cb \in Callbacks
    /\ call.op \in {"configure", "enable"} => callbacksInt[call.j].set
    /\ HandlerFindsChannel

SafeInv == TypeOK /\ OnlyFilledFire

attaching(j) == call.op \in {"configure", "enable"} /\ call.j = j

\* The call in progress: what its earlier steps have established.
CallInv ==
    /\ call.op \in {"attach", "configure", "enable"} => attached[call.pin] = NoCb
    /\ call.op = "attach" => isFirst(call.j, freeSet)
    /\ call.op \in {"configure", "enable"} =>
         /\ ~freeChannels[call.j]
         /\ callbacksInt[call.j] = [pin |-> call.pin, cb |-> call.cb, set |-> TRUE]
    /\ call.op = "configure" => mode[call.j] = None /\ ~event[call.j]
    /\ call.op \in {"disable", "mask", "free"} => isFirst(call.j, entriesOf(call.pin))
    /\ call.op \in {"mask", "free"} => mode[call.j] = None /\ ~event[call.j]

\* A free channel is silent.
FreeIsSilent ==
    \A j \in freeSet : mode[j] = None /\ ~event[j] /\ isr # j

\* A busy channel holds the function its pin is attached to, or is about to be.
BusyIsAttached ==
    \A j \in busySet :
      /\ callbacksInt[j].set /\ callbacksInt[j].cb \in Callbacks
      /\ callbacksInt[j].pin \in Pins
      /\ attaching(j) \/ attached[callbacksInt[j].pin] = callbacksInt[j].cb

\* The search of detachInterrupt meets the busy entry of a pin before any
\* entry the pin has left behind.
BusyComesFirst ==
    \A j, k \in Channels :
        j < k /\ ~freeChannels[k] => callbacksInt[j].pin # callbacksInt[k].pin

AttachedHasChannel ==
    \A p \in Pins : attached[p] # NoCb =>
        \E j \in busySet : callbacksInt[j].pin = p

\* What the handler serves is not being configured or already turned off.
ServesLive ==
    /\ isr \in Channels =>
         ~freeChannels[isr] /\ (attaching(isr) => call.op = "enable")
    /\ isr \in Channels /\ call.op \in {"mask", "free"} => isr # call.j

DisciplineInv ==
    /\ CallInv /\ FreeIsSilent /\ BusyIsAttached
    /\ BusyComesFirst /\ AttachedHasChannel /\ ServesLive

\* The interrupt of a busy channel is enabled, but while the handler serves it, the
\* channel is taken or given back, or it is one of those masked by others.
EnabledBut(masked) ==
    \A j \in busySet :
        \/ intEn[j] \/ j \in masked
        \/ attaching(j) \/ isr = j \/ (call.op = "free" /\ call.j = j)

-------------------------------------------------------------------------------
(* The handler never leaves the table. *)

LEMMA InitSafe == Init => SafeInv
<1> SUFFICES ASSUME Init
             PROVE  SafeInv
  OBVIOUS
<1>1. TypeOK
  BY GpioteAssumption DEF Init, TypeOK, Entry, Call, NoCall
<1>2. OnlyFilledFire
  <2>1. None \notin Channels /\ None # NUMBER_OF_GPIO_TE
    BY GpioteAssumption DEF None, Channels
  <2> QED
    BY <2>1 DEF Init, OnlyFilledFire, NoCall, HandlerFindsChannel
<1> QED
  BY <1>1, <1>2 DEF SafeInv

\* The handler finds the channel of its interrupt.
LEMMA IrqFindsChannel ==
    ASSUME SafeInv, IrqEnter
    PROVE  /\ isr' \in pendingSet
           /\ event' = [k \in Channels |-> event[k] /\ k # isr']
           /\ intEn' = [k \in Channels |-> intEn[k] /\ k # isr']
           /\ owed' \subseteq owed
<1>1. PICK j \in Channels \union {NUMBER_OF_GPIO_TE} :
         /\ isFirst(j, pendingSet \union {NUMBER_OF_GPIO_TE})
         /\ isr' = j
         /\ event' = [k \in Channels |-> event[k] /\ k # j]
         /\ intEn' = [k \in Channels |-> intEn[k] /\ k # j]
         /\ owed' = owed \ {callbacksInt[k].pin : k \in Channels \cap {j}}
  BY DEF IrqEnter
<1>2. PICK i \in Channels : event[i] /\ intEn[i]
  BY DEF IrqEnter, irqRaised
<1>3. i \in pendingSet
  BY <1>2 DEF pendingSet, SafeInv, OnlyFilledFire
<1>4. j <= i
  BY <1>1, <1>3 DEF isFirst
<1>5. j # NUMBER_OF_GPIO_TE
  BY <1>4, GpioteAssumption DEF Channels
<1> QED
  BY <1>1, <1>5 DEF isFirst

LEMMA StepSafe == SafeInv /\ [Next]_vars => SafeInv'
<1> SUFFICES ASSUME SafeInv, [Next]_vars
             PROVE  SafeInv'
  OBVIOUS
<1> USE GpioteAssumption DEF SafeInv, TypeOK, OnlyFilledFire,
        HandlerFindsChannel, Entry, Call, NoCall
<1>a. None \notin Channels /\ NUMBER_OF_GPIO_TE \notin Channels
      /\ None # NUMBER_OF_GPIO_TE
  BY DEF None, Channels
<1>b. UNCHANGED usage
  BY DEF Next, vars
<1>1. ASSUME NEW p \in Pins, NEW cb \in Callbacks, AttachPick(p, cb)
      PROVE  SafeInv'
  BY <1>a, <1>b, <1>1 DEF AttachPick, mayAttach, isFirst, freeSet, table, regs
<1>2. ASSUME NEW p \in Pins, AttachFails(p)
      PROVE  SafeInv'
  BY <1>b, <1>2 DEF AttachFails, mayAttach, table, regs
<1>3. CASE AttachRecord
  BY <1>a, <1>b, <1>3 DEF AttachRecord, regs, ghosts
<1>4. CASE AttachConfigure
  BY <1>a, <1>b, <1>4 DEF AttachConfigure, table, ghosts
<1>5. CASE AttachEnable
  BY <1>a, <1>b, <1>5 DEF AttachEnable, table
<1>6. ASSUME NEW p \in Pins, DetachFind(p)
      PROVE  SafeInv'
  BY <1>a, <1>b, <1>6 DEF DetachFind, isFirst, entriesOf, table, regs, ghosts
<1>7. CASE DetachDisable
  BY <1>a, <1>b, <1>7 DEF DetachDisable, table, ghosts
<1>8. CASE DetachMask
  BY <1>a, <1>b, <1>8 DEF DetachMask, table, ghosts
<1>9. CASE DetachFree
  BY <1>a, <1>b, <1>9 DEF DetachFree, regs
<1>10. CASE IrqEnter
  <2>1. isr' \in Channels /\ callbacksInt[isr'].set
    BY <1>10, IrqFindsChannel DEF pendingSet
  <2>2. /\ event' = [k \in Channels |-> event[k] /\ k # isr']
        /\ intEn' = [k \in Channels |-> intEn[k] /\ k # isr']
        /\ owed' \subseteq owed
    BY <1>10, IrqFindsChannel
  <2>3. /\ phase' = "callback"
        /\ UNCHANGED <<freeChannels, callbacksInt, mode, call, attached,
                       attaches>>
    BY <1>10 DEF IrqEnter, table
  <2>4. /\ event' \in [Channels -> BOOLEAN] /\ intEn' \in [Channels -> BOOLEAN]
        /\ \A j \in Channels : (event'[j] => event[j]) /\ (intEn'[j] => intEn[j])
    BY <2>2
  <2> QED
    BY <1>a, <1>b, <2>1, <2>2, <2>3, <2>4
<1>11. CASE CallbackReturns
  BY <1>b, <1>11 DEF CallbackReturns, table, regs, ghosts
<1>12. ASSUME NEW p \in Pins, CallbackDetaches(p)
       PROVE  SafeInv'
  BY <1>a, <1>b, <1>12 DEF CallbackDetaches, isFirst, entriesOf
<1>13. ASSUME NEW p \in Pins, NEW cb \in Callbacks, CallbackAttaches(p, cb)
       PROVE  SafeInv'
  BY <1>a, <1>b, <1>13 DEF CallbackAttaches, mayAttach, isFirst, freeSet
<1>14. CASE IrqExit
  BY <1>a, <1>b, <1>14 DEF IrqExit, table, ghosts
<1>15. ASSUME NEW p \in Pins, Edge(p)
       PROVE  SafeInv'
  <2>1. /\ event' = [j \in Channels |-> event[j] \/ mode[j] = p]
        /\ owed' \subseteq Pins
        /\ UNCHANGED <<freeChannels, callbacksInt, mode, intEn, call, isr,
                       phase, attached, attaches>>
    BY <1>15 DEF Edge, table
  <2>2. p # None
    BY DEF None
  <2>3. /\ event' \in [Channels -> BOOLEAN]
        /\ \A j \in Channels : event'[j] => event[j] \/ mode[j] # None
    BY <2>1, <2>2
  <2> QED
    BY <1>b, <2>1, <2>3
<1>16. CASE UNCHANGED vars
  BY <1>16 DEF vars, gpio, table, regs, ghosts
<1> QED
  BY <1>1, <1>2, <1>3, <1>4, <1>5, <1>6, <1>7, <1>8, <1>9, <1>10, <1>11,
     <1>12, <1>13, <1>14, <1>15, <1>16 DEF Next, Sketch, Handler

LEMMA SafeInvariance == Spec => []SafeInv
  BY InitSafe, StepSafe, PTL DEF Spec

\* Every variable keeps its type (WInterrupts.c).
THEOREM TypeCorrect == Spec => []TypeOK
<1>1. SafeInv => TypeOK
  BY DEF SafeInv
<1> QED
  BY SafeInvariance, <1>1, PTL

\* The handler always finds the channel of its interrupt, whatever the sketch
\* and the callbacks attach and detach (WInterrupts.c 62-75).
THEOREM HandlerStaysOnTable == Spec => []HandlerFindsChannel
<1>1. SafeInv => HandlerFindsChannel
  BY DEF SafeInv, OnlyFilledFire
<1> QED
  BY SafeInvariance, <1>1, PTL

-------------------------------------------------------------------------------
(* The documented behaviour, under the discipline. *)

LEMMA InitDiscipline == Init => DisciplineInv /\ EnabledBut({})
<1> SUFFICES ASSUME Init
             PROVE  DisciplineInv /\ EnabledBut({})
  OBVIOUS
<1>1. None \notin Channels
  BY GpioteAssumption DEF None, Channels
<1>2. CallInv
  BY DEF Init, NoCall, CallInv
<1>3. FreeIsSilent /\ BusyIsAttached /\ BusyComesFirst /\ AttachedHasChannel
  BY <1>1 DEF Init, NoCall, FreeIsSilent, BusyIsAttached, BusyComesFirst,
              AttachedHasChannel, freeSet, busySet
<1>4. ServesLive /\ EnabledBut({})
  BY <1>1 DEF Init, ServesLive, EnabledBut, freeSet, busySet
<1> QED
  BY <1>2, <1>3, <1>4 DEF DisciplineInv

\* What every step of the sketch may rely on: no event is waiting.
LEMMA SketchSeesNoEvent ==
    ASSUME SafeInv, sketchRuns
    PROVE  /\ isr = None
           /\ \A j \in Channels : ~(event[j] /\ intEn[j])
  BY DEF sketchRuns, irqRaised

\* Filling in the entry of the first free channel keeps the search order.
LEMMA RecordStep ==
    ASSUME SafeInv, DisciplineInv, AttachRecord
    PROVE  DisciplineInv'
<1> USE DEF sketchRuns
<1> DEFINE c == call.j
<1>1. /\ call.op = "attach" /\ isr = None
      /\ isr' = isr /\ attached' = attached
      /\ UNCHANGED <<mode, event, intEn>>
      /\ call' = [call EXCEPT !.op = "configure"]
      /\ callbacksInt' = [callbacksInt EXCEPT ![c] =
                             [pin |-> call.pin, cb |-> call.cb, set |-> TRUE]]
      /\ freeChannels' = [freeChannels EXCEPT ![c] = FALSE]
  BY DEF AttachRecord, regs, ghosts
<1>2. /\ c \in Channels /\ call.pin \in Pins /\ call.cb \in Callbacks
      /\ callbacksInt \in [Channels -> Entry]
      /\ freeChannels \in [Channels -> BOOLEAN]
      /\ call \in Call
      /\ isr \notin Channels
  <2>1. call # NoCall /\ None \notin Channels
    BY <1>1, GpioteAssumption DEF NoCall, None, Channels
  <2> QED
    BY <1>1, <2>1 DEF SafeInv, TypeOK, OnlyFilledFire
<1>3. /\ attached[call.pin] = NoCb
      /\ freeChannels[c]
      /\ \A k \in Channels : freeChannels[k] => c <= k
  BY <1>1 DEF DisciplineInv, CallInv, isFirst, freeSet
<1>4. mode[c] = None /\ ~event[c]
  BY <1>2, <1>3 DEF DisciplineInv, FreeIsSilent, freeSet
<1>5. /\ call'.op = "configure" /\ call'.j = c
      /\ call'.pin = call.pin /\ call'.cb = call.cb
  BY <1>1, <1>2 DEF Call
<1>6. /\ ~freeChannels'[c]
      /\ callbacksInt'[c] = [pin |-> call.pin, cb |-> call.cb, set |-> TRUE]
      /\ \A k \in Channels : k # c =>
           freeChannels'[k] = freeChannels[k] /\ callbacksInt'[k] = callbacksInt[k]
  BY <1>1, <1>2
<1>7. \A k \in Channels : ~freeChannels[k] =>
        /\ callbacksInt[k].pin # call.pin
        /\ callbacksInt[k].set /\ callbacksInt[k].cb \in Callbacks
        /\ callbacksInt[k].pin \in Pins
        /\ attached[callbacksInt[k].pin] = callbacksInt[k].cb
  <2> SUFFICES ASSUME NEW k \in Channels, ~freeChannels[k]
               PROVE  /\ callbacksInt[k].pin # call.pin
                      /\ callbacksInt[k].set /\ callbacksInt[k].cb \in Callbacks
                      /\ callbacksInt[k].pin \in Pins
                      /\ attached[callbacksInt[k].pin] = callbacksInt[k].cb
    OBVIOUS
  <2>1. k \in busySet
    BY DEF busySet, freeSet
  <2>2. ~attaching(k) /\ call.op # "free" /\ isr # k
    BY <1>1, <1>2 DEF attaching
  <2> QED
    BY <1>3, <2>1, <2>2, GpioteAssumption DEF DisciplineInv, BusyIsAttached
<1>8. CallInv'
  BY <1>1, <1>3, <1>4, <1>5, <1>6 DEF CallInv
<1>9. FreeIsSilent'
  BY <1>1, <1>6 DEF DisciplineInv, FreeIsSilent, freeSet
<1>10. BusyIsAttached'
  BY <1>1, <1>2, <1>5, <1>6, <1>7 DEF BusyIsAttached, busySet, freeSet, attaching
<1>11. BusyComesFirst'
  <2> SUFFICES ASSUME NEW j \in Channels, NEW k \in Channels,
                      j < k, ~freeChannels'[k]
               PROVE  callbacksInt'[j].pin # callbacksInt'[k].pin
    BY DEF BusyComesFirst
  <2>1. CASE j = c
    BY <1>6, <1>7, <2>1 DEF Channels
  <2>2. CASE k = c
    <3>1. ~freeChannels[j] /\ j # c
      BY <1>3, <2>2, GpioteAssumption DEF Channels
    <3> QED
      BY <1>6, <1>7, <2>2, <3>1
  <2>3. CASE j # c /\ k # c
    BY <1>6, <2>3 DEF DisciplineInv, BusyComesFirst
  <2> QED
    BY <2>1, <2>2, <2>3
<1>12. AttachedHasChannel'
  <2> SUFFICES ASSUME NEW p \in Pins, attached'[p] # NoCb
               PROVE  \E j \in busySet' : callbacksInt'[j].pin = p
    BY DEF AttachedHasChannel
  <2>1. PICK j \in Channels : ~freeChannels[j] /\ callbacksInt[j].pin = p
    BY <1>1 DEF DisciplineInv, AttachedHasChannel, busySet, freeSet
  <2>2. j # c
    BY <1>3, <2>1
  <2> QED
    BY <1>6, <2>1, <2>2 DEF busySet, freeSet
<1>13. ServesLive'
  BY <1>1, <1>2 DEF ServesLive
<1> QED
  BY <1>8, <1>9, <1>10, <1>11, <1>12, <1>13 DEF DisciplineInv

\* The steps of attachInterrupt and detachInterrupt that leave the table alone.
LEMMA ConfigureStep ==
    ASSUME SafeInv, DisciplineInv, EnabledBut({}), sketchRuns,
           AttachConfigure \/ AttachEnable \/ DetachDisable \/ DetachMask
    PROVE  DisciplineInv'
<1> DEFINE c == call.j
<1>1. /\ isr = None /\ isr' = isr /\ isr \notin Channels
      /\ UNCHANGED <<freeChannels, callbacksInt, event>>
      /\ \A j \in Channels : ~(event[j] /\ intEn[j])
  BY SketchSeesNoEvent, GpioteAssumption
     DEF AttachConfigure, AttachEnable, DetachDisable, DetachMask, table,
         None, Channels
<1>2. /\ c \in Channels /\ call.pin \in Pins /\ call \in Call
      /\ mode \in [Channels -> Pins \union {None}]
      /\ intEn \in [Channels -> BOOLEAN]
      /\ attached \in [Pins -> Callbacks \union {NoCb}]
      /\ call.op \in {"configure", "enable"} => call.cb \in Callbacks
  <2>1. call # NoCall
    BY DEF NoCall, AttachConfigure, AttachEnable, DetachDisable, DetachMask
  <2> QED
    BY <2>1 DEF SafeInv, TypeOK, OnlyFilledFire
<1>3. BusyComesFirst'
  BY <1>1 DEF DisciplineInv, BusyComesFirst
<1>4. ServesLive'
  BY <1>1 DEF ServesLive
<1> USE DEF DisciplineInv, freeSet, busySet, Call
<1>5. CASE AttachConfigure
  <2>1. /\ call.op = "configure" /\ UNCHANGED <<intEn, attached>>
        /\ mode' = [mode EXCEPT ![c] = call.pin]
        /\ call' = [call EXCEPT !.op = "enable"]
        /\ ~freeChannels[c]
    BY <1>5 DEF AttachConfigure, ghosts, CallInv
  <2>2. CallInv'
    BY <1>1, <1>2, <2>1 DEF CallInv
  <2>3. FreeIsSilent'
    BY <1>1, <1>2, <2>1 DEF FreeIsSilent
  <2>4. BusyIsAttached'
    BY <1>1, <1>2, <2>1 DEF BusyIsAttached, attaching
  <2>5. AttachedHasChannel'
    BY <1>1, <2>1 DEF AttachedHasChannel
  <2> QED
    BY <1>3, <1>4, <2>2, <2>3, <2>4, <2>5
<1>6. CASE AttachEnable
  <2>1. /\ call.op = "enable" /\ UNCHANGED mode
        /\ intEn' = [intEn EXCEPT ![c] = TRUE]
        /\ attached' = [attached EXCEPT ![call.pin] = call.cb]
        /\ call' = NoCall
        /\ ~freeChannels[c] /\ callbacksInt[c].pin = call.pin
        /\ callbacksInt[c].cb = call.cb
    BY <1>6 DEF AttachEnable, CallInv
  <2>2. CallInv'
    BY <2>1 DEF CallInv, NoCall
  <2>3. FreeIsSilent'
    BY <1>1, <1>2, <2>1 DEF FreeIsSilent
  <2>4. ASSUME NEW j \in Channels, ~freeChannels[j], j # c
        PROVE  callbacksInt[j].pin # call.pin
    <3>1. j \in Int /\ c \in Int /\ (j < c \/ c < j)
      BY <1>2, <2>4, GpioteAssumption DEF Channels
    <3> QED
      BY <1>2, <2>1, <2>4, <3>1 DEF BusyComesFirst
  <2>5. BusyIsAttached'
    <3> SUFFICES ASSUME NEW j \in Channels, ~freeChannels[j]
                 PROVE  /\ callbacksInt[j].set /\ callbacksInt[j].cb \in Callbacks
                        /\ callbacksInt[j].pin \in Pins
                        /\ attached'[callbacksInt[j].pin] = callbacksInt[j].cb
      BY <1>1 DEF BusyIsAttached
    <3>1. CASE j = c
      BY <1>2, <2>1, <3>1 DEF BusyIsAttached
    <3>2. CASE j # c
      BY <1>1, <1>2, <2>1, <2>4, <3>2 DEF BusyIsAttached, attaching
    <3> QED
      BY <3>1, <3>2
  <2>6. AttachedHasChannel'
    <3> SUFFICES ASSUME NEW p \in Pins, attached'[p] # NoCb
                 PROVE  \E j \in Channels : ~freeChannels[j] /\ callbacksInt[j].pin = p
      BY <1>1 DEF AttachedHasChannel
    <3>1. CASE p = call.pin
      BY <1>2, <2>1, <3>1
    <3>2. CASE p # call.pin
      BY <1>2, <2>1, <3>2 DEF AttachedHasChannel
    <3> QED
      BY <3>1, <3>2
  <2> QED
    BY <1>3, <1>4, <2>2, <2>3, <2>5, <2>6
<1>7. CASE DetachDisable
  <2>1. /\ call.op = "disable" /\ UNCHANGED <<intEn, attached>>
        /\ mode' = [mode EXCEPT ![c] = None]
        /\ call' = [call EXCEPT !.op = "mask"]
    BY <1>7 DEF DetachDisable, ghosts
  <2>2. ~event[c]
    <3>1. CASE freeChannels[c]
      BY <1>2, <3>1 DEF FreeIsSilent
    <3>2. CASE ~freeChannels[c]
      BY <1>1, <1>2, <2>1, <3>2 DEF EnabledBut, attaching
    <3> QED
      BY <3>1, <3>2
  <2>3. CallInv'
    BY <1>1, <1>2, <2>1, <2>2 DEF CallInv, isFirst, entriesOf
  <2>4. FreeIsSilent'
    BY <1>1, <1>2, <2>1 DEF FreeIsSilent
  <2>5. BusyIsAttached'
    BY <1>1, <1>2, <2>1 DEF BusyIsAttached, attaching
  <2>6. AttachedHasChannel'
    BY <1>1, <2>1 DEF AttachedHasChannel
  <2> QED
    BY <1>3, <1>4, <2>3, <2>4, <2>5, <2>6
<1>8. CASE DetachMask
  <2>1. /\ call.op = "mask" /\ UNCHANGED <<mode, attached>>
        /\ intEn' = [intEn EXCEPT ![c] = @ /\ ~callbacksInt[c].set]
        /\ call' = [call EXCEPT !.op = "free"]
    BY <1>8 DEF DetachMask, ghosts
  <2>2. CallInv'
    BY <1>1, <1>2, <2>1 DEF CallInv, isFirst, entriesOf
  <2>3. FreeIsSilent'
    BY <1>1, <1>2, <2>1 DEF FreeIsSilent
  <2>4. BusyIsAttached'
    BY <1>1, <1>2, <2>1 DEF BusyIsAttached, attaching
  <2>5. AttachedHasChannel'
    BY <1>1, <2>1 DEF AttachedHasChannel
  <2> QED
    BY <1>3, <1>4, <2>2, <2>3, <2>4, <2>5
<1> QED
  BY <1>5, <1>6, <1>7, <1>8

\* Giving the channel back: the entry found was the busy one, if there is one.
LEMMA FreeStep ==
    ASSUME SafeInv, DisciplineInv, DetachFree
    PROVE  DisciplineInv'
<1> DEFINE c == call.j
<1> USE DEF DisciplineInv, freeSet, busySet
<1>1. /\ call.op = "free" /\ isr = None /\ isr' = isr /\ isr \notin Channels
      /\ UNCHANGED <<callbacksInt, mode, event, intEn>>
      /\ freeChannels' = [freeChannels EXCEPT ![c] = TRUE]
      /\ attached' = [attached EXCEPT ![call.pin] = NoCb]
      /\ call' = NoCall
  BY GpioteAssumption DEF DetachFree, sketchRuns, regs, None, Channels
<1>2. /\ c \in Channels /\ call.pin \in Pins
      /\ freeChannels \in [Channels -> BOOLEAN]
      /\ attached \in [Pins -> Callbacks \union {NoCb}]
  <2>1. call # NoCall
    BY <1>1 DEF NoCall
  <2> QED
    BY <2>1 DEF SafeInv, TypeOK, OnlyFilledFire
<1>3. /\ mode[c] = None /\ ~event[c]
      /\ callbacksInt[c].pin = call.pin
      /\ \A k \in Channels : callbacksInt[k].pin = call.pin => c <= k
  BY <1>1 DEF CallInv, isFirst, entriesOf
<1>4. ASSUME NEW j \in Channels, ~freeChannels[j], j # c
      PROVE  callbacksInt[j].pin # call.pin
  <2>1. SUFFICES ASSUME callbacksInt[j].pin = call.pin
                 PROVE  FALSE
    OBVIOUS
  <2>2. c < j
    BY <1>2, <1>3, <1>4, <2>1, GpioteAssumption DEF Channels
  <2> QED
    BY <1>2, <1>3, <1>4, <2>1, <2>2 DEF BusyComesFirst
<1>5. CallInv'
  BY <1>1 DEF CallInv, NoCall
<1>6. FreeIsSilent'
  BY <1>1, <1>2, <1>3 DEF FreeIsSilent
<1>7. BusyIsAttached'
  BY <1>1, <1>2, <1>4 DEF BusyIsAttached, attaching, NoCall
<1>8. BusyComesFirst'
  BY <1>1, <1>2 DEF BusyComesFirst
<1>9. AttachedHasChannel'
  <2> SUFFICES ASSUME NEW p \in Pins, attached'[p] # NoCb
               PROVE  \E j \in Channels : ~freeChannels'[j] /\ callbacksInt[j].pin = p
    BY <1>1 DEF AttachedHasChannel
  <2>1. p # call.pin /\ attached[p] # NoCb
    BY <1>1, <1>2
  <2>2. PICK j \in Channels : ~freeChannels[j] /\ callbacksInt[j].pin = p
    BY <2>1 DEF AttachedHasChannel
  <2>3. j # c
    BY <1>3, <2>1, <2>2
  <2> QED
    BY <1>1, <1>2, <2>2, <2>3
<1>10. ServesLive'
  BY <1>1 DEF ServesLive
<1> QED
  BY <1>5, <1>6, <1>7, <1>8, <1>9, <1>10

\* The steps that begin a call, or find that there is nothing to call.
LEMMA BeginStep ==
    ASSUME SafeInv, DisciplineInv, NEW p \in Pins, NEW cb,
           \/ AttachPick(p, cb) /\ attached[p] = NoCb
           \/ AttachFails(p) \/ DetachFind(p)
    PROVE  DisciplineInv'
<1> USE DEF DisciplineInv, freeSet, busySet, entriesOf
<1>1. /\ call = NoCall /\ isr = None /\ isr' = isr /\ isr \notin Channels
      /\ UNCHANGED <<table, regs, attached>>
  BY GpioteAssumption
     DEF AttachPick, AttachFails, DetachFind, sketchRuns, ghosts, None, Channels
<1>2. /\ FreeIsSilent' /\ BusyComesFirst' /\ AttachedHasChannel' /\ ServesLive'
  BY <1>1 DEF FreeIsSilent, BusyComesFirst, AttachedHasChannel, ServesLive,
              table, regs
<1>3. CASE AttachPick(p, cb) /\ attached[p] = NoCb
  <2>1. PICK j \in Channels : /\ isFirst(j, freeSet)
                              /\ call' = [op |-> "attach", pin |-> p, cb |-> cb, j |-> j]
    BY <1>3 DEF AttachPick
  <2>2. CallInv'
    BY <1>1, <1>3, <2>1 DEF CallInv, isFirst, table
  <2>3. BusyIsAttached'
    BY <1>1, <2>1 DEF BusyIsAttached, attaching, NoCall, table, regs
  <2> QED
    BY <1>2, <2>2, <2>3
<1>4. CASE AttachFails(p)
  BY <1>1, <1>2, <1>4
     DEF AttachFails, CallInv, BusyIsAttached, attaching, NoCall, table, regs
<1>5. CASE DetachFind(p)
  <2>1. PICK j \in Channels : /\ isFirst(j, entriesOf(p))
                              /\ call' = [op |-> "disable", pin |-> p, cb |-> NoCb, j |-> j]
    BY <1>5 DEF DetachFind
  <2>2. CallInv'
    BY <1>1, <2>1 DEF CallInv, isFirst, table
  <2>3. BusyIsAttached'
    BY <1>1, <2>1 DEF BusyIsAttached, attaching, NoCall, table, regs
  <2> QED
    BY <1>2, <2>2, <2>3
<1> QED
  BY <1>3, <1>4, <1>5

\* Edges and the handler.
LEMMA HandlerStep ==
    ASSUME SafeInv, DisciplineInv,
           \/ IrqEnter \/ CallbackReturns \/ IrqExit
           \/ \E p \in Pins : Edge(p)
    PROVE  DisciplineInv'
<1> USE DEF DisciplineInv, freeSet, busySet
<1>1. /\ UNCHANGED <<freeChannels, callbacksInt, mode, call, attached>>
      /\ None \notin Channels
      /\ event \in [Channels -> BOOLEAN] /\ intEn \in [Channels -> BOOLEAN]
  <2>1. UNCHANGED <<freeChannels, callbacksInt, mode, call, attached>>
    BY DEF IrqEnter, CallbackReturns, IrqExit, Edge, table, regs, ghosts
  <2> QED
    BY <2>1, GpioteAssumption DEF None, Channels, SafeInv, TypeOK
<1>2. BusyComesFirst' /\ AttachedHasChannel'
  BY <1>1 DEF BusyComesFirst, AttachedHasChannel
<1>3. CASE IrqEnter
  <2>1. /\ isr = None /\ isr' \in Channels /\ event[isr']
        /\ event' = [k \in Channels |-> event[k] /\ k # isr']
        /\ intEn' = [k \in Channels |-> intEn[k] /\ k # isr']
    BY <1>3, IrqFindsChannel DEF IrqEnter, pendingSet
  <2>2. \A k \in Channels : /\ event'[k] => event[k]
                            /\ intEn'[k] => intEn[k]
                            /\ k # isr' => intEn'[k] = intEn[k]
    BY <1>1, <2>1
  <2>3. CallInv'
    <3>1. call.op # "none" => call.j \in Channels
      BY DEF SafeInv, OnlyFilledFire, NoCall
    <3> QED
      BY <1>1, <2>2, <3>1 DEF CallInv, isFirst, entriesOf
  <2>4. FreeIsSilent'
    BY <1>1, <2>1, <2>2 DEF FreeIsSilent
  <2>5. BusyIsAttached'
    BY <1>1, <2>1, <2>2 DEF BusyIsAttached, attaching
  <2>6. ServesLive'
    BY <1>1, <2>1, <2>2 DEF ServesLive, FreeIsSilent, CallInv, attaching
  <2> QED
    BY <1>2, <2>3, <2>4, <2>5, <2>6
<1>4. CASE CallbackReturns
  <2>1. UNCHANGED <<event, intEn, isr>>
    BY <1>4 DEF CallbackReturns, regs
  <2> QED
    BY <1>1, <1>2, <2>1
       DEF CallInv, isFirst, entriesOf, FreeIsSilent, BusyIsAttached, attaching,
           ServesLive
<1>5. CASE IrqExit
  <2>1. /\ isr \in Channels /\ isr' = None /\ event' = event
        /\ intEn' = [intEn EXCEPT ![isr] = TRUE]
    BY <1>5 DEF IrqExit
  <2>2. ~freeChannels[isr] /\ (call.op = "free" => isr # call.j)
    BY <2>1 DEF ServesLive
  <2>3. CallInv'
    BY <1>1, <2>1, <2>2 DEF CallInv, isFirst, entriesOf
  <2>4. FreeIsSilent'
    BY <1>1, <2>1, <2>2 DEF FreeIsSilent
  <2>5. BusyIsAttached'
    BY <1>1, <2>1 DEF BusyIsAttached, attaching
  <2>6. ServesLive'
    BY <1>1, <2>1 DEF ServesLive
  <2> QED
    BY <1>2, <2>3, <2>4, <2>5, <2>6
<1>6. ASSUME NEW p \in Pins, Edge(p)
      PROVE  DisciplineInv'
  <2>1. /\ UNCHANGED <<intEn, isr>> /\ p # None
        /\ event' = [j \in Channels |-> event[j] \/ mode[j] = p]
    BY <1>6, GpioteAssumption DEF Edge, None
  <2>2. \A j \in Channels : mode[j] = None => event'[j] = event[j]
    BY <1>1, <2>1
  <2>3. CallInv'
    <3>1. call.op # "none" => call.j \in Channels
      BY DEF SafeInv, OnlyFilledFire, NoCall
    <3> QED
      BY <1>1, <2>1, <2>2, <3>1 DEF CallInv, isFirst, entriesOf
  <2>4. FreeIsSilent'
    BY <1>1, <2>1, <2>2 DEF FreeIsSilent
  <2>5. BusyIsAttached' /\ ServesLive'
    BY <1>1, <2>1 DEF BusyIsAttached, attaching, ServesLive
  <2> QED
    BY <1>2, <2>3, <2>4, <2>5
<1> QED
  BY <1>3, <1>4, <1>5, <1>6

\* The sketch enables what it attaches, and only masks what it detaches.
LEMMA SketchEnables ==
    ASSUME SafeInv, DisciplineInv, EnabledBut({}), Sketch
    PROVE  EnabledBut({})'
<1> USE DEF freeSet, busySet
<1>1. /\ freeChannels \in [Channels -> BOOLEAN] /\ intEn \in [Channels -> BOOLEAN]
      /\ call \in Call /\ isr' = isr
      /\ call.op # "none" => call.j \in Channels
  BY DEF SafeInv, TypeOK, OnlyFilledFire, NoCall, Sketch, AttachPick, AttachFails,
         AttachRecord, AttachConfigure, AttachEnable, DetachFind, DetachDisable,
         DetachMask, DetachFree
<1>2. ASSUME NEW p \in Pins, NEW cb,
             AttachPick(p, cb) \/ AttachFails(p) \/ DetachFind(p)
      PROVE  EnabledBut({})'
  <2>1. /\ call = NoCall /\ UNCHANGED <<freeChannels, intEn>>
    BY <1>2 DEF AttachPick, AttachFails, DetachFind, table, regs
  <2> QED
    BY <1>1, <2>1 DEF EnabledBut, attaching, NoCall
<1>3. CASE AttachRecord \/ AttachConfigure \/ AttachEnable
  BY <1>1, <1>3 DEF AttachRecord, AttachConfigure, AttachEnable, EnabledBut, attaching,
                    Call, NoCall, table, regs
<1>4. CASE DetachDisable \/ DetachMask \/ DetachFree
  BY <1>1, <1>4 DEF DetachDisable, DetachMask, DetachFree, EnabledBut, attaching,
                    Call, NoCall, table, regs
<1> QED
  BY <1>2, <1>3, <1>4 DEF Sketch

\* The handler enables what it has served, and nothing else masks.
LEMMA HandlerEnables ==
    ASSUME SafeInv, DisciplineInv, NEW masked, EnabledBut(masked),
           \/ IrqEnter \/ CallbackReturns \/ IrqExit
           \/ \E p \in Pins : Edge(p)
    PROVE  EnabledBut(masked)'
<1> USE DEF freeSet, busySet
<1>1. /\ UNCHANGED <<freeChannels, call>> /\ intEn \in [Channels -> BOOLEAN]
  BY DEF IrqEnter, CallbackReturns, IrqExit, Edge, table, regs, ghosts, SafeInv, TypeOK
<1>2. CASE IrqEnter
  <2>1. isr = None /\ \A k \in Channels : k # isr' => intEn'[k] = intEn[k]
    BY <1>1, <1>2, IrqFindsChannel DEF IrqEnter
  <2>2. None \notin Channels
    BY GpioteAssumption DEF None, Channels
  <2> QED
    BY <1>1, <2>1, <2>2 DEF EnabledBut, attaching
<1>3. CASE CallbackReturns \/ IrqExit \/ \E p \in Pins : Edge(p)
  BY <1>1, <1>3 DEF CallbackReturns, IrqExit, Edge, regs, EnabledBut, attaching
<1> QED
  BY <1>2, <1>3

LEMMA StepDiscipline ==
    ASSUME Disciplined, SafeInv, DisciplineInv, EnabledBut({}), [Next]_vars
    PROVE  DisciplineInv' /\ EnabledBut({})'
<1>1. ASSUME NEW p \in Pins, NEW cb \in Callbacks, AttachPick(p, cb)
      PROVE  DisciplineInv'
  <2>1. attached[p] = NoCb
    BY <1>1 DEF AttachPick, mayAttach, Disciplined
  <2> QED
    BY <1>1, <2>1, BeginStep
<1>2. ASSUME NEW p \in Pins, AttachFails(p) \/ DetachFind(p)
      PROVE  DisciplineInv'
  BY <1>2, BeginStep
<1>3. ASSUME AttachRecord
      PROVE  DisciplineInv'
  BY <1>3, RecordStep
<1>4. ASSUME AttachConfigure \/ AttachEnable \/ DetachDisable \/ DetachMask
      PROVE  DisciplineInv'
  <2>1. sketchRuns
    BY <1>4 DEF AttachConfigure, AttachEnable, DetachDisable, DetachMask
  <2> QED
    BY <1>4, <2>1, ConfigureStep
<1>5. ASSUME DetachFree
      PROVE  DisciplineInv'
  BY <1>5, FreeStep
<1>6. CASE Sketch
  BY <1>1, <1>2, <1>3, <1>4, <1>5, <1>6, SketchEnables DEF Sketch
<1>7. CASE IrqEnter \/ CallbackReturns \/ IrqExit \/ \E p \in Pins : Edge(p)
  BY <1>7, HandlerStep, HandlerEnables
<1>8. ASSUME NEW p \in Pins, NEW cb
      PROVE  ~CallbackDetaches(p) /\ ~CallbackAttaches(p, cb)
  BY DEF Disciplined, CallbackDetaches, CallbackAttaches
<1>9. CASE UNCHANGED vars
  BY <1>9 DEF vars, gpio, table, regs, ghosts, DisciplineInv, CallInv, FreeIsSilent,
     BusyIsAttached, BusyComesFirst, AttachedHasChannel, ServesLive, EnabledBut,
     attaching, isFirst, freeSet, busySet, entriesOf
<1> QED
  BY <1>6, <1>7, <1>8, <1>9 DEF Next, Handler

LEMMA DisciplineInvariance == Spec => [](Disciplined => SafeInv /\ DisciplineInv)
<1> DEFINE Inv == SafeInv /\ (Disciplined => DisciplineInv /\ EnabledBut({}))
<1>1. Init => Inv
  BY InitSafe, InitDiscipline
<1>2. Inv /\ [Next]_vars => Inv'
  <2>1. [Next]_vars => (Disciplined' <=> Disciplined)
    BY DEF Next, vars, Disciplined
  <2> QED
    BY <2>1, StepSafe, StepDiscipline
<1>3. Inv => (Disciplined => SafeInv /\ DisciplineInv)
  OBVIOUS
<1> QED
  BY <1>1, <1>2, <1>3, PTL DEF Spec

\* "Replaces any previous function that was attached to the interrupt": if a
\* pin is detached before it is attached again, and callbacks do not call back,
\* only the function of the last attachInterrupt runs (WInterrupts.c 79).
THEOREM OnlyLastFunctionRuns == Spec => []LastFunctionRuns
<1>1. (Disciplined => SafeInv /\ DisciplineInv) => LastFunctionRuns
  BY DEF SafeInv, OnlyFilledFire, DisciplineInv, ServesLive, BusyIsAttached,
         CallInv, attaching, busySet, freeSet, LastFunctionRuns,
         ReplacesPrevious, inCallback
<1> QED
  BY <1>1, DisciplineInvariance, PTL

\* "Turns off the given interrupt": under the same discipline no function runs
\* for a pin that has been detached (WInterrupts.c 143).
THEOREM DetachedPinIsOff == Spec => []TurnsOff
<1>1. (Disciplined => SafeInv /\ DisciplineInv) => TurnsOff
  <2> SUFFICES ASSUME SafeInv, DisciplineInv, inCallback
               PROVE  TurnsOff
    BY DEF TurnsOff
  <2>1. isr \in busySet
    BY DEF DisciplineInv, ServesLive, inCallback, busySet, freeSet
  <2>2. CASE attaching(isr)
    <3>1. call.op = "enable" /\ callbacksInt[isr].pin = call.pin
      BY <2>2 DEF DisciplineInv, ServesLive, CallInv, inCallback, attaching
    <3> QED
      BY <3>1 DEF TurnsOff
  <2>3. CASE ~attaching(isr)
    BY <2>1, <2>3, GpioteAssumption DEF DisciplineInv, BusyIsAttached, TurnsOff
  <2> QED
    BY <2>2, <2>3
<1> QED
  BY <1>1, DisciplineInvariance, PTL

\* Between calls the busy channels are those of the attached pins, one each:
\* no call leaks a channel (WInterrupts.c 91-104, 147-158).
THEOREM NoChannelLeaks == Spec => []ChannelsMatchPins
<1>1. (Disciplined => SafeInv /\ DisciplineInv) => ChannelsMatchPins
  <2> SUFFICES ASSUME SafeInv, DisciplineInv, call = NoCall
               PROVE  ChannelsMatchPins
    BY DEF ChannelsMatchPins
  <2>1. \A j \in busySet : /\ callbacksInt[j].cb # NoCb
                           /\ attached[callbacksInt[j].pin] = callbacksInt[j].cb
    BY GpioteAssumption DEF DisciplineInv, BusyIsAttached, attaching, NoCall
  <2>2. ASSUME NEW j \in busySet, NEW k \in busySet,
               callbacksInt[j].pin = callbacksInt[k].pin
        PROVE  j = k
    <3>1. /\ j \in Channels /\ k \in Channels
          /\ ~freeChannels[j] /\ ~freeChannels[k]
      BY DEF busySet, freeSet
    <3>2. ~(j < k) /\ ~(k < j)
      BY <2>2, <3>1 DEF DisciplineInv, BusyComesFirst
    <3> QED
      BY <3>1, <3>2, GpioteAssumption DEF Channels
  <2> QED
    BY <2>1, <2>2 DEF ChannelsMatchPins, DisciplineInv, AttachedHasChannel
<1> QED
  BY <1>1, DisciplineInvariance, PTL

\* A channel watches the pin of its entry, and its event is that of an edge that
\* no callback has answered.
EventsOwed ==
    \A j \in Channels :
      /\ mode[j] \in {None, callbacksInt[j].pin}
      /\ event[j] => callbacksInt[j].pin \in owed

\* The steps of a call.
LEMMA CallOwed ==
    ASSUME SafeInv, DisciplineInv, EventsOwed,
           \/ AttachRecord \/ AttachConfigure \/ AttachEnable
           \/ DetachDisable \/ DetachMask \/ DetachFree
    PROVE  EventsOwed'
<1> DEFINE c == call.j
<1>1. /\ c \in Channels
      /\ mode \in [Channels -> Pins \union {None}] /\ callbacksInt \in [Channels -> Entry]
  <2>1. call # NoCall
    BY DEF AttachRecord, AttachConfigure, AttachEnable, DetachDisable, DetachMask,
           DetachFree, NoCall
  <2> QED
    BY <2>1 DEF SafeInv, TypeOK, OnlyFilledFire
<1>2. CASE AttachRecord
  <2>1. mode[c] = None /\ ~event[c]
    BY <1>2 DEF AttachRecord, DisciplineInv, CallInv, FreeIsSilent, isFirst
  <2>2. /\ UNCHANGED <<mode, event, owed>>
        /\ \A j \in Channels : j # c => callbacksInt'[j] = callbacksInt[j]
    BY <1>1, <1>2 DEF AttachRecord, regs, ghosts
  <2> QED
    BY <2>1, <2>2 DEF EventsOwed
<1>3. CASE AttachConfigure
  <2>1. callbacksInt[c].pin = call.pin
    BY <1>3 DEF AttachConfigure, DisciplineInv, CallInv
  <2> QED
    BY <1>1, <1>3, <2>1 DEF AttachConfigure, EventsOwed, table, ghosts
<1>4. CASE AttachEnable \/ DetachDisable \/ DetachMask
  BY <1>1, <1>4 DEF AttachEnable, DetachDisable, DetachMask, EventsOwed, table, ghosts
<1>5. CASE DetachFree
  <2>1. /\ ~event[c] /\ callbacksInt[c].pin = call.pin
        /\ \A k \in Channels : callbacksInt[k].pin = call.pin => c <= k
    BY <1>5 DEF DetachFree, DisciplineInv, CallInv, isFirst, entriesOf
  <2>2. ASSUME NEW j \in Channels, event[j]
        PROVE  callbacksInt[j].pin # call.pin
    <3>1. ~freeChannels[j] /\ j # c
      BY <2>1, <2>2 DEF DisciplineInv, FreeIsSilent, freeSet
    <3>2. SUFFICES ASSUME callbacksInt[j].pin = call.pin
                   PROVE  FALSE
      OBVIOUS
    <3>3. c < j
      BY <1>1, <2>1, <3>1, <3>2, GpioteAssumption DEF Channels
    <3> QED
      BY <1>1, <2>1, <3>1, <3>2, <3>3 DEF DisciplineInv, BusyComesFirst
  <2>3. UNCHANGED <<callbacksInt, mode, event>> /\ owed' = owed \ {call.pin}
    BY <1>5 DEF DetachFree, regs
  <2> QED
    BY <2>2, <2>3 DEF EventsOwed
<1> QED
  BY <1>2, <1>3, <1>4, <1>5

\* The handler answers the edge of the channel that it serves, and no other
\* channel has its pin.
LEMMA EnterOwed ==
    ASSUME SafeInv, DisciplineInv, EventsOwed, IrqEnter
    PROVE  EventsOwed' /\ callbacksInt[isr'].pin \in owed
<1>1. /\ isr' \in Channels /\ event[isr'] /\ UNCHANGED <<callbacksInt, mode>>
      /\ event' = [k \in Channels |-> event[k] /\ k # isr']
      /\ owed' = owed \ {callbacksInt[k].pin : k \in Channels \cap {isr'}}
  BY IrqFindsChannel DEF IrqEnter, pendingSet, table
<1>2. owed' = owed \ {callbacksInt[isr'].pin}
  BY <1>1
<1>3. ASSUME NEW j \in Channels, event'[j]
      PROVE  callbacksInt[j].pin \in owed'
  <2>1. event[j] /\ j # isr'
    BY <1>1, <1>3
  <2>2. ~freeChannels[j] /\ ~freeChannels[isr']
    BY <1>1, <2>1 DEF DisciplineInv, FreeIsSilent, freeSet
  <2>3. j < isr' \/ isr' < j
    BY <1>1, <2>1, GpioteAssumption DEF Channels
  <2>4. callbacksInt[j].pin # callbacksInt[isr'].pin
    BY <1>1, <2>2, <2>3 DEF DisciplineInv, BusyComesFirst
  <2> QED
    BY <1>2, <2>1, <2>4 DEF EventsOwed
<1> QED
  BY <1>1, <1>3 DEF EventsOwed

\* An edge is owed to the pin of every channel that it sets the event of.
LEMMA EdgeOwed ==
    ASSUME SafeInv, DisciplineInv, EventsOwed, NEW p \in Pins, Edge(p)
    PROVE  EventsOwed'
<1>1. /\ UNCHANGED <<callbacksInt, mode>>
      /\ event' = [j \in Channels |-> event[j] \/ mode[j] = p]
      /\ owed \subseteq owed'
  BY DEF Edge, table
<1>2. ASSUME NEW j \in Channels, mode[j] = p
      PROVE  callbacksInt[j].pin \in owed'
  <2>1. p # None
    BY GpioteAssumption DEF None
  <2>2. callbacksInt[j].pin = p /\ j \in busySet
    BY <1>2, <2>1 DEF EventsOwed, DisciplineInv, FreeIsSilent, busySet, freeSet
  <2>3. attached[p] # NoCb \/ (call.op = "enable" /\ call.pin = p)
    <3>1. CASE attaching(j)
      BY <1>2, <2>1, <2>2, <3>1 DEF DisciplineInv, CallInv, attaching
    <3>2. CASE ~attaching(j)
      BY <2>2, <3>2, GpioteAssumption DEF DisciplineInv, BusyIsAttached
    <3> QED
      BY <3>1, <3>2
  <2>4. ~(call.op \in {"mask", "free"} /\ call.pin = p)
    <3> SUFFICES ASSUME call.op \in {"mask", "free"}, call.pin = p
                 PROVE  FALSE
      OBVIOUS
    <3>1. /\ call.j \in Channels /\ callbacksInt[call.j].pin = p
          /\ call.j <= j /\ mode[call.j] = None
      BY <2>2 DEF DisciplineInv, CallInv, isFirst, entriesOf
    <3>2. call.j < j
      BY <1>2, <2>1, <3>1, GpioteAssumption DEF Channels
    <3> QED
      BY <2>2, <3>1, <3>2 DEF DisciplineInv, BusyComesFirst, busySet, freeSet
  <2> QED
    BY <2>2, <2>3, <2>4 DEF Edge, watched
<1> QED
  BY <1>1, <1>2 DEF EventsOwed

LEMMA StepOwed ==
    Disciplined /\ SafeInv /\ DisciplineInv /\ EventsOwed /\ [Next]_vars => EventsOwed'
<1> SUFFICES ASSUME Disciplined, SafeInv, DisciplineInv, EventsOwed, [Next]_vars
             PROVE  EventsOwed'
  OBVIOUS
<1>1. ASSUME UNCHANGED <<callbacksInt, mode, event, owed>>
      PROVE  EventsOwed'
  BY <1>1 DEF EventsOwed
<1>2. ASSUME NEW p \in Pins, NEW cb,
             \/ AttachPick(p, cb) \/ AttachFails(p) \/ DetachFind(p)
             \/ CallbackDetaches(p) \/ CallbackAttaches(p, cb)
      PROVE  EventsOwed'
  BY <1>1, <1>2 DEF AttachPick, AttachFails, DetachFind, CallbackDetaches,
                    CallbackAttaches, Disciplined, table, regs, ghosts
<1>3. CASE CallbackReturns \/ IrqExit \/ UNCHANGED vars
  BY <1>1, <1>3 DEF CallbackReturns, IrqExit, vars, gpio, table, regs, ghosts
<1> QED
  BY <1>2, <1>3, CallOwed, EnterOwed, EdgeOwed DEF Next, Sketch, Handler

\* Under the discipline a callback starts only because of an edge on its pin
\* since the pin was attached: a channel that is handed to another pin carries
\* no event over, and no second channel answers the same edge (WInterrupts.c
\* 62-75, 104-120).
THEOREM FunctionsRunOnEdges == Spec => RunsOnEdge
<1> DEFINE Inv == Disciplined => SafeInv /\ DisciplineInv
           Owed == Disciplined => EventsOwed
<1>1. Init => Owed
  BY DEF Init, EventsOwed
<1>2. Inv /\ Owed /\ [Next]_vars => Owed'
  <2>1. [Next]_vars => (Disciplined' <=> Disciplined)
    BY DEF Next, vars, Disciplined
  <2> QED
    BY <2>1, StepOwed
<1>3. Inv /\ Owed /\ [Next]_vars
        => [Disciplined /\ IrqEnter => callbacksInt[isr'].pin \in owed]_vars
  BY EnterOwed
<1>4. Spec => []Inv
  BY DisciplineInvariance
<1> HIDE DEF Inv, Owed
<1> QED
  BY <1>1, <1>2, <1>3, <1>4, PTL DEF Spec, RunsOnEdge
-------------------------------------------------------------------------------
(* The software serial ports. *)

attachOps == {"attach", "configure", "enable"}
detachOps == {"disable", "mask", "free"}
maskedOps == {"flush_tail", "flush_head", "flush_unmask", "start_bit", "data_bits", "unmask"}

PortTypes ==
    /\ active_object \in Ports \cup {NoPort}
    /\ intMask \in [Ports -> SUBSET Channels]
    /\ op \in [at : {"none", "reset", "attach", "stop", "stop_bit"} \cup maskedOps,
               port : Ports \cup {NoPort}]
    /\ recv \in {"no", "data_bits", "store", "stop_bit", "end"}

\* The call of the library, and the call of attachInterrupt or detachInterrupt that
\* it makes, or the sketch for another pin.
CallsInv ==
    /\ op.at = "none" => op = Idle
    /\ op.at \notin {"none", "stop"} => op.port \in Ports
    /\ op.at = "reset" => active_object = NoPort
    /\ op.at = "stop" => active_object \in Ports
    /\ op.at \in {"attach", "flush_tail", "flush_head", "flush_unmask"} =>
         active_object = op.port
    /\ call # NoCall =>
         \/ op.at = "none" /\ call.pin \in Others /\ call.cb # handle_interrupt
         \/ op.at = "stop" /\ call.pin = active_object /\ call.op \in detachOps
         \/ /\ op.at = "attach" /\ call.pin = op.port
            /\ call.op \in attachOps /\ call.cb = handle_interrupt

PortsInv == PortTypes /\ CallsInv

\* Of the ports only the one that listens has its function attached, and this is
\* the function of no other pin.
OnePort ==
    /\ \A p \in Pins : attached[p] # NoCb => (attached[p] = handle_interrupt <=> p \in Ports)
    /\ \A p \in Ports : attached[p] # NoCb => p = active_object /\ op.at # "attach"
    /\ op.at = "stop" /\ call = NoCall => attached[active_object] = NoCb

\* _intMask of a port that is attached is its channel.
MaskIsChannel ==
    \A p \in Ports : \A j \in busySet :
        callbacksInt[j].pin = p /\ ~attaching(j) => intMask[p] = {j}

\* A busy channel watches the pin of its entry.
BusyWatches ==
    \A j \in busySet :
        \/ mode[j] = callbacksInt[j].pin
        \/ call.op \in {"configure", "mask", "free"} /\ call.j = j

\* recv() runs in the handler, called by the port's function.
RecvInHandler ==
    recv # "no" =>
        /\ isr \in Channels /\ phase = "callback"
        /\ callbacksInt[isr].cb = handle_interrupt
        /\ active_object \in Ports

\* The channels that write(), flush() and recv() have masked.
Masked ==
    (IF recv = "no" THEN {} ELSE intMask[active_object])
    \cup (IF op.at \in maskedOps THEN intMask[op.port] ELSE {})

ListenInv ==
    /\ DisciplineInv /\ OnePort /\ MaskIsChannel /\ BusyWatches /\ RecvInHandler
    /\ EnabledBut(Masked)

\* Without functions of other pins there is but one channel, and it is masked while
\* a port sends.
OnlyPorts ==
    /\ \A p \in Others : attached[p] = NoCb
    /\ call # NoCall => op.at # "none"
    /\ \A j \in busySet : j = 0
    /\ \A p \in Ports : intMask[p] \in {{}, {0}}
    /\ op.at \in {"start_bit", "data_bits"} => isr = None /\ ~intEn[0]

\* The conditions under which the table of channels is kept.
Tidy == Disciplined \/ "others" \notin usage

\* What the library does to the interrupts besides its calls: it masks them and
\* enables them again, and the edges of frames set events.
Aside ==
    /\ UNCHANGED <<usage, table, mode, call, isr, ghosts>>
    /\ intEn' \in [Channels -> BOOLEAN] /\ event' \in [Channels -> BOOLEAN]
    /\ phase' \in {"callback", "exit"}
    /\ \A j \in Channels : event'[j] => event[j] \/ mode[j] # None

LEMMA AsideSafe == SafeInv /\ Aside => SafeInv'
  BY DEF Aside, SafeInv, TypeOK, OnlyFilledFire, HandlerFindsChannel, table, ghosts

LEMMA AsideDisciplined ==
    SafeInv /\ DisciplineInv /\ BusyWatches /\ Aside => DisciplineInv' /\ BusyWatches'
<1> SUFFICES ASSUME SafeInv, DisciplineInv, BusyWatches, Aside
             PROVE  DisciplineInv' /\ BusyWatches'
  OBVIOUS
<1>1. /\ UNCHANGED <<freeChannels, callbacksInt, mode, call, isr, attached>>
      /\ \A j \in Channels : event'[j] => event[j] \/ mode[j] # None
      /\ call.op # "none" => call.j \in Channels
  BY DEF Aside, table, ghosts, SafeInv, OnlyFilledFire, NoCall
<1> USE DEF DisciplineInv, freeSet, busySet
<1>2. CallInv'
  BY <1>1 DEF CallInv, isFirst, entriesOf
<1>3. FreeIsSilent'
  BY <1>1 DEF FreeIsSilent
<1>4. BusyIsAttached' /\ ServesLive'
  BY <1>1 DEF BusyIsAttached, ServesLive, attaching
<1>5. BusyComesFirst' /\ AttachedHasChannel' /\ BusyWatches'
  BY <1>1 DEF BusyComesFirst, AttachedHasChannel, BusyWatches
<1> QED
  BY <1>2, <1>3, <1>4, <1>5

\* The steps of the library that mask, enable, or wait.
LEMMA AsideSteps ==
    ASSUME SafeInv, UNCHANGED usage,
           \/ FlushMask \/ FlushUnmask \/ (\E p \in Ports : WriteMask(p)) \/ WriteUnmask
           \/ RecvBegin \/ RecvEnd \/ Tick
    PROVE  Aside
<1> USE DEF SafeInv, TypeOK
<1>1. CASE \/ FlushMask \/ FlushUnmask \/ (\E p \in Ports : WriteMask(p)) \/ WriteUnmask
  BY <1>1 DEF FlushMask, FlushUnmask, WriteMask, WriteUnmask, intenClr, intenSet,
              sketchOnly, Aside
<1>2. CASE RecvBegin \/ RecvEnd
  BY <1>2 DEF RecvBegin, RecvEnd, intenClr, intenSet, Aside
<1>3. CASE Tick
  <2>1. PICK begins \in {{}} \cup {{p} : p \in Ports},
             noisy \in SUBSET {p \in Ports : line[p].bit = "start"} :
               event' = [j \in Channels |-> event[j] \/ mode[j] \in begins \cup noisy]
    BY <1>3 DEF Tick
  <2>2. None \notin begins \cup noisy
    BY <2>1, GpioteAssumption, SoftSerialAssumption DEF None
  <2>3. /\ event' \in [Channels -> BOOLEAN]
        /\ \A j \in Channels : event'[j] => event[j] \/ mode[j] # None
    BY <2>1, <2>2
  <2>4. UNCHANGED <<table, mode, intEn, call, isr, phase, ghosts>>
    BY <1>3 DEF Tick
  <2> QED
    BY <2>3, <2>4 DEF Aside
<1> QED
  BY <1>1, <1>2, <1>3

\* A step on the ports is a step of the interrupts, or aside from them.
LEMMA PortStep ==
    ASSUME SafeInv, PortsInv, [SoftNext]_<<usage, softVars, gpio>>
    PROVE  [Next]_vars \/ (UNCHANGED usage /\ Aside)
<1>1. UNCHANGED usage
  BY DEF SoftNext
<1>2. Ports \subseteq Pins /\ handle_interrupt \in Callbacks
  BY SoftSerialAssumption
<1>3. UNCHANGED gpio => [Next]_vars
  BY <1>1 DEF vars
<1>4. ASSUME NEW p \in Ports, Listen(p)
      PROVE  [Next]_vars
  <2>1. active_object \in Ports \/ UNCHANGED gpio
    BY <1>4 DEF PortsInv, PortTypes, Listen
  <2> QED
    BY <1>1, <1>2, <1>3, <1>4, <2>1 DEF Listen, Next, Sketch
<1>5. CASE StopListening
  <2>1. active_object \in Ports
    BY <1>5 DEF PortsInv, PortTypes, StopListening
  <2> QED
    BY <1>1, <1>2, <1>3, <1>5, <2>1 DEF StopListening, Next, Sketch
<1>6. CASE Stopped \/ ListenReset \/ Read \/ FlushTail \/ FlushHead
           \/ \E p \in Ports : Overflow(p)
  BY <1>3, <1>6 DEF Stopped, ListenReset, Read, FlushTail, FlushHead, Overflow
<1>7. CASE ListenAttach
  <2>1. op.port \in Ports
    BY <1>7 DEF PortsInv, CallsInv, ListenAttach, sketchIs
  <2> QED
    BY <1>1, <1>2, <1>7, <2>1 DEF ListenAttach, Next, Sketch
<1>8. CASE ListenAttached \/ CallStep
  BY <1>1, <1>8 DEF ListenAttached, CallStep, Next, Sketch
<1>9. ASSUME NEW p \in Others, UserCall(p)
      PROVE  [Next]_vars
  BY <1>1, <1>9 DEF UserCall, userCallbacks, Others, Next, Sketch
<1>10. CASE FlushMask \/ FlushUnmask \/ (\E p \in Ports : WriteMask(p)) \/ WriteUnmask
            \/ RecvBegin \/ RecvEnd \/ Tick
  BY <1>1, <1>10, AsideSteps
<1>11. CASE (IrqEnter \/ IrqExit) /\ UNCHANGED softVars
  BY <1>1, <1>11 DEF Next, Handler
<1>12. CASE RecvIgnores
  BY <1>1, <1>12 DEF RecvIgnores, Next, Handler
<1>13. CASE RecvStore
  BY <1>3, <1>13 DEF RecvStore
<1>14. CASE UserCallback
  BY <1>1, <1>14 DEF UserCallback, userCallbacks, Others, Next, Handler
<1>15. CASE UserEdge
  BY <1>1, <1>15 DEF UserEdge, Others, Next
<1>16. CASE UNCHANGED <<usage, softVars, gpio>>
  BY <1>3, <1>16
<1> QED
  BY <1>4, <1>5, <1>6, <1>7, <1>8, <1>9, <1>10, <1>11, <1>12, <1>13, <1>14, <1>15,
     <1>16 DEF SoftNext, SoftSketch, SoftHandler

LEMMA InitPorts == SoftInit => SafeInv /\ PortsInv
<1> SUFFICES ASSUME SoftInit
             PROVE  SafeInv /\ PortsInv
  OBVIOUS
<1>1. SafeInv
  BY InitSafe DEF SoftInit
<1>2. call = NoCall
  BY DEF SoftInit, Init
<1> QED
  BY <1>1, <1>2 DEF SoftInit, PortsInv, PortTypes, CallsInv, Idle, maskedOps

LEMMA StepPorts ==
    ASSUME SafeInv, PortsInv, [SoftNext]_<<usage, softVars, gpio>>
    PROVE  PortsInv'
<1> USE DEF PortsInv, PortTypes, CallsInv, attachOps, detachOps, maskedOps, sketchIs
<1>1. Ports \subseteq Pins /\ NoPort \notin Ports /\ handle_interrupt \in Callbacks
  BY SoftSerialAssumption
<1>2. /\ call \in Call /\ freeChannels \in [Channels -> BOOLEAN]
      /\ call # NoCall => call.j \in Channels
  BY DEF SafeInv, TypeOK, OnlyFilledFire
<1> DEFINE soft == <<active_object, intMask, op, recv>>
<1>3. ASSUME UNCHANGED soft, UNCHANGED call
      PROVE  PortsInv'
  BY <1>3
<1>4. ASSUME NEW p \in Ports, Listen(p)
      PROVE  PortsInv'
  <2>1. UNCHANGED <<active_object, intMask, recv>> /\ op.at = "none" /\ call = NoCall
    BY <1>4 DEF Listen, portVars, recvVars
  <2>2. CASE active_object = NoPort
    BY <1>4, <2>1, <2>2 DEF Listen, gpio
  <2>3. CASE active_object # NoPort
    <3>1. op' = [at |-> "stop", port |-> p]
      BY <1>4, <2>3 DEF Listen
    <3>2. \/ call' = call
          \/ call'.pin = active_object /\ call'.op = "disable"
      BY <1>4, <2>3 DEF Listen, DetachFind, gpio
    <3> QED
      BY <2>1, <2>3, <3>1, <3>2
  <2> QED
    BY <2>2, <2>3
<1>5. CASE StopListening
  <2>1. /\ UNCHANGED <<active_object, intMask, recv>> /\ op.at = "none" /\ call = NoCall
        /\ active_object # NoPort /\ op' = [at |-> "stop", port |-> NoPort]
    BY <1>5 DEF StopListening, portVars, recvVars
  <2>2. \/ call' = call
        \/ call'.pin = active_object /\ call'.op = "disable"
    BY <1>5 DEF StopListening, DetachFind, gpio
  <2> QED
    BY <2>1, <2>2
<1>6. CASE Stopped
  <2>1. /\ active_object' = NoPort /\ call = NoCall /\ call' = call
        /\ op' = IF op.port = NoPort THEN Idle ELSE [op EXCEPT !.at = "reset"]
        /\ UNCHANGED <<intMask, recv>>
    BY <1>6 DEF Stopped, gpio, recvVars
  <2> QED
    BY <2>1 DEF Idle
<1>7. CASE ListenReset
  <2>1. /\ active_object' = op.port /\ call = NoCall /\ call' = call
        /\ op' = [op EXCEPT !.at = "attach"] /\ op.at = "reset"
        /\ UNCHANGED <<intMask, recv>>
    BY <1>7 DEF ListenReset, gpio, recvVars
  <2> QED
    BY <2>1
<1>8. CASE ListenAttach
  <2>1. /\ op.at = "attach" /\ call = NoCall /\ UNCHANGED <<active_object, recv>>
    BY <1>8 DEF ListenAttach, recvVars
  <2>2. CASE AttachPick(op.port, handle_interrupt) /\ UNCHANGED <<intMask, op>>
    BY <2>1, <2>2 DEF AttachPick
  <2>3. CASE /\ AttachFails(op.port)
             /\ intMask' = [intMask EXCEPT ![op.port] = Channels]
             /\ op' = Idle
    BY <2>1, <2>3 DEF AttachFails, Idle
  <2> QED
    BY <1>8, <2>2, <2>3 DEF ListenAttach
<1>9. CASE ListenAttached
  <2>1. /\ call.op = "enable" /\ call' = NoCall /\ UNCHANGED <<active_object, recv>>
        /\ IF op.at = "attach"
           THEN intMask' = [intMask EXCEPT ![op.port] = {call.j}] /\ op' = Idle
           ELSE UNCHANGED <<intMask, op>>
    BY <1>9 DEF ListenAttached, AttachEnable, recvVars
  <2>2. call # NoCall
    BY <2>1 DEF NoCall
  <2> QED
    BY <1>2, <2>1, <2>2 DEF Idle
<1>10. CASE CallStep
  <2>1. UNCHANGED soft
    BY <1>10 DEF CallStep, softVars, portVars, recvVars
  <2>2. \/ call'.pin = call.pin /\ call'.cb = call.cb /\ call.op \in {"attach", "configure"}
           /\ call'.op \in {"configure", "enable"}
        \/ call'.pin = call.pin /\ call'.cb = call.cb /\ call.op \in {"disable", "mask"}
           /\ call'.op \in {"mask", "free"}
        \/ call' = NoCall /\ call.op = "free"
    BY <1>2, <1>10 DEF CallStep, AttachRecord, AttachConfigure, DetachDisable,
                       DetachMask, DetachFree, Call
  <2>3. call # NoCall
    BY <2>2 DEF NoCall
  <2> QED
    BY <2>1, <2>2, <2>3
<1>11. ASSUME NEW p \in Others, UserCall(p)
       PROVE  PortsInv'
  <2>1. UNCHANGED soft /\ op.at = "none" /\ handle_interrupt # NoCb
    BY <1>1, <1>11, GpioteAssumption DEF UserCall, Idle, softVars, portVars, recvVars
  <2>2. \/ call' = call
        \/ call'.pin \in Others /\ call'.cb # handle_interrupt
    BY <1>11, <2>1 DEF UserCall, AttachPick, AttachFails, DetachFind, userCallbacks
  <2> QED
    BY <2>1, <2>2
<1>12. CASE Read \/ \E p \in Ports : Overflow(p)
  BY <1>3, <1>12 DEF Read, Overflow, gpio, portVars, recvVars
<1>13. CASE \/ FlushMask \/ FlushTail \/ FlushHead \/ FlushUnmask
            \/ (\E p \in Ports : WriteMask(p)) \/ WriteUnmask
  <2>1. UNCHANGED <<active_object, intMask, recv, call>> /\ call = NoCall
    BY <1>13 DEF FlushMask, FlushTail, FlushHead, FlushUnmask, WriteMask, WriteUnmask,
                 sketchOnly, gpio, portVars, recvVars
  <2>2. \/ active_object # NoPort /\ op' = [at |-> "flush_tail", port |-> active_object]
        \/ op.at = "flush_tail" /\ op' = [op EXCEPT !.at = "flush_head"]
        \/ op.at = "flush_head" /\ op' = [op EXCEPT !.at = "flush_unmask"]
        \/ op' = Idle
        \/ \E p \in Ports : op' = [at |-> "start_bit", port |-> p]
        \/ op.at = "unmask" /\ op' = [op EXCEPT !.at = "stop_bit"]
    BY <1>13 DEF FlushMask, FlushTail, FlushHead, FlushUnmask, WriteMask, WriteUnmask
  <2> QED
    BY <2>1, <2>2 DEF Idle
<1>14. CASE (IrqEnter \/ IrqExit) /\ UNCHANGED softVars
  BY <1>3, <1>14 DEF IrqEnter, IrqExit, softVars, portVars, recvVars
<1>15. CASE RecvIgnores \/ UserCallback
  BY <1>3, <1>15 DEF RecvIgnores, UserCallback, CallbackReturns, CallbackDetaches,
                     CallbackAttaches, softVars, portVars, recvVars
<1>16. CASE RecvBegin \/ RecvStore \/ RecvEnd
  BY <1>16 DEF RecvBegin, RecvStore, RecvEnd, gpio, portVars, recvVars
<1>17. CASE Tick
  <2>1. UNCHANGED <<active_object, intMask, call>>
    BY <1>17 DEF Tick, portVars
  <2>2. recv' \in {"no", "data_bits", "store", "stop_bit", "end"}
    <3>1. recv' = CASE recv = "data_bits" -> "store"
                    [] recv = "stop_bit"  -> "end"
                    [] OTHER              -> recv
      BY <1>17 DEF Tick
    <3> QED
      BY <3>1
  <2>3. \/ op' = op
        \/ op.at = "stop_bit" /\ op' = Idle
        \/ op.at = "start_bit" /\ op' = [op EXCEPT !.at = "data_bits"]
        \/ op.at = "data_bits" /\ op' = [op EXCEPT !.at = "unmask"]
    <3>1. op' = IF isr # None THEN op
                ELSE IF op.at = "stop_bit" THEN Idle
                ELSE [op EXCEPT !.at = delayed(op.at)]
      BY <1>17 DEF Tick
    <3>2. op.at \notin {"start_bit", "data_bits", "stop_bit"} => [op EXCEPT !.at = delayed(op.at)] = op
      BY DEF delayed
    <3> QED
      BY <3>1, <3>2 DEF delayed
  <2> QED
    BY <2>1, <2>2, <2>3 DEF Idle
<1>18. CASE UserEdge
  BY <1>3, <1>18 DEF UserEdge, Edge, softVars, portVars, recvVars
<1>19. CASE UNCHANGED <<usage, softVars, gpio>>
  BY <1>3, <1>19 DEF softVars, portVars, recvVars, gpio
<1> QED
  BY <1>4, <1>5, <1>6, <1>7, <1>8, <1>9, <1>10, <1>11, <1>12, <1>13, <1>14, <1>15,
     <1>16, <1>17, <1>18, <1>19 DEF SoftNext, SoftSketch, SoftHandler

LEMMA StepSoftSafe ==
    SafeInv /\ PortsInv /\ [SoftNext]_<<usage, softVars, gpio>> => SafeInv' /\ PortsInv'
  BY PortStep, StepPorts, StepSafe, AsideSafe

\* A step of attachInterrupt or detachInterrupt that attaches no attached pin.
Calling ==
    \/ \E p \in Pins, cb \in Callbacks : AttachPick(p, cb) /\ attached[p] = NoCb
    \/ \E p \in Pins : AttachFails(p) \/ DetachFind(p)
    \/ AttachRecord \/ AttachConfigure \/ AttachEnable
    \/ DetachDisable \/ DetachMask \/ DetachFree

\* A step of the handler with a callback that does not call back, or an edge.
Serving == \/ IrqEnter \/ CallbackReturns \/ IrqExit
           \/ \E p \in Pins : Edge(p)

LEMMA CallingKeeps ==
    ASSUME SafeInv, DisciplineInv, BusyWatches, EnabledBut({}), Calling
    PROVE  DisciplineInv' /\ BusyWatches' /\ EnabledBut({})'
<1>1. /\ freeChannels \in [Channels -> BOOLEAN] /\ call \in Call
      /\ mode \in [Channels -> Pins \union {None}]
      /\ callbacksInt \in [Channels -> Entry]
      /\ call.op # "none" => call.j \in Channels
  BY DEF SafeInv, TypeOK, OnlyFilledFire, NoCall
<1>2. DisciplineInv'
  <2>1. CASE \E p \in Pins, cb \in Callbacks : AttachPick(p, cb) /\ attached[p] = NoCb
    BY <2>1, BeginStep
  <2>2. CASE \E p \in Pins : AttachFails(p) \/ DetachFind(p)
    BY <2>2, BeginStep
  <2>3. CASE AttachRecord
    BY <2>3, RecordStep
  <2>4. CASE AttachConfigure \/ AttachEnable \/ DetachDisable \/ DetachMask
    <3>1. sketchRuns
      BY <2>4 DEF AttachConfigure, AttachEnable, DetachDisable, DetachMask
    <3> QED
      BY <2>4, <3>1, ConfigureStep
  <2>5. CASE DetachFree
    BY <2>5, FreeStep
  <2> QED
    BY <2>1, <2>2, <2>3, <2>4, <2>5 DEF Calling
<1>3. BusyWatches'
  <2> USE DEF BusyWatches, busySet, freeSet
  <2>1. CASE \/ \E p \in Pins, cb \in Callbacks : AttachPick(p, cb) /\ attached[p] = NoCb
             \/ \E p \in Pins : AttachFails(p) \/ DetachFind(p)
    <3>1. call = NoCall /\ UNCHANGED <<freeChannels, callbacksInt, mode>>
      BY <2>1 DEF AttachPick, AttachFails, DetachFind, table, regs
    <3> QED
      BY <3>1 DEF NoCall
  <2>2. CASE AttachRecord \/ AttachEnable
    BY <1>1, <2>2 DEF AttachRecord, AttachEnable, Call, table, regs
  <2>3. CASE AttachConfigure
    <3>1. callbacksInt[call.j].pin = call.pin
      BY <2>3 DEF AttachConfigure, DisciplineInv, CallInv
    <3> QED
      BY <1>1, <2>3, <3>1 DEF AttachConfigure, Call, table
  <2>4. CASE DetachDisable \/ DetachMask
    BY <1>1, <2>4 DEF DetachDisable, DetachMask, Call, table
  <2>5. CASE DetachFree
    BY <1>1, <2>5 DEF DetachFree, Call, regs
  <2> QED
    BY <2>1, <2>2, <2>3, <2>4, <2>5 DEF Calling
<1>4. Sketch
  BY DEF Calling, Sketch
<1> QED
  BY <1>2, <1>3, <1>4, SketchEnables

LEMMA ServingKeeps ==
    ASSUME SafeInv, DisciplineInv, BusyWatches, NEW masked, EnabledBut(masked), Serving
    PROVE  DisciplineInv' /\ BusyWatches' /\ EnabledBut(masked)'
<1>1. UNCHANGED <<freeChannels, callbacksInt, mode, call>>
  BY DEF Serving, IrqEnter, CallbackReturns, IrqExit, Edge, table, regs, ghosts
<1>2. BusyWatches'
  BY <1>1 DEF BusyWatches, busySet, freeSet
<1> QED
  BY <1>2, HandlerStep, HandlerEnables DEF Serving

\* Masking and enabling that is accounted for.
LEMMA MaskedAside ==
    ASSUME EnabledBut(Masked), UNCHANGED <<freeChannels, call, isr>>,
           \A j \in Channels : intEn[j] \/ j \in Masked => intEn'[j] \/ j \in Masked'
    PROVE  EnabledBut(Masked)'
  BY DEF EnabledBut, busySet, freeSet, attaching

\* While the sketch runs, nothing is masked but for its own write() or flush().
LEMMA SketchUnmasked ==
    ASSUME PortsInv, RecvInHandler, sketchRuns
    PROVE  /\ recv = "no"
           /\ op.at \notin maskedOps => Masked = {}
<1>1. isr \notin Channels
  BY GpioteAssumption DEF sketchRuns, None, Channels
<1> QED
  BY <1>1 DEF RecvInHandler, Masked

\* The functions of pins other than the ports are their own.
LEMMA CallbackOfBusy ==
    ASSUME SafeInv, PortsInv, DisciplineInv, OnePort, NEW j \in busySet
    PROVE  callbacksInt[j].cb = handle_interrupt <=> callbacksInt[j].pin \in Ports
<1>1. j \in Channels /\ callbacksInt[j].pin \in Pins /\ callbacksInt[j].cb # NoCb
  BY GpioteAssumption DEF DisciplineInv, BusyIsAttached, busySet
<1>2. CASE attaching(j)
  <2>1. /\ callbacksInt[j].pin = call.pin /\ callbacksInt[j].cb = call.cb
        /\ call.op \in {"configure", "enable"} /\ call # NoCall
    BY <1>2 DEF attaching, DisciplineInv, CallInv, NoCall
  <2>2. \/ call.cb = handle_interrupt /\ call.pin \in Ports
        \/ call.cb # handle_interrupt /\ call.pin \notin Ports
    BY <2>1 DEF PortsInv, CallsInv, detachOps, Others
  <2> QED
    BY <2>1, <2>2
<1>3. CASE ~attaching(j)
  BY <1>1, <1>3 DEF DisciplineInv, BusyIsAttached, OnePort
<1> QED
  BY <1>2, <1>3

OnlyInv == "others" \notin usage => OnlyPorts

\* No callback calls back.
LEMMA CallbacksReturn ==
    ASSUME SafeInv, PortsInv, ListenInv, OnlyInv, Tidy, UserCallback
    PROVE  CallbackReturns /\ recv = "no"
<1>1. recv = "no"
  BY DEF UserCallback, ListenInv, RecvInHandler
<1>2. CASE Disciplined
  BY <1>1, <1>2 DEF UserCallback, CallbackDetaches, CallbackAttaches, Disciplined
<1>3. CASE "others" \notin usage
  <2>1. isr \in Channels /\ callbacksInt[isr].cb # handle_interrupt
    BY DEF UserCallback, inCallback
  <2>2. isr \in busySet
    BY <2>1 DEF ListenInv, DisciplineInv, ServesLive, busySet, freeSet
  <2>3. callbacksInt[isr].pin \in Others
    BY <2>1, <2>2, CallbackOfBusy DEF ListenInv, DisciplineInv, BusyIsAttached, Others
  <2>4. CASE attaching(isr)
    <3>1. call # NoCall /\ callbacksInt[isr].cb = call.cb /\ call.op \in {"configure", "enable"}
      BY <2>4 DEF attaching, ListenInv, DisciplineInv, CallInv, NoCall
    <3> QED
      BY <1>3, <2>1, <3>1 DEF OnlyInv, OnlyPorts, PortsInv, CallsInv, detachOps
  <2>5. CASE ~attaching(isr)
    <3>1. attached[callbacksInt[isr].pin] # NoCb
      BY <2>2, <2>5, GpioteAssumption DEF ListenInv, DisciplineInv, BusyIsAttached
    <3> QED
      BY <1>3, <2>3, <3>1 DEF OnlyInv, OnlyPorts
  <2> QED
    BY <2>4, <2>5
<1> QED
  BY <1>2, <1>3 DEF Tidy

\* The steps that leave the channels alone.
Apart ==
    /\ UNCHANGED gpio
    /\ \/ (\E p \in Ports : Listen(p) \/ Overflow(p)) \/ StopListening \/ Stopped
       \/ ListenReset \/ Read \/ FlushTail \/ FlushHead \/ RecvStore \/ UNCHANGED softVars

\* What a step on the ports is to the table of channels.
LEMMA TidySteps ==
    ASSUME SafeInv, PortsInv, ListenInv, OnlyInv, Tidy,
           [SoftNext]_<<usage, softVars, gpio>>
    PROVE  \/ Calling /\ Masked = {}
           \/ Serving /\ UNCHANGED softVars
           \/ Apart
           \/ FlushMask \/ FlushUnmask \/ (\E p \in Ports : WriteMask(p)) \/ WriteUnmask
           \/ RecvBegin \/ RecvEnd \/ Tick
<1>1. Ports \subseteq Pins /\ handle_interrupt \in Callbacks
  BY SoftSerialAssumption
<1>2. ASSUME sketchRuns, op.at \notin maskedOps
      PROVE  Masked = {}
  BY <1>2, SketchUnmasked DEF ListenInv
<1>3. ASSUME NEW p \in Ports, Listen(p)
      PROVE  (Calling /\ Masked = {}) \/ Apart
  <2>1. sketchRuns /\ op.at = "none"
    BY <1>3 DEF Listen, sketchIs
  <2>2. active_object \in Ports \/ UNCHANGED gpio
    BY <1>3 DEF PortsInv, PortTypes, Listen
  <2> QED
    BY <1>1, <1>2, <1>3, <2>1, <2>2 DEF Listen, Calling, Apart, maskedOps
<1>4. ASSUME StopListening
      PROVE  (Calling /\ Masked = {}) \/ Apart
  <2>1. sketchRuns /\ op.at = "none" /\ active_object \in Ports
    BY <1>4 DEF StopListening, sketchIs, PortsInv, PortTypes
  <2> QED
    BY <1>1, <1>2, <1>4, <2>1 DEF StopListening, Calling, Apart, maskedOps
<1>5. ASSUME ListenAttach
      PROVE  Calling /\ Masked = {}
  <2>1. sketchRuns /\ op.at = "attach" /\ op.port \in Ports
    BY <1>5 DEF ListenAttach, sketchIs, PortsInv, CallsInv
  <2>2. attached[op.port] = NoCb
    BY <2>1 DEF ListenInv, OnePort
  <2> QED
    BY <1>1, <1>2, <1>5, <2>1, <2>2 DEF ListenAttach, Calling, maskedOps
<1>6. ASSUME ListenAttached \/ CallStep
      PROVE  Calling /\ Masked = {}
  <2>1. sketchRuns /\ call # NoCall
    BY <1>6 DEF ListenAttached, CallStep, AttachRecord, AttachConfigure, AttachEnable,
                DetachDisable, DetachMask, DetachFree, NoCall
  <2>2. op.at \notin maskedOps
    BY <2>1 DEF PortsInv, CallsInv, maskedOps
  <2> QED
    BY <1>2, <1>6, <2>1, <2>2 DEF ListenAttached, CallStep, Calling
<1>7. ASSUME NEW p \in Others, UserCall(p)
      PROVE  Calling /\ Masked = {}
  <2>1. sketchRuns /\ op.at = "none" /\ p \in Pins
    BY <1>7 DEF UserCall, AttachPick, AttachFails, DetachFind, Idle, Others
  <2>2. ASSUME NEW cb, AttachPick(p, cb)
        PROVE  attached[p] = NoCb
    BY <1>7, <2>2 DEF UserCall, AttachPick, mayAttach, Tidy, Disciplined
  <2> QED
    BY <1>2, <1>7, <2>1, <2>2 DEF UserCall, userCallbacks, Calling, maskedOps
<1>8. CASE \/ (IrqEnter \/ IrqExit) /\ UNCHANGED softVars
           \/ RecvIgnores \/ UserCallback \/ UserEdge
  BY <1>8, CallbacksReturn DEF RecvIgnores, UserCallback, UserEdge, Others, Serving
<1>9. CASE Stopped \/ ListenReset \/ Read \/ FlushTail \/ FlushHead \/ RecvStore
           \/ \E p \in Ports : Overflow(p)
  BY <1>9 DEF Apart, Stopped, ListenReset, Read, FlushTail, FlushHead, Overflow, RecvStore
<1>10. CASE UNCHANGED <<usage, softVars, gpio>>
  BY <1>10 DEF Apart
<1> QED
  BY <1>3, <1>4, <1>5, <1>6, <1>7, <1>8, <1>9, <1>10 DEF SoftNext, SoftSketch, SoftHandler

LEMMA StepTable ==
    ASSUME SafeInv, PortsInv, ListenInv, OnlyInv, Tidy,
           [SoftNext]_<<usage, softVars, gpio>>
    PROVE  DisciplineInv' /\ BusyWatches' /\ EnabledBut(Masked)'
<1>1. DisciplineInv /\ BusyWatches /\ EnabledBut(Masked) /\ UNCHANGED usage
  BY DEF ListenInv, SoftNext
<1>2. CASE Calling /\ Masked = {}
  BY <1>1, <1>2, CallingKeeps DEF EnabledBut
<1>3. CASE Serving /\ UNCHANGED softVars
  <2>1. PICK masked : masked = Masked
    OBVIOUS
  <2>2. DisciplineInv' /\ BusyWatches' /\ EnabledBut(masked)'
    BY <1>1, <1>3, <2>1, ServingKeeps
  <2>3. Masked' = masked
    BY <1>3, <2>1 DEF Masked, softVars, portVars, recvVars
  <2> QED
    BY <2>2, <2>3 DEF EnabledBut
<1>4. ASSUME \/ FlushMask \/ FlushUnmask \/ (\E p \in Ports : WriteMask(p)) \/ WriteUnmask
             \/ RecvBegin \/ RecvEnd \/ Tick
      PROVE  /\ Aside
             /\ \A j \in Channels : intEn[j] \/ j \in Masked => intEn'[j] \/ j \in Masked'
  <2>1. Aside
    BY <1>1, <1>4, AsideSteps
  <2>2. intEn \in [Channels -> BOOLEAN]
    BY DEF SafeInv, TypeOK
  <2>3. CASE FlushMask \/ \E p \in Ports : WriteMask(p)
    <3>1. Masked = {} /\ recv = "no" /\ recv' = "no"
      <4>1. sketchRuns /\ op.at = "none" /\ recv' = recv
        BY <2>3 DEF FlushMask, WriteMask, sketchIs, recvVars
      <4> QED
        BY <4>1, SketchUnmasked DEF ListenInv, maskedOps
    <3>2. CASE FlushMask
      <4>1. /\ intEn' = [j \in Channels |-> intEn[j] /\ j \notin intMask[active_object]]
            /\ op'.at = "flush_tail" /\ op'.port = active_object /\ intMask' = intMask
        BY <3>2 DEF FlushMask, intenClr, portVars
      <4>2. Masked' = intMask[active_object]
        BY <3>1, <4>1 DEF Masked, maskedOps
      <4> QED
        BY <2>1, <2>2, <3>1, <4>1, <4>2
    <3>3. ASSUME NEW p \in Ports, WriteMask(p)
          PROVE  \A j \in Channels : intEn[j] \/ j \in Masked => intEn'[j] \/ j \in Masked'
      BY <2>2, <3>1, <3>3 DEF WriteMask, intenClr, Masked, maskedOps, portVars
    <3> QED
      BY <2>1, <2>3, <3>2, <3>3
  <2>4. CASE FlushUnmask \/ WriteUnmask
    <3>1. sketchRuns
      BY <2>4 DEF FlushUnmask, WriteUnmask, sketchIs
    <3>2. recv = "no"
      BY <3>1, SketchUnmasked DEF ListenInv
    <3> QED
      BY <2>1, <2>2, <2>4, <3>2 DEF FlushUnmask, WriteUnmask, sketchIs, intenSet, Masked
  <2>5. CASE RecvBegin
    <3>1. Masked' = Masked \cup intMask[active_object]
      BY <2>5 DEF RecvBegin, Masked, portVars
    <3> QED
      BY <2>1, <2>2, <2>5, <3>1 DEF RecvBegin, intenClr
  <2>6. CASE RecvEnd
    <3>1. Masked \subseteq Masked' \cup intMask[active_object]
      BY <2>6 DEF RecvEnd, Masked, portVars
    <3> QED
      BY <2>1, <2>2, <2>6, <3>1 DEF RecvEnd, intenSet
  <2>7. CASE Tick
    <3>1. /\ UNCHANGED <<active_object, intMask, intEn>>
          /\ recv = "no" <=> recv' = "no"
          /\ op.at \in maskedOps => op'.at \in maskedOps /\ op'.port = op.port
      <4>1. /\ UNCHANGED <<active_object, intMask, intEn>>
            /\ recv' = CASE recv = "data_bits" -> "store"
                         [] recv = "stop_bit"  -> "end"
                         [] OTHER              -> recv
            /\ op' = IF isr # None THEN op
                     ELSE IF op.at = "stop_bit" THEN Idle
                     ELSE [op EXCEPT !.at = delayed(op.at)]
        BY <2>7 DEF Tick, portVars
      <4>2. op.at \in maskedOps => op'.at \in maskedOps /\ op'.port = op.port
        BY <4>1 DEF delayed, maskedOps, PortsInv, PortTypes
      <4> QED
        BY <4>1, <4>2
    <3> QED
      BY <2>1, <3>1 DEF Masked
  <2> QED
    BY <1>4, <2>3, <2>4, <2>5, <2>6, <2>7
<1>5. CASE \/ FlushMask \/ FlushUnmask \/ (\E p \in Ports : WriteMask(p)) \/ WriteUnmask
           \/ RecvBegin \/ RecvEnd \/ Tick
  BY <1>1, <1>4, <1>5, AsideDisciplined, MaskedAside DEF Aside, table
<1>6. CASE Apart
  <2>1. Masked' = Masked
    <3>1. CASE sketchRuns /\ op.at \notin maskedOps /\ op'.at \notin maskedOps /\ recv' = recv
      BY <3>1, SketchUnmasked DEF ListenInv, Masked
    <3>2. CASE \/ Stopped \/ ListenReset \/ Read \/ (\E p \in Ports : Overflow(p))
               \/ (\E p \in Ports : Listen(p)) \/ StopListening
      <4>1. sketchRuns /\ op.at \in {"none", "stop", "reset"} /\ recv' = recv
        BY <3>2 DEF Stopped, ListenReset, Read, Overflow, Listen, StopListening,
                    sketchIs, recvVars
      <4>2. op'.at \in {"none", "stop", "reset", "attach"}
        BY <3>2, <4>1 DEF Stopped, ListenReset, Read, Overflow, Listen, StopListening, Idle,
                          sketchIs, PortsInv, PortTypes, maskedOps
      <4> QED
        BY <3>1, <4>1, <4>2 DEF maskedOps
    <3>3. CASE FlushTail \/ FlushHead
      BY <3>3 DEF FlushTail, FlushHead, sketchIs, Masked, maskedOps, portVars, recvVars,
                  PortsInv, PortTypes
    <3>4. CASE RecvStore
      BY <3>4 DEF RecvStore, Masked
    <3>5. CASE UNCHANGED softVars
      BY <3>5 DEF softVars, portVars, recvVars, Masked
    <3> QED
      BY <1>6, <3>2, <3>3, <3>4, <3>5 DEF Apart
  <2>2. UNCHANGED gpio
    BY <1>6 DEF Apart
  <2> QED
    BY <1>1, <2>1, <2>2 DEF gpio, table, regs, ghosts, DisciplineInv, CallInv, FreeIsSilent,
       BusyIsAttached, BusyComesFirst, AttachedHasChannel, ServesLive, EnabledBut,
       BusyWatches, attaching, isFirst, freeSet, busySet, entriesOf
<1> QED
  BY <1>2, <1>3, <1>5, <1>6, TidySteps

\* What the steps of the library do to its call, apart from the calls of
\* attachInterrupt and detachInterrupt.
LEMMA OpOfTick ==
    ASSUME PortsInv, Tick
    PROVE  /\ UNCHANGED <<active_object, intMask, intEn, call, isr, phase, table, mode, attached>>
           /\ recv' # "no" <=> recv # "no"
           /\ \/ op' = op
              \/ op.at = "stop_bit" /\ op' = Idle
              \/ op.at = "start_bit" /\ op' = [op EXCEPT !.at = "data_bits"] /\ isr = None
              \/ op.at = "data_bits" /\ op' = [op EXCEPT !.at = "unmask"] /\ isr = None
<1>1. /\ UNCHANGED <<active_object, intMask, intEn, call, isr, phase, table, mode, attached>>
      /\ recv' = CASE recv = "data_bits" -> "store"
                   [] recv = "stop_bit"  -> "end"
                   [] OTHER              -> recv
      /\ op' = IF isr # None THEN op
               ELSE IF op.at = "stop_bit" THEN Idle
               ELSE [op EXCEPT !.at = delayed(op.at)]
  BY DEF Tick, portVars, ghosts
<1>2. recv' # "no" <=> recv # "no"
  BY <1>1
<1>3. op.at \notin {"start_bit", "data_bits", "stop_bit"} => [op EXCEPT !.at = delayed(op.at)] = op
  BY DEF delayed, PortsInv, PortTypes
<1> QED
  BY <1>1, <1>2, <1>3 DEF delayed

\* The steps that change neither who listens nor what is attached.
Steady == /\ UNCHANGED <<active_object, attached, call>>
          /\ op.at \in {"stop", "attach"} \/ op'.at \in {"stop", "attach"} => op' = op

LEMMA SteadySteps ==
    ASSUME SafeInv, PortsInv, ListenInv, OnlyInv, Tidy,
           \/ Read \/ FlushMask \/ FlushTail \/ FlushHead \/ FlushUnmask \/ WriteUnmask
           \/ (\E p \in Ports : Overflow(p) \/ WriteMask(p))
           \/ SoftHandler \/ Tick \/ UserEdge \/ UNCHANGED <<usage, softVars, gpio>>
    PROVE  Steady /\ UNCHANGED <<freeChannels, callbacksInt, mode, intMask, refused>>
<1>1. CASE \/ Read \/ FlushMask \/ FlushTail \/ FlushHead \/ FlushUnmask \/ WriteUnmask
           \/ (\E p \in Ports : Overflow(p) \/ WriteMask(p))
  <2>1. /\ UNCHANGED <<active_object, attached, call, freeChannels, callbacksInt, mode,
                       intMask, refused>>
        /\ op.at \in {"none", "flush_tail", "flush_head", "flush_unmask", "unmask"}
    BY <1>1 DEF Read, Overflow, FlushMask, FlushTail, FlushHead, FlushUnmask, WriteMask,
                WriteUnmask, sketchIs, sketchOnly, gpio, table, regs, ghosts, portVars
  <2>2. \/ op' = op
        \/ op' = [at |-> "flush_tail", port |-> active_object]
        \/ op' = [op EXCEPT !.at = "flush_head"]
        \/ op' = [op EXCEPT !.at = "flush_unmask"]
        \/ op' = Idle
        \/ \E p \in Ports : op' = [at |-> "start_bit", port |-> p]
        \/ op' = [op EXCEPT !.at = "stop_bit"]
    BY <1>1 DEF Read, Overflow, FlushMask, FlushTail, FlushHead, FlushUnmask, WriteMask,
                WriteUnmask
  <2>3. op.at \in {"stop", "attach"} \/ op'.at \in {"stop", "attach"} => op' = op
    BY <2>1, <2>2 DEF Idle, PortsInv, PortTypes
  <2> QED
    BY <2>1, <2>3 DEF Steady
<1>2. CASE SoftHandler
  <2>1. CASE (IrqEnter \/ IrqExit) /\ UNCHANGED softVars
    BY <2>1 DEF IrqEnter, IrqExit, softVars, portVars, Steady, table, ghosts
  <2>2. CASE RecvIgnores \/ UserCallback
    <3>1. CallbackReturns /\ UNCHANGED softVars
      BY <2>2, CallbacksReturn DEF RecvIgnores, UserCallback
    <3> QED
      BY <3>1 DEF CallbackReturns, softVars, portVars, Steady, table, regs, ghosts
  <2>3. CASE RecvBegin \/ RecvStore \/ RecvEnd
    BY <2>3 DEF RecvBegin, RecvStore, RecvEnd, gpio, table, regs, ghosts, portVars, Steady
  <2> QED
    BY <1>2, <2>1, <2>2, <2>3 DEF SoftHandler
<1>3. CASE Tick
  <2>1. op.at \in {"stop", "attach"} \/ op'.at \in {"stop", "attach"} => op' = op
    BY <1>3, OpOfTick DEF Idle, PortsInv, PortTypes
  <2>2. refused' = refused
    BY <1>3 DEF Tick, portVars
  <2> QED
    BY <1>3, <2>1, <2>2, OpOfTick DEF Steady, table
<1>4. CASE UserEdge \/ UNCHANGED <<usage, softVars, gpio>>
  BY <1>4 DEF UserEdge, Edge, softVars, portVars, gpio, table, regs, ghosts, Steady
<1> QED
  BY <1>1, <1>2, <1>3, <1>4

LEMMA StepOnePort ==
    ASSUME SafeInv, PortsInv, ListenInv, OnlyInv, Tidy,
           [SoftNext]_<<usage, softVars, gpio>>
    PROVE  OnePort'
<1>1. Ports \subseteq Pins /\ NoPort \notin Ports /\ handle_interrupt # NoCb
  BY SoftSerialAssumption, GpioteAssumption
<1>2. OnePort /\ attached \in [Pins -> Callbacks \union {NoCb}]
  BY DEF ListenInv, SafeInv, TypeOK
<1>3. op \in [at : {"none", "reset", "attach", "stop", "stop_bit"} \cup maskedOps,
              port : Ports \cup {NoPort}]
  BY DEF PortsInv, PortTypes
<1>4. CASE Steady
  BY <1>2, <1>4 DEF Steady, OnePort
<1>5. ASSUME NEW p, Listen(p) \/ StopListening
      PROVE  OnePort'
  <2>1. UNCHANGED <<active_object, attached>> /\ op.at = "none" /\ call = NoCall
    BY <1>5 DEF Listen, StopListening, DetachFind, gpio, ghosts, portVars, sketchIs
  <2>2. CASE active_object = NoPort
    BY <1>1, <1>2, <1>5, <2>1, <2>2 DEF Listen, StopListening, OnePort
  <2>3. CASE active_object # NoPort
    <3>1. active_object \in Ports
      BY <2>3 DEF PortsInv, PortTypes
    <3>2. op'.at = "stop"
      BY <1>5, <2>3 DEF Listen, StopListening
    <3>3. call' = NoCall => entriesOf(active_object) = {}
      <4>1. DetachFind(active_object) \/ entriesOf(active_object) = {}
        BY <1>5, <2>3 DEF Listen, StopListening
      <4>2. DetachFind(active_object) => call'.op = "disable"
        BY DEF DetachFind
      <4> QED
        BY <4>1, <4>2 DEF NoCall
    <3>4. entriesOf(active_object) = {} => attached[active_object] = NoCb
      BY <1>1, <3>1 DEF ListenInv, DisciplineInv, AttachedHasChannel, entriesOf, busySet
    <3> QED
      BY <1>2, <2>1, <3>2, <3>3, <3>4 DEF OnePort
  <2> QED
    BY <2>2, <2>3
<1>6. CASE Stopped
  <2>1. /\ op.at = "stop" /\ call = NoCall /\ attached' = attached
        /\ op' = IF op.port = NoPort THEN Idle ELSE [op EXCEPT !.at = "reset"]
    BY <1>6 DEF Stopped, gpio, ghosts, sketchIs
  <2> QED
    BY <1>1, <1>2, <1>3, <2>1 DEF OnePort, Idle
<1>7. CASE ListenReset
  <2>1. active_object = NoPort /\ attached' = attached
    BY <1>7 DEF ListenReset, gpio, ghosts, sketchIs, PortsInv, CallsInv
  <2>2. op'.at = "attach"
    BY <1>3, <1>7 DEF ListenReset
  <2> QED
    BY <1>1, <1>2, <2>1, <2>2 DEF OnePort
<1>8. CASE ListenAttach
  <2>1. op.at = "attach" /\ UNCHANGED <<attached, active_object>>
    BY <1>8 DEF ListenAttach, AttachPick, AttachFails, sketchIs
  <2>2. op' = op \/ op' = Idle
    BY <1>8 DEF ListenAttach
  <2> QED
    BY <1>2, <2>1, <2>2 DEF OnePort, Idle
<1>9. CASE ListenAttached
  <2>1. /\ call.op = "enable" /\ call # NoCall
        /\ attached' = [attached EXCEPT ![call.pin] = call.cb]
        /\ UNCHANGED active_object
        /\ IF op.at = "attach" THEN op' = Idle ELSE op' = op
    BY <1>9 DEF ListenAttached, AttachEnable, NoCall
  <2>2. op.at # "stop" /\ op'.at \notin {"stop", "attach"}
    BY <2>1 DEF PortsInv, CallsInv, detachOps, Idle
  <2>3. \/ call.pin \notin Ports /\ call.cb # handle_interrupt
        \/ call.pin = active_object /\ call.pin \in Ports /\ call.cb = handle_interrupt
    BY <2>1 DEF PortsInv, CallsInv, detachOps, Others
  <2> QED
    BY <1>2, <2>1, <2>2, <2>3 DEF OnePort
<1>10. CASE CallStep
  <2>1. UNCHANGED <<active_object, op>>
    BY <1>10 DEF CallStep, softVars, portVars
  <2>2. CASE AttachRecord \/ AttachConfigure \/ DetachDisable \/ DetachMask
    <3>1. attached' = attached /\ call'.op # "none"
      BY <2>2 DEF AttachRecord, AttachConfigure, DetachDisable, DetachMask, ghosts,
                  SafeInv, TypeOK, Call
    <3> QED
      BY <1>2, <2>1, <3>1 DEF OnePort, NoCall
  <2>3. CASE DetachFree
    <3>1. attached' = [attached EXCEPT ![call.pin] = NoCb] /\ call # NoCall
      BY <2>3 DEF DetachFree, NoCall
    <3>2. op.at = "stop" => call.pin = active_object
      BY <3>1 DEF PortsInv, CallsInv
    <3>3. op.at = "stop" => active_object \in Pins
      BY <1>1 DEF PortsInv, CallsInv
    <3> QED
      BY <1>2, <2>1, <3>1, <3>2, <3>3 DEF OnePort
  <2> QED
    BY <1>10, <2>2, <2>3 DEF CallStep
<1>11. ASSUME NEW p \in Others, UserCall(p)
       PROVE  OnePort'
  <2>1. UNCHANGED <<active_object, op, attached>> /\ op.at = "none"
    BY <1>11 DEF UserCall, AttachPick, AttachFails, DetachFind, ghosts, softVars, portVars,
                 Idle
  <2> QED
    BY <1>2, <2>1 DEF OnePort
<1> QED
  BY <1>4, <1>5, <1>6, <1>7, <1>8, <1>9, <1>10, <1>11, SteadySteps DEF SoftNext, SoftSketch

LEMMA StepMask ==
    ASSUME SafeInv, PortsInv, ListenInv, OnlyInv, Tidy,
           [SoftNext]_<<usage, softVars, gpio>>
    PROVE  MaskIsChannel'
<1>1. /\ freeChannels \in [Channels -> BOOLEAN] /\ call \in Call
      /\ callbacksInt \in [Channels -> Entry] /\ intMask \in [Ports -> SUBSET Channels]
      /\ call # NoCall => call.j \in Channels
  BY DEF SafeInv, TypeOK, OnlyFilledFire, PortsInv, PortTypes
<1>2. MaskIsChannel /\ DisciplineInv
  BY DEF ListenInv
<1> USE DEF MaskIsChannel, busySet, freeSet, attaching
<1>3. ASSUME UNCHANGED <<freeChannels, callbacksInt, intMask>>,
             call'.op \in {"configure", "enable"} =>
               call.op \in {"configure", "enable"} /\ call'.j = call.j,
             call.op \in {"configure", "enable"} => call'.op \in {"configure", "enable"}
      PROVE  MaskIsChannel'
  BY <1>2, <1>3
<1>4. CASE Steady /\ UNCHANGED <<freeChannels, callbacksInt, mode, intMask>>
  BY <1>3, <1>4 DEF Steady
<1>5. CASE (\E p \in Ports : Listen(p)) \/ StopListening \/ Stopped \/ ListenReset
  <2>1. /\ call.op = "none" /\ call'.op \in {"none", "disable"}
        /\ UNCHANGED <<freeChannels, callbacksInt, intMask>>
    BY <1>5 DEF Listen, StopListening, Stopped, ListenReset, DetachFind, gpio, table,
                portVars, sketchIs, NoCall
  <2> QED
    BY <1>3, <2>1
<1>6. ASSUME NEW p \in Others, UserCall(p)
      PROVE  MaskIsChannel'
  <2>1. /\ call.op = "none" /\ call'.op \in {"none", "attach", "disable"}
        /\ UNCHANGED <<freeChannels, callbacksInt, intMask>>
    <3>1. ASSUME NEW cb, AttachPick(p, cb)
          PROVE  /\ call = NoCall /\ call'.op = "attach"
                 /\ UNCHANGED <<freeChannels, callbacksInt>>
      BY <3>1 DEF AttachPick, table
    <3>2. ASSUME AttachFails(p) \/ DetachFind(p)
          PROVE  /\ call = NoCall /\ (call' = call \/ call'.op = "disable")
                 /\ UNCHANGED <<freeChannels, callbacksInt>>
      BY <3>2 DEF AttachFails, DetachFind, table
    <3>3. intMask' = intMask
      BY <1>6 DEF UserCall, softVars, portVars
    <3> QED
      BY <1>6, <3>1, <3>2, <3>3 DEF UserCall, NoCall
  <2> QED
    BY <1>3, <2>1
<1>7. CASE ListenAttach
  <2>1. op.at = "attach" /\ call.op = "none" /\ UNCHANGED <<freeChannels, callbacksInt>>
    BY <1>7 DEF ListenAttach, AttachPick, AttachFails, sketchIs, table, NoCall
  <2>2. CASE AttachPick(op.port, handle_interrupt) /\ UNCHANGED <<intMask, op>>
    <3>1. call'.op = "attach"
      BY <2>2 DEF AttachPick
    <3> QED
      BY <1>3, <2>1, <2>2, <3>1
  <2>3. CASE /\ AttachFails(op.port)
             /\ intMask' = [intMask EXCEPT ![op.port] = Channels]
    <3>1. attached[op.port] = NoCb /\ op.port \in Ports
      BY <2>1 DEF ListenInv, OnePort, PortsInv, CallsInv
    <3>2. \A j \in busySet : callbacksInt[j].pin # op.port
      BY <1>2, <2>1, <3>1, GpioteAssumption DEF DisciplineInv, BusyIsAttached
    <3>3. call' = call
      BY <2>3 DEF AttachFails
    <3> QED
      BY <1>1, <1>2, <2>1, <2>3, <3>2, <3>3
  <2> QED
    BY <1>7, <2>2, <2>3 DEF ListenAttach
<1>8. CASE ListenAttached
  <2>1. /\ call.op = "enable" /\ call'.op = "none" /\ call.j \in Channels
        /\ UNCHANGED <<freeChannels, callbacksInt>>
        /\ IF op.at = "attach"
           THEN intMask' = [intMask EXCEPT ![op.port] = {call.j}] ELSE intMask' = intMask
    BY <1>1, <1>8 DEF ListenAttached, AttachEnable, table, NoCall
  <2>2. callbacksInt[call.j].pin = call.pin /\ ~freeChannels[call.j]
    BY <1>2, <2>1 DEF DisciplineInv, CallInv
  <2>3. IF op.at = "attach" THEN call.pin = op.port /\ op.port \in Ports
                            ELSE call.pin \notin Ports
    BY <2>1 DEF PortsInv, CallsInv, Others, detachOps, NoCall
  <2>4. \A j \in busySet : callbacksInt[j].pin = call.pin => j = call.j
    <3>1. \A j \in Channels : j \in Int
      BY DEF Channels
    <3>2. ASSUME NEW j \in busySet, callbacksInt[j].pin = call.pin, j # call.j
          PROVE  FALSE
      <4>1. j < call.j \/ call.j < j
        BY <2>1, <3>1, <3>2
      <4> QED
        BY <1>2, <2>1, <2>2, <3>2, <4>1 DEF DisciplineInv, BusyComesFirst
    <3> QED
      BY <3>2
  <2>5. CASE op.at = "attach"
    <3>1. \A p \in Ports : \A j \in busySet :
            callbacksInt[j].pin = p => intMask'[p] = {j}
      <4> SUFFICES ASSUME NEW p \in Ports, NEW j \in busySet, callbacksInt[j].pin = p
                   PROVE  intMask'[p] = {j}
        OBVIOUS
      <4>1. CASE p = op.port
        BY <1>1, <2>1, <2>3, <2>4, <2>5, <4>1
      <4>2. CASE p # op.port
        <5>1. j # call.j
          BY <2>2, <2>3, <2>5, <4>2
        <5> QED
          BY <1>1, <1>2, <2>1, <2>5, <4>2, <5>1
      <4> QED
        BY <4>1, <4>2
    <3> QED
      BY <2>1, <3>1
  <2>6. CASE op.at # "attach"
    <3>1. \A p \in Ports : \A j \in busySet :
            callbacksInt[j].pin = p => j # call.j
      BY <2>2, <2>3, <2>6
    <3> QED
      BY <1>2, <2>1, <2>6, <3>1
  <2> QED
    BY <2>5, <2>6
<1>9. CASE CallStep
  <2>1. intMask' = intMask
    BY <1>9 DEF CallStep, softVars, portVars
  <2>2. CASE AttachRecord
    <3>1. /\ call.op = "attach" /\ call'.op = "configure" /\ call'.j = call.j
          /\ call.j \in Channels
          /\ callbacksInt' = [callbacksInt EXCEPT ![call.j] =
                                [pin |-> call.pin, cb |-> call.cb, set |-> TRUE]]
          /\ freeChannels' = [freeChannels EXCEPT ![call.j] = FALSE]
      BY <1>1, <2>2 DEF AttachRecord, Call, NoCall
    <3> QED
      BY <1>1, <1>2, <2>1, <3>1
  <2>3. CASE AttachConfigure
    <3>1. /\ call.op = "configure" /\ call'.op = "enable" /\ call'.j = call.j
          /\ UNCHANGED <<freeChannels, callbacksInt>>
      BY <1>1, <2>3 DEF AttachConfigure, Call, table
    <3> QED
      BY <1>3, <2>1, <3>1
  <2>4. CASE DetachDisable \/ DetachMask
    <3>1. /\ call.op \in {"disable", "mask"} /\ call'.op \in {"mask", "free"}
          /\ UNCHANGED <<freeChannels, callbacksInt>>
      BY <1>1, <2>4 DEF DetachDisable, DetachMask, Call, table
    <3> QED
      BY <1>3, <2>1, <3>1
  <2>5. CASE DetachFree
    <3>1. /\ call.op = "free" /\ call'.op = "none" /\ callbacksInt' = callbacksInt
          /\ freeChannels' = [freeChannels EXCEPT ![call.j] = TRUE]
      BY <2>5 DEF DetachFree, NoCall
    <3> QED
      BY <1>1, <1>2, <2>1, <3>1
  <2> QED
    BY <1>9, <2>2, <2>3, <2>4, <2>5 DEF CallStep
<1> QED
  BY <1>4, <1>5, <1>6, <1>7, <1>8, <1>9, SteadySteps DEF SoftNext, SoftSketch

LEMMA StepRecv ==
    ASSUME SafeInv, PortsInv, ListenInv, OnlyInv, Tidy,
           [SoftNext]_<<usage, softVars, gpio>>
    PROVE  RecvInHandler'
<1>1. RecvInHandler /\ PortsInv
  BY DEF ListenInv
<1>2. CASE recv = "no" /\ recv' = recv
  BY <1>2 DEF RecvInHandler
<1>3. CASE SoftSketch
  <2>1. sketchRuns /\ recv' = recv
    BY <1>3 DEF SoftSketch, Listen, Overflow, WriteMask, StopListening, Stopped, ListenReset,
       ListenAttach, ListenAttached, CallStep, UserCall, Read, FlushMask, FlushTail, FlushHead,
       FlushUnmask, WriteUnmask, sketchIs, softVars, recvVars, AttachPick, AttachFails,
       DetachFind, AttachRecord, AttachConfigure, AttachEnable, DetachDisable, DetachMask,
       DetachFree
  <2> QED
    BY <1>1, <1>2, <2>1, SketchUnmasked
<1>4. CASE (IrqEnter \/ IrqExit) /\ UNCHANGED softVars
  <2>1. isr \notin Channels \/ phase = "exit"
    BY <1>4, GpioteAssumption DEF IrqEnter, IrqExit, None, Channels
  <2> QED
    BY <1>1, <1>2, <1>4, <2>1 DEF RecvInHandler, softVars, recvVars
<1>5. CASE RecvIgnores \/ UserCallback
  BY <1>2, <1>5, CallbacksReturn DEF RecvIgnores, UserCallback, softVars, recvVars
<1>6. CASE RecvBegin \/ RecvStore
  <2>1. /\ inRecv /\ UNCHANGED <<table, isr, phase, active_object>>
    BY <1>6 DEF RecvBegin, RecvStore, gpio, portVars
  <2>2. active_object \in Ports
    BY <1>1, <1>6 DEF RecvBegin, RecvStore, RecvInHandler, PortsInv, PortTypes
  <2> QED
    BY <2>1, <2>2 DEF RecvInHandler, inRecv, inCallback, table
<1>7. CASE RecvEnd
  BY <1>7 DEF RecvEnd, RecvInHandler
<1>8. CASE Tick
  BY <1>1, <1>8, OpOfTick DEF RecvInHandler, table
<1>9. CASE UserEdge \/ UNCHANGED <<usage, softVars, gpio>>
  BY <1>1, <1>9 DEF UserEdge, Edge, softVars, recvVars, portVars, gpio, table, RecvInHandler
<1> QED
  BY <1>3, <1>4, <1>5, <1>6, <1>7, <1>8, <1>9 DEF SoftNext, SoftHandler

LEMMA StepOnly ==
    ASSUME SafeInv, PortsInv, ListenInv, OnlyInv, Tidy,
           [SoftNext]_<<usage, softVars, gpio>>
    PROVE  OnlyInv'
<1> SUFFICES ASSUME "others" \notin usage, OnlyPorts
             PROVE  OnlyPorts'
  <2>1. usage' = usage
    BY DEF SoftNext
  <2> QED
    BY <2>1 DEF OnlyInv
<1>1. /\ freeChannels \in [Channels -> BOOLEAN] /\ call \in Call
      /\ callbacksInt \in [Channels -> Entry] /\ intMask \in [Ports -> SUBSET Channels]
      /\ intEn \in [Channels -> BOOLEAN] /\ attached \in [Pins -> Callbacks \union {NoCb}]
      /\ call # NoCall => call.j \in Channels
      /\ op \in [at : {"none", "reset", "attach", "stop", "stop_bit"} \cup maskedOps,
                 port : Ports \cup {NoPort}]
  BY DEF SafeInv, TypeOK, OnlyFilledFire, PortsInv, PortTypes
<1>2. DisciplineInv /\ OnePort /\ 0 \in Channels
  BY GpioteAssumption DEF ListenInv, Channels
<1>3. PortsInv' /\ SafeInv'
  BY StepSoftSafe
<1>4. op.at = "attach" /\ call.op \in {"none", "attach"} => busySet = {}
  <2> SUFFICES ASSUME op.at = "attach", call.op \in {"none", "attach"}, NEW j \in busySet
               PROVE  FALSE
    OBVIOUS
  <2>1. attached[callbacksInt[j].pin] # NoCb /\ callbacksInt[j].pin \in Pins
    BY <1>2, GpioteAssumption DEF DisciplineInv, BusyIsAttached, attaching
  <2> QED
    BY <1>2, <2>1 DEF OnlyPorts, OnePort, Others
<1>5. call # NoCall =>
        \/ op.at = "stop" /\ call.op \in detachOps /\ call.pin = active_object
        \/ op.at = "attach" /\ call.op \in attachOps /\ call.pin = op.port
  BY DEF PortsInv, CallsInv, OnlyPorts
<1>6. op.at = "stop" => active_object \in Ports
  BY DEF PortsInv, CallsInv
<1>7. op.at = "attach" => op.port \in Ports
  BY DEF PortsInv, CallsInv
\* Outside the calls of attachInterrupt and detachInterrupt.
<1>8. ASSUME Steady, UNCHANGED <<freeChannels, intMask>>,
             op'.at \in {"start_bit", "data_bits"} => isr' = None /\ ~intEn'[0]
      PROVE  OnlyPorts'
  <2>1. call' # NoCall => op'.at # "none"
    <3>1. CASE call # NoCall
      BY <1>3, <1>5, <1>6, <1>7, <1>8, <3>1 DEF Steady, PortsInv, CallsInv, Others
    <3> QED
      BY <1>8, <3>1 DEF Steady
  <2> QED
    BY <1>8, <2>1 DEF Steady, OnlyPorts, busySet, freeSet
<1>9. CASE Read \/ FlushMask \/ FlushTail \/ FlushHead \/ FlushUnmask \/ WriteUnmask
           \/ \E p \in Ports : Overflow(p)
  <2>1. op'.at \notin {"start_bit", "data_bits"}
    BY <1>1, <1>9 DEF Read, FlushMask, FlushTail, FlushHead, FlushUnmask, WriteUnmask,
       Overflow, sketchIs, Idle
  <2> QED
    BY <1>8, <1>9, <2>1, SteadySteps
<1>10. ASSUME NEW p \in Ports, WriteMask(p)
       PROVE  OnlyPorts'
  <2>1. isr' = None /\ intMask[p] = {0}
    BY <1>10 DEF WriteMask, sketchIs, sketchRuns, sketchOnly, OnlyPorts
  <2>2. ~intEn'[0]
    BY <1>2, <1>10, <2>1 DEF WriteMask, intenClr
  <2> QED
    BY <1>8, <1>10, <2>1, <2>2, SteadySteps
<1>11. CASE SoftHandler \/ UserEdge
  <2>1. UNCHANGED op
    BY <1>11, CallbacksReturn DEF SoftHandler, UserEdge, RecvIgnores, RecvBegin, RecvStore,
       RecvEnd, UserCallback, softVars
  <2>2. ASSUME op.at \in {"start_bit", "data_bits"}
        PROVE  isr' = None /\ ~intEn'[0]
    <3>1. isr = None /\ isr \notin Channels /\ ~intEn[0]
      BY <2>2, GpioteAssumption DEF OnlyPorts, None, Channels
    <3>2. ~irqRaised
      BY <1>2, <3>1 DEF irqRaised, OnlyPorts, DisciplineInv, FreeIsSilent, busySet, freeSet
    <3>3. UserEdge
      BY <1>11, <3>1, <3>2 DEF SoftHandler, IrqEnter, IrqExit, RecvIgnores, RecvBegin,
         RecvStore, RecvEnd, UserCallback, inRecv, inCallback
    <3> QED
      BY <3>1, <3>3 DEF UserEdge, Edge
  <2> QED
    BY <1>8, <1>11, <2>1, <2>2, SteadySteps
<1>12. CASE Tick
  <2>1. op'.at \in {"start_bit", "data_bits"} => op.at \in {"start_bit", "data_bits"}
    BY <1>1, <1>12, OpOfTick DEF Idle
  <2>2. UNCHANGED <<isr, intEn>>
    BY <1>12, OpOfTick
  <2> QED
    BY <1>8, <1>12, <2>1, <2>2, SteadySteps DEF OnlyPorts
<1>13. CASE UNCHANGED <<usage, softVars, gpio>>
  BY <1>13 DEF softVars, portVars, gpio, table, regs, ghosts, OnlyPorts, busySet, freeSet
\* The calls.
<1>14. ASSUME op'.at \notin {"start_bit", "data_bits"}, UNCHANGED <<freeChannels, attached, intMask>>,
              call' # NoCall => op'.at # "none"
       PROVE  OnlyPorts'
  BY <1>14 DEF OnlyPorts, busySet, freeSet
<1>15. CASE (\E p \in Ports : Listen(p)) \/ StopListening \/ Stopped \/ ListenReset
  <2>1. op'.at \in {"stop", "none", "reset", "attach"} /\ (call' # NoCall => op'.at # "none")
    BY <1>1, <1>15 DEF Listen, StopListening, Stopped, ListenReset, gpio, Idle, sketchIs
  <2>2. UNCHANGED <<freeChannels, attached, intMask>>
    BY <1>15 DEF Listen, StopListening, Stopped, ListenReset, DetachFind, gpio, table, ghosts,
                 portVars
  <2> QED
    BY <1>14, <2>1, <2>2
<1>16. CASE ListenAttach
  <2>1. op.at = "attach" /\ call = NoCall
    BY <1>16 DEF ListenAttach, sketchIs
  <2>2. freeSet # {}
    BY <1>2, <1>4, <2>1 DEF NoCall, busySet
  <2> QED
    BY <1>14, <1>16, <2>1, <2>2 DEF ListenAttach, AttachPick, AttachFails, table
<1>17. CASE ListenAttached
  <2>1. /\ call.op = "enable" /\ call # NoCall /\ call' = NoCall
        /\ attached' = [attached EXCEPT ![call.pin] = call.cb] /\ freeChannels' = freeChannels
    BY <1>17 DEF ListenAttached, AttachEnable, table, NoCall
  <2>2. op.at = "attach" /\ call.pin = op.port
    BY <1>5, <2>1 DEF detachOps
  <2>3. intMask' = [intMask EXCEPT ![op.port] = {call.j}] /\ op' = Idle
    BY <1>17, <2>2 DEF ListenAttached
  <2>4. call.j = 0
    BY <1>1, <1>2, <2>1 DEF DisciplineInv, CallInv, OnlyPorts, busySet, freeSet
  <2>5. /\ op'.at = "none"
        /\ \A p \in Others : attached'[p] = NoCb
        /\ \A p \in Ports : intMask'[p] \in {{}, {0}}
    BY <1>1, <1>7, <2>1, <2>2, <2>3, <2>4 DEF OnlyPorts, Others, Idle
  <2> QED
    BY <2>1, <2>5 DEF OnlyPorts, busySet, freeSet
<1>18. CASE CallStep
  <2>1. UNCHANGED <<op, intMask>>
    BY <1>18 DEF CallStep, softVars, portVars
  <2>2. call # NoCall
    BY <1>18 DEF CallStep, AttachRecord, AttachConfigure, DetachDisable, DetachMask,
                 DetachFree, NoCall
  <2>3. op.at \in {"stop", "attach"}
    BY <1>5, <2>2
  <2>4. CASE AttachConfigure \/ DetachDisable \/ DetachMask
    BY <1>14, <2>1, <2>3, <2>4 DEF AttachConfigure, DetachDisable, DetachMask, table, ghosts
  <2>5. CASE AttachRecord
    <3>1. /\ call.op = "attach" /\ freeChannels' = [freeChannels EXCEPT ![call.j] = FALSE]
          /\ attached' = attached
      BY <2>5 DEF AttachRecord, ghosts
    <3>2. busySet = {} /\ call.j \in Channels /\ call.j <= 0
      BY <1>1, <1>2, <1>4, <1>5, <2>2, <3>1 DEF detachOps, DisciplineInv, CallInv, isFirst, busySet
    <3>3. call.j = 0
      BY <3>2 DEF Channels
    <3>4. \A j \in Channels : ~freeChannels'[j] => j = 0
      BY <1>1, <3>1, <3>2, <3>3 DEF busySet, freeSet
    <3> QED
      BY <2>1, <2>3, <3>1, <3>4 DEF OnlyPorts, busySet, freeSet
  <2>6. CASE DetachFree
    <3>1. /\ freeChannels' = [freeChannels EXCEPT ![call.j] = TRUE]
          /\ attached' = [attached EXCEPT ![call.pin] = NoCb] /\ call' = NoCall
      BY <2>6 DEF DetachFree
    <3> QED
      BY <1>1, <2>1, <2>3, <3>1 DEF OnlyPorts, busySet, freeSet, Others
  <2> QED
    BY <1>18, <2>4, <2>5, <2>6 DEF CallStep
<1> QED
  BY <1>9, <1>10, <1>11, <1>12, <1>13, <1>15, <1>16, <1>17, <1>18
     DEF SoftNext, SoftSketch, UserCall

\* The invariant of the ports.
SoftInv == SafeInv /\ PortsInv /\ (Tidy => ListenInv) /\ OnlyInv

LEMMA StepSoft == SoftInv /\ [SoftNext]_<<usage, softVars, gpio>> => SoftInv'
<1> SUFFICES ASSUME SoftInv, [SoftNext]_<<usage, softVars, gpio>>
             PROVE  SoftInv'
  OBVIOUS
<1>1. SafeInv' /\ PortsInv'
  BY StepSoftSafe DEF SoftInv
<1>2. usage' = usage /\ (Tidy' <=> Tidy)
  BY DEF SoftNext, Tidy, Disciplined
<1>3. CASE Tidy
  <2>1. DisciplineInv' /\ BusyWatches' /\ EnabledBut(Masked)'
    BY <1>3, StepTable DEF SoftInv
  <2>2. OnePort' /\ MaskIsChannel' /\ RecvInHandler' /\ OnlyInv'
    BY <1>3, StepOnePort, StepMask, StepRecv, StepOnly DEF SoftInv
  <2> QED
    BY <1>1, <2>1, <2>2 DEF SoftInv, ListenInv
<1>4. CASE ~Tidy
  BY <1>1, <1>2, <1>4 DEF SoftInv, OnlyInv, Tidy
<1> QED
  BY <1>3, <1>4

LEMMA InitSoft == SoftInit => SoftInv
<1> SUFFICES ASSUME SoftInit
             PROVE  SoftInv
  OBVIOUS
<1>1. SafeInv /\ PortsInv /\ DisciplineInv /\ EnabledBut({})
  BY InitPorts, InitDiscipline DEF SoftInit
<1>2. /\ attached = [p \in Pins |-> NoCb] /\ call = NoCall /\ isr = None
      /\ freeChannels = [j \in Channels |-> TRUE]
      /\ op = Idle /\ recv = "no" /\ intMask = [p \in Ports |-> {}]
  BY DEF SoftInit, Init
<1>3. busySet = {}
  BY <1>2 DEF busySet, freeSet
<1>4. OnePort /\ MaskIsChannel /\ BusyWatches /\ RecvInHandler /\ Masked = {}
  BY <1>2, <1>3, SoftSerialAssumption
     DEF OnePort, MaskIsChannel, BusyWatches, RecvInHandler, Masked, Idle, maskedOps
<1>5. OnlyPorts
  BY <1>2, <1>3 DEF OnlyPorts, Idle, Others
<1> QED
  BY <1>1, <1>3, <1>4, <1>5 DEF SoftInv, ListenInv, OnlyInv, EnabledBut

\* If no other pin has a function, no function runs while a port sends: "turn off
\* interrupts for a clean txmit" (SoftwareSerial.cpp 138-204).
THEOREM TransmitIsClean == SoftSpec => []CleanTransmit
<1>1. SoftInit => SoftInv
  BY InitSoft
<1>2. SoftInv /\ [SoftNext]_<<usage, softVars, gpio>> => SoftInv'
  BY StepSoft
<1>3. SoftInv => CleanTransmit
  BY DEF SoftInv, OnlyInv, OnlyPorts, CleanTransmit
<1> QED
  BY <1>1, <1>2, <1>3, PTL DEF SoftSpec

\* The port that listens has its function attached, or all channels in its mask,
\* as the channels had run out.
DeafInv ==
    active_object # NoPort /\ op.at \notin {"stop", "attach"} =>
        \/ attached[active_object] = handle_interrupt
        \/ intMask[active_object] = Channels /\ active_object \in refused

LEMMA StepDeaf ==
    ASSUME SoftInv, Disciplined, DeafInv, [SoftNext]_<<usage, softVars, gpio>>
    PROVE  DeafInv'
<1> USE DEF DeafInv
<1>1. /\ SafeInv /\ PortsInv /\ ListenInv /\ OnlyInv /\ Tidy
      /\ Ports \subseteq Pins /\ NoPort \notin Ports
      /\ handle_interrupt # NoCb
      /\ attached \in [Pins -> Callbacks \union {NoCb}] /\ intMask \in [Ports -> SUBSET Channels]
      /\ active_object \in Ports \cup {NoPort}
      /\ op \in [at : {"none", "reset", "attach", "stop", "stop_bit"} \cup maskedOps,
                 port : Ports \cup {NoPort}]
  BY SoftSerialAssumption, GpioteAssumption
     DEF SoftInv, Tidy, SafeInv, TypeOK, PortsInv, PortTypes
<1>2. ASSUME Steady, UNCHANGED <<intMask, refused>>
      PROVE  DeafInv'
  BY <1>2 DEF Steady
<1>3. ASSUME NEW p \in Ports, Listen(p)
      PROVE  DeafInv'
  <2>1. UNCHANGED <<active_object, intMask, refused, attached>> /\ op.at = "none"
    BY <1>3 DEF Listen, sketchIs, DetachFind, portVars, gpio, ghosts
  <2>2. active_object # NoPort => op'.at = "stop"
    BY <1>3 DEF Listen
  <2> QED
    BY <2>1, <2>2
<1>4. CASE StopListening
  BY <1>4 DEF StopListening
<1>5. CASE Stopped
  BY <1>5 DEF Stopped
<1>6. CASE ListenReset
  BY <1>1, <1>6 DEF ListenReset
<1>7. CASE ListenAttach
  <2>1. op.at = "attach" /\ call = NoCall /\ active_object' = active_object
    BY <1>7 DEF ListenAttach, sketchIs
  <2>2. CASE AttachPick(op.port, handle_interrupt) /\ UNCHANGED <<intMask, op>>
    BY <2>1, <2>2
  <2>3. CASE /\ AttachFails(op.port)
             /\ intMask' = [intMask EXCEPT ![op.port] = Channels]
             /\ op' = Idle
    <3>1. active_object = op.port /\ op.port \in Ports
      BY <1>1, <2>1 DEF PortsInv, CallsInv
    <3>2. freeSet = {} /\ \A j : ~attaching(j)
      BY <2>1, <2>3 DEF AttachFails, attaching, NoCall
    <3>3. \A j \in Channels : ~freeChannels[j] /\ attached[callbacksInt[j].pin] # NoCb
      BY <1>1, <3>2, GpioteAssumption
         DEF ListenInv, DisciplineInv, BusyIsAttached, busySet, freeSet
    <3>4. \A j, k \in Channels : callbacksInt[j].pin = callbacksInt[k].pin => j = k
      <4>1. \A j, k \in Channels : j < k => callbacksInt[j].pin # callbacksInt[k].pin
        BY <1>1, <3>3 DEF ListenInv, DisciplineInv, BusyComesFirst
      <4> QED
        BY <4>1, GpioteAssumption DEF Channels
    <3>5. crowded
      BY <3>3, <3>4 DEF crowded
    <3> QED
      BY <1>1, <1>7, <2>1, <2>3, <3>1, <3>5 DEF ListenAttach
  <2> QED
    BY <1>7, <2>2, <2>3 DEF ListenAttach
<1>8. CASE ListenAttached
  <2>1. /\ call.op = "enable" /\ call # NoCall /\ UNCHANGED <<active_object, refused>>
        /\ attached' = [attached EXCEPT ![call.pin] = call.cb]
        /\ IF op.at = "attach"
           THEN intMask' = [intMask EXCEPT ![op.port] = {call.j}] /\ op' = Idle
           ELSE UNCHANGED <<intMask, op>>
    BY <1>8 DEF ListenAttached, AttachEnable, NoCall
  <2>2. call.pin \in Pins
    BY <1>1, <2>1 DEF SafeInv, OnlyFilledFire
  <2>3. \/ op.at = "none" /\ call.pin \in Others
        \/ op.at = "attach" /\ call.pin = active_object /\ call.cb = handle_interrupt
    BY <1>1, <2>1 DEF PortsInv, CallsInv, detachOps
  <2> QED
    BY <1>1, <2>1, <2>2, <2>3 DEF Others
<1>9. CASE CallStep
  <2>1. UNCHANGED <<active_object, intMask, refused, op>>
    BY <1>9 DEF CallStep, softVars, portVars
  <2>2. CASE AttachRecord \/ AttachConfigure \/ DetachDisable \/ DetachMask
    BY <2>1, <2>2 DEF AttachRecord, AttachConfigure, DetachDisable, DetachMask, ghosts
  <2>3. CASE DetachFree
    <3>1. /\ call.op = "free" /\ call # NoCall
          /\ attached' = [attached EXCEPT ![call.pin] = NoCb]
      BY <2>3 DEF DetachFree, NoCall
    <3>2. op.at = "stop" \/ (call.pin \in Others /\ call.pin \in Pins)
      BY <1>1, <3>1 DEF PortsInv, CallsInv, attachOps, Others
    <3> QED
      BY <1>1, <2>1, <3>1, <3>2 DEF Others
  <2> QED
    BY <1>9, <2>2, <2>3 DEF CallStep
<1>10. ASSUME NEW p \in Others, UserCall(p)
       PROVE  DeafInv'
  <2>1. UNCHANGED <<active_object, intMask, refused, op, attached>>
    BY <1>10 DEF UserCall, AttachPick, AttachFails, DetachFind, softVars, portVars, ghosts
  <2> QED
    BY <2>1
<1>11. CASE \/ Read \/ FlushMask \/ FlushTail \/ FlushHead \/ FlushUnmask \/ WriteUnmask
            \/ (\E p \in Ports : Overflow(p) \/ WriteMask(p))
            \/ SoftHandler \/ Tick \/ UserEdge \/ UNCHANGED <<usage, softVars, gpio>>
  BY <1>1, <1>2, <1>11, SteadySteps
<1> QED
  BY <1>3, <1>4, <1>5, <1>6, <1>7, <1>8, <1>9, <1>10, <1>11 DEF SoftNext, SoftSketch

LEMMA ArmedIn == SoftInv /\ (Disciplined => DeafInv) => ListenerArmed
<1> SUFFICES ASSUME SoftInv, Disciplined, DeafInv, call = NoCall, op.at = "none",
                    isr = None, NEW p \in Ports
             PROVE  IF p = active_object THEN armed(p) \/ deaf(p)
                                         ELSE channelsOf(p) = {}
  BY DEF ListenerArmed
<1>1. ListenInv /\ p \in Pins /\ p # NoPort
  BY SoftSerialAssumption DEF SoftInv, Tidy
<1>2. /\ \A k : ~attaching(k)
      /\ call.op = "none"
  BY DEF attaching, NoCall
<1>3. ASSUME attached[p] = NoCb
      PROVE  channelsOf(p) = {}
  BY <1>1, <1>2, <1>3, GpioteAssumption DEF ListenInv, DisciplineInv, BusyIsAttached, channelsOf
<1>4. CASE p # active_object
  BY <1>1, <1>3, <1>4 DEF ListenInv, OnePort
<1>5. CASE p = active_object /\ attached[p] = NoCb
  BY <1>1, <1>3, <1>5, SoftSerialAssumption, GpioteAssumption DEF DeafInv, deaf
<1>6. CASE p = active_object /\ attached[p] # NoCb
  <2>1. PICK j \in busySet : callbacksInt[j].pin = p
    BY <1>1, <1>6 DEF ListenInv, DisciplineInv, AttachedHasChannel
  <2>2. \A k \in busySet : callbacksInt[k].pin = p => intMask[p] = {k}
    BY <1>1, <1>2 DEF ListenInv, MaskIsChannel
  <2>3. j \in Channels /\ intMask[p] = {j} /\ channelsOf(p) = {j}
    BY <2>1, <2>2 DEF channelsOf, busySet
  <2>4. callbacksInt[j].cb = handle_interrupt
    BY <1>1, <2>1, CallbackOfBusy DEF SoftInv, ListenInv
  <2>5. mode[j] = p
    BY <1>1, <1>2, <2>1 DEF ListenInv, BusyWatches
  <2>6. intEn[j]
    <3>1. isr \notin Channels
      BY GpioteAssumption DEF None, Channels
    <3>2. Masked = {}
      BY <1>1, <3>1 DEF ListenInv, RecvInHandler, Masked, maskedOps
    <3> QED
      BY <1>1, <1>2, <2>1, <2>3, <3>1, <3>2 DEF ListenInv, EnabledBut
  <2> QED
    BY <1>6, <2>3, <2>4, <2>5, <2>6 DEF armed
<1> QED
  BY <1>4, <1>5, <1>6

\* Between two calls the port that listens has one channel, with its function
\* attached, the mask of its _intMask and the interrupt on, or it has none because
\* the channels had run out; no other port has one (SoftwareSerial.cpp 74-97,
\* 138-204, 222-291).
THEOREM ListenersAreArmed == SoftSpec => []ListenerArmed
<1> DEFINE Inv  == SoftInv
           Deaf == Disciplined => DeafInv
<1>1. SoftInit => Inv /\ Deaf
  BY InitSoft DEF SoftInit, DeafInv
<1>2. Inv /\ [SoftNext]_<<usage, softVars, gpio>> => Inv'
  BY StepSoft
<1>3. Inv /\ Deaf /\ [SoftNext]_<<usage, softVars, gpio>> => Deaf'
  <2>1. [SoftNext]_<<usage, softVars, gpio>> => (Disciplined' <=> Disciplined)
    BY DEF SoftNext, Disciplined
  <2> QED
    BY <2>1, StepDeaf
<1>4. Inv /\ Deaf => ListenerArmed
  BY ArmedIn
<1> HIDE DEF Inv, Deaf
<1> QED
  BY <1>1, <1>2, <1>3, <1>4, PTL DEF SoftSpec
-------------------------------------------------------------------------------
(* The shared buffer: head is where read() reads, tail where recv() writes. *)

Slots == 0 .. SS_MAX_RX_BUFF - 1

count(h, t) == IF h <= t THEN t - h ELSE t + SS_MAX_RX_BUFF - h

slotOf(h, k) ==
    IF h + k - 1 < SS_MAX_RX_BUFF THEN h + k - 1 ELSE h + k - 1 - SS_MAX_RX_BUFF

between(array, h, t) == [k \in 1 .. count(h, t) |-> array[slotOf(h, k)]]

LEMMA Wraps ==
    ASSUME NEW i \in 0 .. 2 * SS_MAX_RX_BUFF - 1
    PROVE  i % SS_MAX_RX_BUFF = IF i < SS_MAX_RX_BUFF THEN i ELSE i - SS_MAX_RX_BUFF
<1> DEFINE S == SS_MAX_RX_BUFF
<1>1. S \in Nat \ {0}
  BY SoftSerialAssumption
<1> HIDE DEF S
<1>2. CASE i < S
  <2>1. (S * 0 + i) % S = i
    BY <1>1, <1>2, ModUnique DEF S
  <2> QED
    BY <1>1, <1>2, <2>1 DEF S
<1>3. CASE S <= i
  <2>1. i - S \in 0 .. S - 1 /\ i \in Int
    BY <1>1, <1>3 DEF S
  <2>2. (S * 1 + (i - S)) % S = i - S
    BY <1>1, <2>1, ModUnique
  <2>3. S * 1 + (i - S) = i
    BY <1>1, <2>1
  <2> QED
    BY <1>1, <1>3, <2>1, <2>2, <2>3 DEF S
<1> QED
  BY <1>1, <1>2, <1>3 DEF S

\* unread are the elements from head to tail.
LEMMA UnreadBetween ==
    ASSUME NEW array, NEW h \in Slots, NEW t \in Slots
    PROVE  [k \in 1 .. (t + SS_MAX_RX_BUFF - h) % SS_MAX_RX_BUFF |->
                array[(h + k - 1) % SS_MAX_RX_BUFF]] = between(array, h, t)
<1> DEFINE S == SS_MAX_RX_BUFF
<1>1. S \in Nat \ {0, 1}
  BY SoftSerialAssumption
<1>2. (t + S - h) % S = count(h, t)
  <2>1. t + S - h \in 0 .. 2 * S - 1
    BY <1>1 DEF Slots
  <2>2. PICK i \in 0 .. 2 * S - 1 : i = t + S - h
    BY <2>1
  <2>3. i % S = IF i < S THEN i ELSE i - S
    BY <2>2, Wraps
  <2> HIDE DEF S
  <2> QED
    BY <1>1, <2>2, <2>3 DEF count, Slots, S
<1>3. ASSUME NEW k \in 1 .. count(h, t)
      PROVE  (h + k - 1) % S = slotOf(h, k)
  <2>1. h + k - 1 \in 0 .. 2 * S - 1
    BY <1>1, <1>3 DEF Slots, count
  <2>2. PICK i \in 0 .. 2 * S - 1 : i = h + k - 1
    BY <2>1
  <2>3. i % S = IF i < S THEN i ELSE i - S
    BY <2>2, Wraps
  <2>4. slotOf(h, k) = IF i < S THEN i ELSE i - S
    BY <1>1, <2>2 DEF slotOf, Slots
  <2> QED
    BY <2>2, <2>3, <2>4
<1> QED
  BY <1>2, <1>3 DEF between

LEMMA NextWraps ==
    ASSUME NEW i \in Slots
    PROVE  /\ next(i) \in Slots
           /\ next(i) = IF i = SS_MAX_RX_BUFF - 1 THEN 0 ELSE i + 1
<1>1. SS_MAX_RX_BUFF \in Nat \ {0, 1}
  BY SoftSerialAssumption
<1>2. i + 1 \in 0 .. 2 * SS_MAX_RX_BUFF - 1
  BY <1>1 DEF Slots
<1>3. PICK n \in 0 .. 2 * SS_MAX_RX_BUFF - 1 : n = i + 1
  BY <1>2
<1>4. next(i) = IF n < SS_MAX_RX_BUFF THEN n ELSE n - SS_MAX_RX_BUFF
  BY <1>3, Wraps DEF next
<1> QED
  BY <1>1, <1>3, <1>4 DEF Slots

LEMMA BetweenIsSeq ==
    ASSUME NEW array \in [Slots -> Nat], NEW h \in Slots, NEW t \in Slots
    PROVE  /\ between(array, h, t) \in Seq(Nat)
           /\ Len(between(array, h, t)) = count(h, t)
           /\ count(h, t) \in 0 .. SS_MAX_RX_BUFF - 1
           /\ count(h, t) = SS_MAX_RX_BUFF - 1 <=> next(t) = h
<1>1. count(h, t) \in 0 .. SS_MAX_RX_BUFF - 1 /\ count(h, t) \in Nat
  BY SoftSerialAssumption DEF count, Slots
<1>2. \A k \in 1 .. count(h, t) : slotOf(h, k) \in Slots
  BY SoftSerialAssumption DEF count, slotOf, Slots
<1>3. count(h, t) = SS_MAX_RX_BUFF - 1 <=> next(t) = h
  <2>1. /\ SS_MAX_RX_BUFF \in Nat /\ h \in Nat /\ t \in Nat
        /\ h < SS_MAX_RX_BUFF /\ t < SS_MAX_RX_BUFF
    BY SoftSerialAssumption DEF Slots
  <2>2. next(t) = IF t = SS_MAX_RX_BUFF - 1 THEN 0 ELSE t + 1
    BY NextWraps
  <2> QED
    BY <2>1, <2>2 DEF count
<1>4. \A k \in 1 .. count(h, t) : array[slotOf(h, k)] \in Nat
  BY <1>2
<1> QED
  BY <1>1, <1>3, <1>4 DEF between

\* A character that is stored becomes the last one.
LEMMA BetweenAppends ==
    ASSUME NEW array \in [Slots -> Nat], NEW h \in Slots, NEW t \in Slots, NEW c \in Nat,
           next(t) # h
    PROVE  between([array EXCEPT ![t] = c], h, next(t)) = Append(between(array, h, t), c)
<1> DEFINE n == count(h, t)
           old == between(array, h, t)
           array2 == [array EXCEPT ![t] = c]
           new == between(array2, h, next(t))
<1>1. n \in Nat /\ count(h, next(t)) = n + 1
  <2>1. next(t) = IF t = SS_MAX_RX_BUFF - 1 THEN 0 ELSE t + 1
    BY NextWraps
  <2>2. PICK u : u = next(t)
    OBVIOUS
  <2>3. n \in Nat /\ count(h, u) = n + 1
    BY <2>1, <2>2, SoftSerialAssumption DEF count, Slots
  <2> QED
    BY <2>2, <2>3
<1>2. slotOf(h, n + 1) = t
  BY SoftSerialAssumption DEF slotOf, count, Slots
<1>3. \A k \in 1 .. n : slotOf(h, k) \in Slots /\ slotOf(h, k) # t
  BY SoftSerialAssumption DEF slotOf, count, Slots
<1>4. old \in Seq(Nat) /\ Len(old) = n
  BY BetweenIsSeq
<1>5. new = [k \in 1 .. n + 1 |-> array2[slotOf(h, k)]]
  BY <1>1 DEF between
<1>6. /\ Append(old, c) \in Seq(Nat) /\ Len(Append(old, c)) = n + 1
      /\ \A k \in 1 .. n + 1 : Append(old, c)[k] = IF k = n + 1 THEN c ELSE old[k]
  BY <1>1, <1>4, AppendProperties
<1>7. ASSUME NEW k \in 1 .. n + 1
      PROVE  new[k] = IF k = n + 1 THEN c ELSE old[k]
  <2>1. CASE k = n + 1
    BY <1>2, <1>5, <2>1
  <2>2. CASE k # n + 1
    <3>1. k \in 1 .. n
      BY <1>1, <2>2
    <3>2. array2[slotOf(h, k)] = array[slotOf(h, k)]
      BY <1>3, <3>1
    <3> QED
      BY <1>5, <2>2, <3>1, <3>2 DEF between
  <2> QED
    BY <2>1, <2>2
<1>8. new \in Seq(Nat) /\ Len(new) = n + 1
  <2>1. array2 \in [Slots -> Nat] /\ next(t) \in Slots
    BY NextWraps
  <2> QED
    BY <1>1, <2>1, BetweenIsSeq DEF Slots
<1> HIDE DEF new, old
<1>9. new = Append(old, c)
  BY <1>6, <1>7, <1>8, SeqEqual
<1> QED
  BY <1>9 DEF new, old

\* Reading takes the first one.
LEMMA BetweenTail ==
    ASSUME NEW array \in [Slots -> Nat], NEW h \in Slots, NEW t \in Slots, h # t
    PROVE  /\ between(array, h, t) # <<>>
           /\ between(array, next(h), t) = Tail(between(array, h, t))
<1> DEFINE n == count(h, t)
           old == between(array, h, t)
           new == between(array, next(h), t)
<1>1. n \in Nat /\ n > 0 /\ n < SS_MAX_RX_BUFF /\ count(next(h), t) = n - 1
  <2>1. next(h) = IF h = SS_MAX_RX_BUFF - 1 THEN 0 ELSE h + 1
    BY NextWraps
  <2>2. PICK u : u = next(h)
    OBVIOUS
  <2>3. n \in Nat /\ n > 0 /\ n < SS_MAX_RX_BUFF /\ count(u, t) = n - 1
    BY <2>1, <2>2, SoftSerialAssumption DEF count, Slots
  <2> QED
    BY <2>2, <2>3
<1>2. old \in Seq(Nat) /\ Len(old) = n
  BY BetweenIsSeq
<1>3. old # <<>>
  BY <1>1, <1>2
<1>4. /\ Tail(old) \in Seq(Nat) /\ Len(Tail(old)) = n - 1
      /\ \A k \in 1 .. n - 1 : Tail(old)[k] = old[k + 1]
  <2> HIDE DEF old
  <2> QED
    BY <1>1, <1>2, <1>3, HeadTailProperties
<1>5. ASSUME NEW k \in 1 .. n - 1
      PROVE  new[k] = old[k + 1]
  <2>1. next(h) = IF h = SS_MAX_RX_BUFF - 1 THEN 0 ELSE h + 1
    BY NextWraps
  <2> HIDE DEF n
  <2>2. slotOf(next(h), k) = slotOf(h, k + 1)
    BY <1>1, <2>1, SoftSerialAssumption DEF slotOf, Slots
  <2>3. k + 1 \in 1 .. n
    BY <1>1
  <2> QED
    BY <1>1, <2>2, <2>3 DEF between, n
<1>6. new \in Seq(Nat) /\ Len(new) = n - 1
  BY <1>1, NextWraps, BetweenIsSeq
<1> HIDE DEF new, old
<1>7. new = Tail(old)
  BY <1>4, <1>5, <1>6, SeqEqual
<1> QED
  BY <1>3, <1>7 DEF new, old

LEMMA BetweenEmpty ==
    ASSUME NEW array, NEW h \in Slots
    PROVE  between(array, h, h) = <<>>
  BY SoftSerialAssumption DEF between, count, Slots
-------------------------------------------------------------------------------
(* The frames. *)

\* The uses in which every frame is received.
Half == Disciplined /\ "duplex" \notin usage

FrameTypes ==
    /\ line \in [Ports -> [bit : {"idle", "start", "data", "stop"}, frame : Nat]]
    /\ frames \in Nat /\ d \in Nat
    /\ buffer \in [Slots -> Nat] /\ head \in Slots /\ tail \in Slots
    /\ due \in Seq(Nat)
    /\ overflow \in [Ports -> BOOLEAN] /\ lost \in [Ports -> BOOLEAN]

\* The interrupt of the start bit is waiting or has just been taken.
Pending(p) ==
    \E j \in busySet :
        /\ callbacksInt[j].pin = p
        /\ event[j] \/ (isr = j /\ phase = "callback")

\* A frame is on the line of the port that listens only, and recv() is in step with
\* it; the library is not in a call that touches what recv() does.
InStep ==
    /\ \A p \in Ports : line[p].bit \in {"start", "data"} =>
         /\ p = active_object /\ attached[p] # NoCb /\ op.at \in {"none", "stop_bit"}
         /\ recv # "no" \/ (line[p].bit = "start" /\ Pending(p))
    /\ recv = "data_bits" =>
         line[active_object].bit = "start" /\ d = line[active_object].frame
    /\ recv = "store" =>
         line[active_object].bit = "data" /\ d = line[active_object].frame
    /\ recv = "stop_bit" => line[active_object].bit = "data"
    /\ recv = "end" => line[active_object].bit = "stop"

\* The frame of p is on its way to the buffer.
Coming(p) == p = active_object /\ (line[p].bit = "start" \/ recv = "store")

\* The buffer and the flags are as they should be, but for the frame on its way.
Booked ==
    IF op.at = "flush_head" THEN tail = 0 /\ overflow = lost
    ELSE /\ (\A p \in Ports : ~Coming(p)) => due = unread /\ overflow = lost
         /\ \A p \in Ports : Coming(p) =>
              IF Len(unread) = SS_MAX_RX_BUFF - 1
              THEN due = unread /\ lost = [overflow EXCEPT ![p] = TRUE]
              ELSE due = Append(unread, line[p].frame) /\ lost = overflow

FrameInv == Half => FrameTypes /\ InStep /\ Booked

\* What every step of the sketch, and every bit time outside the handler, finds: no
\* frame is on the lines.
LEMMA LinesQuiet ==
    ASSUME SoftInv, Half, InStep, isr = None, ~irqRaised
    PROVE  recv = "no" /\ \A p \in Ports : line[p].bit \notin {"start", "data"}
<1>1. ListenInv /\ PortsInv
  BY DEF SoftInv, Tidy, Half
<1>2. recv = "no"
  BY <1>1, GpioteAssumption DEF ListenInv, RecvInHandler, None, Channels
<1>3. ASSUME NEW p \in Ports, line[p].bit \in {"start", "data"}
      PROVE  FALSE
  <2>1. op.at \in {"none", "stop_bit"} /\ Pending(p)
    BY <1>2, <1>3 DEF InStep
  <2>2. PICK j \in busySet : callbacksInt[j].pin = p /\ event[j]
    BY <2>1, GpioteAssumption DEF Pending, None, Channels, busySet
  <2>3. j \in Channels /\ isr # j
    BY <2>2, GpioteAssumption DEF None, Channels, busySet
  <2>4. Masked = {}
    BY <1>2, <2>1 DEF Masked, maskedOps
  <2>5. call.op \in {"configure", "enable", "free"} => callbacksInt[call.j].pin \notin Ports
    <3>1. ASSUME call.op \in {"configure", "enable", "free"}
          PROVE  call.pin \in Others
      <4>1. call # NoCall
        BY <3>1 DEF NoCall
      <4> QED
        BY <1>1, <2>1, <4>1 DEF PortsInv, CallsInv
    <3>2. call.op \in {"configure", "enable", "free"} => callbacksInt[call.j].pin = call.pin
      BY <1>1 DEF ListenInv, DisciplineInv, CallInv, isFirst, entriesOf
    <3> QED
      BY <3>1, <3>2 DEF Others
  <2>6. intEn[j]
    BY <1>1, <2>2, <2>3, <2>4, <2>5, GpioteAssumption
       DEF ListenInv, EnabledBut, attaching, None, Channels, busySet
  <2> QED
    BY <2>2, <2>6 DEF irqRaised, busySet
<1> QED
  BY <1>2, <1>3

\* The sketch leaves recv() and the lines alone.
LEMMA SketchApart ==
    ASSUME SoftSketch
    PROVE  sketchRuns /\ UNCHANGED <<recv, d, line, frames>>
BY DEF SoftSketch, Listen, Overflow, WriteMask, StopListening, Stopped, ListenReset,
   ListenAttach, ListenAttached, CallStep, UserCall, Read, FlushMask, FlushTail, FlushHead,
   FlushUnmask, WriteUnmask, sketchIs, softVars, recvVars, lineVars, AttachPick, AttachFails,
   DetachFind, AttachRecord, AttachConfigure, AttachEnable, DetachDisable, DetachMask,
   DetachFree

\* A bit time: a frame begins on the line of the port that listens, or recv() takes a
\* bit of the frame that is there.
LEMMA TickOfFrames ==
    ASSUME SoftInv, Half, FrameTypes, InStep, Tick
    PROVE  \/ /\ isr = None /\ recv = "no" /\ recv' = "no"
              /\ \A p \in Ports : line'[p] = [bit |-> "idle", frame |-> 0]
              /\ frames' = frames /\ due' = due /\ lost' = lost
           \/ /\ isr = None /\ recv = "no" /\ recv' = "no" /\ frames' = frames + 1
              /\ active_object \in Ports /\ attached[active_object] # NoCb
              /\ op.at \in {"none", "stop_bit"} /\ op'.at = "none"
              /\ line' = [p \in Ports |-> IF p = active_object
                                          THEN [bit |-> "start", frame |-> frames + 1]
                                          ELSE [bit |-> "idle", frame |-> 0]]
              /\ \A j \in Channels : mode[j] = active_object => event'[j]
              /\ IF Len(due) = SS_MAX_RX_BUFF - 1
                 THEN due' = due /\ lost' = [lost EXCEPT ![active_object] = TRUE]
                 ELSE due' = Append(due, frames + 1) /\ lost' = lost
           \/ /\ isr # None /\ active_object \in Ports
              /\ \/ recv = "data_bits" /\ recv' = "store"
                    /\ line'[active_object] = [line[active_object] EXCEPT !.bit = "data"]
                 \/ recv = "stop_bit" /\ recv' = "end"
                    /\ line'[active_object] = [line[active_object] EXCEPT !.bit = "stop"]
              /\ \A p \in Ports \ {active_object} : line'[p] = [bit |-> "idle", frame |-> 0]
              /\ frames' = frames /\ due' = due /\ lost' = lost /\ op' = op
<1>1. PICK begins \in {{}} \cup {{p} : p \in Ports},
           noisy \in SUBSET {p \in Ports : line[p].bit = "start"} :
        /\ \A p \in begins : mayBegin(p)
        /\ IF isr = None THEN ~irqRaised /\ op.at # "unmask"
                         ELSE recv \in {"data_bits", "stop_bit"}
        /\ line' = [p \in Ports |-> lineAfter(p, begins)]
        /\ frames' = IF begins = {} THEN frames ELSE frames + 1
        /\ event' = [j \in Channels |-> event[j] \/ mode[j] \in begins \cup noisy]
        /\ op' = IF isr # None THEN op
                 ELSE IF op.at = "stop_bit" THEN Idle
                 ELSE [op EXCEPT !.at = delayed(op.at)]
        /\ recv' = CASE recv = "data_bits" -> "store"
                     [] recv = "stop_bit"  -> "end"
                     [] OTHER              -> recv
        /\ LET heard == {p \in begins : attached[p] = handle_interrupt}
               full  == Len(due) = SS_MAX_RX_BUFF - 1
           IN  /\ due'  = IF heard # {} /\ ~full THEN Append(due, frames + 1) ELSE due
               /\ lost' = [p \in Ports |-> lost[p] \/ (p \in heard /\ full)]
  BY DEF Tick
<1>2. ListenInv /\ PortsInv /\ Ports \subseteq Pins
  BY SoftSerialAssumption DEF SoftInv, Tidy, Half
<1>3. \A p \in begins :
        /\ p \in Ports /\ p = active_object /\ attached[p] = handle_interrupt
        /\ attached[p] # NoCb
        /\ op.at \in {"none", "stop_bit"} /\ line[p].bit \in {"idle", "stop"}
  BY <1>1, <1>2 DEF mayBegin, listening, Half, ListenInv, OnePort
<1>4. begins = {} => due' = due /\ lost' = lost /\ frames' = frames
  BY <1>1 DEF FrameTypes
<1>5. CASE isr = None
  <2>1. recv = "no" /\ \A p \in Ports : line[p].bit \notin {"start", "data"}
    BY <1>1, <1>5, LinesQuiet
  <2>2. recv' = "no"
    BY <1>1, <2>1
  <2>3. CASE begins = {}
    <3>1. \A p \in Ports : line'[p] = [bit |-> "idle", frame |-> 0]
      BY <1>1, <2>1, <2>3 DEF lineAfter
    <3> QED
      BY <1>4, <1>5, <2>1, <2>2, <2>3, <3>1
  <2>4. CASE begins # {}
    <3>1. begins = {active_object} /\ active_object \in Ports
      BY <1>1, <1>3, <2>4
    <3>2. line' = [p \in Ports |-> IF p = active_object
                                   THEN [bit |-> "start", frame |-> frames + 1]
                                   ELSE [bit |-> "idle", frame |-> 0]]
      BY <1>1, <2>1, <3>1 DEF lineAfter
    <3>3. op'.at = "none"
      <4>1. op.at = "none" => [op EXCEPT !.at = delayed(op.at)] = op
        BY <1>2 DEF delayed, PortsInv, PortTypes
      <4> QED
        BY <1>1, <1>3, <1>5, <3>1, <4>1 DEF Idle
    <3>4. \A j \in Channels : mode[j] = active_object => event'[j]
      BY <1>1, <3>1
    <3>5. {p \in begins : attached[p] = handle_interrupt} = {active_object}
      BY <1>3, <3>1
    <3>6. IF Len(due) = SS_MAX_RX_BUFF - 1
          THEN due' = due /\ lost' = [lost EXCEPT ![active_object] = TRUE]
          ELSE due' = Append(due, frames + 1) /\ lost' = lost
      <4>1. lost \in [Ports -> BOOLEAN]
        BY DEF FrameTypes
      <4>2. lost' = [p \in Ports |-> lost[p] \/ (p \in {active_object} /\ Len(due) = SS_MAX_RX_BUFF - 1)]
        BY <1>1, <3>5
      <4> QED
        BY <1>1, <3>5, <4>1, <4>2
    <3> QED
      BY <1>1, <1>3, <1>5, <2>1, <2>2, <3>1, <3>2, <3>3, <3>4, <3>6
  <2> QED
    BY <2>3, <2>4
<1>6. CASE isr # None
  <2>1. recv \in {"data_bits", "stop_bit"} /\ op' = op
    BY <1>1, <1>6
  <2>2. active_object \in Ports
    BY <1>2, <2>1 DEF ListenInv, RecvInHandler
  <2>3. begins = {}
    BY <1>3, <2>1 DEF InStep
  <2>4. \A p \in Ports \ {active_object} : line'[p] = [bit |-> "idle", frame |-> 0]
    BY <1>1, <2>3 DEF lineAfter, InStep
  <2>5. CASE recv = "data_bits"
    <3>1. recv' = "store" /\ line[active_object].bit = "start"
      BY <1>1, <2>5 DEF InStep
    <3>2. line'[active_object] = [line[active_object] EXCEPT !.bit = "data"]
      BY <1>1, <2>2, <2>3, <3>1 DEF lineAfter
    <3> QED
      BY <1>4, <1>6, <2>1, <2>2, <2>3, <2>4, <2>5, <3>1, <3>2
  <2>6. CASE recv = "stop_bit"
    <3>1. recv' = "end" /\ line[active_object].bit = "data"
      BY <1>1, <2>6 DEF InStep
    <3>2. line'[active_object] = [line[active_object] EXCEPT !.bit = "stop"]
      BY <1>1, <2>2, <2>3, <3>1 DEF lineAfter
    <3> QED
      BY <1>4, <1>6, <2>1, <2>2, <2>3, <2>4, <2>6, <3>1, <3>2
  <2> QED
    BY <2>1, <2>5, <2>6
<1> QED
  BY <1>5, <1>6

\* The edge of a start bit waits until it is served.
LEMMA PendingStays ==
    ASSUME SoftInv, Half, NEW p \in Ports, Pending(p),
           \/ IrqEnter \/ IrqExit \/ UserEdge
           \/ CallbackReturns /\ callbacksInt[isr].cb # handle_interrupt
    PROVE  Pending(p)'
<1>1. ListenInv /\ SafeInv /\ PortsInv /\ UNCHANGED table
  BY DEF SoftInv, Tidy, Half, IrqEnter, IrqExit, UserEdge, Edge, CallbackReturns
<1>2. PICK j \in busySet : /\ callbacksInt[j].pin = p
                           /\ event[j] \/ (isr = j /\ phase = "callback")
  BY DEF Pending
<1>3. j \in Channels /\ j # None /\ j \in busySet' /\ callbacksInt'[j].pin = p
  BY <1>1, <1>2, GpioteAssumption DEF None, Channels, busySet, freeSet, table
<1>4. event'[j] \/ (isr' = j /\ phase' = "callback")
  <2>1. CASE IrqEnter
    BY <1>2, <1>3, <2>1 DEF IrqEnter
  <2>2. CASE IrqExit
    BY <1>2, <2>2 DEF IrqExit
  <2>3. CASE UserEdge
    BY <1>2, <1>3, <2>3 DEF UserEdge, Edge
  <2>4. CASE CallbackReturns /\ callbacksInt[isr].cb # handle_interrupt
    <3>1. callbacksInt[j].cb = handle_interrupt
      BY <1>1, <1>2, CallbackOfBusy DEF ListenInv
    <3> QED
      BY <1>2, <2>4, <3>1 DEF CallbackReturns, regs
  <2> QED
    BY <2>1, <2>2, <2>3, <2>4
<1> QED
  BY <1>3, <1>4 DEF Pending

LEMMA StepInStep ==
    ASSUME SoftInv, Half, FrameTypes, InStep, SoftNext
    PROVE  InStep'
<1>1. ListenInv /\ SafeInv /\ PortsInv /\ OnlyInv /\ Tidy
  BY DEF SoftInv, Tidy, Half
<1>2. ASSUME recv' = "no", \A p \in Ports : line'[p].bit \notin {"start", "data"}
      PROVE  InStep'
  BY <1>2 DEF InStep
<1>3. CASE SoftSketch
  <2>1. sketchRuns /\ UNCHANGED <<recv, line>>
    BY <1>3, SketchApart
  <2>2. recv = "no" /\ \A p \in Ports : line[p].bit \notin {"start", "data"}
    BY <2>1, LinesQuiet DEF sketchRuns
  <2> QED
    BY <1>2, <2>1, <2>2
<1>4. ASSUME UNCHANGED <<active_object, attached, op, recv, d, line>>,
             \A p \in Ports : Pending(p) => Pending(p)'
      PROVE  InStep'
  BY <1>4 DEF InStep
<1>5. CASE (IrqEnter \/ IrqExit) /\ UNCHANGED softVars
  BY <1>4, <1>5, PendingStays DEF softVars, portVars, recvVars, lineVars, IrqEnter, IrqExit, ghosts
<1>6. CASE UserCallback
  <2>1. CallbackReturns /\ callbacksInt[isr].cb # handle_interrupt /\ UNCHANGED softVars
    BY <1>1, <1>6, CallbacksReturn DEF UserCallback
  <2> QED
    BY <1>4, <2>1, PendingStays DEF softVars, portVars, recvVars, lineVars, CallbackReturns, ghosts
<1>7. CASE UserEdge
  BY <1>4, <1>7, PendingStays DEF UserEdge, Edge, softVars, portVars, recvVars, lineVars
<1>8. CASE RecvIgnores
  <2>1. recv = "no" /\ UNCHANGED <<recv, line>>
    BY <1>8 DEF RecvIgnores, softVars, recvVars, lineVars
  <2>2. \A p \in Ports : line[p].bit \notin {"start", "data"}
    BY <1>8, <2>1, SoftSerialAssumption DEF RecvIgnores, InStep, canBeHigh
  <2> QED
    BY <1>2, <2>1, <2>2
<1>9. CASE RecvBegin
  <2>1. /\ recv = "no" /\ recv' = "data_bits" /\ active_object \in Ports
        /\ UNCHANGED <<active_object, op, line, attached>>
        /\ canBeLow(active_object)
        /\ d' = IF line[active_object].bit = "start" THEN line[active_object].frame ELSE Garbled
    BY <1>1, <1>9 DEF RecvBegin, PortsInv, PortTypes, portVars, lineVars, ghosts
  <2>2. line[active_object].bit = "start"
    BY <2>1 DEF InStep, canBeLow
  <2> QED
    BY <2>1, <2>2 DEF InStep
<1>10. CASE RecvStore
  <2>1. recv = "store" /\ recv' = "stop_bit" /\ UNCHANGED <<active_object, op, line, attached>>
    BY <1>10 DEF RecvStore, lineVars, gpio, ghosts
  <2> QED
    BY <2>1 DEF InStep
<1>11. CASE RecvEnd
  <2>1. recv = "end" /\ recv' = "no" /\ line' = line
    BY <1>11 DEF RecvEnd, lineVars
  <2>2. \A p \in Ports : line[p].bit \notin {"start", "data"}
    BY <2>1 DEF InStep
  <2> QED
    BY <1>2, <2>1, <2>2
<1>12. CASE Tick
  <2>1. UNCHANGED <<active_object, attached, isr, phase, table, mode, d>>
    BY <1>1, <1>12, OpOfTick DEF Tick
  <2>2. CASE recv' = "no" /\ \A p \in Ports : line'[p] = [bit |-> "idle", frame |-> 0]
    BY <1>2, <2>2
  <2>3. CASE /\ recv' = "no" /\ active_object \in Ports /\ attached[active_object] # NoCb
             /\ op.at \in {"none", "stop_bit"} /\ op'.at = "none"
             /\ line' = [p \in Ports |-> IF p = active_object
                                         THEN [bit |-> "start", frame |-> frames + 1]
                                         ELSE [bit |-> "idle", frame |-> 0]]
             /\ \A j \in Channels : mode[j] = active_object => event'[j]
    <3>1. active_object \in Pins
      BY <2>3, SoftSerialAssumption
    <3>2. PICK j \in busySet : callbacksInt[j].pin = active_object
      BY <1>1, <2>3, <3>1 DEF ListenInv, DisciplineInv, AttachedHasChannel
    <3>3. ~(call.op \in {"configure", "mask", "free"} /\ call.j = j)
      <4> SUFFICES ASSUME call.op \in {"configure", "mask", "free"}, call.j = j
                   PROVE  FALSE
        OBVIOUS
      <4>1. call # NoCall
        BY DEF NoCall
      <4>2. call.pin \in Others
        BY <1>1, <2>3, <4>1 DEF PortsInv, CallsInv
      <4>3. callbacksInt[call.j].pin = call.pin
        BY <1>1 DEF ListenInv, DisciplineInv, CallInv, isFirst, entriesOf
      <4> QED
        BY <2>3, <3>2, <4>2, <4>3 DEF Others
    <3>4. mode[j] = active_object /\ j \in Channels
      BY <1>1, <3>2, <3>3 DEF ListenInv, BusyWatches, busySet
    <3>5. Pending(active_object)'
      BY <2>1, <2>3, <3>2, <3>4 DEF Pending, busySet, freeSet, table
    <3> QED
      BY <2>1, <2>3, <3>5 DEF InStep
  <2>4. CASE /\ active_object \in Ports /\ op' = op
             /\ \/ recv = "data_bits" /\ recv' = "store"
                   /\ line'[active_object] = [line[active_object] EXCEPT !.bit = "data"]
                \/ recv = "stop_bit" /\ recv' = "end"
                   /\ line'[active_object] = [line[active_object] EXCEPT !.bit = "stop"]
             /\ \A p \in Ports \ {active_object} : line'[p] = [bit |-> "idle", frame |-> 0]
    BY <2>1, <2>4 DEF InStep, FrameTypes
  <2> QED
    BY <1>12, <2>2, <2>3, <2>4, TickOfFrames
<1> QED
  BY <1>3, <1>5, <1>6, <1>7, <1>8, <1>9, <1>10, <1>11, <1>12 DEF SoftNext, SoftHandler

LEMMA StepFrameTypes ==
    ASSUME SoftInv, Half, FrameTypes, InStep, SoftNext
    PROVE  FrameTypes'
<1>1. ListenInv /\ SafeInv /\ PortsInv /\ OnlyInv /\ Tidy
  BY DEF SoftInv, Tidy, Half
<1>2. /\ 0 \in Slots /\ next(head) \in Slots /\ next(tail) \in Slots
      /\ <<>> \in Seq(Nat)
  BY NextWraps, SoftSerialAssumption DEF FrameTypes, Slots
<1> DEFINE rest == <<line, frames, d>>
           kept == <<bufVars, due, lost, overflow>>
<1>3. ASSUME UNCHANGED rest,
             buffer' = buffer, head' \in Slots, tail' \in Slots, due' \in Seq(Nat),
             overflow' \in [Ports -> BOOLEAN], lost' \in [Ports -> BOOLEAN]
      PROVE  FrameTypes'
  BY <1>3 DEF FrameTypes
<1>4. CASE SoftSketch
  <2>1. UNCHANGED rest
    BY <1>4, SketchApart
  <2>2. CASE UNCHANGED kept
    BY <1>3, <2>1, <2>2 DEF bufVars, FrameTypes
  <2>3. CASE ListenReset \/ FlushTail \/ FlushHead \/ \E p \in Ports : Overflow(p)
    <3>1. CASE ListenReset
      <4>1. /\ buffer' = buffer /\ head' = 0 /\ tail' = 0 /\ due' = <<>>
            /\ overflow' = [overflow EXCEPT ![op.port] = FALSE]
            /\ lost' = [lost EXCEPT ![op.port] = FALSE]
        BY <3>1 DEF ListenReset
      <4> QED
        BY <1>2, <1>3, <2>1, <4>1 DEF FrameTypes
    <3>2. CASE FlushTail \/ FlushHead
      <4>1. /\ UNCHANGED <<buffer, overflow, lost>>
            /\ head' \in {0, head} /\ tail' \in {0, tail} /\ due' \in {due, <<>>}
        BY <3>2 DEF FlushTail, FlushHead, portVars
      <4> QED
        BY <1>2, <1>3, <2>1, <4>1 DEF FrameTypes
    <3>3. ASSUME NEW p \in Ports, Overflow(p)
          PROVE  FrameTypes'
      BY <1>3, <2>1, <3>3 DEF Overflow, bufVars, FrameTypes
    <3> QED
      BY <2>3, <3>1, <3>2, <3>3
  <2>4. CASE Read
    <3>1. due' \in Seq(Nat)
      <4>1. due \in Seq(Nat) /\ due' = IF due = <<>> THEN due ELSE Tail(due)
        BY <2>4 DEF Read, FrameTypes
      <4> QED
        BY <4>1, HeadTailProperties
    <3> QED
      BY <1>2, <1>3, <2>1, <2>4, <3>1 DEF Read, portVars, FrameTypes
  <2> QED
    BY <1>4, <2>2, <2>3, <2>4 DEF SoftSketch, Listen, WriteMask, StopListening, Stopped,
       ListenAttach, ListenAttached, CallStep, UserCall, FlushMask, FlushUnmask, WriteUnmask,
       softVars, portVars
<1>5. CASE RecvStore
  <2>1. /\ UNCHANGED rest /\ due' = due /\ lost' = lost /\ head' = head
        /\ \/ /\ buffer' = [buffer EXCEPT ![tail] = d] /\ tail' = next(tail)
              /\ overflow' = overflow
           \/ /\ overflow' = [overflow EXCEPT ![active_object] = TRUE]
              /\ buffer' = buffer /\ tail' = tail
    BY <1>5 DEF RecvStore, lineVars
  <2> QED
    BY <1>2, <2>1 DEF FrameTypes
<1>6. CASE RecvBegin
  <2>1. active_object \in Ports
    BY <1>1, <1>6 DEF RecvBegin, PortsInv, PortTypes
  <2> QED
    BY <1>6, <2>1 DEF RecvBegin, FrameTypes, Garbled, lineVars, bufVars, portVars
<1>7. CASE RecvEnd
  BY <1>7 DEF RecvEnd, FrameTypes, Garbled, lineVars, bufVars, portVars
<1>8. CASE UNCHANGED softVars
  BY <1>8 DEF softVars, FrameTypes, lineVars, bufVars, portVars, recvVars
<1>9. CASE Tick
  <2>1. UNCHANGED <<buffer, head, tail, overflow, d>>
    BY <1>9 DEF Tick, portVars, bufVars
  <2>2. \A p \in Ports : line'[p] \in [bit : {"idle", "start", "data", "stop"}, frame : Nat]
    <3> SUFFICES ASSUME NEW p \in Ports
                 PROVE  line'[p] \in [bit : {"idle", "start", "data", "stop"}, frame : Nat]
      OBVIOUS
    <3>1. /\ frames + 1 \in Nat
          /\ line[p] \in [bit : {"idle", "start", "data", "stop"}, frame : Nat]
      BY DEF FrameTypes
    <3>2. \/ line'[p] = [bit |-> "idle", frame |-> 0]
          \/ line'[p] = [bit |-> "start", frame |-> frames + 1]
          \/ line'[p] = [line[p] EXCEPT !.bit = "data"]
          \/ line'[p] = [line[p] EXCEPT !.bit = "stop"]
      <4>1. CASE p = active_object
        BY <1>9, <4>1, TickOfFrames
      <4>2. CASE p # active_object
        BY <1>9, <4>2, TickOfFrames
      <4> QED
        BY <4>1, <4>2
    <3> QED
      BY <3>1, <3>2
  <2>3. line' = [p \in Ports |-> line'[p]]
    <3>1. PICK begins : line' = [p \in Ports |-> lineAfter(p, begins)]
      BY <1>9 DEF Tick
    <3> QED
      BY <3>1
  <2>4. /\ frames' \in Nat
        /\ due' = due \/ due' = Append(due, frames + 1)
        /\ lost' \in [Ports -> BOOLEAN]
    <3>1. frames \in Nat /\ lost \in [Ports -> BOOLEAN]
      BY DEF FrameTypes
    <3>2. /\ frames' = frames \/ frames' = frames + 1
          /\ due' = due \/ due' = Append(due, frames + 1)
          /\ lost' = lost \/ lost' = [lost EXCEPT ![active_object] = TRUE]
      BY <1>9, TickOfFrames
    <3>3. frames' \in Nat
      BY <3>1, <3>2
    <3>4. lost' \in [Ports -> BOOLEAN]
      BY <3>1, <3>2
    <3> QED
      BY <3>2, <3>3, <3>4
  <2>5. due' \in Seq(Nat)
    <3>1. due \in Seq(Nat) /\ frames + 1 \in Nat
      BY DEF FrameTypes
    <3>2. Append(due, frames + 1) \in Seq(Nat)
      BY <3>1, AppendProperties
    <3> QED
      BY <2>4, <3>1, <3>2
  <2> QED
    BY <2>1, <2>2, <2>3, <2>4, <2>5 DEF FrameTypes
<1> QED
  BY <1>4, <1>5, <1>6, <1>7, <1>8, <1>9 DEF SoftNext, SoftHandler, RecvIgnores, UserCallback,
     UserEdge

LEMMA StepBooked ==
    ASSUME SoftInv, Half, FrameTypes, FrameTypes', InStep, Booked, SoftNext
    PROVE  Booked'
<1>1. ListenInv /\ SafeInv /\ PortsInv /\ OnlyInv /\ Tidy
  BY DEF SoftInv, Tidy, Half
<1>2. /\ unread = between(buffer, head, tail)
      /\ unread' = between(buffer', head', tail')
  BY UnreadBetween DEF unread, FrameTypes
<1>3. ASSUME UNCHANGED <<bufVars, due, lost, overflow>>, op'.at # "flush_head",
             op.at # "flush_head", active_object' = active_object,
             \A p \in Ports : /\ Coming(p)' <=> Coming(p)
                              /\ Coming(p) => line'[p].frame = line[p].frame
      PROVE  Booked'
  BY <1>2, <1>3 DEF Booked, bufVars
<1>4. CASE SoftSketch
  <2>1. sketchRuns /\ UNCHANGED <<recv, line>>
    BY <1>4, SketchApart
  <2>2. recv = "no" /\ \A p \in Ports : line[p].bit \notin {"start", "data"}
    BY <2>1, LinesQuiet DEF sketchRuns
  <2>3. \A p \in Ports : ~Coming(p) /\ ~Coming(p)'
    BY <2>1, <2>2 DEF Coming
  <2>4. IF op.at = "flush_head" THEN tail = 0 /\ overflow = lost
        ELSE due = unread /\ overflow = lost
    BY <2>3 DEF Booked
  <2>5. ASSUME IF op'.at = "flush_head" THEN tail' = 0 /\ overflow' = lost'
               ELSE due' = unread' /\ overflow' = lost'
        PROVE  Booked'
    BY <2>3, <2>5 DEF Booked
  <2>6. ASSUME UNCHANGED <<bufVars, due, lost, overflow>>, op'.at # "flush_head",
               op.at # "flush_head"
        PROVE  Booked'
    BY <1>2, <2>4, <2>5, <2>6 DEF bufVars
  <2>7. CASE \/ (\E p \in Ports : Listen(p) \/ WriteMask(p)) \/ StopListening \/ Stopped
             \/ ListenAttach \/ FlushMask \/ FlushUnmask \/ WriteUnmask
    <3>1. /\ UNCHANGED <<bufVars, due, lost, overflow>>
          /\ op.at \in {"none", "stop", "attach", "flush_unmask", "unmask"}
      BY <2>7 DEF Listen, WriteMask, StopListening, Stopped, ListenAttach, FlushMask,
         FlushUnmask, WriteUnmask, sketchIs, portVars
    <3>2. op'.at # "flush_head"
      BY <1>1, <2>7, <3>1 DEF Listen, WriteMask, StopListening, Stopped, ListenAttach,
         FlushMask, FlushUnmask, WriteUnmask, Idle, PortsInv, PortTypes
    <3> QED
      BY <2>6, <3>1, <3>2
  <2>8. CASE ListenAttached \/ CallStep
    <3>1. call # NoCall /\ UNCHANGED <<bufVars, due, lost, overflow>> /\ (op' = op \/ op' = Idle)
      BY <2>8 DEF ListenAttached, CallStep, AttachRecord, AttachConfigure, AttachEnable,
         DetachDisable, DetachMask, DetachFree, softVars, portVars, NoCall
    <3>2. op.at # "flush_head"
      BY <1>1, <3>1 DEF PortsInv, CallsInv
    <3> QED
      BY <2>6, <3>1, <3>2 DEF Idle
  <2>9. ASSUME NEW p \in Others, UserCall(p)
        PROVE  Booked'
    BY <2>6, <2>9 DEF UserCall, softVars, portVars, Idle
  <2>10. CASE ListenReset
    <3>1. /\ head' = 0 /\ tail' = 0 /\ due' = <<>> /\ op'.at = "attach" /\ op.at = "reset"
          /\ overflow' = [overflow EXCEPT ![op.port] = FALSE]
          /\ lost' = [lost EXCEPT ![op.port] = FALSE]
      BY <1>1, <2>10 DEF ListenReset, sketchIs, PortsInv, PortTypes
    <3>2. unread' = <<>>
      BY <1>2, <3>1, BetweenEmpty DEF FrameTypes
    <3> QED
      BY <2>4, <2>5, <3>1, <3>2
  <2>11. CASE Read
    <3>1. /\ head # tail /\ head' = next(head) /\ UNCHANGED <<buffer, tail, op, lost, overflow>>
          /\ op.at = "none" /\ due' = IF due = <<>> THEN due ELSE Tail(due)
      BY <2>11 DEF Read, sketchIs, portVars
    <3>2. unread # <<>> /\ unread' = Tail(unread)
      BY <1>2, <3>1, BetweenTail DEF FrameTypes
    <3> QED
      BY <2>4, <2>5, <3>1, <3>2
  <2>12. ASSUME NEW p \in Ports, Overflow(p)
         PROVE  Booked'
    <3>1. /\ UNCHANGED <<buffer, head, tail, due, op>> /\ op.at = "none"
          /\ overflow' = [overflow EXCEPT ![p] = FALSE]
          /\ lost' = [lost EXCEPT ![p] = FALSE]
      BY <2>12 DEF Overflow, sketchIs, bufVars
    <3> QED
      BY <1>2, <2>4, <2>5, <3>1
  <2>13. CASE FlushTail
    <3>1. tail' = 0 /\ UNCHANGED <<lost, overflow>> /\ op'.at = "flush_head" /\ op.at = "flush_tail"
      BY <1>1, <2>13 DEF FlushTail, sketchIs, portVars, PortsInv, PortTypes
    <3> QED
      BY <2>4, <2>5, <3>1
  <2>14. CASE FlushHead
    <3>1. /\ head' = 0 /\ UNCHANGED <<tail, lost, overflow>> /\ due' = <<>>
          /\ op'.at = "flush_unmask" /\ op.at = "flush_head"
      BY <1>1, <2>14 DEF FlushHead, sketchIs, portVars, PortsInv, PortTypes
    <3>2. unread' = <<>>
      BY <1>2, <2>4, <3>1, BetweenEmpty DEF FrameTypes
    <3> QED
      BY <2>4, <2>5, <3>1, <3>2
  <2> QED
    BY <1>4, <2>7, <2>8, <2>9, <2>10, <2>11, <2>12, <2>13, <2>14 DEF SoftSketch
<1>5. CASE \/ (IrqEnter \/ IrqExit \/ CallbackReturns) /\ UNCHANGED softVars
           \/ UserEdge \/ RecvBegin \/ RecvEnd
  <2>1. /\ UNCHANGED <<bufVars, due, lost, overflow, line, active_object, op>>
        /\ recv' = "store" <=> recv = "store"
    BY <1>5 DEF UserEdge, RecvBegin, RecvEnd, softVars, portVars, lineVars, recvVars
  <2>2. \A p \in Ports : /\ Coming(p)' <=> Coming(p)
                         /\ Coming(p) => line'[p].frame = line[p].frame
    BY <2>1 DEF Coming
  <2>3. CASE op.at # "flush_head"
    BY <1>3, <2>1, <2>2, <2>3
  <2>4. CASE op.at = "flush_head"
    BY <2>1, <2>4 DEF Booked, bufVars
  <2> QED
    BY <2>3, <2>4
<1>6. CASE RecvIgnores \/ UserCallback
  BY <1>1, <1>5, <1>6, CallbacksReturn DEF RecvIgnores, UserCallback
<1>7. CASE RecvStore
  <2>1. /\ recv = "store" /\ recv' = "stop_bit"
        /\ UNCHANGED <<active_object, head, op, due, lost, line>>
        /\ IF next(tail) # head
           THEN /\ buffer' = [buffer EXCEPT ![tail] = d] /\ tail' = next(tail)
                /\ overflow' = overflow
           ELSE /\ overflow' = [overflow EXCEPT ![active_object] = TRUE]
                /\ UNCHANGED <<buffer, tail>>
    BY <1>7 DEF RecvStore, lineVars
  <2>2. /\ active_object \in Ports /\ line[active_object].bit = "data"
        /\ d = line[active_object].frame /\ op.at # "flush_head"
    BY <1>1, <2>1 DEF ListenInv, RecvInHandler, InStep
  <2>3. Coming(active_object) /\ \A p \in Ports : ~Coming(p)'
    BY <2>1, <2>2 DEF Coming, InStep
  <2>4. Len(unread) = SS_MAX_RX_BUFF - 1 <=> next(tail) = head
    BY <1>2, BetweenIsSeq DEF FrameTypes
  <2>5. CASE next(tail) # head
    <3>1. due = Append(unread, d) /\ lost = overflow
      BY <2>2, <2>3, <2>4, <2>5 DEF Booked
    <3>2. unread' = Append(unread, d)
      <4>1. between([buffer EXCEPT ![tail] = d], head, next(tail))
              = Append(between(buffer, head, tail), d)
        <5>1. buffer \in [Slots -> Nat] /\ head \in Slots /\ tail \in Slots /\ d \in Nat
          BY DEF FrameTypes
        <5> QED
          BY <2>5, <5>1, BetweenAppends
      <4> QED
        BY <1>2, <2>1, <2>5, <4>1
    <3> QED
      BY <2>1, <2>2, <2>3, <2>5, <3>1, <3>2 DEF Booked
  <2>6. CASE next(tail) = head
    <3>1. due = unread /\ lost = [overflow EXCEPT ![active_object] = TRUE]
      BY <2>2, <2>3, <2>4, <2>6 DEF Booked
    <3>2. unread' = unread
      BY <1>2, <2>1, <2>6
    <3> QED
      BY <2>1, <2>2, <2>3, <2>6, <3>1, <3>2 DEF Booked
  <2> QED
    BY <2>5, <2>6
<1>8. CASE Tick
  <2>1. UNCHANGED <<active_object, overflow, bufVars>>
    BY <1>8 DEF Tick, portVars
  <2>2. unread' = unread
    BY <1>2, <2>1 DEF bufVars
  <2>3. op'.at = "flush_head" <=> op.at = "flush_head"
    BY <1>1, <1>8, OpOfTick DEF Idle, PortsInv, PortTypes
  <2>4. isr = None => \A p \in Ports : ~Coming(p)
    <3>1. isr = None => ~irqRaised
      BY <1>8 DEF Tick
    <3> QED
      BY <3>1, LinesQuiet DEF Coming
  <2>5. CASE /\ isr = None /\ recv' = "no"
             /\ \A p \in Ports : line'[p] = [bit |-> "idle", frame |-> 0]
             /\ due' = due /\ lost' = lost
    <3>1. \A p \in Ports : ~Coming(p)'
      BY <2>5 DEF Coming
    <3> QED
      BY <2>1, <2>2, <2>3, <2>4, <2>5, <3>1 DEF Booked, bufVars
  <2>6. CASE /\ isr = None /\ recv' = "no"
             /\ active_object \in Ports /\ op.at \in {"none", "stop_bit"} /\ op'.at = "none"
             /\ line' = [p \in Ports |-> IF p = active_object
                                         THEN [bit |-> "start", frame |-> frames + 1]
                                         ELSE [bit |-> "idle", frame |-> 0]]
             /\ IF Len(due) = SS_MAX_RX_BUFF - 1
                THEN due' = due /\ lost' = [lost EXCEPT ![active_object] = TRUE]
                ELSE due' = Append(due, frames + 1) /\ lost' = lost
    <3>1. due = unread /\ overflow = lost
      BY <2>4, <2>6 DEF Booked
    <3>2. \A p \in Ports : Coming(p)' <=> p = active_object
      BY <2>1, <2>6 DEF Coming
    <3>3. line'[active_object].frame = frames + 1
      BY <2>6
    <3>4. IF Len(unread') = SS_MAX_RX_BUFF - 1
          THEN due' = unread' /\ lost' = [overflow' EXCEPT ![active_object] = TRUE]
          ELSE due' = Append(unread', line'[active_object].frame) /\ lost' = overflow'
      BY <2>1, <2>2, <2>6, <3>1, <3>3
    <3> QED
      BY <2>6, <3>2, <3>4 DEF Booked
  <2>7. CASE /\ active_object \in Ports /\ op' = op
             /\ \/ recv = "data_bits" /\ recv' = "store"
                   /\ line'[active_object] = [line[active_object] EXCEPT !.bit = "data"]
                \/ recv = "stop_bit" /\ recv' = "end"
                   /\ line'[active_object] = [line[active_object] EXCEPT !.bit = "stop"]
             /\ due' = due /\ lost' = lost
    <3>1. line[active_object] \in [bit : {"idle", "start", "data", "stop"}, frame : Nat]
      BY <2>7 DEF FrameTypes
    <3>2. \A p \in Ports : /\ Coming(p)' <=> Coming(p)
                           /\ Coming(p) => line'[p].frame = line[p].frame
      BY <2>1, <2>7, <3>1 DEF Coming, InStep
    <3>3. op.at # "flush_head"
      BY <2>7 DEF InStep
    <3> QED
      BY <1>3, <2>1, <2>7, <3>2, <3>3
  <2> QED
    BY <1>8, <2>5, <2>6, <2>7, TickOfFrames
<1> QED
  BY <1>4, <1>5, <1>6, <1>7, <1>8 DEF SoftNext, SoftHandler

LEMMA StepFrames ==
    SoftInv /\ FrameInv /\ [SoftNext]_<<usage, softVars, gpio>> => FrameInv'
<1> SUFFICES ASSUME SoftInv, FrameInv, [SoftNext]_<<usage, softVars, gpio>>
             PROVE  FrameInv'
  OBVIOUS
<1>1. usage' = usage /\ (Half' <=> Half)
  BY DEF SoftNext, Half, Disciplined
<1>2. CASE SoftNext /\ Half
  <2>1. FrameTypes /\ InStep /\ Booked
    BY <1>2 DEF FrameInv
  <2> QED
    BY <1>2, <2>1, StepFrameTypes, StepInStep, StepBooked DEF FrameInv
<1>3. CASE UNCHANGED <<usage, softVars, gpio>> /\ Half
  <2>1. FrameTypes /\ InStep /\ Booked
    BY <1>3 DEF FrameInv
  <2> QED
    <3>1. /\ UNCHANGED <<active_object, overflow, buffer, head, tail, op, recv, d, line, frames,
                         due, lost>>
          /\ UNCHANGED <<freeChannels, callbacksInt, event, isr, phase, attached>>
      BY <1>3 DEF softVars, portVars, bufVars, recvVars, lineVars, gpio, table, regs, ghosts
    <3>2. FrameTypes'
      BY <2>1, <3>1 DEF FrameTypes
    <3>3. InStep'
      BY <2>1, <3>1 DEF InStep, Pending, busySet, freeSet
    <3>4. unread' = unread /\ \A p \in Ports : Coming(p)' <=> Coming(p)
      BY <3>1 DEF unread, Coming
    <3>5. Booked'
      BY <2>1, <3>1, <3>4 DEF Booked
    <3> QED
      BY <3>2, <3>3, <3>5 DEF FrameInv
<1> QED
  BY <1>1, <1>2, <1>3 DEF FrameInv

LEMMA InitFrames == SoftInit => FrameInv
<1> SUFFICES ASSUME SoftInit
             PROVE  FrameTypes /\ InStep /\ Booked
  BY DEF FrameInv
<1>1. FrameTypes
  BY SoftSerialAssumption DEF SoftInit, FrameTypes, Slots, Garbled
<1>2. \A p \in Ports : line[p].bit = "idle"
  BY DEF SoftInit
<1>3. InStep /\ \A p \in Ports : ~Coming(p)
  BY <1>2 DEF SoftInit, InStep, Coming
<1>4. unread = <<>>
  <2>1. unread = between(buffer, head, tail) /\ head = 0 /\ tail = 0
    <3>1. head \in Slots /\ tail \in Slots
      BY <1>1 DEF FrameTypes
    <3>2. unread = between(buffer, head, tail)
      BY <3>1, UnreadBetween DEF unread
    <3> QED
      BY <3>2 DEF SoftInit
  <2> QED
    BY <1>1, <2>1, BetweenEmpty DEF FrameTypes
<1> QED
  BY <1>1, <1>3, <1>4 DEF SoftInit, Booked, Idle

\* Whatever the size of the buffer and the number of ports, channels and other pins: if
\* the other side sends only to the port that listens while that does not send, and
\* callbacks do not call back, every frame is received once, whole and in order, or
\* overflow() tells of the loss (SoftwareSerial.cpp 74-97, 138-204, 222-305).
THEOREM FramesAreReceived == SoftSpec => []FramesReceived
<1> DEFINE Inv == SoftInv /\ FrameInv
<1>1. SoftInit => Inv
  BY InitSoft, InitFrames
<1>2. Inv /\ [SoftNext]_<<usage, softVars, gpio>> => Inv'
  BY StepSoft, StepFrames
<1>3. Inv => FramesReceived
  <2> SUFFICES ASSUME Inv, Half, quiet, op.at # "flush_head"
               PROVE  unread = due /\ overflow = lost
    BY DEF FramesReceived, Half
  <2>1. recv = "no" /\ \A p \in Ports : line[p].bit \notin {"start", "data"}
    BY LinesQuiet DEF quiet, FrameInv
  <2>2. \A p \in Ports : ~Coming(p)
    BY <2>1 DEF Coming
  <2> QED
    BY <2>2 DEF FrameInv, Booked
<1> QED
  BY <1>1, <1>2, <1>3, PTL DEF SoftSpec
===============================================================================
