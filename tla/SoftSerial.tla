------------------------------ MODULE SoftSerial ------------------------------
(***************************************************************************)
(* The software serial port, libraries/SoftwareSerial, on the interrupts   *)
(* of Gpiote: the start bit of a frame is an edge on the receive pin, and  *)
(* handle_interrupt, the callback attached to it, stays in the handler for *)
(* the length of the frame, in delays of one bit.  The ports share one     *)
(* buffer, and one of them listens at a time.                              *)
(*                                                                         *)
(* Time is that of the lines.  A frame is a start bit, its data bits and a *)
(* stop bit; Tick takes every line one of the three further, and with it   *)
(* the delay the processor is in.  What the processor does between two     *)
(* delays takes no time, the interrupt is served within the start bit.     *)
(* A port is named by its receive pin, and a frame by its number.  There   *)
(* are more usages than in Gpiote: "duplex", frames come at any time, also *)
(* to a port that does not listen or that sends; and "others", the sketch  *)
(* attaches other pins.                                                    *)
(***************************************************************************)
EXTENDS Gpiote, Sequences

CONSTANTS
    Ports,             \* the ports, by their receive pins
    NoPort,            \* the null active_object
    handle_interrupt,  \* the callback of the ports
    SS_MAX_RX_BUFF,    \* _SS_MAX_RX_BUFF, 64
    MaxFrame           \* bound: frames on the lines

ASSUME SoftSerialAssumption ==
    /\ Ports \subseteq Pins /\ NoPort \notin Ports
    /\ handle_interrupt \in Callbacks
    /\ SS_MAX_RX_BUFF \in Nat \ {0, 1}
    /\ MaxFrame \in Nat

VARIABLES
    active_object,   \* the port that listens, or NoPort
    intMask,         \* _intMask: the channels it stands for, {} before begin()
    overflow,        \* _buffer_overflow
    refused,         \* history: the ports whose last attachInterrupt found each
                     \* channel in use for another attached pin
    buffer, head, tail,    \* _receive_buffer, _head and _tail
    op,              \* the call of the library the sketch is in
    recv, d,         \* where recv() is, and its local d
    line,            \* the line of each port
    frames,          \* history: frames so far
    due,             \* history: the frames read() is still to return
    lost             \* history: a frame was lost to a full buffer since
                     \* overflow() last told

bufVars  == <<buffer, head, tail>>
portVars == <<active_object, intMask, overflow, refused>>
recvVars == <<recv, d>>
lineVars == <<line, frames>>
softVars == <<portVars, bufVars, op, recvVars, lineVars, due, lost>>

Others  == Pins \ Ports
Garbled == 0
Idle    == [at |-> "none", port |-> NoPort]

next(i) == (i + 1) % SS_MAX_RX_BUFF

SoftInit ==
    /\ Init
    /\ active_object = NoPort
    /\ intMask = [p \in Ports |-> {}] /\ overflow = [p \in Ports |-> FALSE]
    /\ refused = {}
    /\ buffer = [i \in 0 .. SS_MAX_RX_BUFF - 1 |-> Garbled]
    /\ head = 0 /\ tail = 0
    /\ op = Idle /\ recv = "no" /\ d = Garbled
    /\ line = [p \in Ports |-> [bit |-> "idle", frame |-> 0]]
    /\ frames = 0
    /\ due = <<>> /\ lost = [p \in Ports |-> FALSE]

-------------------------------------------------------------------------------
(* The sketch: listen, stopListening, and calls for other pins. *)

sketchIs(at) == sketchRuns /\ call = NoCall /\ op.at = at

\* begin() and listen(): the port that listens stops first ...
Listen(p) ==
    /\ sketchIs("none") /\ active_object # p
    /\ IF active_object = NoPort
       THEN op' = [at |-> "reset", port |-> p] /\ UNCHANGED gpio
       ELSE \/ /\ DetachFind(active_object)
               /\ op' = [at |-> "stop", port |-> p]
            \/ /\ entriesOf(active_object) = {}
               /\ op' = [at |-> "stop", port |-> p]
               /\ UNCHANGED gpio
    /\ UNCHANGED <<portVars, bufVars, recvVars, lineVars, due, lost>>

\* stopListening() and end().
StopListening ==
    /\ sketchIs("none") /\ active_object # NoPort
    /\ \/ DetachFind(active_object)
       \/ entriesOf(active_object) = {} /\ UNCHANGED gpio
    /\ op' = [at |-> "stop", port |-> NoPort]
    /\ UNCHANGED <<portVars, bufVars, recvVars, lineVars, due, lost>>

\* ... its pin has been detached ...
Stopped ==
    /\ sketchIs("stop")
    /\ active_object' = NoPort
    /\ op' = IF op.port = NoPort THEN Idle ELSE [op EXCEPT !.at = "reset"]
    /\ UNCHANGED <<gpio, intMask, overflow, refused, bufVars, recvVars,
                   lineVars, due, lost>>

\* Mutant of ListenReset: the characters of the other port stay in the buffer.
ListenKeepsBuffer ==
    /\ sketchIs("reset")
    /\ overflow' = [overflow EXCEPT ![op.port] = FALSE]
    /\ active_object' = op.port
    /\ op' = [op EXCEPT !.at = "attach"]
    /\ due' = <<>> /\ lost' = [lost EXCEPT ![op.port] = FALSE]
    /\ UNCHANGED <<gpio, intMask, refused, bufVars, recvVars, lineVars>>

\* ... the buffer is emptied ...
ListenReset ==
    /\ sketchIs("reset")
    /\ overflow' = [overflow EXCEPT ![op.port] = FALSE]
    /\ head' = 0 /\ tail' = 0
    /\ active_object' = op.port
    /\ op' = [op EXCEPT !.at = "attach"]
    /\ due' = <<>> /\ lost' = [lost EXCEPT ![op.port] = FALSE]
    /\ UNCHANGED <<gpio, intMask, refused, buffer, recvVars, lineVars>>

\* Every channel is in use, and the only one in use for the attached pin it serves.
crowded ==
    \A j \in Channels :
        /\ ~freeChannels[j] /\ attached[callbacksInt[j].pin] # NoCb
        /\ \A k \in Channels : callbacksInt[k].pin = callbacksInt[j].pin => k = j

\* Mutant of ListenAttach: the mask is kept if attachInterrupt fails.
ListenKeepsMask ==
    /\ sketchIs("attach")
    /\ \/ AttachPick(op.port, handle_interrupt) /\ UNCHANGED op
       \/ AttachFails(op.port) /\ op' = Idle
    /\ refused' = IF crowded THEN refused \cup {op.port} ELSE refused \ {op.port}
    /\ UNCHANGED <<active_object, intMask, overflow, bufVars, recvVars,
                   lineVars, due, lost>>

\* ... and the pin attached.  Without a free channel attachInterrupt returns -1,
\* as a mask all the channels, and listen() returns true all the same.
ListenAttach ==
    /\ sketchIs("attach")
    /\ \/ /\ AttachPick(op.port, handle_interrupt)
          /\ UNCHANGED <<intMask, op>>
       \/ /\ AttachFails(op.port)
          /\ intMask' = [intMask EXCEPT ![op.port] = Channels]
          /\ op' = Idle
    /\ refused' = IF crowded THEN refused \cup {op.port} ELSE refused \ {op.port}
    /\ UNCHANGED <<active_object, overflow, bufVars, recvVars, lineVars,
                   due, lost>>

\* The last step of attachInterrupt; listen() keeps the mask it returns.
ListenAttached ==
    /\ AttachEnable
    /\ IF op.at = "attach"
       THEN /\ intMask' = [intMask EXCEPT ![op.port] = {call.j}]
            /\ op' = Idle
       ELSE UNCHANGED <<intMask, op>>
    /\ UNCHANGED <<active_object, overflow, refused, bufVars, recvVars, lineVars,
                   due, lost>>

\* The other steps of attachInterrupt and detachInterrupt.
CallStep ==
    /\ \/ AttachRecord \/ AttachConfigure
       \/ DetachDisable \/ DetachMask \/ DetachFree
    /\ UNCHANGED softVars

userCallbacks == Callbacks \ {handle_interrupt}

\* The sketch attaches and detaches other pins.
UserCall(p) ==
    /\ "others" \in usage /\ op = Idle
    /\ \/ \E cb \in userCallbacks : AttachPick(p, cb)
       \/ AttachFails(p)
       \/ DetachFind(p)
    /\ UNCHANGED softVars

-------------------------------------------------------------------------------
(* The sketch: read, overflow, flush and write. *)

\* The value is fetched and the head advanced; recv() touches neither.
Read ==
    /\ sketchIs("none") /\ active_object # NoPort
    /\ head # tail
    /\ head' = next(head)
    /\ due' = IF due = <<>> THEN due ELSE Tail(due)
    /\ UNCHANGED <<gpio, portVars, buffer, tail, op, recvVars, lineVars,
                   lost>>

Overflow(p) ==
    /\ sketchIs("none") /\ overflow[p]
    /\ overflow' = [overflow EXCEPT ![p] = FALSE]
    /\ lost' = [lost EXCEPT ![p] = FALSE]
    /\ UNCHANGED <<gpio, active_object, intMask, refused, bufVars, op,
                   recvVars, lineVars, due>>

\* INTENCLR and INTENSET take the bits that are set in the mask.
intenClr(mask) == intEn' = [j \in Channels |-> intEn[j] /\ j \notin mask]
intenSet(mask) == intEn' = [j \in Channels |-> intEn[j] \/ j \in mask]

sketchOnly == UNCHANGED <<table, mode, event, call, isr, phase, ghosts>>

\* flush(): the interrupt is masked ...
FlushMask ==
    /\ sketchIs("none") /\ active_object # NoPort
    /\ intenClr(intMask[active_object])
    /\ op' = [at |-> "flush_tail", port |-> active_object]
    /\ sketchOnly
    /\ UNCHANGED <<portVars, bufVars, recvVars, lineVars, due, lost>>

\* ... the tail and then the head are set to 0 ...
FlushTail ==
    /\ sketchIs("flush_tail")
    /\ tail' = 0
    /\ op' = [op EXCEPT !.at = "flush_head"]
    /\ UNCHANGED <<gpio, portVars, buffer, head, recvVars, lineVars,
                   due, lost>>

FlushHead ==
    /\ sketchIs("flush_head")
    /\ head' = 0
    /\ due' = <<>>
    /\ op' = [op EXCEPT !.at = "flush_unmask"]
    /\ UNCHANGED <<gpio, portVars, buffer, tail, recvVars, lineVars, lost>>

\* ... and the interrupt is unmasked.
FlushUnmask ==
    /\ sketchIs("flush_unmask")
    /\ intenSet(intMask[op.port])
    /\ op' = Idle
    /\ sketchOnly
    /\ UNCHANGED <<portVars, bufVars, recvVars, lineVars, due, lost>>

\* Mutant of WriteMask: the interrupt is not turned off.
WriteUnmasked(p) ==
    /\ sketchIs("none") /\ intMask[p] # {}
    /\ op' = [at |-> "start_bit", port |-> p]
    /\ UNCHANGED <<gpio, portVars, bufVars, recvVars, lineVars, due, lost>>

\* write() of a port that has begun, also of one that does not listen any more:
\* the interrupt is turned off, and the start bit and the data bits are sent ...
WriteMask(p) ==
    /\ sketchIs("none") /\ intMask[p] # {}
    /\ intenClr(intMask[p])
    /\ op' = [at |-> "start_bit", port |-> p]
    /\ sketchOnly
    /\ UNCHANGED <<portVars, bufVars, recvVars, lineVars, due, lost>>

\* ... and it is turned on for the stop bit.
WriteUnmask ==
    /\ sketchIs("unmask")
    /\ intenSet(intMask[op.port])
    /\ op' = [op EXCEPT !.at = "stop_bit"]
    /\ sketchOnly
    /\ UNCHANGED <<portVars, bufVars, recvVars, lineVars, due, lost>>

SoftSketch ==
    \/ \E p \in Ports : Listen(p) \/ Overflow(p) \/ WriteMask(p)
    \/ StopListening \/ Stopped \/ ListenReset \/ ListenAttach
    \/ ListenAttached \/ CallStep \/ (\E p \in Others : UserCall(p))
    \/ Read \/ FlushMask \/ FlushTail \/ FlushHead \/ FlushUnmask
    \/ WriteUnmask

-------------------------------------------------------------------------------
(* The handler. *)

inRecv == inCallback /\ callbacksInt[isr].cb = handle_interrupt

\* "If RX line is high, then we don't see any start bit": the line is low during
\* the start bit, high when it is idle or in a stop bit, and either in between.
canBeLow(p)  == line[p].bit \in {"start", "data"}
canBeHigh(p) == line[p].bit # "start"

\* handle_interrupt returns if no port listens, or the line is high ...
RecvIgnores ==
    /\ inRecv /\ recv = "no"
    /\ active_object = NoPort \/ canBeHigh(active_object)
    /\ CallbackReturns
    /\ UNCHANGED softVars

\* ... otherwise it turns its interrupt off, and reads a bit after each delay:
\* the frame if it came in time.
RecvBegin ==
    /\ inRecv /\ recv = "no"
    /\ active_object # NoPort /\ canBeLow(active_object)
    /\ intenClr(intMask[active_object])
    /\ recv' = "data_bits"
    /\ d' = IF line[active_object].bit = "start"
            THEN line[active_object].frame ELSE Garbled
    /\ UNCHANGED <<table, mode, event, call, isr, phase, ghosts, portVars,
                   bufVars, op, lineVars, due, lost>>

\* The character is stored, or the overflow flag set, and the stop bit skipped.
RecvStore ==
    /\ inRecv /\ recv = "store"
    /\ IF next(tail) # head
       THEN /\ buffer' = [buffer EXCEPT ![tail] = d]
            /\ tail' = next(tail)
            /\ UNCHANGED overflow
       ELSE /\ overflow' = [overflow EXCEPT ![active_object] = TRUE]
            /\ UNCHANGED <<buffer, tail>>
    /\ recv' = "stop_bit"
    /\ UNCHANGED <<gpio, active_object, intMask, refused, head, op, d,
                   lineVars, due, lost>>

\* The interrupt is turned on, and handle_interrupt returns.
RecvEnd ==
    /\ inRecv /\ recv = "end"
    /\ intenSet(intMask[active_object])
    /\ recv' = "no" /\ d' = Garbled
    /\ phase' = "exit"
    /\ UNCHANGED <<table, mode, event, call, isr, ghosts, portVars, bufVars,
                   op, lineVars, due, lost>>

\* The callback of another pin: it is short, and may call back.
UserCallback ==
    /\ inCallback /\ callbacksInt[isr].cb # handle_interrupt
    /\ \/ CallbackReturns
       \/ \E p \in Others : \/ CallbackDetaches(p)
                            \/ \E cb \in userCallbacks : CallbackAttaches(p, cb)
    /\ UNCHANGED softVars

SoftHandler ==
    \/ (IrqEnter \/ IrqExit) /\ UNCHANGED softVars
    \/ RecvIgnores \/ RecvBegin \/ RecvStore \/ RecvEnd \/ UserCallback

-------------------------------------------------------------------------------
(* The lines. *)

listening(p) == active_object = p /\ op.at \notin {"stop", "reset", "attach"}

\* Whether a frame may begin on the line of p.  Without "duplex" the other side
\* sends to the port that listens, if that has got a channel, and waits while it
\* sends or flushes.
mayBegin(p) ==
    /\ frames < MaxFrame
    /\ line[p].bit \in {"idle", "stop"}
    /\ "duplex" \in usage
       \/ (listening(p) /\ attached[p] # NoCb /\ op.at \in {"none", "stop_bit"})

lineAfter(p, begins) ==
    CASE p \in begins           -> [bit |-> "start", frame |-> frames + 1]
      [] line[p].bit = "start"  -> [line[p] EXCEPT !.bit = "data"]
      [] line[p].bit = "data"   -> [line[p] EXCEPT !.bit = "stop"]
      [] OTHER                  -> [bit |-> "idle", frame |-> 0]

\* The delay of the sketch goes on only outside the handler.
delayed(at) ==
    CASE at = "start_bit" -> "data_bits"
      [] at = "data_bits" -> "unmask"
      [] at = "stop_bit"  -> "none"
      [] OTHER            -> at

\* One bit time: at most one frame begins, and there may be more edges among
\* the data bits.  The processor has nothing to do but to wait.
Tick ==
    \E begins \in {{}} \cup {{p} : p \in Ports},
       noisy \in SUBSET {p \in Ports : line[p].bit = "start"} :
        /\ \A p \in begins : mayBegin(p)
        /\ IF isr = None THEN ~irqRaised /\ op.at # "unmask"
                         ELSE recv \in {"data_bits", "stop_bit"}
        /\ line' = [p \in Ports |-> lineAfter(p, begins)]
        /\ frames' = IF begins = {} THEN frames ELSE frames + 1
        /\ event' = [j \in Channels |-> event[j] \/ mode[j] \in begins \cup noisy]
        /\ op' = IF isr # None THEN op
                 ELSE IF op.at = "stop_bit" THEN Idle
                 ELSE [op EXCEPT !.at = delayed(op.at)]
        /\ recv' = CASE recv = "data_bits" -> "store"
                     [] recv = "stop_bit"  -> "end"
                     [] OTHER              -> recv
        /\ LET heard == {p \in begins : attached[p] = handle_interrupt}
               full  == Len(due) = SS_MAX_RX_BUFF - 1
           IN  /\ due'  = IF heard # {} /\ ~full THEN Append(due, frames + 1) ELSE due
               /\ lost' = [p \in Ports |-> lost[p] \/ (p \in heard /\ full)]
        /\ UNCHANGED <<table, mode, intEn, call, isr, phase, ghosts,
                       portVars, bufVars, d>>

\* An edge on another pin.
UserEdge == \E p \in Others : Edge(p) /\ UNCHANGED softVars

SoftNext ==
    /\ SoftSketch \/ SoftHandler \/ Tick \/ UserEdge
    /\ UNCHANGED usage

SoftSpec == SoftInit /\ [][SoftNext]_<<usage, softVars, gpio>>

-------------------------------------------------------------------------------
(* Properties. *)

unread == [k \in 1 .. (tail + SS_MAX_RX_BUFF - head) % SS_MAX_RX_BUFF |->
              buffer[(head + k - 1) % SS_MAX_RX_BUFF]]

quiet == isr = None /\ ~irqRaised

\* Where the other side sends only to a port that listens, that has got a channel
\* and does not send itself, and callbacks do not call back: every frame is
\* received once and as it was sent, in order, or overflow() tells that one was
\* lost, whatever edges the data bits leave behind, whoever else uses the
\* channels, across write(), flush() and changes of the port that listens
\* (SoftwareSerial.cpp 74-97, 138-204, 222-305).
FramesReceived ==
    Disciplined /\ "duplex" \notin usage /\ quiet /\ op.at # "flush_head" =>
        unread = due /\ overflow = lost

\* The channels in use for p.
channelsOf(p) == {j \in busySet : callbacksInt[j].pin = p}

\* The port has one channel: that of its _intMask, with the function attached and
\* the interrupt on.
armed(p) ==
    \E j \in Channels :
        /\ channelsOf(p) = {j} /\ intMask[p] = {j}
        /\ callbacksInt[j].cb = handle_interrupt
        /\ mode[j] = p /\ intEn[j]

\* The port has no channel and all of them in its _intMask, which is -1: when it
\* began to listen each of them was in use for another attached pin.
deaf(p) == channelsOf(p) = {} /\ intMask[p] = Channels /\ p \in refused

\* Between two calls a port that listens is armed, after all its write(), flush()
\* and recv(); or it is deaf, as listen() returns true without a channel too
\* (SoftwareSerial.cpp 87-94), and then only because the channels had run out.  A
\* port that does not listen has no channel.
ListenerArmed ==
    Disciplined /\ call = NoCall /\ op.at = "none" /\ isr = None =>
        \A p \in Ports :
            IF p = active_object THEN armed(p) \/ deaf(p)
                                 ELSE channelsOf(p) = {}

\* "turn off interrupts for a clean txmit" (SoftwareSerial.cpp 158): if no other
\* pin has a function, none runs while a port sends, whatever comes in.
CleanTransmit ==
    "others" \notin usage /\ op.at \in {"start_bit", "data_bits"} => isr = None
===============================================================================
