--------------------------------- MODULE Uart ---------------------------------
(***************************************************************************)
(* The hardware serial port, cores/arduino/Uart.cpp, with its RingBuffer.  *)
(*                                                                         *)
(* Three actors share the port.  The sketch calls begin, end, read,        *)
(* available, flush and write; UARTE0_UART0_IRQHandler preempts it         *)
(* between any two of its accesses to shared memory; the UARTE peripheral  *)
(* receives into the one-byte DMA buffer and sends from the other while    *)
(* either runs.  Characters received are numbered 1, 2, ... in the order   *)
(* the line carries them; 0 is the initial content of the static buffers.  *)
(***************************************************************************)
EXTENDS RingBuffer

CONSTANTS
    MaxRx,       \* bound: characters the line carries to the board
    MaxTx,       \* bound: calls of write()
    MaxFlush,    \* bound: calls of flush()
    MaxSession,  \* bound: calls of begin()
    Usages       \* how the port may be used: sets of
                 \*   "late"    a character may complete before the interrupt
                 \*             of the one before it has been served
                 \*   "flush"   the sketch calls flush()
                 \*   "write"   the sketch calls write()
                 \*   "reopen"  the sketch calls begin() after end()
                 \*   "closed"  the sketch calls write(), flush() and end()
                 \*             with the port closed too

ASSUME BoundsAssumption ==
    /\ MaxRx \in Nat /\ MaxTx \in Nat /\ MaxFlush \in Nat /\ MaxSession \in Nat
    /\ Usages \subseteq SUBSET {"late", "flush", "write", "reopen", "closed"}

VARIABLES
    usage,       \* how the port is used, chosen once
    pc,          \* where the sketch is in the API call it is making
    isr,         \* where the interrupt handler is
    buf, iHead, iTail,            \* rxBuffer: _aucBuffer, _iHead, _iTail
    value,       \* the local variable of read_char()
    rx,          \* the receiver: "off", "on", "stopping" (no ENDRX->STARTRX
                 \* short any more), or "stopped"
    rxBuffer,    \* rx_buffer[0], written by EasyDMA
    endRx,       \* the ENDRX event
    intEn,       \* the ENDRX interrupt is enabled
    txBuffer,    \* tx_buffer[0]
    shifting,    \* the character the transmitter is sending, or NoChar
    endTx,       \* the ENDTX event
    heard,       \* history: how many characters the line has carried
    offered,     \* history: the characters handed to store_char()
    got,         \* history: what read() returned
    promised,    \* history: reads the last available() still vouches for
    stale,       \* history: the last character offered when a clear() began
    written,     \* history: how many calls of write() have been made
    line,        \* history: the characters sent
    flushes, sessions             \* history: calls made so far

NoChar == -1

rxVars   == <<rx, rxBuffer, endRx, intEn, heard>>
ringVars == <<buf, iHead, iTail>>
txVars   == <<txBuffer, shifting, endTx, line>>
callVars == <<written, flushes, sessions>>
histVars == <<offered, got, promised, stale>>

port == <<pc, isr, value, rxVars, ringVars, txVars, callVars, histVars>>
vars == <<usage, port>>

Init ==
    /\ usage \in Usages
    /\ pc = "idle" /\ isr = "idle" /\ value = 0
    /\ buf = [i \in Index |-> 0] /\ iHead = 0 /\ iTail = 0
    /\ rx = "off" /\ rxBuffer = 0 /\ endRx = FALSE /\ intEn = FALSE
    /\ txBuffer = 0 /\ shifting = NoChar /\ endTx = FALSE
    /\ heard = 0 /\ offered = <<>> /\ got = <<>> /\ promised = 0 /\ stale = 0
    /\ written = 0 /\ line = <<>> /\ flushes = 0 /\ sessions = 0

-------------------------------------------------------------------------------
(* The sketch.  It runs only while the handler does not. *)

sketchAt(label) == pc = label /\ isr = "idle"

started == sessions > 0

\* No call of the API tests whether the port is open.
usable == rx = "on" \/ "closed" \in usage

\* begin(), up to nrf_uarte_int_enable.
Begin ==
    /\ sketchAt("idle") /\ rx = "off" /\ sessions < MaxSession
    /\ sessions = 0 \/ "reopen" \in usage
    /\ sessions' = sessions + 1
    /\ intEn' = TRUE
    /\ pc' = "begin_clear"
    /\ UNCHANGED <<isr, value, rx, rxBuffer, endRx, heard, ringVars, txVars,
                   written, flushes, histVars>>

\* nrf_uarte_event_clear(ENDRX), after the interrupt has been enabled.
BeginClearEvent ==
    /\ sketchAt("begin_clear")
    /\ endRx' = FALSE
    /\ pc' = "begin_start"
    /\ UNCHANGED <<isr, value, rx, rxBuffer, intEn, heard, ringVars, txVars,
                   callVars, histVars>>

\* The ENDRX->STARTRX short and the STARTRX task.
BeginStartRx ==
    /\ sketchAt("begin_start")
    /\ rx' = "on"
    /\ pc' = "idle"
    /\ UNCHANGED <<isr, value, rxBuffer, endRx, intEn, heard, ringVars, txVars,
                   callVars, histVars>>

\* end(): the short is removed and STOPRX triggered, which stops nothing if the
\* port is closed ...
End ==
    /\ sketchAt("idle") /\ usable
    /\ rx' = IF rx = "on" THEN "stopping" ELSE rx
    /\ pc' = "end_mask"
    /\ UNCHANGED <<isr, value, rxBuffer, endRx, intEn, heard, ringVars, txVars,
                   callVars, histVars>>

\* ... the interrupt is disabled ...
EndMask ==
    /\ sketchAt("end_mask")
    /\ intEn' = FALSE
    /\ pc' = "end_disable"
    /\ UNCHANGED <<isr, value, rx, rxBuffer, endRx, heard, ringVars, txVars,
                   callVars, histVars>>

\* ... the peripheral is disabled, and clear() is called.
EndDisable ==
    /\ sketchAt("end_disable")
    /\ rx' = "off"
    /\ shifting' = NoChar
    /\ pc' = "clear"
    /\ UNCHANGED <<isr, value, rxBuffer, endRx, intEn, heard, ringVars,
                   txBuffer, endTx, line, callVars, histVars>>

\* STARTTX: the transmitter fetches tx_buffer[0].  Triggered again while a
\* character is being sent, it may be ignored or start over; a peripheral that
\* is disabled ignores it.
startTx == \/ rx # "off" /\ shifting' = txBuffer
           \/ (rx = "off" \/ shifting # NoChar) /\ shifting' = shifting

\* flush() triggers STARTTX, whatever tx_buffer holds, then calls clear().
Flush ==
    /\ sketchAt("idle") /\ usable
    /\ "flush" \in usage /\ flushes < MaxFlush
    /\ flushes' = flushes + 1
    /\ startTx
    /\ pc' = "clear"
    /\ UNCHANGED <<isr, value, rxVars, ringVars, txBuffer, endTx, line,
                   written, sessions, histVars>>

\* clear() writes _iHead and _iTail.  Neither is volatile: the compiler may
\* emit the two stores in either order.
ClearFirst ==
    /\ sketchAt("clear")
    /\ \/ iHead' = 0 /\ pc' = "clear_tail" /\ UNCHANGED iTail
       \/ iTail' = 0 /\ pc' = "clear_head" /\ UNCHANGED iHead
    /\ promised' = 0
    /\ stale' = IF offered = <<>> THEN 0 ELSE offered[Len(offered)]
    /\ UNCHANGED <<isr, value, rxVars, buf, txVars, callVars, offered, got>>

\* Mutant of ClearSecond: clear() resets one of the two indices only.
ClearHeadOnly ==
    /\ sketchAt("clear_tail") \/ sketchAt("clear_head")
    /\ pc' = "idle"
    /\ UNCHANGED <<isr, value, rxVars, ringVars, txVars, callVars, histVars>>

ClearSecond ==
    /\ \/ sketchAt("clear_tail") /\ iTail' = 0 /\ UNCHANGED iHead
       \/ sketchAt("clear_head") /\ iHead' = 0 /\ UNCHANGED iTail
    /\ pc' = "idle"
    /\ UNCHANGED <<isr, value, rxVars, buf, txVars, callVars, histVars>>

\* read(): the empty test of read_char() ...
ReadEmpty ==
    /\ sketchAt("idle") /\ started
    /\ isEmpty(iHead, iTail)
    /\ promised' = 0
    /\ UNCHANGED <<pc, isr, value, rxVars, ringVars, txVars, callVars,
                   offered, got, stale>>

ReadValue ==
    /\ sketchAt("idle") /\ started
    /\ ~isEmpty(iHead, iTail)
    /\ value' = buf[iTail]
    /\ pc' = "read_advance"
    /\ UNCHANGED <<isr, rxVars, ringVars, txVars, callVars, histVars>>

\* Mutant of ReadAdvance: _iTail is advanced before the value is fetched.
ReadAdvanceFirst ==
    /\ sketchAt("read_advance")
    /\ iTail' = nextIndex(iTail)
    /\ got' = Append(got, buf[nextIndex(iTail)])
    /\ promised' = IF promised = 0 THEN 0 ELSE promised - 1
    /\ pc' = "idle"
    /\ UNCHANGED <<isr, value, rxVars, buf, iHead, txVars, callVars,
                   offered, stale>>

\* ... and the store to _iTail, after which the slot is the handler's again.
ReadAdvance ==
    /\ sketchAt("read_advance")
    /\ iTail' = nextIndex(iTail)
    /\ got' = Append(got, value)
    /\ promised' = IF promised = 0 THEN 0 ELSE promised - 1
    /\ pc' = "idle"
    /\ UNCHANGED <<isr, value, rxVars, buf, iHead, txVars, callVars,
                   offered, stale>>

Available ==
    /\ sketchAt("idle") /\ started
    /\ promised' = available(iHead, iTail)
    /\ UNCHANGED <<pc, isr, value, rxVars, ringVars, txVars, callVars,
                   offered, got, stale>>

\* write(): tx_buffer[0] = data ...
Write ==
    /\ sketchAt("idle") /\ usable
    /\ "write" \in usage /\ written < MaxTx
    /\ written' = written + 1
    /\ txBuffer' = written + 1
    /\ pc' = "write_clear"
    /\ UNCHANGED <<isr, value, rxVars, ringVars, shifting, endTx, line,
                   flushes, sessions, histVars>>

\* Mutant of WriteClearEvent: the event of the previous character is kept.
WriteKeepsEvent ==
    /\ sketchAt("write_clear")
    /\ pc' = "write_start"
    /\ UNCHANGED <<isr, value, rxVars, ringVars, txVars, callVars, histVars>>

\* ... the ENDTX event is cleared ...
WriteClearEvent ==
    /\ sketchAt("write_clear")
    /\ endTx' = FALSE
    /\ pc' = "write_start"
    /\ UNCHANGED <<isr, value, rxVars, ringVars, txBuffer, shifting, line,
                   callVars, histVars>>

\* Mutant of WriteStart: ENDTX is cleared after the task has been triggered.
WriteStartThenClear ==
    \/ /\ sketchAt("write_start")
       /\ startTx
       /\ pc' = "write_clear_late"
       /\ UNCHANGED <<isr, value, rxVars, ringVars, txBuffer, endTx, line,
                      callVars, histVars>>
    \/ /\ sketchAt("write_clear_late")
       /\ endTx' = FALSE
       /\ pc' = "write_wait"
       /\ UNCHANGED <<isr, value, rxVars, ringVars, txBuffer, shifting, line,
                      callVars, histVars>>

\* ... STARTTX is triggered ...
WriteStart ==
    /\ sketchAt("write_start")
    /\ startTx
    /\ pc' = "write_wait"
    /\ UNCHANGED <<isr, value, rxVars, ringVars, txBuffer, endTx, line,
                   callVars, histVars>>

\* ... and the sketch spins until ENDTX, which a closed port never raises.
WriteReturn ==
    /\ sketchAt("write_wait") /\ endTx
    /\ pc' = "idle"
    /\ UNCHANGED <<isr, value, rxVars, ringVars, txVars, callVars, histVars>>

Sketch ==
    \/ Begin \/ BeginClearEvent \/ BeginStartRx
    \/ End \/ EndMask \/ EndDisable
    \/ Flush \/ ClearFirst \/ ClearSecond
    \/ ReadEmpty \/ ReadValue \/ ReadAdvance \/ Available
    \/ Write \/ WriteClearEvent \/ WriteStart \/ WriteReturn

-------------------------------------------------------------------------------
(* The interrupt handler. *)

\* Mutant of IrqEnter: the ENDRX event is not cleared.
IrqEnterEventKept ==
    /\ isr = "idle" /\ endRx /\ intEn
    /\ isr' = "store"
    /\ UNCHANGED <<pc, value, rxVars, ringVars, txVars, callVars, histVars>>

\* Mutant of IrqEnter: the interrupt is disabled and never enabled again.
IrqEnterMasks ==
    /\ isr = "idle" /\ endRx /\ intEn
    /\ endRx' = FALSE
    /\ intEn' = FALSE
    /\ isr' = "store"
    /\ UNCHANGED <<pc, value, rx, rxBuffer, heard, ringVars, txVars,
                   callVars, histVars>>

IrqEnter ==
    /\ isr = "idle" /\ endRx /\ intEn
    /\ endRx' = FALSE
    /\ isr' = "store"
    /\ UNCHANGED <<pc, value, rx, rxBuffer, intEn, heard, ringVars, txVars,
                   callVars, histVars>>

IrqStoreChar ==
    /\ isr = "store"
    /\ buf' = storeIn(buf, iHead, iTail, rxBuffer)
    /\ iHead' = storeHead(iHead, iTail)
    /\ offered' = Append(offered, rxBuffer)
    /\ isr' = "idle"
    /\ UNCHANGED <<pc, value, rxVars, iTail, txVars, callVars,
                   got, promised, stale>>

Irq == IrqEnter \/ IrqStoreChar

-------------------------------------------------------------------------------
(* The peripheral. *)

\* A character completes: EasyDMA writes it and raises ENDRX; the short
\* restarts reception, without the short the receiver is done.
RxChar ==
    /\ rx \in {"on", "stopping"} /\ heard < MaxRx
    /\ "late" \in usage \/ (~endRx /\ isr = "idle")
    /\ heard' = heard + 1
    /\ rxBuffer' = heard + 1
    /\ endRx' = TRUE
    /\ rx' = IF rx = "on" THEN "on" ELSE "stopped"
    /\ UNCHANGED <<pc, isr, value, intEn, ringVars, txVars, callVars,
                   histVars>>

\* A receiver that is stopped ends its reception with ENDRX.
RxStopped ==
    /\ rx = "stopping"
    /\ rx' = "stopped"
    /\ endRx' = TRUE
    /\ UNCHANGED <<pc, isr, value, rxBuffer, intEn, heard, ringVars, txVars,
                   callVars, histVars>>

TxChar ==
    /\ shifting # NoChar
    /\ line' = Append(line, shifting)
    /\ shifting' = NoChar
    /\ endTx' = TRUE
    /\ UNCHANGED <<pc, isr, value, rxVars, ringVars, txBuffer, callVars,
                   histVars>>

Peripheral == RxChar \/ RxStopped \/ TxChar

Next == (Sketch \/ Irq \/ Peripheral) /\ UNCHANGED usage

\* The handler runs as soon as the processor takes the interrupt, a character
\* being sent ends, and the sketch goes on with a call it has begun.
Fairness ==
    /\ WF_port(Irq)
    /\ WF_port(TxChar)
    /\ WF_port(BeginClearEvent \/ BeginStartRx \/ EndMask \/ EndDisable
               \/ ClearFirst \/ ClearSecond \/ ReadAdvance
               \/ WriteClearEvent \/ WriteStart \/ WriteReturn)

Spec == Init /\ [][Next]_vars /\ Fairness

-------------------------------------------------------------------------------
(* Properties. *)

TypeOK ==
    /\ usage \in Usages
    /\ pc \in {"idle", "begin_clear", "begin_start", "end_mask", "end_disable",
               "clear", "clear_head", "clear_tail", "read_advance",
               "write_clear", "write_start", "write_wait"}
    /\ isr \in {"idle", "store"}
    /\ buf \in [Index -> 0 .. MaxRx] /\ iHead \in Index /\ iTail \in Index
    /\ value \in 0 .. MaxRx
    /\ rx \in {"off", "on", "stopping", "stopped"}
    /\ heard \in 0 .. MaxRx /\ rxBuffer \in 0 .. MaxRx
    /\ endRx \in BOOLEAN /\ intEn \in BOOLEAN /\ endTx \in BOOLEAN
    /\ txBuffer \in 0 .. MaxTx /\ shifting \in 0 .. MaxTx \union {NoChar}
    /\ offered \in Seq(0 .. MaxRx) /\ got \in Seq(0 .. MaxRx)
    /\ promised \in 0 .. Capacity /\ stale \in 0 .. MaxRx
    /\ written \in 0 .. MaxTx /\ line \in Seq(0 .. MaxTx)
    /\ flushes \in 0 .. MaxFlush /\ sessions \in 0 .. MaxSession

\* The unread characters as the sketch will see them.  Between the two stores
\* of clear() they are those stored since the first one, or none.
unread == CASE pc = "clear_tail" -> contents(buf, iHead, 0)
            [] pc = "clear_head" -> <<>>
            [] OTHER             -> contents(buf, iHead, iTail)

\* The port is a bounded queue: characters come out of read() in the order
\* store_char() got them, and one is dropped only when the buffer is full or
\* clear() is between its two stores (RingBuffer.cpp 27-57).
Queue == INSTANCE SerialQueue
             WITH Char <- 0 .. MaxRx, queue <- unread,
                  clearing <- pc \in {"clear_head", "clear_tail"}
ImplementsQueue == Queue!Spec

\* However late the handler and however often the port is reopened, read()
\* never returns a character before an earlier one; if the handler keeps up and
\* the port is opened once, it returns none twice (Uart.cpp 91-110).
ReadInLineOrder ==
    \A i \in 1 .. Len(got) - 1 :
        /\ got[i] <= got[i + 1]
        /\ usage \cap {"late", "reopen"} = {} => got[i] # got[i + 1]

\* When available() has returned n the next n calls of read() return a
\* character, whatever the handler does in between (RingBuffer.cpp 60-68).
AvailableIsSafe == promised <= available(iHead, iTail)

\* If the handler keeps up and the port is opened once: when flush() or end()
\* has returned, every unread character was stored after clear() began, the
\* race of clear() with the handler resurrects nothing (RingBuffer.cpp 43-47).
ClearDiscards ==
    usage \cap {"late", "reopen"} = {} /\ pc = "idle" =>
        \A k \in 1 .. Len(unread) : unread[k] > stale

\* write() returns once its character has left the board ("wait until
\* trasmission is complete"), if flush() is not used, and so not at all when
\* the port is closed (Uart.cpp 113-121).
WriteSends ==
    "flush" \notin usage /\ pc = "idle" => line = [i \in 1 .. written |-> i]

\* write() on an open port returns: clearing ENDTX before STARTTX never loses
\* the event.  On a closed one, for which it does not test, it never returns
\* (Uart.cpp 113-121; see WriteSends).
WriteReturns == pc = "write_wait" /\ rx = "on" ~> pc = "idle"

\* A character received while the port is open reaches store_char(): the
\* handler leaves the ENDRX interrupt enabled and its event armed.
CharIsOffered ==
    \A c \in 1 .. MaxRx :
        ("late" \notin usage /\ heard = c /\ rx = "on")
            ~> (rx # "on" \/ \E i \in 1 .. Len(offered) : offered[i] = c)
===============================================================================
