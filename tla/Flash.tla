-------------------------------- MODULE Flash ---------------------------------
(***************************************************************************)
(* Persistent storage.  The SoftDevice owns the flash: it accepts one      *)
(* operation, carries it out when the radio leaves it time, and reports it *)
(* with an event.  Two parts of the core use it:                           *)
(*                                                                         *)
(*   SoftDeviceManager (cores/arduino/SoftDeviceManager.cpp), whose        *)
(*   flashErasePage and flashWriteArray wait on _flashOperationPending for *)
(*   the event, which socEvtHandler turns into 0 (success) or 2 (error);   *)
(*   BLEBondStore (libraries/BLE/BLEBondStore.cpp), which tries while the  *)
(*   SoftDevice is busy, then waits 100 ms and never looks at an event.    *)
(*                                                                         *)
(* The interrupt of the SoftDevice's events takes them one by one and runs *)
(* before the sketch's next step.  The sketch calls the manager and        *)
(* clearData; putData is called from within that interrupt, when a pairing *)
(* has succeeded (BLECentralRole.cpp 1072): it preempts the sketch         *)
(* wherever it is, and while it runs no other event is handled.  pstorage, *)
(* which the DFU service's device manager uses, issues its operations from *)
(* that interrupt too.  Power may be lost at any moment; what the flash    *)
(* holds then is all that is left.                                         *)
(***************************************************************************)
EXTENDS Integers, Sequences

CONSTANTS
    Data,          \* contents of a page
    Blank,         \* the content of an erased page
    Garbled,       \* what a write leaves on a page that is not blank
    Clients        \* who uses the flash: "manager", "bond", "pstorage"

ASSUME FlashAssumption ==
    /\ Blank \notin Data /\ Garbled \notin Data /\ Blank # Garbled
    /\ Clients \subseteq {"manager", "bond", "pstorage"}

Content == Data \cup {Blank, Garbled}

VARIABLES
    flash,                  \* the content of each client's page
    sd,                     \* the operation the SoftDevice has accepted: to
                            \* bring a page to data, Blank for an erase
    evts,                   \* the events not yet pulled from it
    _flashOperationPending, \* 0 none or done, 1 pending, 2 error
    call,                   \* the sketch's call and how far it is
    put,                    \* the interrupt's call of putData likewise
    stored,                 \* history: what the last call of the bond store that
                            \* came to its last operation was to leave there
    uses,                   \* history: how often the flash has been used, 2 for
                            \* more than once
    failed,                 \* history: an operation has failed
    torn                    \* history: power was lost while the bond store
                            \* was at work

flags     == <<_flashOperationPending>>
histories == <<stored, uses, failed, torn>>
vars      == <<flash, sd, evts, flags, call, put, histories>>

NoOp == [by |-> "none"]
Idle == [pc |-> "idle"]

Init ==
    /\ flash \in [Clients -> Data \cup {Blank}]
    /\ sd = NoOp /\ evts = <<>>
    /\ _flashOperationPending = 0
    /\ call = Idle /\ put = Idle
    /\ stored = IF "bond" \in Clients THEN flash["bond"] ELSE Blank
    /\ uses = 0 /\ failed = FALSE /\ torn = FALSE

-------------------------------------------------------------------------------
(* The SoftDevice and its event handler. *)

busy == sd # NoOp

\* What an operation to bring page content old to data leaves.
afterOp(old, data) == IF data = Blank \/ old \in {Blank, data} THEN data ELSE Garbled

\* The bond store is between the start of a call and the end of its last operation.
bondAtWork ==
    sd.by = "bond" \/ put # Idle \/ call.pc \in {"clearData", "nrf_delay_ms"}

OpSucceeds ==
    /\ busy
    /\ flash' = [flash EXCEPT ![sd.by] = afterOp(@, sd.data)]
    /\ sd' = NoOp /\ evts' = Append(evts, "success")
    /\ UNCHANGED <<flags, call, put, histories>>

\* The radio left no time.
OpFails ==
    /\ busy
    /\ sd' = NoOp /\ evts' = Append(evts, "error")
    /\ failed' = TRUE
    /\ UNCHANGED <<flash, flags, call, put, stored, uses, torn>>

\* The interrupt handles one event after the other.
handlerFree == put = Idle

\* Mutant of socEvtHandler: an error ends the wait.
socEvtHandlerIgnoresError ==
    /\ handlerFree /\ evts # <<>>
    /\ evts' = Tail(evts)
    /\ _flashOperationPending' = 0
    /\ UNCHANGED <<flash, sd, call, put, histories>>

socEvtHandler ==
    /\ handlerFree /\ evts # <<>>
    /\ evts' = Tail(evts)
    /\ _flashOperationPending' = IF Head(evts) = "success" THEN 0 ELSE 2
    /\ UNCHANGED <<flash, sd, call, put, histories>>

\* What is cut off leaves the page as it was, as it was to be, or neither.  The
\* program starts again with a SoftDevice that is idle.
PowerLoss ==
    /\ \E content \in Content :
         /\ flash' = IF busy THEN [flash EXCEPT ![sd.by] = content] ELSE flash
         /\ busy => content \in {flash[sd.by], afterOp(flash[sd.by], sd.data), Garbled}
    /\ sd' = NoOp /\ evts' = <<>>
    /\ _flashOperationPending' = 0 /\ call' = Idle /\ put' = Idle
    /\ torn' = (torn \/ bondAtWork)
    /\ UNCHANGED <<stored, uses, failed>>

oneMoreUse == uses' = IF uses = 2 THEN 2 ELSE uses + 1

\* pstorage issues an operation from a handler.  An operation takes far longer than
\* the handling of an event: the events are handled before it completes.
PstorageIssue ==
    /\ "pstorage" \in Clients /\ handlerFree /\ evts = <<>> /\ ~busy
    /\ sd' = [by |-> "pstorage", data |-> Blank]
    /\ oneMoreUse
    /\ UNCHANGED <<flash, evts, flags, call, put, stored, failed, torn>>

-------------------------------------------------------------------------------
(* The sketch calls SoftDeviceManager. *)

sketchRuns == handlerFree /\ evts = <<>>
mayCall(c) == sketchRuns /\ call = Idle /\ c \in Clients

\* flashErasePage, or flashWriteArray on a page that has been erased.
FlashBegin(data) ==
    /\ mayCall("manager")
    /\ data = Blank \/ (data \in Data /\ flash["manager"] = Blank)
    /\ _flashOperationPending' = 1
    /\ call' = [pc |-> "issue", by |-> "manager", data |-> data]
    /\ oneMoreUse
    /\ UNCHANGED <<flash, sd, evts, put, stored, failed, torn>>

\* sd_flash_page_erase or sd_flash_write, whose result, BUSY perhaps, is dropped.
FlashIssue ==
    /\ sketchRuns /\ call.pc = "issue"
    /\ sd' = IF busy THEN sd ELSE [by |-> "manager", data |-> call.data]
    /\ call' = [call EXCEPT !.pc = "spin"]
    /\ UNCHANGED <<flash, evts, flags, put, histories>>

\* Mutant of FlashAgain: the inner loop does not end on an error.
FlashAgainNever ==
    /\ sketchRuns /\ call.pc = "spin" /\ _flashOperationPending = 2
    /\ UNCHANGED vars

\* The event was an error: try again.
FlashAgain ==
    /\ sketchRuns /\ call.pc = "spin" /\ _flashOperationPending = 2
    /\ call' = [call EXCEPT !.pc = "issue"]
    /\ UNCHANGED <<flash, sd, evts, flags, put, histories>>

FlashDone ==
    /\ sketchRuns /\ call.pc = "spin" /\ _flashOperationPending = 0
    /\ call' = [call EXCEPT !.pc = "returned"]
    /\ UNCHANGED <<flash, sd, evts, flags, put, histories>>

FlashReturn ==
    /\ sketchRuns /\ call.pc = "returned"
    /\ call' = Idle
    /\ UNCHANGED <<flash, sd, evts, flags, put, histories>>

-------------------------------------------------------------------------------
(* The sketch calls clearData of BLEBondStore. *)

ClearData ==
    /\ mayCall("bond")
    /\ call' = [pc |-> "clearData", by |-> "bond"]
    /\ oneMoreUse
    /\ UNCHANGED <<flash, sd, evts, flags, put, stored, failed, torn>>

\* It loops while the SoftDevice is busy.
ClearIssue ==
    /\ sketchRuns /\ call.pc = "clearData" /\ ~busy
    /\ sd' = [by |-> "bond", data |-> Blank]
    /\ call' = [call EXCEPT !.pc = "nrf_delay_ms"]
    /\ stored' = Blank
    /\ UNCHANGED <<flash, evts, flags, put, uses, failed, torn>>

\* 100 ms have passed, which may be less than the SoftDevice needs.
ClearDelayed ==
    /\ sketchRuns /\ call.pc = "nrf_delay_ms"
    /\ call' = Idle
    /\ UNCHANGED <<flash, sd, evts, flags, put, histories>>

-------------------------------------------------------------------------------
(* The interrupt calls putData, which calls clearData and then writes. *)

\* A pairing has succeeded.  It takes many events of the radio: those of the flash
\* have been handled by then.
PutData(d) ==
    /\ sketchRuns /\ "bond" \in Clients
    /\ put' = [pc |-> "clearData", data |-> d]
    /\ oneMoreUse
    /\ UNCHANGED <<flash, sd, evts, flags, call, stored, failed, torn>>

\* Both operations are tried while the SoftDevice is busy.
PutErase ==
    /\ put.pc = "clearData" /\ ~busy
    /\ sd' = [by |-> "bond", data |-> Blank]
    /\ put' = [put EXCEPT !.pc = "nrf_delay_ms"]
    /\ UNCHANGED <<flash, evts, flags, call, histories>>

PutDelayed ==
    /\ put.pc = "nrf_delay_ms"
    /\ put' = [put EXCEPT !.pc = "write"]
    /\ UNCHANGED <<flash, sd, evts, flags, call, histories>>

\* Mutant of PutWrite: it goes on when the SoftDevice is busy.
PutWriteOnce ==
    /\ put.pc = "write"
    /\ sd' = IF busy THEN sd ELSE [by |-> "bond", data |-> put.data]
    /\ put' = [put EXCEPT !.pc = "written"]
    /\ stored' = put.data
    /\ UNCHANGED <<flash, evts, flags, call, uses, failed, torn>>

PutWrite ==
    /\ put.pc = "write" /\ ~busy
    /\ sd' = [by |-> "bond", data |-> put.data]
    /\ put' = [put EXCEPT !.pc = "written"]
    /\ stored' = put.data
    /\ UNCHANGED <<flash, evts, flags, call, uses, failed, torn>>

PutReturn ==
    /\ put.pc = "written"
    /\ put' = Idle
    /\ UNCHANGED <<flash, sd, evts, flags, call, histories>>

hasData == flash["bond"] # Blank

-------------------------------------------------------------------------------

sketchStep ==
    \/ FlashIssue \/ FlashAgain \/ FlashDone \/ FlashReturn
    \/ ClearIssue \/ ClearDelayed

handlerStep ==
    \/ socEvtHandler \/ PutErase \/ PutDelayed \/ PutWrite \/ PutReturn

Next ==
    \/ OpSucceeds \/ OpFails \/ PowerLoss \/ PstorageIssue
    \/ \E data \in Data \cup {Blank} : FlashBegin(data)
    \/ ClearData
    \/ \E d \in Data : PutData(d)
    \/ sketchStep \/ handlerStep

\* The SoftDevice completes what it has accepted, interrupts are taken, and the
\* sketch gets on between them however often they come.
Fairness ==
    WF_vars(OpSucceeds \/ OpFails) /\ WF_vars(handlerStep) /\ SF_vars(sketchStep)

Spec == Init /\ [][Next]_vars /\ Fairness

-------------------------------------------------------------------------------
(* Properties. *)

Operations == {NoOp} \cup [by : Clients, data : Data \cup {Blank}]

Calls ==
    {Idle}
    \cup [pc : {"issue", "spin", "returned"}, by : Clients \cap {"manager"},
          data : Data \cup {Blank}]
    \cup [pc : {"clearData", "nrf_delay_ms"}, by : Clients \cap {"bond"}]

Puts == {Idle} \cup [pc : {"clearData", "nrf_delay_ms", "write", "written"}, data : Data]

\* The type invariant: a client that issues an operation has one to issue.
TypeOK ==
    /\ flash \in [Clients -> Content]
    /\ sd \in Operations
    /\ evts \in Seq({"success", "error"})
    /\ _flashOperationPending \in 0 .. 2
    /\ call \in Calls
    /\ put \in Puts /\ (put # Idle => "bond" \in Clients)
    /\ stored \in Data \cup {Blank}
    /\ uses \in 0 .. 2 /\ failed \in BOOLEAN /\ torn \in BOOLEAN

\* When flashErasePage or flashWriteArray returns, the page is as asked: it waits
\* for its operation and tries again while that fails ("Error occurred, try
\* again").
PageAsAsked == call.pc = "returned" => flash["manager"] = call.data

\* That is so for the first call, if no one else has used the flash since.
FirstAsAsked == uses = 1 => PageAsAsked

\* flashErasePage and flashWriteArray return, whoever else uses the flash and for
\* how long, unless power is lost or the SoftDevice's operations go on failing for
\* ever: the loop "Error occurred, try again" has no other end.
Returns ==
    \/ []<><<OpFails>>_vars
    \/ (call.pc \in {"issue", "spin"}) ~> (call.pc \in {"returned", "idle"})

\* Where no operation has failed, what putData put is in the flash, erased before
\* it was written, once the bond store and the SoftDevice are done with it, or the
\* page is blank if clearData came after, and hasData tells which: also if 100 ms
\* were too short, other clients kept the flash busy, putData came in the middle
\* of the sketch's clearData, or power was lost at any moment but while the bond
\* store was at work.
BondKept ==
    "bond" \in Clients /\ ~failed /\ ~torn /\ ~bondAtWork =>
        /\ flash["bond"] = stored
        /\ hasData <=> stored # Blank

===============================================================================
