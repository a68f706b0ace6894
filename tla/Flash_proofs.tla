----------------------------- MODULE Flash_proofs -----------------------------
(***************************************************************************)
(* For any contents and any number of calls: the clients of the flash keep *)
(* their types, and where no operation fails the bond store keeps what it  *)
(* was given, whoever else keeps the flash busy.                           *)
(***************************************************************************)
EXTENDS Flash, TLAPS

LEMMA TypeInit == Init => TypeOK
<1> SUFFICES ASSUME Init
             PROVE  TypeOK
  OBVIOUS
<1>1. torn \in BOOLEAN /\ failed \in BOOLEAN /\ evts = <<>>
  BY DEF Init
<1>2. <<>> \in Seq({"success", "error"})
  OBVIOUS
<1> QED
  BY <1>1, <1>2, FlashAssumption DEF Init, TypeOK, Content, Operations, NoOp, Calls, Puts, Idle

\* The operation in flight has a client.
LEMMA BusyHasClient ==
    ASSUME sd \in Operations, busy
    PROVE  sd.by \in Clients /\ sd.data \in Data \cup {Blank}
BY DEF Operations, busy, NoOp

\* The shapes of call and put, one per kind of pc.
LEMMA CallShapes ==
    ASSUME call \in Calls
    PROVE  /\ call.pc \in {"issue", "spin", "returned"} =>
                /\ call \in [pc : {"issue", "spin", "returned"},
                             by : Clients \cap {"manager"}, data : Data \cup {Blank}]
                /\ call.by \in Clients
           /\ call.pc \in {"clearData", "nrf_delay_ms"} =>
                call \in [pc : {"clearData", "nrf_delay_ms"}, by : Clients \cap {"bond"}]
           /\ call.pc \in {"idle", "issue", "spin", "returned", "clearData", "nrf_delay_ms"}
           /\ call.pc = "idle" => call = Idle
BY DEF Calls, Idle

LEMMA PutShapes ==
    ASSUME put \in Puts
    PROVE  /\ put.pc # "idle" =>
                put \in [pc : {"clearData", "nrf_delay_ms", "write", "written"}, data : Data]
           /\ put.pc = "idle" => put = Idle
BY DEF Puts, Idle

LEMMA TypeStep == TypeOK /\ [Next]_vars => TypeOK'
<1> SUFFICES ASSUME TypeOK, [Next]_vars
             PROVE  TypeOK'
  OBVIOUS
<1> USE FlashAssumption DEF TypeOK, Content, flags, histories
<1>1. CASE OpSucceeds
  <2>1. sd.by \in Clients /\ sd.data \in Data \cup {Blank}
    BY <1>1, BusyHasClient DEF OpSucceeds
  <2>2. afterOp(flash[sd.by], sd.data) \in Content
    BY <2>1 DEF afterOp
  <2> QED
    BY <1>1, <2>1, <2>2 DEF OpSucceeds, Operations
<1>2. CASE OpFails
  BY <1>2 DEF OpFails, Operations
<1>3. CASE socEvtHandler
  BY <1>3 DEF socEvtHandler
<1>4. CASE PstorageIssue
  BY <1>4 DEF PstorageIssue, oneMoreUse, Operations
<1>5. CASE PowerLoss
  BY <1>5, BusyHasClient DEF PowerLoss, Operations, NoOp, Calls, Puts
<1>6. ASSUME NEW data \in Data \cup {Blank}, FlashBegin(data)
      PROVE  TypeOK'
  BY <1>6 DEF FlashBegin, mayCall, oneMoreUse, Calls
<1>7. CASE FlashIssue
  <2>1. call.data \in Data \cup {Blank} /\ call' \in Calls
    BY <1>7, CallShapes DEF FlashIssue, Calls
  <2>2. "manager" \in Clients
    BY <1>7, CallShapes DEF FlashIssue
  <2> QED
    BY <1>7, <2>1, <2>2 DEF FlashIssue, Operations
<1>8. CASE FlashAgain \/ FlashDone
  BY <1>8, CallShapes DEF FlashAgain, FlashDone, Calls
<1>9. CASE FlashReturn
  BY <1>9 DEF FlashReturn, Calls
<1>10. CASE ClearData
  BY <1>10 DEF ClearData, mayCall, oneMoreUse, Calls
<1>11. CASE ClearIssue \/ ClearDelayed
  BY <1>11, CallShapes DEF ClearIssue, ClearDelayed, Calls, Operations
<1>12. ASSUME NEW d \in Data, PutData(d)
       PROVE  TypeOK'
  BY <1>12 DEF PutData, oneMoreUse, Puts
<1>13. CASE PutErase \/ PutDelayed \/ PutWrite \/ PutReturn
  BY <1>13, PutShapes DEF PutErase, PutDelayed, PutWrite, PutReturn, Puts, Operations, Idle
<1>14. CASE UNCHANGED vars
  BY <1>14 DEF vars
<1> QED
  BY <1>1, <1>2, <1>3, <1>4, <1>5, <1>6, <1>7, <1>8, <1>9, <1>10, <1>11, <1>12,
     <1>13, <1>14 DEF Next, sketchStep, handlerStep

-------------------------------------------------------------------------------
(* The bond store. *)

\* What is on the page of the bond store, or in flight for it: blank once putData
\* has erased it, and what was put last when it is not between the two.
BondInv ==
    ~failed /\ ~torn =>
    /\ sd.by = "bond" /\ sd.data # Blank => flash["bond"] = Blank
    /\ put.pc \in {"nrf_delay_ms", "write"} =>
         IF sd.by = "bond" THEN sd.data = Blank ELSE flash["bond"] = Blank
    /\ put.pc \in {"idle", "clearData", "written"} =>
         IF sd.by = "bond" THEN sd.data = stored ELSE flash["bond"] = stored

Inv == TypeOK /\ BondInv

\* The property is about a program that uses the bond store.
BondUsed == "bond" \in Clients

LEMMA BondInit == ASSUME BondUsed PROVE Init => BondInv
BY DEF BondUsed, Init, BondInv, NoOp, Idle

LEMMA BondStep ==
    ASSUME BondUsed, TypeOK, BondInv, [Next]_vars
    PROVE  BondInv'
<1> USE FlashAssumption DEF BondInv, flags, histories
<1>1. CASE OpSucceeds
  <2>1. sd.by \in Clients /\ sd.data \in Data \cup {Blank}
    BY <1>1, BusyHasClient DEF OpSucceeds, TypeOK
  <2>2. sd'.by # "bond"
    BY <1>1 DEF OpSucceeds, NoOp
  <2>3. ~failed /\ ~torn => flash'["bond"] = IF sd.by = "bond" THEN sd.data ELSE flash["bond"]
    BY <1>1, <2>1 DEF OpSucceeds, afterOp, TypeOK, BondUsed
  <2> QED
    BY <1>1, <2>2, <2>3 DEF OpSucceeds
<1>2. CASE OpFails
  BY <1>2 DEF OpFails
<1>3. CASE socEvtHandler
  BY <1>3 DEF socEvtHandler
<1>4. CASE PstorageIssue
  BY <1>4 DEF PstorageIssue, busy, NoOp
<1>5. CASE PowerLoss
  <2>1. ~torn' => ~torn /\ sd.by # "bond" /\ put = Idle
    BY <1>5 DEF PowerLoss, bondAtWork, TypeOK
  <2>2. ~torn' => flash'["bond"] = flash["bond"]
    BY <1>5, <2>1, BusyHasClient DEF PowerLoss, TypeOK, BondUsed
  <2>3. sd'.by # "bond" /\ put' = Idle /\ stored' = stored /\ failed' = failed
    BY <1>5 DEF PowerLoss, NoOp
  <2> QED
    BY <2>1, <2>2, <2>3 DEF Idle
<1>6. CASE \/ \E data \in Data \cup {Blank} : FlashBegin(data)
           \/ FlashAgain \/ FlashDone \/ FlashReturn \/ ClearData \/ ClearDelayed
  BY <1>6 DEF FlashBegin, FlashAgain, FlashDone, FlashReturn, ClearData, ClearDelayed
<1>7. CASE FlashIssue
  BY <1>7, CallShapes DEF FlashIssue, TypeOK, busy, NoOp
<1>8. CASE ClearIssue
  <2>1. put.pc = "idle" /\ UNCHANGED <<put, flash, failed, torn>> /\ stored' = Blank
        /\ sd' = [by |-> "bond", data |-> Blank]
    BY <1>8 DEF ClearIssue, sketchRuns, handlerFree, Idle
  <2> QED
    BY <2>1
<1>9. ASSUME NEW d \in Data, PutData(d)
      PROVE  BondInv'
  <2>1. put.pc = "idle" /\ put'.pc = "clearData"
    BY <1>9 DEF PutData, sketchRuns, handlerFree, Idle
  <2> QED
    BY <1>9, <2>1 DEF PutData
<1>10. CASE PutErase \/ PutDelayed \/ PutReturn
  BY <1>10, PutShapes DEF PutErase, PutDelayed, PutReturn, TypeOK, Idle
<1>11. CASE PutWrite
  <2>1. /\ put.pc = "write" /\ put'.pc = "written" /\ sd.by # "bond"
        /\ sd' = [by |-> "bond", data |-> put.data] /\ stored' = put.data
        /\ UNCHANGED <<flash, failed, torn>>
    BY <1>11, PutShapes DEF PutWrite, TypeOK, busy, NoOp
  <2> QED
    BY <2>1
<1>12. CASE UNCHANGED vars
  BY <1>12 DEF vars
<1> QED
  BY <1>1, <1>2, <1>3, <1>4, <1>5, <1>6, <1>7, <1>8, <1>9, <1>10, <1>11, <1>12
     DEF Next, sketchStep, handlerStep

-------------------------------------------------------------------------------
(* The first call of SoftDeviceManager. *)

inCall == call.pc \in {"issue", "spin", "returned"}

\* As long as this is the only use of the flash: however often the operation
\* fails and is issued again, it is the one asked for, and the flag and the event
\* report it.
OneCallInv ==
    /\ uses = 0 => sd = NoOp /\ evts = <<>> /\ call = Idle
    /\ uses \in {0, 1} /\ (uses = 1 => inCall) => put = Idle
    /\ uses = 1 /\ inCall =>
         /\ busy => sd.by = "manager" /\ sd.data = call.data
         /\ call.data # Blank => flash["manager"] \in {Blank, call.data}
         /\ \/ \E i \in 1 .. Len(evts) : evts[i] = "success"
            \/ _flashOperationPending = 0 \/ call.pc = "returned"
            => flash["manager"] = call.data

LEMMA OneCallStep ==
    ASSUME TypeOK, OneCallInv, [Next]_vars
    PROVE  OneCallInv'
<1> USE FlashAssumption DEF OneCallInv, TypeOK, inCall, busy, flags, histories
<1>1. CASE OpSucceeds
  <2>1. uses = 1 /\ inCall => /\ sd.by = "manager" /\ "manager" \in Clients
                             /\ sd.data = call.data /\ sd.data \in Data \cup {Blank}
    BY <1>1, BusyHasClient DEF OpSucceeds
  <2>2. uses = 1 /\ inCall => flash'["manager"] = afterOp(flash["manager"], sd.data)
    BY <1>1, <2>1 DEF OpSucceeds
  <2>3. uses = 1 /\ inCall => flash'["manager"] = call.data
    BY <1>1, <2>1, <2>2 DEF OpSucceeds, afterOp
  <2>4. uses # 0 /\ UNCHANGED <<uses, call, put>> /\ sd' = NoOp
    BY <1>1 DEF OpSucceeds
  <2> QED
    BY <2>3, <2>4
<1>2. CASE OpFails
  <2>1. uses # 0 /\ evts' = Append(evts, "error")
    BY <1>2 DEF OpFails
  <2>2. (\E i \in 1 .. Len(evts') : evts'[i] = "success")
          => \E i \in 1 .. Len(evts) : evts[i] = "success"
    BY <2>1
  <2> QED
    BY <1>2, <2>1, <2>2 DEF OpFails
<1>3. CASE socEvtHandler
  <2>1. evts # <<>> /\ evts' = Tail(evts) /\ evts \in Seq({"success", "error"})
        /\ _flashOperationPending' = IF Head(evts) = "success" THEN 0 ELSE 2
    BY <1>3 DEF socEvtHandler
  <2>2. \/ \E i \in 1 .. Len(evts') : evts'[i] = "success"
        \/ _flashOperationPending' = 0
        => \E i \in 1 .. Len(evts) : evts[i] = "success"
    BY <2>1
  <2> QED
    BY <1>3, <2>1, <2>2 DEF socEvtHandler
<1>4. CASE PstorageIssue \/ ClearData \/ \E d \in Data : PutData(d)
  BY <1>4 DEF PstorageIssue, ClearData, PutData, oneMoreUse, mayCall, sketchRuns,
              handlerFree, Idle
<1>5. CASE PowerLoss
  BY <1>5 DEF PowerLoss, NoOp, Idle
<1>6. ASSUME NEW data \in Data \cup {Blank}, FlashBegin(data)
      PROVE  OneCallInv'
  BY <1>6 DEF FlashBegin, mayCall, sketchRuns, handlerFree, oneMoreUse
<1>7. CASE FlashIssue
  BY <1>7, CallShapes DEF FlashIssue, Idle
<1>8. CASE FlashAgain \/ FlashDone
  BY <1>8, CallShapes DEF FlashAgain, FlashDone, Idle
<1>9. CASE FlashReturn
  BY <1>9 DEF FlashReturn, Idle
<1>10. CASE ClearIssue \/ ClearDelayed
  BY <1>10, CallShapes DEF ClearIssue, ClearDelayed, Idle
<1>11. CASE PutErase \/ PutDelayed \/ PutWrite \/ PutReturn
  BY <1>11 DEF PutErase, PutDelayed, PutWrite, PutReturn, Idle
<1>12. CASE UNCHANGED vars
  BY <1>12 DEF vars
<1> QED
  BY <1>1, <1>2, <1>3, <1>4, <1>5, <1>6, <1>7, <1>8, <1>9, <1>10, <1>11, <1>12
     DEF Next, sketchStep, handlerStep

-------------------------------------------------------------------------------
(* The theorems. *)

\* The state keeps its types; in particular no client issues an operation it
\* does not have (Flash.TypeOK).
THEOREM TypeCorrect == Spec => []TypeOK
BY TypeInit, TypeStep, PTL DEF Spec

\* Where no operation has failed and power was not lost in the middle of a call,
\* the bond store keeps what putData was given or clearData left, however long the
\* flash takes, whoever else uses it and wherever putData preempts the sketch
\* (BLEBondStore.cpp 57-97, BLECentralRole.cpp 1072).
THEOREM BondIsKept == Spec => []BondKept
<1>1. CASE ~BondUsed
  <2>1. BondKept
    BY <1>1 DEF BondUsed, BondKept
  <2> QED
    BY <2>1, PTL
<1>2. CASE BondUsed
  <2>1. Init => Inv
    BY <1>2, TypeInit, BondInit DEF Inv
  <2>2. Inv /\ [Next]_vars => Inv'
    BY <1>2, TypeStep, BondStep DEF Inv
  <2>3. Inv => BondKept
    BY DEF Inv, TypeOK, BondInv, BondKept, bondAtWork, hasData, Idle
  <2> QED
    BY <2>1, <2>2, <2>3, PTL DEF Spec
<1> QED
  BY <1>1, <1>2

\* The first call of flashErasePage or flashWriteArray returns only when the page
\* is as asked, however often the operation fails (SoftDeviceManager.cpp
\* 111-129).  The run flash_retry shows that the call after it may not.
THEOREM FirstCallDone == Spec => []FirstAsAsked
<1>1. Init => TypeOK /\ OneCallInv
  BY TypeInit DEF Init, OneCallInv, inCall, Idle
<1>2. TypeOK /\ OneCallInv /\ [Next]_vars => (TypeOK /\ OneCallInv)'
  BY TypeStep, OneCallStep
<1>3. OneCallInv => FirstAsAsked
  BY DEF OneCallInv, inCall, FirstAsAsked, PageAsAsked
<1> QED
  BY <1>1, <1>2, <1>3, PTL DEF Spec
===============================================================================
