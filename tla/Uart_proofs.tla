------------------------------ MODULE Uart_proofs -----------------------------
(***************************************************************************)
(* For every buffer size and every bound: the port is type-correct, the    *)
(* count available() returns stays good, the port implements the bounded   *)
(* queue of SerialQueue, characters are read in the order of the line and  *)
(* not after a clear() that discarded them, and write() sends.             *)
(***************************************************************************)
EXTENDS Uart, SequenceTheorems, TLAPS

-------------------------------------------------------------------------------
(* What storing and reading do to the unread characters, for every size. *)

\* Advancing an index modulo the size is a step that wraps at the last slot.
LEMMA NextIndexWraps ==
    ASSUME NEW i \in Index
    PROVE  /\ nextIndex(i) \in Index
           /\ nextIndex(i) = IF i = SERIAL_BUFFER_SIZE - 1 THEN 0 ELSE i + 1
<1>1. CASE i = SERIAL_BUFFER_SIZE - 1
  BY <1>1, SizeAssumption DEF Index, nextIndex
<1>2. CASE i # SERIAL_BUFFER_SIZE - 1
  <2>1. i + 1 \in 0 .. SERIAL_BUFFER_SIZE - 1
    BY <1>2, SizeAssumption DEF Index
  <2>2. (i + 1) % SERIAL_BUFFER_SIZE = i + 1
    BY <2>1, SizeAssumption
  <2> QED
    BY <1>2, <2>1, <2>2 DEF nextIndex, Index
<1> QED
  BY <1>1, <1>2

\* There are never more unread characters than the capacity, and the buffer is
\* full exactly when there are that many.
LEMMA AvailableBounds ==
    ASSUME NEW head \in Index, NEW tail \in Index
    PROVE  /\ available(head, tail) \in 0 .. Capacity
           /\ isEmpty(head, tail) <=> available(head, tail) = 0
           /\ isFull(head, tail) <=> available(head, tail) = Capacity
  BY NextIndexWraps, SizeAssumption
     DEF available, isEmpty, isFull, Capacity, Index

\* store_char adds one unread character when there is room.
LEMMA AvailableAfterStore ==
    ASSUME NEW head \in Index, NEW tail \in Index, ~isFull(head, tail)
    PROVE  available(nextIndex(head), tail) = available(head, tail) + 1
  BY NextIndexWraps, SizeAssumption DEF available, isFull, Index

\* read_char takes one unread character away.
LEMMA AvailableAfterRead ==
    ASSUME NEW head \in Index, NEW tail \in Index, ~isEmpty(head, tail)
    PROVE  available(head, nextIndex(tail)) = available(head, tail) - 1
  BY NextIndexWraps, SizeAssumption DEF available, isEmpty, Index

\* The unread characters lie in slots of the array other than the head's.
LEMMA SlotOfUnread ==
    ASSUME NEW head \in Index, NEW tail \in Index,
           NEW k \in 1 .. available(head, tail)
    PROVE  slot(tail, k) \in Index /\ slot(tail, k) # head
  BY SizeAssumption DEF available, slot, Index

\* The unread characters are a sequence of the array's elements.
LEMMA ContentsIsSeq ==
    ASSUME NEW head \in Index, NEW tail \in Index,
           NEW S, NEW array \in [Index -> S]
    PROVE  /\ contents(array, head, tail) \in Seq(S)
           /\ Len(contents(array, head, tail)) = available(head, tail)
<1>1. available(head, tail) \in Nat
  BY AvailableBounds, SizeAssumption DEF Capacity
<1>2. \A k \in 1 .. available(head, tail) : array[slot(tail, k)] \in S
  BY SlotOfUnread
<1> QED
  BY <1>1, <1>2 DEF contents

\* A character stored with room to spare becomes the youngest unread one.
LEMMA ContentsAfterStore ==
    ASSUME NEW head \in Index, NEW tail \in Index,
           NEW S, NEW array \in [Index -> S], NEW c \in S,
           ~isFull(head, tail)
    PROVE  contents(storeIn(array, head, tail, c), storeHead(head, tail), tail)
               = Append(contents(array, head, tail), c)
<1> DEFINE n    == available(head, tail)
           old  == contents(array, head, tail)
           array2 == [array EXCEPT ![head] = c]
           new  == contents(array2, nextIndex(head), tail)
<1>1. n \in Nat /\ available(nextIndex(head), tail) = n + 1
  BY AvailableBounds, AvailableAfterStore, SizeAssumption DEF Capacity
<1>2. slot(tail, n + 1) = head
  BY SizeAssumption DEF available, slot, Index
<1>3. \A k \in 1 .. n : array2[slot(tail, k)] = array[slot(tail, k)]
  BY SlotOfUnread
<1>4. old \in Seq(S) /\ Len(old) = n
  BY ContentsIsSeq
<1>5. new = [k \in 1 .. n + 1 |-> array2[slot(tail, k)]]
  BY <1>1 DEF contents
<1>6. /\ Append(old, c) \in Seq(S) /\ Len(Append(old, c)) = n + 1
      /\ \A k \in 1 .. n + 1 :
            Append(old, c)[k] = IF k = n + 1 THEN c ELSE old[k]
  BY <1>1, <1>4, AppendProperties
<1>7. ASSUME NEW k \in 1 .. n + 1
      PROVE  new[k] = IF k = n + 1 THEN c ELSE old[k]
  <2>1. CASE k = n + 1
    BY <2>1, <1>2, <1>5
  <2>2. CASE k # n + 1
    BY <2>2, <1>1, <1>3, <1>5 DEF contents
  <2> QED
    BY <2>1, <2>2
<1>8. new \in Seq(S) /\ Len(new) = n + 1
  <2>1. array2 \in [Index -> S] /\ nextIndex(head) \in Index
    BY NextIndexWraps
  <2> QED
    BY <1>1, <2>1, ContentsIsSeq
<1>9. new = Append(old, c)
  <2> HIDE DEF new, old
  <2> QED
    BY <1>6, <1>7, <1>8, SeqEqual
<1> QED
  BY <1>9 DEF storeIn, storeHead

\* A full buffer is left as it is.
LEMMA StoreWhenFull ==
    ASSUME NEW array, NEW head, NEW tail, NEW c, isFull(head, tail)
    PROVE  storeIn(array, head, tail, c) = array /\ storeHead(head, tail) = head
  BY DEF storeIn, storeHead

\* Reading takes the oldest unread character.
LEMMA ContentsAfterRead ==
    ASSUME NEW head \in Index, NEW tail \in Index,
           NEW S, NEW array \in [Index -> S],
           ~isEmpty(head, tail)
    PROVE  /\ Head(contents(array, head, tail)) = array[tail]
           /\ contents(array, head, nextIndex(tail))
                  = Tail(contents(array, head, tail))
<1> DEFINE n   == available(head, tail)
           old == contents(array, head, tail)
           new == contents(array, head, nextIndex(tail))
<1>1. n \in Nat /\ n > 0 /\ available(head, nextIndex(tail)) = n - 1
  BY AvailableBounds, AvailableAfterRead, SizeAssumption DEF Capacity
<1>2. old \in Seq(S) /\ Len(old) = n
  BY ContentsIsSeq
<1>3. slot(tail, 1) = tail
  BY SizeAssumption DEF slot, Index
<1>4. Head(old) = array[tail]
  BY <1>1, <1>2, <1>3 DEF contents
<1>5. new = [k \in 1 .. n - 1 |-> array[slot(nextIndex(tail), k)]]
  BY <1>1 DEF contents
<1>6. /\ Tail(old) \in Seq(S) /\ Len(Tail(old)) = n - 1
      /\ \A k \in 1 .. n - 1 : Tail(old)[k] = old[k + 1]
  <2> HIDE DEF old
  <2> old # <<>>
    BY <1>1, <1>2
  <2> QED
    BY <1>1, <1>2, HeadTailProperties
<1>7. ASSUME NEW k \in 1 .. n - 1
      PROVE  new[k] = old[k + 1]
  <2>1. nextIndex(tail) = IF tail = SERIAL_BUFFER_SIZE - 1 THEN 0 ELSE tail + 1
    BY NextIndexWraps
  <2>2. n < SERIAL_BUFFER_SIZE
    BY AvailableBounds, SizeAssumption DEF Capacity
  <2> HIDE DEF n
  <2>3. slot(nextIndex(tail), k) = slot(tail, k + 1)
    BY <1>1, <2>1, <2>2, SizeAssumption DEF slot, Index
  <2>4. k \in 1 .. n /\ k + 1 \in 1 .. n
    BY <1>1
  <2> QED
    BY <1>5, <2>3, <2>4 DEF contents, n
<1>8. new \in Seq(S) /\ Len(new) = n - 1
  BY <1>1, NextIndexWraps, ContentsIsSeq
<1>9. new = Tail(old)
  <2> HIDE DEF new, old
  <2> QED
    BY <1>6, <1>7, <1>8, SeqEqual
<1> QED
  BY <1>4, <1>9

\* With both indices equal nothing is unread.
LEMMA ContentsWhenEmpty ==
    ASSUME NEW array, NEW head \in Index
    PROVE  contents(array, head, head) = <<>>
  BY SizeAssumption DEF contents, available, Index

-------------------------------------------------------------------------------
(* The inductive invariant. *)

\* Between its two steps read_char() holds the oldest unread character.
ReadHoldsOldest ==
    pc = "read_advance" => ~isEmpty(iHead, iTail) /\ value = buf[iTail]

\* Between the two stores of clear() the index already reset is 0, and a head
\* that restarted from 0 has not run past the old tail.
ClearHalfDone ==
    /\ pc = "clear_head" => iTail = 0
    /\ pc = "clear_tail" => iTail = 0 \/ iHead < iTail

PromiseKept ==
    /\ AvailableIsSafe
    /\ pc \in {"clear_head", "clear_tail"} => promised = 0

IInv == TypeOK /\ ReadHoldsOldest /\ ClearHalfDone /\ PromiseKept

LEMMA InitIInv == Init => IInv
<1> SUFFICES ASSUME Init
             PROVE  IInv
  OBVIOUS
<1>1. 0 \in Index /\ available(0, 0) = 0 /\ 0 \in 0 .. Capacity
  BY SizeAssumption DEF Index, available, Capacity
<1>2. TypeOK
  BY <1>1, BoundsAssumption DEF Init, TypeOK
<1>3. ReadHoldsOldest /\ ClearHalfDone /\ PromiseKept
  BY <1>1 DEF Init, ReadHoldsOldest, ClearHalfDone, PromiseKept,
              AvailableIsSafe
<1> QED
  BY <1>2, <1>3 DEF IInv

\* Every step preserves the types.
LEMMA TypeStep == IInv /\ [Next]_vars => TypeOK'
<1> SUFFICES ASSUME IInv, [Next]_vars
             PROVE  TypeOK'
  OBVIOUS
<1> USE BoundsAssumption, SizeAssumption DEF IInv, TypeOK
<1>a. 0 \in Index
  BY DEF Index
<1>b. usage' = usage
  BY DEF Next, vars
<1> USE <1>b
<1>1. CASE Begin
  BY <1>1 DEF Begin, sketchAt, ringVars, txVars, histVars
<1>2. CASE BeginClearEvent
  BY <1>2 DEF BeginClearEvent, sketchAt, ringVars, txVars, callVars, histVars
<1>3. CASE BeginStartRx
  BY <1>3 DEF BeginStartRx, sketchAt, ringVars, txVars, callVars, histVars
<1>4. CASE End
  BY <1>4 DEF End, sketchAt, ringVars, txVars, callVars, histVars
<1>5. CASE EndMask
  BY <1>5 DEF EndMask, sketchAt, ringVars, txVars, callVars, histVars
<1>6. CASE EndDisable
  BY <1>6 DEF EndDisable, sketchAt, ringVars, callVars, histVars
<1>7. CASE Flush
  BY <1>7 DEF Flush, startTx, sketchAt, rxVars, ringVars, histVars
<1>8. CASE ClearFirst
  <2>1. stale' \in 0 .. MaxRx
    <3>1. CASE offered = <<>>
      BY <1>8, <3>1 DEF ClearFirst
    <3>2. CASE offered # <<>>
      <4>1. Len(offered) \in 1 .. Len(offered)
        BY <3>2, EmptySeq
      <4> QED
        BY <1>8, <3>2, <4>1, ElementOfSeq DEF ClearFirst
    <3> QED
      BY <3>1, <3>2
  <2> QED
    BY <1>a, <1>8, <2>1
       DEF ClearFirst, sketchAt, rxVars, txVars, callVars, Capacity
<1>9. CASE ClearSecond
  BY <1>a, <1>9 DEF ClearSecond, sketchAt, rxVars, txVars, callVars, histVars
<1>10. CASE ReadEmpty
  BY <1>10 DEF ReadEmpty, rxVars, ringVars, txVars, callVars, Capacity
<1>11. CASE ReadValue
  BY <1>11 DEF ReadValue, rxVars, ringVars, txVars, callVars, histVars
<1>12. CASE ReadAdvance
  BY <1>12, NextIndexWraps
     DEF ReadAdvance, rxVars, txVars, callVars, Capacity
<1>13. CASE Available
  BY <1>13, AvailableBounds DEF Available, rxVars, ringVars, txVars, callVars
<1>14. CASE Write
  BY <1>14 DEF Write, rxVars, ringVars, histVars
<1>15. CASE WriteClearEvent
  BY <1>15 DEF WriteClearEvent, rxVars, ringVars, callVars, histVars
<1>16. CASE WriteStart
  BY <1>16 DEF WriteStart, startTx, rxVars, ringVars, callVars, histVars
<1>17. CASE WriteReturn
  BY <1>17 DEF WriteReturn, rxVars, ringVars, txVars, callVars, histVars
<1>18. CASE IrqEnter
  BY <1>18 DEF IrqEnter, ringVars, txVars, callVars, histVars
<1>19. CASE IrqStoreChar
  <2>1. buf' \in [Index -> 0 .. MaxRx] /\ iHead' \in Index
    BY <1>19, NextIndexWraps DEF IrqStoreChar, storeIn, storeHead
  <2> QED
    BY <1>19, <2>1 DEF IrqStoreChar, rxVars, txVars, callVars
<1>20. CASE RxChar
  BY <1>20 DEF RxChar, ringVars, txVars, callVars, histVars
<1>21. CASE RxStopped
  BY <1>21 DEF RxStopped, ringVars, txVars, callVars, histVars
<1>22. CASE TxChar
  <2>1. shifting \in 0 .. MaxTx
    BY <1>22 DEF TxChar
  <2> QED
    BY <1>22, <2>1 DEF TxChar, rxVars, ringVars, callVars, histVars
<1>23. CASE UNCHANGED vars
  BY <1>23 DEF vars, port, rxVars, ringVars, txVars, callVars, histVars
<1> QED
  BY <1>1, <1>2, <1>3, <1>4, <1>5, <1>6, <1>7, <1>8, <1>9, <1>10, <1>11,
     <1>12, <1>13, <1>14, <1>15, <1>16, <1>17, <1>18, <1>19, <1>20, <1>21,
     <1>22, <1>23 DEF Next, Sketch, Irq, Peripheral

\* Most steps neither touch the ring nor enter or leave a call that does.
Quiet ==
    /\ UNCHANGED <<ringVars, value, offered, got, promised>>
    /\ \/ pc' = pc
       \/ {pc, pc'} \cap {"clear_head", "clear_tail", "read_advance"} = {}

RingStep == \/ ClearFirst \/ ClearSecond \/ ReadEmpty \/ ReadValue
            \/ ReadAdvance \/ Available \/ IrqStoreChar

LEMMA QuietSteps == [Next]_vars => Quiet \/ RingStep
<1> SUFFICES ASSUME [Next]_vars, ~RingStep
             PROVE  Quiet
  OBVIOUS
<1> USE DEF Quiet, sketchAt, rxVars, ringVars, txVars, callVars, histVars
<1>1. CASE Begin \/ BeginClearEvent \/ BeginStartRx
  BY <1>1 DEF Begin, BeginClearEvent, BeginStartRx
<1>2. CASE End \/ EndMask \/ EndDisable
  BY <1>2 DEF End, EndMask, EndDisable
<1>3. CASE Flush
  BY <1>3 DEF Flush
<1>4. CASE Write \/ WriteClearEvent \/ WriteStart \/ WriteReturn
  BY <1>4 DEF Write, WriteClearEvent, WriteStart, WriteReturn
<1>5. CASE IrqEnter \/ Peripheral
  BY <1>5 DEF IrqEnter, Peripheral, RxChar, RxStopped, TxChar
<1>6. CASE UNCHANGED vars
  BY <1>6 DEF vars, port
<1> QED
  BY <1>1, <1>2, <1>3, <1>4, <1>5, <1>6 DEF Next, Sketch, Irq, RingStep

\* The strengthening is preserved: the handler never stores into the slot
\* read_char() is emptying, and never past the tail clear() is resetting.
LEMMA InvStep ==
    IInv /\ [Next]_vars => ReadHoldsOldest' /\ ClearHalfDone' /\ PromiseKept'
<1> SUFFICES ASSUME IInv, [Next]_vars
             PROVE  ReadHoldsOldest' /\ ClearHalfDone' /\ PromiseKept'
  OBVIOUS
<1> USE DEF ReadHoldsOldest, ClearHalfDone, PromiseKept, AvailableIsSafe
<1>a. /\ iHead \in Index /\ iTail \in Index /\ promised \in Nat
      /\ buf \in [Index -> 0 .. MaxRx]
      /\ available(iHead, iTail) \in Nat
  <2>1. /\ iHead \in Index /\ iTail \in Index /\ promised \in Nat
        /\ buf \in [Index -> 0 .. MaxRx]
    BY SizeAssumption DEF IInv, TypeOK, Capacity
  <2>2. available(iHead, iTail) \in 0 .. Capacity
    BY <2>1, AvailableBounds
  <2> QED
    BY <2>1, <2>2
<1>b. ReadHoldsOldest /\ ClearHalfDone /\ PromiseKept
  BY DEF IInv
<1>1. CASE Quiet
  BY <1>1, <1>b DEF Quiet, ringVars
<1>2. CASE ClearFirst
  <2>1. promised' = 0 /\ available(iHead', iTail') \in Nat
    <3>1. iHead' \in Index /\ iTail' \in Index
      BY <1>2, <1>a, SizeAssumption DEF ClearFirst, Index
    <3> QED
      BY <1>2, <3>1, AvailableBounds, SizeAssumption
         DEF ClearFirst, Capacity
  <2> QED
    BY <1>2, <1>a, <2>1, SizeAssumption DEF ClearFirst, Index
<1>3. CASE ClearSecond
  <2>1. promised' = 0 /\ available(iHead', iTail') \in Nat
    <3>1. iHead' \in Index /\ iTail' \in Index
      BY <1>3, <1>a, SizeAssumption DEF ClearSecond, Index
    <3> QED
      BY <1>3, <1>b, <3>1, AvailableBounds, SizeAssumption
         DEF ClearSecond, sketchAt, histVars, Capacity
  <2> QED
    BY <1>3, <2>1 DEF ClearSecond
<1>4. CASE ReadEmpty
  BY <1>4, <1>a, <1>b DEF ReadEmpty, ringVars, sketchAt
<1>5. CASE ReadValue
  BY <1>5, <1>b DEF ReadValue, ringVars, histVars
<1>6. CASE ReadAdvance
  <2>1. available(iHead, nextIndex(iTail)) = available(iHead, iTail) - 1
    BY <1>6, <1>a, <1>b, AvailableAfterRead DEF ReadAdvance, sketchAt
  <2>2. available(iHead, iTail) # 0
    BY <1>6, <1>a, <1>b, AvailableBounds DEF ReadAdvance, sketchAt
  <2> QED
    BY <1>6, <1>a, <1>b, <2>1, <2>2 DEF ReadAdvance
<1>7. CASE Available
  BY <1>7, <1>a DEF Available, ringVars, sketchAt
<1>8. CASE IrqStoreChar
  <2>1. CASE isFull(iHead, iTail)
    BY <1>8, <1>b, <2>1, StoreWhenFull DEF IrqStoreChar
  <2>2. CASE ~isFull(iHead, iTail)
    <3>1. /\ iHead' = nextIndex(iHead)
          /\ buf' = [buf EXCEPT ![iHead] = rxBuffer]
      BY <1>8, <2>2 DEF IrqStoreChar, storeIn, storeHead
    <3>2. available(iHead', iTail) = available(iHead, iTail) + 1
      BY <1>a, <2>2, <3>1, AvailableAfterStore
    <3>3. ReadHoldsOldest'
      <4>1. ASSUME ~isEmpty(iHead, iTail)
            PROVE  ~isEmpty(iHead', iTail) /\ buf'[iTail] = buf[iTail]
        BY <1>a, <2>2, <3>1, <4>1 DEF isEmpty, isFull
      <4> QED
        BY <1>8, <1>b, <4>1 DEF IrqStoreChar
    <3>4. ClearHalfDone'
      <4>1. iHead < iTail => iHead' < iTail
        <5>1. iHead' # iTail
          BY <2>2, <3>1 DEF isFull
        <5>2. iHead' = IF iHead = SERIAL_BUFFER_SIZE - 1 THEN 0 ELSE iHead + 1
          BY <1>a, <3>1, NextIndexWraps
        <5> QED
          BY <1>a, <5>1, <5>2, SizeAssumption DEF Index
      <4> QED
        BY <1>8, <1>b, <4>1 DEF IrqStoreChar
    <3>5. PromiseKept'
      BY <1>8, <1>a, <1>b, <3>2 DEF IrqStoreChar
    <3> QED
      BY <3>3, <3>4, <3>5
  <2> QED
    BY <2>1, <2>2
<1> QED
  BY <1>1, <1>2, <1>3, <1>4, <1>5, <1>6, <1>7, <1>8, QuietSteps DEF RingStep

\* The inductive invariant holds of every behaviour of the port.
LEMMA Invariance == Spec => []IInv
<1>1. IInv /\ [Next]_vars => IInv'
  BY TypeStep, InvStep DEF IInv
<1> QED
  BY InitIInv, <1>1, PTL DEF Spec

\* Every variable of the port keeps its type, for every size and every bound
\* (Uart.cpp, RingBuffer.cpp).
THEOREM TypeCorrect == Spec => []TypeOK
<1>1. IInv => TypeOK
  BY DEF IInv
<1> QED
  BY Invariance, <1>1, PTL

\* After available() has returned n, the next n calls of read() return a
\* character (RingBuffer.cpp 60-68).
THEOREM AvailableSafe == Spec => []AvailableIsSafe
<1>1. IInv => AvailableIsSafe
  BY DEF IInv, PromiseKept
<1> QED
  BY Invariance, <1>1, PTL

-------------------------------------------------------------------------------
(* The refinement. *)

LEMMA QueueInit == Init => Queue!Init
<1>1. 0 \in Index
  BY SizeAssumption DEF Index
<1> QED
  BY <1>1, ContentsWhenEmpty DEF Init, Queue!Init, unread

\* The first store of clear() empties the queue, the second ends the emptying.
LEMMA ClearRefines ==
    ASSUME IInv, IInv', ClearFirst \/ ClearSecond
    PROVE  Queue!ClearBegin \/ Queue!ClearEnd
<1> USE DEF sketchAt
<1>1. iHead \in Index /\ 0 \in Index
  BY SizeAssumption DEF IInv, TypeOK, Index
<1>2. CASE ClearFirst
  <2>1. pc = "clear" /\ pc' \in {"clear_head", "clear_tail"}
    BY <1>2 DEF ClearFirst
  <2>2. unread' = <<>>
    BY <1>1, <1>2, ContentsWhenEmpty DEF ClearFirst, unread
  <2> QED
    BY <1>2, <2>1, <2>2 DEF ClearFirst, Queue!ClearBegin
<1>3. CASE ClearSecond
  <2>1. pc \in {"clear_head", "clear_tail"} /\ pc' = "idle"
        /\ UNCHANGED <<offered, got>>
    BY <1>3 DEF ClearSecond, histVars
  <2>2. unread' = unread
    <3>1. CASE pc = "clear_tail"
      BY <1>3, <2>1, <3>1 DEF ClearSecond, unread
    <3>2. CASE pc = "clear_head"
      <4>1. iHead' = 0 /\ iTail' = 0
        BY <1>3, <3>2 DEF ClearSecond, IInv, ClearHalfDone
      <4> QED
        BY <1>1, <2>1, <3>2, <4>1, ContentsWhenEmpty DEF unread
    <3> QED
      BY <2>1, <3>1, <3>2
  <2> QED
    BY <2>1, <2>2 DEF Queue!ClearEnd
<1> QED
  BY <1>2, <1>3

\* read_char() takes the head of the queue.
LEMMA ReadRefines ==
    ASSUME IInv, IInv', ReadAdvance
    PROVE  Queue!Read
<1> USE DEF sketchAt
<1>1. /\ iHead \in Index /\ iTail \in Index /\ buf \in [Index -> 0 .. MaxRx]
      /\ ~isEmpty(iHead, iTail) /\ value = buf[iTail]
      /\ pc = "read_advance"
  BY DEF ReadAdvance, IInv, TypeOK, ReadHoldsOldest
<1>2. /\ Head(contents(buf, iHead, iTail)) = value
      /\ contents(buf, iHead, nextIndex(iTail))
             = Tail(contents(buf, iHead, iTail))
  BY <1>1, ContentsAfterRead
<1>3. contents(buf, iHead, iTail) # <<>>
  <2>1. Len(contents(buf, iHead, iTail)) = available(iHead, iTail)
    BY <1>1, ContentsIsSeq
  <2>2. available(iHead, iTail) # 0
    BY <1>1, AvailableBounds
  <2> QED
    BY <2>1, <2>2
<1>4. unread = contents(buf, iHead, iTail)
  BY <1>1 DEF unread
<1>5. unread' = contents(buf, iHead, nextIndex(iTail))
  BY DEF ReadAdvance, unread
<1> HIDE DEF sketchAt
<1> QED
  BY <1>1, <1>2, <1>3, <1>4, <1>5 DEF ReadAdvance, Queue!Read

\* store_char() appends to the queue, or refuses for a reason it may have.
LEMMA StoreRefines ==
    ASSUME IInv, IInv', IrqStoreChar
    PROVE  \E c \in 0 .. MaxRx : Queue!Accept(c) \/ Queue!Refuse(c)
<1>1. /\ iHead \in Index /\ iTail \in Index /\ 0 \in Index
      /\ buf \in [Index -> 0 .. MaxRx] /\ rxBuffer \in 0 .. MaxRx
  <2>1. 0 \in Index
    BY SizeAssumption DEF Index
  <2> QED
    BY <2>1 DEF IInv, TypeOK
<1>2. /\ buf' = storeIn(buf, iHead, iTail, rxBuffer)
      /\ iHead' = storeHead(iHead, iTail)
      /\ offered' = Append(offered, rxBuffer)
      /\ UNCHANGED <<pc, iTail, got>>
  BY DEF IrqStoreChar
<1>3. CASE pc = "clear_head"
  BY <1>1, <1>2, <1>3 DEF Queue!Refuse, unread
<1>4. CASE pc # "clear_head" /\ isFull(iHead, iTail)
  <2>1. buf' = buf /\ iHead' = iHead
    BY <1>2, <1>4, StoreWhenFull
  <2>2. unread' = unread
    BY <1>2, <2>1 DEF unread
  <2>3. CASE pc = "clear_tail"
    BY <1>1, <1>2, <2>2, <2>3 DEF Queue!Refuse
  <2>4. CASE pc # "clear_tail"
    <3>1. unread = contents(buf, iHead, iTail)
      BY <1>4, <2>4 DEF unread
    <3>2. Len(unread) = Capacity
      <4>1. Len(contents(buf, iHead, iTail)) = available(iHead, iTail)
        BY <1>1, ContentsIsSeq
      <4>2. available(iHead, iTail) = Capacity
        BY <1>1, <1>4, AvailableBounds
      <4> QED
        BY <3>1, <4>1, <4>2
    <3> QED
      BY <1>1, <1>2, <2>2, <3>2 DEF Queue!Refuse
  <2> QED
    BY <2>3, <2>4
<1>5. CASE pc # "clear_head" /\ ~isFull(iHead, iTail)
  <2> DEFINE from == IF pc = "clear_tail" THEN 0 ELSE iTail
  <2>1. from \in Index /\ ~isFull(iHead, from)
    <3>1. CASE pc = "clear_tail"
      <4>1. iTail = 0 \/ iHead < iTail
        BY <3>1 DEF IInv, ClearHalfDone
      <4>2. nextIndex(iHead)
                = IF iHead = SERIAL_BUFFER_SIZE - 1 THEN 0 ELSE iHead + 1
        BY <1>1, NextIndexWraps
      <4>3. iHead < iTail => nextIndex(iHead) # 0
        BY <1>1, <4>2, SizeAssumption DEF Index
      <4> QED
        BY <1>1, <1>5, <3>1, <4>1, <4>3 DEF isFull
    <3> QED
      BY <1>1, <1>5, <3>1
  <2>2. unread = contents(buf, iHead, from)
    BY <1>5 DEF unread
  <2>3. /\ storeIn(buf, iHead, iTail, rxBuffer)
              = storeIn(buf, iHead, from, rxBuffer)
        /\ storeHead(iHead, iTail) = storeHead(iHead, from)
    BY <1>5, <2>1 DEF storeIn, storeHead
  <2>4. unread' = contents(buf', iHead', from)
    BY <1>2, <1>5 DEF unread
  <2>5. unread' = Append(unread, rxBuffer)
    <3> HIDE DEF from
    <3>1. contents(storeIn(buf, iHead, from, rxBuffer),
                   storeHead(iHead, from), from)
              = Append(contents(buf, iHead, from), rxBuffer)
      <4>1. \A S : \A b \in [Index -> S] : \A c \in S :
              contents(storeIn(b, iHead, from, c), storeHead(iHead, from), from)
              = Append(contents(b, iHead, from), c)
        BY <1>1, <2>1, ContentsAfterStore
      <4>2. \A b \in [Index -> 0 .. MaxRx] : \A c \in 0 .. MaxRx :
              contents(storeIn(b, iHead, from, c), storeHead(iHead, from), from)
              = Append(contents(b, iHead, from), c)
        BY <4>1
      <4> QED
        BY <4>2, <1>1
    <3> QED
      BY <1>2, <2>2, <2>3, <2>4, <3>1
  <2>6. Len(unread) < Capacity
    <3> HIDE DEF from
    <3>1. Len(unread) = available(iHead, from)
      BY <1>1, <2>1, <2>2, ContentsIsSeq
    <3>2. /\ available(iHead, from) \in 0 .. Capacity
          /\ available(iHead, from) # Capacity
      BY <1>1, <2>1, AvailableBounds
    <3> QED
      BY <3>1, <3>2, SizeAssumption DEF Capacity
  <2> QED
    BY <1>1, <1>2, <2>5, <2>6 DEF Queue!Accept
<1> QED
  BY <1>3, <1>4, <1>5

LEMMA QueueStep == IInv /\ IInv' /\ [Next]_vars => [Queue!Next]_(Queue!vars)
<1> SUFFICES ASSUME IInv, IInv', [Next]_vars
             PROVE  [Queue!Next]_(Queue!vars)
  OBVIOUS
<1>1. CASE Quiet \/ ReadEmpty \/ ReadValue \/ Available
  <2>1. /\ UNCHANGED <<ringVars, offered, got>>
        /\ \/ pc' = pc
           \/ {pc, pc'} \cap {"clear_head", "clear_tail"} = {}
    BY <1>1 DEF Quiet, ReadEmpty, ReadValue, Available, sketchAt, histVars
  <2>2. UNCHANGED unread
    BY <2>1 DEF unread, ringVars
  <2>3. (pc' \in {"clear_head", "clear_tail"})
            = (pc \in {"clear_head", "clear_tail"})
    <3>1. CASE pc' = pc
      BY <3>1
    <3>2. CASE {pc, pc'} \cap {"clear_head", "clear_tail"} = {}
      <4>1. /\ pc \notin {"clear_head", "clear_tail"}
            /\ pc' \notin {"clear_head", "clear_tail"}
        BY <3>2
      <4> QED
        BY <4>1
    <3> QED
      BY <2>1, <3>1, <3>2
  <2> QED
    BY <2>1, <2>2, <2>3 DEF Queue!vars
<1>2. CASE ClearFirst \/ ClearSecond
  BY <1>2, ClearRefines DEF Queue!Next
<1>3. CASE ReadAdvance
  BY <1>3, ReadRefines DEF Queue!Next
<1>4. CASE IrqStoreChar
  BY <1>4, StoreRefines DEF Queue!Next
<1> QED
  BY <1>1, <1>2, <1>3, <1>4, QuietSteps DEF RingStep

\* The port is a bounded first-in first-out queue that drops a character only
\* when it is full or being cleared, for every buffer size, however late the
\* handler runs and however often the port is flushed, closed and reopened.
THEOREM PortImplementsQueue == Spec => ImplementsQueue
<1>1. Spec => Queue!Init
  BY QueueInit DEF Spec
<1>2. Spec => [][Queue!Next]_(Queue!vars)
  BY Invariance, QueueStep, PTL DEF Spec
<1> QED
  BY <1>1, <1>2 DEF ImplementsQueue, Queue!Spec

-------------------------------------------------------------------------------
(* The transmitter. *)

\* The characters of the first n calls of write().
upTo(n) == [i \in 1 .. n |-> i]

\* Without flush(), the transmitter holds at most the character write() is
\* waiting for, and a set ENDTX then means that this one has left.
SendInv ==
    "flush" \notin usage =>
        /\ pc \notin {"write_clear", "write_start", "write_wait"} =>
               shifting = NoChar /\ line = upTo(written)
        /\ pc \in {"write_clear", "write_start"} =>
               /\ shifting = NoChar /\ written > 0 /\ txBuffer = written
               /\ line = upTo(written - 1)
        /\ pc = "write_start" => endTx = FALSE
        /\ pc = "write_wait" /\ endTx = TRUE =>
               shifting = NoChar /\ line = upTo(written)
        /\ pc = "write_wait" /\ endTx = FALSE =>
               /\ shifting \in {written, NoChar} /\ written > 0
               /\ line = upTo(written - 1)

LEMMA UpToGrows ==
    ASSUME NEW n \in Nat, n > 0
    PROVE  Append(upTo(n - 1), n) = upTo(n)
<1>1. /\ upTo(n - 1) \in Seq(Nat) /\ Len(upTo(n - 1)) = n - 1
      /\ upTo(n) \in Seq(Nat) /\ Len(upTo(n)) = n
      /\ \A i \in 1 .. n - 1 : upTo(n - 1)[i] = i
      /\ \A i \in 1 .. n : upTo(n)[i] = i
  BY DEF upTo
<1>2. /\ Append(upTo(n - 1), n) \in Seq(Nat)
      /\ Len(Append(upTo(n - 1), n)) = n
      /\ \A i \in 1 .. n : Append(upTo(n - 1), n)[i] = i
  <2> HIDE DEF upTo
  <2> DEFINE s == upTo(n - 1)  t == Append(s, n)
  <2>1. s \in Seq(Nat) /\ Len(s) = n - 1 /\ \A i \in 1 .. n - 1 : s[i] = i
    BY <1>1
  <2> HIDE DEF s
  <2>2. /\ t \in Seq(Nat) /\ Len(t) = Len(s) + 1 /\ t[Len(s) + 1] = n
        /\ \A i \in 1 .. Len(s) : t[i] = s[i]
    BY <2>1, AppendProperties
  <2> HIDE DEF t
  <2>3. Len(s) + 1 = n
    BY <2>1
  <2>4. \A i \in 1 .. n : t[i] = i
    <3>1. ASSUME NEW i \in 1 .. n PROVE t[i] = i
      <4>1. i = n \/ i \in 1 .. n - 1
        OBVIOUS
      <4> QED
        BY <2>1, <2>2, <2>3, <4>1
    <3> QED
      BY <3>1
  <2>5. t = Append(upTo(n - 1), n)
    BY DEF s, t
  <2> QED
    BY <2>2, <2>3, <2>4, <2>5
<1> QED
  BY <1>1, <1>2, SeqEqual

\* The steps that concern neither write() nor the transmitter.
SendQuiet ==
    /\ UNCHANGED <<usage, txVars, written>>
    /\ \/ pc' = pc
       \/ {pc, pc'} \cap {"write_clear", "write_start", "write_wait"} = {}

SendStep == EndDisable \/ Flush \/ Write \/ WriteClearEvent \/ WriteStart
            \/ WriteReturn \/ TxChar

LEMMA SendQuietSteps == [Next]_vars => SendQuiet \/ SendStep
<1> SUFFICES ASSUME [Next]_vars, ~SendStep
             PROVE  SendQuiet
  OBVIOUS
<1>0. usage' = usage
  BY DEF Next, vars
<1> USE <1>0 DEF SendQuiet, sketchAt, txVars, callVars
<1>1. CASE Begin \/ BeginClearEvent \/ BeginStartRx
  BY <1>1 DEF Begin, BeginClearEvent, BeginStartRx
<1>2. CASE End \/ EndMask
  BY <1>2 DEF End, EndMask
<1>3. CASE ClearFirst \/ ClearSecond
  BY <1>3 DEF ClearFirst, ClearSecond
<1>4. CASE ReadEmpty \/ ReadValue \/ ReadAdvance \/ Available
  BY <1>4 DEF ReadEmpty, ReadValue, ReadAdvance, Available
<1>5. CASE IrqEnter \/ IrqStoreChar \/ RxChar \/ RxStopped
  BY <1>5 DEF IrqEnter, IrqStoreChar, RxChar, RxStopped
<1>6. CASE UNCHANGED vars
  BY <1>6 DEF vars, port
<1> QED
  BY <1>1, <1>2, <1>3, <1>4, <1>5, <1>6
     DEF Next, Sketch, Irq, Peripheral, SendStep

LEMMA SendInvStep == TypeOK /\ SendInv /\ [Next]_vars => SendInv'
<1> SUFFICES ASSUME TypeOK, SendInv, [Next]_vars, "flush" \notin usage'
             PROVE  SendInv'
  BY DEF SendInv
<1>a. /\ "flush" \notin usage
      /\ written \in Nat /\ endTx \in BOOLEAN
      /\ shifting \in Nat \union {NoChar} /\ NoChar \notin Nat
  BY BoundsAssumption DEF Next, vars, TypeOK, NoChar
<1> HIDE DEF NoChar
<1> USE <1>a DEF SendInv, sketchAt
<1>1. CASE SendQuiet
  BY <1>1 DEF SendQuiet, txVars
<1>2. CASE EndDisable
  BY <1>2 DEF EndDisable, callVars
<1>3. CASE Flush
  BY <1>3 DEF Flush
<1>4. CASE Write
  <2>1. /\ pc' = "write_clear" /\ shifting' = NoChar
        /\ txBuffer' = written' /\ line' = upTo(written)
    BY <1>4 DEF Write
  <2>2. written' = written + 1 /\ written' - 1 = written /\ written' > 0
    BY <1>4 DEF Write
  <2> QED
    BY <2>1, <2>2
<1>5. CASE WriteClearEvent
  BY <1>5 DEF WriteClearEvent, callVars
<1>6. CASE WriteStart
  <2>1. shifting' \in {txBuffer, NoChar} /\ endTx' = FALSE /\ UNCHANGED <<written, line>>
    BY <1>6 DEF WriteStart, startTx, callVars
  <2> QED
    BY <1>6, <2>1 DEF WriteStart
<1>7. CASE WriteReturn
  BY <1>7 DEF WriteReturn, txVars, callVars
<1>8. CASE TxChar
  <2>1. pc = "write_wait" /\ endTx = FALSE
    BY <1>8 DEF TxChar
  <2>2. line' = Append(upTo(written - 1), written) /\ written > 0
    BY <1>8, <2>1 DEF TxChar
  <2>3. line' = upTo(written)
    BY <2>2, UpToGrows
  <2> QED
    BY <1>8, <2>1, <2>3 DEF TxChar, callVars
<1> QED
  BY <1>1, <1>2, <1>3, <1>4, <1>5, <1>6, <1>7, <1>8, SendQuietSteps
     DEF SendStep

\* Without flush(), write() has sent its character when it returns, and the
\* line carries what was written, once and in order (Uart.cpp 113-121).
THEOREM WriteSent == Spec => []WriteSends
<1>1. Init => SendInv
  BY DEF Init, SendInv, upTo, NoChar
<1>2. SendInv => WriteSends
  BY DEF SendInv, WriteSends, upTo
<1>3. IInv => TypeOK
  BY DEF IInv
<1> QED
  BY Invariance, SendInvStep, <1>1, <1>2, <1>3, PTL DEF Spec

-------------------------------------------------------------------------------
(* The order of the line. *)

\* The handler keeps up and the port is opened once.
strict == usage \cap {"late", "reopen"} = {}

\* How the life of the port, its interrupt and the receiver go together when
\* the handler keeps up: after end() has masked it, no interrupt is served.
PhaseInv ==
    strict =>
        /\ isr = "store" \/ (endRx = TRUE /\ intEn = TRUE) =>
               rx = "on" \/ pc = "end_mask"
        /\ rx \in {"stopping", "stopped"} => pc \in {"end_mask", "end_disable"}
        /\ sessions = 0 => rx = "off" /\ endRx = FALSE /\ isr = "idle"
        /\ pc \in {"begin_clear", "begin_start"} =>
               endRx = FALSE /\ rx = "off" /\ sessions > 0
        /\ rx = "off" /\ pc \notin {"begin_clear", "begin_start"} =>
               intEn = FALSE
        /\ pc = "end_disable" => intEn = FALSE
        /\ rx = "on" /\ isr = "store" => endRx = FALSE

LEMMA PhaseStep == TypeOK /\ PhaseInv /\ [Next]_vars => PhaseInv'
<1> SUFFICES ASSUME TypeOK, PhaseInv, [Next]_vars, strict'
             PROVE  PhaseInv'
  BY DEF PhaseInv
<1>a. /\ strict /\ "late" \notin usage /\ "reopen" \notin usage
      /\ endRx \in BOOLEAN /\ intEn \in BOOLEAN /\ sessions \in Nat
      /\ rx \in {"off", "on", "stopping", "stopped"}
  BY BoundsAssumption DEF Next, vars, strict, TypeOK
<1> USE <1>a DEF PhaseInv, sketchAt
<1>1. CASE Begin
  BY <1>1 DEF Begin
<1>2. CASE BeginClearEvent
  BY <1>2 DEF BeginClearEvent, callVars
<1>3. CASE BeginStartRx
  BY <1>3 DEF BeginStartRx, callVars
<1>4. CASE End
  BY <1>4 DEF End, callVars
<1>5. CASE EndMask
  BY <1>5 DEF EndMask, callVars
<1>6. CASE EndDisable
  BY <1>6 DEF EndDisable, callVars
<1>7. CASE Flush
  BY <1>7 DEF Flush, rxVars
<1>8. CASE ClearFirst \/ ClearSecond
  BY <1>8 DEF ClearFirst, ClearSecond, rxVars, callVars
<1>9. CASE ReadEmpty \/ ReadValue \/ ReadAdvance \/ Available
  BY <1>9 DEF ReadEmpty, ReadValue, ReadAdvance, Available, rxVars, callVars,
              started
<1>10. CASE Write \/ WriteClearEvent \/ WriteStart \/ WriteReturn
  BY <1>10 DEF Write, WriteClearEvent, WriteStart, WriteReturn, rxVars, callVars
<1>11. CASE IrqEnter
  BY <1>11 DEF IrqEnter, callVars
<1>12. CASE IrqStoreChar
  BY <1>12 DEF IrqStoreChar, rxVars, callVars
<1>13. CASE RxChar
  BY <1>13 DEF RxChar, callVars
<1>14. CASE RxStopped
  BY <1>14 DEF RxStopped, callVars
<1>15. CASE TxChar
  BY <1>15 DEF TxChar, rxVars, callVars
<1>16. CASE UNCHANGED vars
  BY <1>16 DEF vars, port, rxVars, callVars
<1> QED
  BY <1>1, <1>2, <1>3, <1>4, <1>5, <1>6, <1>7, <1>8, <1>9, <1>10, <1>11,
     <1>12, <1>13, <1>14, <1>15, <1>16 DEF Next, Sketch, Irq, Peripheral

\* Each character of a sequence comes at least d after those before it, is at
\* least d before c, and at least d before each of another sequence.
sorted(s, d)     == \A i, j \in 1 .. Len(s) : i < j => s[i] + d <= s[j]
below(s, c, d)   == \A i \in 1 .. Len(s) : s[i] + d <= c
follows(s, t, d) == \A j \in 1 .. Len(t) : below(s, t[j], d)

LEMMA AppendOrdered ==
    ASSUME NEW d \in Nat, NEW e \in Nat, NEW s \in Seq(Nat), NEW c \in Nat
    PROVE  /\ sorted(s, d) /\ below(s, c, d) => sorted(Append(s, c), d)
           /\ \A b \in Nat : below(s, b, e) /\ c + e <= b
                                 => below(Append(s, c), b, e)
           /\ \A r \in Seq(Nat) : follows(r, s, d) /\ below(r, c, d)
                                      => follows(r, Append(s, c), d)
<1>1. /\ Len(Append(s, c)) = Len(s) + 1 /\ Len(s) \in Nat
      /\ \A i \in 1 .. Len(s) : Append(s, c)[i] = s[i] /\ s[i] \in Nat
      /\ Append(s, c)[Len(s) + 1] = c
  BY AppendProperties
<1> DEFINE t == Append(s, c)
<1> HIDE DEF t
<1>2. /\ Len(t) = Len(s) + 1 /\ Len(s) \in Nat
      /\ \A i \in 1 .. Len(s) : t[i] = s[i] /\ s[i] \in Nat
      /\ t[Len(s) + 1] = c
  BY <1>1 DEF t
<1>3. ASSUME sorted(s, d), below(s, c, d)
      PROVE  sorted(t, d)
  <2> SUFFICES ASSUME NEW i \in 1 .. Len(t), NEW j \in 1 .. Len(t), i < j
               PROVE  t[i] + d <= t[j]
    BY DEF sorted
  <2>1. i \in 1 .. Len(s) /\ t[i] = s[i]
    BY <1>2
  <2>2. CASE j = Len(s) + 1
    BY <1>2, <1>3, <2>1, <2>2 DEF below
  <2>3. CASE j # Len(s) + 1
    <3>1. j \in 1 .. Len(s) /\ t[j] = s[j]
      BY <1>2, <2>3
    <3> QED
      BY <1>3, <2>1, <3>1 DEF sorted
  <2> QED
    BY <2>2, <2>3
<1>4. ASSUME NEW b \in Nat, below(s, b, e), c + e <= b
      PROVE  below(t, b, e)
  BY <1>2, <1>4 DEF below
<1>5. ASSUME NEW r \in Seq(Nat), follows(r, s, d), below(r, c, d)
      PROVE  follows(r, t, d)
  BY <1>2, <1>5 DEF follows
<1> QED
  BY <1>3, <1>4, <1>5 DEF t

LEMMA TailOrdered ==
    ASSUME NEW d \in Nat, NEW e \in Nat, NEW s \in Seq(Nat), s # <<>>,
           sorted(s, d)
    PROVE  /\ Tail(s) \in Seq(Nat) /\ Head(s) \in Nat /\ sorted(Tail(s), d)
           /\ follows(<<Head(s)>>, Tail(s), d)
           /\ \A c \in Nat : below(s, c, e)
                  => below(Tail(s), c, e) /\ Head(s) + e <= c
           /\ \A r \in Seq(Nat) : follows(r, s, d)
                  => follows(r, Tail(s), d) /\ below(r, Head(s), d)
<1>1. /\ Len(Tail(s)) = Len(s) - 1 /\ Len(s) \in Nat /\ Len(s) > 0
      /\ \A i \in 1 .. Len(s) : s[i] \in Nat
      /\ \A i \in 1 .. Len(s) - 1 : Tail(s)[i] = s[i + 1]
      /\ Head(s) = s[1] /\ Tail(s) \in Seq(Nat)
  BY HeadTailProperties, EmptySeq
<1> DEFINE t == Tail(s)
           h == Head(s)
<1> HIDE DEF t, h
<1>2. /\ Len(t) = Len(s) - 1 /\ Len(s) \in Nat /\ Len(s) > 0
      /\ \A i \in 1 .. Len(s) : s[i] \in Nat
      /\ \A i \in 1 .. Len(s) - 1 : t[i] = s[i + 1] /\ i + 1 \in 1 .. Len(s)
      /\ h = s[1] /\ 1 \in 1 .. Len(s)
  BY <1>1 DEF t, h
<1>3. sorted(t, d)
  <2> SUFFICES ASSUME NEW i \in 1 .. Len(t), NEW j \in 1 .. Len(t), i < j
               PROVE  t[i] + d <= t[j]
    BY DEF sorted
  <2>1. /\ i + 1 \in 1 .. Len(s) /\ j + 1 \in 1 .. Len(s) /\ i + 1 < j + 1
        /\ t[i] = s[i + 1] /\ t[j] = s[j + 1]
    BY <1>2
  <2> QED
    BY <2>1 DEF sorted
<1>4. follows(<<h>>, t, d)
  <2>1. ASSUME NEW j \in 1 .. Len(s) - 1
        PROVE  h + d <= t[j]
    <3>1. j + 1 \in 1 .. Len(s) /\ t[j] = s[j + 1] /\ 1 < j + 1
      BY <1>2
    <3> QED
      BY <1>2, <3>1 DEF sorted
  <2> QED
    BY <1>2, <2>1 DEF follows, below
<1>5. ASSUME NEW c \in Nat, below(s, c, e)
      PROVE  below(t, c, e) /\ h + e <= c
  BY <1>2, <1>5 DEF below
<1>6. ASSUME NEW r \in Seq(Nat), follows(r, s, d)
      PROVE  follows(r, t, d) /\ below(r, h, d)
  BY <1>2, <1>6 DEF follows
<1> QED
  BY <1>1, <1>3, <1>4, <1>5, <1>6 DEF t, h

\* Characters that keep a distance keep a smaller one.
LEMMA Relax ==
    ASSUME NEW d \in Nat, NEW e \in Nat, e <= d
    PROVE  /\ \A s \in Seq(Nat) : sorted(s, d) => sorted(s, e)
           /\ \A s \in Seq(Nat), c \in Nat : below(s, c, d) => below(s, c, e)
           /\ \A s, t \in Seq(Nat) : follows(s, t, d) => follows(s, t, e)
<1>0. \A s \in Seq(Nat) : \A i \in 1 .. Len(s) : s[i] \in Nat
  OBVIOUS
<1>1. ASSUME NEW s \in Seq(Nat), sorted(s, d)
      PROVE  sorted(s, e)
  BY <1>0, <1>1 DEF sorted
<1>2. ASSUME NEW s \in Seq(Nat), NEW c \in Nat, below(s, c, d)
      PROVE  below(s, c, e)
  BY <1>0, <1>2 DEF below
<1>3. ASSUME NEW s \in Seq(Nat), NEW t \in Seq(Nat), follows(s, t, d)
      PROVE  follows(s, t, e)
  BY <1>0, <1>2, <1>3 DEF follows
<1> QED
  BY <1>1, <1>2, <1>3

\* The unread characters are those stored since the last clear(), one by one.
kept == /\ strict
        /\ pc \notin {"end_mask", "end_disable"}
        /\ ~(pc = "clear" /\ rx = "off")

\* The character in the DMA buffer has not been offered yet.
fresh == strict /\ rx = "on" /\ (endRx = TRUE \/ isr = "store")

\* The distance between characters that must not be the same.
gap(distinct) == IF distinct THEN 1 ELSE 0

\* read(), the unread characters and the DMA buffer hold the line in order.
OrderInv ==
    /\ heard = rxBuffer
    /\ stale + gap(fresh) <= rxBuffer
    /\ below(offered, rxBuffer, gap(fresh))
    /\ below(unread, rxBuffer, gap(fresh))
    /\ below(got, rxBuffer, gap(fresh))
    /\ sorted(got, gap(strict))
    /\ sorted(unread, gap(kept))
    /\ follows(got, unread, gap(kept))
    /\ follows(<<stale>>, unread, gap(kept))

LEMMA OrderTypes ==
    ASSUME IInv
    PROVE  /\ offered \in Seq(Nat) /\ got \in Seq(Nat) /\ unread \in Seq(Nat)
           /\ heard \in Nat /\ rxBuffer \in Nat /\ stale \in Nat
           /\ <<stale>> \in Seq(Nat)
<1>1. 0 .. MaxRx \subseteq Nat
  BY BoundsAssumption
<1>2. \A s \in Seq(0 .. MaxRx) : s \in Seq(Nat)
  BY <1>1, SeqMonotonic
<1>3. unread \in Seq(0 .. MaxRx)
  <2>1. iHead \in Index /\ iTail \in Index /\ buf \in [Index -> 0 .. MaxRx]
    BY DEF IInv, TypeOK
  <2>2. 0 \in Index
    BY SizeAssumption DEF Index
  <2> QED
    BY <2>1, <2>2, ContentsIsSeq DEF unread
<1> QED
  BY <1>1, <1>2, <1>3 DEF IInv, TypeOK

\* The steps that move no character, and the completion of one.
Still == UNCHANGED <<unread, offered, got, stale>>

LEMMA StillSteps ==
    ASSUME IInv, IInv', [Next]_vars,
           ~ClearFirst, ~ReadAdvance, ~IrqStoreChar
    PROVE  Still
<1>1. CASE ClearSecond
  <2>1. Queue!ClearEnd
    <3>1. pc \in {"clear_head", "clear_tail"}
      BY <1>1 DEF ClearSecond, sketchAt
    <3> QED
      BY <1>1, <3>1, ClearRefines DEF Queue!ClearBegin
  <2> QED
    BY <1>1, <2>1 DEF Queue!ClearEnd, ClearSecond, histVars, Still
<1>2. CASE ReadEmpty \/ ReadValue \/ Available
  BY <1>2 DEF ReadEmpty, ReadValue, Available, sketchAt, ringVars, histVars,
              unread, Still
<1>3. CASE Quiet /\ ~RingStep
  <2>1. stale' = stale
    <3> USE DEF histVars
    <3>1. CASE Begin \/ BeginClearEvent \/ BeginStartRx
      BY <3>1 DEF Begin, BeginClearEvent, BeginStartRx
    <3>2. CASE End \/ EndMask \/ EndDisable \/ Flush
      BY <3>2 DEF End, EndMask, EndDisable, Flush
    <3>3. CASE Write \/ WriteClearEvent \/ WriteStart \/ WriteReturn
      BY <3>3 DEF Write, WriteClearEvent, WriteStart, WriteReturn
    <3>4. CASE IrqEnter \/ Peripheral
      BY <3>4 DEF IrqEnter, Peripheral, RxChar, RxStopped, TxChar
    <3>5. CASE UNCHANGED vars
      BY <3>5 DEF vars, port
    <3> QED
      BY <1>3, <3>1, <3>2, <3>3, <3>4, <3>5 DEF Next, Sketch, Irq, RingStep
  <2> QED
    BY <1>3, <2>1 DEF Quiet, ringVars, unread, Still
<1> QED
  BY <1>1, <1>2, <1>3, QuietSteps DEF RingStep

\* A step other than the first store of clear() makes no distance stricter,
\* nor does one other than a reception make the DMA buffer fresh.
LEMMA DistancesRelax ==
    ASSUME IInv, PhaseInv, [Next]_vars, ~ClearFirst
    PROVE  /\ strict' = strict
           /\ kept' => kept
           /\ ~RxChar => heard' = heard /\ rxBuffer' = rxBuffer
           /\ fresh' => fresh \/ RxChar
<1>0. usage' = usage /\ strict' = strict
  BY DEF Next, vars, strict
<1> USE <1>0 DEF kept, fresh, sketchAt
<1>1. CASE Begin
  BY <1>1 DEF Begin
<1>2. CASE BeginClearEvent
  BY <1>2 DEF BeginClearEvent
<1>3. CASE BeginStartRx
  BY <1>3 DEF BeginStartRx, PhaseInv
<1>4. CASE End
  BY <1>4 DEF End
<1>5. CASE EndMask
  BY <1>5 DEF EndMask
<1>6. CASE EndDisable
  BY <1>6 DEF EndDisable
<1>7. CASE Flush
  BY <1>7 DEF Flush, rxVars
<1>8. CASE ClearSecond
  BY <1>8 DEF ClearSecond, rxVars
<1>9. CASE ReadEmpty \/ ReadValue \/ ReadAdvance \/ Available
  BY <1>9 DEF ReadEmpty, ReadValue, ReadAdvance, Available, rxVars
<1>10. CASE Write \/ WriteClearEvent \/ WriteStart \/ WriteReturn
  BY <1>10 DEF Write, WriteClearEvent, WriteStart, WriteReturn, rxVars
<1>11. CASE IrqEnter
  BY <1>11 DEF IrqEnter
<1>12. CASE IrqStoreChar
  BY <1>12 DEF IrqStoreChar, rxVars
<1>13. CASE RxChar
  BY <1>13 DEF RxChar
<1>14. CASE RxStopped
  BY <1>14 DEF RxStopped
<1>15. CASE TxChar
  BY <1>15 DEF TxChar, rxVars
<1>16. CASE UNCHANGED vars
  BY <1>16 DEF vars, port, rxVars
<1> QED
  BY <1>1, <1>2, <1>3, <1>4, <1>5, <1>6, <1>7, <1>8, <1>9, <1>10, <1>11,
     <1>12, <1>13, <1>14, <1>15, <1>16 DEF Next, Sketch, Irq, Peripheral

\* No character moves: the distances that were kept are enough, and a character
\* that completes comes after every earlier one.
LEMMA OrderStill ==
    ASSUME IInv, IInv', PhaseInv, OrderInv, [Next]_vars,
           ~ClearFirst, ~ReadAdvance, ~IrqStoreChar
    PROVE  OrderInv'
<1> DEFINE k == gap(kept)   k2 == gap(kept')
           f == gap(fresh)  f2 == gap(fresh')
<1>1. Still /\ strict' = strict
  BY StillSteps, DistancesRelax
<1>2. /\ k \in {0, 1} /\ k2 \in {0, 1} /\ k2 <= k
      /\ f \in {0, 1} /\ f2 \in {0, 1} /\ (~RxChar => f2 <= f)
  <2>1. (kept' => kept) /\ (~RxChar => (fresh' => fresh))
    BY DistancesRelax
  <2>2. \A P, Q \in BOOLEAN :
            /\ gap(P) \in {0, 1} /\ gap(Q) \in {0, 1}
            /\ (Q => P) => gap(Q) <= gap(P)
    BY DEF gap
  <2>3. kept \in BOOLEAN /\ kept' \in BOOLEAN
        /\ fresh \in BOOLEAN /\ fresh' \in BOOLEAN
    BY DEF kept, fresh
  <2> QED
    BY <2>1, <2>2, <2>3
<1>3. /\ unread \in Seq(Nat) /\ got \in Seq(Nat) /\ offered \in Seq(Nat)
      /\ rxBuffer \in Nat /\ rxBuffer' \in Nat /\ stale \in Nat
      /\ <<stale>> \in Seq(Nat)
  <2>1. rxBuffer' \in Nat
    BY BoundsAssumption DEF IInv, TypeOK
  <2> QED
    BY <2>1, OrderTypes
<1>a. /\ sorted(got, gap(strict)) /\ sorted(unread, k)
      /\ follows(got, unread, k) /\ follows(<<stale>>, unread, k)
  BY DEF OrderInv
<1> HIDE DEF k, k2, f, f2
<1>4. /\ sorted(got, gap(strict)) /\ sorted(unread, k2)
      /\ follows(got, unread, k2) /\ follows(<<stale>>, unread, k2)
  <2>1. k \in Nat /\ k2 \in Nat /\ k2 <= k
    BY <1>2
  <2>2. /\ \A s \in Seq(Nat) : sorted(s, k) => sorted(s, k2)
        /\ \A s, t \in Seq(Nat) : follows(s, t, k) => follows(s, t, k2)
    BY <2>1, Relax
  <2> QED
    BY <1>3, <1>a, <2>2
<1>5. /\ heard' = rxBuffer' /\ stale + f2 <= rxBuffer'
      /\ below(offered, rxBuffer', f2) /\ below(unread, rxBuffer', f2)
      /\ below(got, rxBuffer', f2)
  <2>1. CASE RxChar
    <3>1. heard' = rxBuffer' /\ rxBuffer' = rxBuffer + 1
      BY <2>1 DEF RxChar, OrderInv
    <3>2. \A s \in Seq(Nat) : below(s, rxBuffer, f) => below(s, rxBuffer', f2)
      <4>1. ASSUME NEW s \in Seq(Nat), below(s, rxBuffer, f)
            PROVE  below(s, rxBuffer', f2)
        <5> SUFFICES ASSUME NEW i \in 1 .. Len(s)
                     PROVE  s[i] + f2 <= rxBuffer'
          BY DEF below
        <5>1. PICK n \in Nat : n = s[i]
          BY <4>1
        <5>2. n + f <= rxBuffer
          BY <4>1, <5>1 DEF below
        <5>3. /\ f \in {0, 1} /\ f2 \in {0, 1} /\ rxBuffer \in Nat
              /\ rxBuffer' = rxBuffer + 1
          BY <1>2, <1>3, <3>1
        <5>4. n + f2 <= rxBuffer'
          BY <5>2, <5>3
        <5> QED
          BY <5>1, <5>4
      <4> QED
        BY <4>1
    <3>3. stale + f2 <= rxBuffer'
      <4>1. stale + f <= rxBuffer
        BY DEF OrderInv, f
      <4> QED
        BY <1>2, <1>3, <3>1, <4>1
    <3> QED
      BY <1>3, <3>1, <3>2, <3>3 DEF OrderInv, f
  <2>2. CASE ~RxChar
    <3>1. heard' = heard /\ rxBuffer' = rxBuffer /\ f2 <= f
      BY <1>2, <2>2, DistancesRelax
    <3>2. stale + f2 <= rxBuffer
      <4>1. stale + f <= rxBuffer
        BY DEF OrderInv, f
      <4> QED
        BY <1>2, <1>3, <3>1, <4>1
    <3> QED
      BY <1>2, <1>3, <3>1, <3>2, Relax DEF OrderInv, f
  <2> QED
    BY <2>1, <2>2
<1> QED
  BY <1>1, <1>4, <1>5 DEF OrderInv, Still, k2, f2

\* clear() leaves no unread character, and none offered comes after rx_buffer.
LEMMA OrderClear ==
    ASSUME IInv, IInv', OrderInv, [Next]_vars, ClearFirst
    PROVE  OrderInv'
<1>1. /\ unread' = <<>> /\ UNCHANGED <<offered, got, heard, rxBuffer>>
      /\ strict' = strict /\ fresh' = fresh
  <2>1. Queue!ClearBegin
    <3>1. pc' \in {"clear_head", "clear_tail"} /\ pc = "clear"
      BY DEF ClearFirst, sketchAt
    <3> QED
      BY <3>1, ClearRefines DEF Queue!ClearEnd
  <2>2. usage' = usage
    BY DEF Next, vars
  <2> QED
    BY <2>1, <2>2 DEF Queue!ClearBegin, ClearFirst, rxVars, strict, fresh
<1>2. gap(fresh) \in {0, 1}
  BY DEF gap
<1>3. stale' + gap(fresh) <= rxBuffer
  <2>1. CASE offered = <<>>
    <3>1. stale' = 0 /\ stale \in Nat /\ stale + gap(fresh) <= rxBuffer
          /\ rxBuffer \in Nat
      BY <2>1, OrderTypes DEF ClearFirst, OrderInv
    <3> QED
      BY <1>2, <3>1
  <2>2. CASE offered # <<>>
    <3>1. Len(offered) \in 1 .. Len(offered)
      BY <2>2, OrderTypes, EmptySeq
    <3> QED
      BY <2>2, <3>1 DEF ClearFirst, OrderInv, below
  <2> QED
    BY <2>1, <2>2
<1>4. \A d, c : /\ below(<<>>, c, d) /\ sorted(<<>>, d)
                /\ \A s : follows(s, <<>>, d)
  BY DEF below, sorted, follows
<1> QED
  BY <1>1, <1>3, <1>4 DEF OrderInv

\* read_char() hands out the oldest unread character.
LEMMA OrderRead ==
    ASSUME IInv, IInv', PhaseInv, OrderInv, [Next]_vars, ReadAdvance
    PROVE  OrderInv'
<1> DEFINE k == gap(kept)  f == gap(fresh)
<1>1. /\ unread # <<>> /\ unread' = Tail(unread)
      /\ got' = Append(got, Head(unread))
      /\ UNCHANGED <<offered, stale, heard, rxBuffer>>
  BY ReadRefines DEF Queue!Read, ReadAdvance, rxVars
<1>2. /\ kept = strict /\ kept' = strict /\ strict' = strict /\ fresh' = fresh
  <2>1. usage' = usage
    BY DEF Next, vars
  <2> QED
    BY <2>1 DEF ReadAdvance, sketchAt, rxVars, kept, fresh, strict
<1>3. k \in Nat /\ f \in Nat
  BY DEF gap
<1>4. /\ unread \in Seq(Nat) /\ got \in Seq(Nat) /\ rxBuffer \in Nat
      /\ <<stale>> \in Seq(Nat)
  BY OrderTypes
<1> HIDE DEF k, f
<1>5. /\ sorted(got, k) /\ sorted(unread, k) /\ follows(got, unread, k)
      /\ follows(<<stale>>, unread, k)
      /\ below(got, rxBuffer, f) /\ below(unread, rxBuffer, f)
  BY <1>2 DEF OrderInv, k, f
<1>6. /\ Tail(unread) \in Seq(Nat) /\ Head(unread) \in Nat
      /\ sorted(Tail(unread), k)
      /\ follows(<<Head(unread)>>, Tail(unread), k)
      /\ below(Tail(unread), rxBuffer, f) /\ Head(unread) + f <= rxBuffer
      /\ follows(got, Tail(unread), k) /\ below(got, Head(unread), k)
      /\ follows(<<stale>>, Tail(unread), k)
  BY <1>1, <1>3, <1>4, <1>5, TailOrdered
<1>7. sorted(got', k) /\ below(got', rxBuffer, f)
  BY <1>1, <1>3, <1>4, <1>5, <1>6, AppendOrdered
<1>8. follows(got', Tail(unread), k)
  <2> SUFFICES ASSUME NEW j \in 1 .. Len(Tail(unread))
               PROVE  below(got', Tail(unread)[j], k)
    BY DEF follows
  <2>1. Tail(unread)[j] \in Nat
    BY <1>6
  <2>2. below(got, Tail(unread)[j], k)
    BY <1>6 DEF follows
  <2>3. Head(unread) + k <= Tail(unread)[j]
    BY <1>6 DEF follows, below
  <2> QED
    BY <1>1, <1>3, <1>4, <1>6, <2>1, <2>2, <2>3, AppendOrdered
<1> QED
  BY <1>1, <1>2, <1>5, <1>6, <1>7, <1>8 DEF OrderInv, k, f

\* store_char() keeps the character or drops it; while the port keeps up, it
\* has not been offered before and comes after every unread one.
LEMMA OrderStore ==
    ASSUME IInv, IInv', PhaseInv, OrderInv, [Next]_vars, IrqStoreChar
    PROVE  OrderInv'
<1> DEFINE k == gap(kept)  f == gap(fresh)
<1>1. /\ unread' \in {unread, Append(unread, rxBuffer)}
      /\ offered' = Append(offered, rxBuffer)
      /\ UNCHANGED <<got, stale, heard, rxBuffer>>
  <2>1. /\ offered' = Append(offered, rxBuffer)
        /\ UNCHANGED <<got, stale, heard, rxBuffer>>
    BY DEF IrqStoreChar, rxVars
  <2>2. PICK c \in 0 .. MaxRx : Queue!Accept(c) \/ Queue!Refuse(c)
    BY StoreRefines
  <2>3. c = rxBuffer
    <3>1. offered' = Append(offered, c)
      BY <2>2 DEF Queue!Accept, Queue!Refuse
    <3>2. c \in Nat /\ offered \in Seq(Nat) /\ rxBuffer \in Nat
      BY OrderTypes, BoundsAssumption
    <3> QED
      <4>1. /\ Append(offered, c)[Len(offered) + 1] = c
            /\ Append(offered, rxBuffer)[Len(offered) + 1] = rxBuffer
        BY <3>2
      <4> QED
        BY <2>1, <3>1, <4>1
  <2> QED
    BY <2>1, <2>2, <2>3 DEF Queue!Accept, Queue!Refuse
<1>2. /\ (kept' => kept) /\ strict' = strict /\ (kept => fresh) /\ ~fresh'
  <2>1. /\ UNCHANGED <<usage, pc, rx, endRx>> /\ isr = "store" /\ isr' = "idle"
    BY DEF Next, vars, IrqStoreChar, rxVars
  <2>2. strict' = strict
    BY <2>1 DEF strict
  <2>3. kept => fresh
    BY <2>1 DEF PhaseInv, kept, fresh
  <2>4. ~fresh'
    BY <2>1, <2>2 DEF PhaseInv, fresh
  <2> QED
    BY <2>1, <2>2, <2>3, <2>4 DEF kept
<1>3. k \in Nat /\ f \in Nat /\ k <= f /\ gap(fresh') = 0 /\ gap(kept') = k
  <2>1. kept' = kept
    BY DEF kept, strict, Next, vars, IrqStoreChar, rxVars
  <2>2. kept \in BOOLEAN /\ fresh \in BOOLEAN
    BY DEF kept, fresh
  <2> QED
    BY <1>2, <2>1, <2>2 DEF gap
<1>4. /\ unread \in Seq(Nat) /\ got \in Seq(Nat) /\ offered \in Seq(Nat)
      /\ rxBuffer \in Nat /\ stale \in Nat /\ <<stale>> \in Seq(Nat)
  BY OrderTypes
<1>5. /\ stale + f <= rxBuffer
      /\ below(offered, rxBuffer, f) /\ below(unread, rxBuffer, f)
      /\ below(got, rxBuffer, f)
      /\ sorted(unread, k) /\ follows(got, unread, k)
      /\ follows(<<stale>>, unread, k)
  BY DEF OrderInv
<1> HIDE DEF k, f
<1>6. \A s \in Seq(Nat) : below(s, rxBuffer, f)
                              => below(s, rxBuffer, k) /\ below(s, rxBuffer, 0)
  <2>1. \A s \in Seq(Nat), c \in Nat : below(s, c, f) => below(s, c, k)
    BY <1>3, Relax
  <2>2. \A s \in Seq(Nat), c \in Nat : below(s, c, f) => below(s, c, 0)
    BY <1>3, Relax
  <2> QED
    BY <1>4, <2>1, <2>2
<1>7. below(offered', rxBuffer, 0)
  BY <1>1, <1>4, <1>5, <1>6, AppendOrdered
<1>8. /\ stale + 0 <= rxBuffer /\ below(<<stale>>, rxBuffer, k)
      /\ below(got, rxBuffer, 0) /\ below(got, rxBuffer, k)
  <2>1. stale + 0 <= rxBuffer /\ stale + k <= rxBuffer
    BY <1>3, <1>4, <1>5
  <2> QED
    <3>1. below(<<stale>>, rxBuffer, k)
      BY <2>1 DEF below
    <3> QED
      BY <1>4, <1>5, <1>6, <2>1, <3>1
<1>9. /\ sorted(unread', k) /\ below(unread', rxBuffer, 0)
      /\ follows(got, unread', k) /\ follows(<<stale>>, unread', k)
  <2>1. CASE unread' = unread
    BY <1>4, <1>5, <1>6, <2>1
  <2>2. CASE unread' = Append(unread, rxBuffer)
    <3>1. below(unread, rxBuffer, 0) /\ below(unread, rxBuffer, k)
      BY <1>4, <1>5, <1>6
    <3>2. sorted(unread', k) /\ below(unread', rxBuffer, 0)
      BY <1>3, <1>4, <1>5, <2>2, <3>1, AppendOrdered
    <3>3. follows(got, unread', k) /\ follows(<<stale>>, unread', k)
      BY <1>3, <1>4, <1>5, <1>8, <2>2, AppendOrdered
    <3> QED
      BY <3>2, <3>3
  <2> QED
    BY <1>1, <2>1, <2>2
<1> QED
  BY <1>1, <1>2, <1>3, <1>7, <1>8, <1>9 DEF OrderInv, k

LEMMA OrderInvStep ==
    IInv /\ IInv' /\ PhaseInv /\ OrderInv /\ [Next]_vars => OrderInv'
  BY OrderStill, OrderClear, OrderRead, OrderStore

LEMMA OrderInvariance == Spec => [](IInv /\ OrderInv)
<1>1. Init => PhaseInv /\ OrderInv
  <2>1. ASSUME Init
        PROVE  unread = <<>>
    <3>1. 0 \in Index
      BY SizeAssumption DEF Index
    <3> QED
      BY <2>1, <3>1, ContentsWhenEmpty DEF Init, unread
  <2> QED
    <3> SUFFICES ASSUME Init
                 PROVE  PhaseInv /\ OrderInv
      OBVIOUS
    <3>1. \A d, c : below(<<>>, c, d) /\ sorted(<<>>, d)
      BY DEF below, sorted
    <3>2. \A d, s : follows(s, <<>>, d)
      BY DEF follows
    <3>3. ~fresh /\ gap(fresh) = 0
      BY DEF Init, fresh, gap
    <3> QED
      <4>1. PhaseInv
        BY DEF Init, PhaseInv
      <4>2. /\ heard = rxBuffer /\ stale + gap(fresh) <= rxBuffer
            /\ offered = <<>> /\ got = <<>> /\ unread = <<>>
        <5>1. unread = <<>>
          BY <2>1
        <5>2. heard = 0 /\ rxBuffer = 0 /\ stale = 0 /\ offered = <<>> /\ got = <<>>
          BY DEF Init
        <5> QED
          BY <3>3, <5>1, <5>2
      <4>3. /\ below(offered, rxBuffer, gap(fresh))
            /\ below(unread, rxBuffer, gap(fresh))
            /\ below(got, rxBuffer, gap(fresh))
            /\ sorted(got, gap(strict)) /\ sorted(unread, gap(kept))
        BY <3>1, <4>2
      <4> QED
        BY <3>2, <4>1, <4>2, <4>3 DEF OrderInv
<1>2. IInv => TypeOK
  BY DEF IInv
<1> QED
  BY Invariance, PhaseStep, OrderInvStep, <1>1, <1>2, PTL DEF Spec

\* read() returns the characters in the order of the line, and none twice when
\* the handler keeps up and the port is opened once (Uart.cpp 91-110).
THEOREM ReadInOrder == Spec => []ReadInLineOrder
<1>1. ASSUME IInv, OrderInv
      PROVE  ReadInLineOrder
  <2> SUFFICES ASSUME NEW i \in 1 .. Len(got) - 1
               PROVE  /\ got[i] <= got[i + 1]
                      /\ strict => got[i] # got[i + 1]
    BY DEF ReadInLineOrder, strict
  <2>1. got \in Seq(Nat) /\ sorted(got, gap(strict))
    BY <1>1, OrderTypes DEF OrderInv
  <2>2. /\ i \in 1 .. Len(got) /\ i + 1 \in 1 .. Len(got) /\ i < i + 1
        /\ got[i] \in Nat /\ got[i + 1] \in Nat
    BY <2>1
  <2>3. got[i] + gap(strict) <= got[i + 1]
    BY <2>1, <2>2 DEF sorted
  <2>4. CASE strict
    BY <2>2, <2>3, <2>4 DEF gap
  <2>5. CASE ~strict
    BY <2>2, <2>3, <2>5 DEF gap
  <2> QED
    BY <2>4, <2>5
<1> QED
  BY OrderInvariance, <1>1, PTL

\* No character that was stored before clear() began is unread after it, when
\* the handler keeps up and the port is opened once (RingBuffer.cpp 43-47).
THEOREM ClearDiscarded == Spec => []ClearDiscards
<1>1. ASSUME IInv, OrderInv
      PROVE  ClearDiscards
  <2> SUFFICES ASSUME strict, pc = "idle", NEW k \in 1 .. Len(unread)
               PROVE  unread[k] > stale
    BY DEF ClearDiscards, strict
  <2>1. gap(kept) = 1
    BY DEF kept, gap
  <2>2. follows(<<stale>>, unread, 1) /\ unread \in Seq(Nat) /\ stale \in Nat
    BY <1>1, <2>1, OrderTypes DEF OrderInv
  <2>3. stale + 1 <= unread[k] /\ unread[k] \in Nat
    BY <2>2 DEF follows, below
  <2> QED
    BY <2>2, <2>3
<1> QED
  BY OrderInvariance, <1>1, PTL
===============================================================================
