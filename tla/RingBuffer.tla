------------------------------ MODULE RingBuffer ------------------------------
(***************************************************************************)
(* The ring buffer of cores/arduino/RingBuffer.cpp as operators on its     *)
(* three fields: the array _aucBuffer, the index _iHead the producer       *)
(* writes next and the index _iTail the consumer reads next.  One slot is  *)
(* always free, so that _iHead = _iTail means "empty".                     *)
(***************************************************************************)
EXTENDS Integers, Sequences

CONSTANT SERIAL_BUFFER_SIZE   \* 64 in the code

ASSUME SizeAssumption == SERIAL_BUFFER_SIZE \in Nat \ {0, 1}

Index == 0 .. SERIAL_BUFFER_SIZE - 1

\* How many characters the buffer can hold.
Capacity == SERIAL_BUFFER_SIZE - 1

nextIndex(i) == (i + 1) % SERIAL_BUFFER_SIZE

isEmpty(head, tail) == tail = head

\* Mutant of isFull: the buffer counts as full one character too early.
isFullOneEarly(head, tail) ==
    nextIndex(nextIndex(head)) = tail \/ nextIndex(head) = tail

isFull(head, tail) == nextIndex(head) = tail

available(head, tail) ==
    LET delta == head - tail
    IN  IF delta < 0 THEN SERIAL_BUFFER_SIZE + delta ELSE delta

\* The array after store_char(c): a full buffer ignores c.
storeIn(buf, head, tail, c) ==
    IF isFull(head, tail) THEN buf ELSE [buf EXCEPT ![head] = c]

\* Mutant of storeHead: a full buffer is overwritten.
storeHeadOverwriting(head, tail) == nextIndex(head)

\* The head after store_char(c).
storeHead(head, tail) == IF isFull(head, tail) THEN head ELSE nextIndex(head)

\* The slot of the k-th unread character, k = 1 being the oldest.
slot(tail, k) ==
    IF tail + k - 1 < SERIAL_BUFFER_SIZE
    THEN tail + k - 1
    ELSE tail + k - 1 - SERIAL_BUFFER_SIZE

\* The unread characters, oldest first.
contents(buf, head, tail) ==
    [k \in 1 .. available(head, tail) |-> buf[slot(tail, k)]]
===============================================================================
