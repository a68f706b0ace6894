----------------------------- MODULE SerialQueue ------------------------------
(***************************************************************************)
(* What the receive side of a serial port promises to the sketch: a        *)
(* bounded first-in first-out queue of characters.  A character that is    *)
(* offered is refused only when the queue is full or while it is being     *)
(* emptied, and nothing that was queued when the emptying began comes back.*)
(***************************************************************************)
EXTENDS Naturals, Sequences

CONSTANTS Char,        \* the characters of the line
          Capacity     \* how many of them the queue holds

VARIABLES offered,     \* every character offered to the queue, in order
          queue,       \* accepted and not read yet, oldest first
          got,         \* what the sketch has read so far
          clearing     \* the queue is being emptied

vars == <<offered, queue, got, clearing>>

Init == offered = <<>> /\ queue = <<>> /\ got = <<>> /\ clearing = FALSE

Accept(c) == /\ Len(queue) < Capacity
             /\ offered' = Append(offered, c)
             /\ queue' = Append(queue, c)
             /\ UNCHANGED <<got, clearing>>

Refuse(c) == /\ Len(queue) = Capacity \/ clearing
             /\ offered' = Append(offered, c)
             /\ UNCHANGED <<queue, got, clearing>>

Read == /\ queue # <<>>
        /\ ~clearing
        /\ got' = Append(got, Head(queue))
        /\ queue' = Tail(queue)
        /\ UNCHANGED <<offered, clearing>>

ClearBegin == /\ ~clearing
              /\ clearing' = TRUE
              /\ queue' = <<>>
              /\ UNCHANGED <<offered, got>>

ClearEnd == /\ clearing
            /\ clearing' = FALSE
            /\ UNCHANGED <<offered, queue, got>>

Next == \/ \E c \in Char : Accept(c) \/ Refuse(c)
        \/ Read
        \/ ClearBegin
        \/ ClearEnd

Spec == Init /\ [][Next]_vars
===============================================================================
