------------------------------- MODULE MCGpiote -------------------------------
(* External interrupts on small instances. *)
EXTENDS Gpiote

\* As intended; and with callbacks that call back.
MCUsages == {{}, {"attach", "detach"}}

\* A pin may be attached while it is attached.
MCTwice == {{"reattach"}}
===============================================================================
