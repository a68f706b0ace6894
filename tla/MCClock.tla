------------------------------- MODULE MCClock --------------------------------
(* The clock on small instances: a few cycles per period, a narrow word. *)
EXTENDS Clock
===============================================================================
