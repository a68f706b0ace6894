------------------------------- MODULE MCFlash --------------------------------
(* Persistent storage on small instances. *)
EXTENDS Flash
===============================================================================
