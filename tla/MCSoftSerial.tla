----------------------------- MODULE MCSoftSerial -----------------------------
(* Software serial ports on small instances. *)
EXTENDS SoftSerial

\* The ports alone, sending and receiving at a time; with other pins, whose
\* functions do not call back.
MCUsages == {{"duplex"}, {"others"}}
===============================================================================
