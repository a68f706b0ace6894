-------------------------------- MODULE MCUart --------------------------------
(* The serial port on small instances. *)
EXTENDS Uart

\* A handler that keeps up, with a sketch that flushes; a handler that does not,
\* with a sketch that writes and reopens the port; a sketch that writes, also to
\* a port it has not opened or has closed.
MCUsages == {{"flush", "closed"}, {"late", "write", "reopen"}, {"write", "closed"}}
===============================================================================
