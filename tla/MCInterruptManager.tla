------------------------- MODULE MCInterruptManager -------------------------
(* Instance of InterruptManager for TLC: the timer, one line of the master *)
(* and the first of the slave.                                             *)
EXTENDS InterruptManager
=============================================================================
