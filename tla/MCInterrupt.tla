---------------------------- MODULE MCInterrupt ----------------------------
(* Instances of Interrupt.                                                 *)
EXTENDS Interrupt
=============================================================================
