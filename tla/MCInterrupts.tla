---------------------------- MODULE MCInterrupts ----------------------------
(* Instances of Interrupts for TLC. *)
EXTENDS Interrupts
=============================================================================
