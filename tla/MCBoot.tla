------------------------------- MODULE MCBoot -------------------------------
(* TLC instances of Boot. *)
EXTENDS Boot

\* RAM as power-up or a completed boot leaves it
BootedMarks == {"clear", "fin_init", "passed"}
ClearMarks == {"clear"}
=============================================================================
