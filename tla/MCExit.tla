------------------------------- MODULE MCExit -------------------------------
(* TLC instances of ExitHandlers. *)
EXTENDS ExitHandlers
=============================================================================
