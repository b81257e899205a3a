---------------------------- MODULE MCOpenFiles ----------------------------
(* TLC instances of OpenFiles. *)
EXTENDS OpenFiles
=============================================================================
