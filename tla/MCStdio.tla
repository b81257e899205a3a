------------------------------ MODULE MCStdio ------------------------------
(* TLC instances of StdioStream. *)
EXTENDS StdioStream
=============================================================================
