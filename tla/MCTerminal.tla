----------------------------- MODULE MCTerminal -----------------------------
(* TLC instances of Terminal. *)
EXTENDS Terminal
=============================================================================
