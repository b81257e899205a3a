------------------------------ MODULE MCScreen ------------------------------
(* Instance of Screen for TLC: a few small windows.                        *)
EXTENDS Screen

MCScrolls == {-2, 1}
MCSizes == {[columns |-> 2, rows |-> 1], [columns |-> 1, rows |-> 2]}
==============================================================================
