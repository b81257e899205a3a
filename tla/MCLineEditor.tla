---------------------------- MODULE MCLineEditor ----------------------------
(* Instance of LineEditor for TLC: "a" has one completion, and so has the  *)
(* empty word; "ab" has none.                                              *)
EXTENDS LineEditor

MCCompletions(word) ==
  IF word \in {<<>>, <<"a">>} THEN {<<"a", "b">>} ELSE {}
=============================================================================
