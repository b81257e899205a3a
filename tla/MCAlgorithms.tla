---------------------------- MODULE MCAlgorithms ----------------------------
(* Instance of Algorithms for TLC: short inputs, of the characters that    *)
(* the algorithms tell apart.                                              *)
EXTENDS Algorithms

MCKinds == {"line", "array", "number", "env"}
MCElements ==
  [line |-> {"b", " ", "|", Tab, Quote, Backslash, "next", "pipe"},
   array |-> 0..3,
   number |-> {" ", "-", "0", "1", "2", "9", "f", "x"},
   env |-> [key : {<<>>, <<"T">>, <<"T", "B">>}, val : {<<"1">>, <<"=">>},
            overwrite : BOOLEAN,
            fails : {"none", "environ", "array", "entry"}]]
MCMaxLength == [line |-> 5, array |-> 6, number |-> 5, env |-> 3]
=============================================================================
