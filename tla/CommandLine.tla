---------------------------- MODULE CommandLine -----------------------------
(***************************************************************************)
(* From a line typed into gsh to the argv of a program: gsh's parser       *)
(* (parser.cpp), the argument string it hands to g_spawn (gosh.cpp) and    *)
(* parseargs, with which the C library of the new process takes that       *)
(* string apart (parseargs.c).  Text is a sequence of characters.          *)
(***************************************************************************)
EXTENDS Integers, Sequences, SequencesExt

Tab == "tab"
Backslash == "backslash"
Quote == "quote"
Separator == "us"          \* G_CLIARGS_SEPARATOR
IsSpace(c) == c \in {" ", Tab}

(***************************************************************************)
(* parser_t, as what each character does to what was read so far           *)
(***************************************************************************)

NewParser == [at |-> "start", calls |-> <<>>, program |-> <<>>,
              arguments |-> <<>>, arg |-> <<>>, instr |-> FALSE,
              escaped |-> FALSE]

EndArgument(p) ==
  [p EXCEPT !.arguments = Append(@, p.arg), !.arg = <<>>,
            !.instr = FALSE, !.escaped = FALSE]
EndCall(p) ==
  [p EXCEPT !.at = "start", !.program = <<>>, !.arguments = <<>>,
            !.calls = Append(@, [program |-> p.program,
                                 arguments |-> p.arguments])]

\* Mutant: an escaped quotation mark ends the string.
ArgumentCharQuoteEnds(p, c) ==
  IF ~p.escaped /\ c = Backslash THEN [p EXCEPT !.escaped = TRUE]
  ELSE IF c = Quote THEN [p EXCEPT !.instr = ~@, !.escaped = FALSE]
  ELSE IF ~p.escaped /\ ~p.instr /\ c = "|" THEN EndCall(EndArgument(p))
  ELSE IF ~p.escaped /\ ~p.instr /\ c = " "
       THEN [EndArgument(p) EXCEPT !.at = "between"]
  ELSE [p EXCEPT !.arg = Append(@, c), !.escaped = FALSE]

\* parser_t::argument; only a blank ends an argument, a tab does not.
ArgumentChar(p, c) ==
  IF ~p.escaped /\ c = Backslash THEN [p EXCEPT !.escaped = TRUE]
  ELSE IF ~p.escaped /\ c = Quote THEN [p EXCEPT !.instr = ~@]
  ELSE IF ~p.escaped /\ ~p.instr /\ c = "|" THEN EndCall(EndArgument(p))
  ELSE IF ~p.escaped /\ ~p.instr /\ c = " "
       THEN [EndArgument(p) EXCEPT !.at = "between"]
  ELSE [p EXCEPT !.arg = Append(@, c), !.escaped = FALSE]

\* parser_t::pipe_expression and program_call
ParseChar(p, c) ==
  CASE p.at = "start" ->
         IF IsSpace(c) THEN p
         ELSE IF c = "|" THEN [p EXCEPT !.at = "error"]
         ELSE [p EXCEPT !.at = "program", !.program = <<c>>]
    [] p.at = "program" ->
         IF IsSpace(c) THEN [p EXCEPT !.at = "between"]
         ELSE IF c = "|" THEN EndCall(p)
         ELSE [p EXCEPT !.program = Append(@, c)]
    [] p.at = "between" ->
         IF IsSpace(c) THEN p
         ELSE IF c = "|" THEN EndCall(p)
         ELSE ArgumentChar([p EXCEPT !.at = "argument"], c)
    [] p.at = "argument" -> ArgumentChar(p, c)
    [] p.at = "error" -> p

\* At the end of the input: nothing behind a pipe is an error, a string
\* that is not closed is none.
ParseEnd(p) ==
  CASE p.at = "argument" -> EndCall(EndArgument(p)).calls
    [] p.at \in {"program", "between"} -> EndCall(p).calls
    [] p.at \in {"start", "error"} -> <<>>

PipeExpression(line) == ParseEnd(FoldLeft(ParseChar, NewParser, line))

(***************************************************************************)
(* gshProcessExpression: the argument string                               *)
(***************************************************************************)

JoinArguments(arguments) ==
  FoldLeft(LAMBDA s, i : s \o (IF i = 1 THEN <<>> ELSE <<Separator>>)
                           \o arguments[i],
           <<>>, [i \in 1..Len(arguments) |-> i])

(***************************************************************************)
(* parseargs                                                               *)
(***************************************************************************)

\* The places where an argument begins: an empty one at the end of the
\* string is not found.
ArgumentBegins(s) ==
  {i \in 1..Len(s) : i = 1 \/ s[i - 1] = Separator}
RawArgument(s, i) ==
  LET ends == {j \in i..Len(s) : s[j] = Separator}
  IN SubSeq(s, i, IF ends = {} THEN Len(s)
                  ELSE (CHOOSE j \in ends : \A k \in ends : j <= k) - 1)

\* Mutant: a backslash does not protect the character behind it.
CleanUpCharUnprotected(a, c) ==
  IF c \in {Backslash, Quote} THEN a ELSE [a EXCEPT !.text = Append(@, c)]

\* The clean up loop: quotation marks go, and the first of two backslashes.
CleanUpChar(a, c) ==
  IF ~a.esc /\ c = Backslash THEN [a EXCEPT !.esc = TRUE]
  ELSE IF ~a.esc /\ c = Quote THEN a
  ELSE [text |-> Append(a.text, c), esc |-> FALSE]
CleanUp(arg) ==
  FoldLeft(CleanUpChar, [text |-> <<>>, esc |-> FALSE], arg).text

\* argv behind the name of the executable.
ParseArgs(s) ==
  LET begins == SetToSortSeq(ArgumentBegins(s), LAMBDA i, j : i < j)
  IN [k \in 1..Len(begins) |-> CleanUp(RawArgument(s, begins[k]))]
=============================================================================
