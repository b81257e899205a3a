--------------------------- MODULE TerminalStream ---------------------------
(***************************************************************************)
(* The terminal's reading of a program's output (terminalProcessOutput and *)
(* the sequences of terminal.cpp): one character at a time, the state of a *)
(* sequence kept between characters, so a sequence may arrive in pieces.   *)
(*                                                                         *)
(* A terminal is a record of the parser's status, the document, the cursor *)
(* and the input mode.  Colours and the scroll position, which no other    *)
(* part of the record depends on, are left out.                            *)
(***************************************************************************)
EXTENDS TerminalDocument

CONSTANT Ignored    \* characters that the screen refuses: not printable ASCII

ASSUME IgnoredAssumption == Ignored \cap {Newline, " ", "p", ">", "put"} = {}

ESC == "esc"
Tab == "tab"
Return == "cr"
MaxParameters == 4        \* TERMINAL_STREAM_CONTROL_MAX_PARAMETERS
Digit == <<"0", "1", "2", "3", "4", "5", "6", "7", "8", "9">>
Digits == {Digit[i] : i \in 1..10}
DigitValue(c) == (CHOOSE i \in 1..10 : Digit[i] = c) - 1

\* %d
Decimal(n) ==
  LET m == IF n < 0 THEN -n ELSE n
      digits[k \in 0..m] ==
        IF k < 10 THEN <<Digit[k + 1]>>
        ELSE Append(digits[k \div 10], Digit[(k % 10) + 1])
  IN (IF n < 0 THEN <<"-">> ELSE <<>>) \o digits[m]

NoParameters == [i \in 1..MaxParameters |-> 0]

\* A new stream: the parameters have no initial value.
NewTerminal(parameters) ==
  [status |-> "text", count |-> 0, parameters |-> parameters,
   doc |-> EmptyDocument, x |-> 0, y |-> 0, mode |-> 0, echo |-> TRUE,
   stray |-> FALSE]

(***************************************************************************)
(* The screen                                                              *)
(***************************************************************************)

\* gui_screen_t::write, which returns at once for some characters
\* (charIsUtf8); stray records an access outside of the line.
ScreenWrite(t, c) ==
  IF c \in Ignored THEN t
  ELSE [t EXCEPT !.doc = DocInsert(@, t.x, t.y, c),
                 !.stray = @ \/ ~InsertSafe(t.doc, t.x, t.y, c),
                 !.x = IF c = Newline THEN 0 ELSE @ + 1]

ScreenRemove(t) ==
  IF RemoveSafe(t.doc, t.x, t.y)
  THEN [t EXCEPT !.doc = DocRemove(@, t.x, t.y)]
  ELSE [t EXCEPT !.stray = TRUE]

(***************************************************************************)
(* Sequences                                                               *)
(***************************************************************************)

\* Mutant: the rows and columns of a reposition are exchanged.
SequenceVt100Swapped(t, c) ==
  LET p == t.parameters IN
  CASE c = "f" -> [t EXCEPT !.x = p[1], !.y = p[2]]
    [] c = "D" -> [t EXCEPT !.x = @ - p[1]]
    [] c = "C" -> [t EXCEPT !.x = @ + p[1]]
    [] OTHER -> t

\* terminalProcessSequenceVt100
SequenceVt100(t, c) ==
  LET p == t.parameters IN
  CASE c = "A" -> [t EXCEPT !.y = @ - p[1]]
    [] c = "B" -> [t EXCEPT !.y = @ + p[1]]
    [] c = "C" -> [t EXCEPT !.x = @ + p[1]]
    [] c = "D" -> [t EXCEPT !.x = @ - p[1]]
    [] c = "J" /\ t.count = 1 /\ p[1] = 2 ->
         [t EXCEPT !.doc = EmptyDocument]
    [] c = "f" -> [t EXCEPT !.x = p[2], !.y = p[1]]
    [] OTHER -> t

\* terminalProcessSequenceGhostterm; "put" stands for the character whose
\* code is the parameter.
SequenceGhostterm(t, c) ==
  CASE c = "m" -> [t EXCEPT !.mode = t.parameters[1]]
    [] c = "e" -> [t EXCEPT !.echo = (t.parameters[1] = 1)]
    [] c = "p" -> ScreenWrite(t, "put")
    [] c = "x" -> ScreenRemove(t)
    [] OTHER -> t

\* Mutant: the parameters are not reset after a sequence.
EndSequenceKeeps(t) == [t EXCEPT !.status = "text", !.count = 0]

EndSequence(t) ==
  [t EXCEPT !.status = "text", !.count = 0, !.parameters = NoParameters]

\* terminalProcessOutput within a sequence.
SequenceChar(t, c) ==
  IF c \in Digits
  THEN LET n == IF t.count = 0 THEN 1 ELSE t.count
       IN IF n > MaxParameters THEN t
          ELSE [t EXCEPT !.count = n,
                         !.parameters[n] = @ * 10 + DigitValue(c)]
  ELSE IF c = ";" THEN [t EXCEPT !.count = @ + 1]
  ELSE EndSequence(IF t.status = "vt100" THEN SequenceVt100(t, c)
                   ELSE SequenceGhostterm(t, c))

\* terminalProcessOutput
ProcessOutput(t, c) ==
  CASE t.status = "text" /\ c = Return -> t
    [] t.status = "text" /\ c = Tab ->
         FoldLeft(ScreenWrite, t, <<" ", " ", " ", " ">>)
    [] t.status = "text" /\ c = ESC -> [t EXCEPT !.status = "escape"]
    [] t.status = "text" /\ c \notin {Return, Tab, ESC} -> ScreenWrite(t, c)
    [] t.status = "escape" ->
         [t EXCEPT !.status = CASE c = "[" -> "vt100"
                                [] c = "{" -> "ghostterm"
                                [] OTHER -> "text"]
    [] t.status \in {"vt100", "ghostterm"} -> SequenceChar(t, c)

\* What the terminal answers to the program when it reads c: the cursor's
\* position, or the size of the screen.
Answer(t, c, columns, rows) ==
  CASE t.status = "vt100" /\ c = "n" /\ t.parameters[1] = 6 ->
         <<ESC, "[">> \o Decimal(t.y) \o <<";">> \o Decimal(t.x) \o <<"R">>
    [] t.status = "ghostterm" /\ c = "i" ->
         <<ESC, "{">> \o Decimal(columns) \o <<";">> \o Decimal(rows)
           \o <<"i">>
    [] OTHER -> <<>>
==============================================================================
