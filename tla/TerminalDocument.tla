-------------------------- MODULE TerminalDocument --------------------------
(***************************************************************************)
(* The terminal's document (terminal_document.cpp, terminal_line.cpp): a   *)
(* sequence of lines, the newest first, each a sequence of characters.     *)
(* Positions count from 0, and a line is named by its offset from the      *)
(* newest one.  Gap is the byte 0 that fills a line up to the place where  *)
(* something is inserted.                                                  *)
(***************************************************************************)
EXTENDS Integers, Sequences, SequencesExt

Gap == "gap"
Newline == "nl"
EmptyDocument == << <<>> >>

HasLine(doc, offset) == offset \in 0..(Len(doc) - 1)

(***************************************************************************)
(* Changing the document                                                   *)
(***************************************************************************)

\* terminal_line_t::insert replaces a character or appends one.
LineInsert(line, x, c) ==
  IF x < Len(line)
  THEN [line EXCEPT ![x + 1] = c]
  ELSE line \o [i \in 1..(x - Len(line)) |-> Gap] \o <<c>>

LineRemove(line, x) == IF line = <<>> THEN line ELSE RemoveAt(line, x + 1)

\* terminal_document_t::insert; a newline goes behind the line it is
\* written to, whatever the column, and a line that is not there is ignored.
DocInsert(doc, x, offset, c) ==
  IF ~HasLine(doc, offset) THEN doc
  ELSE IF c = Newline THEN InsertAt(doc, offset + 1, <<>>)
  ELSE [doc EXCEPT ![offset + 1] = LineInsert(@, x, c)]

DocRemove(doc, x, offset) ==
  IF ~HasLine(doc, offset) THEN doc
  ELSE [doc EXCEPT ![offset + 1] = LineRemove(@, x)]

\* Whether these touch only bytes of the line: insert needs a column that
\* is not negative, remove a column within the line (or an empty line).
InsertSafe(doc, x, offset, c) ==
  HasLine(doc, offset) /\ c # Newline => x >= 0
RemoveSafe(doc, x, offset) ==
  HasLine(doc, offset) =>
    LET n == Len(doc[offset + 1]) IN n = 0 \/ x \in 0..(n - 1)

(***************************************************************************)
(* Rows: lines broken at the width of the screen                           *)
(***************************************************************************)

LineRows(length, columns) ==
  length \div columns + (IF length # 0 /\ length % columns = 0 THEN 0 ELSE 1)

\* terminal_document_t::getRowCount
RowCount(doc, columns) ==
  LET upTo[n \in 0..Len(doc)] ==
        IF n = 0 THEN 0 ELSE upTo[n - 1] + LineRows(Len(doc[n]), columns)
  IN IF columns = 0 THEN 0 ELSE upTo[Len(doc)]

\* Mutant: a full row is not told from a part of one.
StepUpNoFullRow(doc, columns, w) ==
  LET rem == IF w.rem = 0 THEN Len(doc[w.line]) ELSE w.rem
  IN IF rem > columns
     THEN [w EXCEPT !.rem = rem - (rem % columns)]
     ELSE [line |-> w.line + 1,
           rem |-> IF w.line < Len(doc) THEN Len(doc[w.line + 1]) ELSE rem]

\* One turn of the loop of acquireRow: from a row to the one above it.  A
\* row is the part of its line that ends at rem.
StepUp(doc, columns, w) ==
  LET rem == IF w.rem = 0 THEN Len(doc[w.line]) ELSE w.rem
  IN IF rem > columns
     THEN [w EXCEPT !.rem = rem - (IF rem % columns = 0
                                   THEN columns ELSE rem % columns)]
     ELSE [line |-> w.line + 1,
           rem |-> IF w.line < Len(doc) THEN Len(doc[w.line + 1]) ELSE rem]

\* terminal_document_t::acquireRow: the row with the given offset from the
\* newest, empty when there is none; a negative offset runs off the top.
AcquireRow(doc, offset, columns) ==
  LET Walk[n \in 0..offset] ==
        IF n = 0 THEN [line |-> 1, rem |-> Len(doc[1])]
        ELSE IF Walk[n - 1].line > Len(doc) THEN Walk[n - 1]
        ELSE StepUp(doc, columns, Walk[n - 1])
      w == Walk[offset]
      length == IF w.rem % columns = 0 THEN columns ELSE w.rem % columns
  IN IF offset < 0 \/ w.line > Len(doc) \/ w.rem = 0 THEN <<>>
     ELSE SubSeq(doc[w.line], w.rem - length + 1, w.rem)

(***************************************************************************)
(* Reference: the rows of a document, the oldest first                     *)
(***************************************************************************)

Wrap(line, columns) ==
  LET rows == IF line = <<>> THEN 1
              ELSE (Len(line) + columns - 1) \div columns
      end(i) == IF i * columns < Len(line) THEN i * columns ELSE Len(line)
  IN [i \in 1..rows |-> SubSeq(line, (i - 1) * columns + 1, end(i))]

AllRows(doc, columns) ==
  LET upTo[n \in 0..Len(doc)] ==
        IF n = 0 THEN <<>> ELSE Wrap(doc[n], columns) \o upTo[n - 1]
  IN upTo[Len(doc)]
==============================================================================
