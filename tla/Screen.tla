------------------------------- MODULE Screen -------------------------------
(***************************************************************************)
(* The terminal's graphical screen (gui_screen.cpp): a document, a cursor, *)
(* a scroll position, and a painter that copies rows into its view.        *)
(*                                                                         *)
(* Three threads meet here.  The writer, whoever holds screenLock (the     *)
(* output threads, the echo of the input thread), changes the document and *)
(* scrolls; the window's event thread scrolls and resizes without that     *)
(* lock; the painter locks the document row by row.  documentRows caches   *)
(* the number of rows of the document.  It and scrollY have no lock: every *)
(* test and every store is a step of its own.                              *)
(***************************************************************************)
EXTENDS TerminalDocument, FiniteSets

NULL == "none"

CONSTANTS
  Chars,       \* printable characters
  Sizes,       \* sizes of the window, as [columns, rows]
  Scrolls,     \* how far one scroll event goes
  InitialMax,  \* cells of the first view buffer (300 * 80 in the code)
  MaxOps,      \* bound: operations of the writer
  MaxEvents    \* bound: scroll and resize events

ASSUME ScreenAssumption ==
  /\ Sizes \subseteq [columns : Nat \ {0}, rows : Nat \ {0}]
  /\ Scrolls \subseteq Int /\ {InitialMax, MaxOps, MaxEvents} \subseteq Nat
  /\ Chars \cap {NULL, "removed", "scroll", "resized", Newline, Gap} = {}

\* The code doubles the view buffer once, so no window may need more, even if
\* its height is read after another width.
ASSUME ViewAssumption ==
  \A s, t \in Sizes : s.rows * t.columns <= 2 * InitialMax

VARIABLES
  doc,           \* the lines, the newest first
  cursor,        \* x, and y as the offset of the line from the newest one
  size,          \* columns and rows of the canvas
  documentRows,  \* getRowCount when it was last computed
  scrollY,       \* how far the view is moved up from the newest row
  thread,        \* the writer and the event thread: pc, the number it has read
                 \* or computed last, and what it is doing
  upToDate,      \* the token that repaint gives to the painter
  painter,       \* the pass in progress
  view,          \* the view buffer: its size and its rows
  ops, events,   \* bounds
  raced          \* history: since rows were last counted by a thread that was
                 \* alone, one has counted while the other was at work

vars == <<doc, cursor, size, documentRows, scrollY, thread, upToDate, painter,
          view, ops, events, raced>>
work == <<doc, cursor, size, ops, events, raced>>
picture == <<painter, view>>

Threads == {"writer", "event"}
Other(t) == IF t = "writer" THEN "event" ELSE "writer"
Idle == [pc |-> "idle", n |-> 0, doing |-> NULL]

\* The screen after clean() in main (terminal.cpp); nothing is painted yet.
Init ==
  /\ doc = EmptyDocument
  /\ cursor = [x |-> 0, y |-> 0]
  /\ size \in Sizes
  /\ documentRows = RowCount(doc, size.columns)
  /\ scrollY = 0 /\ upToDate = TRUE
  /\ thread = [t \in Threads |-> Idle]
  /\ painter = [pc |-> "columns", size |-> size, start |-> 0, y |-> 0]
  /\ view = [columns |-> 0, rows |-> 0, max |-> InitialMax, cell |-> <<>>]
  /\ ops = 0 /\ events = 0 /\ raced = FALSE

(***************************************************************************)
(* What the writer and the event thread do.  Both end with a repaint, the  *)
(* writer's at the end of its batch.                                       *)
(***************************************************************************)

Free(t) ==
  /\ thread[t].pc = "idle"
  /\ IF t = "writer" THEN ops < MaxOps ELSE events < MaxEvents

\* Thread t starts: it goes to pc with the number n.
Enter(t, what, pc, n) ==
  /\ Free(t)
  /\ thread' = [thread EXCEPT ![t] = [pc |-> pc, n |-> n, doing |-> what]]
  /\ ops' = ops + (IF t = "writer" THEN 1 ELSE 0)
  /\ events' = events + (IF t = "event" THEN 1 ELSE 0)
  /\ raced' = IF what = "scroll"
              THEN raced \/ thread[Other(t)].doing \notin {NULL, "scroll"}
              ELSE thread[Other(t)].pc # "idle"

GoTo(t, pc, n) == thread' = [thread EXCEPT ![t].pc = pc, ![t].n = n]

\* write: the cursor follows what was inserted.
WriteChar(c) ==
  /\ Enter("writer", c, "count", 0)
  /\ doc' = DocInsert(doc, cursor.x, cursor.y, c)
  /\ UNCHANGED <<cursor, size, documentRows, scrollY, upToDate, picture>>

\* remove, and backspace, which first moves the cursor.  Within the line:
\* elsewhere the code leaves the line's buffer.
RemoveChar(back) ==
  LET x == cursor.x - back IN
  /\ Enter("writer", "removed", "count", 0)
  /\ RemoveSafe(doc, x, cursor.y)
  /\ x >= 0
  /\ cursor' = [cursor EXCEPT !.x = x]
  /\ doc' = DocRemove(doc, x, cursor.y)
  /\ UNCHANGED <<size, documentRows, scrollY, upToDate, picture>>

Clean ==
  /\ Enter("writer", "removed", "count", 0)
  /\ doc' = EmptyDocument
  /\ UNCHANGED <<cursor, size, documentRows, scrollY, upToDate, picture>>

\* setCursor goes anywhere; programs stay on the lines of the document.
SetCursor(x, y) ==
  /\ Free("writer") /\ HasLine(doc, y)
  /\ cursor' = [x |-> x, y |-> y]
  /\ ops' = ops + 1
  /\ upToDate' = TRUE
  /\ UNCHANGED <<doc, size, documentRows, scrollY, thread, picture, events,
                 raced>>

\* scroll, by keys and the mouse wheel or by the sequences S and T: what is
\* stored next was loaded now.
Scroll(t, value) ==
  /\ Enter(t, "scroll", "set", scrollY + value)
  /\ UNCHANGED <<doc, cursor, size, documentRows, scrollY, upToDate, picture>>

\* setScrollArea, and setScrollAreaScreen, which goes to 0; only sequences
\* call them.
SetScrollArea(end) ==
  /\ Enter("writer", "scroll", "set", end)
  /\ UNCHANGED <<doc, cursor, size, documentRows, scrollY, upToDate, picture>>

\* setCanvasBounds stores the width and then the height.
Resize(s) ==
  /\ s # size
  /\ Enter("event", "resized", "bounds", s.rows)
  /\ size' = [size EXCEPT !.columns = s.columns]
  /\ UNCHANGED <<doc, cursor, documentRows, scrollY, upToDate, picture>>

ResizeRows ==
  /\ thread["event"].pc = "bounds"
  /\ size' = [size EXCEPT !.rows = thread["event"].n]
  /\ GoTo("event", "count", 0)
  /\ UNCHANGED <<doc, cursor, documentRows, scrollY, upToDate, picture, ops,
                 events, raced>>

\* recalculateView: getRowCount for the present width, then the store.
CountRows(t) ==
  /\ thread[t].pc = "count"
  /\ GoTo(t, "store", RowCount(doc, size.columns))
  /\ UNCHANGED <<work, documentRows, scrollY, upToDate, picture>>

\* Mutant: the count is not stored after a removal.
StoreRowsInserted(t) ==
  /\ thread[t].pc = "store"
  /\ documentRows' = IF thread[t].doing = "removed" THEN documentRows
                     ELSE thread[t].n
  /\ GoTo(t, "view", 0)
  /\ UNCHANGED <<work, scrollY, upToDate, picture>>

StoreRows(t) ==
  /\ thread[t].pc = "store"
  /\ documentRows' = thread[t].n
  /\ GoTo(t, "view", 0)
  /\ UNCHANGED <<work, scrollY, upToDate, picture>>

StoreScroll(t) ==
  /\ thread[t].pc = "set"
  /\ scrollY' = thread[t].n
  /\ GoTo(t, "view", 0)
  /\ UNCHANGED <<work, documentRows, upToDate, picture>>

(***************************************************************************)
(* normalizeScroll                                                         *)
(***************************************************************************)

ViewRows(t) ==
  /\ thread[t].pc = "view"
  /\ GoTo(t, "above", size.rows)
  /\ UNCHANGED <<work, documentRows, scrollY, upToDate, picture>>

\* Mutant: the newest rows may be scrolled out of the view.
NormalizeNoLower(pc, s, total, rows) ==
  CASE pc = "above" -> IF s > total THEN "setAbove" ELSE "fits"
    [] pc = "fits"  -> IF rows < total THEN "high" ELSE "setZero"
    [] pc = "high"  -> IF s > total - rows THEN "setHigh" ELSE "end"
    [] OTHER        -> "end"

\* Its tests, and where each leads.
Tests == {"above", "fits", "high", "low"}
NormalizeTest(pc, s, total, rows) ==
  CASE pc = "above" -> IF s > total THEN "setAbove" ELSE "fits"
    [] pc = "fits"  -> IF rows < total THEN "high" ELSE "setZero"
    [] pc = "high"  -> IF s > total - rows THEN "setHigh" ELSE "low"
    [] OTHER        -> IF s < 1 - rows THEN "setLow" ELSE "end"

\* Its stores.
Stores == {"setAbove", "setZero", "setHigh", "setLow"}
NormalizeStore(pc, total, rows) ==
  CASE pc = "setAbove" -> total
    [] pc = "setZero"  -> 0
    [] pc = "setHigh"  -> total - rows
    [] OTHER           -> 1 - rows

NormalizeTests(t) ==
  /\ thread[t].pc \in Tests
  /\ GoTo(t, NormalizeTest(thread[t].pc, scrollY, documentRows, thread[t].n),
          thread[t].n)
  /\ UNCHANGED <<work, documentRows, scrollY, upToDate, picture>>

NormalizeStores(t) ==
  /\ thread[t].pc \in Stores
  /\ scrollY' = NormalizeStore(thread[t].pc, documentRows, thread[t].n)
  /\ GoTo(t, IF thread[t].pc = "setAbove" THEN "fits" ELSE "end", thread[t].n)
  /\ UNCHANGED <<work, documentRows, upToDate, picture>>

\* The new cursor of write, and the repaint.
Leave(t) ==
  /\ thread[t].pc = "end"
  /\ cursor' = CASE thread[t].doing = Newline -> [cursor EXCEPT !.x = 0]
                 [] thread[t].doing \in Chars -> [cursor EXCEPT !.x = @ + 1]
                 [] OTHER                     -> cursor
  /\ thread' = [thread EXCEPT ![t] = Idle]
  /\ upToDate' = TRUE
  /\ UNCHANGED <<doc, size, documentRows, scrollY, picture, ops, events, raced>>

(***************************************************************************)
(* The painter                                                             *)
(***************************************************************************)

Blank(columns) == [x \in 1..columns |-> Gap]
Padded(row, columns) ==
  [x \in 1..columns |-> IF x <= Len(row) THEN row[x] ELSE Gap]

\* Mutant: the buffer never grows.
ValidViewNoGrowth(v, s) ==
  IF v.columns = s.columns /\ v.rows = s.rows THEN v
  ELSE [columns |-> s.columns, rows |-> s.rows, max |-> v.max,
        cell |-> [y \in 1..s.rows |-> Blank(s.columns)]]

\* A view buffer of another size is cleared, and doubled if it is too small.
ValidView(v, s) ==
  IF v.columns = s.columns /\ v.rows = s.rows THEN v
  ELSE [columns |-> s.columns, rows |-> s.rows,
        max |-> IF s.rows * s.columns > v.max THEN 2 * v.max ELSE v.max,
        cell |-> [y \in 1..s.rows |-> Blank(s.columns)]]

\* The offset of the row above the first one shown.
RenderStart(total, rows, s) == IF total < rows THEN total ELSE rows + s

\* getColumns and getRows, each for itself; the buffer is checked for both.
PaintColumns ==
  /\ painter.pc = "columns"
  /\ painter' = [painter EXCEPT !.pc = "lines", !.size.columns = size.columns]
  /\ UNCHANGED <<work, documentRows, scrollY, thread, upToDate, view>>

PaintLines ==
  /\ painter.pc = "lines"
  /\ LET s == [painter.size EXCEPT !.rows = size.rows]
     IN  /\ painter' = [painter EXCEPT !.pc = "place", !.size = s]
         /\ view' = ValidView(view, s)
  /\ UNCHANGED <<work, documentRows, scrollY, thread, upToDate>>

\* Whether the document is shorter than the view, and then where to start: at
\* documentRows, read once more, or by the scroll position.
PaintPlace ==
  /\ painter.pc = "place"
  /\ painter' = [painter EXCEPT
       !.pc = IF documentRows < painter.size.rows THEN "short" ELSE "scrolled"]
  /\ UNCHANGED <<work, documentRows, scrollY, thread, upToDate, view>>

PaintStart ==
  /\ painter.pc \in {"short", "scrolled"}
  /\ painter' = [painter EXCEPT
       !.pc = "rows", !.y = 0,
       !.start = IF painter.pc = "short" THEN documentRows
                 ELSE painter.size.rows + scrollY]
  /\ UNCHANGED <<work, documentRows, scrollY, thread, upToDate, view>>

PaintRow ==
  /\ painter.pc = "rows"
  /\ LET y == painter.y
         columns == painter.size.columns
         row == AcquireRow(doc, painter.start - y - 1, columns)
     IN /\ view' = [view EXCEPT !.cell[y + 1] = Padded(row, columns)]
        /\ painter' = [painter EXCEPT
             !.y = y + 1,
             !.pc = IF y + 1 = painter.size.rows THEN "wait" ELSE "rows"]
  /\ UNCHANGED <<work, documentRows, scrollY, thread, upToDate>>

\* Wait for the next repaint.
PaintWait ==
  /\ painter.pc = "wait" /\ upToDate
  /\ upToDate' = FALSE
  /\ painter' = [pc |-> "columns", size |-> painter.size, start |-> 0, y |-> 0]
  /\ UNCHANGED <<work, documentRows, scrollY, thread, view>>

Writer ==
  \/ \E c \in Chars \cup {Newline} : WriteChar(c)
  \/ \E b \in {0, 1} : RemoveChar(b)
  \/ \E x \in 0..1, y \in 0..MaxOps : SetCursor(x, y)
  \/ Clean
  \/ \E v \in {0} \cup (Scrolls \cap Nat) : SetScrollArea(v)

Section(t) ==
  \/ \E v \in Scrolls : Scroll(t, v)
  \/ CountRows(t) \/ StoreRows(t) \/ StoreScroll(t)
  \/ ViewRows(t) \/ NormalizeTests(t) \/ NormalizeStores(t)
  \/ Leave(t)

Painter ==
  PaintColumns \/ PaintLines \/ PaintPlace \/ PaintStart \/ PaintRow \/ PaintWait

Next ==
  \/ Writer
  \/ \E s \in Sizes : Resize(s)
  \/ ResizeRows
  \/ \E t \in Threads : Section(t)
  \/ Painter

Spec == Init /\ [][Next]_vars

(***************************************************************************)
(* Properties                                                              *)
(***************************************************************************)

Quiet == \A t \in Threads : thread[t].pc = "idle"
Total == Len(AllRows(doc, size.columns))

\* Whenever no operation is in progress, the cached number of rows is that of
\* the document at its present width (recalculateView after every change of
\* the document and of the window).  A thread that counts while the other is
\* at work may store an old count; the next that counts alone sets it right.
RowsCurrent == Quiet /\ ~raced => documentRows = Total

\* The user cannot lose sight of the document: some row of it is in the view,
\* and all rows are when they fit, although both threads scroll without a lock
\* (scroll, normalizeScroll).  The exception is the same.
ScrollSound ==
  Quiet /\ ~raced =>
    LET start == RenderStart(documentRows, size.rows, scrollY)
        seen == {y \in 0..(size.rows - 1) :
                   start - y - 1 \in 0..(Total - 1)}
    IN /\ seen # {}
       /\ Total <= size.rows => Cardinality(seen) = Total

\* When the painter has nothing left to do, its view shows the rows of the
\* document that the cached count and the scroll position call for, although
\* the painter reads everything without a lock and the document may have
\* changed between the rows of a pass (acquireRow, paint, repaint).
ViewCurrent ==
  Quiet /\ painter.pc = "wait" /\ ~upToDate =>
    LET rows == AllRows(doc, size.columns)
        start == RenderStart(documentRows, size.rows, scrollY)
    IN view.cell = [y \in 1..size.rows |->
         IF start - y \in 0..(Total - 1)
         THEN Padded(rows[Total - (start - y)], size.columns)
         ELSE Blank(size.columns)]

\* The painter never writes behind its view buffer (the check of the
\* buffer's size in paint).
ViewFits ==
  painter.pc = "rows" => view.rows * view.columns <= view.max
==============================================================================
