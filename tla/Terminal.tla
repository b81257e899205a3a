------------------------------ MODULE Terminal ------------------------------
(***************************************************************************)
(* The threads of the terminal (applications/terminal/src/terminal.cpp and *)
(* screen/gui/gui_screen.cpp) and the shell at the other end of its pipes: *)
(* the window's event thread queues keys; the input thread takes them,     *)
(* edits a line, echoes and writes to the shell; an output thread for each *)
(* of stdout and stderr reads what programs print and changes the screen   *)
(* or the input mode; the paint thread draws when it is woken.  Mutexes    *)
(* serve as locks (screenLock) and as binary semaphores that one thread    *)
(* acquires and another releases (inputBufferEmpty, upToDate).             *)
(*                                                                         *)
(* Characters are abstract, an escape sequence is one item of output, and  *)
(* of the screen it matters only whether it has changed since it was drawn.*)
(* What goes to the shell goes byte by byte: a pipe that is nearly full     *)
(* takes a part of a write.                                                *)
(***************************************************************************)
EXTENDS Naturals, Sequences

CONSTANTS
  Chars,     \* the characters keys stand for
  Outs,      \* the output streams of the shell
  PipeSize,  \* bound: the bytes or items a pipe holds before writers wait
  MaxEvents  \* bound: keys pressed, items printed and the end of the shell

ASSUME TerminalAssumption ==
  /\ PipeSize \in Nat \ {0} /\ MaxEvents \in Nat
  /\ Chars \cap {"ENTER", "BACKSPACE", "ARROW", "ESC", "SUB", "HIGH", "NEWLINE",
                 "CSI", "R"} = {}

TermKeys == {"ENTER", "BACKSPACE", "ARROW"}
Keys == Chars \cup TermKeys \cup {"ESC"}

\* A terminal key is three bytes; the answer to a query is the start of a
\* sequence, numbers that play no part here, and the letter that ends it.
TermKeyBytes(k) == <<"SUB", k, "HIGH">>
Answer == <<"CSI", "R">>
AnswerBytes == {"CSI", "R"}

\* What programs print: text and the sequences that change the screen, a query
\* (of the cursor or the size), and the sequences for input mode and echo.  No
\* program here asks for a mode but these two.
Items == {"text", "query", "raw", "line", "quiet", "echo"}

VARIABLES
  queue,       \* inputBuffer
  keyToken,    \* inputBufferEmpty has been released and not yet acquired
  inp,         \* the input thread: where it is, its key and the mode it handles
               \* it in, the line it edits, and what it has still to write
  inputMode, inputEcho,
  screenLock,  \* NULL, "input" or an output stream
  outp,        \* the output threads: where they are, and what they have read
  dirty,       \* the screen has changed since it was last drawn
  drawToken,   \* upToDate has been released and not yet acquired
  painter,     \* "paint", "painting" or "wait"
  stdin,       \* the pipe to the shell
  pipe,        \* the pipes from the shell
  shell,       \* "free", "await" while a program waits for an answer, "gone"
  events,      \* how many of the events have happened
  owed         \* history: the bytes that the keys handled so far amount to, as
               \* far as programs have not read them, without what a write of
               \* a single key or character did not find room for

vars == <<queue, keyToken, inp, inputMode, inputEcho, screenLock, outp, dirty,
          drawToken, painter, stdin, pipe, shell, events, owed>>
input == <<queue, keyToken, inp>>
modes == <<inputMode, inputEcho>>
screen == <<screenLock, dirty, drawToken, painter>>
programs == <<pipe, shell, owed>>

NULL == "none"

Init ==
  /\ queue = <<>> /\ keyToken = FALSE
  /\ inp = [pc |-> "read", key |-> NULL, mode |-> "line", line |-> <<>>,
            send |-> <<>>]
  /\ inputMode = "line" /\ inputEcho = TRUE
  /\ screenLock = NULL
  /\ outp = [s \in Outs |-> [pc |-> "read", items |-> <<>>]]
  /\ dirty = TRUE /\ drawToken = FALSE /\ painter = "paint"
  /\ stdin = <<>> /\ pipe = [s \in Outs |-> <<>>]
  /\ shell = "free"
  /\ events = 0
  /\ owed = <<>>
-----------------------------------------------------------------------------
(* The event thread.                                                        *)

\* Mutant: the reader is not woken.
BufferInputSilent(k) ==
  /\ events < MaxEvents
  /\ events' = events + 1
  /\ queue' = Append(queue, k)
  /\ UNCHANGED <<keyToken, inp, modes, outp, stdin, screen, programs>>

\* bufferInput, under inputBufferLock.
BufferInput(k) ==
  /\ events < MaxEvents
  /\ events' = events + 1
  /\ queue' = Append(queue, k)
  /\ keyToken' = TRUE
  /\ UNCHANGED <<inp, modes, outp, stdin, screen, programs>>

\* Whatever else changes the view and repaints: scrolling, resizing, focus and
\* the blinking cursor.
Repaint ==
  /\ dirty' = TRUE
  /\ drawToken' = TRUE
  /\ UNCHANGED <<events, input, modes, outp, stdin, screenLock, painter,
                 programs>>
-----------------------------------------------------------------------------
(* The input thread.                                                        *)

\* readInput: with the lock, take the first key or go and wait.
ReadInput ==
  /\ inp.pc = "read"
  /\ IF queue = <<>>
     THEN inp' = [inp EXCEPT !.pc = "wait"] /\ UNCHANGED queue
     ELSE /\ inp' = [inp EXCEPT !.pc = "key", !.key = Head(queue)]
          /\ queue' = Tail(queue)
  /\ UNCHANGED <<events, keyToken, modes, outp, stdin, screen, programs>>

WaitInput ==
  /\ inp.pc = "wait" /\ keyToken
  /\ keyToken' = FALSE
  /\ inp' = [inp EXCEPT !.pc = "read"]
  /\ UNCHANGED <<events, queue, modes, outp, stdin, screen, programs>>

\* What programs are to receive for a key, given the line so far; in raw mode
\* ESC has neither a terminal key nor a character.
Amounts(key, mode, line) ==
  IF mode = "raw" THEN CASE key = "ESC" -> <<>>
                         [] key \in TermKeys -> TermKeyBytes(key)
                         [] OTHER -> <<key>>
  ELSE IF key = "ENTER" THEN Append(line, "NEWLINE") ELSE <<>>

Front(s) == IF s = <<>> THEN s ELSE SubSeq(s, 1, Len(s) - 1)

\* In line mode a key changes the line; ENTER sends it, after the echo.  An
\* arrow has no character.
KeyInLine ==
  /\ inp.pc = "key" /\ inputMode = "line" /\ inp.key # "ESC"
  /\ owed' = owed \o Amounts(inp.key, "line", inp.line)
  /\ CASE inp.key = "ENTER" ->
            /\ inp' = [inp EXCEPT !.pc = IF inputEcho THEN "echo" ELSE "send",
                                  !.send = Append(inp.line, "NEWLINE"),
                                  !.line = <<>>]
            /\ UNCHANGED dirty
       [] inp.key = "BACKSPACE" ->  \* screen->backspace() without the lock
            /\ inp' = [inp EXCEPT !.pc = "flush", !.line = Front(@)]
            /\ dirty' = TRUE
       [] inp.key = "ARROW" ->
            inp' = [inp EXCEPT !.pc = "flush"] /\ UNCHANGED dirty
       [] OTHER ->
            /\ inp' = [inp EXCEPT !.pc = IF inputEcho THEN "echo" ELSE "flush",
                                  !.line = Append(@, inp.key)]
            /\ UNCHANGED dirty
  /\ UNCHANGED <<events, queue, keyToken, modes, outp, stdin, screenLock,
                 drawToken, painter, pipe, shell>>

\* ESC and Ctrl-C kill the control process, if there is one and it is not the
\* shell: the program that awaits an answer or another one.
KeyKills ==
  /\ inp.pc = "key" /\ inputMode = "line" /\ inp.key = "ESC"
  /\ shell' \in {shell} \cup (IF shell = "await" THEN {"free"} ELSE {})
  /\ inp' = [inp EXCEPT !.pc = "flush"]
  /\ UNCHANGED <<events, queue, keyToken, modes, outp, stdin, screen, pipe,
                 owed>>

\* In raw mode it goes to the shell at once, and the echo comes after.
KeyInRaw ==
  /\ inp.pc = "key" /\ inputMode = "raw"
  /\ owed' = owed \o Amounts(inp.key, "raw", inp.line)
  /\ inp' = IF inp.key = "ESC" THEN [inp EXCEPT !.pc = "flush"]
            ELSE [inp EXCEPT !.pc = "send", !.mode = "raw",
                             !.send = Amounts(inp.key, "raw", inp.line)]
  /\ UNCHANGED <<events, queue, keyToken, modes, outp, stdin, screen, pipe,
                 shell>>

\* Whether a key is echoed after it was written.
RawEcho == /\ inp.mode = "raw"
           /\ inp.key # "ARROW"
           /\ inputEcho

\* Mutant: the lock is still held when the line is written.
EchoKeepsLock ==
  /\ inp.pc = "echo"
  /\ screenLock \in {NULL, "input"}
  /\ screenLock' = "input"
  /\ dirty' = TRUE
  /\ inp' = [inp EXCEPT !.pc = IF inp.send = <<>> THEN "flush" ELSE "send"]
  /\ UNCHANGED <<events, queue, keyToken, modes, outp, stdin, drawToken,
                 painter, programs>>

\* Lock the screen, write the character, unlock.
Echo ==
  /\ inp.pc = "echo"
  /\ screenLock = NULL
  /\ dirty' = TRUE
  /\ inp' = [inp EXCEPT !.pc = IF inp.send = <<>> THEN "flush" ELSE "send"]
  /\ UNCHANGED <<events, queue, keyToken, modes, outp, stdin, screenLock,
                 drawToken, painter, programs>>

\* What the pipe takes of a write of the bytes s: as much as there is room for.
Taken(s) ==
  LET room == PipeSize - Len(stdin)
  IN  SubSeq(s, 1, IF Len(s) < room THEN Len(s) ELSE room)

\* Mutant: the line is written once, and what did not fit is dropped.
SendLineOnce ==
  /\ inp.pc = "send" /\ inp.mode = "line"
  /\ Len(stdin) < PipeSize
  /\ stdin' = stdin \o Taken(inp.send)
  /\ inp' = [inp EXCEPT !.send = <<>>, !.pc = "flush"]
  /\ UNCHANGED <<events, queue, keyToken, modes, outp, screen, programs>>

\* terminalWriteToShell: a loop of writes, each as much as the pipe takes.
SendLine ==
  /\ inp.pc = "send" /\ inp.mode = "line"
  /\ Len(stdin) < PipeSize
  /\ LET t == Taken(inp.send)
         rest == SubSeq(inp.send, Len(t) + 1, Len(inp.send))
     IN  /\ stdin' = stdin \o t
         /\ inp' = [inp EXCEPT !.send = rest,
                               !.pc = IF rest = <<>> THEN "flush" ELSE "send"]
  /\ UNCHANGED <<events, queue, keyToken, modes, outp, screen, programs>>

\* A terminal key or a character is one write, whose result nobody looks at:
\* what the pipe does not take is lost.
SendKey ==
  /\ inp.pc = "send" /\ inp.mode = "raw"
  /\ Len(stdin) < PipeSize
  /\ LET t == Taken(inp.send)
     IN  /\ stdin' = stdin \o t
         /\ owed' = SubSeq(owed, 1, Len(owed) - (Len(inp.send) - Len(t)))
  /\ inp' = [inp EXCEPT !.send = <<>>, !.pc = IF RawEcho THEN "echo" ELSE "flush"]
  /\ UNCHANGED <<events, queue, keyToken, modes, outp, screen, pipe, shell>>

\* Nobody will read any more: write fails, and what is left is dropped.
SendFails ==
  /\ inp.pc = "send" /\ shell = "gone"
  /\ inp' = [inp EXCEPT !.send = <<>>,
                        !.pc = IF RawEcho THEN "echo" ELSE "flush"]
  /\ UNCHANGED <<events, queue, keyToken, modes, outp, stdin, screen, programs>>

\* Mutant: the painter is not woken.
InputFlushSilent ==
  /\ inp.pc = "flush"
  /\ inp' = [inp EXCEPT !.pc = "read", !.key = NULL, !.mode = "line"]
  /\ UNCHANGED <<events, queue, keyToken, modes, outp, stdin, screen,
                 programs>>

InputFlush ==
  /\ inp.pc = "flush"
  /\ drawToken' = TRUE
  /\ inp' = [inp EXCEPT !.pc = "read", !.key = NULL, !.mode = "line"]
  /\ UNCHANGED <<events, queue, keyToken, modes, outp, stdin, screenLock,
                 dirty, painter, programs>>
-----------------------------------------------------------------------------
(* An output thread: read a chunk, process it under the lock, flush.        *)

OutRead(s) ==
  /\ outp[s].pc = "read" /\ pipe[s] # <<>>
  /\ outp' = [outp EXCEPT ![s] = [pc |-> "lock", items |-> pipe[s]]]
  /\ pipe' = [pipe EXCEPT ![s] = <<>>]
  /\ UNCHANGED <<events, input, modes, stdin, screen, shell, owed>>

\* There is nothing to read and never will be: the thread ends.
OutEnd(s) ==
  /\ outp[s].pc = "read" /\ pipe[s] = <<>> /\ shell = "gone"
  /\ outp' = [outp EXCEPT ![s].pc = "ended"]
  /\ UNCHANGED <<events, input, modes, stdin, screen, programs>>

OutLock(s) ==
  /\ outp[s].pc = "lock" /\ screenLock = NULL
  /\ screenLock' = s
  /\ outp' = [outp EXCEPT ![s].pc = "process"]
  /\ UNCHANGED <<events, input, modes, stdin, dirty, drawToken, painter,
                 programs>>

\* terminalProcessOutput: the answer to a query is written with the lock held,
\* as soon as the pipe takes any of it, and only once.
OutProcess(s) ==
  /\ outp[s].pc = "process" /\ outp[s].items # <<>>
  /\ LET i == Head(outp[s].items)
     IN  /\ i = "query" => Len(stdin) < PipeSize \/ shell = "gone"
         /\ stdin' = IF i = "query" THEN stdin \o Taken(Answer) ELSE stdin
         /\ dirty' = (dirty \/ i = "text")
         /\ inputMode' = IF i \in {"raw", "line"} THEN i ELSE inputMode
         /\ inputEcho' = CASE i = "quiet" -> FALSE [] i = "echo" -> TRUE
                           [] OTHER -> inputEcho
  /\ outp' = [outp EXCEPT ![s].items = Tail(@)]
  /\ UNCHANGED <<events, input, screenLock, drawToken, painter, programs>>

OutFlush(s) ==
  /\ outp[s].pc = "process" /\ outp[s].items = <<>>
  /\ drawToken' = TRUE
  /\ screenLock' = NULL
  /\ outp' = [outp EXCEPT ![s].pc = "read"]
  /\ UNCHANGED <<events, input, modes, stdin, dirty, painter, programs>>
-----------------------------------------------------------------------------
(* The paint thread: what changes while it draws may not be in the picture. *)

PaintBegin ==
  /\ painter = "paint"
  /\ painter' = "painting"
  /\ dirty' = FALSE
  /\ UNCHANGED <<events, input, modes, outp, stdin, screenLock, drawToken,
                 programs>>

PaintEnd ==
  /\ painter = "painting"
  /\ painter' = "wait"
  /\ UNCHANGED <<events, input, modes, outp, stdin, screenLock, drawToken,
                 dirty, programs>>

PaintWake ==
  /\ painter = "wait" /\ drawToken
  /\ drawToken' = FALSE
  /\ painter' = "paint"
  /\ UNCHANGED <<events, input, modes, outp, stdin, screenLock, dirty,
                 programs>>
-----------------------------------------------------------------------------
(* The shell and its programs: one at a time has the terminal.  A program    *)
(* that asks where the cursor is reads until it has the end of an answer.    *)

ProgramPrints(s, i) ==
  /\ shell = "free" /\ events < MaxEvents
  /\ Len(pipe[s]) < PipeSize
  /\ pipe' = [pipe EXCEPT ![s] = Append(@, i)]
  /\ events' = events + 1
  /\ shell' = IF i = "query" THEN "await" ELSE shell
  /\ UNCHANGED <<input, modes, outp, stdin, screen, owed>>

ReadStdin ==
  /\ stdin # <<>> /\ shell # "gone"
  /\ owed' = IF Head(stdin) \in AnswerBytes THEN owed ELSE Tail(owed)
  /\ stdin' = Tail(stdin)
  /\ shell' = IF Head(stdin) = "R" THEN "free" ELSE shell
  /\ UNCHANGED <<events, input, modes, outp, screen, pipe>>

\* The shell exits when no program has the terminal.
ShellEnds ==
  /\ shell = "free" /\ events < MaxEvents
  /\ events' = events + 1
  /\ shell' = "gone"
  /\ UNCHANGED <<input, modes, outp, stdin, screen, pipe, owed>>

InputThread == ReadInput \/ WaitInput \/ KeyInLine \/ KeyKills \/ KeyInRaw
               \/ Echo \/ SendLine \/ SendKey \/ SendFails \/ InputFlush
OutputThread(s) == OutRead(s) \/ OutEnd(s) \/ OutLock(s) \/ OutProcess(s)
                   \/ OutFlush(s)
PaintThread == PaintBegin \/ PaintEnd \/ PaintWake

Next ==
  \/ \E k \in Keys : BufferInput(k)
  \/ Repaint
  \/ InputThread
  \/ \E s \in Outs : OutputThread(s)
  \/ PaintThread
  \/ \E s \in Outs, i \in Items : ProgramPrints(s, i)
  \/ ReadStdin
  \/ ShellEnds

\* The kernel runs every thread that can run and wakes whoever waits for a
\* mutex; a program that awaits an answer reads.
Fairness ==
  /\ WF_vars(InputThread)
  /\ \A s \in Outs : WF_vars(OutputThread(s))
  /\ WF_vars(PaintThread)
  /\ WF_vars(ReadStdin /\ shell = "await")

Spec == Init /\ [][Next]_vars /\ Fairness
-----------------------------------------------------------------------------
\* The bytes of keys among the bytes s, in their order; the others are of answers.
KeysIn(s) ==
  LET f[n \in 0 .. Len(s)] == IF n = 0 THEN <<>>
                              ELSE IF s[n] \in AnswerBytes THEN f[n - 1]
                              ELSE Append(f[n - 1], s[n])
  IN  f[Len(s)]

\* Between the keyboard and the programs nothing is doubled or reordered, and a
\* line loses nothing, whatever the output threads do to the mode and write to
\* the same pipe, and however full it is: what is in the pipe and what is still
\* to be written are together what the keys amount to, as long as the shell is
\* there.  In raw mode a key can lose the end that its only write found no room
\* for, and nothing else (terminalInputRoutine, terminalWriteToShell).
NothingLost == shell # "gone" => KeysIn(stdin) \o inp.send = owed

\* A key that is pressed is taken out of the queue, however the event thread and
\* the input thread interleave: no wake-up is lost (readInput and bufferInput
\* release the lock before they wait).  A full pipe holds the input thread up.
KeysTaken == queue # <<>> ~> (queue = <<>> \/ Len(stdin) = PipeSize)

\* The answer to a query cannot be written, because nobody reads.
AnswerHeldUp ==
  \E s \in Outs : /\ outp[s].pc = "process"
                  /\ Len(stdin) = PipeSize /\ shell # "gone"
                  /\ outp[s].items # <<>> /\ Head(outp[s].items) = "query"

\* What programs print is processed, even while the input thread is held up by
\* a full pipe (the input thread writes to the shell without the lock; only an
\* answer is written with it).
OutputProcessed ==
  \A s \in Outs :
    pipe[s] # <<>> ~> ((pipe[s] = <<>> /\ outp[s].pc = "read") \/ AnswerHeldUp)

\* Every change of the screen is drawn: each is followed by a flush, and what
\* changes while the painter draws is drawn again (flush, paint).  Only a full
\* pipe holds up the flush, for a line is written before it.
Drawn == dirty ~> (~dirty \/ Len(stdin) = PipeSize)
=============================================================================
