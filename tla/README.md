# Heartix in TLA+

Specifications of the concurrent and stateful parts of Heartix: the C library's
streams, list of open files and exit handlers, its sorting, searching and
parsing, the terminal with its threads, document and parser, the shell with its
line editor and pipelines, and ping. Each module is translated from the code it
names; `PROJECT.json` maps every definition to its lines.

## The system

Heartix is the user land of a Ghost-derived operating system: a C library
(`libc`), wrappers of the system calls (`libapi`) and applications. Its kernel
is not part of the repository, so files, pipes, mutexes, threads and network
channels appear here as the code uses them.

| component | state | operations | interacts with | modules |
|---|---|---|---|---|
| stream (`libc/src/stdio`) | the `FILE`: buffer, counters, direction, EOF and error flags | getc, putc, read, write, ungetc, flush, seek, tell, setvbuf, open, close | the kernel's open file; callers under `stream->lock` | `ByteStream`, `StdioStream` |
| open file list (`__open_file_list.c`, `stdio.c`) | head, links of every FILE, its mutex | add, remove, `fflush(NULL)`, `freopen`, `__fini_stdio` | threads of a process; `exit` | `OpenFiles` |
| start and exit (`main.c`, `atexit.c`, `itanium_cxx_abi_support.c`) | entries, wrappers, counts | `atexit`, `__cxa_atexit`, `__cxa_finalize`, `exit`, init and fini arrays | handlers of the program, which call back | `ExitHandlers` |
| terminal (`applications/terminal`) | key queue, line, input mode, tokens of two mutexes used as semaphores | event, input, output, paint threads | the shell through three pipes; the window server | `Terminal` |
| document and screen (`screen/gui`) | lines, cursor, rows, scroll, view buffer | insert, remove, clean, scroll, resize, paint | terminal threads | `TerminalDocument`, `Screen` |
| escape sequences (`terminal.cpp`), libterminal, gsh's editor | parser status; stray keys; line and caret | process a character; get a key, query the cursor; edit | each other, through two pipes | `TerminalStream`, `LineEditor` |
| gsh's pipelines (`gosh.cpp`) | pipe ends, processes, the control process | spawn, pipe, close, join | kernel, terminal | `Pipeline` |
| gsh's parser, `parseargs` | none | parse a line, join and split arguments | gsh, every program's start | `CommandLine` |
| libc algorithms | the environment | qsort, bsearch, strtol, setenv, getenv | callers | `LibcAlgorithms` |
| ping | attempts, the resolved address | resolve, answer, send, await | network | `Ping` |
| ghsh, desktop, startupsound, calculator | see `PROJECT.json` | | window server, sound device | |
| core utilities, proc, navigator, ... | none to speak of | read, print, call | kernel | |
| musl, dlmalloc, Duktape | third-party | | | |

What is hard: reading and writing share one buffer, and a failure in the middle
of a flush leaves bytes, counters and flags that must still agree; threads walk
a list without its mutex while others change it; the mutex inside an object is
replaced while a thread waits for the old one; handlers call back into the loop
that calls them; the terminal uses mutexes as semaphores between threads and
writes to pipes that may be full; its painter copies a document that changes
meanwhile; keys and answers reach the shell through one pipe; a pipe ends only
when nobody holds its write end; frames are lost, repeated and late. The hazards
in `PROJECT.json` list each at its line.

What makes each part correct:

- a stream behaves as if it had no buffer, and never leaves its buffer;
- the list holds exactly the open streams; flushing all and exit reach each;
  every call returns;
- every registered handler runs once, newest first, and exit ends;
- no key is lost, output is processed and drawn, no thread sleeps with work
  to do;
- the view ends up showing the rows that the scroll position calls for;
- the commands are those typed, and the screen shows the line and the caret;
- the shell lets go of every pipe end, the prompt returns, processes end;
- ping reports nothing but the target's answer, and ends;
- sorting, searching, numbers, arguments and the environment agree with their
  definitions.

## Modules

`ByteStream` is what a stream promises, with no buffer: a content, a position
and the bytes future reads return. `StdioStream` is one FILE. `stream` is the
structure of `file.h`, `node` the kernel's open file (with a history bit, whether
it ever refused something), `call` an `fread` or `fwrite` in progress. An
unlocked C function that may end in several ways is an operator that returns the
set of its outcomes (`FflushWriteUnlocked`, `FillBuffer`, ...); the public
functions are the actions. They run under the stream's mutex, so a call is one
step, and byte loops are a step per byte. `Faults` says what kernel and malloc
may do wrong, `Habits` what a caller does beyond the plain calls: go on after a
failure, access against the mode, seek or replace the buffer while bytes are in
it. A seek is to an absolute position within the file. `Ftell` returns the
kernel's position, as the code does, whatever is buffered, so `ByteStream.Tell`
holds the answer to the position only when the previous call opened the stream,
flushed it or moved the position; otherwise any offset may come.

`OpenFiles` has the list and the threads, one action per access to shared state:
`AddLock`, `AddLink`, `AddPush` are `__open_file_list_add`; `FcloseZero`,
`FcloseUnlink`, `FcloseFree` are the parts of `fclose`; `FlushAll*` and `Fini*`
are the two walks. A thread reads `stream->lock` in one step and acquires that
mutex in a later one. What a stream buffers is one bit. `todo` is history: the
streams that a walk has still to reach. Releasing a mutex frees it, whoever has
it, and one that was destroyed does not block: the terminal relies on the first,
and `fclose` on the second for those who still wait. A thread that gets a stream
passes through `UseRead`; after exit has begun others go on until the process
is gone.

`ExitHandlers` has one thread. `stack` holds the `__cxa_finalize` calls in
progress, one inside the other when handlers call `exit`; a call made by `exit`
never returns to its caller. An entry made by `atexit` holds the slot of the
wrapper array, and what runs is what the slot holds then. `log` is history.

`Terminal` has the four kinds of threads and the two ends of the pipes. A mutex
used as a semaphore is a token (`keyToken`, `drawToken`): releasing a released
mutex has no further effect. `dirty` says that the screen has changed since it
was last drawn; drawing takes two steps, so a change may come during it. A key
is the kind of key and an escape sequence in the output is one item:
`TerminalStream` has the characters of sequences. What goes to the shell goes in
bytes: a write takes what there is room for (`Taken`), and waits only while there
is none. `SendLine` is the loop of `terminalWriteToShell`, a step per write;
`SendKey` is the single write of a terminal key (three bytes) or of a character,
and `OutProcess` that of an answer (two bytes, the first and the last; the numbers
between play no part), whose rest is lost when the pipe is nearly full. Writing
to a shell that is gone may succeed or fail, reading from it fails when the pipe is
empty. `owed` is history: the bytes that the keys taken amount to, without what a
single write found no room for; `KeysIn` picks them from the pipe, which also
carries answers. A program that asked for an answer waits for its last byte.

`TerminalDocument` has the operators of `terminal_document.cpp` and
`terminal_line.cpp`: inserting, removing, `RowCount`, which sums `LineRows`, and
`AcquireRow`, whose walk up the rows is a recursive function over `StepUp`. `Wrap`
and `AllRows` are the reference: the lines cut at the width. `Screen` has the writer,
which is whoever holds `screenLock`; the window's event thread, which scrolls and
resizes without that lock; and the painter, which locks the document row by row.
`documentRows`, `scrollY` and the size of the window have no lock at all, so every
load, test and store of `recalculateView`, `scroll`, `setScrollArea`,
`normalizeScroll` and `setCanvasBounds` is a step of its own, of either thread
(`CountRows`, `StoreRows`, `StoreScroll`, `ViewRows`, `NormalizeTests`,
`NormalizeStores`), and the painter reads width, height, row count and scroll
position in a step each (`PaintColumns`, `PaintLines`, `PaintPlace`,
`PaintStart`). `raced` is history: the two
threads were at work together, one of them counting rows, and since then no
count has begun with the other idle. What they then leave in `documentRows` and `scrollY` can be
stale or out of range, and `RowsCurrent` and `ScrollSound` excuse it until the
next operation that counts alone; `ViewCurrent` excuses nothing. Removing happens
within a line, and programs place the cursor on lines that exist: elsewhere the
code leaves the line's buffer.

`TerminalStream` is `terminalProcessOutput` as a function from a terminal and a
character to a terminal, with the status of an unfinished sequence in it, so a
sequence may arrive in any pieces. `LineEditor` composes three parts: that
terminal (`TerminalReads`), libterminal (`shell` in "seek", "bracket",
"parameters": `readAndBufferUntilESC` and the reading of an answer, `buffer` the
stray keys), and gsh's `gshReadInputLine`, with an action for each key. `typed`,
`commands` and `dropped` are history. What names complete a word is external.
`Ignored` are the characters that `write` of the screen refuses (`charIsUtf8`:
what is not printable ASCII): the shipped keyboard layouts type some, and the
editor puts them into the line and counts a column for each, while the screen
shows nothing. `unseen` is history: a line ever had one. From then on the
screen need not show the line, and a removal may fall behind the end of the line on
the screen, so `ScreenShowsLine` and the `stray` part of `AnswersUnderstood` say
nothing more; `CommandsAsTyped` goes on.

`Pipeline` is the loop of `gosh.cpp` that runs an expression: create the pipe,
spawn, close the write end, close the read end given away, and join the last
process; `fds` are the ends the shell itself holds. The kernel's pipes and the
programs (print, or copy until the end) are external.

`Ping` is `ping.cpp`: two loops of attempts that also answer ARP requests, over a
network (external) that keeps every frame and delivers any of them, any number of
times, at any moment. Successive pings share the network, as the identifier and
the sequence number are constants. `cause` is history.

`CommandLine` has gsh's parser and `parseargs`, `LibcAlgorithms` has `qsort` (the
calls that are left as a stack), `bsearch`, `strtol`, `setenv` and `getenv`, all
as operators; `environ` is an array with its null pointer, and `setenv` can fail at
each of its three allocations, the one of the entry behind an array that has
already grown. `Algorithms` grows an input element by element and states what
they promise for it. The reference for `strtol` (`Numerals`) is the standard's
section on it, with no part of the implementation but the value of a digit;
where the code is at variance with it, `NumberRead` leaves the result open.

`StdioProofs`, `OpenFilesProofs`, `ExitProofs`, `TerminalProofs`,
`ScreenProofs`, `LineEditorProofs`, `PipelineProofs` and `PingProofs` have the
proofs. The `MC*` modules are the instances for TLC.

## Runs

| run | shows |
|---|---|
| `stdio_plain` | `StreamRefinement`: `StdioStream` implements `ByteStream` while callers flush before they seek or call setvbuf (ftell may be called at any time, see above), with short reads, three buffer modes and buffers of 1, 2 and 3 bytes; `LinesDelivered` |
| `stdio_faults` | every fault but a failing malloc, a close that fails included, and accesses against the mode: `BufferBounds`, `DirectionSound`, `EofExplained`, `ReadOnlyKept` |
| `files_keep` | two threads, two files and stdout, three calls each: `ListSound`, `FlushAllComplete`, `FiniComplete`, `CallsReturn` for a program that keeps its streams until exit |
| `exit_handlers` | three entries, two functions, a constructor, a fini function: `RunOnceAsRegistered`, `NewestFirst`, `ExitComplete`, `ExitEnds` |
| `terminal` | three events (keys, printed items, the end of the shell) in any mix, pipes of three bytes or items: `NothingLost`, `KeysTaken`, `OutputProcessed`, `Drawn` |
| `screen` | two operations and two events in any mix, each access a step, with a painter at any row: `RowsCurrent`, `ScrollSound`, `ViewCurrent`, `ViewFits` |
| `editor` | four keys at any moment, one of them ignored by the screen, two stray keys kept: `CommandsAsTyped`, `ScreenShowsLine`, `AnswersUnderstood`, `SettlesAgain` |
| `pipeline` | two lines of up to three programs, pipes of one item, failing pipes and spawns, programs that end early, Ctrl+C: `NothingHeld`, `OutputComplete`, `PromptReturns`, `ProcessesEnd` |
| `ping` | two pings, a target, another host and frames that differ from the awaited ones in one field: `ResolvedMac`, `ReplyGenuine`, `PingEnds` |
| `algorithms` | all inputs up to a length: `WrittenIsParsed`, `ArgumentsArrive`, `SortAndSearch`, `NumberRead`, `EnvironmentIsMap` |

Runs that show where the code and its documentation disagree:

| run | behaviour |
|---|---|
| `stdio_retry` | a flush fails, the buffer stays full, the direction flag is gone: the next `fputc` skips the flush and stores behind the buffer |
| `files_close` | `fclose` zeroes the links, then unlinks by them: streams drop out of the list, and `fflush(NULL)` misses them |

Seen while reading, without a run:

- stdio: `fseek` and `rewind` leave the buffer as it is, so that the next read
  returns the old bytes and pending ones go to the new place; `ftell` returns the
  kernel's offset, before the pending bytes or behind those read ahead
  (`__ftello_unlocked.c:33`); when the kernel takes a part of the buffer and then
  refuses, the rest is not moved to the front (`__fflush_write_unlocked.c:79`), so
  that bytes already written stay pending in the place of others, which are lost
  though `fwrite` counted them; `fclose` returns 0
  although its flush failed; `setvbuf` without memory leaves a freed buffer in
  the stream; `freopen` never releases the mutex it acquired; `clearerr` and
  `rewind` clear nothing (`__clearerr_unlocked.c:30`: no stream has an
  `impl_clearerr`); `fputs` compares a count of elements with a length, and
  `fgets` neither stops at a newline nor reports the end; `exit` leaves stdout's
  unfinished line unwritten (`stdio.c:69`); the second attempt of
  `__setdefbuf_unlocked` is the same as the first;
- exit: a handler registered by a handler is not called; constructors run before
  `__init_stdio`;
- terminal: rows are counted, and the scroll position is tested and stored, by two
  threads without a common lock: the older count may be stored last, and a
  writer that shrinks the document between a test and a store of
  `normalizeScroll` leaves the document out of view, until the next operation;
  a nearly full pipe cuts the bytes of a terminal key or an answer short, after
  which its reader takes the next bytes for the rest; the view buffer doubles
  only once per resize, starting at 300 * 80 cells; backspace with an empty line
  moves the cursor to column -1; the parameters of a new stream are not
  initialised;
- libterminal: `readAndBufferUntilESC` does not end at the end of the input, and
  `bufferChar` keeps its lock when it has no memory;
- gsh: characters beyond ASCII, which the layouts have, are part of the line but
  not of the screen; after a failed spawn or pipe the ends stay open, so that an earlier
  process of that expression can wait for ever;
- arguments: `parseargs` takes out quotation marks and backslashes that gsh has
  already taken out once, and an empty last argument is lost; `strtol` limits the
  magnitude before the sign, so that `-LONG_MAX` stands for `LONG_MIN` and all
  below, stops at the digit that overflows, and consumes an `0x` that no digit
  follows; the condition of `strstr`'s loop is inverted;
- ping: a late reply to an earlier ping counts as this one's.

Bounds. A buffer of three bytes has a first, a middle and a last place, and with
`UNGET` 1 it has space kept for ungetc, while a buffer of one byte has none; a
file of three bytes is longer than the small buffers and holds a line and more.
Two threads and two files besides stdout give a head, a middle and a tail of the
list. Three entries of which two functions are registered let a slot be reused
and a handler register another. Three events suffice for an output item racing
with a line, for two mode changes around a key, or for a terminal key, a character
and an answer that meet in a pipe of three bytes, which a key of three or an answer
of two then fits in part. The
terminal's run has one output stream: the thread of the other is the same code
and contends for the same lock as the input thread does.

Two operations, which begin with the empty line, make a row full or a second
line, or change what the first one did, and scroll; two events are a resize and a
scroll, or two scrolls, at every step of them. That mix has every
pair of their loads and stores in either order, in 4.7 million states. Windows are two columns by one
row and one by two, so that a document of two characters is larger than one and a
resize changes its rows; `InitialMax` is small enough that the view buffer is
tested, and `ViewAssumption` keeps windows, also one with the width of one size
and the height of another, within twice the first buffer, which the code needs. Four
keys, with two that the library keeps, fill its buffer and overflow it while an
answer is awaited, and suffice to edit in the middle of a line or complete a
word. Three programs have a first, a middle and a last; two items and pipes of
one make writers wait; the second line meets what the first has left. Four and
three attempts with `RetryEvery` 2 have attempts with and without a new request;
a channel of three frames holds misleading ones before the awaited one; two pings
let the second meet the first one's frames. Inputs of the algorithms have up to
six numbers, five characters, or three calls of `setenv`; `LongMax` is 127, so
that three digits exceed it in every base.

Fairness is weak fairness of every thread: the kernel schedules each thread that
can run, and wakes who waits for a mutex. Handlers return or call `exit`. A
program that has asked the terminal something reads until it has the answer;
nothing else makes programs read, so a full pipe may stay full, and the
properties of the terminal say so. In `LineEditor` shell and terminal keep
running, and the user need not type; in `Pipeline` the shell and every program
do, and the user need not kill anything; in `Ping` only the ping process does,
and nothing is assumed of the network. `Screen` and `Algorithms` check safety
only. Runs of processes that end, or of users and threads that have nothing left
to do because of a bound, do not check for deadlock; the others do.

## Proofs

| module | theorems | under |
|---|---|---|
| `StdioProofs` | `TypeCorrect`, `BoundsHold`, `DirectionHolds`, `ReadOnlyHolds`, `EofHolds`, `LinesHold` | `"retry" \notin Habits`; `EofHolds` also `"alloc" \notin Faults`, `LinesHold` also `"mode" \notin Habits` |
| `StdioProofs` | `RefinementHolds` | `Faults \subseteq {"short"}`, `Habits = {}` |
| `OpenFilesProofs` | `TypeHolds`, `ListSoundHolds`, `FlushAllCompleteHolds`, `FiniCompleteHolds` | `KeepSpec` (`TypeHolds`: both specifications) |
| `ExitProofs` | `RunOnceHolds`, `NewestFirstHolds`, `ExitCompleteHolds` | |
| `TerminalProofs` | `NothingLostHolds` | |
| `ScreenProofs` | `ViewFitsHolds`, `RowsCurrentHolds`, `ScrollSoundHolds`, `ViewCurrentHolds`; `RowCountSound`, `AcquireRowIs` | |
| `LineEditorProofs` | `EditorTypesAsTyped`, `EditorShowsLine`, `EditorUnderstands` | `CompletionsAreNames` |
| `PipelineProofs` | `NothingHeldHolds`, `OutputCompleteHolds` | |
| `PingProofs` | `ResolvedMacHolds`, `ReplyGenuineHolds` | |

Each holds for every value of the constants that the module's named assumption
allows. Every invariant named below was checked by TLC on the instances of the
runs before it was proved.

`StdioProofs`, for every set of bytes, buffer size, bound and choice of faults.
Callers stop using a stream after a failed call: `stdio_retry` shows that this is
needed. `BufferBounds` is not inductive. That `fputc` stores within the buffer
rests on the flush of a full buffer really emptying it, which it does only if the
direction flag is set and the kernel takes the bytes; and that a flush writes
only initialised bytes rests on what the counters delimit. The inductive
invariant `StreamInv` adds: types; `Directed` unless the kernel refused
something; a buffer that is set has a positive size; the offset lies within the
file; a transfer in progress is within its total and not after a refusal. There
is a lemma for every C function (`FflushWriteGood`, `FillBufferGood`, ...),
saying that from a `Ready` stream every outcome is `Safe`, keeps the buffer, and
reports a refusal as EOF; one for every action; and `NextInv` puts them together.
A second series (`FflushWriteKept`, ...) says that a function keeps the file of a
stream without `MODE_WRITE`, marks the stream when it returns EOF, and keeps no
complete line back (`Lined`); from it follow `ReadOnlyKept`, an action property,
`EofExplained` and `LinesDelivered`. The further conditions are those of the
code: without memory for the default buffer `fgetc` returns EOF and sets no flag,
and a stream that may not be written keeps the line that was put into it.

The last part of `StdioProofs` shows that `StdioStream` implements `ByteStream`, with the
mapping of the run `stdio_plain`, for every set of bytes, buffer size and bound.
The caller sees three things of a stream and its file: the content with the
pending bytes laid over it, the position without the bytes read ahead, and the
input. A third series of lemmas (`FflushWriteView`, `FillBufferView`,
`FgetcView`, ...) says what every C function does to them. Filling the buffer,
writing it out and replacing an empty one leave all three alone (`SameView`);
`fgetc` takes the first byte of the input, `ungetc` puts one before it, `fputc`
lays one over the content; `fflush` keeps the content and drops what was ungot.
They rest on facts about slices and overlays of sequences (`RestSplit`,
`OverlayMore`: writing a sequence and then one more byte is writing both). To
`StreamInv` the proof adds `ViewInv`: nothing was refused, a closed stream is
the zeroed structure, an unbuffered one holds no bytes, bytes are buffered in a
direction the stream was opened for, and so is a transfer in progress. The
conditions are those of the run. TLC finds the refinement violated under each
further fault, and when callers seek or replace the buffer while bytes are in it,
or put bytes into a stream that may not be written; going on after a failure
(`retry`) makes no difference where nothing fails.

`OpenFilesProofs`, for any number of threads, FILEs and mutexes. `files_close`
shows that closing breaks the list, so that the theorems are about programs that
keep their streams until exit. No walk holds the list's mutex, and lists are
chains of any length. `Covers(next, c, T)` states without induction that a walk
at `c` will come through all of `T`: every set of FILEs that holds `c` and the
successor of each of its members holds `T`. Reading a link, tying a new FILE to
the head, pushing it and unlinking one in exit's walk each keep it
(`CoversStep`, `CoversTied`, ...), and at the end of a walk it says that `T` is
empty. `KeepInv` adds that a FILE being opened is linked from nowhere and belongs
to one thread; that before exit the chain starts at the head, has no cycle, leads
through every open stream, and agrees with the links back; and that exit's walk
is one thread's.

`ExitProofs`, for every program, table size and number of constructors. None of
the properties is inductive: they speak of the log, while the code marks entries
and keeps an index. `ExitInv` ties them: the slot of an entry still holds its
function; the log has exactly the entries that are marked, once each; every loop
of an `exit` has called all between its index and where it began, which is not
before the entries that are due; loops above another are always an `exit`'s.

`TerminalProofs`, for any characters, streams, pipe size and number of events.
`InputInv` adds to `NothingLost` that the input thread has nothing left to write
when it takes its next key, and that it writes keys only; so what a single write
drops is the end of `owed`, and a line's rest stays in the thread. What the property says
of a pipe, the keys among its characters, is the recursive function `KeysIn`.
That it exists and how it grows is proved from its step (`IsTaking`) by the least
counterexample: a least number at which two such functions differ, or at which
there is none, cannot be.

`ScreenProofs`. `ViewFits`, under `ViewAssumption`: the buffer always fits the
size it was last checked for, and one doubling suffices, since it never is
smaller than it was at first. `RowCountSound` says that `getRowCount` counts the
rows of every document, `AcquireRowIs` that `acquireRow` returns the row with the
offset: after each turn of its loop (`WalkAt`) line and remainder are those of
the row that many above the last one, full rows, empty lines and offsets beyond
the document included. Both rest on recursive functions, again with least
counterexamples, and hold for every document and width. `RowInv` then has,
while no race is excused, that whoever counts rows is alone (`CountInv`), that the
count stored last or about to be stored is the present one, and that a scroll
position out of range is found by a thread that still has the test for it, or the
store, before it (`ScrollInv`): two threads may be anywhere in `normalizeScroll`
and each knows only what it has tested (`Knows`). `PaintInv` has that what the
painter has read in a pass, and the rows it has painted, are those of the present,
unless somebody is at work or has left the token for another pass; it needs no
exception.

`LineEditorProofs`, for every alphabet, any number of keys, lines of any length
and every size of the library's buffer. The properties speak of the moments when
both pipes are empty; in between, the screen, the line and the keys agree only
about what the bytes on their way will do. `Run(kind, a, s, b)` says that reading
`s` leads from `a` to `b`, for the terminal's parser, the numbers in a sequence,
the keys in a pipe and the reference alike; runs compose and can be taken apart
at their first character (`RunCompose`, `RunHead`). From it `Does(s, l, x, m, y)`:
output `s` takes every screen with line `l` and cursor `x` to one with `m` and
`y`, without an answer. There is a `Does` lemma for everything the editor sends:
moving, printing over a line, removing, a new line, and `Decimal`, whose digits
the terminal and the library read back as the number (`DecimalRead`). `EditorInv`
then has two parts. `Pipes`: the output leads to the screen the editor has in
mind; and either a query is its last character, or the input holds whole keys,
then the answer naming that screen's column, then whole keys, as far as they are
not read. `Follows`: the keys in the buffer and the pipe lead from the line, or
from what the key in hand makes of it, to the reference. Each action keeps both.
After a character that the screen ignores, the line that the editor has in mind is
replaced by `Lost`, which stands for any line on the screen: the `Does` lemmas hold
of it too, as far as they say that a query is answered and sequences are read whole.
`CompletionsAreNames` is what the proof needs of the external names: there are
finitely many for a word, each at least as long, in characters that the terminal
prints. `gshAutocomplete` returns the word's directory and an entry that begins
with the rest of the word; a shorter completion would leave characters of the old
line on the screen. `LettersAssumption` sets keys that are characters apart from
those that libterminal encodes. TLC checked the invariant with its runs written
as folds, for three keys.

`PipelineProofs`, for pipelines and sessions of any length, pipes of any size and
every choice of faults. `HoldInv` says at each place of the loop which ends the
shell may hold besides those of lines with a failure, and that the last call has
no pipe, so that nothing is left when the loop ends. `OutputInv` follows the
items: for a line without a failure there are numbers `got` and `put` for each
process, such that a pipe holds exactly the items between what its writer has put
and its reader has got, and an ended process has put all. An empty pipe without a
writer then means that the left neighbour is done; and no write fails, because the
reader of a pipe is running, or not yet spawned while the shell holds its read end
(`ReadersHeld`). When the last process was joined the line is `Settled`, and later
lines do not touch it.

`PingProofs`, for all hosts, traffic and numbers of attempts. Frames are read long
after they were sent, so `PingInv` speaks of every frame ever sent: hosts use their
own address, and an echo and the reply to it have a ping of this host as their
cause. `NoiseAssumption` is what this needs of others: they use their own
addresses, and no other program uses ping's identifier towards the target.

Only model-checked: the algorithms, which are folds over their input, so that what they compute for every input takes an induction the
prover does not have; and all liveness (`CallsReturn`, `ExitEnds`, `KeysTaken`,
`OutputProcessed`, `Drawn`, `SettlesAgain`, `PromptReturns`, `ProcessesEnd`,
`PingEnds`), which it does not handle.

## Not modelled

Append mode (the position is the kernel's), formatted input and output, wide
characters, getopt, strtok and the other string functions, two threads in
`atexit`, a fini function that calls `exit`, what constructors print before
`__init_stdio`, the closing of the terminal's window, colours and drawing,
checksums and the parsing of addresses, file name completion.

`ghsh` (the terminal's and the shell's code once more, over a framebuffer), the
desktop, calculator, startupsound and the core utilities, which are sequential
programs around kernel or window calls.

Third-party code, build files and assets. They are most of the repository: of
some 171,000 lines Duktape alone has 106,000, and dlmalloc, musl and tables of
font data most of the rest of the C code. The code that is Heartix's own and has
state or an algorithm worth checking is a few thousand lines, so the share of
all lines that the modules cover stays small whatever is added.

## Plan

1. `ghsh` as an instance of `Terminal`; the desktop's grid and task bar;
   startupsound's chunks and short writes.
2. `LineEditor` through `Terminal`'s bounded pipes, so that a full pipe and a
   cursor query meet.
