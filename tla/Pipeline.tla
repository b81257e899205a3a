------------------------------ MODULE Pipeline ------------------------------
(***************************************************************************)
(* How gsh runs a pipe expression (applications/gsh/src/gosh.cpp): it      *)
(* spawns one process per call, joins neighbours with pipes, closes its    *)
(* own copies of the ends, and waits for the last process.  A pipe has an  *)
(* end only once nobody holds its write end any more, so what the shell    *)
(* forgets to close decides who waits for whom.                            *)
(*                                                                         *)
(* The kernel (pipes, processes, g_join) and the programs are external: a  *)
(* pipe holds PipeSize items and blocks when it is full or empty, a        *)
(* process that ends gives up its descriptors.  The first program of an    *)
(* expression prints Items items and ends, each of the others copies its   *)
(* standard input until the end of it.                                     *)
(***************************************************************************)
EXTENDS Naturals, Sequences, FiniteSets

CONSTANTS
  MaxCalls,   \* bound: calls in one expression
  MaxLines,   \* bound: lines the user enters
  PipeSize,   \* items a pipe holds
  Items,      \* items the first program prints
  Faults      \* of {"pipe", "spawn", "exit"}: g_pipe fails, a spawn fails,
              \* a program ends before it has read and written everything

ASSUME PipelineAssumption ==
  /\ {MaxCalls, MaxLines, PipeSize, Items} \subseteq Nat \ {0}
  /\ Faults \subseteq {"pipe", "spawn", "exit"}

VARIABLES
  shell,          \* where gsh is
  line,           \* the lines entered so far; a process is <<line, index>>
  calls,          \* pipeexpr->calls.size()
  callIndex,      \* the call being spawned, 0 for the first
  lastPipeRead,   \* the read end that the next process gets
  pipeWrite,      \* the ends of the pipe made for this call
  pipeRead,
  tail,           \* tailProcessId
  success,        \* whether the last spawn succeeded
  fds,            \* the pipe ends that gsh holds
  control,        \* the terminal's control process
  pipe,           \* what each pipe holds
  proc,           \* every process
  printed,        \* history: what each expression printed to the terminal
  flawed          \* history: lines with a failure, or a process that was
                  \* killed or ended early

shellVars == <<shell, line, calls, callIndex, lastPipeRead, pipeWrite,
               pipeRead, tail, success, fds, control>>
vars == <<shellVars, pipe, proc, printed, flawed>>

None == <<0, 0>>
Procs == (1..MaxLines) \X (1..MaxCalls)
Pipes == Procs              \* the pipe a process writes has its name
Write(k) == <<k, "write">>
Read(k) == <<k, "read">>
Ends == Pipes \X {"write", "read"}
Current == <<line, callIndex + 1>>
NoProcess == [state |-> "none", stdin |-> None, stdout |-> None,
              carry |-> 0, done |-> 0]

\* The state in which main (gosh.cpp) first waits for a line.
Init ==
  /\ shell = "prompt" /\ line = 0 /\ calls = 0 /\ callIndex = 0
  /\ lastPipeRead = None /\ pipeWrite = None /\ pipeRead = None
  /\ tail = None /\ success = FALSE /\ fds = {} /\ control = None
  /\ pipe = [k \in Pipes |-> <<>>]
  /\ proc = [p \in Procs |-> NoProcess]
  /\ printed = [l \in 1..MaxLines |-> <<>>]
  /\ flawed = {}

Running(p) == proc[p].state = "running"

\* Who can still write to, or read from, a pipe.
HasWriter(k) == \/ Write(k) \in fds
                \/ \E p \in Procs : Running(p) /\ proc[p].stdout = k
HasReader(k) == \/ Read(k) \in fds
                \/ \E p \in Procs : Running(p) /\ proc[p].stdin = k

(***************************************************************************)
(* The shell                                                               *)
(***************************************************************************)

\* A line was read and parsed into n calls.
ReadLine(n) ==
  /\ shell = "prompt" /\ line < MaxLines
  /\ line' = line + 1 /\ calls' = n /\ callIndex' = 0
  /\ lastPipeRead' = None /\ tail' = None /\ success' = FALSE
  /\ shell' = "call"
  /\ UNCHANGED <<pipeWrite, pipeRead, fds, control, pipe, proc, printed,
                 flawed>>

\* A builtin is one only as a single call; exit ends the shell.
HandleBuiltin ==
  /\ shell = "call" /\ calls = 1
  /\ \/ shell' = "prompt" /\ UNCHANGED fds
     \/ shell' = "gone" /\ fds' = {}
  /\ UNCHANGED <<line, calls, callIndex, lastPipeRead, pipeWrite, pipeRead,
                 tail, success, control, pipe, proc, printed, flawed>>

\* Every call but the last one writes to a new pipe.
CreatePipe ==
  /\ shell = "call"
  /\ \/ /\ callIndex < calls - 1
        /\ pipeWrite' = Current /\ pipeRead' = Current
        /\ fds' = fds \cup {Write(Current), Read(Current)}
     \/ /\ callIndex = calls - 1
        /\ pipeWrite' = None /\ pipeRead' = None
        /\ UNCHANGED fds
  /\ shell' = "spawn"
  /\ UNCHANGED <<line, calls, callIndex, lastPipeRead, tail, success,
                 control, pipe, proc, printed, flawed>>

CreatePipeFails ==
  /\ "pipe" \in Faults
  /\ shell = "call" /\ callIndex < calls - 1
  /\ pipeWrite' = None /\ pipeRead' = None
  /\ success' = FALSE /\ shell' = "done"
  /\ flawed' = flawed \cup {line}
  /\ UNCHANGED <<line, calls, callIndex, lastPipeRead, tail, fds, control,
                 pipe, proc, printed>>

\* The descriptors the process gets as stdin and stdout.
StdioIn ==
  [stdin  |-> IF callIndex = 0 THEN None ELSE lastPipeRead,
   stdout |-> IF callIndex = calls - 1 THEN None ELSE pipeWrite]

\* Mutant: the first process is remembered as the last one.
SpawnKeepsTail ==
  /\ shell = "spawn"
  /\ proc' = [proc EXCEPT ![Current] =
       [state |-> "running", stdin |-> StdioIn.stdin,
        stdout |-> StdioIn.stdout, carry |-> 0, done |-> 0]]
  /\ tail' = (IF tail = None THEN Current ELSE tail) /\ success' = TRUE
  /\ shell' = "close"
  /\ UNCHANGED <<line, calls, callIndex, lastPipeRead, pipeWrite, pipeRead,
                 fds, control, pipe, printed, flawed>>

SpawnSuccessful ==
  /\ shell = "spawn"
  /\ proc' = [proc EXCEPT ![Current] =
       [state |-> "running", stdin |-> StdioIn.stdin,
        stdout |-> StdioIn.stdout, carry |-> 0, done |-> 0]]
  /\ tail' = Current /\ success' = TRUE
  /\ shell' = "close"
  /\ UNCHANGED <<line, calls, callIndex, lastPipeRead, pipeWrite, pipeRead,
                 fds, control, pipe, printed, flawed>>

\* An error ends the loop; the ends that are open stay open.
SpawnFails ==
  /\ "spawn" \in Faults
  /\ shell = "spawn"
  /\ success' = FALSE /\ shell' = "done"
  /\ flawed' = flawed \cup {line}
  /\ UNCHANGED <<line, calls, callIndex, lastPipeRead, pipeWrite, pipeRead,
                 tail, fds, control, pipe, proc, printed>>

\* Mutant: the write end stays open in the shell.
CloseWriteNot ==
  /\ shell = "close"
  /\ shell' = "closeRead"
  /\ UNCHANGED <<line, calls, callIndex, lastPipeRead, pipeWrite, pipeRead,
                 tail, success, fds, control, pipe, proc, printed, flawed>>

\* The two g_close calls after a spawn, each a step of its own.
CloseWrite ==
  /\ shell = "close"
  /\ fds' = fds \ {Write(pipeWrite)}
  /\ shell' = "closeRead"
  /\ UNCHANGED <<line, calls, callIndex, lastPipeRead, pipeWrite, pipeRead,
                 tail, success, control, pipe, proc, printed, flawed>>

\* Mutant: the end that the process was given is kept open.
CloseReadNot ==
  /\ shell = "closeRead"
  /\ lastPipeRead' = pipeRead
  /\ callIndex' = callIndex + 1
  /\ shell' = IF callIndex' < calls THEN "call" ELSE "done"
  /\ UNCHANGED <<line, calls, pipeWrite, pipeRead, tail, success, fds,
                 control, pipe, proc, printed, flawed>>

CloseRead ==
  /\ shell = "closeRead"
  /\ fds' = fds \ {Read(lastPipeRead)}
  /\ lastPipeRead' = pipeRead
  /\ callIndex' = callIndex + 1
  /\ shell' = IF callIndex' < calls THEN "call" ELSE "done"
  /\ UNCHANGED <<line, calls, pipeWrite, pipeRead, tail, success, control,
                 pipe, proc, printed, flawed>>

\* After the loop: join the last process if all were spawned.  The local
\* descriptors go out of scope, they are not closed.
JoinBegin ==
  /\ shell = "done"
  /\ \/ success /\ shell' = "join" /\ control' = tail
     \/ ~success /\ shell' = "prompt" /\ UNCHANGED control
  /\ lastPipeRead' = None /\ pipeWrite' = None /\ pipeRead' = None
  /\ UNCHANGED <<line, calls, callIndex, tail, success, fds, pipe, proc,
                 printed, flawed>>

JoinEnd ==
  /\ shell = "join" /\ proc[tail].state = "ended"
  /\ control' = None /\ tail' = None /\ shell' = "prompt"
  /\ UNCHANGED <<line, calls, callIndex, lastPipeRead, pipeWrite, pipeRead,
                 success, fds, pipe, proc, printed, flawed>>

\* The end of the input: main leaves its loop and the process is gone.
InputEnds ==
  /\ shell = "prompt"
  /\ shell' = "gone" /\ fds' = {}
  /\ UNCHANGED <<line, calls, callIndex, lastPipeRead, pipeWrite, pipeRead,
                 tail, success, control, pipe, proc, printed, flawed>>

(***************************************************************************)
(* The programs, and the user's Ctrl+C                                     *)
(***************************************************************************)

\* A process that ends gives up what it had.
EndOf(p) == proc' = [proc EXCEPT ![p] = [NoProcess EXCEPT !.state = "ended"]]

\* A process has an item: the first makes it, the others read it.
GetItem(p) ==
  /\ Running(p) /\ proc[p].carry = 0
  /\ LET in == proc[p].stdin IN
     \/ /\ in = None /\ proc[p].done < Items
        /\ proc' = [proc EXCEPT ![p].carry = proc[p].done + 1,
                                ![p].done = @ + 1]
        /\ UNCHANGED pipe
     \/ /\ in # None /\ pipe[in] # <<>>
        /\ proc' = [proc EXCEPT ![p].carry = Head(pipe[in])]
        /\ pipe' = [pipe EXCEPT ![in] = Tail(@)]
  /\ UNCHANGED <<shellVars, printed, flawed>>

PutItem(p) ==
  /\ Running(p) /\ proc[p].carry # 0
  /\ LET out == proc[p].stdout IN
     \/ /\ out = None
        /\ printed' = [printed EXCEPT ![p[1]] = Append(@, proc[p].carry)]
        /\ UNCHANGED pipe
     \/ /\ out # None /\ HasReader(out) /\ Len(pipe[out]) < PipeSize
        /\ pipe' = [pipe EXCEPT ![out] = Append(@, proc[p].carry)]
        /\ UNCHANGED printed
  /\ proc' = [proc EXCEPT ![p].carry = 0]
  /\ UNCHANGED <<shellVars, flawed>>

\* Nobody can read any more: the write fails and the program ends.
PutItemFails(p) ==
  /\ Running(p) /\ proc[p].carry # 0
  /\ proc[p].stdout # None /\ ~HasReader(proc[p].stdout)
  /\ EndOf(p)
  /\ UNCHANGED <<shellVars, pipe, printed, flawed>>

\* The input is at its end.
InputDone(p) ==
  /\ Running(p) /\ proc[p].carry = 0
  /\ LET in == proc[p].stdin IN
     \/ in = None /\ proc[p].done = Items
     \/ in # None /\ pipe[in] = <<>> /\ ~HasWriter(in)
  /\ EndOf(p)
  /\ UNCHANGED <<shellVars, pipe, printed, flawed>>

ProgramFails(p) ==
  /\ "exit" \in Faults /\ Running(p)
  /\ EndOf(p)
  /\ flawed' = flawed \cup {p[1]}
  /\ UNCHANGED <<shellVars, pipe, printed>>

\* Ctrl+C in the terminal kills the control process.
Kill ==
  /\ control # None /\ Running(control)
  /\ EndOf(control)
  /\ flawed' = flawed \cup {control[1]}
  /\ UNCHANGED <<shellVars, pipe, printed>>

Shell == \/ HandleBuiltin \/ CreatePipe \/ CreatePipeFails
         \/ SpawnSuccessful \/ SpawnFails \/ CloseWrite \/ CloseRead
         \/ JoinBegin \/ JoinEnd
Program(p) == GetItem(p) \/ PutItem(p) \/ PutItemFails(p) \/ InputDone(p)

Next ==
  \/ \E n \in 1..MaxCalls : ReadLine(n)
  \/ Shell \/ InputEnds \/ Kill
  \/ \E p \in Procs : Program(p) \/ ProgramFails(p)

\* The kernel runs the shell and every program that can run.
Fairness == WF_vars(Shell) /\ \A p \in Procs : WF_vars(Program(p))

Spec == Init /\ [][Next]_vars /\ Fairness

(***************************************************************************)
(* Properties                                                              *)
(***************************************************************************)

\* While the shell waits for the user or for the last process it holds no
\* end of a pipe, except those of an expression that could not be spawned
\* (gosh.cpp: g_close after the spawn; "TODO clean up pipes" on failure), or of
\* one whose programs ended early or were killed, which flawed does not tell
\* apart.
NothingHeld ==
  shell \in {"prompt", "join"} => \A e \in fds : e[1][1] \in flawed

\* An expression that went well has printed, in order, all that its first
\* program printed: every process reads its left neighbour's pipe.
OutputComplete ==
  shell = "prompt" =>
    \A l \in (1..line) \ flawed :
      (\E p \in Procs : p[1] = l /\ proc[p].state # "none") =>
        printed[l] = [i \in 1..Items |-> i]

\* The shell always comes back for the next line, whatever fails, whoever
\* is killed, and whatever earlier expressions left behind.
PromptReturns ==
  (shell \notin {"prompt", "gone"}) ~> (shell \in {"prompt", "gone"})

\* No process of an expression that was spawned completely waits forever
\* for an item, a free place or the end of its input, not even when the
\* last process is killed or a neighbour ends early.
ProcessesEnd ==
  \A l \in 1..MaxLines :
    (shell \in {"join", "prompt"} /\ success /\ line = l)
      ~> (\A i \in 1..MaxCalls : ~Running(<<l, i>>))
==============================================================================
