--------------------------- MODULE PipelineProofs ---------------------------
(***************************************************************************)
(* gsh closes every end of a pipe that it has given away, for expressions  *)
(* and sessions of any length and whatever fails: what it still holds when *)
(* it waits belongs to an expression that could not be spawned.  And what  *)
(* the first program of an expression prints reaches the terminal, all of  *)
(* it and in order, unless something failed or was killed.                 *)
(***************************************************************************)
EXTENDS Pipeline, TLAPS

Spawning == {"call", "spawn", "close", "closeRead"}

\* The ends that the shell has to hold at each place of the loop.
MayHold ==
  IF shell = "call" THEN {Read(lastPipeRead)}
  ELSE IF shell \in {"spawn", "close"}
    THEN {Write(pipeWrite), Read(pipeRead), Read(lastPipeRead)}
  ELSE IF shell = "closeRead" THEN {Read(pipeRead), Read(lastPipeRead)}
  ELSE {}

\* The loop counts the calls of a line, and neither the first process reads
\* a pipe nor does the last one write one.
LoopSound ==
  /\ line \in Nat /\ callIndex \in Nat /\ calls \in Nat
  /\ shell \in Spawning => line # 0 /\ callIndex < calls
  /\ shell = "call" /\ callIndex = 0 => lastPipeRead = None
  /\ shell \in Spawning \ {"call"} /\ callIndex = calls - 1 =>
       pipeWrite = None /\ pipeRead = None

\* Every end that the shell holds is left over from an expression with a
\* failure, or one of the present expression that is still needed.
HeldSound ==
  \A e \in fds : e[1][1] \in flawed \/ (e[1][1] = line /\ e \in MayHold)

HoldInv == LoopSound /\ HeldSound

LEMMA HoldInit == Init => HoldInv
BY DEF Init, HoldInv, LoopSound, HeldSound, Spawning

\* The line of the ends that a process is given, and of no end at all.
LEMMA EndLines ==
  /\ Write(Current)[1][1] = line /\ Read(Current)[1][1] = line
  /\ Write(None)[1][1] = 0 /\ Read(None)[1][1] = 0
BY DEF Write, Read, Current, None

LEMMA ReadLineInv ==
  ASSUME HoldInv, NEW n \in 1..MaxCalls, ReadLine(n)
  PROVE  HoldInv'
<1>1. n \in Nat \ {0}
  BY PipelineAssumption
<1> QED BY <1>1 DEF ReadLine, HoldInv, LoopSound, HeldSound, MayHold, Spawning

LEMMA HandleBuiltinInv == HoldInv /\ HandleBuiltin => HoldInv'
<1> SUFFICES ASSUME HoldInv, HandleBuiltin PROVE HoldInv'
  OBVIOUS
<1>1. shell = "call" /\ calls = 1 /\ callIndex = 0 /\ lastPipeRead = None
        /\ line # 0
  BY DEF HandleBuiltin, HoldInv, LoopSound, Spawning
<1>2. \A e \in fds : e[1][1] \in flawed
  BY <1>1, EndLines DEF HoldInv, HeldSound, MayHold
<1> QED BY <1>1, <1>2
        DEF HandleBuiltin, HoldInv, LoopSound, HeldSound, Spawning

LEMMA CreatePipeInv == HoldInv /\ CreatePipe => HoldInv'
<1> SUFFICES ASSUME HoldInv, CreatePipe PROVE HoldInv'
  OBVIOUS
<1>1. LoopSound'
  BY DEF CreatePipe, HoldInv, LoopSound, Spawning
<1>2. HeldSound'
  <2>1. MayHold' = {Write(pipeWrite'), Read(pipeRead'), Read(lastPipeRead)}
    BY DEF CreatePipe, MayHold, Write, Read
  <2>2. \A e \in fds : e[1][1] \in flawed \/ (e[1][1] = line
                                              /\ e = Read(lastPipeRead))
    BY DEF CreatePipe, HoldInv, HeldSound, MayHold
  <2>3. \A e \in fds' \ fds : /\ e[1][1] = line
                              /\ e \in {Write(pipeWrite'), Read(pipeRead')}
    BY EndLines DEF CreatePipe
  <2> QED BY <2>1, <2>2, <2>3 DEF CreatePipe, HeldSound
<1> QED BY <1>1, <1>2 DEF HoldInv

\* A failure marks the line, and with it every end that is left open.
LEMMA FailureInv ==
  ASSUME HoldInv, CreatePipeFails \/ SpawnFails
  PROVE  HoldInv'
BY DEF CreatePipeFails, SpawnFails, HoldInv, LoopSound, HeldSound, Spawning

LEMMA SpawnInv == HoldInv /\ SpawnSuccessful => HoldInv'
BY DEF SpawnSuccessful, HoldInv, LoopSound, HeldSound, MayHold, Spawning,
       Write, Read

LEMMA CloseWriteInv == HoldInv /\ CloseWrite => HoldInv'
BY DEF CloseWrite, HoldInv, LoopSound, HeldSound, MayHold, Spawning, Read

LEMMA CloseReadInv == HoldInv /\ CloseRead => HoldInv'
<1> SUFFICES ASSUME HoldInv, CloseRead PROVE HoldInv'
  OBVIOUS
<1>1. LoopSound'
  BY DEF CloseRead, HoldInv, LoopSound, Spawning
<1>2. \A e \in fds' : e[1][1] \in flawed \/ (e[1][1] = line
                                             /\ e = Read(pipeRead))
  BY DEF CloseRead, HoldInv, HeldSound, MayHold
<1>3. CASE callIndex + 1 < calls
  BY <1>1, <1>2, <1>3 DEF CloseRead, HeldSound, MayHold, Read, HoldInv
<1>4. CASE ~(callIndex + 1 < calls)
  <2>1. pipeRead = None /\ line # 0
    BY <1>4 DEF CloseRead, HoldInv, LoopSound, Spawning
  <2>2. \A e \in fds' : e[1][1] \in flawed
    BY <1>2, <2>1, EndLines
  <2> QED BY <1>1, <2>2 DEF CloseRead, HoldInv, HeldSound
<1> QED BY <1>3, <1>4

LEMMA JoinInv ==
  ASSUME HoldInv, JoinBegin \/ JoinEnd \/ InputEnds
  PROVE  HoldInv'
BY DEF JoinBegin, JoinEnd, InputEnds, HoldInv, LoopSound, HeldSound, MayHold,
       Spawning

\* Programs leave the shell's variables alone, and only add to the lines
\* with a failure.
LEMMA ProgramsInv ==
  ASSUME HoldInv, UNCHANGED shellVars, flawed \subseteq flawed'
  PROVE  HoldInv'
BY DEF shellVars, HoldInv, LoopSound, HeldSound, MayHold, Spawning, Write, Read

LEMMA HoldNext == HoldInv /\ [Next]_vars => HoldInv'
<1> SUFFICES ASSUME HoldInv, [Next]_vars PROVE HoldInv'
  OBVIOUS
<1>1. ASSUME NEW n \in 1..MaxCalls, ReadLine(n) PROVE HoldInv'
  BY <1>1, ReadLineInv
<1>2. CASE Shell
  BY <1>2, HandleBuiltinInv, CreatePipeInv, FailureInv, SpawnInv,
     CloseWriteInv, CloseReadInv, JoinInv DEF Shell
<1>3. CASE InputEnds
  BY <1>3, JoinInv
<1>4. CASE Kill
  BY <1>4, ProgramsInv DEF Kill
<1>5. ASSUME NEW p \in Procs, Program(p) \/ ProgramFails(p) PROVE HoldInv'
  <2>1. UNCHANGED shellVars /\ flawed \subseteq flawed'
    BY <1>5 DEF Program, ProgramFails, GetItem, PutItem, PutItemFails,
                InputDone
  <2> QED BY <2>1, ProgramsInv
<1>6. CASE UNCHANGED vars
  BY <1>6, ProgramsInv DEF vars
<1> QED BY <1>1, <1>2, <1>3, <1>4, <1>5, <1>6 DEF Next

\* Whenever gsh waits for the user or for the last process of an expression,
\* every end of a pipe that it still holds is of an expression with a
\* failure, for any number of calls and lines and every choice of faults
\* (the g_close calls of gosh.cpp).
THEOREM NothingHeldHolds == Spec => []NothingHeld
<1>1. HoldInv => NothingHeld
  BY DEF HoldInv, HeldSound, MayHold, NothingHeld
<1> QED BY <1>1, HoldInit, HoldNext, PTL DEF Spec
-----------------------------------------------------------------------------
(***************************************************************************)
(* An expression that went well has printed everything.  The invariant     *)
(* follows the items through the present line: there are numbers put and   *)
(* got for each process that account for every item that is in a process   *)
(* or in a pipe.                                                           *)
(***************************************************************************)

\* The items after the first a, up to the item b.
From(a, b) == [j \in 1..(b - a) |-> a + j]

Working == Spawning \cup {"done", "join"}

\* How many processes of the present line were spawned.
Spawned ==
  IF shell \in {"call", "spawn"} THEN callIndex
  ELSE IF shell \in {"close", "closeRead"} THEN callIndex + 1
  ELSE calls

ProcTypes ==
  /\ proc \in [Procs -> [state : {"none", "running", "ended"},
                         stdin : Procs \cup {None}, stdout : Procs \cup {None},
                         carry : Nat, done : Nat]]
  /\ pipe \in [Procs -> Seq(Nat)] /\ printed \in [1..MaxLines -> Seq(Nat)]
  /\ control \in Procs \cup {None}

\* A process reads a pipe of its own line, and writes the one of its name.
OwnLine ==
  \A p \in Procs : /\ proc[p].stdin = None \/ proc[p].stdin[1] = p[1]
                   /\ proc[p].stdout \in {None, p}

\* The variables of the loop name the neighbours in the present line.
LoopInv ==
  /\ line \in 0..MaxLines /\ calls \in 0..MaxCalls /\ callIndex \in Nat
  /\ shell \in Working \cup {"prompt", "gone"}
  /\ shell \in Working => line # 0 /\ calls # 0
  /\ shell \in Spawning =>
       /\ callIndex < calls
       /\ lastPipeRead = IF callIndex = 0 THEN None ELSE <<line, callIndex>>
  /\ shell \in Spawning \ {"call"} =>
       /\ pipeWrite = IF callIndex < calls - 1 THEN Current ELSE None
       /\ pipeRead = IF callIndex < calls - 1 THEN Current ELSE None
  /\ shell \in {"close", "closeRead"} => success /\ tail = Current
  /\ shell = "done" => IF success THEN tail = <<line, calls>> ELSE line \in flawed
  /\ shell = "join" => tail = <<line, calls>>

\* The shell holds the read end of a pipe until its reader was spawned.
ReadersHeld ==
  /\ shell \in {"call", "spawn"} /\ callIndex # 0 => Read(<<line, callIndex>>) \in fds
  /\ shell \in Spawning \ {"call"} /\ callIndex < calls - 1 => Read(Current) \in fds

\* Nothing has happened yet in the lines to come.
FutureInv ==
  /\ \A p \in Procs : p[1] > line => proc[p].state = "none" /\ pipe[p] = <<>>
  /\ \A l \in 1..MaxLines : l > line => printed[l] = <<>>

\* Each process of the present line has got the first got[i] items and has
\* put the first put[i]; what lies between is on the way.
ProcFlow(i, put, got) ==
  LET p == <<line, i>> IN
  /\ put[i] <= got[i] /\ got[i] <= Items
  /\ i > Spawned => proc[p].state = "none" /\ got[i] = 0
  /\ i <= Spawned => proc[p].state # "none"
  /\ Running(p) =>
       /\ proc[p].stdin = IF i = 1 THEN None ELSE <<line, i - 1>>
       /\ proc[p].stdout = IF i = calls THEN None ELSE p
       /\ \/ proc[p].carry = 0 /\ put[i] = got[i]
          \/ proc[p].carry = got[i] /\ put[i] + 1 = got[i]
       /\ i = 1 => proc[p].done = got[i]
  /\ proc[p].state = "ended" => put[i] = Items

PipeFlow(i, put, got) ==
  got[i + 1] <= put[i] /\ pipe[<<line, i>>] = From(got[i + 1], put[i])

Flow(put, got) ==
  /\ \A i \in 1..calls : ProcFlow(i, put, got)
  /\ \A i \in 1..(calls - 1) : PipeFlow(i, put, got)
  /\ \A i \in 1..MaxCalls : i > calls => proc[<<line, i>>].state = "none"
  /\ printed[line] = From(0, put[calls])

FlowInv ==
  shell \in Working /\ line \notin flawed =>
    \E put, got \in [1..MaxCalls -> Nat] : Flow(put, got)

\* A line that is over: it went wrong, was a builtin, or printed everything
\* and has nobody left who prints.
Settled(l) ==
  \/ l \in flawed
  \/ \A p \in Procs : p[1] = l => proc[p].state = "none"
  \/ /\ printed[l] = From(0, Items)
     /\ \A p \in Procs : p[1] = l /\ Running(p) => proc[p].stdout # None

SettledInv ==
  \A l \in 1..line : l < line \/ shell = "prompt" => Settled(l)

OutputInv ==
  /\ ProcTypes /\ OwnLine /\ LoopInv /\ ReadersHeld /\ FutureInv /\ FlowInv
  /\ SettledInv
-----------------------------------------------------------------------------

LEMMA FromIs ==
  ASSUME NEW a \in Nat, NEW b \in Nat, a <= b
  PROVE  /\ From(a, b) \in Seq(Nat) /\ Len(From(a, b)) = b - a
         /\ From(a, b) = <<>> <=> a = b
         /\ Append(From(a, b), b + 1) = From(a, b + 1)
         /\ a # b => /\ Head(From(a, b)) = a + 1
                     /\ Tail(From(a, b)) = From(a + 1, b)
<1>1. b - a \in Nat /\ (b + 1) - a = (b - a) + 1
  OBVIOUS
<1>2. From(a, b) \in Seq(Nat) /\ Len(From(a, b)) = b - a
  BY <1>1 DEF From
<1>3. From(a, b) = <<>> <=> a = b
  BY <1>2
<1>4. Append(From(a, b), b + 1) = From(a, b + 1)
  <2> DEFINE s == Append(From(a, b), b + 1)
             t == From(a, b + 1)
  <2>1. s \in Seq(Nat) /\ Len(s) = (b - a) + 1
    BY <1>2
  <2>2. t \in Seq(Nat) /\ Len(t) = (b - a) + 1
    BY <1>1 DEF From
  <2>3. ASSUME NEW j \in 1..((b - a) + 1) PROVE s[j] = t[j]
    BY <1>1, <1>2 DEF From
  <2> HIDE DEF s, t
  <2>4. s = t
    BY <2>1, <2>2, <2>3
  <2> QED BY <2>4 DEF s, t
<1>5. ASSUME a # b
      PROVE  Head(From(a, b)) = a + 1 /\ Tail(From(a, b)) = From(a + 1, b)
  <2> DEFINE s == Tail(From(a, b))
             t == From(a + 1, b)
             n == (b - a) - 1
  <2>1. n \in Nat /\ b - (a + 1) = n /\ b - a = n + 1
    BY <1>5
  <2> HIDE DEF n
  <2>2. Head(From(a, b)) = a + 1
    BY <1>2, <2>1 DEF From
  <2>3. s \in Seq(Nat) /\ Len(s) = n
    BY <1>2, <2>1
  <2>4. t \in Seq(Nat) /\ Len(t) = n
    BY <2>1 DEF From
  <2>5. ASSUME NEW j \in 1..n PROVE s[j] = t[j]
    <3>1. s[j] = From(a, b)[j + 1]
      BY <1>2, <2>1
    <3>2. j + 1 \in 1..(b - a) /\ j \in 1..(b - (a + 1))
      BY <2>1
    <3>3. From(a, b)[j + 1] = a + (j + 1) /\ From(a + 1, b)[j] = (a + 1) + j
      BY <3>2 DEF From
    <3>4. j \in Nat /\ a + (j + 1) = (a + 1) + j
      BY <2>1
    <3>5. t[j] = (a + 1) + j
      BY <3>3
    <3> HIDE DEF s, t
    <3> QED BY <3>1, <3>3, <3>4, <3>5
  <2> HIDE DEF s, t
  <2>6. s = t
    BY <2>3, <2>4, <2>5
  <2> QED BY <2>2, <2>6 DEF s, t
<1> QED BY <1>2, <1>3, <1>4, <1>5

LEMMA AppendFrom ==
  \A a, b \in Nat : a <= b => Append(From(a, b), b + 1) = From(a, b + 1)
<1> SUFFICES ASSUME NEW a \in Nat, NEW b \in Nat, a <= b
             PROVE  Append(From(a, b), b + 1) = From(a, b + 1)
  OBVIOUS
<1> QED BY FromIs

LEMMA OutputInit == Init => OutputInv
<1> SUFFICES ASSUME Init PROVE OutputInv
  OBVIOUS
<1>1. ProcTypes /\ OwnLine
  BY DEF Init, ProcTypes, OwnLine, NoProcess, Pipes
<1>2. LoopInv
  BY PipelineAssumption DEF Init, LoopInv, Working, Spawning
<1>3. ReadersHeld /\ FutureInv /\ FlowInv /\ SettledInv
  BY DEF Init, ReadersHeld, FutureInv, FlowInv, SettledInv, Working, Spawning,
         NoProcess, Pipes
<1> QED BY <1>1, <1>2, <1>3 DEF OutputInv
-----------------------------------------------------------------------------
(* The shell                                                               *)

\* The place of a process that is spawned now.
LEMMA CurrentProc ==
  ASSUME LoopInv, shell \in Spawning
  PROVE  /\ Current \in Procs /\ Current = <<line, callIndex + 1>>
         /\ Current[1] = line /\ Current[2] = callIndex + 1
BY PipelineAssumption DEF LoopInv, Spawning, Working, Current, Procs

\* Steps that leave the processes and the pipes alone keep the flow, if they
\* do not move the count of the processes.
LEMMA FlowKept ==
  ASSUME FlowInv, UNCHANGED <<proc, pipe, printed, line, calls>>,
         flawed \subseteq flawed', shell \in Working, Spawned' = Spawned
  PROVE  FlowInv'
<1> SUFFICES ASSUME line' \notin flawed'
             PROVE  (\E put, got \in [1..MaxCalls -> Nat] : Flow(put, got))'
  BY DEF FlowInv
<1>1. PICK put \in [1..MaxCalls -> Nat], got \in [1..MaxCalls -> Nat] :
        Flow(put, got)
  BY DEF FlowInv
<1>2. Flow(put, got)'
  BY <1>1 DEF Flow, ProcFlow, PipeFlow, Running
<1> QED BY <1>2

\* The same for the lines that are over.
LEMMA SettledKept ==
  ASSUME NEW l, Settled(l), UNCHANGED <<proc, printed>>, flawed \subseteq flawed'
  PROVE  Settled(l)'
BY DEF Settled, Running

LEMMA ReadLineOutput ==
  ASSUME OutputInv, NEW n \in 1..MaxCalls, ReadLine(n)
  PROVE  OutputInv'
<1>1. /\ line' = line + 1 /\ calls' = n /\ callIndex' = 0 /\ shell' = "call"
      /\ lastPipeRead' = None /\ shell = "prompt" /\ line < MaxLines
      /\ UNCHANGED <<control, pipe, proc, printed, flawed>>
  BY DEF ReadLine
<1>2. line \in Nat /\ n \in Nat \ {0} /\ MaxLines \in Nat /\ MaxCalls \in Nat
      /\ n <= MaxCalls
  BY PipelineAssumption DEF OutputInv, LoopInv
<1>3. ProcTypes' /\ OwnLine'
  BY <1>1 DEF OutputInv, ProcTypes, OwnLine
<1>4. LoopInv'
  BY <1>1, <1>2 DEF LoopInv, Spawning, Working
<1>5. ReadersHeld'
  BY <1>1 DEF ReadersHeld, Spawning
<1>6. FutureInv'
  BY <1>1, <1>2 DEF OutputInv, FutureInv, Procs
<1>7. FlowInv'
  <2>0. PICK zero \in [1..MaxCalls -> Nat] : \A i \in 1..MaxCalls : zero[i] = 0
    <3>1. /\ [i \in 1..MaxCalls |-> 0] \in [1..MaxCalls -> Nat]
          /\ \A k \in 1..MaxCalls : [i \in 1..MaxCalls |-> 0][k] = 0
      OBVIOUS
    <3> QED BY <3>1
  <2>1. Spawned' = 0
    BY <1>1 DEF Spawned
  <2>2. From(0, 0) = <<>>
    BY FromIs
  <2>3. \A i \in 1..MaxCalls : /\ proc'[<<line', i>>].state = "none"
                               /\ pipe'[<<line', i>>] = <<>>
    <3>1. \A i \in 1..MaxCalls : /\ <<line', i>> \in Procs
                                 /\ <<line', i>>[1] > line
      BY <1>1, <1>2 DEF Procs
    <3> QED BY <1>1, <3>1 DEF OutputInv, FutureInv
  <2>4. printed'[line'] = <<>>
    BY <1>1, <1>2 DEF OutputInv, FutureInv
  <2>6. Items \in Nat
    BY PipelineAssumption
  <2>7. ASSUME NEW i \in 1..n PROVE ProcFlow(i, zero, zero)'
    <3>1. i \in 1..MaxCalls /\ i > 0 /\ ~(i <= 0)
      BY <1>2
    <3>2. zero[i] = 0 /\ proc'[<<line', i>>].state = "none"
      BY <2>0, <2>3, <3>1
    <3> QED BY <2>1, <2>6, <3>1, <3>2 DEF ProcFlow, Running
  <2>8. ASSUME NEW i \in 1..(n - 1) PROVE PipeFlow(i, zero, zero)'
    <3>1. i \in 1..MaxCalls /\ i + 1 \in 1..MaxCalls
      BY <1>2
    <3>2. zero[i] = 0 /\ zero[i + 1] = 0 /\ pipe'[<<line', i>>] = <<>>
      BY <2>0, <2>3, <3>1
    <3> QED BY <2>2, <3>2 DEF PipeFlow
  <2>9. Flow(zero, zero)'
    <3>1. zero[n] = 0
      BY <2>0
    <3> QED BY <1>1, <2>2, <2>3, <2>4, <2>7, <2>8, <3>1 DEF Flow
  <2> QED BY <2>9 DEF FlowInv
<1>8. SettledInv'
  <2> SUFFICES ASSUME NEW l \in 1..line', l < line' PROVE Settled(l)'
    BY <1>1 DEF SettledInv
  <2>1. l \in 1..line
    BY <1>1, <1>2
  <2> QED BY <1>1, <2>1, SettledKept DEF OutputInv, SettledInv
<1> QED BY <1>3, <1>4, <1>5, <1>6, <1>7, <1>8 DEF OutputInv

\* Lines before the present one stay as they are in every step of the shell
\* that stays in the line.
LEMMA EarlierKept ==
  ASSUME SettledInv, UNCHANGED <<line, proc, printed>>, flawed \subseteq flawed',
         shell' # "prompt" \/ Settled(line)' \/ line = 0, line \in Nat
  PROVE  SettledInv'
<1> SUFFICES ASSUME NEW l \in 1..line, l < line \/ shell' = "prompt"
             PROVE  Settled(l)'
  BY DEF SettledInv
<1>1. CASE l < line
  BY <1>1, SettledKept DEF SettledInv
<1>2. CASE l = line
  BY <1>2
<1> QED BY <1>1, <1>2

LEMMA FutureKept ==
  ASSUME FutureInv, UNCHANGED <<line, proc, pipe, printed>>
  PROVE  FutureInv'
BY DEF FutureInv

\* A builtin leaves no process behind.
LEMMA HandleBuiltinOutput ==
  ASSUME OutputInv, HandleBuiltin
  PROVE  OutputInv'
<1>1. /\ shell = "call" /\ calls = 1 /\ shell' \in {"prompt", "gone"}
      /\ UNCHANGED <<line, calls, callIndex, control, pipe, proc, printed, flawed>>
  BY DEF HandleBuiltin
<1>2. callIndex = 0 /\ line \in 1..MaxLines /\ line \in Nat
  BY <1>1, PipelineAssumption DEF OutputInv, LoopInv, Spawning, Working
<1>3. ProcTypes' /\ OwnLine' /\ LoopInv'
  BY <1>1 DEF OutputInv, ProcTypes, OwnLine, LoopInv, Spawning, Working
<1>4. ReadersHeld' /\ FlowInv'
  BY <1>1 DEF ReadersHeld, FlowInv, Spawning, Working
<1>5. Settled(line)'
  <2>1. CASE line \in flawed
    BY <1>1, <2>1 DEF Settled
  <2>2. CASE line \notin flawed
    <3>1. PICK put \in [1..MaxCalls -> Nat], got \in [1..MaxCalls -> Nat] :
            Flow(put, got)
      BY <1>1, <2>2 DEF OutputInv, FlowInv, Working, Spawning
    <3>2. Spawned = 0
      BY <1>1, <1>2 DEF Spawned
    <3>3. ASSUME NEW i \in 1..MaxCalls PROVE proc[<<line, i>>].state = "none"
      <4>1. CASE i = 1
        BY <1>1, <3>1, <3>2, <4>1 DEF Flow, ProcFlow
      <4>2. CASE i # 1
        <5>1. i > calls
          BY <1>1, <4>2
        <5> QED BY <3>1, <5>1 DEF Flow
      <4> QED BY <4>1, <4>2
    <3>4. \A p \in Procs : p[1] = line => proc[p].state = "none"
      BY <3>3 DEF Procs
    <3> QED BY <1>1, <3>4 DEF Settled
  <2> QED BY <2>1, <2>2
<1>6. SettledInv' /\ FutureInv'
  BY <1>1, <1>2, <1>5, EarlierKept, FutureKept DEF OutputInv
<1> QED BY <1>3, <1>4, <1>6 DEF OutputInv

LEMMA CreatePipeOutput == ASSUME OutputInv, CreatePipe PROVE OutputInv'
<1>1. /\ shell = "call" /\ shell' = "spawn"
      /\ UNCHANGED <<line, calls, callIndex, lastPipeRead, tail, success,
                     control, pipe, proc, printed, flawed>>
      /\ fds \subseteq fds' /\ Current' = Current
  BY DEF CreatePipe, Current
<1>2. line \in Nat /\ callIndex \in Nat /\ calls \in Nat /\ callIndex < calls
  BY <1>1, PipelineAssumption DEF OutputInv, LoopInv, Spawning
<1>3. ProcTypes' /\ OwnLine'
  BY <1>1 DEF OutputInv, ProcTypes, OwnLine
<1>4. LoopInv'
  <2>1. /\ pipeWrite' = IF callIndex < calls - 1 THEN Current ELSE None
        /\ pipeRead' = IF callIndex < calls - 1 THEN Current ELSE None
    BY <1>2 DEF CreatePipe
  <2> QED BY <1>1, <2>1 DEF OutputInv, LoopInv, Spawning, Working
<1>5. ReadersHeld'
  <2>1. callIndex < calls - 1 => Read(Current) \in fds'
    BY <1>2 DEF CreatePipe
  <2>2. callIndex # 0 => Read(<<line, callIndex>>) \in fds'
    BY <1>1 DEF OutputInv, ReadersHeld
  <2> QED BY <1>1, <2>1, <2>2 DEF ReadersHeld, Spawning, Read
<1>6. FlowInv'
  <2>1. Spawned' = Spawned /\ shell \in Working
    BY <1>1 DEF Spawned, Working, Spawning
  <2> QED BY <1>1, <2>1, FlowKept DEF OutputInv
<1>7. SettledInv' /\ FutureInv'
  BY <1>1, <1>2, EarlierKept, FutureKept DEF OutputInv
<1> QED BY <1>3, <1>4, <1>5, <1>6, <1>7 DEF OutputInv

\* A failure spoils the line.
LEMMA FailureOutput ==
  ASSUME OutputInv, CreatePipeFails \/ SpawnFails
  PROVE  OutputInv'
<1>1. /\ shell \in {"call", "spawn"} /\ shell' = "done" /\ success' = FALSE
      /\ UNCHANGED <<line, calls, callIndex, control, pipe, proc, printed>>
      /\ flawed' = flawed \cup {line}
  BY DEF CreatePipeFails, SpawnFails
<1>2. line \in Nat /\ line # 0 /\ calls # 0
  BY <1>1, PipelineAssumption DEF OutputInv, LoopInv, Working, Spawning
<1>3. ProcTypes' /\ OwnLine'
  BY <1>1 DEF OutputInv, ProcTypes, OwnLine
<1>4. LoopInv'
  BY <1>1, <1>2 DEF OutputInv, LoopInv, Spawning, Working
<1>5. ReadersHeld' /\ FlowInv'
  BY <1>1 DEF ReadersHeld, FlowInv, Spawning
<1>6. SettledInv' /\ FutureInv'
  BY <1>1, <1>2, EarlierKept, FutureKept DEF OutputInv
<1> QED BY <1>3, <1>4, <1>5, <1>6 DEF OutputInv

LEMMA CloseWriteOutput == ASSUME OutputInv, CloseWrite PROVE OutputInv'
<1>1. /\ shell = "close" /\ shell' = "closeRead"
      /\ UNCHANGED <<line, calls, callIndex, lastPipeRead, pipeWrite, pipeRead,
                     tail, success, control, pipe, proc, printed, flawed>>
      /\ Current' = Current
  BY DEF CloseWrite, Current
<1>2. line \in Nat
  BY <1>1, PipelineAssumption DEF OutputInv, LoopInv
<1>3. ProcTypes' /\ OwnLine'
  BY <1>1 DEF OutputInv, ProcTypes, OwnLine
<1>4. LoopInv'
  BY <1>1 DEF OutputInv, LoopInv, Spawning, Working
<1>5. ReadersHeld'
  <2>1. Read(Current) # Write(pipeWrite)
    BY DEF Read, Write
  <2>2. callIndex < calls - 1 => Read(Current) \in fds'
    BY <1>1, <2>1 DEF OutputInv, ReadersHeld, Spawning, CloseWrite
  <2> QED BY <1>1, <2>2 DEF ReadersHeld, Spawning, Read
<1>6. FlowInv'
  <2>1. Spawned' = Spawned /\ shell \in Working
    BY <1>1 DEF Spawned, Working, Spawning
  <2> QED BY <1>1, <2>1, FlowKept DEF OutputInv
<1>7. SettledInv' /\ FutureInv'
  BY <1>1, <1>2, EarlierKept, FutureKept DEF OutputInv
<1> QED BY <1>3, <1>4, <1>5, <1>6, <1>7 DEF OutputInv

LEMMA CloseReadOutput == ASSUME OutputInv, CloseRead PROVE OutputInv'
<1>1. /\ shell = "closeRead" /\ callIndex' = callIndex + 1
      /\ lastPipeRead' = pipeRead /\ fds' = fds \ {Read(lastPipeRead)}
      /\ shell' = IF callIndex + 1 < calls THEN "call" ELSE "done"
      /\ UNCHANGED <<line, calls, pipeWrite, pipeRead, tail, success, control,
                     pipe, proc, printed, flawed>>
  BY DEF CloseRead
<1>2. /\ line \in Nat /\ line # 0 /\ callIndex \in Nat /\ calls \in Nat
      /\ callIndex < calls /\ calls # 0
      /\ success /\ tail = <<line, callIndex + 1>>
      /\ pipeRead = IF callIndex < calls - 1 THEN <<line, callIndex + 1>>
                    ELSE None
      /\ lastPipeRead = IF callIndex = 0 THEN None ELSE <<line, callIndex>>
  BY <1>1, PipelineAssumption DEF OutputInv, LoopInv, Spawning, Working, Current
<1>3. ProcTypes' /\ OwnLine'
  BY <1>1 DEF OutputInv, ProcTypes, OwnLine
<1>4. CASE callIndex + 1 < calls
  <2>0. shell' = "call" /\ callIndex < calls - 1 /\ callIndex' # 0
    BY <1>1, <1>2, <1>4
  <2>1. LoopInv'
    BY <1>1, <1>2, <1>4, <2>0 DEF OutputInv, LoopInv, Spawning, Working
  <2>2. ReadersHeld'
    <3>1. Read(<<line, callIndex + 1>>) \in fds
      BY <1>1, <2>0 DEF OutputInv, ReadersHeld, Spawning, Current
    <3>2. lastPipeRead # <<line, callIndex + 1>>
      BY <1>2 DEF None
    <3>3. Read(<<line, callIndex + 1>>) # Read(lastPipeRead)
      BY <3>2 DEF Read
    <3>4. Read(<<line, callIndex + 1>>) \in fds'
      BY <1>1, <3>1, <3>3
    <3> QED BY <1>1, <2>0, <3>4 DEF ReadersHeld, Spawning, Read
  <2>3. FlowInv'
    <3>1. Spawned' = Spawned /\ shell \in Working
      BY <1>1, <2>0 DEF Spawned, Working, Spawning
    <3> QED BY <1>1, <3>1, FlowKept DEF OutputInv
  <2>4. SettledInv' /\ FutureInv'
    BY <1>1, <1>2, <2>0, EarlierKept, FutureKept DEF OutputInv
  <2> QED BY <1>3, <2>1, <2>2, <2>3, <2>4 DEF OutputInv
<1>5. CASE ~(callIndex + 1 < calls)
  <2>0. shell' = "done" /\ callIndex + 1 = calls
    BY <1>1, <1>2, <1>5
  <2>1. LoopInv'
    BY <1>1, <1>2, <2>0 DEF OutputInv, LoopInv, Spawning, Working
  <2>2. ReadersHeld'
    BY <2>0 DEF ReadersHeld, Spawning
  <2>3. FlowInv'
    <3>1. Spawned' = Spawned /\ shell \in Working
      BY <1>1, <2>0 DEF Spawned, Working, Spawning
    <3> QED BY <1>1, <3>1, FlowKept DEF OutputInv
  <2>4. SettledInv' /\ FutureInv'
    BY <1>1, <1>2, <2>0, EarlierKept, FutureKept DEF OutputInv
  <2> QED BY <1>3, <2>1, <2>2, <2>3, <2>4 DEF OutputInv
<1> QED BY <1>4, <1>5

LEMMA JoinBeginOutput == ASSUME OutputInv, JoinBegin PROVE OutputInv'
<1>1. /\ shell = "done"
      /\ \/ success /\ shell' = "join" /\ control' = tail
         \/ ~success /\ shell' = "prompt" /\ UNCHANGED control
      /\ UNCHANGED <<line, calls, callIndex, tail, success, fds, pipe, proc,
                     printed, flawed>>
  BY DEF JoinBegin
<1>2. /\ line \in 1..MaxLines /\ calls \in 1..MaxCalls /\ line \in Nat
      /\ IF success THEN tail = <<line, calls>> ELSE line \in flawed
  BY <1>1, PipelineAssumption DEF OutputInv, LoopInv, Working
<1>3. ProcTypes' /\ OwnLine'
  <2>1. success => tail \in Procs
    BY <1>2 DEF Procs
  <2> QED BY <1>1, <2>1 DEF OutputInv, ProcTypes, OwnLine
<1>4. LoopInv'
  BY <1>1, <1>2 DEF OutputInv, LoopInv, Spawning, Working
<1>5. ReadersHeld'
  BY <1>1 DEF ReadersHeld, Spawning
<1>6. FlowInv'
  <2>1. CASE shell' = "join"
    <3>1. Spawned' = Spawned /\ shell \in Working
      BY <1>1, <2>1 DEF Spawned, Working
    <3> QED BY <1>1, <3>1, FlowKept DEF OutputInv
  <2>2. CASE shell' = "prompt"
    BY <2>2 DEF FlowInv, Working, Spawning
  <2> QED BY <1>1, <2>1, <2>2
<1>7. shell' # "prompt" \/ Settled(line)'
  BY <1>1, <1>2 DEF Settled
<1>8. SettledInv' /\ FutureInv'
  BY <1>1, <1>2, <1>7, EarlierKept, FutureKept DEF OutputInv
<1> QED BY <1>3, <1>4, <1>5, <1>6, <1>8 DEF OutputInv

\* The last process has ended, and unless something went wrong it had put
\* all items when it did.
LEMMA JoinEndOutput == ASSUME OutputInv, JoinEnd PROVE OutputInv'
<1>1. /\ shell = "join" /\ proc[tail].state = "ended" /\ shell' = "prompt"
      /\ control' = None
      /\ UNCHANGED <<line, calls, callIndex, fds, pipe, proc, printed, flawed>>
  BY DEF JoinEnd
<1>2. /\ line \in 1..MaxLines /\ calls \in 1..MaxCalls /\ line \in Nat
      /\ tail = <<line, calls>>
  BY <1>1, PipelineAssumption DEF OutputInv, LoopInv, Working
<1>3. ProcTypes' /\ OwnLine' /\ LoopInv'
  BY <1>1 DEF OutputInv, ProcTypes, OwnLine, LoopInv, Spawning, Working
<1>4. ReadersHeld' /\ FlowInv'
  BY <1>1 DEF ReadersHeld, FlowInv, Spawning, Working
<1>5. Settled(line)'
  <2>1. CASE line \in flawed
    BY <1>1, <2>1 DEF Settled
  <2>2. CASE line \notin flawed
    <3>1. PICK put \in [1..MaxCalls -> Nat], got \in [1..MaxCalls -> Nat] :
            Flow(put, got)
      BY <1>1, <2>2 DEF OutputInv, FlowInv, Working
    <3>2. calls \in 1..calls /\ \A i \in 1..MaxCalls : i \in 1..calls \/ i > calls
      BY <1>2, PipelineAssumption
    <3>3. put[calls] = Items
      BY <1>1, <1>2, <3>1, <3>2 DEF Flow, ProcFlow
    <3>4. printed[line] = From(0, Items)
      BY <3>1, <3>3 DEF Flow
    <3>5. ASSUME NEW i \in 1..MaxCalls, Running(<<line, i>>)
          PROVE  proc[<<line, i>>].stdout # None
      <4>1. i \in 1..calls
        BY <3>1, <3>2, <3>5 DEF Flow, Running
      <4>2. i # calls
        BY <1>1, <1>2, <3>5 DEF Running
      <4>3. proc[<<line, i>>].stdout = <<line, i>>
        BY <3>1, <3>5, <4>1, <4>2 DEF Flow, ProcFlow
      <4> QED BY <1>2, <4>3 DEF None
    <3>6. \A p \in Procs : p[1] = line /\ Running(p) => proc[p].stdout # None
      BY <3>5 DEF Procs
    <3> QED BY <1>1, <3>4, <3>6 DEF Settled, Running
  <2> QED BY <2>1, <2>2
<1>6. SettledInv' /\ FutureInv'
  BY <1>1, <1>2, <1>5, EarlierKept, FutureKept DEF OutputInv
<1> QED BY <1>3, <1>4, <1>6 DEF OutputInv

LEMMA InputEndsOutput == ASSUME OutputInv, InputEnds PROVE OutputInv'
<1>1. /\ shell' = "gone"
      /\ UNCHANGED <<line, calls, callIndex, control, pipe, proc, printed, flawed>>
  BY DEF InputEnds
<1>2. line \in Nat
  BY PipelineAssumption DEF OutputInv, LoopInv
<1>3. ProcTypes' /\ OwnLine' /\ LoopInv'
  BY <1>1 DEF OutputInv, ProcTypes, OwnLine, LoopInv, Spawning, Working
<1>4. ReadersHeld' /\ FlowInv'
  BY <1>1 DEF ReadersHeld, FlowInv, Spawning, Working
<1>5. SettledInv' /\ FutureInv'
  BY <1>1, <1>2, EarlierKept, FutureKept DEF OutputInv
<1> QED BY <1>3, <1>4, <1>5 DEF OutputInv

\* The process that is spawned takes its place in the flow: it reads what its
\* left neighbour has put, of which nobody has got anything yet.
LEMMA SpawnOutput == ASSUME OutputInv, SpawnSuccessful PROVE OutputInv'
<1> DEFINE new == [state |-> "running", stdin |-> StdioIn.stdin,
                   stdout |-> StdioIn.stdout, carry |-> 0, done |-> 0]
           k == callIndex + 1
<1>1. /\ shell = "spawn" /\ shell' = "close" /\ success' = TRUE
      /\ tail' = Current /\ proc' = [proc EXCEPT ![Current] = new]
      /\ UNCHANGED <<line, calls, callIndex, lastPipeRead, pipeWrite, pipeRead,
                     fds, control, pipe, printed, flawed>>
      /\ Current' = Current
  BY DEF SpawnSuccessful, Current
<1>2. /\ line \in 1..MaxLines /\ line \in Nat /\ callIndex \in Nat
      /\ calls \in 1..MaxCalls /\ callIndex < calls /\ calls \in Nat
      /\ lastPipeRead = IF callIndex = 0 THEN None ELSE <<line, callIndex>>
      /\ pipeWrite = IF callIndex < calls - 1 THEN Current ELSE None
  BY <1>1, PipelineAssumption DEF OutputInv, LoopInv, Spawning, Working
<1>3. /\ Current \in Procs /\ Current = <<line, k>> /\ Current[1] = line
      /\ k \in 1..calls /\ k \in 1..MaxCalls /\ k \in Nat
  <2>1. Current \in Procs /\ Current = <<line, k>> /\ Current[1] = line
    BY <1>1, CurrentProc DEF OutputInv, Spawning
  <2>2. k \in 1..calls /\ k \in 1..MaxCalls /\ k \in Nat
    BY <1>2, PipelineAssumption
  <2> QED BY <2>1, <2>2
<1>4. /\ StdioIn.stdin = IF k = 1 THEN None ELSE <<line, k - 1>>
      /\ StdioIn.stdout = IF k = calls THEN None ELSE Current
  BY <1>2 DEF StdioIn
<1>5. /\ StdioIn.stdin \in Procs \cup {None}
      /\ StdioIn.stdout \in Procs \cup {None}
      /\ StdioIn.stdin = None \/ StdioIn.stdin[1] = line
  <2>1. k # 1 => k - 1 \in 1..MaxCalls
    BY <1>3, PipelineAssumption
  <2>2. k # 1 => <<line, k - 1>> \in Procs /\ <<line, k - 1>>[1] = line
    BY <1>2, <2>1 DEF Procs
  <2> HIDE DEF k
  <2> QED BY <1>3, <1>4, <2>2
<1>6. /\ proc'[Current] = new
      /\ \A p \in Procs : p # Current => proc'[p] = proc[p]
      /\ new \in [state : {"none", "running", "ended"},
                  stdin : Procs \cup {None}, stdout : Procs \cup {None},
                  carry : Nat, done : Nat]
  BY <1>1, <1>3, <1>5 DEF OutputInv, ProcTypes
<1>7. /\ new.state = "running" /\ new.carry = 0 /\ new.done = 0
      /\ new.stdin = StdioIn.stdin /\ new.stdout = StdioIn.stdout
  OBVIOUS
<1> HIDE DEF new
<1>8. ProcTypes'
  BY <1>1, <1>6 DEF OutputInv, ProcTypes
<1>9. OwnLine'
  <2> SUFFICES ASSUME NEW p \in Procs
               PROVE  /\ proc'[p].stdin = None \/ proc'[p].stdin[1] = p[1]
                      /\ proc'[p].stdout \in {None, p}
    BY DEF OwnLine
  <2>1. CASE p = Current
    BY <1>3, <1>4, <1>5, <1>6, <1>7, <2>1
  <2>2. CASE p # Current
    BY <1>6, <2>2 DEF OutputInv, OwnLine
  <2> QED BY <2>1, <2>2
<1>10. LoopInv'
  BY <1>1, <1>2 DEF OutputInv, LoopInv, Spawning, Working
<1>11. ReadersHeld'
  BY <1>1 DEF OutputInv, ReadersHeld, Spawning, Read
<1>12. FutureInv'
  <2>1. \A p \in Procs : p[1] > line => p # Current
    BY <1>2, <1>3
  <2> QED BY <1>1, <1>6, <2>1 DEF OutputInv, FutureInv
<1>13. FlowInv'
  <2> SUFFICES ASSUME line \notin flawed
               PROVE  (\E put, got \in [1..MaxCalls -> Nat] : Flow(put, got))'
    BY <1>1 DEF FlowInv
  <2>1. PICK put \in [1..MaxCalls -> Nat], got \in [1..MaxCalls -> Nat] :
          Flow(put, got)
    BY <1>1 DEF OutputInv, FlowInv, Working, Spawning
  <2>2. Spawned = callIndex /\ Spawned' = k
    BY <1>1 DEF Spawned
  <2>3. \A i \in 1..MaxCalls : /\ <<line, i>> \in Procs
                               /\ i # k => <<line, i>> # Current
    BY <1>2, <1>3 DEF Procs
  <2>4. ASSUME NEW i \in 1..calls PROVE ProcFlow(i, put, got)'
    <3>0. i \in 1..MaxCalls /\ i \in Nat /\ put[i] \in Nat /\ got[i] \in Nat
      BY <1>2, PipelineAssumption
    <3>1. ProcFlow(i, put, got)
      BY <2>1 DEF Flow
    <3>2. CASE i = k
      <4>1. got[i] = 0 /\ put[i] = 0
        BY <1>2, <2>2, <3>0, <3>1, <3>2 DEF ProcFlow
      <4>2. /\ proc'[<<line, i>>] = new /\ i <= k /\ ~(i > k)
            /\ Current = <<line, i>>
        BY <1>3, <1>6, <3>2
      <4>3. Items \in Nat
        BY PipelineAssumption
      <4> HIDE DEF k
      <4> QED BY <1>1, <1>4, <1>7, <2>2, <3>2, <4>1, <4>2, <4>3
              DEF ProcFlow, Running
    <3>3. CASE i # k
      <4>1. proc'[<<line, i>>] = proc[<<line, i>>]
        BY <1>6, <2>3, <3>0, <3>3
      <4>2. (i > k => i > callIndex) /\ (i <= k => i <= callIndex)
        BY <1>2, <3>0, <3>3
      <4> QED BY <1>1, <2>2, <3>1, <4>1, <4>2 DEF ProcFlow, Running
    <3> QED BY <3>2, <3>3
  <2>5. ASSUME NEW i \in 1..(calls - 1) PROVE PipeFlow(i, put, got)'
    BY <1>1, <2>1 DEF Flow, PipeFlow
  <2>6. ASSUME NEW i \in 1..MaxCalls, i > calls
        PROVE  proc'[<<line, i>>].state = "none"
    <3>1. i # k
      BY <1>2, <2>6
    <3> QED BY <1>6, <2>1, <2>3, <2>6, <3>1 DEF Flow
  <2>7. Flow(put, got)'
    BY <1>1, <2>1, <2>4, <2>5, <2>6 DEF Flow
  <2> QED BY <2>7
<1>14. SettledInv'
  <2> SUFFICES ASSUME NEW l \in 1..line, l < line PROVE Settled(l)'
    BY <1>1 DEF SettledInv
  <2>1. \A p \in Procs : p[1] = l => proc'[p] = proc[p]
    BY <1>2, <1>3, <1>6
  <2>2. Settled(l)
    BY DEF OutputInv, SettledInv
  <2> QED BY <1>1, <2>1, <2>2 DEF Settled, Running
<1> QED BY <1>8, <1>9, <1>10, <1>11, <1>12, <1>13, <1>14 DEF OutputInv
-----------------------------------------------------------------------------
(* The programs                                                            *)

Record == [state : {"none", "running", "ended"}, stdin : Procs \cup {None},
           stdout : Procs \cup {None}, carry : Nat, done : Nat]
Ended == [NoProcess EXCEPT !.state = "ended"]

\* What a step of the process p may touch.
Moves(p) ==
  /\ Running(p) /\ UNCHANGED shellVars /\ flawed \subseteq flawed'
  /\ proc' \in [Procs -> Record] /\ pipe' \in [Procs -> Seq(Nat)]
  /\ printed' \in [1..MaxLines -> Seq(Nat)]
  /\ \A q \in Procs : q # p => proc'[q] = proc[q]
  /\ \/ proc'[p] = Ended
     \/ /\ proc'[p].state = "running" /\ proc'[p].stdin = proc[p].stdin
        /\ proc'[p].stdout = proc[p].stdout
  /\ \A q \in Procs : q[1] # p[1] => pipe'[q] = pipe[q]
  /\ \A l \in 1..MaxLines : l # p[1] => printed'[l] = printed[l]
  /\ proc[p].stdout # None => printed' = printed

LEMMA EndedIs ==
  /\ Ended \in Record /\ Ended.state = "ended"
  /\ Ended.stdin = None /\ Ended.stdout = None
BY DEF Ended, NoProcess, Record

LEMMA ProcRecord ==
  ASSUME OutputInv, NEW p \in Procs
  PROVE  /\ proc[p] \in Record /\ proc \in [Procs -> Record]
         /\ pipe \in [Procs -> Seq(Nat)] /\ printed \in [1..MaxLines -> Seq(Nat)]
         /\ proc[p].stdin \in Procs \cup {None}
         /\ proc[p].stdout \in {None, p} /\ proc[p].carry \in Nat
         /\ proc[p].done \in Nat
         /\ proc[p].stdin # None => proc[p].stdin[1] = p[1]
BY DEF OutputInv, ProcTypes, OwnLine, Record

\* A process that ends.
LEMMA EndMoves ==
  ASSUME OutputInv, NEW p \in Procs, Running(p), EndOf(p), UNCHANGED shellVars,
         flawed \subseteq flawed', UNCHANGED <<pipe, printed>>
  PROVE  Moves(p) /\ proc'[p] = Ended
<1>1. proc' = [proc EXCEPT ![p] = Ended]
  BY DEF EndOf, Ended
<1>2. proc \in [Procs -> Record] /\ pipe \in [Procs -> Seq(Nat)]
      /\ printed \in [1..MaxLines -> Seq(Nat)]
  BY ProcRecord
<1>3. proc' \in [Procs -> Record] /\ proc'[p] = Ended
      /\ \A q \in Procs : q # p => proc'[q] = proc[q]
  BY <1>1, <1>2, EndedIs
<1> QED BY <1>2, <1>3 DEF Moves

\* A process that gets an item, and how its state changes.
LEMMA GetMoves ==
  ASSUME OutputInv, NEW p \in Procs, GetItem(p)
  PROVE  /\ Moves(p) /\ proc'[p].state = "running" /\ proc[p].carry = 0
         /\ UNCHANGED <<printed, flawed>>
         /\ proc'[p].stdin = proc[p].stdin /\ proc'[p].stdout = proc[p].stdout
         /\ \/ /\ proc[p].stdin = None /\ proc[p].done < Items
               /\ proc'[p].carry = proc[p].done + 1
               /\ proc'[p].done = proc[p].done + 1
               /\ UNCHANGED pipe
            \/ /\ proc[p].stdin # None /\ pipe[proc[p].stdin] # <<>>
               /\ proc'[p].carry = Head(pipe[proc[p].stdin])
               /\ proc'[p].done = proc[p].done
               /\ pipe' = [pipe EXCEPT ![proc[p].stdin] = Tail(@)]
<1> DEFINE in == proc[p].stdin
<1>0. /\ Running(p) /\ proc[p].carry = 0 /\ UNCHANGED shellVars
      /\ UNCHANGED <<printed, flawed>> /\ proc[p].state = "running"
  BY DEF GetItem, Running
<1>1. /\ proc[p] \in Record /\ proc \in [Procs -> Record]
      /\ pipe \in [Procs -> Seq(Nat)] /\ printed \in [1..MaxLines -> Seq(Nat)]
      /\ in \in Procs \cup {None} /\ proc[p].done \in Nat
      /\ in # None => in[1] = p[1]
  BY ProcRecord
<1>2. CASE /\ in = None /\ proc[p].done < Items /\ UNCHANGED pipe
           /\ proc' = [proc EXCEPT ![p].carry = proc[p].done + 1,
                                   ![p].done = @ + 1]
  <2> DEFINE d == proc[p].done + 1
             r == [proc[p] EXCEPT !.carry = d, !.done = d]
  <2>0. d \in Nat
    BY <1>1
  <2>2. proc' = [proc EXCEPT ![p] = r]
    BY <1>1, <1>2 DEF Record
  <2> HIDE DEF d
  <2>1. /\ r \in Record /\ r.state = "running" /\ r.stdin = in
        /\ r.stdout = proc[p].stdout /\ r.carry = d /\ r.done = d
    BY <1>0, <1>1, <2>0 DEF Record
  <2> HIDE DEF r
  <2>3. proc' \in [Procs -> Record] /\ proc'[p] = r
        /\ \A q \in Procs : q # p => proc'[q] = proc[q]
    BY <1>1, <2>1, <2>2
  <2> QED BY <1>0, <1>1, <1>2, <2>1, <2>3 DEF Moves, d
<1>3. CASE /\ in # None /\ pipe[in] # <<>>
           /\ proc' = [proc EXCEPT ![p].carry = Head(pipe[in])]
           /\ pipe' = [pipe EXCEPT ![in] = Tail(@)]
  <2> DEFINE h == Head(pipe[in])
             r == [proc[p] EXCEPT !.carry = h]
  <2>0. in \in Procs /\ pipe[in] \in Seq(Nat)
    BY <1>1, <1>3
  <2>1. h \in Nat /\ Tail(pipe[in]) \in Seq(Nat)
    BY <1>3, <2>0
  <2>2. pipe' \in [Procs -> Seq(Nat)]
        /\ \A q \in Procs : q[1] # p[1] => pipe'[q] = pipe[q]
    BY <1>1, <1>3, <2>0, <2>1
  <2> HIDE DEF h
  <2>3. /\ r \in Record /\ r.state = "running" /\ r.stdin = in
        /\ r.stdout = proc[p].stdout /\ r.carry = h /\ r.done = proc[p].done
    BY <1>0, <1>1, <2>1 DEF Record
  <2>4. proc' = [proc EXCEPT ![p] = r]
    BY <1>1, <1>3 DEF h
  <2> HIDE DEF r
  <2>5. proc' \in [Procs -> Record] /\ proc'[p] = r
        /\ \A q \in Procs : q # p => proc'[q] = proc[q]
    BY <1>1, <2>3, <2>4
  <2> QED BY <1>0, <1>1, <1>3, <2>2, <2>3, <2>5 DEF Moves, h
<1> QED BY <1>2, <1>3, Zenon DEF GetItem

\* A process that puts one.
LEMMA PutMoves ==
  ASSUME OutputInv, NEW p \in Procs, PutItem(p)
  PROVE  /\ Moves(p) /\ proc'[p].state = "running" /\ proc[p].carry # 0
         /\ UNCHANGED flawed
         /\ proc'[p].stdin = proc[p].stdin /\ proc'[p].stdout = proc[p].stdout
         /\ proc'[p].carry = 0 /\ proc'[p].done = proc[p].done
         /\ \/ /\ proc[p].stdout = None /\ UNCHANGED pipe
               /\ printed' = [printed EXCEPT ![p[1]] = Append(@, proc[p].carry)]
            \/ /\ proc[p].stdout = p /\ proc[p].stdout # None
               /\ UNCHANGED printed
               /\ pipe' = [pipe EXCEPT ![p] = Append(@, proc[p].carry)]
<1> DEFINE out == proc[p].stdout
           x == proc[p].carry
           r == [proc[p] EXCEPT !.carry = 0]
<1>0. /\ Running(p) /\ x # 0 /\ UNCHANGED shellVars /\ UNCHANGED flawed
      /\ proc[p].state = "running" /\ proc' = [proc EXCEPT ![p].carry = 0]
  BY DEF PutItem, Running
<1>1. /\ proc[p] \in Record /\ proc \in [Procs -> Record]
      /\ pipe \in [Procs -> Seq(Nat)] /\ printed \in [1..MaxLines -> Seq(Nat)]
      /\ out \in {None, p} /\ x \in Nat /\ p[1] \in 1..MaxLines
  BY ProcRecord DEF Procs
<1>2. /\ r \in Record /\ r.state = "running" /\ r.stdin = proc[p].stdin
      /\ r.stdout = out /\ r.carry = 0 /\ r.done = proc[p].done
  BY <1>0, <1>1 DEF Record
<1>3. proc' = [proc EXCEPT ![p] = r]
  BY <1>0
<1> HIDE DEF r, x
<1>4. proc' \in [Procs -> Record] /\ proc'[p] = r
      /\ \A q \in Procs : q # p => proc'[q] = proc[q]
  BY <1>1, <1>2, <1>3
<1>5. CASE /\ out = None /\ UNCHANGED pipe
           /\ printed' = [printed EXCEPT ![p[1]] = Append(@, x)]
  <2>1. printed[p[1]] \in Seq(Nat)
    BY <1>1
  <2>2. Append(printed[p[1]], x) \in Seq(Nat)
    BY <1>1, <2>1
  <2>3. printed' \in [1..MaxLines -> Seq(Nat)]
        /\ \A l \in 1..MaxLines : l # p[1] => printed'[l] = printed[l]
    BY <1>1, <1>5, <2>2
  <2> QED BY <1>0, <1>1, <1>2, <1>4, <1>5, <2>3 DEF Moves, x
<1>6. CASE /\ out # None /\ UNCHANGED printed
           /\ pipe' = [pipe EXCEPT ![out] = Append(@, x)]
  <2>0. out = p /\ pipe[p] \in Seq(Nat)
    BY <1>1, <1>6
  <2>1. Append(pipe[p], x) \in Seq(Nat)
    BY <1>1, <2>0
  <2>2. pipe' \in [Procs -> Seq(Nat)]
        /\ \A q \in Procs : q[1] # p[1] => pipe'[q] = pipe[q]
    BY <1>1, <1>6, <2>0, <2>1
  <2> QED BY <1>0, <1>1, <1>2, <1>4, <1>6, <2>0, <2>2 DEF Moves, x
<1> QED BY <1>5, <1>6, Zenon DEF PutItem, x

\* Everything but the flow of the present line survives such a step.
LEMMA MovesKeep ==
  ASSUME OutputInv, NEW p \in Procs, Moves(p)
  PROVE  /\ ProcTypes' /\ OwnLine' /\ LoopInv' /\ ReadersHeld' /\ FutureInv'
         /\ SettledInv' /\ p[1] <= line
<1>1. UNCHANGED <<shell, line, calls, callIndex, lastPipeRead, pipeWrite,
                  pipeRead, tail, success, fds, control>>
      /\ Current' = Current /\ flawed \subseteq flawed'
  BY DEF Moves, shellVars, Current
<1>2. ProcTypes'
  BY <1>1 DEF OutputInv, ProcTypes, Moves, Record
<1>3. OwnLine'
  <2> SUFFICES ASSUME NEW q \in Procs
               PROVE  /\ proc'[q].stdin = None \/ proc'[q].stdin[1] = q[1]
                      /\ proc'[q].stdout \in {None, q}
    BY DEF OwnLine
  <2>1. CASE q = p
    BY <2>1, EndedIs DEF OutputInv, OwnLine, Moves
  <2>2. CASE q # p
    BY <2>2 DEF OutputInv, OwnLine, Moves
  <2> QED BY <2>1, <2>2
<1>4. LoopInv'
  BY <1>1 DEF OutputInv, LoopInv
<1>5. ReadersHeld'
  BY <1>1 DEF OutputInv, ReadersHeld, Read
<1>6. p[1] <= line /\ p[1] \in Nat /\ line \in Nat
  <2>1. p[1] \in Nat /\ line \in Nat
    BY PipelineAssumption DEF OutputInv, LoopInv, Procs
  <2>2. ~(p[1] > line)
    BY DEF OutputInv, FutureInv, Moves, Running
  <2> QED BY <2>1, <2>2
<1>7. FutureInv'
  <2>1. ASSUME NEW q \in Procs, q[1] > line
        PROVE  proc'[q].state = "none" /\ pipe'[q] = <<>>
    <3>1. q[1] \in Nat
      BY PipelineAssumption DEF Procs
    <3>2. q[1] # p[1]
      BY <1>6, <2>1, <3>1
    <3>3. proc'[q] = proc[q] /\ pipe'[q] = pipe[q]
      BY <3>2 DEF Moves
    <3> QED BY <2>1, <3>3 DEF OutputInv, FutureInv
  <2>2. ASSUME NEW l \in 1..MaxLines, l > line PROVE printed'[l] = <<>>
    <3>1. l # p[1]
      BY <1>6, <2>2
    <3> QED BY <2>2, <3>1 DEF OutputInv, FutureInv, Moves
  <2> QED BY <1>1, <2>1, <2>2 DEF FutureInv
<1>8. SettledInv'
  <2> SUFFICES ASSUME NEW l \in 1..line, Settled(l) PROVE Settled(l)'
    BY <1>1 DEF OutputInv, SettledInv
  <2>0. l \in 1..MaxLines
    BY PipelineAssumption DEF OutputInv, LoopInv
  <2>1. CASE l \in flawed
    BY <1>1, <2>1 DEF Settled
  <2>2. CASE l # p[1]
    <3>1. \A q \in Procs : q[1] = l => proc'[q] = proc[q]
      BY <2>2 DEF Moves
    <3>2. printed'[l] = printed[l]
      BY <2>0, <2>2 DEF Moves
    <3> QED BY <1>1, <3>1, <3>2 DEF Settled, Running
  <2>3. CASE l = p[1] /\ l \notin flawed
    <3>0. Running(p) /\ proc[p].state # "none"
      BY DEF Moves, Running
    <3>1. /\ printed[l] = From(0, Items)
          /\ \A q \in Procs : q[1] = l /\ Running(q) => proc[q].stdout # None
      BY <2>3, <3>0 DEF Settled
    <3>2. printed' = printed
      BY <2>3, <3>0, <3>1 DEF Moves
    <3>3. ASSUME NEW q \in Procs, q[1] = l, proc'[q].state = "running"
          PROVE  proc'[q].stdout # None
      <4>1. CASE q = p
        <5>1. proc'[p].stdout = proc[p].stdout
          BY <3>3, <4>1, EndedIs DEF Moves
        <5> QED BY <2>3, <3>0, <3>1, <4>1, <5>1
      <4>2. CASE q # p
        <5>1. proc'[q] = proc[q]
          BY <4>2 DEF Moves
        <5> QED BY <3>1, <3>3, <5>1 DEF Running
      <4> QED BY <4>1, <4>2
    <3> QED BY <3>1, <3>2, <3>3 DEF Settled, Running
  <2> QED BY <2>1, <2>2, <2>3
<1> QED BY <1>2, <1>3, <1>4, <1>5, <1>6, <1>7, <1>8

\* A step in another line does not touch the flow of the present one.
LEMMA OtherLine ==
  ASSUME OutputInv, NEW p \in Procs, Moves(p), p[1] # line
  PROVE  FlowInv'
<1> SUFFICES ASSUME shell' \in Working, line' \notin flawed'
             PROVE  (\E put, got \in [1..MaxCalls -> Nat] : Flow(put, got))'
  BY DEF FlowInv
<1>1. /\ UNCHANGED <<shell, line, calls, callIndex>> /\ flawed \subseteq flawed'
      /\ Spawned' = Spawned
  BY DEF Moves, shellVars, Spawned
<1>2. PICK put \in [1..MaxCalls -> Nat], got \in [1..MaxCalls -> Nat] :
        Flow(put, got)
  BY <1>1 DEF OutputInv, FlowInv
<1>3. line \in 1..MaxLines /\ calls \in 1..MaxCalls
  BY <1>1, PipelineAssumption DEF OutputInv, LoopInv
<1>4. \A i \in 1..MaxCalls : /\ proc'[<<line, i>>] = proc[<<line, i>>]
                             /\ pipe'[<<line, i>>] = pipe[<<line, i>>]
  <2>1. \A i \in 1..MaxCalls : <<line, i>> \in Procs /\ <<line, i>>[1] # p[1]
    BY <1>3 DEF Procs
  <2> QED BY <2>1 DEF Moves
<1>5. printed'[line] = printed[line]
  BY <1>3 DEF Moves
<1>6. \A i \in 1..calls : i \in 1..MaxCalls
  BY <1>3, PipelineAssumption
<1>7. ASSUME NEW i \in 1..calls PROVE ProcFlow(i, put, got)'
  BY <1>1, <1>2, <1>4, <1>6 DEF Flow, ProcFlow, Running
<1>8. ASSUME NEW i \in 1..(calls - 1) PROVE PipeFlow(i, put, got)'
  <2>1. i \in 1..MaxCalls
    BY <1>3, PipelineAssumption
  <2> QED BY <1>1, <1>2, <1>4, <2>1 DEF Flow, PipeFlow
<1>9. Flow(put, got)'
  BY <1>1, <1>2, <1>4, <1>5, <1>7, <1>8 DEF Flow
<1> QED BY <1>9

\* A process of the present line that runs is in the flow.
LEMMA Present ==
  ASSUME OutputInv, shell \in Working, NEW put, NEW got, Flow(put, got),
         NEW p \in Procs, Running(p), p[1] = line
  PROVE  /\ p = <<line, p[2]>> /\ p[2] \in 1..calls /\ p[2] <= Spawned
         /\ ProcFlow(p[2], put, got)
         /\ line \in 1..MaxLines /\ calls \in 1..MaxCalls /\ calls \in Nat
<1>1. /\ line \in 1..MaxLines /\ calls \in 1..MaxCalls /\ calls \in Nat
      /\ callIndex \in Nat
  BY PipelineAssumption DEF OutputInv, LoopInv
<1>2. p = <<line, p[2]>> /\ p[2] \in 1..MaxCalls /\ p[2] \in Nat
  BY PipelineAssumption DEF Procs
<1>3. p[2] \in 1..calls
  <2>1. ~(p[2] > calls)
    BY <1>2 DEF Flow, Running
  <2> QED BY <1>1, <1>2, <2>1
<1>4. ProcFlow(p[2], put, got)
  BY <1>3 DEF Flow
<1>5. Spawned \in Nat
  BY <1>1 DEF Spawned
<1>6. ~(p[2] > Spawned)
  BY <1>2, <1>4 DEF ProcFlow, Running
<1> QED BY <1>1, <1>2, <1>3, <1>4, <1>5, <1>6

\* A step of the process k of the present line changes the flow, from put and
\* got to put2 and got2, only there and in the pipes next to it.
FlowStep(k, put, got, put2, got2) ==
  /\ Flow(put, got)
  /\ put2 \in [1..MaxCalls -> Nat] /\ got2 \in [1..MaxCalls -> Nat]
  /\ \A i \in 1..MaxCalls : i # k => put2[i] = put[i] /\ got2[i] = got[i]
  /\ ProcFlow(k, put2, got2)'
  /\ k > 1 => PipeFlow(k - 1, put2, got2)'
  /\ k < calls => PipeFlow(k, put2, got2)'
  /\ \A i \in 1..MaxCalls : i # k /\ i + 1 # k =>
       pipe'[<<line, i>>] = pipe[<<line, i>>]
  /\ printed'[line] = From(0, put2[calls])

LEMMA FlowMoved ==
  ASSUME OutputInv, shell \in Working, NEW p \in Procs, Moves(p),
         NEW k \in Nat, p = <<line, k>>, NEW put, NEW got, NEW put2, NEW got2,
         FlowStep(k, put, got, put2, got2)
  PROVE  FlowInv'
<1>0. /\ Flow(put, got)
      /\ put2 \in [1..MaxCalls -> Nat] /\ got2 \in [1..MaxCalls -> Nat]
      /\ \A i \in 1..MaxCalls : i # k => put2[i] = put[i] /\ got2[i] = got[i]
      /\ ProcFlow(k, put2, got2)'
      /\ k > 1 => PipeFlow(k - 1, put2, got2)'
      /\ k < calls => PipeFlow(k, put2, got2)'
      /\ \A i \in 1..MaxCalls : i # k /\ i + 1 # k =>
           pipe'[<<line, i>>] = pipe[<<line, i>>]
      /\ printed'[line] = From(0, put2[calls])
  BY DEF FlowStep
<1>1. /\ UNCHANGED <<shell, line, calls, callIndex>> /\ Spawned' = Spawned
      /\ Running(p)
  BY DEF Moves, shellVars, Spawned
<1>2. /\ p = <<line, k>> /\ k \in 1..calls /\ line \in 1..MaxLines
      /\ calls \in 1..MaxCalls /\ calls \in Nat /\ k \in Nat
  <2>1. p[1] = line /\ p[2] = k
    OBVIOUS
  <2> QED BY <1>0, <1>1, <2>1, Present
<1>3. ASSUME NEW i \in 1..MaxCalls, i # k
      PROVE  proc'[<<line, i>>] = proc[<<line, i>>]
  <2>1. <<line, i>> \in Procs /\ <<line, i>> # p
    BY <1>2, <1>3 DEF Procs
  <2> QED BY <2>1 DEF Moves
<1>4. ASSUME NEW i \in 1..calls PROVE ProcFlow(i, put2, got2)'
  <2>1. CASE i = k
    BY <1>0, <2>1
  <2>2. CASE i # k
    <3>1. i \in 1..MaxCalls
      BY <1>2, PipelineAssumption
    <3>2. /\ proc'[<<line, i>>] = proc[<<line, i>>]
          /\ put2[i] = put[i] /\ got2[i] = got[i]
      BY <1>0, <1>3, <2>2, <3>1
    <3>3. ProcFlow(i, put, got)
      BY <1>0 DEF Flow
    <3> QED BY <1>1, <3>2, <3>3 DEF ProcFlow, Running
  <2> QED BY <2>1, <2>2
<1>5. ASSUME NEW i \in 1..(calls - 1) PROVE PipeFlow(i, put2, got2)'
  <2>0. i \in 1..MaxCalls /\ i + 1 \in 1..MaxCalls /\ i < calls /\ i \in Nat
    BY <1>2, PipelineAssumption
  <2>1. CASE i = k
    BY <1>0, <2>0, <2>1
  <2>2. CASE i + 1 = k
    <3>1. k > 1 /\ k - 1 = i
      BY <2>0, <2>2
    <3>2. PipeFlow(k - 1, put2, got2)'
      BY <1>0, <3>1
    <3> QED BY <3>1, <3>2
  <2>3. CASE i # k /\ i + 1 # k
    <3>1. /\ put2[i] = put[i] /\ got2[i + 1] = got[i + 1]
          /\ pipe'[<<line, i>>] = pipe[<<line, i>>]
      BY <1>0, <2>0, <2>3
    <3>2. PipeFlow(i, put, got)
      BY <1>0 DEF Flow
    <3> QED BY <1>1, <3>1, <3>2 DEF PipeFlow
  <2> QED BY <2>1, <2>2, <2>3
<1>6. ASSUME NEW i \in 1..MaxCalls, i > calls
      PROVE  proc'[<<line, i>>].state = "none"
  <2>1. i # k
    BY <1>2, <1>6
  <2> QED BY <1>0, <1>3, <1>6, <2>1 DEF Flow
<1>7. Flow(put2, got2)'
  BY <1>0, <1>1, <1>4, <1>5, <1>6 DEF Flow
<1> QED BY <1>0, <1>7 DEF FlowInv

\* GetItem: the item after those that the process has got.
LEMMA GetFlow ==
  ASSUME OutputInv, NEW p \in Procs, GetItem(p), p[1] = line
  PROVE  FlowInv'
<1> SUFFICES ASSUME shell' \in Working, line' \notin flawed' PROVE FlowInv'
  BY DEF FlowInv
<1>0. /\ Moves(p) /\ Running(p) /\ proc'[p].state = "running"
      /\ proc[p].carry = 0 /\ UNCHANGED <<printed, flawed>>
      /\ proc'[p].stdin = proc[p].stdin /\ proc'[p].stdout = proc[p].stdout
      /\ \/ /\ proc[p].stdin = None /\ proc[p].done < Items
            /\ proc'[p].carry = proc[p].done + 1
            /\ proc'[p].done = proc[p].done + 1
            /\ UNCHANGED pipe
         \/ /\ proc[p].stdin # None /\ pipe[proc[p].stdin] # <<>>
            /\ proc'[p].carry = Head(pipe[proc[p].stdin])
            /\ proc'[p].done = proc[p].done
            /\ pipe' = [pipe EXCEPT ![proc[p].stdin] = Tail(@)]
  BY GetMoves DEF Moves
<1>1. /\ UNCHANGED <<shell, line, calls, callIndex>> /\ Spawned' = Spawned
      /\ shell \in Working /\ line \notin flawed
  BY <1>0 DEF Moves, shellVars, Spawned
<1>2. PICK put \in [1..MaxCalls -> Nat], got \in [1..MaxCalls -> Nat] :
        Flow(put, got)
  BY <1>1 DEF OutputInv, FlowInv
<1>3. PICK k \in 1..calls :
        /\ p = <<line, k>> /\ k = p[2] /\ k <= Spawned /\ ProcFlow(k, put, got)
  BY <1>0, <1>1, <1>2, Present
<1>4. /\ line \in 1..MaxLines /\ calls \in 1..MaxCalls /\ calls \in Nat
      /\ k \in Nat /\ k \in 1..MaxCalls /\ MaxCalls \in Nat
  BY <1>0, <1>1, <1>2, Present, PipelineAssumption
<1>5. PICK got2 \in [1..MaxCalls -> Nat] :
        /\ got2[k] = got[k] + 1
        /\ \A i \in 1..MaxCalls : i # k => got2[i] = got[i]
  <2>1. /\ [got EXCEPT ![k] = got[k] + 1] \in [1..MaxCalls -> Nat]
        /\ [got EXCEPT ![k] = got[k] + 1][k] = got[k] + 1
        /\ \A i \in 1..MaxCalls : i # k => [got EXCEPT ![k] = got[k] + 1][i] = got[i]
    BY <1>4
  <2> QED BY <2>1
<1>6. /\ put[k] = got[k] /\ put[k] \in Nat /\ got[k] \in Nat
      /\ proc[p].stdin = IF k = 1 THEN None ELSE <<line, k - 1>>
      /\ proc[p].stdout = IF k = calls THEN None ELSE p
      /\ k = 1 => proc[p].done = got[k]
      /\ got[k] <= Items /\ Items \in Nat
  <2>1. put[k] = got[k]
    <3>1. put[k] \in Nat /\ got[k] \in Nat
      BY <1>4
    <3> QED BY <1>0, <1>3, <3>1 DEF ProcFlow
  <2> QED BY <1>0, <1>3, <1>4, <2>1, PipelineAssumption DEF ProcFlow
<1>7. k # 1 => proc[p].stdin # None
  BY <1>4, <1>6 DEF None
<1>8. k < calls => /\ got[k + 1] <= put[k] /\ got[k + 1] \in Nat
                   /\ got2[k + 1] = got[k + 1]
                   /\ pipe[p] = From(got[k + 1], put[k])
  <2> SUFFICES ASSUME k < calls
               PROVE  /\ got[k + 1] <= put[k] /\ got[k + 1] \in Nat
                      /\ got2[k + 1] = got[k + 1]
                      /\ pipe[p] = From(got[k + 1], put[k])
    OBVIOUS
  <2>1. k \in 1..(calls - 1) /\ k + 1 \in 1..MaxCalls /\ k + 1 # k
    BY <1>4
  <2> QED BY <1>2, <1>3, <1>5, <2>1 DEF Flow, PipeFlow
<1>9. ASSUME k = 1 PROVE FlowStep(k, put, got, put, got2)
  <2>1. /\ proc[p].stdin = None /\ proc[p].done < Items /\ UNCHANGED pipe
        /\ proc'[p].carry = got2[k] /\ proc'[p].done = got2[k]
        /\ got2[k] <= Items
    BY <1>0, <1>5, <1>6, <1>9
  <2>2. ProcFlow(k, put, got2)'
    <3>1. put[k] <= got2[k] /\ put[k] + 1 = got2[k]
      BY <1>5, <1>6
    <3>2. ~(k > Spawned)
      BY <1>1, <1>3, <1>4 DEF Spawned, OutputInv, LoopInv
    <3> QED BY <1>0, <1>1, <1>3, <1>6, <2>1, <3>1, <3>2 DEF ProcFlow, Running
  <2>3. k < calls => PipeFlow(k, put, got2)'
    BY <1>1, <1>3, <1>8, <2>1 DEF PipeFlow
  <2>4. printed'[line] = From(0, put[calls])
    BY <1>0, <1>2 DEF Flow
  <2>5. ~(k > 1)
    BY <1>9
  <2>6. \A i \in 1..MaxCalls : i # k /\ i + 1 # k =>
          pipe'[<<line, i>>] = pipe[<<line, i>>]
    BY <2>1
  <2> QED BY <1>2, <1>5, <2>2, <2>3, <2>4, <2>5, <2>6 DEF FlowStep
<1>10. ASSUME k # 1 PROVE FlowStep(k, put, got, put, got2)
  <2> DEFINE j == k - 1
             q == <<line, j>>
  <2>1. j \in 1..(calls - 1) /\ j \in 1..MaxCalls /\ j + 1 = k /\ j # k
        /\ j \in 1..calls /\ j \in Nat
    BY <1>4, <1>10
  <2>2. /\ proc[p].stdin = q /\ q # None /\ pipe[q] # <<>>
        /\ proc'[p].carry = Head(pipe[q])
        /\ pipe' = [pipe EXCEPT ![q] = Tail(@)]
    BY <1>0, <1>6, <1>7, <1>10
  <2>3. q \in Procs /\ q # p
    <3> HIDE DEF j
    <3>1. q \in Procs
      BY <1>4, <2>1 DEF Procs
    <3>2. q[2] = j /\ p[2] = k
      BY <1>3
    <3> QED BY <2>1, <3>1, <3>2
  <2>4. /\ got[k] <= put[j] /\ pipe[q] = From(got[k], put[j])
        /\ put[j] \in Nat /\ put[j] <= got[j] /\ got[j] <= Items /\ got[j] \in Nat
    <3>1. PipeFlow(j, put, got) /\ ProcFlow(j, put, got)
      BY <1>2, <2>1 DEF Flow
    <3> HIDE DEF j
    <3> QED BY <2>1, <3>1 DEF PipeFlow, ProcFlow
  <2> HIDE DEF j
  <2>5. got[k] # put[j]
    BY <1>6, <2>2, <2>4, FromIs
  <2>6. Head(pipe[q]) = got[k] + 1 /\ Tail(pipe[q]) = From(got[k] + 1, put[j])
    <3>1. /\ Head(From(got[k], put[j])) = got[k] + 1
          /\ Tail(From(got[k], put[j])) = From(got[k] + 1, put[j])
      BY <1>6, <2>4, <2>5, FromIs
    <3> QED BY <2>4, <3>1
  <2>7. /\ pipe'[q] = From(got2[k], put[j]) /\ got2[k] <= put[j]
        /\ got2[k] <= Items
    <3>1. pipe \in [Procs -> Seq(Nat)]
      BY ProcRecord
    <3>2. pipe'[q] = Tail(pipe[q])
      BY <2>2, <2>3, <3>1
    <3>3. got2[k] <= put[j] /\ got2[k] <= Items
      BY <1>5, <1>6, <2>4, <2>5
    <3> QED BY <1>5, <2>6, <3>2, <3>3
  <2>8. \A r \in Procs : r # q => pipe'[r] = pipe[r]
    BY <2>2
  <2>9. ProcFlow(k, put, got2)'
    <3>1. put[k] <= got2[k] /\ put[k] + 1 = got2[k]
      BY <1>5, <1>6
    <3>2. ~(k > Spawned)
      BY <1>1, <1>3, <1>4 DEF Spawned, OutputInv, LoopInv
    <3>3. proc'[p].carry = got2[k]
      BY <1>5, <2>2, <2>6
    <3> QED BY <1>0, <1>1, <1>3, <1>6, <1>10, <2>7, <3>1, <3>2, <3>3
            DEF ProcFlow, Running
  <2>10. k < calls => PipeFlow(k, put, got2)'
    <3>1. pipe'[p] = pipe[p]
      BY <2>3, <2>8
    <3> QED BY <1>1, <1>3, <1>8, <3>1 DEF PipeFlow
  <2>11. PipeFlow(j, put, got2)'
    BY <1>1, <2>1, <2>7 DEF PipeFlow
  <2>12. \A i \in 1..MaxCalls : i # k /\ i + 1 # k =>
           pipe'[<<line, i>>] = pipe[<<line, i>>]
    <3>1. \A i \in 1..MaxCalls : i + 1 # k =>
            <<line, i>> \in Procs /\ <<line, i>> # q
      BY <1>4, <2>1 DEF Procs
    <3> QED BY <2>8, <3>1
  <2>13. printed'[line] = From(0, put[calls])
    BY <1>0, <1>2 DEF Flow
  <2>14. PipeFlow(k - 1, put, got2)'
    BY <2>11 DEF j
  <2> QED BY <1>2, <1>5, <2>9, <2>10, <2>12, <2>13, <2>14 DEF FlowStep
<1>11. FlowStep(k, put, got, put, got2)
  BY <1>9, <1>10
<1> QED BY <1>0, <1>1, <1>3, <1>4, <1>11, FlowMoved

\* PutItem: the item that the process carries is the next of those it has put.
LEMMA PutFlow ==
  ASSUME OutputInv, NEW p \in Procs, PutItem(p), p[1] = line
  PROVE  FlowInv'
<1> SUFFICES ASSUME shell' \in Working, line' \notin flawed' PROVE FlowInv'
  BY DEF FlowInv
<1>0. /\ Moves(p) /\ Running(p) /\ proc'[p].state = "running"
      /\ proc[p].carry # 0 /\ UNCHANGED flawed
      /\ proc'[p].stdin = proc[p].stdin /\ proc'[p].stdout = proc[p].stdout
      /\ proc'[p].carry = 0 /\ proc'[p].done = proc[p].done
      /\ \/ /\ proc[p].stdout = None /\ UNCHANGED pipe
            /\ printed' = [printed EXCEPT ![p[1]] = Append(@, proc[p].carry)]
         \/ /\ proc[p].stdout = p /\ proc[p].stdout # None
            /\ UNCHANGED printed
            /\ pipe' = [pipe EXCEPT ![p] = Append(@, proc[p].carry)]
  BY PutMoves DEF Moves
<1>1. /\ UNCHANGED <<shell, line, calls, callIndex>> /\ Spawned' = Spawned
      /\ shell \in Working /\ line \notin flawed
  BY <1>0 DEF Moves, shellVars, Spawned
<1>2. PICK put \in [1..MaxCalls -> Nat], got \in [1..MaxCalls -> Nat] :
        Flow(put, got)
  BY <1>1 DEF OutputInv, FlowInv
<1>3. PICK k \in 1..calls :
        /\ p = <<line, k>> /\ k = p[2] /\ k <= Spawned /\ ProcFlow(k, put, got)
  BY <1>0, <1>1, <1>2, Present
<1>4. /\ line \in 1..MaxLines /\ calls \in 1..MaxCalls /\ calls \in Nat
      /\ k \in Nat /\ k \in 1..MaxCalls /\ MaxCalls \in Nat
  BY <1>0, <1>1, <1>2, Present, PipelineAssumption
<1>5. PICK put2 \in [1..MaxCalls -> Nat] :
        /\ put2[k] = put[k] + 1
        /\ \A i \in 1..MaxCalls : i # k => put2[i] = put[i]
  <2>1. /\ [put EXCEPT ![k] = put[k] + 1] \in [1..MaxCalls -> Nat]
        /\ [put EXCEPT ![k] = put[k] + 1][k] = put[k] + 1
        /\ \A i \in 1..MaxCalls : i # k => [put EXCEPT ![k] = put[k] + 1][i] = put[i]
    BY <1>4
  <2> QED BY <2>1
<1>6. /\ put[k] + 1 = got[k] /\ put[k] \in Nat /\ got[k] \in Nat
      /\ proc[p].carry = put[k] + 1
      /\ proc[p].stdin = IF k = 1 THEN None ELSE <<line, k - 1>>
      /\ proc[p].stdout = IF k = calls THEN None ELSE p
      /\ k = 1 => proc[p].done = got[k]
      /\ got[k] <= Items /\ Items \in Nat
  <2>1. put[k] + 1 = got[k] /\ proc[p].carry = got[k]
    <3>1. put[k] \in Nat /\ got[k] \in Nat
      BY <1>4
    <3> QED BY <1>0, <1>3, <3>1 DEF ProcFlow
  <2> QED BY <1>0, <1>3, <1>4, <2>1, PipelineAssumption DEF ProcFlow
<1>7. p # None
  BY <1>3, <1>4 DEF None
<1>8. ProcFlow(k, put2, got)'
  <2>1. put2[k] <= got[k] /\ put2[k] = got[k]
    BY <1>5, <1>6
  <2>2. ~(k > Spawned)
    BY <1>1, <1>3, <1>4 DEF Spawned, OutputInv, LoopInv
  <2> QED BY <1>0, <1>1, <1>3, <1>6, <2>1, <2>2 DEF ProcFlow, Running
<1>9. ASSUME NEW r \in Procs, r # p PROVE pipe'[r] = pipe[r]
  <2>1. pipe \in [Procs -> Seq(Nat)]
    BY ProcRecord
  <2>2. CASE pipe' = pipe
    BY <2>2
  <2>3. CASE pipe' = [pipe EXCEPT ![p] = Append(@, proc[p].carry)]
    BY <1>9, <2>1, <2>3
  <2> QED BY <1>0, <2>2, <2>3
<1>10. \A i \in 1..MaxCalls : i # k => pipe'[<<line, i>>] = pipe[<<line, i>>]
  <2> SUFFICES ASSUME NEW i \in 1..MaxCalls, i # k
               PROVE  pipe'[<<line, i>>] = pipe[<<line, i>>]
    OBVIOUS
  <2>1. <<line, i>> \in Procs
    BY <1>4 DEF Procs
  <2>2. <<line, i>>[2] = i /\ p[2] = k
    BY <1>3
  <2> QED BY <1>9, <2>1, <2>2
<1>11. ASSUME k > 1 PROVE PipeFlow(k - 1, put2, got)'
  <2>1. PICK j \in 1..(calls - 1) : j = k - 1
    BY <1>4, <1>11
  <2>2. j \in 1..MaxCalls /\ j # k /\ j + 1 = k
    BY <1>4, <2>1
  <2>3. PipeFlow(j, put, got)
    BY <1>2 DEF Flow
  <2>4. put2[j] = put[j] /\ pipe'[<<line, j>>] = pipe[<<line, j>>]
    BY <1>5, <1>10, <2>2
  <2>5. PipeFlow(j, put2, got)'
    BY <1>1, <2>3, <2>4 DEF PipeFlow
  <2> QED BY <2>1, <2>5
<1>12. pipe \in [Procs -> Seq(Nat)] /\ printed \in [1..MaxLines -> Seq(Nat)]
  BY ProcRecord
<1>13. CASE k = calls
  <2>1. /\ proc[p].stdout = None
        /\ printed' = [printed EXCEPT ![line] = Append(@, put[k] + 1)]
    BY <1>0, <1>6, <1>7, <1>13
  <2>2. printed[line] = From(0, put[k])
    BY <1>2, <1>13 DEF Flow
  <2>3. Append(From(0, put[k]), put[k] + 1) = From(0, put[k] + 1)
    <3>1. 0 \in Nat /\ put[k] \in Nat /\ 0 <= put[k]
      BY <1>6
    <3> QED BY <3>1, AppendFrom, Zenon
  <2>4. printed'[line] = From(0, put2[calls])
    BY <1>4, <1>5, <1>12, <1>13, <2>1, <2>2, <2>3
  <2>5. ~(k < calls)
    BY <1>4, <1>13
  <2>6. FlowStep(k, put, got, put2, got)
    BY <1>2, <1>5, <1>8, <1>10, <1>11, <2>4, <2>5 DEF FlowStep
  <2> QED BY <1>0, <1>1, <1>3, <1>4, <2>6, FlowMoved
<1>14. CASE k # calls
  <2>0. k \in 1..(calls - 1) /\ k + 1 \in 1..MaxCalls
    BY <1>4, <1>14
  <2>1. /\ UNCHANGED printed
        /\ pipe' = [pipe EXCEPT ![p] = Append(@, put[k] + 1)]
    BY <1>0, <1>6, <1>7, <1>14
  <2>2. /\ pipe[p] = From(got[k + 1], put[k]) /\ got[k + 1] <= put[k]
        /\ got[k + 1] \in Nat
    BY <1>2, <1>3, <2>0 DEF Flow, PipeFlow
  <2>3. Append(From(got[k + 1], put[k]), put[k] + 1) = From(got[k + 1], put[k] + 1)
    BY <1>6, <2>2, AppendFrom
  <2>4. pipe'[p] = From(got[k + 1], put2[k]) /\ got[k + 1] <= put2[k]
    BY <1>5, <1>6, <1>12, <2>1, <2>2, <2>3
  <2>5. PipeFlow(k, put2, got)'
    BY <1>1, <1>3, <2>4 DEF PipeFlow
  <2>6. printed'[line] = From(0, put2[calls])
    BY <1>2, <1>4, <1>5, <1>14, <2>1 DEF Flow
  <2>7. FlowStep(k, put, got, put2, got)
    BY <1>2, <1>5, <1>8, <1>10, <1>11, <2>5, <2>6 DEF FlowStep
  <2> QED BY <1>0, <1>1, <1>3, <1>4, <2>7, FlowMoved
<1> QED BY <1>13, <1>14

\* A process that has put all items may end.
LEMMA EndFlow ==
  ASSUME OutputInv, shell \in Working, NEW k \in Nat, NEW p \in Procs,
         p = <<line, k>>, Moves(p), proc'[p] = Ended,
         UNCHANGED <<pipe, printed>>,
         NEW put \in [1..MaxCalls -> Nat], NEW got \in [1..MaxCalls -> Nat],
         Flow(put, got), put[k] = Items
  PROVE  FlowInv'
<1>1. /\ UNCHANGED <<shell, line, calls, callIndex>> /\ Spawned' = Spawned
      /\ Running(p)
  BY DEF Moves, shellVars, Spawned
<1>2. /\ k \in 1..calls /\ k <= Spawned /\ ProcFlow(k, put, got)
      /\ calls \in 1..MaxCalls /\ calls \in Nat /\ MaxCalls \in Nat
  <2>1. p[1] = line /\ p[2] = k
    OBVIOUS
  <2> QED BY <1>1, <2>1, Present, PipelineAssumption
<1>3. ProcFlow(k, put, got)'
  <2>1. ~(k > Spawned)
    BY <1>1, <1>2 DEF Spawned, OutputInv, LoopInv
  <2>2. proc'[<<line, k>>].state = "ended"
    BY EndedIs
  <2> QED BY <1>1, <1>2, <2>1, <2>2 DEF ProcFlow, Running
<1>4. ASSUME NEW i \in 1..(calls - 1) PROVE PipeFlow(i, put, got)'
  BY <1>1 DEF Flow, PipeFlow
<1>5. k > 1 => PipeFlow(k - 1, put, got)'
  <2> SUFFICES ASSUME k > 1 PROVE PipeFlow(k - 1, put, got)'
    OBVIOUS
  <2>1. PICK j \in 1..(calls - 1) : j = k - 1
    BY <1>2
  <2> QED BY <1>4, <2>1
<1>6. k < calls => PipeFlow(k, put, got)'
  <2> SUFFICES ASSUME k < calls PROVE PipeFlow(k, put, got)'
    OBVIOUS
  <2>1. k \in 1..(calls - 1)
    BY <1>2
  <2> QED BY <1>4, <2>1
<1>7. FlowStep(k, put, got, put, got)
  BY <1>3, <1>5, <1>6 DEF FlowStep, Flow
<1> QED BY <1>7, FlowMoved

\* InputDone: the left neighbour has ended, and everything it put was got.
LEMMA InputDoneFlow ==
  ASSUME OutputInv, NEW p \in Procs, InputDone(p), p[1] = line
  PROVE  FlowInv'
<1> SUFFICES ASSUME shell' \in Working, line' \notin flawed' PROVE FlowInv'
  BY DEF FlowInv
<1>0. /\ Running(p) /\ proc[p].carry = 0 /\ EndOf(p)
      /\ UNCHANGED shellVars /\ UNCHANGED <<pipe, printed, flawed>>
      /\ \/ proc[p].stdin = None /\ proc[p].done = Items
         \/ /\ proc[p].stdin # None /\ pipe[proc[p].stdin] = <<>>
            /\ ~HasWriter(proc[p].stdin)
  BY DEF InputDone
<1>1. Moves(p) /\ proc'[p] = Ended
  BY <1>0, EndMoves
<1>2. shell \in Working /\ line \notin flawed
  BY <1>0 DEF shellVars
<1>3. PICK put \in [1..MaxCalls -> Nat], got \in [1..MaxCalls -> Nat] :
        Flow(put, got)
  BY <1>2 DEF OutputInv, FlowInv
<1>4. PICK k \in 1..calls :
        /\ p = <<line, k>> /\ k = p[2] /\ k <= Spawned /\ ProcFlow(k, put, got)
  BY <1>0, <1>2, <1>3, Present
<1>5. /\ line \in 1..MaxLines /\ calls \in 1..MaxCalls /\ calls \in Nat
      /\ k \in Nat /\ k \in 1..MaxCalls /\ MaxCalls \in Nat
  BY <1>0, <1>2, <1>3, Present, PipelineAssumption
<1>6. /\ put[k] = got[k] /\ put[k] \in Nat /\ got[k] \in Nat
      /\ proc[p].stdin = IF k = 1 THEN None ELSE <<line, k - 1>>
      /\ k = 1 => proc[p].done = got[k]
      /\ got[k] <= Items /\ Items \in Nat
  <2>1. put[k] = got[k]
    <3>1. put[k] \in Nat /\ got[k] \in Nat
      BY <1>5
    <3> QED BY <1>0, <1>4, <3>1 DEF ProcFlow
  <2> QED BY <1>0, <1>4, <1>5, <2>1, PipelineAssumption DEF ProcFlow
<1>7. CASE k = 1
  <2>1. put[k] = Items
    BY <1>0, <1>6, <1>7
  <2> QED BY <1>0, <1>1, <1>2, <1>3, <1>4, <1>5, <2>1, EndFlow
<1>8. CASE k # 1
  <2>1. PICK j \in 1..(calls - 1) : j = k - 1
    BY <1>5, <1>8
  <2>2. /\ j \in 1..MaxCalls /\ j \in 1..calls /\ j + 1 = k /\ j # calls
        /\ j \in Nat /\ j <= k
    BY <1>5, <2>1
  <2>3. PICK q \in Procs : q = <<line, j>>
    BY <1>5, <2>2 DEF Procs
  <2>4. proc[p].stdin = q /\ q # None
    BY <1>5, <1>6, <1>8, <2>1, <2>3 DEF None
  <2>5. pipe[q] = <<>> /\ ~HasWriter(q)
    BY <1>0, <2>4
  <2>6. PipeFlow(j, put, got) /\ ProcFlow(j, put, got)
    BY <1>3, <2>2 DEF Flow
  <2>7. /\ got[k] <= put[j] /\ From(got[k], put[j]) = <<>> /\ put[j] \in Nat
    BY <2>2, <2>3, <2>5, <2>6 DEF PipeFlow
  <2>8. got[k] = put[j]
    BY <1>6, <2>7, FromIs
  <2>9. ~Running(q)
    <3>1. SUFFICES ASSUME Running(q) PROVE FALSE
      OBVIOUS
    <3>2. proc[q].stdout = q
      BY <2>2, <2>3, <2>6, <3>1 DEF ProcFlow
    <3> QED BY <2>5, <3>1, <3>2 DEF HasWriter
  <2>10. Spawned \in Nat
    BY DEF Spawned, OutputInv, LoopInv
  <2>11. j <= Spawned
    BY <1>4, <1>5, <2>2, <2>10
  <2>12. proc[q].state = "ended"
    <3>1. proc[q].state # "none"
      BY <2>3, <2>6, <2>11 DEF ProcFlow
    <3>2. proc[q].state \in {"none", "running", "ended"}
      BY DEF OutputInv, ProcTypes
    <3> QED BY <2>9, <3>1, <3>2 DEF Running
  <2>13. put[k] = Items
    BY <1>6, <2>3, <2>6, <2>8, <2>12 DEF ProcFlow
  <2> QED BY <1>0, <1>1, <1>2, <1>3, <1>4, <1>5, <2>13, EndFlow
<1> QED BY <1>7, <1>8

\* PutItemFails: somebody can read the pipe as long as there is an item to
\* put, so that in a line that went well no write fails.
LEMMA PutNeverFails ==
  ASSUME OutputInv, NEW p \in Procs, PutItemFails(p), p[1] = line
  PROVE  FlowInv'
<1> SUFFICES ASSUME shell' \in Working, line' \notin flawed' PROVE FALSE
  BY DEF FlowInv
<1>0. /\ Running(p) /\ proc[p].carry # 0 /\ proc[p].stdout # None
      /\ ~HasReader(proc[p].stdout) /\ UNCHANGED shellVars /\ UNCHANGED flawed
  BY DEF PutItemFails
<1>2. shell \in Working /\ line \notin flawed
  BY <1>0 DEF shellVars
<1>3. PICK put \in [1..MaxCalls -> Nat], got \in [1..MaxCalls -> Nat] :
        Flow(put, got)
  BY <1>2 DEF OutputInv, FlowInv
<1>4. PICK k \in 1..calls :
        /\ p = <<line, k>> /\ k = p[2] /\ k <= Spawned /\ ProcFlow(k, put, got)
  BY <1>0, <1>2, <1>3, Present
<1>5. /\ line \in 1..MaxLines /\ calls \in 1..MaxCalls /\ calls \in Nat
      /\ k \in Nat /\ k \in 1..MaxCalls /\ MaxCalls \in Nat /\ Items \in Nat
      /\ callIndex \in Nat
  BY <1>0, <1>2, <1>3, Present, PipelineAssumption DEF OutputInv, LoopInv
<1>6. /\ put[k] + 1 = got[k] /\ put[k] \in Nat /\ got[k] \in Nat
      /\ got[k] <= Items
  BY <1>0, <1>4, <1>5 DEF ProcFlow
<1>7. k # calls /\ proc[p].stdout = p
  BY <1>0, <1>4 DEF ProcFlow
<1>8. ~HasReader(p)
  BY <1>0, <1>7
<1>9. PICK j \in 1..calls : j = k + 1
  BY <1>5, <1>7
<1>10. /\ j \in 1..MaxCalls /\ j # 1 /\ j - 1 = k /\ k \in 1..(calls - 1)
       /\ k < calls /\ j \in Nat
  BY <1>5, <1>7, <1>9
<1>11. PICK q \in Procs : q = <<line, j>>
  BY <1>5, <1>10 DEF Procs
<1>12. PipeFlow(k, put, got) /\ ProcFlow(j, put, got)
  BY <1>3, <1>10 DEF Flow
<1>13. got[j] <= put[k] /\ got[j] \in Nat /\ put[j] \in Nat /\ put[j] <= got[j]
  BY <1>9, <1>10, <1>12 DEF PipeFlow, ProcFlow
<1>14. CASE j <= Spawned
  <2>1. proc[q].state # "none"
    BY <1>11, <1>12, <1>14 DEF ProcFlow
  <2>2. proc[q].state # "ended"
    <3>1. SUFFICES ASSUME proc[q].state = "ended" PROVE FALSE
      OBVIOUS
    <3>2. put[j] = Items
      BY <1>11, <1>12, <3>1 DEF ProcFlow
    <3> QED BY <1>5, <1>6, <1>13, <3>2
  <2>3. Running(q)
    BY <2>1, <2>2 DEF OutputInv, ProcTypes, Running
  <2>4. proc[q].stdin = p
    BY <1>4, <1>10, <1>11, <1>12, <2>3 DEF ProcFlow
  <2> QED BY <1>8, <2>3, <2>4 DEF HasReader
<1>15. CASE ~(j <= Spawned)
  <2>1. Spawned \in Nat
    BY <1>5 DEF Spawned
  <2>2. Spawned = k
    BY <1>4, <1>5, <1>9, <1>15, <2>1
  <2>3. Read(p) \in fds
    <3>1. CASE shell \in {"call", "spawn"}
      <4>1. callIndex = k /\ callIndex # 0
        BY <1>10, <2>2, <3>1 DEF Spawned
      <4> QED BY <1>4, <3>1, <4>1 DEF OutputInv, ReadersHeld
    <3>2. CASE shell \in {"close", "closeRead"}
      <4>1. callIndex + 1 = k /\ callIndex < calls - 1
        BY <1>5, <1>10, <2>2, <3>2 DEF Spawned
      <4>2. Current = p
        BY <1>4, <4>1 DEF Current
      <4> QED BY <3>2, <4>1, <4>2 DEF OutputInv, ReadersHeld, Spawning
    <3>3. shell \in {"call", "spawn", "close", "closeRead"}
      BY <1>2, <1>10, <2>2 DEF Spawned, Working, Spawning
    <3> QED BY <3>1, <3>2, <3>3
  <2> QED BY <1>8, <2>3 DEF HasReader
<1> QED BY <1>14, <1>15

LEMMA ProgramOutput ==
  ASSUME OutputInv, NEW p \in Procs, Program(p)
  PROVE  OutputInv'
<1>1. ASSUME PutItemFails(p) \/ InputDone(p) PROVE Moves(p)
  <2>1. /\ Running(p) /\ EndOf(p) /\ UNCHANGED shellVars
        /\ flawed \subseteq flawed' /\ UNCHANGED <<pipe, printed>>
    BY <1>1 DEF PutItemFails, InputDone
  <2> QED BY <2>1, EndMoves
<1>2. Moves(p)
  BY <1>1, GetMoves, PutMoves DEF Program
<1>3. FlowInv'
  <2>1. CASE p[1] # line
    BY <1>2, <2>1, OtherLine
  <2>2. CASE p[1] = line
    BY <2>2, GetFlow, PutFlow, PutNeverFails, InputDoneFlow DEF Program
  <2> QED BY <2>1, <2>2
<1> QED BY <1>2, <1>3, MovesKeep DEF OutputInv

\* ProgramFails and Kill: the line is one with a failure from now on.
LEMMA FlawedOutput ==
  ASSUME OutputInv, NEW p \in Procs, Running(p), EndOf(p),
         flawed' = flawed \cup {p[1]}, UNCHANGED <<shellVars, pipe, printed>>
  PROVE  OutputInv'
<1>1. Moves(p)
  BY EndMoves
<1>2. FlowInv'
  <2>1. CASE p[1] # line
    BY <1>1, <2>1, OtherLine
  <2>2. CASE p[1] = line
    BY <2>2 DEF FlowInv, shellVars
  <2> QED BY <2>1, <2>2
<1> QED BY <1>1, <1>2, MovesKeep DEF OutputInv

LEMMA OutputNext == OutputInv /\ [Next]_vars => OutputInv'
<1> SUFFICES ASSUME OutputInv, [Next]_vars PROVE OutputInv'
  OBVIOUS
<1>1. ASSUME NEW n \in 1..MaxCalls, ReadLine(n) PROVE OutputInv'
  BY <1>1, ReadLineOutput
<1>2. CASE Shell
  BY <1>2, HandleBuiltinOutput, CreatePipeOutput, FailureOutput, SpawnOutput,
     CloseWriteOutput, CloseReadOutput, JoinBeginOutput, JoinEndOutput DEF Shell
<1>3. CASE InputEnds
  BY <1>3, InputEndsOutput
<1>4. CASE Kill
  <2>1. control \in Procs
    BY <1>4 DEF OutputInv, ProcTypes, Kill
  <2> QED BY <1>4, <2>1, FlawedOutput DEF Kill
<1>5. ASSUME NEW p \in Procs, Program(p) PROVE OutputInv'
  BY <1>5, ProgramOutput
<1>6. ASSUME NEW p \in Procs, ProgramFails(p) PROVE OutputInv'
  BY <1>6, FlawedOutput DEF ProgramFails
<1>7. CASE UNCHANGED vars
  <2>1. /\ UNCHANGED <<shell, line, calls, callIndex, lastPipeRead, pipeWrite,
                       pipeRead, tail, success, fds, control, pipe, proc,
                       printed, flawed>>
    BY <1>7 DEF vars, shellVars
  <2>2. Current' = Current /\ Spawned' = Spawned /\ flawed \subseteq flawed'
    BY <2>1 DEF Current, Spawned
  <2>3. ProcTypes' /\ OwnLine' /\ LoopInv'
    BY <2>1, <2>2 DEF OutputInv, ProcTypes, OwnLine, LoopInv
  <2>4. ReadersHeld' /\ FutureInv'
    BY <2>1, <2>2 DEF OutputInv, ReadersHeld, FutureInv, Read
  <2>5. FlowInv'
    <3>1. CASE shell \in Working
      BY <2>1, <2>2, <3>1, FlowKept DEF OutputInv
    <3>2. CASE shell \notin Working
      BY <2>1, <3>2 DEF FlowInv
    <3> QED BY <3>1, <3>2
  <2>6. SettledInv'
    BY <2>1, <2>2, SettledKept DEF OutputInv, SettledInv
  <2> QED BY <2>3, <2>4, <2>5, <2>6 DEF OutputInv
<1> QED BY <1>1, <1>2, <1>3, <1>4, <1>5, <1>6, <1>7 DEF Next

\* Whenever gsh is back at its prompt, every expression without a failure,
\* an early end or a kill has printed all items of its first program, in
\* order, whatever the processes' interleaving, the sizes of the pipes and
\* the number of calls and lines (spawning left to right with the read end
\* of the last pipe as stdin, gosh.cpp, and joining the last process).
THEOREM OutputCompleteHolds == Spec => []OutputComplete
<1>1. ASSUME OutputInv PROVE OutputComplete
  <2> SUFFICES ASSUME shell = "prompt", NEW l \in (1..line) \ flawed,
                      NEW p \in Procs, p[1] = l, proc[p].state # "none"
               PROVE  printed[l] = [i \in 1..Items |-> i]
    BY DEF OutputComplete
  <2>1. printed[l] = From(0, Items)
    BY <1>1 DEF OutputInv, SettledInv, Settled
  <2>2. From(0, Items) = [i \in 1..Items |-> i]
    BY PipelineAssumption DEF From
  <2> QED BY <2>1, <2>2
<1> QED BY <1>1, OutputInit, OutputNext, PTL DEF Spec
=============================================================================
