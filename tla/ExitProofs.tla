----------------------------- MODULE ExitProofs -----------------------------
(***************************************************************************)
(* What exit guarantees about the handlers, for every program, size of the *)
(* tables and number of constructors: each runs at most once and as it was *)
(* registered, newest first, and all of them have run when the process is  *)
(* gone.                                                                   *)
(***************************************************************************)
EXTENDS ExitHandlers, TLAPS

Entries == [func : Funcs, slot : 0 .. Max, dso : Dsos \cup {NoDso},
            called : BOOLEAN]
Frames == [dso : Dsos \cup {NoDso}, i : Nat, from : Nat, inside : BOOLEAN,
           exits : BOOLEAN]

Types ==
  /\ phase \in {"init", "main", "exit", "fini", "stdio", "gone"}
  /\ step \in Nat
  /\ entries \in Seq(Entries)
  /\ wrappers \in [1 .. Max -> Funcs \cup {NULL}]
  /\ count \in 0 .. Max
  /\ stack \in Seq(Frames)
  /\ log \in Seq([entry : Nat, func : Funcs])
  /\ due \in Nat

\* The slot of an entry keeps the function that the entry was made for.
SlotsKept ==
  \A k \in DOMAIN entries :
    entries[k].slot # 0 =>
      entries[k].slot <= count /\ wrappers[entries[k].slot] = entries[k].func

\* The log and the marks of the entries agree.
LogSound ==
  /\ \A a \in DOMAIN log :
       /\ log[a].entry \in DOMAIN entries
       /\ entries[log[a].entry].called
       /\ log[a].func = entries[log[a].entry].func
  /\ \A a, b \in DOMAIN log : log[a].entry = log[b].entry => a = b
  /\ \A k \in DOMAIN entries :
       entries[k].called => \E a \in DOMAIN log : log[a].entry = k

\* A loop of __cxa_finalize has called all that it has passed, and the entry
\* of the handler that it is in.
FrameSound(fr) ==
  /\ fr.i <= fr.from /\ fr.from <= Len(entries)
  /\ fr.inside => fr.i > 0 /\ entries[fr.i].called /\ log # <<>>
  /\ fr.exits => /\ \A k \in fr.i + 1 .. fr.from : entries[k].called
                 /\ due <= fr.from
                 /\ phase = "exit" /\ fr.dso = NoDso

FramesSound ==
  /\ \A d \in DOMAIN stack : FrameSound(stack[d])
  /\ \A d \in DOMAIN stack : d > 1 => stack[d].exits
  /\ stack # <<>> /\ Top.inside => log[Len(log)].entry = Top.i
  /\ phase \in {"init", "fini", "stdio", "gone"} => stack = <<>>

\* Once exit has been through the entries, all that were due are called.
DueCalled ==
  /\ due <= Len(entries)
  /\ phase \in {"fini", "stdio", "gone"} =>
       \A k \in 1 .. due : entries[k].called

ExitInv == Types /\ SlotsKept /\ LogSound /\ FramesSound /\ DueCalled

USE HandlersAssumption DEF NoDso

LEMMA ExitInit == Init => ExitInv
<1> SUFFICES ASSUME Init PROVE ExitInv
  OBVIOUS
<1> USE DEF Init
<1>1. Types
  BY DEF Types
<1>2. SlotsKept
  BY DEF SlotsKept
<1>3. LogSound
  BY DEF LogSound
<1>4. FramesSound
  BY DEF FramesSound
<1>5. DueCalled
  BY DEF DueCalled
<1> QED BY <1>1, <1>2, <1>3, <1>4, <1>5 DEF ExitInv

\* A new entry, with the slot that was filled for it, keeps what is known of
\* the others.
LEMMA AppendInv ==
  ASSUME ExitInv, NEW e \in Entries, ~e.called,
         entries' = Append(entries, e),
         wrappers' \in [1 .. Max -> Funcs \cup {NULL}],
         count' \in 0 .. Max, count <= count',
         \A s \in 1 .. count : wrappers'[s] = wrappers[s],
         e.slot # 0 => e.slot <= count' /\ wrappers'[e.slot] = e.func,
         UNCHANGED <<phase, step, stack, log, due>>
  PROVE  ExitInv'
<1> USE DEF ExitInv
<1>0. /\ Len(entries') = Len(entries) + 1
      /\ \A k \in 1 .. Len(entries) : entries'[k] = entries[k]
      /\ entries'[Len(entries) + 1] = e
      /\ entries' \in Seq(Entries) /\ Len(entries) \in Nat
  BY DEF Types
<1>1. Types'
  BY <1>0 DEF Types
<1>2. SlotsKept'
  <2> SUFFICES ASSUME NEW k \in 1 .. Len(entries) + 1, entries'[k].slot # 0
               PROVE  /\ entries'[k].slot <= count'
                      /\ wrappers'[entries'[k].slot] = entries'[k].func
    BY <1>0 DEF SlotsKept, Types
  <2>1. CASE k = Len(entries) + 1
    BY <1>0, <2>1
  <2>2. CASE k \in 1 .. Len(entries)
    <3>1. entries[k] \in Entries /\ entries'[k] = entries[k]
      BY <1>0, <2>2 DEF Types
    <3>2. entries[k].slot \in 1 .. count
      BY <3>1, <2>2 DEF SlotsKept, Types, Entries
    <3> QED BY <3>1, <3>2, <2>2 DEF SlotsKept, Types, Entries
  <2> QED BY <2>1, <2>2, <1>0
<1>3. LogSound'
  <2>1. \A a \in DOMAIN log : log[a].entry \in 1 .. Len(entries)
    BY DEF LogSound, Types
  <2>2. /\ \A a \in DOMAIN log :
             /\ log[a].entry \in DOMAIN entries'
             /\ entries'[log[a].entry].called
             /\ log[a].func = entries'[log[a].entry].func
    BY <1>0, <2>1 DEF LogSound, Types
  <2>3. \A k \in DOMAIN entries' :
          entries'[k].called => \E a \in DOMAIN log : log[a].entry = k
    <3> SUFFICES ASSUME NEW k \in 1 .. Len(entries) + 1, entries'[k].called
                 PROVE  \E a \in DOMAIN log : log[a].entry = k
      BY <1>0
    <3>1. k \in 1 .. Len(entries)
      BY <1>0
    <3>2. entries[k].called
      BY <1>0, <3>1
    <3>3. k \in DOMAIN entries
      BY <3>1 DEF Types
    <3> QED BY <3>2, <3>3 DEF LogSound
  <2> QED BY <2>2, <2>3 DEF LogSound
<1>4. FramesSound'
  <2>1. \A d \in DOMAIN stack : FrameSound(stack[d])'
    <3> SUFFICES ASSUME NEW d \in DOMAIN stack PROVE FrameSound(stack[d])'
      OBVIOUS
    <3>1. stack[d] \in Frames
      BY DEF Types
    <3>2. FrameSound(stack[d])
      BY DEF FramesSound
    <3>3. stack[d].i \in Nat /\ stack[d].from \in Nat
      BY <3>1 DEF Frames
    <3> DEFINE fr == stack[d]
    <3>4. fr.i <= fr.from /\ fr.from <= Len(entries')
      BY <1>0, <3>2, <3>3 DEF FrameSound
    <3>5. fr.inside => fr.i > 0 /\ entries'[fr.i].called /\ log # <<>>
      <4>1. fr.inside => fr.i \in 1 .. Len(entries)
        BY <1>0, <3>2, <3>3 DEF FrameSound
      <4> QED BY <1>0, <3>2, <4>1 DEF FrameSound
    <3>6. ASSUME fr.exits, NEW k \in fr.i + 1 .. fr.from
          PROVE  entries'[k].called
      <4>1. k \in 1 .. Len(entries)
        BY <1>0, <3>2, <3>3 DEF FrameSound
      <4>2. entries[k].called
        BY <3>2, <3>6 DEF FrameSound
      <4> QED BY <1>0, <4>1, <4>2
    <3>7. fr.exits => due <= fr.from /\ phase = "exit" /\ fr.dso = NoDso
      BY <3>2 DEF FrameSound
    <3> QED BY <3>4, <3>5, <3>6, <3>7 DEF FrameSound
  <2> QED BY <2>1 DEF FramesSound, Top
<1>5. DueCalled'
  BY <1>0 DEF DueCalled, Types
<1> QED BY <1>1, <1>2, <1>3, <1>4, <1>5

LEMMA CxaAtexitInv ==
  ASSUME ExitInv, NEW f \in Funcs, NEW dso \in Dsos, CxaAtexit(f, dso)
  PROVE  ExitInv'
<1>1. Entry(f, 0, dso) \in Entries /\ ~Entry(f, 0, dso).called
        /\ Entry(f, 0, dso).slot = 0
  BY DEF Entry, Entries
<1>2. count \in 0 .. Max /\ wrappers \in [1 .. Max -> Funcs \cup {NULL}]
  BY DEF ExitInv, Types
<1> QED BY <1>1, <1>2, AppendInv DEF CxaAtexit

LEMMA AtexitInv ==
  ASSUME ExitInv, NEW f \in Funcs, Atexit(f)
  PROVE  ExitInv'
<1>1. count \in 0 .. Max /\ wrappers \in [1 .. Max -> Funcs \cup {NULL}]
        /\ count + 1 \in 1 .. Max
  BY DEF ExitInv, Types, Atexit
<1>2. /\ wrappers' \in [1 .. Max -> Funcs \cup {NULL}]
      /\ \A s \in 1 .. count : wrappers'[s] = wrappers[s]
      /\ wrappers'[count + 1] = f
  BY <1>1 DEF Atexit
<1>3. CASE Len(entries) < Max
  <2> DEFINE e == Entry(f, count + 1, NoDso)
  <2>1. e \in Entries /\ ~e.called /\ e.slot = count + 1 /\ e.func = f
    BY <1>1 DEF Entry, Entries
  <2>2. count' = count + 1 /\ entries' = Append(entries, e)
    BY <1>3 DEF Atexit
  <2>3. UNCHANGED <<phase, step, stack, log, due>>
    BY DEF Atexit
  <2>4. count' \in 0 .. Max /\ count <= count'
    BY <1>1, <2>2
  <2>5. e.slot <= count' /\ wrappers'[e.slot] = e.func
    BY <1>1, <1>2, <2>1, <2>2
  <2> HIDE DEF e
  <2> QED BY <1>2, <2>1, <2>2, <2>3, <2>4, <2>5, AppendInv
<1>4. CASE ~(Len(entries) < Max)
  <2>1. UNCHANGED <<entries, count, phase, step, stack, log, due>>
    BY <1>4 DEF Atexit
  <2>2. Types'
    BY <1>2, <2>1 DEF ExitInv, Types
  <2>3. SlotsKept'
    <3> SUFFICES ASSUME NEW k \in DOMAIN entries, entries[k].slot # 0
                 PROVE  /\ entries[k].slot <= count
                        /\ wrappers'[entries[k].slot] = entries[k].func
      BY <2>1 DEF SlotsKept
    <3>1. entries[k] \in Entries
      BY DEF ExitInv, Types
    <3>2. entries[k].slot \in 1 .. count
      BY <1>1, <3>1 DEF ExitInv, SlotsKept, Entries
    <3> QED BY <1>2, <3>2 DEF ExitInv, SlotsKept
  <2>4. LogSound' /\ FramesSound' /\ DueCalled'
    BY <2>1 DEF ExitInv, LogSound, FramesSound, FrameSound, Top, DueCalled
  <2> QED BY <2>2, <2>3, <2>4 DEF ExitInv
<1> QED BY <1>3, <1>4

\* A loop begins at the newest entry, above the loops in progress.
LEMMA PushInv ==
  ASSUME ExitInv, NEW fr \in Frames,
         stack' = Append(stack, fr), ~fr.inside,
         fr.i = Len(entries), fr.from = Len(entries),
         stack # <<>> => fr.exits,
         fr.exits => phase' = "exit" /\ fr.dso = NoDso,
         phase' \in {"main", "exit"},
         phase = "exit" => phase' = "exit" /\ due' = due,
         due' = due \/ due' = Len(entries),
         UNCHANGED <<step, entries, wrappers, count, log>>
  PROVE  ExitInv'
<1> USE DEF ExitInv
<1>0. /\ Len(stack') = Len(stack) + 1 /\ Len(stack) \in Nat
      /\ \A d \in 1 .. Len(stack) : stack'[d] = stack[d]
      /\ stack'[Len(stack) + 1] = fr
      /\ stack' \in Seq(Frames)
      /\ Len(entries) \in Nat /\ due \in Nat /\ due' \in Nat
      /\ due <= Len(entries) /\ due' <= Len(entries)
  BY DEF Types, DueCalled
<1>1. Types'
  BY <1>0 DEF Types
<1>2. SlotsKept' /\ LogSound'
  BY DEF SlotsKept, LogSound
<1>3. ASSUME NEW d \in 1 .. Len(stack) PROVE FrameSound(stack[d])'
  <2>1. FrameSound(stack[d]) /\ stack'[d] = stack[d]
    BY <1>0 DEF FramesSound, Types
  <2> QED BY <2>1 DEF FrameSound
<1>4. FrameSound(fr)'
  BY <1>0 DEF FrameSound, Frames
<1>5. FramesSound'
  <2>1. ASSUME NEW d \in DOMAIN stack' PROVE FrameSound(stack[d])'
    <3>1. CASE d \in 1 .. Len(stack)
      BY <1>3, <3>1
    <3>2. CASE d = Len(stack) + 1
      BY <1>0, <1>4, <3>2 DEF FrameSound
    <3> QED BY <1>0, <2>1, <3>1, <3>2
  <2>2. ASSUME NEW d \in DOMAIN stack', d > 1 PROVE stack'[d].exits
    <3>1. CASE d \in 1 .. Len(stack)
      BY <1>0, <2>2, <3>1 DEF FramesSound, Types
    <3>2. CASE d = Len(stack) + 1
      BY <1>0, <2>2, <3>2
    <3> QED BY <1>0, <2>2, <3>1, <3>2
  <2>3. ~Top'.inside
    BY <1>0 DEF Top
  <2> QED BY <2>1, <2>2, <2>3 DEF FramesSound
<1>6. DueCalled'
  BY <1>0 DEF DueCalled
<1> QED BY <1>1, <1>2, <1>5, <1>6

LEMMA NewFrame ==
  ASSUME ExitInv, NEW dso \in Dsos \cup {NoDso}, NEW exits \in BOOLEAN
  PROVE  LET fr == Frame(dso, exits)
         IN  /\ fr \in Frames /\ ~fr.inside /\ fr.exits = exits /\ fr.dso = dso
             /\ fr.i = Len(entries) /\ fr.from = Len(entries)
BY DEF ExitInv, Types, Frame, Frames

LEMMA FinalizeDsoInv ==
  ASSUME ExitInv, NEW dso \in Dsos, FinalizeDso(dso)
  PROVE  ExitInv'
<1> DEFINE fr == Frame(dso, FALSE)
<1>1. /\ fr \in Frames /\ ~fr.inside /\ fr.exits = FALSE
      /\ fr.i = Len(entries) /\ fr.from = Len(entries)
  BY NewFrame
<1>2. /\ stack = <<>> /\ stack' = Append(stack, fr) /\ phase = "main"
      /\ UNCHANGED <<phase, step, entries, wrappers, count, log, due>>
  BY DEF FinalizeDso
<1> HIDE DEF fr
<1> QED BY <1>1, <1>2, PushInv

LEMMA ExitStepInv == ExitInv /\ Exit => ExitInv'
<1> SUFFICES ASSUME ExitInv, Exit PROVE ExitInv'
  OBVIOUS
<1> DEFINE fr == Frame(NoDso, TRUE)
<1>1. /\ fr \in Frames /\ ~fr.inside /\ fr.exits = TRUE /\ fr.dso = NoDso
      /\ fr.i = Len(entries) /\ fr.from = Len(entries)
  BY NewFrame
<1>2. /\ stack' = Append(stack, fr) /\ phase' = "exit"
      /\ UNCHANGED <<step, entries, wrappers, count, log>>
      /\ phase = "exit" => due' = due
      /\ due' = due \/ due' = Len(entries)
  BY DEF Exit
<1> HIDE DEF fr
<1> QED BY <1>1, <1>2, PushInv

\* What is known of the topmost loop.
LEMMA TopFacts ==
  ASSUME ExitInv, stack # <<>>
  PROVE  /\ Len(stack) \in DOMAIN stack /\ Len(stack) \in Nat \ {0}
         /\ Top \in Frames /\ FrameSound(Top)
         /\ Top.i \in Nat /\ Top.from \in Nat
         /\ Top.i <= Len(entries)
         /\ phase \in {"main", "exit"}
<1>1. Len(stack) \in DOMAIN stack /\ Len(stack) \in Nat \ {0}
  BY DEF ExitInv, Types
<1>2. Top \in Frames /\ FrameSound(Top)
  BY <1>1 DEF ExitInv, Types, FramesSound, Top
<1>3. Top.i \in Nat /\ Top.from \in Nat
  BY <1>2 DEF Frames
<1>4. Top.i <= Len(entries)
  BY <1>2, <1>3 DEF FrameSound, ExitInv, Types
<1> QED BY <1>1, <1>2, <1>3, <1>4 DEF ExitInv, FramesSound, Types

\* The topmost loop moves on: what it has passed is called.
LEMMA MoveInv ==
  ASSUME ExitInv, stack # <<>>, NEW fr \in Frames,
         stack' = SetTop(fr), ~fr.inside,
         fr.i = Top.i - 1, Top.i > 0, fr.from = Top.from,
         fr.exits = Top.exits, fr.dso = Top.dso,
         Top.exits => entries[Top.i].called,
         UNCHANGED <<phase, step, entries, wrappers, count, log, due>>
  PROVE  ExitInv'
<1>0. /\ Len(stack') = Len(stack) /\ stack' \in Seq(Frames)
      /\ DOMAIN stack' = DOMAIN stack
      /\ \A d \in DOMAIN stack : d # Len(stack) => stack'[d] = stack[d]
      /\ stack'[Len(stack)] = fr
  BY TopFacts DEF ExitInv, Types, SetTop
<1>1. Types' /\ SlotsKept' /\ LogSound' /\ DueCalled'
  BY <1>0 DEF ExitInv, Types, SlotsKept, LogSound, DueCalled
<1>2. FrameSound(fr)'
  <2>1. FrameSound(Top) /\ Top.i \in Nat /\ Top.from \in Nat
    BY TopFacts
  <2>2. ASSUME fr.exits, NEW k \in fr.i + 1 .. fr.from
        PROVE  entries[k].called
    <3>1. k = Top.i \/ k \in Top.i + 1 .. Top.from
      BY <2>1
    <3> QED BY <2>1, <2>2, <3>1 DEF FrameSound
  <2> QED BY <2>1, <2>2, TopFacts DEF FrameSound
<1>3. ASSUME NEW d \in DOMAIN stack' PROVE FrameSound(stack[d])'
  <2>1. CASE d # Len(stack)
    <3>1. FrameSound(stack[d]) /\ stack'[d] = stack[d]
      BY <1>0, <2>1 DEF ExitInv, FramesSound
    <3> QED BY <3>1 DEF FrameSound
  <2>2. CASE d = Len(stack)
    BY <1>0, <1>2, <2>2 DEF FrameSound
  <2> QED BY <2>1, <2>2
<1>4. \A d \in DOMAIN stack' : d > 1 => stack'[d].exits
  BY <1>0, TopFacts DEF ExitInv, FramesSound, Top
<1>5. ~Top'.inside
  BY <1>0 DEF Top
<1>6. FramesSound'
  BY <1>0, <1>3, <1>4, <1>5, TopFacts DEF FramesSound
<1> QED BY <1>1, <1>6 DEF ExitInv

\* The topmost loop after its handler has returned.
LEMMA MovedFrame ==
  ASSUME NEW t \in Frames, t.i > 0
  PROVE  LET fr == [t EXCEPT !.inside = FALSE, !.i = @ - 1]
         IN  /\ fr \in Frames /\ ~fr.inside /\ fr.i = t.i - 1
             /\ fr.from = t.from /\ fr.exits = t.exits /\ fr.dso = t.dso
<1> DEFINE u == [t EXCEPT !.inside = FALSE]
           fr == [u EXCEPT !.i = t.i - 1]
<1>1. /\ u \in Frames /\ u.inside = FALSE /\ u.i = t.i
      /\ u.from = t.from /\ u.exits = t.exits /\ u.dso = t.dso
  BY DEF Frames
<1>2. /\ fr \in Frames /\ fr.inside = u.inside /\ fr.i = t.i - 1
      /\ fr.from = u.from /\ fr.exits = u.exits /\ fr.dso = u.dso
  <2> HIDE DEF u
  <2> QED BY <1>1 DEF Frames
<1>3. [t EXCEPT !.inside = FALSE, !.i = @ - 1] = fr
  BY DEF Frames
<1> HIDE DEF u, fr
<1> QED BY <1>1, <1>2, <1>3

LEMMA HandlerReturnsInv == ExitInv /\ HandlerReturns => ExitInv'
<1> SUFFICES ASSUME ExitInv, HandlerReturns PROVE ExitInv'
  OBVIOUS
<1> DEFINE fr == [Top EXCEPT !.inside = FALSE, !.i = @ - 1]
<1>1. stack # <<>> /\ Top.inside /\ stack' = SetTop(fr)
        /\ UNCHANGED <<phase, step, entries, wrappers, count, log, due>>
  BY DEF HandlerReturns
<1>2. Top.i > 0 /\ entries[Top.i].called
  BY <1>1, TopFacts DEF FrameSound
<1>3. /\ fr \in Frames /\ ~fr.inside /\ fr.i = Top.i - 1
      /\ fr.from = Top.from /\ fr.exits = Top.exits /\ fr.dso = Top.dso
  BY <1>1, <1>2, TopFacts, MovedFrame
<1> HIDE DEF fr
<1> QED BY <1>1, <1>2, <1>3, MoveInv

LEMMA FinalizeSkipInv == ExitInv /\ FinalizeSkip => ExitInv'
<1> SUFFICES ASSUME ExitInv, FinalizeSkip PROVE ExitInv'
  OBVIOUS
<1> DEFINE fr == [Top EXCEPT !.i = @ - 1]
<1>1. /\ stack # <<>> /\ ~Top.inside /\ Top.i > 0 /\ stack' = SetTop(fr)
      /\ ~Matches(entries[Top.i], Top.dso)
      /\ UNCHANGED <<phase, step, entries, wrappers, count, log, due>>
  BY DEF FinalizeSkip
<1>2. /\ fr \in Frames /\ ~fr.inside /\ fr.i = Top.i - 1
      /\ fr.from = Top.from /\ fr.exits = Top.exits /\ fr.dso = Top.dso
  BY <1>1, TopFacts DEF Frames
<1>3. Top.exits => entries[Top.i].called
  BY <1>1, TopFacts DEF Matches, FrameSound
<1> HIDE DEF fr
<1> QED BY <1>1, <1>2, <1>3, MoveInv

\* A handler is called: it was not in the log, and what runs is what its
\* entry was made for.
LEMMA FinalizeCallInv == ExitInv /\ FinalizeCall => ExitInv'
<1> SUFFICES ASSUME ExitInv, FinalizeCall PROVE ExitInv'
  OBVIOUS
<1> DEFINE n == Top.i
           fr == [Top EXCEPT !.inside = TRUE]
           item == [entry |-> n, func |-> FunctionOf(entries[n])]
<1>1. /\ stack # <<>> /\ ~Top.inside /\ n > 0
      /\ Matches(entries[n], Top.dso)
      /\ entries' = [entries EXCEPT ![n] = Calls(@)]
      /\ log' = Append(log, item)
      /\ stack' = SetTop(fr)
      /\ UNCHANGED <<phase, step, wrappers, count, due>>
  BY DEF FinalizeCall
<1>2. n \in 1 .. Len(entries) /\ n \in Nat /\ Len(entries) \in Nat
        /\ DOMAIN entries = 1 .. Len(entries)
  BY <1>1, TopFacts DEF ExitInv, Types
<1>3. entries[n] \in Entries /\ ~entries[n].called
  BY <1>1, <1>2 DEF ExitInv, Types, Matches
<1>4. FunctionOf(entries[n]) = entries[n].func
  BY <1>2, <1>3 DEF FunctionOf, ExitInv, SlotsKept, Entries
<1>5. /\ Calls(entries[n]) \in Entries /\ Calls(entries[n]).called = TRUE
      /\ Calls(entries[n]).slot = entries[n].slot
      /\ Calls(entries[n]).func = entries[n].func
  BY <1>3 DEF Calls, Entries
<1>6. /\ entries' \in Seq(Entries) /\ Len(entries') = Len(entries)
      /\ DOMAIN entries' = DOMAIN entries
      /\ \A k \in DOMAIN entries : k # n => entries'[k] = entries[k]
      /\ entries'[n].called = TRUE
      /\ \A k \in DOMAIN entries : /\ entries'[k].slot = entries[k].slot
                                   /\ entries'[k].func = entries[k].func
  <2> HIDE DEF n
  <2>1. /\ entries' \in Seq(Entries) /\ Len(entries') = Len(entries)
        /\ DOMAIN entries' = DOMAIN entries
        /\ \A k \in DOMAIN entries : k # n => entries'[k] = entries[k]
        /\ entries'[n] = Calls(entries[n])
    BY <1>1, <1>2, <1>5 DEF ExitInv, Types
  <2> QED BY <1>5, <2>1
<1>7. \A k \in DOMAIN entries : entries[k].called => entries'[k].called
  BY <1>6
<1>8. /\ fr \in Frames /\ fr.inside = TRUE /\ fr.i = n
      /\ fr.from = Top.from /\ fr.exits = Top.exits /\ fr.dso = Top.dso
  BY <1>1, TopFacts DEF Frames
<1>9. /\ item \in [entry : Nat, func : Funcs]
      /\ item.entry = n /\ item.func = entries[n].func
  BY <1>2, <1>3, <1>4 DEF Entries
<1> HIDE DEF n, fr, item
<1>10. /\ log' \in Seq([entry : Nat, func : Funcs])
       /\ Len(log') = Len(log) + 1 /\ Len(log) \in Nat
       /\ DOMAIN log = 1 .. Len(log) /\ DOMAIN log' = 1 .. Len(log) + 1
       /\ \A a \in 1 .. Len(log) : log'[a] = log[a]
       /\ log'[Len(log) + 1] = item /\ log' # <<>>
  <2> DEFINE Items == [entry : Nat, func : Funcs]
  <2>1. log \in Seq(Items) /\ item \in Items /\ log' = Append(log, item)
    BY <1>1, <1>9 DEF ExitInv, Types
  <2> HIDE DEF Items
  <2>2. /\ log' \in Seq(Items)
        /\ Len(log') = Len(log) + 1 /\ Len(log) \in Nat
        /\ DOMAIN log = 1 .. Len(log) /\ DOMAIN log' = 1 .. Len(log) + 1
        /\ \A a \in 1 .. Len(log) : log'[a] = log[a]
        /\ log'[Len(log) + 1] = item
    BY <2>1
  <2>3. log' # <<>>
    BY <2>2
  <2> QED BY <2>2, <2>3 DEF Items
<1>11. /\ Len(stack') = Len(stack) /\ stack' \in Seq(Frames)
       /\ DOMAIN stack' = DOMAIN stack
       /\ \A d \in DOMAIN stack : d # Len(stack) => stack'[d] = stack[d]
       /\ stack'[Len(stack)] = fr
  BY <1>1, <1>8, TopFacts DEF ExitInv, Types, SetTop
<1>12. Types'
  BY <1>1, <1>6, <1>10, <1>11 DEF ExitInv, Types
<1>13. SlotsKept'
  BY <1>1, <1>6 DEF ExitInv, SlotsKept
<1>14. LogSound'
  <2>1. \A a \in DOMAIN log : log[a].entry \in DOMAIN entries /\ log[a].entry # n
    BY <1>3 DEF ExitInv, LogSound
  <2>2. ASSUME NEW a \in DOMAIN log'
        PROVE  /\ log'[a].entry \in DOMAIN entries'
               /\ entries'[log'[a].entry].called
               /\ log'[a].func = entries'[log'[a].entry].func
    <3>1. CASE a \in 1 .. Len(log)
      BY <1>6, <1>7, <1>10, <2>1, <3>1 DEF ExitInv, LogSound
    <3>2. CASE a = Len(log) + 1
      BY <1>2, <1>6, <1>9, <1>10, <3>2
    <3> QED BY <1>10, <2>2, <3>1, <3>2
  <2>3. ASSUME NEW a \in DOMAIN log', NEW b \in DOMAIN log',
               log'[a].entry = log'[b].entry
        PROVE  a = b
    BY <1>9, <1>10, <2>1, <2>3 DEF ExitInv, LogSound
  <2>4. ASSUME NEW k \in DOMAIN entries', entries'[k].called
        PROVE  \E a \in DOMAIN log' : log'[a].entry = k
    <3>1. CASE k = n
      BY <1>9, <1>10, <3>1
    <3>2. CASE k # n
      <4>1. PICK a \in DOMAIN log : log[a].entry = k
        BY <1>6, <2>4, <3>2 DEF ExitInv, LogSound
      <4>2. a \in DOMAIN log' /\ log'[a] = log[a]
        BY <1>10
      <4> QED BY <4>1, <4>2
    <3> QED BY <3>1, <3>2
  <2> QED BY <2>2, <2>3, <2>4 DEF LogSound
<1>15. ASSUME NEW g \in Frames, FrameSound(g)
       PROVE  \A k \in g.i + 1 .. g.from : g.exits => entries'[k].called
  <2>1. \A k \in g.i + 1 .. g.from : k \in DOMAIN entries
    BY <1>2, <1>15 DEF FrameSound, Frames
  <2> QED BY <1>7, <1>15, <2>1 DEF FrameSound
<1>16. ASSUME NEW d \in DOMAIN stack' PROVE FrameSound(stack[d])'
  <2>1. CASE d # Len(stack)
    <3>1. FrameSound(stack[d]) /\ stack'[d] = stack[d] /\ stack[d] \in Frames
      BY <1>11, <2>1 DEF ExitInv, FramesSound, Types
    <3>2. stack[d].inside => stack[d].i \in DOMAIN entries
      BY <1>2, <3>1 DEF FrameSound, Frames
    <3> QED BY <1>1, <1>6, <1>7, <1>10, <1>15, <3>1, <3>2 DEF FrameSound
  <2>2. CASE d = Len(stack)
    <3>1. FrameSound(Top) /\ Top \in Frames /\ stack'[d] = fr /\ Top.i = n
      BY <1>1, <1>11, <2>2, TopFacts DEF n
    <3>2. fr.i <= fr.from /\ fr.from <= Len(entries')
      BY <1>6, <1>8, <3>1 DEF FrameSound
    <3>3. fr.i > 0 /\ entries'[fr.i].called /\ log' # <<>>
      BY <1>1, <1>6, <1>8, <1>10
    <3>4. fr.exits => /\ \A k \in fr.i + 1 .. fr.from : entries'[k].called
                      /\ due <= fr.from /\ phase = "exit" /\ fr.dso = NoDso
      BY <1>8, <1>15, <3>1 DEF FrameSound
    <3> QED BY <1>1, <3>1, <3>2, <3>3, <3>4 DEF FrameSound
  <2> QED BY <2>1, <2>2
<1>17. FramesSound'
  <2>1. \A d \in DOMAIN stack' : d > 1 => stack'[d].exits
    BY <1>1, <1>8, <1>11, TopFacts DEF ExitInv, FramesSound, Top
  <2>2. log'[Len(log')].entry = Top'.i
    BY <1>8, <1>9, <1>10, <1>11 DEF Top
  <2> QED BY <1>1, <1>16, <2>1, <2>2, TopFacts DEF FramesSound
<1>18. DueCalled'
  BY <1>1, <1>2, <1>6, <1>7, TopFacts DEF ExitInv, Types, DueCalled
<1> QED BY <1>12, <1>13, <1>14, <1>17, <1>18 DEF ExitInv

\* A loop ends: exit's own goes on with the fini functions, and by then all
\* that were due are called; another is the only one.
LEMMA FinalizeEndInv == ExitInv /\ FinalizeEnd => ExitInv'
<1> SUFFICES ASSUME ExitInv, FinalizeEnd PROVE ExitInv'
  OBVIOUS
<1>1. /\ stack # <<>> /\ ~Top.inside /\ Top.i = 0
      /\ phase' = IF Top.exits THEN "fini" ELSE phase
      /\ step' = IF Top.exits THEN 0 ELSE step
      /\ UNCHANGED <<entries, wrappers, count, log, due>>
  BY DEF FinalizeEnd
<1>2. stack' = <<>>
  <2>1. CASE Top.exits
    BY <2>1 DEF FinalizeEnd
  <2>2. CASE ~Top.exits
    <3>1. Len(stack) = 1
      <4>1. ~stack[Len(stack)].exits
        BY <2>2 DEF Top
      <4>2. Len(stack) \in DOMAIN stack /\ Len(stack) \in Nat \ {0}
        BY <1>1, TopFacts
      <4>3. ~(Len(stack) > 1)
        BY <4>1, <4>2 DEF ExitInv, FramesSound
      <4>4. \A n \in Nat \ {0} : ~(n > 1) => n = 1
        OBVIOUS
      <4>5. Len(stack) \in Nat \ {0}
        BY <4>2
      <4> QED BY <4>3, <4>4, <4>5, Zenon
    <3>2. stack' = SubSeq(stack, 1, 0)
      BY <2>2, <3>1 DEF FinalizeEnd
    <3> QED BY <3>2 DEF ExitInv, Types
  <2> QED BY <2>1, <2>2
<1>3. Types'
  BY <1>1, <1>2 DEF ExitInv, Types
<1>4. SlotsKept' /\ LogSound'
  BY <1>1 DEF ExitInv, SlotsKept, LogSound
<1>5. FramesSound'
  BY <1>2 DEF FramesSound
<1>6. DueCalled'
  <2>1. CASE Top.exits
    <3>1. FrameSound(Top) /\ Top.from \in Nat /\ due \in Nat
      BY <1>1, TopFacts DEF ExitInv, Types
    <3>2. \A k \in 1 .. Top.from : entries[k].called
      BY <1>1, <2>1, <3>1 DEF FrameSound
    <3>3. due <= Top.from
      BY <2>1, <3>1 DEF FrameSound
    <3> QED BY <1>1, <3>1, <3>2, <3>3 DEF ExitInv, DueCalled
  <2>2. CASE ~Top.exits
    BY <1>1, <2>2 DEF ExitInv, DueCalled
  <2> QED BY <2>1, <2>2
<1> QED BY <1>3, <1>4, <1>5, <1>6 DEF ExitInv

LEMMA NextFunctionInv == ExitInv /\ NextFunction => ExitInv'
<1> SUFFICES ASSUME ExitInv, NextFunction PROVE ExitInv'
  OBVIOUS
<1>1. /\ stack = <<>> /\ phase \in {"init", "fini"} /\ step' \in Nat
      /\ phase' \in {phase, IF phase = "init" THEN "main" ELSE "stdio"}
      /\ UNCHANGED <<entries, wrappers, count, stack, log, due>>
  BY DEF NextFunction, ExitInv, Types
<1> QED BY <1>1 DEF ExitInv, Types, SlotsKept, LogSound, FramesSound, DueCalled

LEMMA FiniStdioInv == ExitInv /\ FiniStdio => ExitInv'
BY DEF FiniStdio, ExitInv, Types, SlotsKept, LogSound, FramesSound, DueCalled

LEMMA ExitNext == ExitInv /\ [Next]_vars => ExitInv'
<1> SUFFICES ASSUME ExitInv, [Next]_vars PROVE ExitInv'
  OBVIOUS
<1>1. CASE Libc
  BY <1>1, FinalizeCallInv, FinalizeSkipInv, FinalizeEndInv, NextFunctionInv,
     FiniStdioInv DEF Libc
<1>2. CASE HandlerReturns
  BY <1>2, HandlerReturnsInv
<1>3. CASE Exit
  BY <1>3, ExitStepInv
<1>4. ASSUME NEW f \in Funcs, Atexit(f) PROVE ExitInv'
  BY <1>4, AtexitInv
<1>5. ASSUME NEW f \in Funcs, NEW dso \in Dsos, CxaAtexit(f, dso)
      PROVE  ExitInv'
  BY <1>5, CxaAtexitInv
<1>6. ASSUME NEW dso \in Dsos, FinalizeDso(dso) PROVE ExitInv'
  BY <1>6, FinalizeDsoInv
<1>7. CASE UNCHANGED vars
  BY <1>7 DEF vars, ExitInv, Types, SlotsKept, LogSound, FramesSound,
             FrameSound, Top, DueCalled
<1> QED BY <1>1, <1>2, <1>3, <1>4, <1>5, <1>6, <1>7 DEF Next

\* No handler runs twice and what runs is what was registered, for every
\* program and size of the tables (__cxa_finalize, atexit).
THEOREM RunOnceHolds == Spec => []RunOnceAsRegistered
<1>1. ExitInv => RunOnceAsRegistered
  BY DEF ExitInv, LogSound, RunOnceAsRegistered
<1> QED BY <1>1, ExitInit, ExitNext, PTL DEF Spec

\* exit calls the handlers newest first, however deep handlers that call exit
\* nest its loops (__cxa_finalize).
THEOREM NewestFirstHolds == Spec => []NewestFirst
<1>1. ExitInv => NewestFirst
  <2> SUFFICES ASSUME ExitInv, NEW d \in DOMAIN stack,
                      stack[d].exits, stack[d].inside
               PROVE  /\ log # <<>>
                      /\ d = Len(stack) =>
                           \A k \in log[Len(log)].entry .. stack[d].from :
                             entries[k].called
    BY DEF NewestFirst
  <2>1. FrameSound(stack[d]) /\ stack[d] \in Frames
    BY DEF ExitInv, FramesSound, Types
  <2>2. ASSUME d = Len(stack), NEW k \in log[Len(log)].entry .. stack[d].from
        PROVE  entries[k].called
    <3>1. log[Len(log)].entry = stack[d].i
      BY <2>2 DEF ExitInv, FramesSound, Top, Types
    <3>2. k = stack[d].i \/ k \in stack[d].i + 1 .. stack[d].from
      BY <2>1, <2>2, <3>1 DEF Frames
    <3> QED BY <2>1, <3>2 DEF FrameSound
  <2> QED BY <2>1, <2>2 DEF FrameSound
<1> QED BY <1>1, ExitInit, ExitNext, PTL DEF Spec

\* Every handler registered before the first call of exit has run when the
\* process is gone (exit, __g_fini_libc).
THEOREM ExitCompleteHolds == Spec => []ExitComplete
<1>1. ExitInv => ExitComplete
  <2> SUFFICES ASSUME ExitInv, phase = "gone", NEW k \in 1 .. due
               PROVE  \E a \in DOMAIN log : log[a].entry = k
    BY DEF ExitComplete
  <2>1. entries[k].called
    BY DEF ExitInv, DueCalled
  <2>2. k \in DOMAIN entries
    BY DEF ExitInv, DueCalled, Types
  <2> QED BY <2>1, <2>2 DEF ExitInv, LogSound
<1> QED BY <1>1, ExitInit, ExitNext, PTL DEF Spec
=============================================================================
