---------------------------- MODULE ExitHandlers ----------------------------
(***************************************************************************)
(* The life of a process as libc runs it (libc/src/main.c): constructors,  *)
(* main, and exit, which calls the handlers registered with atexit and     *)
(* __cxa_atexit (libc/src/stdlib/atexit.c, itanium_cxx_abi_support.c), the *)
(* fini functions and the end of stdio.  Handlers are code of the program: *)
(* they may register handlers and call exit again, so that several         *)
(* __cxa_finalize loops can be in progress, one inside the other.          *)
(***************************************************************************)
EXTENDS Naturals, Sequences

CONSTANTS
  Funcs,    \* the functions of the program that are registered
  Dsos,     \* handles of its shared objects
  Max,      \* G_ATEXIT_MAX, for the entries and for the wrappers
  Inits,    \* the number of constructors,
  Finis     \* and of fini functions

NoDso == 0
NULL == "NULL"

ASSUME HandlersAssumption ==
  /\ Max \in Nat \ {0} /\ Inits \in Nat /\ Finis \in Nat
  /\ NULL \notin Funcs /\ NoDso \notin Dsos

VARIABLES
  phase,     \* "init", "main", "exit" (__cxa_finalize), "fini", "stdio", "gone"
  step,      \* constructors or fini functions already called
  entries,   \* g_atexit_entries: what to call, for which object, called or not
  wrappers,  \* g_atexit_wrappers, the slot behind the last one included
  count,     \* g_atexit_wrapper_count
  stack,     \* the __cxa_finalize calls in progress: object, index, entries when
             \* it began, whether it is inside a handler and whether exit made it
  log,       \* the entries called, each with the function that was run
  due        \* the number of entries when exit was first called

vars == <<phase, step, entries, wrappers, count, stack, log, due>>
-----------------------------------------------------------------------------
Top == stack[Len(stack)]
SetTop(f) == [stack EXCEPT ![Len(stack)] = f]

\* Code of the program is running: a constructor, main, or a handler.
InProgram ==
  \/ stack = <<>> /\ (phase = "main" \/ (phase \in {"init", "fini"} /\ step > 0))
  \/ stack # <<>> /\ Top.inside

Init ==
  /\ phase = "init"
  /\ step = 0
  /\ entries = <<>>
  /\ wrappers = [i \in 1 .. Max |-> NULL]
  /\ count = 0
  /\ stack = <<>>
  /\ log = <<>>
  /\ due = 0

\* An entry calls f itself (slot 0), or through g_atexit_thunk what is in a slot
\* of the wrappers when it is called; f is what was asked for.
Entry(f, slot, dso) == [func |-> f, slot |-> slot, dso |-> dso, called |-> FALSE]

\* __cxa_atexit, which the compiler calls for the destructors of objects.
CxaAtexit(f, dso) ==
  /\ InProgram
  /\ Len(entries) < Max
  /\ entries' = Append(entries, Entry(f, 0, dso))
  /\ UNCHANGED <<phase, step, wrappers, count, stack, log, due>>

\* Mutant: the slot is not counted as used.
AtexitUncounted(f) ==
  /\ InProgram
  /\ count < Max /\ Len(entries) < Max
  /\ wrappers' = [wrappers EXCEPT ![count + 1] = f]
  /\ entries' = Append(entries, Entry(f, count + 1, NoDso))
  /\ UNCHANGED <<phase, step, count, stack, log, due>>

\* The wrapper's slot is filled before __cxa_atexit can fail for want of room.
Atexit(f) ==
  /\ InProgram
  /\ count < Max
  /\ wrappers' = [wrappers EXCEPT ![count + 1] = f]
  /\ IF Len(entries) < Max
     THEN /\ entries' = Append(entries, Entry(f, count + 1, NoDso))
          /\ count' = count + 1
     ELSE UNCHANGED <<entries, count>>
  /\ UNCHANGED <<phase, step, stack, log, due>>

Frame(dso, exits) == [dso |-> dso, i |-> Len(entries), from |-> Len(entries),
                      inside |-> FALSE, exits |-> exits]

\* Start of __cxa_finalize for one object, by the code that unloads it.
FinalizeDso(dso) ==
  /\ phase = "main" /\ InProgram /\ stack = <<>>
  /\ entries # <<>>
  /\ stack' = Append(stack, Frame(dso, FALSE))
  /\ UNCHANGED <<phase, step, entries, wrappers, count, log, due>>

\* exit: by a constructor, by main or its return, by a handler.  A fini function
\* is assumed not to call exit: it would start the fini functions over again.
Exit ==
  /\ phase \in {"init", "main", "exit"} /\ InProgram
  /\ phase' = "exit"
  /\ due' = IF phase = "exit" THEN due ELSE Len(entries)
  /\ stack' = Append(stack, Frame(NoDso, TRUE))
  /\ UNCHANGED <<step, entries, wrappers, count, log>>

Calls(e) == [e EXCEPT !.called = TRUE]
FunctionOf(e) == IF e.slot = 0 THEN e.func ELSE wrappers[e.slot]
Matches(e, dso) == ~e.called /\ (dso = NoDso \/ e.dso = dso)

\* Mutant: oldest entry first.
FinalizeCallForward ==
  /\ stack # <<>> /\ ~Top.inside /\ Top.i > 0
  /\ LET k == Top.from - Top.i + 1
     IN  /\ Matches(entries[k], Top.dso)
         /\ entries' = [entries EXCEPT ![k] = Calls(@)]
         /\ log' = Append(log, [entry |-> k, func |-> FunctionOf(entries[k])])
  /\ stack' = SetTop([Top EXCEPT !.inside = TRUE])
  /\ UNCHANGED <<phase, step, wrappers, count, due>>

\* The loop of __cxa_finalize reaches an entry that is to be called ...
FinalizeCall ==
  /\ stack # <<>> /\ ~Top.inside /\ Top.i > 0
  /\ Matches(entries[Top.i], Top.dso)
  /\ entries' = [entries EXCEPT ![Top.i] = Calls(@)]
  /\ log' = Append(log, [entry |-> Top.i, func |-> FunctionOf(entries[Top.i])])
  /\ stack' = SetTop([Top EXCEPT !.inside = TRUE])
  /\ UNCHANGED <<phase, step, wrappers, count, due>>

\* Mutant: an entry that is skipped is looked at again.
FinalizeSkipStuck ==
  /\ stack # <<>> /\ ~Top.inside /\ Top.i > 0
  /\ ~Matches(entries[Top.i], Top.dso)
  /\ UNCHANGED vars

\* ... or one that is not.
FinalizeSkip ==
  /\ stack # <<>> /\ ~Top.inside /\ Top.i > 0
  /\ ~Matches(entries[Top.i], Top.dso)
  /\ stack' = SetTop([Top EXCEPT !.i = @ - 1])
  /\ UNCHANGED <<phase, step, entries, wrappers, count, log, due>>

HandlerReturns ==
  /\ stack # <<>> /\ Top.inside
  /\ stack' = SetTop([Top EXCEPT !.inside = FALSE, !.i = @ - 1])
  /\ UNCHANGED <<phase, step, entries, wrappers, count, log, due>>

\* Mutant: the loop ends before the first entry.
FinalizeEndEarly ==
  /\ stack # <<>> /\ ~Top.inside /\ Top.i <= 1
  /\ phase' = IF Top.exits THEN "fini" ELSE phase
  /\ step' = IF Top.exits THEN 0 ELSE step
  /\ stack' = IF Top.exits THEN <<>> ELSE SubSeq(stack, 1, Len(stack) - 1)
  /\ UNCHANGED <<entries, wrappers, count, log, due>>

\* A call made by exit goes on with the fini functions and never returns to
\* the calls it was made from.
FinalizeEnd ==
  /\ stack # <<>> /\ ~Top.inside /\ Top.i = 0
  /\ phase' = IF Top.exits THEN "fini" ELSE phase
  /\ step' = IF Top.exits THEN 0 ELSE step
  /\ stack' = IF Top.exits THEN <<>> ELSE SubSeq(stack, 1, Len(stack) - 1)
  /\ UNCHANGED <<entries, wrappers, count, log, due>>

\* __g_init_libc and __g_main: one constructor after the other, then main; and
\* the rest of __g_fini_libc: the fini functions in the order of their array,
\* stdio, and g_exit.
NextFunction ==
  /\ phase \in {"init", "fini"} /\ stack = <<>>
  /\ LET total == IF phase = "init" THEN Inits ELSE Finis
     IN  IF step < total
         THEN step' = step + 1 /\ UNCHANGED phase
         ELSE /\ phase' = IF phase = "init" THEN "main" ELSE "stdio"
              /\ step' = 0
  /\ UNCHANGED <<entries, wrappers, count, stack, log, due>>

FiniStdio ==
  /\ phase = "stdio"
  /\ phase' = "gone"
  /\ UNCHANGED <<step, entries, wrappers, count, stack, log, due>>

Libc == FinalizeCall \/ FinalizeSkip \/ FinalizeEnd \/ NextFunction \/ FiniStdio

Next ==
  \/ Libc
  \/ HandlerReturns
  \/ Exit
  \/ \E f \in Funcs : Atexit(f) \/ \E dso \in Dsos : CxaAtexit(f, dso)
  \/ \E dso \in Dsos : FinalizeDso(dso)

\* libc goes on, and a handler returns unless it calls exit.
Fairness == WF_vars(Libc) /\ WF_vars(HandlerReturns \/ (stack # <<>> /\ Exit))

Spec == Init /\ [][Next]_vars /\ Fairness
-----------------------------------------------------------------------------
\* No handler runs twice, even if one calls exit while exit is calling the
\* handlers (__cxa_finalize), and what runs is what was registered, although
\* atexit passes a slot of its own array (atexit.c).
RunOnceAsRegistered ==
  /\ \A a, b \in DOMAIN log : log[a].entry = log[b].entry => a = b
  /\ \A a \in DOMAIN log : log[a].func = entries[log[a].entry].func

\* Handlers run newest first: when exit calls one, every handler that was
\* registered after it, before this call of exit, has been called already.
NewestFirst ==
  \A d \in DOMAIN stack :
    stack[d].exits /\ stack[d].inside =>
      /\ log # <<>>
      /\ d = Len(stack) =>
           \A k \in log[Len(log)].entry .. stack[d].from : entries[k].called

\* When the process is gone, every handler that was registered before exit was
\* called has run (exit calls the handlers registered with atexit).
ExitComplete ==
  phase = "gone" => \A k \in 1 .. due : \E a \in DOMAIN log : log[a].entry = k

\* exit comes to an end although handlers call exit themselves.
ExitEnds == phase = "exit" ~> phase = "gone"
=============================================================================
