----------------------------- MODULE OpenFiles -----------------------------
(***************************************************************************)
(* libc's list of open streams (libc/src/stdio/__open_file_list.c) and     *)
(* the calls that work on it, made by the threads of one process: fopen    *)
(* links a FILE in under the list's mutex, fclose and freopen take it out, *)
(* fflush(NULL) and, at exit, __fini_stdio walk the list without the       *)
(* mutex.  Each FILE has a mutex of its own, made when it is opened; a     *)
(* thread reads stream->lock first and waits for that mutex afterwards.    *)
(* What a stream buffers is one bit here: it has bytes to be written.      *)
(***************************************************************************)
EXTENDS Naturals, FiniteSets

CONSTANTS
  Files,     \* the addresses calloc can return for a FILE
  Stdout,    \* a standard stream, open from the start
  Threads,   \* the threads of the process
  Mutexes,   \* bound: the mutexes the process ever creates
  MaxCalls,  \* bound: the calls a thread makes
  Closing,   \* which of fclose ("close") and freopen ("reclose") are called
  NULL

ASSUME FilesAssumption ==
  /\ Stdout \notin Files
  /\ NULL \notin Files \cup {Stdout} \cup Threads \cup Mutexes
  /\ Mutexes # {} /\ IsFiniteSet(Files)
  /\ MaxCalls \in Nat
  /\ Closing \subseteq {"close", "reclose"}

Streams == Files \cup {Stdout}

VARIABLES
  head,      \* __open_file_list
  next,      \* the links of every FILE
  prev,
  fd,        \* file_descriptor: "none" in a zeroed FILE, "std" up to 2, "file"
  lock,      \* stream->lock
  dirty,     \* whether bytes are waiting in the buffer
  mem,       \* the addresses in use
  owner,     \* of a mutex: NULL before it exists, "free", or a thread
  listLock,  \* open_file_list_lock: NULL or the thread that has it
  th,        \* per thread: where it is, the FILE and the mutex it works with,
             \* the FILE its walk has reached, and those it has still to reach
  exiting,   \* exit has begun
  exited     \* the process is gone

vars == <<head, next, prev, fd, lock, dirty, mem, owner, listLock, th,
          exiting, exited>>
list == <<head, next, prev>>
-----------------------------------------------------------------------------
Idle == [pc |-> "idle", file |-> NULL, mutex |-> NULL, cursor |-> NULL,
         todo |-> {}, calls |-> 0]

Init ==
  LET m == CHOOSE k \in Mutexes : TRUE
  IN  /\ head = Stdout
      /\ next = [f \in Streams |-> NULL]
      /\ prev = [f \in Streams |-> NULL]
      /\ fd = [f \in Streams |-> IF f = Stdout THEN "std" ELSE "none"]
      /\ lock = [f \in Streams |-> IF f = Stdout THEN m ELSE NULL]
      /\ dirty = [f \in Streams |-> FALSE]
      /\ mem = {Stdout}
      /\ owner = [k \in Mutexes |-> IF k = m THEN "free" ELSE NULL]
      /\ listLock = NULL
      /\ th = [t \in Threads |-> Idle]
      /\ exiting = FALSE
      /\ exited = FALSE

At(t, pc) == ~exited /\ th[t].pc = pc
Goto(t, pc) == th' = [th EXCEPT ![t].pc = pc]

\* The FILEs a thread is just opening or closing are not (yet) in the list.
InTransit == {th[t].file : t \in {u \in Threads :
                th[u].pc \in {"add", "link", "push", "unlink", "reunlink", "free", "reopen"}}}
Linked == {f \in mem : fd[f] # "none"} \ InTransit

\* A thread begins a call, as long as it has one left.
Begins(t, pc, file, mutex, cursor, todo) ==
  /\ At(t, "idle") /\ th[t].calls < MaxCalls
  /\ th' = [th EXCEPT ![t] = [pc |-> pc, file |-> file, mutex |-> mutex,
                              cursor |-> cursor, todo |-> todo,
                              calls |-> th[t].calls + 1]]
Ends(t) == th' = [th EXCEPT ![t] = [Idle EXCEPT !.calls = th[t].calls]]

\* Acquiring a mutex waits until it is free; one that does not exist (any more)
\* cannot be waited for.  Whoever releases a mutex frees it (the terminal relies
\* on one thread releasing what another has acquired).
MayAcquire(m) == IF m = NULL THEN TRUE ELSE owner[m] \in {"free", NULL}
Acquired(m, t) == IF m = NULL \/ owner[m] = NULL THEN owner
                  ELSE [owner EXCEPT ![m] = t]
Released(m) == IF m # NULL /\ owner[m] # NULL THEN [owner EXCEPT ![m] = "free"]
               ELSE owner

\* g_mutex_initialize: a mutex that does not exist yet.
NewMutex(f) ==
  LET m == CHOOSE k \in Mutexes : owner[k] = NULL
  IN  /\ \E k \in Mutexes : owner[k] = NULL
      /\ lock' = [lock EXCEPT ![f] = m]
      /\ owner' = [owner EXCEPT ![m] = "free"]
-----------------------------------------------------------------------------
(* fopen and __fdopen_static: a zeroed FILE, a descriptor, a new mutex,     *)
(* then the list.                                                           *)

\* Mutant: the memory is not zeroed.
FopenMalloc(t, f) ==
  /\ f \notin mem
  /\ NewMutex(f)
  /\ Begins(t, "add", f, NULL, NULL, {})
  /\ mem' = mem \cup {f}
  /\ prev' = [prev EXCEPT ![f] = "garbage"]
  /\ fd' = [fd EXCEPT ![f] = "file"]
  /\ UNCHANGED <<head, next, dirty, listLock, exiting, exited>>

FopenAlloc(t, f) ==
  /\ f \notin mem
  /\ NewMutex(f)
  /\ Begins(t, "add", f, NULL, NULL, {})
  /\ mem' = mem \cup {f}
  /\ next' = [next EXCEPT ![f] = NULL]
  /\ prev' = [prev EXCEPT ![f] = NULL]
  /\ fd' = [fd EXCEPT ![f] = "file"]
  /\ dirty' = [dirty EXCEPT ![f] = FALSE]
  /\ UNCHANGED <<head, listLock, exiting, exited>>

\* Mutant: the list is changed without its mutex.
AddLockSkipped(t) ==
  /\ At(t, "add")
  /\ Goto(t, "link")
  /\ UNCHANGED <<list, fd, lock, dirty, mem, owner, listLock, exiting, exited>>

\* __open_file_list_add.
AddLock(t) ==
  /\ At(t, "add")
  /\ listLock = NULL
  /\ listLock' = t
  /\ Goto(t, "link")
  /\ UNCHANGED <<list, fd, lock, dirty, mem, owner, exiting, exited>>

AddLink(t) ==
  /\ At(t, "link")
  /\ IF head # NULL
     THEN /\ prev' = [prev EXCEPT ![head] = th[t].file]
          /\ next' = [next EXCEPT ![th[t].file] = head]
     ELSE UNCHANGED <<prev, next>>
  /\ Goto(t, "push")
  /\ UNCHANGED <<head, fd, lock, dirty, mem, owner, listLock, exiting, exited>>

\* Mutant: the list's mutex is kept.
AddPushKeepsLock(t) ==
  /\ At(t, "push")
  /\ head' = th[t].file
  /\ Ends(t)
  /\ UNCHANGED <<next, prev, fd, lock, dirty, mem, listLock, owner, exiting, exited>>

\* The end of fopen; freopen goes on to release stream->lock, which by now is
\* the new mutex and not the one it has acquired.
AddPush(t) ==
  /\ At(t, "push")
  /\ head' = th[t].file
  /\ listLock' = NULL
  /\ owner' = Released(lock[th[t].file])
  /\ Ends(t)
  /\ UNCHANGED <<next, prev, fd, lock, dirty, mem, exiting, exited>>
-----------------------------------------------------------------------------
(* Putting bytes into a stream: any of the calls that lock it.              *)

UseRead(t, f) ==
  /\ f \in Linked
  /\ Begins(t, "wait", f, lock[f], NULL, {})
  /\ UNCHANGED <<list, fd, lock, dirty, mem, owner, listLock, exiting, exited>>

UseAcquire(t) ==
  /\ At(t, "wait")
  /\ MayAcquire(th[t].mutex)
  /\ owner' = Acquired(th[t].mutex, t)
  /\ Goto(t, "use")
  /\ UNCHANGED <<list, fd, lock, dirty, mem, listLock, exiting, exited>>

UseRelease(t) ==
  /\ At(t, "use")
  /\ dirty' = [dirty EXCEPT ![th[t].file] = TRUE]
  /\ owner' = Released(lock[th[t].file])
  /\ Ends(t)
  /\ UNCHANGED <<list, fd, lock, mem, listLock, exiting, exited>>
-----------------------------------------------------------------------------
(* fclose, and the first half of freopen.                                   *)

FcloseRead(t, f) ==
  /\ f \in Linked \ {Stdout}
  /\ \E pc \in Closing : Begins(t, pc, f, lock[f], NULL, {})
  /\ UNCHANGED <<list, fd, lock, dirty, mem, owner, listLock, exiting, exited>>

\* __fclose_static_unlocked up to the memset: flush, close, free the buffer,
\* zero the FILE with its links and its lock.
Zeroed(f) ==
  /\ dirty' = [dirty EXCEPT ![f] = FALSE]
  /\ fd' = [fd EXCEPT ![f] = "none"]
  /\ next' = [next EXCEPT ![f] = NULL]
  /\ prev' = [prev EXCEPT ![f] = NULL]
  /\ lock' = [lock EXCEPT ![f] = NULL]

Forget(tt, f) == [t \in Threads |-> [tt[t] EXCEPT !.todo = @ \ {f}]]

FcloseZero(t) ==
  /\ At(t, "close") \/ At(t, "reclose")
  /\ MayAcquire(th[t].mutex)
  /\ owner' = Acquired(th[t].mutex, t)
  /\ Zeroed(th[t].file)
  /\ th' = Forget([th EXCEPT ![t].pc = IF @ = "close" THEN "unlink" ELSE "reunlink"],
                  th[t].file)
  /\ UNCHANGED <<head, mem, listLock, exiting, exited>>

\* The descriptor cannot be closed: the mutex is destroyed all the same.
FcloseFails(t) ==
  /\ At(t, "close")
  /\ MayAcquire(th[t].mutex)
  /\ owner' = IF th[t].mutex = NULL THEN owner
              ELSE [owner EXCEPT ![th[t].mutex] = NULL]
  /\ dirty' = [dirty EXCEPT ![th[t].file] = FALSE]
  /\ Ends(t)
  /\ UNCHANGED <<list, fd, lock, mem, listLock, exiting, exited>>

\* __open_file_list_remove.
Unlinked(f) ==
  /\ head' = IF f = head THEN next[f] ELSE head
  /\ next' = IF prev[f] = NULL THEN next ELSE [next EXCEPT ![prev[f]] = next[f]]
  /\ prev' = IF next[f] = NULL THEN prev ELSE [prev EXCEPT ![next[f]] = prev[f]]

FcloseUnlink(t) ==
  /\ At(t, "unlink") \/ At(t, "reunlink")
  /\ listLock = NULL
  /\ Unlinked(th[t].file)
  /\ Goto(t, IF th[t].pc = "unlink" THEN "free" ELSE "reopen")
  /\ UNCHANGED <<fd, lock, dirty, mem, owner, listLock, exiting, exited>>

\* __fclose_static destroys the mutex it has kept, fclose frees the FILE.
FcloseFree(t) ==
  /\ At(t, "free")
  /\ mem' = mem \ {th[t].file}
  /\ owner' = IF th[t].mutex = NULL THEN owner
              ELSE [owner EXCEPT ![th[t].mutex] = NULL]
  /\ Ends(t)
  /\ UNCHANGED <<list, fd, lock, dirty, listLock, exiting, exited>>

\* __stdio_impl_reopen goes on with __fopen_static: a new mutex, and the list
\* again; or the file cannot be opened and the FILE stays zeroed.
FreopenOpen(t) ==
  /\ At(t, "reopen")
  /\ NewMutex(th[t].file)
  /\ fd' = [fd EXCEPT ![th[t].file] = "file"]
  /\ Goto(t, "add")
  /\ UNCHANGED <<list, dirty, mem, listLock, exiting, exited>>

FreopenFails(t) ==
  /\ At(t, "reopen")
  /\ Ends(t)
  /\ UNCHANGED <<list, fd, lock, dirty, mem, owner, listLock, exiting, exited>>
-----------------------------------------------------------------------------
(* fflush(NULL): lock, flush and unlock each stream, then read its link.    *)

FlushAllBegin(t) ==
  /\ Begins(t, "flush", NULL, NULL, head, Linked)
  /\ UNCHANGED <<list, fd, lock, dirty, mem, owner, listLock, exiting, exited>>

\* Mutant: a stream that somebody uses ends the walk.
FlushAllVisitGivesUp(t) ==
  LET f == th[t].cursor
  IN  /\ At(t, "flush") /\ f # NULL
      /\ th' = [th EXCEPT ![t].pc = IF MayAcquire(lock[f]) THEN "link?" ELSE "flush",
                          ![t].todo = @ \ {f},
                          ![t].cursor = IF MayAcquire(lock[f]) THEN f ELSE NULL]
      /\ UNCHANGED <<list, fd, lock, dirty, mem, owner, listLock, exiting, exited>>

FlushAllVisit(t) ==
  LET f == th[t].cursor
  IN  /\ At(t, "flush") /\ f # NULL
      /\ MayAcquire(lock[f])
      /\ dirty' = [dirty EXCEPT ![f] = FALSE]
      /\ th' = [th EXCEPT ![t].pc = "link?", ![t].todo = @ \ {f}]
      /\ UNCHANGED <<list, fd, lock, mem, owner, listLock, exiting, exited>>

FlushAllNext(t) ==
  /\ At(t, "link?")
  /\ th' = [th EXCEPT ![t].pc = "flush", ![t].cursor = next[@]]
  /\ UNCHANGED <<list, fd, lock, dirty, mem, owner, listLock, exiting, exited>>

FlushAllEnd(t) ==
  /\ At(t, "flush") /\ th[t].cursor = NULL
  /\ Ends(t)
  /\ UNCHANGED <<list, fd, lock, dirty, mem, owner, listLock, exiting, exited>>
-----------------------------------------------------------------------------
(* exit: __fini_stdio closes what it can lock at once, the standard streams *)
(* excepted, then the process ends.                                         *)

FiniBegin(t) ==
  /\ ~exiting
  /\ Begins(t, "fini", NULL, NULL, head, Linked)
  /\ exiting' = TRUE
  /\ UNCHANGED <<list, fd, lock, dirty, mem, owner, listLock, exited>>

\* n = f->next; the test; and, if it holds, the close up to the memset.
FiniVisit(t) ==
  LET f == th[t].cursor
      m == lock[f]
      closes == fd[f] = "file" /\ MayAcquire(m)
  IN  /\ At(t, "fini") /\ f # NULL
      /\ IF closes
         THEN Zeroed(f) /\ owner' = Acquired(m, t)
         ELSE UNCHANGED <<dirty, fd, next, prev, lock, owner>>
      /\ th' = [Forget(th, f) EXCEPT
                  ![t].pc = IF closes THEN "finilink" ELSE "fini",
                  ![t].file = f, ![t].cursor = next[f]]
      /\ UNCHANGED <<head, mem, listLock, exiting, exited>>

\* Mutant: exit reads the link after the close.
FiniUnlinkThenNext(t) ==
  /\ At(t, "finilink")
  /\ listLock = NULL
  /\ Unlinked(th[t].file)
  /\ th' = [th EXCEPT ![t].pc = "fini", ![t].cursor = next[th[t].file]]
  /\ UNCHANGED <<fd, lock, dirty, mem, owner, listLock, exiting, exited>>

\* Then g_mutex_release(f->lock), which is zero by now.
FiniUnlink(t) ==
  /\ At(t, "finilink")
  /\ listLock = NULL
  /\ Unlinked(th[t].file)
  /\ Goto(t, "fini")
  /\ UNCHANGED <<fd, lock, dirty, mem, owner, listLock, exiting, exited>>

FiniEnd(t) ==
  /\ At(t, "fini") /\ th[t].cursor = NULL
  /\ exited' = TRUE
  /\ UNCHANGED <<list, fd, lock, dirty, mem, owner, listLock, th, exiting>>
-----------------------------------------------------------------------------
\* What a thread does next in the call it is in.
Continues(t) ==
  \/ AddLock(t) \/ AddLink(t) \/ AddPush(t)
  \/ UseAcquire(t) \/ UseRelease(t)
  \/ FlushAllVisit(t) \/ FlushAllNext(t) \/ FlushAllEnd(t)
  \/ FiniVisit(t) \/ FiniUnlink(t) \/ FiniEnd(t)

Closes(t) == FcloseZero(t) \/ FcloseFails(t) \/ FcloseUnlink(t) \/ FcloseFree(t)
             \/ FreopenOpen(t) \/ FreopenFails(t)

KeepNext ==
  \E t \in Threads :
    \/ \E f \in Files : FopenAlloc(t, f)
    \/ \E f \in Streams : UseRead(t, f)
    \/ FlushAllBegin(t)
    \/ FiniBegin(t)
    \/ Continues(t)

Next ==
  \/ KeepNext
  \/ \E t \in Threads : Closes(t) \/ \E f \in Files : FcloseRead(t, f)

\* The kernel runs every thread that can run.
Fairness == \A t \in Threads : WF_vars(Continues(t)) /\ WF_vars(Closes(t))

Spec == Init /\ [][Next]_vars /\ Fairness

\* The program keeps its streams until exit.
KeepSpec == Init /\ [][KeepNext]_vars /\ Fairness
-----------------------------------------------------------------------------
Links == Streams \cup {NULL}
Pcs == {"idle", "add", "link", "push", "wait", "use", "close", "reclose",
        "unlink", "reunlink", "free", "reopen", "flush", "link?", "fini",
        "finilink"}

\* The shape of the state: a FILE links to FILEs, never to what was in its
\* memory before (fopen allocates with calloc).
TypeOK ==
  /\ head \in Links
  /\ next \in [Streams -> Links]
  /\ prev \in [Streams -> Links]
  /\ fd \in [Streams -> {"none", "std", "file"}]
  /\ lock \in [Streams -> Mutexes \cup {NULL}]
  /\ dirty \in [Streams -> BOOLEAN]
  /\ mem \subseteq Streams
  /\ owner \in [Mutexes -> Threads \cup {NULL, "free"}]
  /\ listLock \in Threads \cup {NULL}
  /\ th \in [Threads -> [pc : Pcs, file : Links, mutex : Mutexes \cup {NULL},
                         cursor : Links, todo : SUBSET Streams,
                         calls : 0 .. MaxCalls]]
  /\ exiting \in BOOLEAN /\ exited \in BOOLEAN

\* The FILE reached after n links.
Chain ==
  LET c[n \in 0 .. Cardinality(Streams)] ==
        IF n = 0 THEN head ELSE IF c[n - 1] = NULL THEN NULL ELSE next[c[n - 1]]
  IN  c

\* Until exit takes them out, the list holds every open stream exactly once and
\* nothing else, and can be followed in both directions, however the threads'
\* fopens interleave (__open_file_list_add under open_file_list_lock).
ListSound ==
  ~exiting /\ listLock = NULL =>
    /\ Chain[Cardinality(Streams)] = NULL
    /\ {Chain[n] : n \in DOMAIN Chain} \ {NULL} = Linked
    /\ \A f \in Linked : next[f] # NULL => prev[next[f]] = f

\* fflush(NULL) flushes all streams: it does not return before it has been at
\* every stream that was open when it began and still is, whatever the other
\* threads open meanwhile (fflush walks the list without its mutex).
FlushAllComplete ==
  \A t \in Threads :
    th[t].pc = "flush" /\ th[t].cursor = NULL /\ ~exiting => th[t].todo = {}

\* exit looks at every stream that was open when it began, although it takes
\* them out of the list as it goes (__fini_stdio reads the link first).
FiniComplete ==
  \A t \in Threads :
    th[t].pc = "fini" /\ th[t].cursor = NULL => th[t].todo = {}

\* Every call returns, or the process ends: no thread waits forever for the
\* list's or a stream's mutex, and no walk goes round in circles.
CallsReturn ==
  \A t \in Threads : th[t].pc # "idle" ~> th[t].pc = "idle" \/ exited
=============================================================================
