-------------------------- MODULE OpenFilesProofs --------------------------
(***************************************************************************)
(* The list of open streams, for every number of threads, FILEs and        *)
(* mutexes, as long as the program closes nothing before exit: the list is *)
(* sound, fflush(NULL) reaches every stream in it, and so does exit.       *)
(*                                                                         *)
(* Neither walk holds the list's mutex, so what it has still to do is      *)
(* stated by where it is: all of todo lies in every set of FILEs that      *)
(* holds the cursor and the successor of each of its members.              *)
(***************************************************************************)
EXTENDS OpenFiles, FiniteSetTheorems, WellFoundedInduction, TLAPS

Threadlike == [pc : Pcs, file : Links, mutex : Mutexes \cup {NULL},
               cursor : Links, todo : SUBSET Streams, calls : 0 .. MaxCalls]

\* Where a thread has a FILE in hand, and where its walk stands at one.
FilePcs == {"add", "link", "push", "wait", "use", "close", "reclose", "unlink",
            "reunlink", "free", "reopen", "finilink"}

TypeInv ==
  /\ TypeOK
  /\ \A t \in Threads : th[t].pc \in FilePcs => th[t].file # NULL
  /\ \A t \in Threads : th[t].pc = "link?" => th[t].cursor # NULL

\* Following nx from c leads through all of T.
Covers(nx, c, T) ==
  \A S \in SUBSET Streams :
    /\ c # NULL => c \in S
    /\ \A f \in S : nx[f] = NULL \/ nx[f] \in S
    => T \subseteq S

ClosePcs == {"close", "reclose", "unlink", "reunlink", "free", "reopen"}
OpenPcs == {"add", "link", "push"}

\* A FILE that is being opened is nobody's but its thread's.
OpeningInv ==
  /\ \A t \in Threads : th[t].pc \notin ClosePcs
  /\ \A t \in Threads : th[t].pc \in OpenPcs =>
       th[t].file \in mem /\ th[t].file # Stdout /\ fd[th[t].file] # "none"
  /\ \A t, u \in Threads : th[t].pc \in OpenPcs /\ th[u].pc \in OpenPcs
                           /\ th[t].file = th[u].file => t = u
  /\ \A t \in Threads : th[t].pc \in {"link", "push"} => listLock = t
  /\ \A t \in Threads : th[t].pc \in {"add", "link"} => next[th[t].file] = NULL
  /\ \A f \in Streams \ mem : next[f] = NULL
  /\ head \in mem \cup {NULL} /\ head \notin InTransit
  /\ \A f \in Streams : next[f] \in mem \cup {NULL} /\ next[f] \notin InTransit
  /\ Stdout \in mem /\ fd[Stdout] = "std"

\* Before exit the list is a chain that starts at its head and leads through
\* every open stream; a thread between the two halves of
\* __open_file_list_add has tied its FILE to the head.
ListInv ==
  /\ Covers(next, head, Linked)
  /\ head \in Linked
  /\ \A f \in Linked : next[f] \in Linked \cup {NULL} /\ next[f] # head
  /\ \A S \in SUBSET Linked : S # {} => \E f \in S : next[f] \notin S
  /\ \A f \in Linked : next[f] # NULL => prev[next[f]] = f
  /\ \A t \in Threads : th[t].pc = "push" =>
       next[th[t].file] = head /\ prev[head] = th[t].file

FlushInv ==
  \A t \in Threads :
    /\ th[t].pc = "flush" => Covers(next, th[t].cursor, th[t].todo)
    /\ th[t].pc = "link?" => Covers(next, next[th[t].cursor], th[t].todo)

\* The walk of exit; between its close and its unlinking of a FILE another
\* thread may have put a new one in front of it.
FiniInv ==
  /\ \A t, u \in Threads : th[t].pc \in {"fini", "finilink"}
                           /\ th[u].pc \in {"fini", "finilink"} => t = u
  /\ \A t \in Threads : th[t].pc \in {"fini", "finilink"} =>
       exiting /\ Covers(next, th[t].cursor, th[t].todo)
  /\ \A t \in Threads : th[t].pc = "finilink" =>
       /\ next[th[t].file] = NULL
       /\ th[t].file \in mem /\ fd[th[t].file] = "none"
       /\ th[t].file \notin th[t].todo
       /\ prev[th[t].file] # NULL => next[prev[th[t].file]] = th[t].file

WalkInv ==
  /\ \A t \in Threads : th[t].cursor \in mem \cup {NULL} /\ th[t].cursor \notin InTransit
  /\ FiniInv
  /\ ~exiting => FlushInv

KeepInv == TypeInv /\ OpeningInv /\ (~exiting => ListInv) /\ WalkInv
-----------------------------------------------------------------------------
(* Walks over a list.                                                      *)

LEMMA CoversEnd ==
  ASSUME NEW nx, NEW T, Covers(nx, NULL, T)
  PROVE  T = {}
<1>1. {} \in SUBSET Streams /\ \A f \in {} : nx[f] = NULL \/ nx[f] \in {}
  OBVIOUS
<1>2. T \subseteq {}
  BY <1>1 DEF Covers
<1> QED BY <1>2

LEMMA CoversLess ==
  ASSUME NEW nx, NEW c, NEW T, NEW U \in SUBSET T, Covers(nx, c, T)
  PROVE  Covers(nx, c, U)
BY DEF Covers

\* Reading the link of the FILE the walk is at, after having visited it.
LEMMA CoversStep ==
  ASSUME NEW nx \in [Streams -> Links], NEW c \in Streams, NEW T \in SUBSET Streams,
         Covers(nx, c, T)
  PROVE  Covers(nx, nx[c], T \ {c})
<1> SUFFICES ASSUME NEW S \in SUBSET Streams,
                    nx[c] # NULL => nx[c] \in S,
                    \A f \in S : nx[f] = NULL \/ nx[f] \in S
             PROVE  T \ {c} \subseteq S
  BY DEF Covers
<1>1. \A f \in S \cup {c} : nx[f] = NULL \/ nx[f] \in S \cup {c}
  OBVIOUS
<1>2. S \cup {c} \in SUBSET Streams
  OBVIOUS
<1>3. T \subseteq S \cup {c}
  BY <1>1, <1>2, Zenon DEF Covers
<1> QED BY <1>3

\* Setting the link of a FILE that had none.
LEMMA CoversTied ==
  ASSUME NEW nx \in [Streams -> Links], NEW c, NEW T, NEW g \in Streams, NEW h,
         nx[g] = NULL, Covers(nx, c, T)
  PROVE  Covers([nx EXCEPT ![g] = h], c, T)
<1> SUFFICES ASSUME NEW S \in SUBSET Streams,
                    c # NULL => c \in S,
                    \A f \in S : [nx EXCEPT ![g] = h][f] = NULL
                                 \/ [nx EXCEPT ![g] = h][f] \in S
             PROVE  T \subseteq S
  BY DEF Covers
<1>1. \A f \in S : nx[f] = NULL \/ nx[f] \in S
  OBVIOUS
<1> QED BY <1>1 DEF Covers

\* Clearing the link of the FILE the walk is at, after having read it.
LEMMA CoversZeroed ==
  ASSUME NEW nx \in [Streams -> Links], NEW c \in Streams, NEW T \in SUBSET Streams,
         Covers(nx, c, T)
  PROVE  Covers([nx EXCEPT ![c] = NULL], nx[c], T \ {c})
<1> SUFFICES ASSUME NEW S \in SUBSET Streams,
                    nx[c] # NULL => nx[c] \in S,
                    \A f \in S : [nx EXCEPT ![c] = NULL][f] = NULL
                                 \/ [nx EXCEPT ![c] = NULL][f] \in S
             PROVE  T \ {c} \subseteq S
  BY DEF Covers
<1>1. \A f \in S \cup {c} : nx[f] = NULL \/ nx[f] \in S \cup {c}
  OBVIOUS
<1>2. S \cup {c} \in SUBSET Streams
  OBVIOUS
<1>3. T \subseteq S \cup {c}
  BY <1>1, <1>2, Zenon DEF Covers
<1> QED BY <1>3

\* Clearing a link that led to a FILE the walk has passed.
LEMMA CoversUntied ==
  ASSUME NEW nx \in [Streams -> Links], NEW c, NEW T \in SUBSET Streams,
         NEW f \in Streams, NEW h \in Streams,
         nx[f] = NULL, nx[h] = f, f \notin T, Covers(nx, c, T)
  PROVE  Covers([nx EXCEPT ![h] = NULL], c, T)
<1> SUFFICES ASSUME NEW S \in SUBSET Streams,
                    c # NULL => c \in S,
                    \A g \in S : [nx EXCEPT ![h] = NULL][g] = NULL
                                 \/ [nx EXCEPT ![h] = NULL][g] \in S
             PROVE  T \subseteq S
  BY DEF Covers
<1>1. \A g \in S \cup {f} : nx[g] = NULL \/ nx[g] \in S \cup {f}
  OBVIOUS
<1>2. S \cup {f} \in SUBSET Streams
  OBVIOUS
<1>3. T \subseteq S \cup {f}
  BY <1>1, <1>2, Zenon DEF Covers
<1> QED BY <1>3
-----------------------------------------------------------------------------
(* Types, whatever the program calls.                                      *)

LEMMA TypeInit == Init => TypeInv
<1> SUFFICES ASSUME Init PROVE TypeInv
  OBVIOUS
<1>1. (CHOOSE k \in Mutexes : TRUE) \in Mutexes
  BY FilesAssumption
<1>2. Idle \in Threadlike
  BY FilesAssumption DEF Idle, Threadlike, Pcs, Links
<1>3. th \in [Threads -> Threadlike] /\ \A t \in Threads : th[t] = Idle
  BY <1>2 DEF Init
<1> QED BY <1>1, <1>3, FilesAssumption DEF Init, TypeInv, TypeOK, Links, Streams,
                       Idle, FilePcs, Threadlike

LEMMA BeginsType ==
  ASSUME TypeInv, NEW t \in Threads, NEW pc \in Pcs, NEW file \in Links,
         NEW mutex \in Mutexes \cup {NULL}, NEW cursor \in Links,
         NEW todo \in SUBSET Streams,
         Begins(t, pc, file, mutex, cursor, todo),
         pc \in FilePcs => file # NULL, pc # "link?"
  PROVE  /\ th' \in [Threads -> Threadlike]
         /\ \A u \in Threads : th'[u].pc \in FilePcs => th'[u].file # NULL
         /\ \A u \in Threads : th'[u].pc = "link?" => th'[u].cursor # NULL
<1>1. th[t].calls + 1 \in 0 .. MaxCalls
  BY FilesAssumption DEF TypeInv, TypeOK, Begins
<1> DEFINE new == [pc |-> pc, file |-> file, mutex |-> mutex,
                   cursor |-> cursor, todo |-> todo, calls |-> th[t].calls + 1]
<1>2. new \in Threadlike
  BY <1>1 DEF Threadlike
<1>3. th' = [th EXCEPT ![t] = new]
  BY DEF Begins
<1>4. th \in [Threads -> Threadlike]
  BY DEF TypeInv, TypeOK, Threadlike
<1>5. new.pc = pc /\ new.file = file
  OBVIOUS
<1> HIDE DEF new
<1> QED BY <1>2, <1>3, <1>4, <1>5 DEF TypeInv

LEMMA EndsType ==
  ASSUME TypeInv, NEW t \in Threads, Ends(t)
  PROVE  /\ th' \in [Threads -> Threadlike]
         /\ \A u \in Threads : th'[u].pc \in FilePcs => th'[u].file # NULL
         /\ \A u \in Threads : th'[u].pc = "link?" => th'[u].cursor # NULL
<1> DEFINE new == [Idle EXCEPT !.calls = th[t].calls]
<1>1. th \in [Threads -> Threadlike]
  BY DEF TypeInv, TypeOK, Threadlike
<1>2. new \in Threadlike /\ new.pc = "idle"
  BY <1>1, FilesAssumption DEF Threadlike, Idle, Links, Pcs
<1>3. th' = [th EXCEPT ![t] = new]
  BY DEF Ends
<1> HIDE DEF new
<1> QED BY <1>1, <1>2, <1>3 DEF TypeInv, FilePcs

LEMMA GotoType ==
  ASSUME TypeInv, NEW t \in Threads, NEW pc \in Pcs, Goto(t, pc),
         pc \in FilePcs => th[t].file # NULL, pc = "link?" => th[t].cursor # NULL
  PROVE  /\ th' \in [Threads -> Threadlike]
         /\ \A u \in Threads : th'[u].pc \in FilePcs => th'[u].file # NULL
         /\ \A u \in Threads : th'[u].pc = "link?" => th'[u].cursor # NULL
<1>1. th \in [Threads -> Threadlike]
  BY DEF TypeInv, TypeOK, Threadlike
<1>2. [th[t] EXCEPT !.pc = pc] \in Threadlike
  BY <1>1 DEF Threadlike
<1>3. th' = [th EXCEPT ![t] = [th[t] EXCEPT !.pc = pc]]
  BY DEF Goto
<1> QED BY <1>1, <1>2, <1>3 DEF TypeInv, Threadlike

LEMMA ForgetType ==
  ASSUME NEW tt \in [Threads -> Threadlike], NEW f
  PROVE  /\ Forget(tt, f) \in [Threads -> Threadlike]
         /\ \A u \in Threads :
              /\ Forget(tt, f)[u].pc = tt[u].pc
              /\ Forget(tt, f)[u].file = tt[u].file
              /\ Forget(tt, f)[u].cursor = tt[u].cursor
              /\ Forget(tt, f)[u].todo = tt[u].todo \ {f}
<1>1. \A r \in Threadlike :
        /\ [r EXCEPT !.todo = @ \ {f}] \in Threadlike
        /\ [r EXCEPT !.todo = @ \ {f}].pc = r.pc
        /\ [r EXCEPT !.todo = @ \ {f}].file = r.file
        /\ [r EXCEPT !.todo = @ \ {f}].cursor = r.cursor
        /\ [r EXCEPT !.todo = @ \ {f}].todo = r.todo \ {f}
  BY DEF Threadlike
<1> QED BY <1>1 DEF Forget

\* What the thread's next call makes of the mutexes.
LEMMA MutexType ==
  ASSUME TypeInv, NEW m \in Mutexes \cup {NULL}, NEW t \in Threads
  PROVE  /\ Acquired(m, t) \in [Mutexes -> Threads \cup {NULL, "free"}]
         /\ Released(m) \in [Mutexes -> Threads \cup {NULL, "free"}]
BY DEF TypeInv, TypeOK, Acquired, Released

LEMMA NewMutexType ==
  ASSUME TypeInv, NEW f \in Streams, NewMutex(f)
  PROVE  /\ lock' \in [Streams -> Mutexes \cup {NULL}]
         /\ owner' \in [Mutexes -> Threads \cup {NULL, "free"}]
<1> DEFINE m == CHOOSE k \in Mutexes : owner[k] = NULL
<1>1. m \in Mutexes
  BY DEF NewMutex
<1>2. lock' = [lock EXCEPT ![f] = m] /\ owner' = [owner EXCEPT ![m] = "free"]
  BY DEF NewMutex
<1> HIDE DEF m
<1> QED BY <1>1, <1>2 DEF TypeInv, TypeOK

LEMMA ZeroedType ==
  ASSUME TypeInv, NEW f \in Streams, Zeroed(f)
  PROVE  /\ next' \in [Streams -> Links] /\ prev' \in [Streams -> Links]
         /\ fd' \in [Streams -> {"none", "std", "file"}]
         /\ lock' \in [Streams -> Mutexes \cup {NULL}]
         /\ dirty' \in [Streams -> BOOLEAN]
<1>1. /\ dirty' = [dirty EXCEPT ![f] = FALSE] /\ fd' = [fd EXCEPT ![f] = "none"]
      /\ next' = [next EXCEPT ![f] = NULL] /\ prev' = [prev EXCEPT ![f] = NULL]
      /\ lock' = [lock EXCEPT ![f] = NULL]
  BY Zenon DEF Zeroed
<1>2. fd' \in [Streams -> {"none", "std", "file"}]
  BY <1>1 DEF TypeInv, TypeOK
<1>3. next' \in [Streams -> Links] /\ prev' \in [Streams -> Links]
  BY <1>1 DEF TypeInv, TypeOK, Links
<1>4. lock' \in [Streams -> Mutexes \cup {NULL}] /\ dirty' \in [Streams -> BOOLEAN]
  BY <1>1 DEF TypeInv, TypeOK
<1> QED BY <1>2, <1>3, <1>4

LEMMA UnlinkedType ==
  ASSUME TypeInv, NEW f \in Streams, Unlinked(f)
  PROVE  head' \in Links /\ next' \in [Streams -> Links] /\ prev' \in [Streams -> Links]
BY DEF TypeInv, TypeOK, Unlinked, Links

\* Under TypeInv the parts of a thread have the types they should.
LEMMA ThreadType ==
  ASSUME TypeInv, NEW t \in Threads
  PROVE  /\ th \in [Threads -> Threadlike]
         /\ th[t] \in Threadlike
         /\ th[t].file \in Links /\ th[t].cursor \in Links
         /\ th[t].mutex \in Mutexes \cup {NULL}
         /\ th[t].todo \in SUBSET Streams /\ th[t].pc \in Pcs
         /\ th[t].pc \in FilePcs => th[t].file \in Streams
         /\ th[t].pc = "link?" => th[t].cursor \in Streams
BY DEF TypeInv, TypeOK, Threadlike, Links

\* TypeInv from its parts.
LEMMA TypeParts ==
  ASSUME th' \in [Threads -> Threadlike],
         \A u \in Threads : th'[u].pc \in FilePcs => th'[u].file # NULL,
         \A u \in Threads : th'[u].pc = "link?" => th'[u].cursor # NULL,
         head' \in Links, next' \in [Streams -> Links], prev' \in [Streams -> Links],
         fd' \in [Streams -> {"none", "std", "file"}],
         lock' \in [Streams -> Mutexes \cup {NULL}],
         dirty' \in [Streams -> BOOLEAN], mem' \subseteq Streams,
         owner' \in [Mutexes -> Threads \cup {NULL, "free"}],
         listLock' \in Threads \cup {NULL}, exiting' \in BOOLEAN, exited' \in BOOLEAN
  PROVE  TypeInv'
BY Zenon DEF TypeInv, TypeOK, Threadlike

LEMMA TypeIsParts ==
  ASSUME TypeInv
  PROVE  /\ head \in Links /\ next \in [Streams -> Links] /\ prev \in [Streams -> Links]
         /\ fd \in [Streams -> {"none", "std", "file"}]
         /\ lock \in [Streams -> Mutexes \cup {NULL}]
         /\ dirty \in [Streams -> BOOLEAN] /\ mem \subseteq Streams
         /\ owner \in [Mutexes -> Threads \cup {NULL, "free"}]
         /\ listLock \in Threads \cup {NULL} /\ exiting \in BOOLEAN /\ exited \in BOOLEAN
BY Zenon DEF TypeInv, TypeOK

LEMMA FopenAllocType ==
  ASSUME TypeInv, NEW t \in Threads, NEW f \in Files, FopenAlloc(t, f)
  PROVE  TypeInv'
<1>0. /\ th' \in [Threads -> Threadlike]
      /\ \A u \in Threads : th'[u].pc \in FilePcs => th'[u].file # NULL
      /\ \A u \in Threads : th'[u].pc = "link?" => th'[u].cursor # NULL
  BY BeginsType, FilesAssumption, ThreadType DEF FopenAlloc, Pcs, Links, Streams, FilePcs
<1>1. f \in Streams /\ NULL \in Links
  BY DEF Streams, Links
<1>2. /\ lock' \in [Streams -> Mutexes \cup {NULL}]
      /\ owner' \in [Mutexes -> Threads \cup {NULL, "free"}]
  BY <1>1, NewMutexType DEF FopenAlloc
<1> QED BY <1>0, <1>1, <1>2, FilesAssumption, TypeIsParts, TypeParts DEF FopenAlloc, list

LEMMA AddLockType ==
  ASSUME TypeInv, NEW t \in Threads, AddLock(t)
  PROVE  TypeInv'
<1>8. "link" \in Pcs /\ "link" # "link?"
  BY DEF Pcs
<1>9. Goto(t, "link") /\ th[t].file # NULL
  BY ThreadType, FilesAssumption DEF AddLock, At, FilePcs, TypeInv
<1>0. /\ th' \in [Threads -> Threadlike]
      /\ \A u \in Threads : th'[u].pc \in FilePcs => th'[u].file # NULL
      /\ \A u \in Threads : th'[u].pc = "link?" => th'[u].cursor # NULL
  BY <1>8, <1>9, GotoType
<1> QED BY <1>0, TypeIsParts, TypeParts DEF AddLock, list

LEMMA AddLinkType ==
  ASSUME TypeInv, NEW t \in Threads, AddLink(t)
  PROVE  TypeInv'
<1>8. "push" \in Pcs /\ "push" # "link?"
  BY DEF Pcs
<1>9. Goto(t, "push") /\ th[t].file # NULL
  BY ThreadType, FilesAssumption DEF AddLink, At, FilePcs, TypeInv
<1>0. /\ th' \in [Threads -> Threadlike]
      /\ \A u \in Threads : th'[u].pc \in FilePcs => th'[u].file # NULL
      /\ \A u \in Threads : th'[u].pc = "link?" => th'[u].cursor # NULL
  BY <1>8, <1>9, GotoType
<1>1. next' \in [Streams -> Links] /\ prev' \in [Streams -> Links]
  BY ThreadType, TypeIsParts DEF AddLink, At, FilePcs, Links
<1> QED BY <1>0, <1>1, TypeIsParts, TypeParts DEF AddLink, list

LEMMA AddPushType ==
  ASSUME TypeInv, NEW t \in Threads, AddPush(t)
  PROVE  TypeInv'
<1>0. /\ th' \in [Threads -> Threadlike]
      /\ \A u \in Threads : th'[u].pc \in FilePcs => th'[u].file # NULL
      /\ \A u \in Threads : th'[u].pc = "link?" => th'[u].cursor # NULL
  BY EndsType, ThreadType DEF AddPush
<1>1. owner' \in [Mutexes -> Threads \cup {NULL, "free"}] /\ head' \in Links
  BY ThreadType, TypeIsParts, MutexType DEF AddPush, At, FilePcs, Links
<1> QED BY <1>0, <1>1, TypeIsParts, TypeParts DEF AddPush, list

LEMMA UseReadType ==
  ASSUME TypeInv, NEW t \in Threads, NEW f \in Streams, UseRead(t, f)
  PROVE  TypeInv'
<1> DEFINE m == lock[f]
<1>7. "wait" \in Pcs /\ "wait" # "link?"
  BY DEF Pcs
<1>8. m \in Mutexes \cup {NULL} /\ f \in Links /\ f # NULL /\ NULL \in Links
  BY TypeIsParts, FilesAssumption DEF Links, Streams, Linked, FilePcs
<1>9. Begins(t, "wait", f, m, NULL, {}) /\ {} \in SUBSET Streams
  BY DEF UseRead
<1> HIDE DEF m
<1>0. /\ th' \in [Threads -> Threadlike]
      /\ \A u \in Threads : th'[u].pc \in FilePcs => th'[u].file # NULL
      /\ \A u \in Threads : th'[u].pc = "link?" => th'[u].cursor # NULL
  BY <1>7, <1>8, <1>9, BeginsType
<1> QED BY <1>0, TypeIsParts, TypeParts DEF UseRead, list

LEMMA UseAcquireType ==
  ASSUME TypeInv, NEW t \in Threads, UseAcquire(t)
  PROVE  TypeInv'
<1>8. "use" \in Pcs /\ "use" # "link?"
  BY DEF Pcs
<1>9. Goto(t, "use") /\ th[t].file # NULL
  BY ThreadType, FilesAssumption DEF UseAcquire, At, FilePcs, TypeInv
<1>0. /\ th' \in [Threads -> Threadlike]
      /\ \A u \in Threads : th'[u].pc \in FilePcs => th'[u].file # NULL
      /\ \A u \in Threads : th'[u].pc = "link?" => th'[u].cursor # NULL
  BY <1>8, <1>9, GotoType
<1>1. owner' \in [Mutexes -> Threads \cup {NULL, "free"}]
  BY ThreadType, MutexType DEF UseAcquire
<1> QED BY <1>0, <1>1, TypeIsParts, TypeParts DEF UseAcquire, list

LEMMA UseReleaseType ==
  ASSUME TypeInv, NEW t \in Threads, UseRelease(t)
  PROVE  TypeInv'
<1>0. /\ th' \in [Threads -> Threadlike]
      /\ \A u \in Threads : th'[u].pc \in FilePcs => th'[u].file # NULL
      /\ \A u \in Threads : th'[u].pc = "link?" => th'[u].cursor # NULL
  BY EndsType, ThreadType DEF UseRelease
<1>1. owner' \in [Mutexes -> Threads \cup {NULL, "free"}]
  BY ThreadType, TypeIsParts, MutexType DEF UseRelease, At, FilePcs
<1> QED BY <1>0, <1>1, TypeIsParts, TypeParts DEF UseRelease, list

LEMMA FcloseReadType ==
  ASSUME TypeInv, NEW t \in Threads, NEW f \in Files, FcloseRead(t, f)
  PROVE  TypeInv'
<1>6. PICK pc \in Closing : Begins(t, pc, f, lock[f], NULL, {})
  BY DEF FcloseRead
<1>7. pc \in Pcs /\ pc # "link?"
  BY FilesAssumption DEF Pcs
<1>8. lock[f] \in Mutexes \cup {NULL} /\ f \in Links /\ f # NULL /\ NULL \in Links
  BY TypeIsParts, FilesAssumption DEF Links, Streams
<1>0. /\ th' \in [Threads -> Threadlike]
      /\ \A u \in Threads : th'[u].pc \in FilePcs => th'[u].file # NULL
      /\ \A u \in Threads : th'[u].pc = "link?" => th'[u].cursor # NULL
  BY <1>6, <1>7, <1>8, BeginsType
<1> QED BY <1>0, TypeIsParts, TypeParts DEF FcloseRead, list

LEMMA FcloseZeroType ==
  ASSUME TypeInv, NEW t \in Threads, FcloseZero(t)
  PROVE  TypeInv'
<1> DEFINE tt == [th EXCEPT ![t].pc = IF @ = "close" THEN "unlink" ELSE "reunlink"]
<1>1. th[t].file \in Streams
  BY ThreadType DEF FcloseZero, At, FilePcs
<1>2. tt \in [Threads -> Threadlike]
  BY ThreadType DEF Threadlike, Pcs
<1>3. \A u \in Threads : /\ tt[u].file = th[u].file /\ tt[u].cursor = th[u].cursor
                         /\ tt[u].pc \in FilePcs => th[u].pc \in FilePcs
                         /\ tt[u].pc = "link?" => th[u].pc = "link?"
  BY ThreadType DEF Threadlike, FcloseZero, At, FilePcs
<1>4. th' = Forget(tt, th[t].file)
  BY DEF FcloseZero
<1> HIDE DEF tt
<1>0. /\ th' \in [Threads -> Threadlike]
      /\ \A u \in Threads : th'[u].pc \in FilePcs => th'[u].file # NULL
      /\ \A u \in Threads : th'[u].pc = "link?" => th'[u].cursor # NULL
  BY <1>2, <1>3, <1>4, ForgetType DEF TypeInv
<1>5. owner' \in [Mutexes -> Threads \cup {NULL, "free"}]
  BY ThreadType, MutexType DEF FcloseZero
<1> QED BY <1>0, <1>1, <1>5, ZeroedType, TypeIsParts, TypeParts DEF FcloseZero

LEMMA FcloseFailsType ==
  ASSUME TypeInv, NEW t \in Threads, FcloseFails(t)
  PROVE  TypeInv'
<1>0. /\ th' \in [Threads -> Threadlike]
      /\ \A u \in Threads : th'[u].pc \in FilePcs => th'[u].file # NULL
      /\ \A u \in Threads : th'[u].pc = "link?" => th'[u].cursor # NULL
  BY EndsType, ThreadType DEF FcloseFails
<1>1. owner' \in [Mutexes -> Threads \cup {NULL, "free"}]
  BY ThreadType, TypeIsParts DEF FcloseFails
<1> QED BY <1>0, <1>1, TypeIsParts, TypeParts DEF FcloseFails, list

LEMMA FcloseUnlinkType ==
  ASSUME TypeInv, NEW t \in Threads, FcloseUnlink(t)
  PROVE  TypeInv'
<1> DEFINE pc == IF th[t].pc = "unlink" THEN "free" ELSE "reopen"
<1>8. pc \in Pcs /\ pc # "link?"
  BY DEF Pcs
<1>9. Goto(t, pc) /\ th[t].file # NULL
  BY ThreadType DEF FcloseUnlink, At, FilePcs, TypeInv
<1> HIDE DEF pc
<1>0. /\ th' \in [Threads -> Threadlike]
      /\ \A u \in Threads : th'[u].pc \in FilePcs => th'[u].file # NULL
      /\ \A u \in Threads : th'[u].pc = "link?" => th'[u].cursor # NULL
  BY <1>8, <1>9, GotoType
<1>1. head' \in Links /\ next' \in [Streams -> Links] /\ prev' \in [Streams -> Links]
  BY ThreadType, UnlinkedType DEF FcloseUnlink, At, FilePcs
<1> QED BY <1>0, <1>1, TypeIsParts, TypeParts DEF FcloseUnlink, list

LEMMA FcloseFreeType ==
  ASSUME TypeInv, NEW t \in Threads, FcloseFree(t)
  PROVE  TypeInv'
<1>0. /\ th' \in [Threads -> Threadlike]
      /\ \A u \in Threads : th'[u].pc \in FilePcs => th'[u].file # NULL
      /\ \A u \in Threads : th'[u].pc = "link?" => th'[u].cursor # NULL
  BY EndsType, ThreadType DEF FcloseFree
<1>1. owner' \in [Mutexes -> Threads \cup {NULL, "free"}]
  BY ThreadType, TypeIsParts DEF FcloseFree
<1> QED BY <1>0, <1>1, TypeIsParts, TypeParts DEF FcloseFree, list

LEMMA FreopenOpenType ==
  ASSUME TypeInv, NEW t \in Threads, FreopenOpen(t)
  PROVE  TypeInv'
<1>8. "add" \in Pcs /\ "add" # "link?"
  BY DEF Pcs
<1>9. Goto(t, "add") /\ th[t].file # NULL
  BY ThreadType, FilesAssumption DEF FreopenOpen, At, FilePcs, TypeInv
<1>0. /\ th' \in [Threads -> Threadlike]
      /\ \A u \in Threads : th'[u].pc \in FilePcs => th'[u].file # NULL
      /\ \A u \in Threads : th'[u].pc = "link?" => th'[u].cursor # NULL
  BY <1>8, <1>9, GotoType
<1>1. /\ lock' \in [Streams -> Mutexes \cup {NULL}]
      /\ owner' \in [Mutexes -> Threads \cup {NULL, "free"}]
  BY ThreadType, NewMutexType DEF FreopenOpen, At, FilePcs
<1> QED BY <1>0, <1>1, TypeIsParts, TypeParts DEF FreopenOpen, list

LEMMA FreopenFailsType ==
  ASSUME TypeInv, NEW t \in Threads, FreopenFails(t)
  PROVE  TypeInv'
<1>0. /\ th' \in [Threads -> Threadlike]
      /\ \A u \in Threads : th'[u].pc \in FilePcs => th'[u].file # NULL
      /\ \A u \in Threads : th'[u].pc = "link?" => th'[u].cursor # NULL
  BY EndsType, ThreadType DEF FreopenFails
<1> QED BY <1>0, TypeIsParts, TypeParts DEF FreopenFails, list

LEMMA FlushAllBeginType ==
  ASSUME TypeInv, NEW t \in Threads, FlushAllBegin(t)
  PROVE  TypeInv'
<1>7. "flush" \in Pcs /\ "flush" # "link?"
  BY DEF Pcs
<1>8. "flush" \notin FilePcs /\ Linked \in SUBSET Streams /\ head \in Links /\ NULL \in Links
  BY TypeIsParts, FilesAssumption DEF Links, Streams, Linked, FilePcs
<1>9. Begins(t, "flush", NULL, NULL, head, Linked)
  BY DEF FlushAllBegin
<1>0. /\ th' \in [Threads -> Threadlike]
      /\ \A u \in Threads : th'[u].pc \in FilePcs => th'[u].file # NULL
      /\ \A u \in Threads : th'[u].pc = "link?" => th'[u].cursor # NULL
  BY <1>7, <1>8, <1>9, BeginsType
<1> QED BY <1>0, TypeIsParts, TypeParts DEF FlushAllBegin, list

LEMMA FlushAllVisitType ==
  ASSUME TypeInv, NEW t \in Threads, FlushAllVisit(t)
  PROVE  TypeInv'
<1>1. th' = [th EXCEPT ![t] = [th[t] EXCEPT !.pc = "link?", !.todo = @ \ {th[t].cursor}]]
  BY ThreadType DEF FlushAllVisit, Threadlike
<1>2. [th[t] EXCEPT !.pc = "link?", !.todo = @ \ {th[t].cursor}] \in Threadlike
  BY ThreadType DEF Threadlike, Pcs
<1>0. /\ th' \in [Threads -> Threadlike]
      /\ \A u \in Threads : th'[u].pc \in FilePcs => th'[u].file # NULL
      /\ \A u \in Threads : th'[u].pc = "link?" => th'[u].cursor # NULL
  BY <1>1, <1>2, ThreadType DEF TypeInv, FlushAllVisit, FilePcs, Threadlike
<1> QED BY <1>0, TypeIsParts, TypeParts DEF FlushAllVisit, list

LEMMA FlushAllNextType ==
  ASSUME TypeInv, NEW t \in Threads, FlushAllNext(t)
  PROVE  TypeInv'
<1>1. th' = [th EXCEPT ![t] = [th[t] EXCEPT !.pc = "flush", !.cursor = next[@]]]
  BY ThreadType DEF FlushAllNext, Threadlike
<1>2. [th[t] EXCEPT !.pc = "flush", !.cursor = next[@]] \in Threadlike
  BY ThreadType, TypeIsParts DEF Threadlike, Pcs, FlushAllNext, At
<1>0. /\ th' \in [Threads -> Threadlike]
      /\ \A u \in Threads : th'[u].pc \in FilePcs => th'[u].file # NULL
      /\ \A u \in Threads : th'[u].pc = "link?" => th'[u].cursor # NULL
  BY <1>1, <1>2, ThreadType DEF TypeInv, FilePcs, Threadlike
<1> QED BY <1>0, TypeIsParts, TypeParts DEF FlushAllNext, list

LEMMA FlushAllEndType ==
  ASSUME TypeInv, NEW t \in Threads, FlushAllEnd(t)
  PROVE  TypeInv'
<1>0. /\ th' \in [Threads -> Threadlike]
      /\ \A u \in Threads : th'[u].pc \in FilePcs => th'[u].file # NULL
      /\ \A u \in Threads : th'[u].pc = "link?" => th'[u].cursor # NULL
  BY EndsType, ThreadType DEF FlushAllEnd
<1> QED BY <1>0, TypeIsParts, TypeParts DEF FlushAllEnd, list

LEMMA FiniBeginType ==
  ASSUME TypeInv, NEW t \in Threads, FiniBegin(t)
  PROVE  TypeInv'
<1>7. "fini" \in Pcs /\ "fini" # "link?"
  BY DEF Pcs
<1>8. "fini" \notin FilePcs /\ Linked \in SUBSET Streams /\ head \in Links /\ NULL \in Links
  BY TypeIsParts, FilesAssumption DEF Links, Streams, Linked, FilePcs
<1>9. Begins(t, "fini", NULL, NULL, head, Linked)
  BY DEF FiniBegin
<1>0. /\ th' \in [Threads -> Threadlike]
      /\ \A u \in Threads : th'[u].pc \in FilePcs => th'[u].file # NULL
      /\ \A u \in Threads : th'[u].pc = "link?" => th'[u].cursor # NULL
  BY <1>7, <1>8, <1>9, BeginsType
<1> QED BY <1>0, TypeIsParts, TypeParts DEF FiniBegin, list

LEMMA FiniVisitType ==
  ASSUME TypeInv, NEW t \in Threads, FiniVisit(t)
  PROVE  TypeInv'
<1> DEFINE f == th[t].cursor
           closes == fd[f] = "file" /\ MayAcquire(lock[f])
           tt == Forget(th, f)
           new == [tt[t] EXCEPT !.pc = IF closes THEN "finilink" ELSE "fini",
                                !.file = f, !.cursor = next[f]]
<1>1. f \in Streams
  BY ThreadType DEF FiniVisit, Links
<1>2. /\ tt \in [Threads -> Threadlike]
      /\ \A u \in Threads : tt[u].pc = th[u].pc /\ tt[u].file = th[u].file
                             /\ tt[u].cursor = th[u].cursor
  BY ThreadType, ForgetType
<1>3. th' = [tt EXCEPT ![t] = new]
  BY <1>2 DEF FiniVisit, Threadlike
<1> HIDE DEF tt
<1>4. new \in Threadlike
  <2>1. next[f] \in Links /\ f \in Links /\ "fini" \in Pcs /\ "finilink" \in Pcs
    BY <1>1, TypeIsParts DEF Pcs, Links
  <2> HIDE DEF f, closes
  <2> QED BY <1>2, <2>1 DEF Threadlike
<1>5. new.pc \in {"finilink", "fini"} /\ new.file = f
  BY <1>2 DEF Threadlike
<1>8. f # NULL
  BY DEF FiniVisit
<1> HIDE DEF new
<1>0. /\ th' \in [Threads -> Threadlike]
      /\ \A u \in Threads : th'[u].pc \in FilePcs => th'[u].file # NULL
      /\ \A u \in Threads : th'[u].pc = "link?" => th'[u].cursor # NULL
  BY <1>2, <1>3, <1>4, <1>5, <1>8 DEF TypeInv, FilePcs
<1>6. CASE closes
  <2>1. Zeroed(f) /\ owner' = Acquired(lock[f], t)
    BY <1>6 DEF FiniVisit
  <2>2. owner' \in [Mutexes -> Threads \cup {NULL, "free"}]
    BY <1>1, <2>1, TypeIsParts, MutexType
  <2> QED BY <1>0, <1>1, <2>1, <2>2, ZeroedType, TypeIsParts, TypeParts DEF FiniVisit
<1>7. CASE ~closes
  <2>1. UNCHANGED <<dirty, fd, next, prev, lock, owner>>
    BY <1>7 DEF FiniVisit
  <2> QED BY <1>0, <2>1, TypeIsParts, TypeParts DEF FiniVisit
<1> QED BY <1>6, <1>7

LEMMA FiniUnlinkType ==
  ASSUME TypeInv, NEW t \in Threads, FiniUnlink(t)
  PROVE  TypeInv'
<1>0. /\ th' \in [Threads -> Threadlike]
      /\ \A u \in Threads : th'[u].pc \in FilePcs => th'[u].file # NULL
      /\ \A u \in Threads : th'[u].pc = "link?" => th'[u].cursor # NULL
  BY GotoType, ThreadType DEF FiniUnlink, At, Pcs, FilePcs
<1>1. head' \in Links /\ next' \in [Streams -> Links] /\ prev' \in [Streams -> Links]
  BY ThreadType, UnlinkedType DEF FiniUnlink, At, FilePcs
<1> QED BY <1>0, <1>1, TypeIsParts, TypeParts DEF FiniUnlink, list

LEMMA FiniEndType ==
  ASSUME TypeInv, NEW t \in Threads, FiniEnd(t)
  PROVE  TypeInv'
BY DEF TypeInv, TypeOK, FiniEnd, list

LEMMA TypeNext == TypeInv /\ [Next]_vars => TypeInv'
<1> SUFFICES ASSUME TypeInv, [Next]_vars PROVE TypeInv'
  OBVIOUS
<1>1. CASE UNCHANGED vars
  BY <1>1 DEF TypeInv, TypeOK, vars
<1>2. ASSUME NEW t \in Threads, NEW f \in Files, FopenAlloc(t, f) PROVE TypeInv'
  BY <1>2, FopenAllocType
<1>3. ASSUME NEW t \in Threads, NEW f \in Streams, UseRead(t, f) PROVE TypeInv'
  BY <1>3, UseReadType
<1>4. ASSUME NEW t \in Threads, FlushAllBegin(t) PROVE TypeInv'
  BY <1>4, FlushAllBeginType
<1>5. ASSUME NEW t \in Threads, FiniBegin(t) PROVE TypeInv'
  BY <1>5, FiniBeginType
<1>6. ASSUME NEW t \in Threads, AddLock(t) PROVE TypeInv'
  BY <1>6, AddLockType
<1>7. ASSUME NEW t \in Threads, AddLink(t) PROVE TypeInv'
  BY <1>7, AddLinkType
<1>8. ASSUME NEW t \in Threads, AddPush(t) PROVE TypeInv'
  BY <1>8, AddPushType
<1>9. ASSUME NEW t \in Threads, UseAcquire(t) PROVE TypeInv'
  BY <1>9, UseAcquireType
<1>10. ASSUME NEW t \in Threads, UseRelease(t) PROVE TypeInv'
  BY <1>10, UseReleaseType
<1>11. ASSUME NEW t \in Threads, FlushAllVisit(t) PROVE TypeInv'
  BY <1>11, FlushAllVisitType
<1>12. ASSUME NEW t \in Threads, FlushAllNext(t) PROVE TypeInv'
  BY <1>12, FlushAllNextType
<1>13. ASSUME NEW t \in Threads, FlushAllEnd(t) PROVE TypeInv'
  BY <1>13, FlushAllEndType
<1>14. ASSUME NEW t \in Threads, FiniVisit(t) PROVE TypeInv'
  BY <1>14, FiniVisitType
<1>15. ASSUME NEW t \in Threads, FiniUnlink(t) PROVE TypeInv'
  BY <1>15, FiniUnlinkType
<1>16. ASSUME NEW t \in Threads, FiniEnd(t) PROVE TypeInv'
  BY <1>16, FiniEndType
<1>17. ASSUME NEW t \in Threads, FcloseZero(t) PROVE TypeInv'
  BY <1>17, FcloseZeroType
<1>18. ASSUME NEW t \in Threads, FcloseFails(t) PROVE TypeInv'
  BY <1>18, FcloseFailsType
<1>19. ASSUME NEW t \in Threads, FcloseUnlink(t) PROVE TypeInv'
  BY <1>19, FcloseUnlinkType
<1>20. ASSUME NEW t \in Threads, FcloseFree(t) PROVE TypeInv'
  BY <1>20, FcloseFreeType
<1>21. ASSUME NEW t \in Threads, FreopenOpen(t) PROVE TypeInv'
  BY <1>21, FreopenOpenType
<1>22. ASSUME NEW t \in Threads, FreopenFails(t) PROVE TypeInv'
  BY <1>22, FreopenFailsType
<1>23. ASSUME NEW t \in Threads, NEW f \in Files, FcloseRead(t, f) PROVE TypeInv'
  BY <1>23, FcloseReadType
<1> QED
  BY <1>1, <1>2, <1>3, <1>4, <1>5, <1>6, <1>7, <1>8, <1>9, <1>10, <1>11, <1>12, <1>13, <1>14, <1>15, <1>16, <1>17, <1>18, <1>19, <1>20, <1>21, <1>22, <1>23, Zenon
  DEF Next, KeepNext, Continues, Closes
-----------------------------------------------------------------------------
(* What a step does to the threads, field by field.                        *)

LEMMA BeginsIs ==
  ASSUME TypeInv, NEW t \in Threads, NEW pc, NEW file, NEW mutex, NEW cursor, NEW todo,
         Begins(t, pc, file, mutex, cursor, todo)
  PROVE  /\ th[t].pc = "idle"
         /\ th'[t].pc = pc /\ th'[t].file = file
         /\ th'[t].cursor = cursor /\ th'[t].todo = todo
         /\ \A u \in Threads \ {t} : th'[u] = th[u]
BY ThreadType DEF Begins, At

LEMMA EndsIs ==
  ASSUME TypeInv, NEW t \in Threads, Ends(t)
  PROVE  /\ th'[t].pc = "idle" /\ th'[t].cursor = NULL
         /\ \A u \in Threads \ {t} : th'[u] = th[u]
<1>1. /\ [Idle EXCEPT !.calls = th[t].calls].pc = "idle"
      /\ [Idle EXCEPT !.calls = th[t].calls].cursor = NULL
  BY DEF Idle
<1>2. th' = [th EXCEPT ![t] = [Idle EXCEPT !.calls = th[t].calls]]
  BY DEF Ends
<1> QED BY <1>1, <1>2, ThreadType

LEMMA GotoIs ==
  ASSUME TypeInv, NEW t \in Threads, NEW pc, Goto(t, pc)
  PROVE  /\ th'[t].pc = pc /\ th'[t].file = th[t].file
         /\ th'[t].cursor = th[t].cursor /\ th'[t].todo = th[t].todo
         /\ \A u \in Threads \ {t} : th'[u] = th[u]
BY ThreadType DEF Goto, Threadlike

\* As nothing is being closed, the FILEs in transit are those being opened.
LEMMA TransitIs ==
  ASSUME \A t \in Threads : th[t].pc \notin ClosePcs
  PROVE  \A f : f \in InTransit <=> \E t \in Threads : th[t].pc \in OpenPcs /\ th[t].file = f
BY DEF InTransit, ClosePcs, OpenPcs

LEMMA TransitIsNext ==
  ASSUME \A t \in Threads : th'[t].pc \notin ClosePcs
  PROVE  \A f : f \in InTransit' <=>
                \E t \in Threads : th'[t].pc \in OpenPcs /\ th'[t].file = f
BY DEF InTransit, ClosePcs, OpenPcs

\* A step of a thread that opens nothing and leaves the list alone.
LEMMA QuietStep ==
  ASSUME TypeInv, OpeningInv, NEW t \in Threads,
         UNCHANGED <<head, next, prev, fd, mem, listLock>>,
         \A u \in Threads \ {t} : th'[u].pc = th[u].pc /\ th'[u].file = th[u].file,
         th[t].pc \notin OpenPcs, th'[t].pc \notin OpenPcs, th'[t].pc \notin ClosePcs
  PROVE  /\ OpeningInv' /\ InTransit' = InTransit /\ Linked' = Linked
         /\ ListInv => ListInv'
<1>1. \A u \in Threads : th[u].pc \notin ClosePcs /\ th'[u].pc \notin ClosePcs
  BY DEF OpeningInv, ClosePcs
<1>2. \A u \in Threads : /\ th'[u].pc \in OpenPcs <=> th[u].pc \in OpenPcs
                         /\ th[u].pc \in OpenPcs =>
                              th'[u].pc = th[u].pc /\ th'[u].file = th[u].file
  OBVIOUS
<1>3. InTransit' = InTransit
  <2>1. \A f : f \in InTransit' <=> f \in InTransit
    BY <1>1, <1>2, TransitIs, TransitIsNext
  <2> QED BY <2>1
<1>4. Linked' = Linked
  BY <1>3 DEF Linked
<1>5. "add" \in OpenPcs /\ "link" \in OpenPcs /\ "push" \in OpenPcs
  BY DEF OpenPcs
<1>6. OpeningInv'
  BY <1>1, <1>2, <1>3, <1>5 DEF OpeningInv, ClosePcs
<1>7. ASSUME ListInv PROVE ListInv'
  BY <1>2, <1>4, <1>5, <1>7 DEF ListInv, Covers
<1> QED BY <1>3, <1>4, <1>6, <1>7

\* After a quiet step the walks of the other threads stand where they stood.
LEMMA QuietWalk ==
  ASSUME TypeInv, WalkInv, NEW t \in Threads,
         UNCHANGED <<head, next, prev, fd, mem, exiting>>, InTransit' = InTransit,
         \A u \in Threads \ {t} : th'[u] = th[u],
         th'[t].pc \notin {"fini", "finilink"},
         th'[t].cursor \in mem \cup {NULL} /\ th'[t].cursor \notin InTransit,
         ~exiting => /\ th'[t].pc = "flush" => Covers(next, th'[t].cursor, th'[t].todo)
                     /\ th'[t].pc = "link?" => Covers(next, next[th'[t].cursor], th'[t].todo)
  PROVE  WalkInv'
<1>1. \A u \in Threads : th'[u].cursor \in mem' \cup {NULL} /\ th'[u].cursor \notin InTransit'
  BY DEF WalkInv
<1>2. FiniInv'
  BY DEF WalkInv, FiniInv, Covers
<1>3. ~exiting' => FlushInv'
  BY DEF WalkInv, FlushInv, Covers
<1> QED BY <1>1, <1>2, <1>3 DEF WalkInv
-----------------------------------------------------------------------------
(* The steps that leave the list alone.                                    *)

LEMMA NullNotInTransit ==
  ASSUME KeepInv
  PROVE  NULL \notin InTransit
BY TransitIs, FilesAssumption DEF KeepInv, OpeningInv, TypeInv, TypeOK, Streams

LEMMA UseReadKeeps ==
  ASSUME KeepInv, NEW t \in Threads, NEW f \in Streams, UseRead(t, f)
  PROVE  KeepInv'
<1>1. TypeInv'
  BY UseReadType DEF KeepInv
<1>2. /\ th[t].pc = "idle" /\ th'[t].pc = "wait" /\ th'[t].cursor = NULL
      /\ \A u \in Threads \ {t} : th'[u] = th[u]
  BY BeginsIs DEF UseRead, KeepInv
<1>3. UNCHANGED <<head, next, prev, fd, mem, listLock, exiting>>
  BY DEF UseRead, list
<1>4. OpeningInv' /\ InTransit' = InTransit /\ (ListInv => ListInv')
  BY <1>2, <1>3, QuietStep DEF KeepInv, OpenPcs, ClosePcs
<1>6. WalkInv'
  BY <1>2, <1>3, <1>4, NullNotInTransit, QuietWalk DEF KeepInv
<1> QED BY <1>1, <1>3, <1>4, <1>6 DEF KeepInv

LEMMA UseAcquireKeeps ==
  ASSUME KeepInv, NEW t \in Threads, UseAcquire(t)
  PROVE  KeepInv'
<1>1. TypeInv'
  BY UseAcquireType DEF KeepInv
<1>2. /\ th[t].pc = "wait" /\ th'[t].pc = "use" /\ th'[t].cursor = th[t].cursor
      /\ \A u \in Threads \ {t} : th'[u] = th[u]
  BY GotoIs DEF UseAcquire, At, KeepInv
<1>3. UNCHANGED <<head, next, prev, fd, mem, listLock, exiting>>
  BY DEF UseAcquire, list
<1>4. OpeningInv' /\ InTransit' = InTransit /\ (ListInv => ListInv')
  BY <1>2, <1>3, QuietStep DEF KeepInv, OpenPcs, ClosePcs
<1>5. th[t].cursor \in mem \cup {NULL} /\ th[t].cursor \notin InTransit
  BY DEF KeepInv, WalkInv
<1>6. WalkInv'
  BY <1>2, <1>3, <1>4, <1>5, QuietWalk DEF KeepInv
<1> QED BY <1>1, <1>3, <1>4, <1>6 DEF KeepInv

LEMMA UseReleaseKeeps ==
  ASSUME KeepInv, NEW t \in Threads, UseRelease(t)
  PROVE  KeepInv'
<1>1. TypeInv'
  BY UseReleaseType DEF KeepInv
<1>2. /\ th[t].pc = "use" /\ th'[t].pc = "idle" /\ th'[t].cursor = NULL
      /\ \A u \in Threads \ {t} : th'[u] = th[u]
  BY EndsIs DEF UseRelease, At, KeepInv
<1>3. UNCHANGED <<head, next, prev, fd, mem, listLock, exiting>>
  BY DEF UseRelease, list
<1>4. OpeningInv' /\ InTransit' = InTransit /\ (ListInv => ListInv')
  BY <1>2, <1>3, QuietStep DEF KeepInv, OpenPcs, ClosePcs
<1>6. WalkInv'
  BY <1>2, <1>3, <1>4, NullNotInTransit, QuietWalk DEF KeepInv
<1> QED BY <1>1, <1>3, <1>4, <1>6 DEF KeepInv

LEMMA FlushAllBeginKeeps ==
  ASSUME KeepInv, NEW t \in Threads, FlushAllBegin(t)
  PROVE  KeepInv'
<1>1. TypeInv'
  BY FlushAllBeginType DEF KeepInv
<1>2. /\ th[t].pc = "idle" /\ th'[t].pc = "flush"
      /\ th'[t].cursor = head /\ th'[t].todo = Linked
      /\ \A u \in Threads \ {t} : th'[u] = th[u]
  BY BeginsIs DEF FlushAllBegin, KeepInv
<1>3. UNCHANGED <<head, next, prev, fd, mem, listLock, exiting>>
  BY DEF FlushAllBegin, list
<1>4. OpeningInv' /\ InTransit' = InTransit /\ (ListInv => ListInv')
  BY <1>2, <1>3, QuietStep DEF KeepInv, OpenPcs, ClosePcs
<1>5. head \in mem \cup {NULL} /\ head \notin InTransit
  BY DEF KeepInv, OpeningInv
<1>6. ~exiting => Covers(next, head, Linked)
  BY DEF KeepInv, ListInv
<1>7. WalkInv'
  BY <1>2, <1>3, <1>4, <1>5, <1>6, QuietWalk DEF KeepInv
<1> QED BY <1>1, <1>3, <1>4, <1>7 DEF KeepInv

LEMMA FlushAllVisitKeeps ==
  ASSUME KeepInv, NEW t \in Threads, FlushAllVisit(t)
  PROVE  KeepInv'
<1>1. TypeInv'
  BY FlushAllVisitType DEF KeepInv
<1>2. /\ th[t].pc = "flush" /\ th'[t].pc = "link?" /\ th[t].cursor # NULL
      /\ th'[t].cursor = th[t].cursor /\ th'[t].todo = th[t].todo \ {th[t].cursor}
      /\ \A u \in Threads \ {t} : th'[u] = th[u]
  BY ThreadType DEF FlushAllVisit, At, KeepInv, Threadlike
<1>3. UNCHANGED <<head, next, prev, fd, mem, listLock, exiting>>
  BY DEF FlushAllVisit, list
<1>4. OpeningInv' /\ InTransit' = InTransit /\ (ListInv => ListInv')
  BY <1>2, <1>3, QuietStep DEF KeepInv, OpenPcs, ClosePcs
<1>5. th[t].cursor \in mem \cup {NULL} /\ th[t].cursor \notin InTransit
  BY DEF KeepInv, WalkInv
<1>6. ~exiting => Covers(next, next[th[t].cursor], th[t].todo \ {th[t].cursor})
  <2>1. ~exiting => Covers(next, th[t].cursor, th[t].todo)
    BY <1>2 DEF KeepInv, WalkInv, FlushInv
  <2>2. th[t].cursor \in Streams /\ th[t].todo \in SUBSET Streams
    BY <1>2, ThreadType DEF KeepInv, Links
  <2> QED BY <2>1, <2>2, CoversStep, TypeIsParts DEF KeepInv
<1>7. WalkInv'
  BY <1>2, <1>3, <1>4, <1>5, <1>6, QuietWalk DEF KeepInv
<1> QED BY <1>1, <1>3, <1>4, <1>7 DEF KeepInv

LEMMA FlushAllNextKeeps ==
  ASSUME KeepInv, NEW t \in Threads, FlushAllNext(t)
  PROVE  KeepInv'
<1>1. TypeInv'
  BY FlushAllNextType DEF KeepInv
<1>2. /\ th[t].pc = "link?" /\ th'[t].pc = "flush"
      /\ th'[t].cursor = next[th[t].cursor] /\ th'[t].todo = th[t].todo
      /\ \A u \in Threads \ {t} : th'[u] = th[u]
  BY ThreadType DEF FlushAllNext, At, KeepInv, Threadlike
<1>3. UNCHANGED <<head, next, prev, fd, mem, listLock, exiting>>
  BY DEF FlushAllNext, list
<1>4. OpeningInv' /\ InTransit' = InTransit /\ (ListInv => ListInv')
  BY <1>2, <1>3, QuietStep DEF KeepInv, OpenPcs, ClosePcs
<1>5. next[th[t].cursor] \in mem \cup {NULL} /\ next[th[t].cursor] \notin InTransit
  BY <1>2, ThreadType DEF KeepInv, OpeningInv
<1>6. ~exiting => Covers(next, next[th[t].cursor], th[t].todo)
  BY <1>2 DEF KeepInv, WalkInv, FlushInv
<1>7. WalkInv'
  BY <1>2, <1>3, <1>4, <1>5, <1>6, QuietWalk DEF KeepInv
<1> QED BY <1>1, <1>3, <1>4, <1>7 DEF KeepInv

LEMMA FlushAllEndKeeps ==
  ASSUME KeepInv, NEW t \in Threads, FlushAllEnd(t)
  PROVE  KeepInv'
<1>1. TypeInv'
  BY FlushAllEndType DEF KeepInv
<1>2. /\ th[t].pc = "flush" /\ th'[t].pc = "idle" /\ th'[t].cursor = NULL
      /\ \A u \in Threads \ {t} : th'[u] = th[u]
  BY EndsIs DEF FlushAllEnd, At, KeepInv
<1>3. UNCHANGED <<head, next, prev, fd, mem, listLock, exiting>>
  BY DEF FlushAllEnd, list
<1>4. OpeningInv' /\ InTransit' = InTransit /\ (ListInv => ListInv')
  BY <1>2, <1>3, QuietStep DEF KeepInv, OpenPcs, ClosePcs
<1>6. WalkInv'
  BY <1>2, <1>3, <1>4, NullNotInTransit, QuietWalk DEF KeepInv
<1> QED BY <1>1, <1>3, <1>4, <1>6 DEF KeepInv
-----------------------------------------------------------------------------
(* fopen.                                                                  *)

LEMMA FopenAllocKeeps ==
  ASSUME KeepInv, NEW t \in Threads, NEW f \in Files, FopenAlloc(t, f)
  PROVE  KeepInv'
<1>0. TypeInv /\ TypeInv' /\ OpeningInv /\ f \in Streams /\ f # NULL /\ f # Stdout
  BY FopenAllocType, FilesAssumption DEF KeepInv, Streams
<1>1. /\ th[t].pc = "idle" /\ th'[t].pc = "add" /\ th'[t].file = f
      /\ th'[t].cursor = NULL
      /\ \A u \in Threads \ {t} : th'[u] = th[u]
  BY BeginsIs DEF FopenAlloc, KeepInv
<1>2. UNCHANGED <<head, listLock, exiting>> /\ f \notin mem /\ mem' = mem \cup {f}
  BY DEF FopenAlloc
<1>3. next[f] = NULL /\ next' = next
  <2>1. next[f] = NULL
    BY <1>0, <1>2 DEF OpeningInv
  <2> QED BY <2>1, <1>0, TypeIsParts DEF FopenAlloc
<1>4. /\ \A g \in Streams : g # f => prev'[g] = prev[g] /\ fd'[g] = fd[g]
      /\ fd'[f] = "file"
  BY <1>0, TypeIsParts DEF FopenAlloc
<1>5. \A u \in Threads : th[u].pc \notin ClosePcs /\ th'[u].pc \notin ClosePcs
  BY <1>0, <1>1 DEF OpeningInv, ClosePcs
<1>6. \A g : g \in InTransit' <=> g \in InTransit \/ g = f
  BY <1>1, <1>5, TransitIs, TransitIsNext DEF OpenPcs
<1>7. Linked' = Linked
  BY <1>0, <1>2, <1>4, <1>6, TypeIsParts DEF Linked
<1>8. \A u \in Threads : th[u].pc \in OpenPcs => th[u].file # f
  BY <1>0, <1>2 DEF OpeningInv
<1>9. OpeningInv'
  <2>1. \A u \in Threads : th'[u].pc \in OpenPcs =>
          th'[u].file \in mem' /\ th'[u].file # Stdout /\ fd'[th'[u].file] # "none"
    BY <1>0, <1>1, <1>2, <1>4, <1>8, TypeIsParts DEF OpeningInv
  <2>2. \A u, v \in Threads : th'[u].pc \in OpenPcs /\ th'[v].pc \in OpenPcs
                              /\ th'[u].file = th'[v].file => u = v
    BY <1>0, <1>1, <1>8 DEF OpeningInv
  <2>3. \A u \in Threads : th'[u].pc \in {"link", "push"} => listLock' = u
    BY <1>0, <1>1, <1>2 DEF OpeningInv
  <2>4. \A u \in Threads : th'[u].pc \in {"add", "link"} => next'[th'[u].file] = NULL
    BY <1>0, <1>1, <1>3 DEF OpeningInv
  <2>5. \A g \in Streams \ mem' : next'[g] = NULL
    BY <1>0, <1>2, <1>3 DEF OpeningInv
  <2>6. head' \in mem' \cup {NULL} /\ head' \notin InTransit'
    BY <1>0, <1>2, <1>6 DEF OpeningInv
  <2>7. \A g \in Streams : next'[g] \in mem' \cup {NULL} /\ next'[g] \notin InTransit'
    BY <1>0, <1>2, <1>3, <1>6 DEF OpeningInv
  <2>8. Stdout \in mem' /\ fd'[Stdout] = "std"
    BY <1>0, <1>2, <1>4 DEF OpeningInv, Streams
  <2> QED BY <1>5, <2>1, <2>2, <2>3, <2>4, <2>5, <2>6, <2>7, <2>8 DEF OpeningInv
<1>10. ASSUME ListInv PROVE ListInv'
  <2>1. \A g \in Linked : g \in Streams /\ (next[g] # NULL => next[g] \in Streams /\ next[g] # f)
    BY <1>0, <1>2, <1>10, TypeIsParts DEF Linked, ListInv
  <2>2. \A g \in Linked' : next'[g] # NULL => prev'[next'[g]] = g
    BY <1>3, <1>4, <1>7, <1>10, <2>1 DEF ListInv
  <2>3. \A u \in Threads : th'[u].pc = "push" =>
          next'[th'[u].file] = head' /\ prev'[head'] = th'[u].file
    BY <1>0, <1>1, <1>2, <1>3, <1>4, <1>10, TypeIsParts DEF ListInv, Linked
  <2> QED BY <1>2, <1>3, <1>7, <1>10, <2>2, <2>3 DEF ListInv, Covers
<1>11. WalkInv'
  <2>1. \A u \in Threads : th'[u].cursor \in mem' \cup {NULL} /\ th'[u].cursor \notin InTransit'
    BY <1>0, <1>1, <1>2, <1>6, NullNotInTransit DEF KeepInv, WalkInv
  <2>2. \A u \in Threads : th[u].pc = "finilink" =>
          /\ th[u].file # f
          /\ prev[th[u].file] # NULL => prev[th[u].file] \in Streams
    BY <1>0, <1>2, ThreadType, TypeIsParts DEF KeepInv, WalkInv, FiniInv, FilePcs, Links
  <2>5. \A u, v \in Threads : th'[u].pc \in {"fini", "finilink"}
                              /\ th'[v].pc \in {"fini", "finilink"} => u = v
    BY <1>1 DEF KeepInv, WalkInv, FiniInv
  <2>6. \A u \in Threads : th'[u].pc \in {"fini", "finilink"} =>
          exiting' /\ Covers(next', th'[u].cursor, th'[u].todo)
    BY <1>1, <1>2, <1>3 DEF KeepInv, WalkInv, FiniInv
  <2>7. ASSUME NEW u \in Threads, th'[u].pc = "finilink"
        PROVE  /\ next'[th'[u].file] = NULL
               /\ th'[u].file \in mem' /\ fd'[th'[u].file] = "none"
               /\ th'[u].file \notin th'[u].todo
               /\ prev'[th'[u].file] # NULL => next'[prev'[th'[u].file]] = th'[u].file
    <3>1. th'[u] = th[u] /\ th[u].pc = "finilink" /\ th[u].file \in Streams
      BY <1>0, <1>1, <2>7, ThreadType DEF FilePcs
    <3>2. prev'[th[u].file] = prev[th[u].file] /\ fd'[th[u].file] = fd[th[u].file]
      BY <1>4, <2>2, <3>1
    <3> QED BY <1>2, <1>3, <3>1, <3>2 DEF KeepInv, WalkInv, FiniInv
  <2>3. FiniInv'
    BY <2>5, <2>6, <2>7 DEF FiniInv, Covers
  <2>4. ~exiting' => FlushInv'
    BY <1>1, <1>2, <1>3 DEF KeepInv, WalkInv, FlushInv, Covers
  <2> QED BY <2>1, <2>3, <2>4 DEF WalkInv
<1> QED BY <1>0, <1>2, <1>9, <1>10, <1>11 DEF KeepInv

LEMMA AddLockKeeps ==
  ASSUME KeepInv, NEW t \in Threads, AddLock(t)
  PROVE  KeepInv'
<1>0. TypeInv /\ TypeInv' /\ OpeningInv
  BY AddLockType DEF KeepInv
<1>1. /\ th[t].pc = "add" /\ th'[t].pc = "link" /\ th'[t].file = th[t].file
      /\ th'[t].cursor = th[t].cursor
      /\ \A u \in Threads \ {t} : th'[u] = th[u]
  BY GotoIs DEF AddLock, At, KeepInv
<1>2. UNCHANGED <<head, next, prev, fd, mem, exiting>> /\ listLock = NULL /\ listLock' = t
  BY DEF AddLock, list
<1>3. \A u \in Threads : th[u].pc \notin ClosePcs /\ th'[u].pc \notin ClosePcs
  BY <1>0, <1>1 DEF OpeningInv, ClosePcs
<1>4. \A u \in Threads : /\ th'[u].pc \in OpenPcs <=> th[u].pc \in OpenPcs
                         /\ th'[u].file = th[u].file
  BY <1>1 DEF OpenPcs
<1>5. InTransit' = InTransit
  <2>1. \A g : g \in InTransit' <=> g \in InTransit
    BY <1>3, <1>4, TransitIs, TransitIsNext
  <2> QED BY <2>1
<1>6. Linked' = Linked
  BY <1>2, <1>5 DEF Linked
<1>7. \A u \in Threads : th[u].pc \notin {"link", "push"}
  BY <1>0, <1>2, FilesAssumption DEF OpeningInv
<1>8. OpeningInv'
  <2>1. \A u \in Threads : th'[u].pc \in OpenPcs =>
          th'[u].file \in mem' /\ th'[u].file # Stdout /\ fd'[th'[u].file] # "none"
    BY <1>0, <1>2, <1>4 DEF OpeningInv
  <2>2. \A u, v \in Threads : th'[u].pc \in OpenPcs /\ th'[v].pc \in OpenPcs
                              /\ th'[u].file = th'[v].file => u = v
    BY <1>0, <1>4 DEF OpeningInv
  <2>3. \A u \in Threads : th'[u].pc \in {"link", "push"} => listLock' = u
    BY <1>1, <1>2, <1>7
  <2>4. \A u \in Threads : th'[u].pc \in {"add", "link"} => next'[th'[u].file] = NULL
    BY <1>0, <1>1, <1>2, <1>4 DEF OpeningInv
  <2> QED BY <1>0, <1>2, <1>3, <1>5, <2>1, <2>2, <2>3, <2>4 DEF OpeningInv
<1>9. ASSUME ListInv PROVE ListInv'
  BY <1>1, <1>2, <1>6, <1>9 DEF ListInv, Covers
<1>10. WalkInv'
  <2>1. th[t].cursor \in mem \cup {NULL} /\ th[t].cursor \notin InTransit
    BY DEF KeepInv, WalkInv
  <2> QED BY <1>1, <1>2, <1>5, <2>1, QuietWalk DEF KeepInv
<1> QED BY <1>0, <1>2, <1>8, <1>9, <1>10 DEF KeepInv

LEMMA AddLinkKeeps ==
  ASSUME KeepInv, NEW t \in Threads, AddLink(t)
  PROVE  KeepInv'
<1> DEFINE f == th[t].file
<1>0. TypeInv /\ TypeInv' /\ OpeningInv /\ WalkInv
  BY AddLinkType DEF KeepInv
<1>1. /\ th[t].pc = "link" /\ th'[t].pc = "push" /\ th'[t].file = f
      /\ th'[t].cursor = th[t].cursor
      /\ \A u \in Threads \ {t} : th'[u] = th[u]
  BY GotoIs DEF AddLink, At, KeepInv
<1>2. UNCHANGED <<head, fd, mem, listLock, exiting>>
  BY DEF AddLink
<1>3. f \in Streams /\ f \in mem /\ next[f] = NULL /\ f \in InTransit
  BY <1>0, <1>1, ThreadType, TransitIs DEF OpeningInv, OpenPcs, FilePcs
<1>4. /\ next' = [next EXCEPT ![f] = head]
      /\ \A g \in Streams : g # f => next'[g] = next[g]
      /\ next'[f] = head
  <2>1. CASE head = NULL
    BY <1>0, <1>3, <2>1, TypeIsParts DEF AddLink
  <2>2. CASE head # NULL
    BY <1>0, <1>3, <2>2, TypeIsParts DEF AddLink
  <2> QED BY <2>1, <2>2
<1>5. /\ \A g \in Streams : g # head => prev'[g] = prev[g]
      /\ head # NULL => prev'[head] = f
  BY <1>0, TypeIsParts DEF AddLink, Links
<1>6. \A u \in Threads : th[u].pc \notin ClosePcs /\ th'[u].pc \notin ClosePcs
  BY <1>0, <1>1 DEF OpeningInv, ClosePcs
<1>7. \A u \in Threads : /\ th'[u].pc \in OpenPcs <=> th[u].pc \in OpenPcs
                         /\ th'[u].file = th[u].file
                         /\ th'[u].cursor = th[u].cursor
                         /\ u # t /\ th[u].pc \in OpenPcs => th[u].file # f
  BY <1>0, <1>1 DEF OpenPcs, OpeningInv
<1>8. InTransit' = InTransit
  <2>1. \A g : g \in InTransit' <=> g \in InTransit
    BY <1>6, <1>7, TransitIs, TransitIsNext
  <2> QED BY <2>1
<1>9. Linked' = Linked /\ f \notin Linked
  BY <1>2, <1>3, <1>8 DEF Linked
<1> HIDE DEF f
<1>10. OpeningInv'
  <2>1. \A u \in Threads : th'[u].pc \in OpenPcs =>
          th'[u].file \in mem' /\ th'[u].file # Stdout /\ fd'[th'[u].file] # "none"
    BY <1>0, <1>2, <1>7 DEF OpeningInv
  <2>2. \A u, v \in Threads : th'[u].pc \in OpenPcs /\ th'[v].pc \in OpenPcs
                              /\ th'[u].file = th'[v].file => u = v
    BY <1>0, <1>7 DEF OpeningInv
  <2>3. \A u \in Threads : th'[u].pc \in {"link", "push"} => listLock' = u
    BY <1>0, <1>1, <1>2 DEF OpeningInv
  <2>4. ASSUME NEW u \in Threads, th'[u].pc \in {"add", "link"}
        PROVE  next'[th'[u].file] = NULL
    <3>1. u # t /\ th[u].pc \in {"add", "link"}
      BY <1>1, <2>4
    <3>2. th[u].file # f /\ th[u].file \in Streams
      BY <1>0, <1>7, <3>1, ThreadType DEF OpenPcs, FilePcs
    <3> QED BY <1>0, <1>4, <1>7, <3>1, <3>2 DEF OpeningInv
  <2>5. \A g \in Streams \ mem' : next'[g] = NULL
    BY <1>0, <1>2, <1>3, <1>4 DEF OpeningInv
  <2>6. \A g \in Streams : next'[g] \in mem' \cup {NULL} /\ next'[g] \notin InTransit'
    BY <1>0, <1>2, <1>4, <1>8 DEF OpeningInv
  <2> QED BY <1>0, <1>2, <1>6, <1>8, <2>1, <2>2, <2>3, <2>4, <2>5, <2>6 DEF OpeningInv
<1>11. ASSUME ListInv PROVE ListInv'
  <2>1. \A g \in Linked : g \in Streams /\ next'[g] = next[g]
    BY <1>0, <1>4, <1>9, TypeIsParts DEF Linked
  <2>2. Covers(next', head', Linked')
    <3>1. Covers(next, head, Linked)
      BY <1>11 DEF ListInv
    <3> QED BY <1>0, <1>2, <1>3, <1>4, <1>9, <3>1, CoversTied, TypeIsParts
  <2>3. \A S \in SUBSET Linked' : S # {} => \E g \in S : next'[g] \notin S
    BY <1>9, <1>11, <2>1 DEF ListInv
  <2>4. \A g \in Linked' : next'[g] # NULL => prev'[next'[g]] = g
    <3>1. \A g \in Linked : next[g] # NULL => next[g] \in Streams /\ next[g] # head
      BY <1>0, <1>11, TypeIsParts DEF ListInv, Linked
    <3> QED BY <1>5, <1>9, <1>11, <2>1, <3>1 DEF ListInv
  <2>5. ASSUME NEW u \in Threads, th'[u].pc = "push"
        PROVE  next'[th'[u].file] = head' /\ prev'[head'] = th'[u].file
    <3>1. u = t
      BY <1>0, <1>1, <2>5 DEF OpeningInv
    <3>2. head # NULL
      BY <1>0, <1>11, TypeIsParts, FilesAssumption DEF ListInv, Linked, Streams
    <3> QED BY <1>1, <1>2, <1>4, <1>5, <3>1, <3>2
  <2>6. head' \in Linked' /\ \A g \in Linked' : next'[g] \in Linked' \cup {NULL}
                                                /\ next'[g] # head'
    BY <1>2, <1>9, <1>11, <2>1 DEF ListInv
  <2> QED BY <2>2, <2>3, <2>4, <2>5, <2>6 DEF ListInv, Covers
<1>12. WalkInv'
  <2>1. \A u \in Threads : th'[u].cursor \in mem' \cup {NULL} /\ th'[u].cursor \notin InTransit'
    BY <1>0, <1>2, <1>7, <1>8 DEF WalkInv
  <2>2. \A c, T : Covers(next, c, T) => Covers(next', c, T)
    BY <1>0, <1>3, <1>4, CoversTied, TypeIsParts
  <2>3. \A u, v \in Threads : th'[u].pc \in {"fini", "finilink"}
                              /\ th'[v].pc \in {"fini", "finilink"} => u = v
    BY <1>0, <1>1 DEF WalkInv, FiniInv
  <2>4. \A u \in Threads : th'[u].pc \in {"fini", "finilink"} =>
          exiting' /\ Covers(next', th'[u].cursor, th'[u].todo)
    BY <1>0, <1>1, <1>2, <2>2 DEF WalkInv, FiniInv
  <2>5. ASSUME NEW u \in Threads, th'[u].pc = "finilink"
        PROVE  /\ next'[th'[u].file] = NULL
               /\ th'[u].file \in mem' /\ fd'[th'[u].file] = "none"
               /\ th'[u].file \notin th'[u].todo
               /\ prev'[th'[u].file] # NULL => next'[prev'[th'[u].file]] = th'[u].file
    <3>1. th'[u] = th[u] /\ th[u].pc = "finilink" /\ th[u].file \in Streams
      BY <1>0, <1>1, <2>5, ThreadType DEF FilePcs
    <3>2. /\ next[th[u].file] = NULL
          /\ th[u].file \in mem /\ fd[th[u].file] = "none"
          /\ th[u].file \notin th[u].todo
          /\ prev[th[u].file] # NULL => next[prev[th[u].file]] = th[u].file
      BY <1>0, <3>1 DEF WalkInv, FiniInv
    <3>3. CASE th[u].file = head
      <4>1. prev'[th[u].file] = f /\ next'[f] = th[u].file
        BY <1>0, <1>4, <1>5, <3>1, <3>3, FilesAssumption DEF Streams
      <4>2. th[u].file # f
        BY <1>0, <1>3, <3>3 DEF OpeningInv
      <4> QED BY <1>2, <1>4, <3>1, <3>2, <4>1, <4>2
    <3>4. CASE th[u].file # head
      <4>1. prev'[th[u].file] = prev[th[u].file]
        BY <1>5, <3>1, <3>4
      <4>2. prev[th[u].file] # NULL => prev[th[u].file] \in Streams /\ prev[th[u].file] # f
        BY <1>0, <1>3, <3>1, <3>2, TypeIsParts, FilesAssumption DEF Links, Streams
      <4>3. th[u].file # f
        BY <1>0, <1>1, <3>2 DEF OpeningInv, OpenPcs, f
      <4> QED BY <1>2, <1>4, <3>1, <3>2, <4>1, <4>2, <4>3
    <3> QED BY <3>3, <3>4
  <2>6. FiniInv'
    BY <2>3, <2>4, <2>5 DEF FiniInv, Covers
  <2>7. ASSUME ~exiting', NEW u \in Threads
        PROVE  /\ th'[u].pc = "flush" => Covers(next', th'[u].cursor, th'[u].todo)
               /\ th'[u].pc = "link?" => Covers(next', next'[th'[u].cursor], th'[u].todo)
    <3>1. th'[u].pc \in {"flush", "link?"} => u # t /\ th'[u] = th[u]
      BY <1>1
    <3>2. th[u].pc = "link?" => th[u].cursor \in Streams /\ th[u].cursor # f
      BY <1>0, <1>3, ThreadType DEF WalkInv
    <3> QED BY <1>0, <1>2, <1>4, <2>2, <2>7, <3>1, <3>2 DEF WalkInv, FlushInv
  <2>8. ~exiting' => FlushInv'
    BY <2>7 DEF FlushInv, Covers
  <2> QED BY <2>1, <2>6, <2>8 DEF WalkInv
<1> QED BY <1>0, <1>2, <1>10, <1>11, <1>12 DEF KeepInv

LEMMA AddPushKeeps ==
  ASSUME KeepInv, NEW t \in Threads, AddPush(t)
  PROVE  KeepInv'
<1> DEFINE f == th[t].file
<1>0. TypeInv /\ TypeInv' /\ OpeningInv /\ WalkInv
  BY AddPushType DEF KeepInv
<1>1. /\ th[t].pc = "push" /\ th'[t].pc = "idle" /\ th'[t].cursor = NULL
      /\ \A u \in Threads \ {t} : th'[u] = th[u]
  BY EndsIs DEF AddPush, At, KeepInv
<1>2. UNCHANGED <<next, prev, fd, mem, exiting>> /\ head' = f /\ listLock' = NULL
  BY DEF AddPush
<1>3. f \in Streams /\ f \in mem /\ f \in InTransit /\ fd[f] # "none"
  BY <1>0, <1>1, ThreadType, TransitIs DEF OpeningInv, OpenPcs, FilePcs
<1>4. \A u \in Threads : th[u].pc \notin ClosePcs /\ th'[u].pc \notin ClosePcs
  BY <1>0, <1>1 DEF OpeningInv, ClosePcs
<1>5. \A u \in Threads : u # t /\ th[u].pc \in OpenPcs => th[u].file # f
  BY <1>0, <1>1 DEF OpenPcs, OpeningInv
<1>6. \A g : g \in InTransit' <=> g \in InTransit /\ g # f
  BY <1>1, <1>4, <1>5, TransitIs, TransitIsNext DEF OpenPcs
<1>7. Linked' = Linked \cup {f} /\ f \notin Linked
  BY <1>2, <1>3, <1>6 DEF Linked
<1> HIDE DEF f
<1>8. OpeningInv'
  <2>1. \A u \in Threads : th'[u].pc \in OpenPcs =>
          th'[u].file \in mem' /\ th'[u].file # Stdout /\ fd'[th'[u].file] # "none"
    BY <1>0, <1>1, <1>2 DEF OpeningInv, OpenPcs
  <2>2. \A u, v \in Threads : th'[u].pc \in OpenPcs /\ th'[v].pc \in OpenPcs
                              /\ th'[u].file = th'[v].file => u = v
    BY <1>0, <1>1 DEF OpeningInv, OpenPcs
  <2>3. \A u \in Threads : th'[u].pc \notin {"link", "push"}
    BY <1>0, <1>1 DEF OpeningInv
  <2>4. \A u \in Threads : th'[u].pc \in {"add", "link"} => next'[th'[u].file] = NULL
    BY <1>0, <1>1, <1>2 DEF OpeningInv
  <2>5. head' \in mem' \cup {NULL} /\ head' \notin InTransit'
    BY <1>2, <1>3, <1>6
  <2>6. \A g \in Streams : next'[g] \in mem' \cup {NULL} /\ next'[g] \notin InTransit'
    BY <1>0, <1>2, <1>6 DEF OpeningInv
  <2> QED BY <1>0, <1>2, <1>4, <2>1, <2>2, <2>3, <2>4, <2>5, <2>6 DEF OpeningInv
<1>9. ASSUME ListInv PROVE ListInv'
  <2>1. next[f] = head /\ prev[head] = f /\ head # f /\ head \in Linked
    BY <1>1, <1>7, <1>9 DEF ListInv, f
  <2>2. \A g \in Linked : next[g] # f
    BY <1>3, <1>7, <1>9, FilesAssumption DEF ListInv, Streams
  <2>3. ASSUME NEW S \in SUBSET Streams, f \in S,
               \A g \in S : next[g] = NULL \/ next[g] \in S
        PROVE  Linked \cup {f} \subseteq S
    <3>1. head # NULL => head \in S
      BY <2>1, <2>3
    <3>2. Linked \subseteq S
      BY <1>9, <2>3, <3>1 DEF ListInv, Covers
    <3> QED BY <2>3, <3>2
  <2>4. Covers(next', head', Linked')
    BY <1>2, <1>3, <1>7, <2>3, FilesAssumption DEF Covers, Streams
  <2>5. \A g \in Linked' : next'[g] \in Linked' \cup {NULL} /\ next'[g] # head'
    BY <1>2, <1>7, <1>9, <2>1, <2>2 DEF ListInv
  <2>6. ASSUME NEW S \in SUBSET (Linked \cup {f}), S # {}
        PROVE  \E g \in S : next[g] \notin S
    <3>1. CASE S = {f}
      BY <2>1, <3>1
    <3>2. CASE S # {f}
      <4>1. S \ {f} \in SUBSET Linked /\ S \ {f} # {}
        BY <2>6, <3>2
      <4>2. PICK g \in S \ {f} : next[g] \notin S \ {f}
        BY <1>9, <4>1 DEF ListInv
      <4> QED BY <2>2, <4>1, <4>2
    <3> QED BY <3>1, <3>2
  <2>7. \A g \in Linked' : next'[g] # NULL => prev'[next'[g]] = g
    BY <1>2, <1>7, <1>9, <2>1 DEF ListInv
  <2>8. \A u \in Threads : th'[u].pc # "push"
    BY <1>0, <1>1 DEF OpeningInv
  <2> QED BY <1>2, <1>7, <2>4, <2>5, <2>6, <2>7, <2>8 DEF ListInv, Covers
<1>10. WalkInv'
  <2>1. \A u \in Threads : th'[u].cursor \in mem' \cup {NULL} /\ th'[u].cursor \notin InTransit'
    BY <1>0, <1>1, <1>2, <1>6, NullNotInTransit DEF WalkInv
  <2>2. FiniInv'
    BY <1>0, <1>1, <1>2 DEF WalkInv, FiniInv, Covers
  <2>3. ~exiting' => FlushInv'
    BY <1>0, <1>1, <1>2 DEF WalkInv, FlushInv, Covers
  <2> QED BY <2>1, <2>2, <2>3 DEF WalkInv
<1> QED BY <1>0, <1>2, <1>8, <1>9, <1>10 DEF KeepInv
-----------------------------------------------------------------------------
(* exit.                                                                   *)

LEMMA FiniBeginKeeps ==
  ASSUME KeepInv, NEW t \in Threads, FiniBegin(t)
  PROVE  KeepInv'
<1>0. TypeInv /\ TypeInv' /\ OpeningInv /\ WalkInv
  BY FiniBeginType DEF KeepInv
<1>1. /\ th[t].pc = "idle" /\ th'[t].pc = "fini"
      /\ th'[t].cursor = head /\ th'[t].todo = Linked
      /\ \A u \in Threads \ {t} : th'[u] = th[u]
  BY BeginsIs DEF FiniBegin, KeepInv
<1>2. UNCHANGED <<head, next, prev, fd, mem, listLock>> /\ ~exiting /\ exiting'
  BY DEF FiniBegin, list
<1>3. OpeningInv' /\ InTransit' = InTransit
  BY <1>0, <1>1, <1>2, QuietStep DEF OpenPcs, ClosePcs
<1>4. Covers(next, head, Linked)
  BY <1>2 DEF KeepInv, ListInv
<1>5. \A u \in Threads : th[u].pc \notin {"fini", "finilink"}
  BY <1>0, <1>2 DEF WalkInv, FiniInv
<1>6. FiniInv'
  BY <1>1, <1>2, <1>4, <1>5 DEF FiniInv, Covers
<1>7. WalkInv'
  BY <1>0, <1>1, <1>2, <1>3, <1>6 DEF WalkInv, OpeningInv
<1> QED BY <1>0, <1>2, <1>3, <1>7 DEF KeepInv

LEMMA FiniVisitKeeps ==
  ASSUME KeepInv, NEW t \in Threads, FiniVisit(t)
  PROVE  KeepInv'
<1> DEFINE f == th[t].cursor
           closes == fd[f] = "file" /\ MayAcquire(lock[f])
<1>0. TypeInv /\ TypeInv' /\ OpeningInv /\ WalkInv
  BY FiniVisitType DEF KeepInv
<1>1. /\ th[t].pc = "fini" /\ f # NULL
      /\ th'[t].pc = (IF closes THEN "finilink" ELSE "fini")
      /\ th'[t].file = f /\ th'[t].cursor = next[f] /\ th'[t].todo = th[t].todo \ {f}
      /\ \A u \in Threads \ {t} : /\ th'[u].pc = th[u].pc /\ th'[u].file = th[u].file
                                  /\ th'[u].cursor = th[u].cursor
                                  /\ th'[u].todo = th[u].todo \ {f}
  <2>1. th[t].pc = "fini" /\ f # NULL
    BY DEF FiniVisit, At
  <2>2. th' = [Forget(th, f) EXCEPT ![t].pc = IF closes THEN "finilink" ELSE "fini",
                                    ![t].file = f, ![t].cursor = next[f]]
    BY DEF FiniVisit
  <2>3. Forget(th, f)[t] \in Threadlike
    BY <1>0, ThreadType, ForgetType
  <2> HIDE DEF f, closes
  <2> QED BY <1>0, <2>1, <2>2, <2>3, ThreadType, ForgetType DEF Threadlike
<1>2. UNCHANGED <<head, mem, listLock, exiting>> /\ exiting
  BY <1>0, <1>1 DEF FiniVisit, WalkInv, FiniInv
<1>3. f \in Streams /\ f \in mem /\ f \notin InTransit
  BY <1>0, <1>1, TypeIsParts, ThreadType DEF WalkInv, Links
<1>4. Covers(next, f, th[t].todo) /\ th[t].todo \in SUBSET Streams
  BY <1>0, <1>1, ThreadType DEF WalkInv, FiniInv
<1>5. \A u \in Threads \ {t} : th'[u].pc \notin {"fini", "finilink"}
  BY <1>0, <1>1 DEF WalkInv, FiniInv
<1>6. CASE ~closes
  <2>1. UNCHANGED <<fd, next, prev>> /\ th'[t].pc = "fini"
    BY <1>1, <1>6 DEF FiniVisit
  <2> HIDE DEF closes, f
  <2>2. OpeningInv' /\ InTransit' = InTransit
    BY <1>0, <1>1, <1>2, <2>1, QuietStep DEF OpenPcs, ClosePcs
  <2>3. Covers(next', th'[t].cursor, th'[t].todo)
    <3>1. Covers(next, next[f], th[t].todo \ {f})
      BY <1>0, <1>3, <1>4, CoversStep, TypeIsParts
    <3> QED BY <1>1, <2>1, <3>1
  <2>4. FiniInv'
    BY <1>2, <1>5, <2>1, <2>3 DEF FiniInv, Covers
  <2>5. \A u \in Threads : th'[u].cursor \in mem' \cup {NULL} /\ th'[u].cursor \notin InTransit'
    BY <1>0, <1>1, <1>2, <1>3, <2>2 DEF WalkInv, OpeningInv
  <2> QED BY <1>0, <1>2, <2>2, <2>4, <2>5 DEF KeepInv, WalkInv
<1>7. CASE closes
  <2>1. /\ fd' = [fd EXCEPT ![f] = "none"]
        /\ next' = [next EXCEPT ![f] = NULL] /\ prev' = [prev EXCEPT ![f] = NULL]
        /\ th'[t].pc = "finilink" /\ fd[f] = "file"
    BY <1>1, <1>7 DEF FiniVisit, Zeroed
  <2> HIDE DEF closes, f
  <2>2. /\ \A g \in Streams : g # f => next'[g] = next[g] /\ fd'[g] = fd[g]
        /\ next'[f] = NULL /\ prev'[f] = NULL /\ fd'[f] = "none"
    BY <1>0, <1>3, <2>1, TypeIsParts
  <2>3. \A u \in Threads : th[u].pc \notin ClosePcs /\ th'[u].pc \notin ClosePcs
    BY <1>0, <1>1, <2>1 DEF OpeningInv, ClosePcs
  <2>4. \A u \in Threads : /\ th'[u].pc \in OpenPcs <=> th[u].pc \in OpenPcs
                           /\ th[u].pc \in OpenPcs =>
                                /\ th'[u].pc = th[u].pc /\ th'[u].file = th[u].file
                                /\ th[u].file # f /\ th[u].file \in Streams
    BY <1>0, <1>1, <1>3, <2>1, <2>3, TransitIs, ThreadType DEF OpenPcs, FilePcs
  <2>5. InTransit' = InTransit
    <3>1. \A g : g \in InTransit' <=> g \in InTransit
      BY <2>3, <2>4, TransitIs, TransitIsNext
    <3> QED BY <3>1
  <2>6. OpeningInv'
    <3>1. \A u \in Threads : th'[u].pc \in OpenPcs =>
            th'[u].file \in mem' /\ th'[u].file # Stdout /\ fd'[th'[u].file] # "none"
      BY <1>0, <1>2, <2>2, <2>4 DEF OpeningInv
    <3>2. \A u, v \in Threads : th'[u].pc \in OpenPcs /\ th'[v].pc \in OpenPcs
                                /\ th'[u].file = th'[v].file => u = v
      BY <1>0, <2>4 DEF OpeningInv
    <3>3. \A u \in Threads : th'[u].pc \in {"link", "push"} => listLock' = u
      BY <1>0, <1>1, <1>2, <2>1 DEF OpeningInv
    <3>4. \A u \in Threads : th'[u].pc \in {"add", "link"} => next'[th'[u].file] = NULL
      BY <1>0, <2>2, <2>4 DEF OpeningInv, OpenPcs
    <3>5. \A g \in Streams \ mem' : next'[g] = NULL
      BY <1>0, <1>2, <2>2 DEF OpeningInv
    <3>6. \A g \in Streams : next'[g] \in mem' \cup {NULL} /\ next'[g] \notin InTransit'
      BY <1>0, <1>2, <2>2, <2>5, NullNotInTransit DEF OpeningInv
    <3>7. Stdout \in mem' /\ fd'[Stdout] = "std"
      BY <1>0, <1>2, <2>1, <2>2 DEF OpeningInv, Streams
    <3> QED BY <1>0, <1>2, <2>3, <2>5, <3>1, <3>2, <3>3, <3>4, <3>5, <3>6, <3>7
            DEF OpeningInv
  <2>7. Covers(next', th'[t].cursor, th'[t].todo)
    <3>1. Covers([next EXCEPT ![f] = NULL], next[f], th[t].todo \ {f})
      BY <1>0, <1>3, <1>4, CoversZeroed, TypeIsParts
    <3> QED BY <1>1, <2>1, <3>1
  <2>8. FiniInv'
    <3>1. f \notin th'[t].todo
      BY <1>1
    <3> QED BY <1>1, <1>2, <1>3, <1>5, <2>2, <2>7, <3>1 DEF FiniInv, Covers
  <2>9. \A u \in Threads : th'[u].cursor \in mem' \cup {NULL} /\ th'[u].cursor \notin InTransit'
    BY <1>0, <1>1, <1>2, <1>3, <2>5 DEF WalkInv, OpeningInv
  <2> QED BY <1>0, <1>2, <2>6, <2>8, <2>9 DEF KeepInv, WalkInv
<1> QED BY <1>6, <1>7

LEMMA FiniUnlinkKeeps ==
  ASSUME KeepInv, NEW t \in Threads, FiniUnlink(t)
  PROVE  KeepInv'
<1> DEFINE f == th[t].file
<1>0. TypeInv /\ TypeInv' /\ OpeningInv /\ WalkInv
  BY FiniUnlinkType DEF KeepInv
<1>1. /\ th[t].pc = "finilink" /\ th'[t].pc = "fini" /\ th'[t].file = f
      /\ th'[t].cursor = th[t].cursor /\ th'[t].todo = th[t].todo
      /\ \A u \in Threads \ {t} : th'[u] = th[u]
  BY GotoIs DEF FiniUnlink, At, KeepInv
<1>2. UNCHANGED <<fd, mem, listLock, exiting>> /\ exiting
  BY <1>0, <1>1 DEF FiniUnlink, WalkInv, FiniInv
<1>3. /\ f \in Streams /\ next[f] = NULL /\ f \in mem /\ f \notin th[t].todo
      /\ prev[f] # NULL => next[prev[f]] = f
      /\ prev[f] \in Links
      /\ Covers(next, th[t].cursor, th[t].todo) /\ th[t].todo \in SUBSET Streams
  BY <1>0, <1>1, ThreadType, TypeIsParts DEF WalkInv, FiniInv, FilePcs
<1>4. /\ head' = IF f = head THEN NULL ELSE head
      /\ next' = IF prev[f] = NULL THEN next ELSE [next EXCEPT ![prev[f]] = NULL]
  BY <1>3 DEF FiniUnlink, Unlinked
<1> HIDE DEF f
<1>5. \A g \in Streams : next'[g] = next[g] \/ next'[g] = NULL
  BY <1>0, <1>3, <1>4, TypeIsParts
<1>6. \A u \in Threads : th[u].pc \notin ClosePcs /\ th'[u].pc \notin ClosePcs
  BY <1>0, <1>1 DEF OpeningInv, ClosePcs
<1>7. \A u \in Threads : /\ th'[u].pc \in OpenPcs <=> th[u].pc \in OpenPcs
                         /\ th[u].pc \in OpenPcs => th'[u] = th[u]
  BY <1>1 DEF OpenPcs
<1>8. InTransit' = InTransit
  <2>1. \A g : g \in InTransit' <=> g \in InTransit
    BY <1>6, <1>7, TransitIs, TransitIsNext
  <2> QED BY <2>1
<1>9. OpeningInv'
  <2>1. \A u \in Threads : th'[u].pc \in OpenPcs =>
          th'[u].file \in mem' /\ th'[u].file # Stdout /\ fd'[th'[u].file] # "none"
    BY <1>0, <1>2, <1>7 DEF OpeningInv
  <2>2. \A u, v \in Threads : th'[u].pc \in OpenPcs /\ th'[v].pc \in OpenPcs
                              /\ th'[u].file = th'[v].file => u = v
    BY <1>0, <1>7 DEF OpeningInv
  <2>3. \A u \in Threads : th'[u].pc \in {"link", "push"} => listLock' = u
    BY <1>0, <1>1, <1>2 DEF OpeningInv
  <2>4. ASSUME NEW u \in Threads, th'[u].pc \in {"add", "link"}
        PROVE  next'[th'[u].file] = NULL
    <3>1. th'[u] = th[u] /\ next[th[u].file] = NULL /\ th[u].file \in Streams
      BY <1>0, <1>1, <2>4, ThreadType DEF OpeningInv, FilePcs
    <3> QED BY <1>5, <3>1
  <2>5. \A g \in Streams \ mem' : next'[g] = NULL
    BY <1>0, <1>2, <1>5 DEF OpeningInv
  <2>6. head' \in mem' \cup {NULL} /\ head' \notin InTransit'
    BY <1>0, <1>2, <1>4, <1>8, NullNotInTransit DEF OpeningInv
  <2>7. \A g \in Streams : next'[g] \in mem' \cup {NULL} /\ next'[g] \notin InTransit'
    BY <1>0, <1>2, <1>5, <1>8, NullNotInTransit DEF OpeningInv
  <2> QED BY <1>0, <1>2, <1>6, <2>1, <2>2, <2>3, <2>4, <2>5, <2>6, <2>7 DEF OpeningInv
<1>10. Covers(next', th[t].cursor, th[t].todo)
  <2>1. CASE prev[f] = NULL
    BY <1>3, <1>4, <2>1
  <2>2. CASE prev[f] # NULL
    <3>1. prev[f] \in Streams
      BY <1>3, <2>2 DEF Links
    <3>2. Covers([next EXCEPT ![prev[f]] = NULL], th[t].cursor, th[t].todo)
      BY <1>0, <1>3, <2>2, <3>1, CoversUntied, TypeIsParts
    <3> QED BY <1>4, <2>2, <3>2
  <2> QED BY <2>1, <2>2
<1>11. \A u \in Threads \ {t} : th'[u].pc \notin {"fini", "finilink"}
  BY <1>0, <1>1 DEF WalkInv, FiniInv
<1>12. FiniInv'
  BY <1>1, <1>2, <1>10, <1>11 DEF FiniInv, Covers
<1>13. \A u \in Threads : th'[u].cursor \in mem' \cup {NULL} /\ th'[u].cursor \notin InTransit'
  BY <1>0, <1>1, <1>2, <1>8 DEF WalkInv
<1> QED BY <1>0, <1>2, <1>9, <1>12, <1>13 DEF KeepInv, WalkInv

LEMMA FiniEndKeeps ==
  ASSUME KeepInv, NEW t \in Threads, FiniEnd(t)
  PROVE  KeepInv'
<1>1. TypeInv'
  BY FiniEndType DEF KeepInv
<1>2. UNCHANGED <<head, next, prev, fd, lock, dirty, mem, owner, listLock, th, exiting>>
  BY DEF FiniEnd, list
<1>3. InTransit' = InTransit /\ Linked' = Linked
  BY <1>2 DEF InTransit, Linked
<1>4. OpeningInv'
  BY <1>2, <1>3 DEF KeepInv, OpeningInv
<1>5. ~exiting' => ListInv'
  BY <1>2, <1>3 DEF KeepInv, ListInv, Covers
<1>6. WalkInv'
  BY <1>2, <1>3 DEF KeepInv, WalkInv, FiniInv, FlushInv, Covers
<1> QED BY <1>1, <1>4, <1>5, <1>6 DEF KeepInv
-----------------------------------------------------------------------------
LEMMA KeepInit == Init => KeepInv
<1> SUFFICES ASSUME Init PROVE KeepInv
  OBVIOUS
<1>1. TypeInv
  BY TypeInit
<1>2. \A t \in Threads : th[t].pc = "idle" /\ th[t].cursor = NULL
  BY DEF Init, Idle
<1>3. InTransit = {}
  BY <1>2 DEF InTransit
<1>4. /\ head = Stdout /\ mem = {Stdout} /\ exiting = FALSE
      /\ next = [f \in Streams |-> NULL] /\ fd[Stdout] = "std"
      /\ Stdout \in Streams /\ Stdout # NULL
  BY FilesAssumption DEF Init, Streams
<1>5. Linked = {Stdout}
  BY <1>3, <1>4 DEF Linked
<1>6. OpeningInv
  BY <1>2, <1>3, <1>4 DEF OpeningInv, OpenPcs, ClosePcs
<1>7. ListInv
  BY <1>2, <1>4, <1>5 DEF ListInv, Covers
<1>8. WalkInv
  BY <1>2, <1>3 DEF WalkInv, FiniInv, FlushInv
<1> QED BY <1>1, <1>6, <1>7, <1>8 DEF KeepInv

LEMMA KeepStep == KeepInv /\ [KeepNext]_vars => KeepInv'
<1> SUFFICES ASSUME KeepInv, [KeepNext]_vars PROVE KeepInv'
  OBVIOUS
<1>1. CASE UNCHANGED vars
  <2>1. UNCHANGED <<head, next, prev, fd, lock, dirty, mem, owner, listLock, th,
                    exiting, exited>>
    BY <1>1 DEF vars
  <2>2. TypeInv' /\ InTransit' = InTransit /\ Linked' = Linked
    BY <2>1 DEF KeepInv, TypeInv, TypeOK, InTransit, Linked
  <2>3. OpeningInv'
    BY <2>1, <2>2 DEF KeepInv, OpeningInv
  <2>4. ~exiting' => ListInv'
    BY <2>1, <2>2 DEF KeepInv, ListInv, Covers
  <2>5. WalkInv'
    BY <2>1, <2>2 DEF KeepInv, WalkInv, FiniInv, FlushInv, Covers
  <2> QED BY <2>2, <2>3, <2>4, <2>5 DEF KeepInv
<1>2. ASSUME NEW t \in Threads, NEW f \in Files, FopenAlloc(t, f) PROVE KeepInv'
  BY <1>2, FopenAllocKeeps
<1>3. ASSUME NEW t \in Threads, NEW f \in Streams, UseRead(t, f) PROVE KeepInv'
  BY <1>3, UseReadKeeps
<1>4. ASSUME NEW t \in Threads, FlushAllBegin(t) PROVE KeepInv'
  BY <1>4, FlushAllBeginKeeps
<1>5. ASSUME NEW t \in Threads, FiniBegin(t) PROVE KeepInv'
  BY <1>5, FiniBeginKeeps
<1>6. ASSUME NEW t \in Threads, AddLock(t) PROVE KeepInv'
  BY <1>6, AddLockKeeps
<1>7. ASSUME NEW t \in Threads, AddLink(t) PROVE KeepInv'
  BY <1>7, AddLinkKeeps
<1>8. ASSUME NEW t \in Threads, AddPush(t) PROVE KeepInv'
  BY <1>8, AddPushKeeps
<1>9. ASSUME NEW t \in Threads, UseAcquire(t) PROVE KeepInv'
  BY <1>9, UseAcquireKeeps
<1>10. ASSUME NEW t \in Threads, UseRelease(t) PROVE KeepInv'
  BY <1>10, UseReleaseKeeps
<1>11. ASSUME NEW t \in Threads, FlushAllVisit(t) PROVE KeepInv'
  BY <1>11, FlushAllVisitKeeps
<1>12. ASSUME NEW t \in Threads, FlushAllNext(t) PROVE KeepInv'
  BY <1>12, FlushAllNextKeeps
<1>13. ASSUME NEW t \in Threads, FlushAllEnd(t) PROVE KeepInv'
  BY <1>13, FlushAllEndKeeps
<1>14. ASSUME NEW t \in Threads, FiniVisit(t) PROVE KeepInv'
  BY <1>14, FiniVisitKeeps
<1>15. ASSUME NEW t \in Threads, FiniUnlink(t) PROVE KeepInv'
  BY <1>15, FiniUnlinkKeeps
<1>16. ASSUME NEW t \in Threads, FiniEnd(t) PROVE KeepInv'
  BY <1>16, FiniEndKeeps
<1> QED
  BY <1>1, <1>2, <1>3, <1>4, <1>5, <1>6, <1>7, <1>8, <1>9, <1>10, <1>11, <1>12, <1>13, <1>14, <1>15, <1>16, Zenon
  DEF KeepNext, Continues
-----------------------------------------------------------------------------
(* The list as the chain of its links.                                     *)

\* A set of numbers that is not empty has a least one.
LEMMA LeastNumber ==
  ASSUME NEW T \in SUBSET Nat, T # {}
  PROVE  \E m \in T : \A k \in T : m <= k
<1>1. PICK m \in T : \A k \in T : ~ (<<k, m>> \in OpToRel(<, Nat))
  BY NatLessThanWellFounded, WFMin
<1>2. \A k \in T : ~(k < m)
  BY <1>1 DEF OpToRel
<1> QED BY <1>2

\* One link further.
After(x) == IF x = NULL THEN NULL ELSE next[x]

IsChain(c, n) ==
  /\ c \in [0 .. n -> Links]
  /\ c[0] = head
  /\ \A k \in 1 .. n : c[k] = After(c[k - 1])

LEMMA ChainExists ==
  ASSUME TypeInv
  PROVE  \A n \in Nat : \E c : IsChain(c, n)
<1> DEFINE T == {n \in Nat : ~ \E c : IsChain(c, n)}
<1> SUFFICES ASSUME T # {} PROVE FALSE
  OBVIOUS
<1>1. PICK m \in T : \A k \in T : m <= k
  BY LeastNumber
<1>2. m \in Nat /\ ~ \E c : IsChain(c, m)
  OBVIOUS
<1>3. CASE m = 0
  <2>1. IsChain([k \in 0 .. 0 |-> head], 0)
    BY TypeIsParts DEF IsChain
  <2> QED BY <1>2, <1>3, <2>1
<1>4. CASE m # 0
  <2>1. m - 1 \in Nat /\ m - 1 \notin T
    BY <1>1, <1>2, <1>4
  <2>2. PICK c : IsChain(c, m - 1)
    BY <2>1
  <2> DEFINE d == [k \in 0 .. m |-> IF k = m THEN After(c[m - 1]) ELSE c[k]]
  <2>3. c[m - 1] \in Links /\ After(c[m - 1]) \in Links
    BY <2>1, <2>2, TypeIsParts DEF IsChain, After, Links
  <2>4. d \in [0 .. m -> Links]
    BY <1>2, <2>1, <2>2, <2>3 DEF IsChain
  <2>5. d[0] = head
    BY <1>2, <1>4, <2>2 DEF IsChain
  <2>6. ASSUME NEW k \in 1 .. m PROVE d[k] = After(d[k - 1])
    <3>1. CASE k = m
      BY <1>2, <1>4, <3>1
    <3>2. CASE k # m
      <4>1. k \in 1 .. m - 1 /\ k \in 0 .. m /\ k - 1 \in 0 .. m /\ k - 1 # m
        BY <1>2, <3>2
      <4>2. d[k] = c[k] /\ d[k - 1] = c[k - 1]
        BY <3>2, <4>1
      <4> QED BY <2>2, <4>1, <4>2 DEF IsChain
    <3> QED BY <3>1, <3>2
  <2>7. IsChain(d, m)
    BY <2>4, <2>5, <2>6 DEF IsChain
  <2> QED BY <1>2, <2>7
<1> QED BY <1>3, <1>4

LEMMA ChainIsChain ==
  ASSUME TypeInv
  PROVE  Cardinality(Streams) \in Nat /\ IsChain(Chain, Cardinality(Streams))
<1> DEFINE N == Cardinality(Streams)
           Eq(c) == c = [n \in 0 .. N |->
                           IF n = 0 THEN head
                           ELSE IF c[n - 1] = NULL THEN NULL ELSE next[c[n - 1]]]
<1>1. N \in Nat /\ IsFiniteSet(Streams)
  BY FilesAssumption, FS_AddElement, FS_CardinalityType DEF Streams
<1>2. PICK c : IsChain(c, N)
  BY <1>1, ChainExists
<1>3. Eq(c)
  <2>1. \A n \in 0 .. N : n # 0 => n \in 1 .. N
    BY <1>1
  <2>2. \A n \in 0 .. N : c[n] = IF n = 0 THEN head
                           ELSE IF c[n - 1] = NULL THEN NULL ELSE next[c[n - 1]]
    BY <1>2, <2>1 DEF IsChain, After
  <2> QED BY <1>2, <2>2 DEF IsChain
<1>4. Chain = CHOOSE d : Eq(d)
  BY DEF Chain
<1>5. Eq(Chain)
  BY <1>3, <1>4
<1>6. \A n \in 0 .. N : Chain[n] = IF n = 0 THEN head ELSE After(Chain[n - 1])
  BY <1>5 DEF After
<1>7. Chain = [n \in 0 .. N |-> Chain[n]]
  BY <1>5
<1> HIDE DEF N, Eq
<1> DEFINE T == {n \in 0 .. N : Chain[n] \notin Links}
<1>8. T = {}
  <2> SUFFICES ASSUME T # {} PROVE FALSE
    OBVIOUS
  <2>1. T \in SUBSET Nat
    BY <1>1
  <2>2. PICK m \in T : \A k \in T : m <= k
    BY <2>1, LeastNumber
  <2>3. m # 0
    BY <1>1, <1>6, TypeIsParts
  <2>4. m - 1 \in 0 .. N /\ m - 1 \notin T
    BY <1>1, <2>2, <2>3
  <2> QED BY <1>6, <2>3, <2>4, TypeIsParts DEF After, Links
<1>9. Chain \in [0 .. N -> Links]
  BY <1>7, <1>8
<1>10. \A k \in 1 .. N : k \in 0 .. N /\ k # 0
  BY <1>1
<1>11. IsChain(Chain, N)
  BY <1>1, <1>6, <1>9, <1>10 DEF IsChain
<1> QED BY <1>1, <1>11 DEF N

\* A chain runs through linked FILEs until it ends.
LEMMA ChainLinked ==
  ASSUME KeepInv, ListInv, NEW N \in Nat, NEW c, IsChain(c, N)
  PROVE  \A n \in 0 .. N : c[n] \in Linked \cup {NULL}
<1> DEFINE T == {n \in 0 .. N : c[n] \notin Linked \cup {NULL}}
<1> SUFFICES ASSUME T # {} PROVE FALSE
  OBVIOUS
<1>1. T \in SUBSET Nat
  OBVIOUS
<1>2. PICK m \in T : \A k \in T : m <= k
  BY <1>1, LeastNumber
<1>3. m # 0
  BY DEF IsChain, ListInv
<1>4. m \in 1 .. N /\ m - 1 \in 0 .. N /\ m - 1 \notin T
  BY <1>2, <1>3
<1> QED BY <1>4 DEF IsChain, ListInv, After

\* Once it has ended it stays so.
LEMMA ChainEnded ==
  ASSUME NEW N \in Nat, NEW c, IsChain(c, N), c[N] # NULL
  PROVE  \A n \in 0 .. N : c[n] # NULL
<1> DEFINE T == {j \in 0 .. N : c[N - j] = NULL}
<1>1. T = {}
  <2> SUFFICES ASSUME T # {} PROVE FALSE
    OBVIOUS
  <2>1. T \in SUBSET Nat
    OBVIOUS
  <2>2. PICK m \in T : \A k \in T : m <= k
    BY <2>1, LeastNumber
  <2>3. m # 0
    OBVIOUS
  <2>4. m - 1 \in 0 .. N /\ m - 1 \notin T
    BY <2>2, <2>3
  <2>5. N - (m - 1) \in 1 .. N /\ (N - (m - 1)) - 1 = N - m
    BY <2>3
  <2> QED BY <2>4, <2>5 DEF IsChain, After
<1> SUFFICES ASSUME NEW n \in 0 .. N PROVE c[n] # NULL
  OBVIOUS
<1>2. N - n \in 0 .. N /\ N - (N - n) = n
  OBVIOUS
<1> QED BY <1>1, <1>2

\* No FILE comes twice, so the chain ends within as many links as there are
\* FILEs.
LEMMA ChainEnds ==
  ASSUME KeepInv, ListInv, NEW N \in Nat, N = Cardinality(Streams), NEW c, IsChain(c, N)
  PROVE  c[N] = NULL
<1> SUFFICES ASSUME c[N] # NULL PROVE FALSE
  OBVIOUS
<1>1. \A n \in 0 .. N : c[n] \in Linked
  BY ChainEnded, ChainLinked
<1>2. Linked \subseteq Streams
  BY TypeIsParts DEF KeepInv, Linked
<1>3. c \in [0 .. N -> Streams]
  BY <1>1, <1>2 DEF IsChain
<1>4. IsFiniteSet(Streams)
  BY FilesAssumption, FS_AddElement DEF Streams
<1>5. IsFiniteSet(0 .. N) /\ Cardinality(0 .. N) = N + 1
  BY FS_Interval
<1>6. PICK x, y \in 0 .. N : x # y /\ c[x] = c[y]
  BY <1>3, <1>4, <1>5, FS_PigeonHole
<1>7. PICK i, j \in 0 .. N : i < j /\ c[i] = c[j]
  BY <1>6
<1> DEFINE S == {c[k] : k \in i .. j - 1}
<1>8. S \in SUBSET Linked /\ S # {}
  BY <1>1, <1>7
<1>9. PICK f \in S : next[f] \notin S
  BY <1>8 DEF ListInv
<1>10. PICK k \in i .. j - 1 : f = c[k]
  BY <1>9
<1>11. k \in 0 .. N /\ k + 1 \in 1 .. N /\ (k + 1) - 1 = k /\ i \in i .. j - 1
  BY <1>7
<1>12. next[f] = c[k + 1]
  BY <1>1, <1>10, <1>11, <1>2, FilesAssumption DEF IsChain, After, Streams
<1>13. CASE k + 1 = j
  BY <1>7, <1>9, <1>11, <1>12, <1>13
<1>14. CASE k + 1 # j
  <2>1. k + 1 \in i .. j - 1
    BY <1>7, <1>14
  <2> QED BY <1>9, <1>12, <2>1
<1> QED BY <1>13, <1>14

LEMMA ListFromInv == KeepInv => ListSound
<1> SUFFICES ASSUME KeepInv, ~exiting
             PROVE  /\ Chain[Cardinality(Streams)] = NULL
                    /\ {Chain[n] : n \in DOMAIN Chain} \ {NULL} = Linked
                    /\ \A f \in Linked : next[f] # NULL => prev[next[f]] = f
  BY DEF ListSound
<1> DEFINE N == Cardinality(Streams)
           S == {Chain[n] : n \in DOMAIN Chain} \ {NULL}
<1>1. N \in Nat /\ IsChain(Chain, N) /\ ListInv
  BY ChainIsChain DEF KeepInv
<1> HIDE DEF N
<1>2. Chain[N] = NULL
  BY <1>1, ChainEnds DEF N
<1>3. DOMAIN Chain = 0 .. N /\ Chain[0] = head
  BY <1>1 DEF IsChain
<1>4. S \subseteq Linked /\ Linked \subseteq Streams
  BY <1>1, <1>3, ChainLinked, TypeIsParts DEF Linked, KeepInv
<1>5. Linked \subseteq S
  <2>1. head # NULL => head \in S
    BY <1>1, <1>3
  <2>2. ASSUME NEW f \in S PROVE next[f] = NULL \/ next[f] \in S
    <3>1. PICK n \in 0 .. N : f = Chain[n] /\ f # NULL
      BY <1>3, <2>2
    <3>2. n # N
      BY <1>2, <3>1
    <3>3. n + 1 \in 1 .. N /\ n + 1 \in 0 .. N /\ (n + 1) - 1 = n
      BY <1>1, <3>2
    <3>4. next[f] = Chain[n + 1]
      BY <1>1, <3>1, <3>3 DEF IsChain, After
    <3> QED BY <1>3, <3>3, <3>4
  <2>3. S \in SUBSET Streams
    BY <1>4
  <2> HIDE DEF S
  <2> QED BY <1>1, <2>1, <2>2, <2>3 DEF ListInv, Covers
<1>6. S = Linked
  BY <1>4, <1>5
<1>7. \A f \in Linked : next[f] # NULL => prev[next[f]] = f
  BY <1>1 DEF ListInv
<1> QED BY <1>2, <1>6, <1>7 DEF N
-----------------------------------------------------------------------------
(* What follows.                                                           *)

\* The links, descriptors, mutexes and threads keep their types whatever the
\* program opens, closes and reopens (fopen, fclose, freopen, fflush, exit).
THEOREM TypeHolds == (Spec => []TypeOK) /\ (KeepSpec => []TypeOK)
<1>1. TypeInv => TypeOK
  BY DEF TypeInv
<1>2. KeepNext => Next
  BY DEF Next
<1>3. Spec => []TypeOK
  BY <1>1, TypeInit, TypeNext, PTL DEF Spec
<1>4. KeepSpec => []TypeOK
  BY <1>1, <1>2, TypeInit, TypeNext, PTL DEF KeepSpec
<1> QED BY <1>3, <1>4

\* Whenever nobody is changing it before exit, the list holds every open
\* stream exactly once and can be followed both ways, for any number of threads
\* that open streams (__open_file_list_add).
THEOREM ListSoundHolds == KeepSpec => []ListSound
BY ListFromInv, KeepInit, KeepStep, PTL DEF KeepSpec

\* fflush(NULL) returns only when it has been at every stream that was open
\* when it began, however many threads open others meanwhile (fflush walks the
\* list that __open_file_list_add changes).
THEOREM FlushAllCompleteHolds == KeepSpec => []FlushAllComplete
<1>1. KeepInv => FlushAllComplete
  BY CoversEnd DEF KeepInv, WalkInv, FlushInv, FlushAllComplete
<1> QED BY <1>1, KeepInit, KeepStep, PTL DEF KeepSpec

\* exit looks at every stream that was open when it began, although it zeroes
\* and unlinks them on its way and other threads go on opening (__fini_stdio).
THEOREM FiniCompleteHolds == KeepSpec => []FiniComplete
<1>1. KeepInv => FiniComplete
  BY CoversEnd DEF KeepInv, WalkInv, FiniInv, FiniComplete
<1> QED BY <1>1, KeepInit, KeepStep, PTL DEF KeepSpec
=============================================================================
