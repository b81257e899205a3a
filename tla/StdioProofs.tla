---------------------------- MODULE StdioProofs ----------------------------
(***************************************************************************)
(* Proofs about StdioStream, for every set of bytes, every BUFSIZ and user *)
(* buffer size, every bound and every choice of faults, under one          *)
(* condition on the client: it stops using a stream once a call on it has  *)
(* failed ("retry" \notin Habits; the run of stdio_retry.cfg shows that    *)
(* the condition is needed).                                               *)
(*                                                                         *)
(* BufferBounds is not inductive: that the byte stored by fputc lies in    *)
(* the buffer rests on MakeRoom having emptied a full buffer, which it     *)
(* does only when the stream's flags say that it holds written bytes and   *)
(* the kernel took them.  StreamInv adds the direction of the buffered     *)
(* bytes, the size of a buffer that is set, the offset of the file and the *)
(* state of a transfer.  The lemmas follow the calls of the C functions    *)
(* bottom up; each says what a function relies on and leaves behind.       *)
(***************************************************************************)
EXTENDS StdioStream, SequenceTheorems, TLAPS

\* A stream within its buffer, over a file that reaches up to the offset.
Good(s, n) ==
  /\ s \in Streams /\ InBounds(s)
  /\ n \in Nodes /\ n.off <= Len(n.data)

\* What a call relies on, and what it leaves behind.
Ready(s, n) == Good(s, n) /\ ~n.refused /\ Directed(s)
Safe(s, n) == Good(s, n) /\ (~n.refused => Directed(s))

\* What no call but setvbuf, fopen and fclose changes.
Steady(s, t) ==
  /\ t.buffer_size = s.buffer_size
  /\ t.open = s.open
  /\ Has(s, "BUFFER_SET") <=> Has(t, "BUFFER_SET")

\* A refusal by the kernel is reported at once.
Ends(s, o) ==
  /\ Safe(o.s, o.n)
  /\ Steady(s, o.s)
  /\ o.n.refused => o.ret = EOF

\* Two streams that differ in their flags only.
SameBuffer(s, t) ==
  /\ t.open = s.open /\ t.buffer = s.buffer /\ t.buffer_size = s.buffer_size
  /\ t.buffer_mode = s.buffer_mode
  /\ t.buffered_bytes_write = s.buffered_bytes_write
  /\ t.buffered_bytes_read = s.buffered_bytes_read
  /\ t.buffered_bytes_read_offset = s.buffered_bytes_read_offset
-----------------------------------------------------------------------------
\* A buffer size is a natural number.
LEMMA SizesNat == BufferSizes \subseteq Nat
BY StreamAssumption DEF BufferSizes

\* A function on the cells of an admissible size is a buffer,
LEMMA BuffersIntro ==
  ASSUME NEW k \in BufferSizes, NEW f \in [0 .. k - 1 -> Cells]
  PROVE  f \in Buffers
BY DEF Buffers

\* and a buffer of k cells is such a function.
LEMMA BuffersElim ==
  ASSUME NEW f \in Buffers, NEW k, DOMAIN f = 0 .. k - 1
  PROVE  f \in [0 .. k - 1 -> Cells]
BY DEF Buffers

\* Changing the flags changes nothing else of the FILE structure.
LEMMA FlagsUpdate ==
  ASSUME NEW s \in Streams, NEW fl \in SUBSET Flags
  PROVE  /\ [s EXCEPT !.flags = fl] \in Streams
         /\ [s EXCEPT !.flags = fl].flags = fl
         /\ SameBuffer(s, [s EXCEPT !.flags = fl])
BY DEF Streams, SameBuffer

\* What the flag macros of the C functions (|= and &= ~) do to a stream.
LEMMA SetClear ==
  ASSUME NEW s \in Streams, NEW fs \in SUBSET Flags
  PROVE  /\ Set(s, fs) \in Streams /\ SameBuffer(s, Set(s, fs))
         /\ Set(s, fs).flags = s.flags \cup fs
         /\ Clear(s, fs) \in Streams /\ SameBuffer(s, Clear(s, fs))
         /\ Clear(s, fs).flags = s.flags \ fs
<1>1. s.flags \in SUBSET Flags
  BY DEF Streams
<1>2. s.flags \cup fs \in SUBSET Flags /\ s.flags \ fs \in SUBSET Flags
  BY <1>1
<1> QED BY <1>2, FlagsUpdate DEF Set, Clear

\* Bounds and unread count depend on the buffer, not on the flags.
LEMMA SameBufferFacts ==
  ASSUME NEW s, NEW t, SameBuffer(s, t)
  PROVE  /\ InBounds(s) => InBounds(t)
         /\ UnreadCount(t) = UnreadCount(s)
BY DEF SameBuffer, InBounds, UnreadCount

\* Writing bytes over a file gives a file that covers both.
LEMMA OverlayType ==
  ASSUME NEW f \in Seq(Bytes), NEW s \in Seq(Bytes), NEW p \in Nat, p <= Len(f)
  PROVE  /\ Overlay(f, p, s) \in Seq(Bytes)
         /\ p + Len(s) <= Len(Overlay(f, p, s))
         /\ Len(f) <= Len(Overlay(f, p, s))
<1> DEFINE m == IF Len(f) > p + Len(s) THEN Len(f) ELSE p + Len(s)
<1>1. m \in Nat /\ p + Len(s) <= m /\ Len(f) <= m
  OBVIOUS
<1>2. \A i \in 1 .. m :
        (IF i > p /\ i <= p + Len(s) THEN s[i - p] ELSE f[i]) \in Bytes
  OBVIOUS
<1>3. Overlay(f, p, s) = [i \in 1 .. m |->
         IF i > p /\ i <= p + Len(s) THEN s[i - p] ELSE f[i]]
  BY DEF Overlay
<1> HIDE DEF m
<1>4. Overlay(f, p, s) \in Seq(Bytes) /\ Len(Overlay(f, p, s)) = m
  BY <1>1, <1>2, <1>3
<1> QED BY <1>1, <1>4

\* A write moves the offset to a place inside the file.
LEMMA WriteAtGood ==
  ASSUME NEW n \in Nodes, n.off <= Len(n.data), NEW s \in Seq(Bytes)
  PROVE  /\ WriteAt(n, s) \in Nodes
         /\ WriteAt(n, s).off <= Len(WriteAt(n, s).data)
         /\ WriteAt(n, s).refused = n.refused
<1>1. /\ Overlay(n.data, n.off, s) \in Seq(Bytes)
      /\ n.off + Len(s) <= Len(Overlay(n.data, n.off, s))
      /\ n.off + Len(s) \in Nat
  BY OverlayType DEF Nodes
<1>2. ASSUME NEW d \in Seq(Bytes), NEW k \in Nat
      PROVE  /\ [n EXCEPT !.data = d, !.off = k] \in Nodes
             /\ [n EXCEPT !.data = d, !.off = k].data = d
             /\ [n EXCEPT !.data = d, !.off = k].off = k
             /\ [n EXCEPT !.data = d, !.off = k].refused = n.refused
  BY <1>2 DEF Nodes
<1> QED BY <1>1, <1>2, Zenon DEF WriteAt

\* The write loop: all bytes without a flag, or some with one and a refusal.
LEMMA WriteOutcomesGood ==
  ASSUME NEW n \in Nodes, n.off <= Len(n.data), NEW s \in Seq(Bytes),
         NEW w \in WriteOutcomes(n, s)
  PROVE  /\ w.n \in Nodes /\ w.n.off <= Len(w.n.data)
         /\ w.written \in 0 .. Len(s)
         /\ w.flag \in SUBSET {"ERROR", "EOF"}
         /\ w.flag = {} => w.written = Len(s) /\ w.n.refused = n.refused
         /\ w.flag # {} => w.n.refused /\ w.written < Len(s)
<1>1. CASE w = [n |-> WriteAt(n, s), written |-> Len(s), flag |-> {}]
  BY <1>1, WriteAtGood
<1>2. ASSUME NEW k \in 0 .. Len(s) - 1, NEW fl \in {"ERROR", "EOF"},
             w = [n |-> Refuse(WriteAt(n, SubSeq(s, 1, k))), written |-> k,
                  flag |-> {fl}]
      PROVE  /\ w.n \in Nodes /\ w.n.off <= Len(w.n.data)
             /\ w.written \in 0 .. Len(s)
             /\ w.flag \in SUBSET {"ERROR", "EOF"}
             /\ w.flag # {} /\ w.n.refused /\ w.written < Len(s)
  <2>1. SubSeq(s, 1, k) \in Seq(Bytes)
    OBVIOUS
  <2>2. /\ WriteAt(n, SubSeq(s, 1, k)) \in Nodes
        /\ WriteAt(n, SubSeq(s, 1, k)).off <= Len(WriteAt(n, SubSeq(s, 1, k)).data)
    BY <2>1, WriteAtGood
  <2>3. ASSUME NEW m \in Nodes
        PROVE  Refuse(m) \in Nodes /\ Refuse(m).off = m.off /\ Refuse(m).data = m.data
               /\ Refuse(m).refused
    BY DEF Refuse, Nodes
  <2>4. w.n \in Nodes /\ w.n.off <= Len(w.n.data) /\ w.n.refused
    BY <1>2, <2>2, <2>3, Zenon
  <2> QED BY <1>2, <2>4
<1> QED BY <1>1, <1>2 DEF WriteOutcomes

\* What waits in the buffer are bytes, never uninitialised memory.
LEMMA PendingBytes ==
  ASSUME NEW s \in Streams, InBounds(s)
  PROVE  Pending(s) \in Seq(Bytes) /\ Len(Pending(s)) = s.buffered_bytes_write
<1>1. s.buffered_bytes_write \in Nat
  BY DEF Streams
<1>2. \A i \in 1 .. s.buffered_bytes_write : s.buffer[i - 1] \in Bytes
  BY <1>1 DEF InBounds
<1> QED BY <1>1, <1>2 DEF Pending

\* Flushing the write buffer keeps the counters in bounds whatever happens, and
\* if it succeeds nothing stays pending.
LEMMA FflushWriteGood ==
  ASSUME NEW s, NEW n, Good(s, n), NEW o \in FflushWriteUnlocked(s, n)
  PROVE  /\ Good(o.s, o.n) /\ Steady(s, o.s) /\ o.ret \in {0, EOF}
         /\ UnreadCount(o.s) = UnreadCount(s)
         /\ Ready(s, n) => Ends(s, o) /\ (o.ret = 0 => o.s.buffered_bytes_write = 0)
<1> USE DEF Good, Ready, Safe, Ends
<1>1. CASE ~Has(s, "DIRECTION_WRITE")
  <2>1. o.s = s /\ o.n = n /\ o.ret = 0
    BY <1>1 DEF FflushWriteUnlocked, Outcome
  <2>2. Directed(s) => s.buffered_bytes_write = 0
    BY <1>1 DEF Directed, Streams
  <2> QED BY <2>1, <2>2 DEF Steady
<1>2. CASE Has(s, "DIRECTION_WRITE") /\ ~Has(s, "MODE_WRITE")
  <2>1. o.s = Set(s, {"ERROR"}) /\ o.n = n /\ o.ret = EOF
    BY <1>2 DEF FflushWriteUnlocked, Outcome
  <2>2. {"ERROR"} \in SUBSET Flags
    BY DEF Flags
  <2>3. o.s \in Streams /\ SameBuffer(s, o.s) /\ o.s.flags = s.flags \cup {"ERROR"}
    BY <2>1, <2>2, SetClear
  <2>4. InBounds(o.s) /\ UnreadCount(o.s) = UnreadCount(s)
    BY <2>3, SameBufferFacts
  <2>5. Directed(s) => Directed(o.s)
    BY <2>3, <2>4 DEF Directed, Has, SameBuffer
  <2>6. Steady(s, o.s)
    BY <2>3 DEF Steady, SameBuffer, Has
  <2> QED BY <2>1, <2>3, <2>4, <2>5, <2>6 DEF EOF
<1>3. CASE Has(s, "DIRECTION_WRITE") /\ Has(s, "MODE_WRITE")
  <2>1. PICK w \in WriteOutcomes(n, Pending(s)) :
          o = Outcome([s EXCEPT !.flags = (@ \cup w.flag) \ {"DIRECTION_WRITE"},
                                !.buffered_bytes_write = @ - w.written],
                      w.n, IF w.flag = {} THEN 0 ELSE EOF)
    BY <1>3 DEF FflushWriteUnlocked
  <2>2. Pending(s) \in Seq(Bytes) /\ Len(Pending(s)) = s.buffered_bytes_write
    BY PendingBytes
  <2>3. /\ w.n \in Nodes /\ w.n.off <= Len(w.n.data)
        /\ w.written \in 0 .. s.buffered_bytes_write
        /\ w.flag \in SUBSET {"ERROR", "EOF"}
        /\ w.flag = {} => w.written = s.buffered_bytes_write /\ w.n.refused = n.refused
        /\ w.flag # {} => w.n.refused
    BY <2>1, <2>2, WriteOutcomesGood
  <2> DEFINE fl == (s.flags \cup w.flag) \ {"DIRECTION_WRITE"}
             k  == s.buffered_bytes_write - w.written
  <2>4. /\ fl \in SUBSET Flags
        /\ \A f \in s.flags : f # "DIRECTION_WRITE" => f \in fl
        /\ fl \subseteq s.flags \cup {"ERROR", "EOF"}
    BY <2>3 DEF Streams, Flags
  <2>5. k \in Nat /\ k <= s.buffered_bytes_write /\ (w.flag = {} => k = 0)
    BY <2>3 DEF Streams
  <2>6. o = Outcome([s EXCEPT !.flags = fl, !.buffered_bytes_write = k],
                    w.n, IF w.flag = {} THEN 0 ELSE EOF)
    BY <2>1
  <2> HIDE DEF fl, k
  <2>7. /\ o.s \in Streams
        /\ o.s.flags = fl /\ o.s.buffered_bytes_write = k
        /\ o.s.buffer = s.buffer /\ o.s.buffer_size = s.buffer_size
        /\ o.s.open = s.open
        /\ o.s.buffered_bytes_read = s.buffered_bytes_read
        /\ o.s.buffered_bytes_read_offset = s.buffered_bytes_read_offset
        /\ o.n = w.n /\ o.ret = IF w.flag = {} THEN 0 ELSE EOF
    BY <2>4, <2>5, <2>6 DEF Outcome, Streams
  <2>8. InBounds(o.s)
    <3>1. s.buffered_bytes_write \in Nat /\ s.buffer_size \in Nat
      BY SizesNat DEF Streams
    <3>2. k <= s.buffer_size /\ 0 .. k - 1 \subseteq 0 .. s.buffered_bytes_write - 1
      BY <2>5, <3>1 DEF InBounds
    <3> QED BY <2>7, <3>2 DEF InBounds
  <2>9. UnreadCount(o.s) = UnreadCount(s)
    BY <2>7 DEF UnreadCount
  <2>10. w.flag = {} /\ Directed(s) => Directed(o.s) /\ o.s.buffered_bytes_write = 0
    BY <2>4, <2>5, <2>7, <2>9 DEF Directed, Has
  <2>11. Steady(s, o.s)
    BY <2>4, <2>7 DEF Steady, Has
  <2> QED BY <2>3, <2>7, <2>8, <2>9, <2>10, <2>11 DEF EOF
<1> QED BY <1>1, <1>2, <1>3

\* Flushing the read buffer keeps the counters in bounds, and if it succeeds no
\* byte is left unread.
LEMMA FflushReadGood ==
  ASSUME NEW s, NEW n, Good(s, n), NEW o \in FflushReadUnlocked(s, n)
  PROVE  /\ Good(o.s, o.n) /\ Steady(s, o.s) /\ o.ret \in {0, EOF}
         /\ Ready(s, n) => Ends(s, o) /\ (o.ret = 0 => UnreadCount(o.s) = 0)
<1> USE DEF Good, Ready, Safe, Ends
<1>0. s.buffered_bytes_read \in Nat /\ s.buffered_bytes_read_offset \in Nat
      /\ s.buffered_bytes_read_offset <= s.buffered_bytes_read /\ UnreadCount(s) \in Nat
  BY DEF Streams, InBounds, UnreadCount
<1>1. CASE ~Has(s, "DIRECTION_READ")
  <2>1. o.s = s /\ o.n = n /\ o.ret = 0
    BY <1>1 DEF FflushReadUnlocked, Outcome
  <2>2. Directed(s) => UnreadCount(s) = 0
    BY <1>0, <1>1 DEF Directed
  <2> QED BY <2>1, <2>2 DEF Steady
<1>2. CASE Has(s, "DIRECTION_READ") /\ ~Has(s, "MODE_READ")
  <2>1. o.s = Set(s, {"ERROR"}) /\ o.n = n /\ o.ret = EOF
    BY <1>2 DEF FflushReadUnlocked, Outcome
  <2>2. {"ERROR"} \in SUBSET Flags
    BY DEF Flags
  <2>3. o.s \in Streams /\ SameBuffer(s, o.s) /\ o.s.flags = s.flags \cup {"ERROR"}
    BY <2>1, <2>2, SetClear
  <2>4. InBounds(o.s) /\ UnreadCount(o.s) = UnreadCount(s)
    BY <2>3, SameBufferFacts
  <2>5. Directed(s) => Directed(o.s)
    BY <2>3, <2>4 DEF Directed, Has, SameBuffer
  <2>6. Steady(s, o.s)
    BY <2>3 DEF Steady, SameBuffer, Has
  <2> QED BY <2>1, <2>3, <2>4, <2>5, <2>6 DEF EOF
<1>3. CASE Has(s, "DIRECTION_READ") /\ Has(s, "MODE_READ")
  <2> DEFINE back  == IF n.off < UnreadCount(s) THEN 0 ELSE n.off - UnreadCount(s)
             zeroed == [s EXCEPT !.buffered_bytes_read = 0,
                                 !.buffered_bytes_read_offset = 0]
             reset == Clear(zeroed, {"DIRECTION_READ"})
  <2>1. back \in Nat /\ back <= n.off
    BY <1>0 DEF Nodes
  <2>2. /\ o.s = reset \/ o.s = Set(reset, {"ERROR"})
        /\ o.n = n \/ o.n = [n EXCEPT !.off = back]
        /\ o.ret = 0
    BY <1>3 DEF FflushReadUnlocked, Outcome
  <2>3. /\ zeroed \in Streams /\ zeroed.flags = s.flags
        /\ zeroed.buffer = s.buffer /\ zeroed.buffer_size = s.buffer_size
        /\ zeroed.buffered_bytes_write = s.buffered_bytes_write
        /\ zeroed.buffered_bytes_read = 0 /\ zeroed.buffered_bytes_read_offset = 0
        /\ zeroed.open = s.open
    BY DEF Streams
  <2>4. s.buffer_size \in Nat
    BY SizesNat DEF Streams
  <2> HIDE DEF back, zeroed
  <2>5. InBounds(zeroed) /\ UnreadCount(zeroed) = 0
    BY <2>3, <2>4 DEF InBounds, UnreadCount
  <2>6. {"DIRECTION_READ"} \in SUBSET Flags /\ {"ERROR"} \in SUBSET Flags
    BY DEF Flags
  <2>7. /\ reset \in Streams /\ SameBuffer(zeroed, reset)
        /\ reset.flags = s.flags \ {"DIRECTION_READ"}
    BY <2>3, <2>6, SetClear
  <2> HIDE DEF reset
  <2>8. /\ Set(reset, {"ERROR"}) \in Streams /\ SameBuffer(reset, Set(reset, {"ERROR"}))
        /\ Set(reset, {"ERROR"}).flags = reset.flags \cup {"ERROR"}
    BY <2>6, <2>7, SetClear
  <2>9. /\ o.s \in Streams /\ SameBuffer(zeroed, o.s)
        /\ \A f \in s.flags : f # "DIRECTION_READ" => f \in o.s.flags
        /\ o.s.flags \subseteq s.flags \cup {"ERROR"}
    BY <2>2, <2>7, <2>8 DEF SameBuffer
  <2>10. InBounds(o.s) /\ UnreadCount(o.s) = 0
    BY <2>5, <2>9, SameBufferFacts
  <2>11. Steady(s, o.s)
    BY <2>3, <2>9 DEF Steady, SameBuffer, Has
  <2>12. Directed(s) => Directed(o.s)
    BY <2>3, <2>9, <2>10 DEF Directed, Has, SameBuffer
  <2>13. o.n \in Nodes /\ o.n.off <= Len(o.n.data) /\ o.n.refused = n.refused
    BY <2>1, <2>2 DEF Nodes
  <2> QED BY <2>2, <2>10, <2>9, <2>11, <2>12, <2>13
<1> QED BY <1>1, <1>2, <1>3

\* fflush: both directions, one after the other.
LEMMA FflushGood ==
  ASSUME NEW s, NEW n, Good(s, n), NEW o \in FflushUnlocked(s, n)
  PROVE  /\ Good(o.s, o.n) /\ Steady(s, o.s) /\ o.ret \in {0, EOF}
         /\ Ready(s, n) => Ends(s, o)
<1>1. PICK r \in FflushReadUnlocked(s, n) :
        IF r.ret = EOF THEN o = r ELSE o \in FflushWriteUnlocked(r.s, r.n)
  BY DEF FflushUnlocked, Then
<1>2. /\ Good(r.s, r.n) /\ Steady(s, r.s) /\ r.ret \in {0, EOF}
      /\ Ready(s, n) => Ends(s, r)
  BY FflushReadGood
<1>3. CASE r.ret = EOF
  BY <1>1, <1>2, <1>3
<1>4. CASE r.ret # EOF
  <2>1. /\ Good(o.s, o.n) /\ Steady(r.s, o.s) /\ o.ret \in {0, EOF}
        /\ Ready(r.s, r.n) => Ends(r.s, o)
    BY <1>1, <1>2, <1>4, FflushWriteGood
  <2>2. Steady(s, o.s)
    BY <1>2, <2>1 DEF Steady
  <2>3. Ready(s, n) => Ready(r.s, r.n)
    BY <1>2, <1>4 DEF Ends, Safe, Ready
  <2> QED BY <2>1, <2>2, <2>3 DEF Ends
<1> QED BY <1>3, <1>4

\* setvbuf leaves an empty buffer of a size the assumptions allow, or, without
\* memory, the counters of the old one.
LEMMA SetvbufGood ==
  ASSUME NEW s, NEW n, Good(s, n), NEW buf \in {NULL, "user"},
         NEW mode \in {FBF, LBF, NBF},
         NEW size \in UserSizes \cup {0, BUFSIZ}, buf # NULL => size \in UserSizes,
         NEW o \in SetvbufUnlocked(s, n, buf, mode, size)
  PROVE  /\ Good(o.s, o.n) /\ o.s.open = s.open /\ o.ret \in {0, EOF}
         /\ o.ret = EOF => o.n.refused /\ Steady(s, o.s)
         /\ o.ret = 0 => /\ Has(o.s, "BUFFER_SET") /\ o.s.buffer_size > 0
                         /\ Directed(o.s) /\ o.n = n
<1> USE DEF Good
<1> DEFINE frees == /\ s.buffer_mode # NBF
                    /\ s.memory # "null"
                    /\ Has(s, "OWNER_LIBRARY")
           bytes == IF buf # NULL THEN size
                    ELSE IF size = 0 THEN BUFSIZ
                    ELSE IF size < BUFSIZMIN THEN BUFSIZMIN ELSE size
           fl    == (s.flags \ {"OWNER_LIBRARY"}) \cup {"BUFFER_SET"}
                    \cup (IF buf # NULL THEN {} ELSE {"OWNER_LIBRARY"})
           done  == [s EXCEPT !.memory = "live", !.buffer = NewBuffer(bytes),
                              !.buffer_size = bytes, !.buffer_mode = mode,
                              !.buffered_bytes_read = 0,
                              !.buffered_bytes_read_offset = 0,
                              !.buffered_bytes_write = 0, !.flags = fl]
           mem   == IF frees THEN "freed" ELSE s.memory
           lost  == [s EXCEPT !.memory = mem]
<1>1. \/ o = Outcome(done, n, 0)
      \/ o = Outcome(lost, Refuse(n), -1)
  BY DEF SetvbufUnlocked
<1>2. CASE o = Outcome(done, n, 0)
  <2>1. bytes \in BufferSizes /\ bytes \in Nat /\ bytes > 0
    BY StreamAssumption DEF BufferSizes
  <2>2. fl \in SUBSET Flags /\ "BUFFER_SET" \in fl
    BY DEF Streams, Flags
  <2> HIDE DEF bytes, fl
  <2>3. NewBuffer(bytes) \in Buffers /\ DOMAIN NewBuffer(bytes) = 0 .. bytes - 1
    <3>1. NewBuffer(bytes) \in [0 .. bytes - 1 -> Cells]
      BY DEF NewBuffer, Cells
    <3> QED BY <2>1, <3>1, BuffersIntro
  <2> DEFINE cells == NewBuffer(bytes)
  <2> HIDE DEF cells
  <2>4. /\ o.s \in Streams /\ o.s.flags = fl /\ o.s.open = s.open
        /\ o.s.buffer = cells /\ o.s.buffer_size = bytes
        /\ o.s.buffered_bytes_write = 0 /\ o.s.buffered_bytes_read = 0
        /\ o.s.buffered_bytes_read_offset = 0
        /\ o.n = n /\ o.ret = 0
    BY <1>2, <2>1, <2>2, <2>3 DEF Streams, Outcome, cells
  <2>5. InBounds(o.s)
    BY <2>1, <2>3, <2>4 DEF InBounds, cells
  <2>6. Directed(o.s)
    BY <2>4 DEF Directed, UnreadCount
  <2> QED BY <2>1, <2>2, <2>4, <2>5, <2>6 DEF Has, EOF
<1>3. CASE o = Outcome(lost, Refuse(n), -1)
  <2>1. mem \in {"null", "live", "freed"}
    BY DEF Streams
  <2> HIDE DEF mem
  <2>2. /\ o.s \in Streams /\ SameBuffer(s, o.s) /\ o.s.flags = s.flags
        /\ o.n = Refuse(n) /\ o.ret = -1
    BY <1>3, <2>1 DEF Streams, Outcome, SameBuffer
  <2>3. o.n \in Nodes /\ o.n.off <= Len(o.n.data) /\ o.n.refused
    BY <2>2 DEF Refuse, Nodes
  <2>4. InBounds(o.s)
    BY <2>2, SameBufferFacts
  <2>5. Steady(s, o.s)
    BY <2>2 DEF Steady, SameBuffer, Has
  <2> QED BY <2>2, <2>3, <2>4, <2>5 DEF EOF, SameBuffer
<1> QED BY <1>1, <1>2, <1>3

Sized(s) == Has(s, "BUFFER_SET") => s.buffer_size > 0

\* What the functions that start with a buffer may rely on.
LEMMA EnsureBufferGood ==
  ASSUME NEW s, NEW n, Ready(s, n), Sized(s), NEW o \in EnsureBuffer(s, n)
  PROVE  /\ Safe(o.s, o.n) /\ Sized(o.s) /\ o.s.open = s.open
         /\ o.ret \in {0, EOF} /\ (o.n.refused => o.ret = EOF)
         /\ o.ret = 0 => Ready(o.s, o.n) /\ o.s.buffer_size > 0
                         /\ Has(o.s, "BUFFER_SET")
<1>1. CASE Has(s, "BUFFER_SET")
  <2>1. o.s = s /\ o.n = n /\ o.ret = 0
    BY <1>1 DEF EnsureBuffer, Outcome
  <2> QED BY <1>1, <2>1 DEF Ready, Safe, Sized
<1>2. CASE ~Has(s, "BUFFER_SET")
  <2>1. o \in SetvbufUnlocked(s, n, NULL, FBF, BUFSIZ)
    BY <1>2 DEF EnsureBuffer, SetdefbufUnlocked
  <2>2. /\ Good(o.s, o.n) /\ o.s.open = s.open /\ o.ret \in {0, EOF}
        /\ o.ret = EOF => o.n.refused /\ Steady(s, o.s)
        /\ o.ret = 0 => /\ Has(o.s, "BUFFER_SET") /\ o.s.buffer_size > 0
                        /\ Directed(o.s) /\ o.n = n
    BY <2>1, SetvbufGood DEF Ready
  <2> QED BY <1>2, <2>2 DEF Ready, Safe, Sized, Steady, EOF
<1> QED BY <1>1, <1>2

\* A read call returns -1, nothing, or bytes that are in the file.
LEMMA ReadOutcomesGood ==
  ASSUME NEW s, NEW n \in Nodes, n.off <= Len(n.data), NEW most \in Nat,
         NEW r \in ReadOutcomes(s, n, most)
  PROVE  /\ r.n \in Nodes /\ r.n.off <= Len(r.n.data)
         /\ r.read \in -1 .. most /\ n.off + r.read <= Len(n.data)
         /\ r.n.refused => n.refused \/ r.read = -1
<1> DEFINE there == IF Available(n) < most THEN Available(n) ELSE most
<1>1. n.off \in Nat /\ Len(n.data) \in Nat
  BY DEF Nodes
<1>2. Available(n) \in Nat /\ n.off + Available(n) = Len(n.data)
  BY <1>1 DEF Available
<1>3. there \in Nat /\ there <= most /\ n.off + there <= Len(n.data)
  BY <1>1, <1>2
<1> HIDE DEF there
<1>4. PICK k \in {there, -1} \cup 1 .. there :
        r = [n |-> IF k > 0 THEN [n EXCEPT !.off = @ + k]
                   ELSE IF k = -1 /\ Has(s, "MODE_READ") THEN Refuse(n) ELSE n,
             read |-> k]
  BY DEF ReadOutcomes, there
<1>5. k \in -1 .. most /\ n.off + k <= Len(n.data)
  BY <1>1, <1>3, <1>4
<1>6. CASE k > 0
  <2>1. r.n = [n EXCEPT !.off = n.off + k] /\ r.read = k /\ n.off + k \in Nat
    BY <1>1, <1>4, <1>5, <1>6
  <2> QED BY <1>5, <2>1 DEF Nodes
<1>7. CASE ~(k > 0)
  <2>1. (r.n = n \/ (k = -1 /\ r.n = Refuse(n))) /\ r.read = k
    BY <1>4, <1>7, Zenon
  <2> QED BY <1>5, <2>1 DEF Nodes, Refuse
<1> QED BY <1>6, <1>7

\* A filled buffer holds at least one byte of the file, after the unget space.
LEMMA FillBufferGood ==
  ASSUME NEW s, NEW n, Ready(s, n), s.buffered_bytes_write = 0,
         UnreadCount(s) = 0, Has(s, "DIRECTION_READ"),
         NEW o \in FillBuffer(s, n)
  PROVE  /\ Ends(s, o) /\ o.ret \in {0, EOF}
         /\ o.ret = 0 => /\ o.s.buffered_bytes_write = 0
                         /\ o.s.buffered_bytes_read_offset < o.s.buffered_bytes_read
                         /\ Has(o.s, "DIRECTION_READ")
<1> USE DEF Ready, Good
<1> DEFINE space == IF UNGET >= s.buffer_size THEN 0 ELSE UNGET
<1>1. s.buffer_size \in Nat /\ UNGET \in Nat
  BY SizesNat, StreamAssumption DEF Streams
<1>2. space \in Nat /\ s.buffer_size - space \in Nat
  BY <1>1
<1> DEFINE most == s.buffer_size - space
           Filled(r) ==
             [s EXCEPT !.buffer = [i \in DOMAIN @ |->
                                     IF i >= space /\ i < space + r.read
                                     THEN n.data[n.off + i - space + 1] ELSE @[i]],
                       !.buffered_bytes_read = space + r.read,
                       !.buffered_bytes_read_offset = space]
<1>3. PICK r \in ReadOutcomes(s, n, most) :
        o = CASE r.read = 0  -> Outcome(Set(s, {"EOF"}), r.n, EOF)
              [] r.read = -1 -> Outcome(Set(s, {"ERROR"}), r.n, EOF)
              [] OTHER       -> Outcome(Filled(r), r.n, 0)
  BY DEF FillBuffer
<1> HIDE DEF space
<1>4. /\ r.n \in Nodes /\ r.n.off <= Len(r.n.data)
      /\ r.read \in -1 .. most /\ n.off + r.read <= Len(n.data)
      /\ r.n.refused => r.read = -1
  BY <1>2, <1>3, ReadOutcomesGood
<1>5. CASE r.read \in {0, -1}
  <2>1. PICK fl \in {"EOF", "ERROR"} : o.s = Set(s, {fl}) /\ o.n = r.n /\ o.ret = EOF
    BY <1>3, <1>5 DEF Outcome
  <2>2. {fl} \in SUBSET Flags
    BY <2>1 DEF Flags
  <2>3. o.s \in Streams /\ SameBuffer(s, o.s) /\ o.s.flags = s.flags \cup {fl}
    BY <2>1, <2>2, SetClear
  <2>4. InBounds(o.s) /\ UnreadCount(o.s) = UnreadCount(s)
    BY <2>3, SameBufferFacts
  <2>5. Directed(o.s) /\ Steady(s, o.s)
    BY <2>1, <2>3, <2>4 DEF Directed, Steady, SameBuffer, Has
  <2> QED BY <1>4, <2>1, <2>3, <2>4, <2>5 DEF Ends, Safe, EOF
<1>6. CASE r.read \notin {0, -1}
  <2>1. o.s = Filled(r) /\ o.n = r.n /\ o.ret = 0
    BY <1>3, <1>6 DEF Outcome
  <2> DEFINE buf == [i \in DOMAIN s.buffer |->
                       IF i >= space /\ i < space + r.read
                       THEN n.data[n.off + i - space + 1] ELSE s.buffer[i]]
             br  == space + r.read
  <2>2. r.read \in Nat /\ r.read > 0 /\ br \in Nat /\ br <= s.buffer_size /\ space < br
    BY <1>1, <1>2, <1>4, <1>6
  <2>3. DOMAIN s.buffer = 0 .. s.buffer_size - 1
    BY DEF InBounds
  <2>4. s.buffer \in [0 .. s.buffer_size - 1 -> Cells]
    BY <2>3, BuffersElim DEF Streams
  <2>5. \A i \in space .. br - 1 : n.data[n.off + i - space + 1] \in Bytes
    <3>1. n.data \in Seq(Bytes) /\ n.off \in Nat
      BY DEF Nodes
    <3>2. \A i \in space .. br - 1 : n.off + i - space + 1 \in 1 .. Len(n.data)
      <4> DEFINE len == Len(n.data)  off == n.off  got == r.read
      <4>1. len \in Nat /\ off \in Nat /\ got \in Nat /\ off + got <= len
            /\ br = space + got
        BY <1>4, <2>2, <3>1
      <4> HIDE DEF len, off, got, br
      <4>2. \A i \in space .. br - 1 : off + i - space + 1 \in 1 .. len
        BY <1>2, <4>1
      <4> QED BY <4>2 DEF len, off
    <3> QED BY <3>1, <3>2
  <2>6. /\ buf \in [0 .. s.buffer_size - 1 -> Cells]
        /\ \A i \in space .. br - 1 : buf[i] \in Bytes
    <3>1. ASSUME NEW i \in 0 .. s.buffer_size - 1
          PROVE  /\ i \in DOMAIN s.buffer /\ buf[i] \in Cells
                 /\ i \in space .. br - 1 => buf[i] \in Bytes
      <4>1. buf[i] = IF i >= space /\ i < br
                     THEN n.data[n.off + i - space + 1] ELSE s.buffer[i]
        BY <2>3
      <4>2. s.buffer[i] \in Cells
        BY <2>4
      <4>3. i >= space /\ i < br => i \in space .. br - 1
        BY <1>1, <1>2, <2>2
      <4> HIDE DEF buf, br
      <4> QED BY <1>2, <2>2, <2>3, <2>5, <4>1, <4>2, <4>3 DEF Cells
    <3>2. space .. br - 1 \subseteq 0 .. s.buffer_size - 1
      BY <1>1, <1>2, <2>2
    <3>3. DOMAIN buf = 0 .. s.buffer_size - 1
      BY <2>3
    <3>4. buf = [i \in 0 .. s.buffer_size - 1 |-> buf[i]]
      BY <2>3
    <3> HIDE DEF buf, br
    <3> QED BY <3>1, <3>2, <3>4
  <2>7. buf \in Buffers
    BY <2>6, BuffersIntro DEF Streams
  <2>8. o.s = [s EXCEPT !.buffer = buf, !.buffered_bytes_read = br,
                        !.buffered_bytes_read_offset = space]
    BY <2>1
  <2> HIDE DEF buf, br
  <2>9. /\ o.s \in Streams /\ o.s.flags = s.flags /\ o.s.open = s.open
        /\ o.s.buffer = buf /\ o.s.buffer_size = s.buffer_size
        /\ o.s.buffered_bytes_write = s.buffered_bytes_write
        /\ o.s.buffered_bytes_read = br /\ o.s.buffered_bytes_read_offset = space
    BY <1>2, <2>2, <2>7, <2>8 DEF Streams
  <2>10. InBounds(o.s)
    BY <1>1, <1>2, <2>2, <2>6, <2>9 DEF InBounds
  <2>11. Directed(o.s) /\ Steady(s, o.s)
    BY <2>9 DEF Directed, Steady, Has
  <2>12. ~r.n.refused
    BY <1>4, <1>6
  <2> QED BY <1>4, <2>1, <2>2, <2>9, <2>10, <2>11, <2>12 DEF Ends, Safe, EOF, Has
<1> QED BY <1>5, <1>6

\* A byte is taken from a buffer that holds one.
LEMMA TakeByteGood ==
  ASSUME NEW s, NEW n, Ready(s, n), s.buffered_bytes_write = 0,
         Has(s, "DIRECTION_READ"),
         s.buffered_bytes_read_offset < s.buffered_bytes_read,
         NEW o \in TakeByte(s, n)
  PROVE  Ends(s, o) /\ o.ret \in Bytes
<1> USE DEF Ready, Good
<1> DEFINE k == s.buffered_bytes_read_offset + 1
<1>1. /\ s.buffered_bytes_read \in Nat /\ s.buffered_bytes_read_offset \in Nat
      /\ k \in Nat /\ k <= s.buffered_bytes_read
      /\ s.buffered_bytes_read_offset
           \in s.buffered_bytes_read_offset .. s.buffered_bytes_read - 1
  BY DEF Streams
<1>2. o.ret \in Bytes
  <2>1. o.ret = s.buffer[s.buffered_bytes_read_offset]
    BY DEF TakeByte, Outcome
  <2> QED BY <1>1, <2>1 DEF InBounds
<1>3. o.n = n /\ o.s = [s EXCEPT !.buffered_bytes_read_offset = k]
  BY DEF TakeByte, Outcome
<1> HIDE DEF k
<1>4. /\ o.s \in Streams /\ o.s.flags = s.flags /\ o.s.open = s.open
      /\ o.s.buffer = s.buffer /\ o.s.buffer_size = s.buffer_size
      /\ o.s.buffered_bytes_write = 0
      /\ o.s.buffered_bytes_read = s.buffered_bytes_read
      /\ o.s.buffered_bytes_read_offset = k
  BY <1>1, <1>3 DEF Streams
<1>5. InBounds(o.s)
  <2>1. k .. s.buffered_bytes_read - 1
          \subseteq s.buffered_bytes_read_offset .. s.buffered_bytes_read - 1
    BY <1>1 DEF k
  <2> QED BY <1>1, <1>4, <2>1 DEF InBounds
<1>6. Directed(o.s) /\ Steady(s, o.s)
  BY <1>4 DEF Directed, Steady, Has
<1> QED BY <1>2, <1>3, <1>4, <1>5, <1>6 DEF Ends, Safe

\* fgetc on a buffered stream returns a byte of the buffer, or EOF.
LEMMA FgetcGood ==
  ASSUME NEW s, NEW n, Ready(s, n), NEW o \in FgetcBuffered(s, n)
  PROVE  Ends(s, o) /\ o.ret \in Bytes \cup {EOF}
<1>1. PICK w \in FflushWriteUnlocked(s, n) :
        IF w.ret = EOF THEN o = w ELSE o \in ReadByte(w.s, w.n)
  BY DEF FgetcBuffered, Then
<1>2. /\ Ends(s, w) /\ w.ret \in {0, EOF}
      /\ w.ret = 0 => w.s.buffered_bytes_write = 0
  BY FflushWriteGood DEF Ready
<1>3. CASE w.ret = EOF
  BY <1>1, <1>2, <1>3
<1>4. CASE w.ret # EOF
  <2> DEFINE c == Clear(w.s, {"DIRECTION_WRITE"})
             t == Set(c, {"DIRECTION_READ"})
  <2>1. Ready(w.s, w.n) /\ w.s.buffered_bytes_write = 0
    BY <1>2, <1>4 DEF Ends, Safe, Ready
  <2>2. {"DIRECTION_WRITE"} \in SUBSET Flags /\ {"DIRECTION_READ"} \in SUBSET Flags
    BY DEF Flags
  <2>3. /\ c \in Streams /\ SameBuffer(w.s, c)
        /\ c.flags = w.s.flags \ {"DIRECTION_WRITE"}
    BY <2>1, <2>2, SetClear DEF Ready, Good
  <2> HIDE DEF c
  <2>4. /\ t \in Streams /\ SameBuffer(c, t)
        /\ t.flags = c.flags \cup {"DIRECTION_READ"}
    BY <2>2, <2>3, SetClear
  <2>5. o \in IF t.buffered_bytes_read_offset >= t.buffered_bytes_read
              THEN Then(FillBuffer(t, w.n), TakeByte) ELSE TakeByte(t, w.n)
    BY <1>1, <1>4 DEF ReadByte, c
  <2> HIDE DEF t
  <2>6. InBounds(t) /\ t.buffered_bytes_write = 0 /\ Steady(w.s, t)
    BY <2>1, <2>3, <2>4, SameBufferFacts DEF Ready, Good, SameBuffer, Steady, Has
  <2>7. Ready(t, w.n) /\ Has(t, "DIRECTION_READ")
    BY <2>1, <2>4, <2>6 DEF Ready, Good, Directed, Has
  <2>8. /\ t.buffered_bytes_read \in Nat /\ t.buffered_bytes_read_offset \in Nat
        /\ t.buffered_bytes_read_offset <= t.buffered_bytes_read
    BY <2>4, <2>6 DEF Streams, InBounds
  <2>9. ASSUME Ends(t, o)
        PROVE  Ends(s, o)
    BY <1>2, <2>6, <2>9 DEF Ends, Steady
  <2>10. CASE t.buffered_bytes_read_offset < t.buffered_bytes_read
    <3>1. o \in TakeByte(t, w.n)
      <4>1. ~(t.buffered_bytes_read_offset >= t.buffered_bytes_read)
        BY <2>8, <2>10
      <4> QED BY <2>5, <4>1, Zenon
    <3> QED BY <2>6, <2>7, <2>9, <2>10, <3>1, TakeByteGood
  <2>11. CASE t.buffered_bytes_read_offset = t.buffered_bytes_read
    <3>1. PICK f \in FillBuffer(t, w.n) :
            IF f.ret = EOF THEN o = f ELSE o \in TakeByte(f.s, f.n)
      <4>1. o \in Then(FillBuffer(t, w.n), TakeByte)
        BY <2>5, <2>8, <2>11
      <4> QED BY <4>1 DEF Then
    <3>2. UnreadCount(t) = 0
      BY <2>8, <2>11 DEF UnreadCount
    <3>3. /\ Ends(t, f) /\ f.ret \in {0, EOF}
          /\ f.ret = 0 => /\ f.s.buffered_bytes_write = 0
                          /\ f.s.buffered_bytes_read_offset < f.s.buffered_bytes_read
                          /\ Has(f.s, "DIRECTION_READ")
      BY <2>6, <2>7, <3>2, FillBufferGood
    <3>4. CASE f.ret = EOF
      BY <2>9, <3>1, <3>3, <3>4
    <3>5. CASE f.ret # EOF
      <4>1. Ready(f.s, f.n)
        BY <3>3, <3>5 DEF Ends, Safe, Ready
      <4>2. Ends(f.s, o) /\ o.ret \in Bytes
        BY <3>1, <3>3, <3>5, <4>1, TakeByteGood
      <4>3. Ends(t, o)
        BY <3>3, <4>2 DEF Ends, Steady
      <4> QED BY <2>9, <4>2, <4>3
    <3> QED BY <3>4, <3>5
  <2> QED BY <2>8, <2>10, <2>11
<1> QED BY <1>3, <1>4

\* A byte stored behind the pending ones, with room for it.
LEMMA StoreByteGood ==
  ASSUME NEW s, NEW n, Ready(s, n), UnreadCount(s) = 0,
         s.buffered_bytes_write < s.buffer_size, Has(s, "DIRECTION_WRITE"),
         NEW c \in Bytes
  PROVE  Ready(StoreByte(s, c), n) /\ Steady(s, StoreByte(s, c))
<1> USE DEF Ready, Good
<1> DEFINE at  == s.buffered_bytes_write
           k   == at + 1
           buf == [i \in DOMAIN s.buffer \cup {at} |-> IF i = at THEN c ELSE s.buffer[i]]
           t   == StoreByte(s, c)
<1>1. at \in Nat /\ s.buffer_size \in Nat /\ at \in 0 .. s.buffer_size - 1
      /\ k \in Nat /\ k <= s.buffer_size
  <2>1. at \in Nat /\ s.buffer_size \in Nat
    BY SizesNat DEF Streams
  <2> HIDE DEF at
  <2>2. at < s.buffer_size
    BY DEF at
  <2> QED BY <2>1, <2>2
<1>2. DOMAIN s.buffer = 0 .. s.buffer_size - 1
  BY DEF InBounds
<1>3. s.buffer \in [0 .. s.buffer_size - 1 -> Cells]
  BY <1>2, BuffersElim DEF Streams
<1>4. DOMAIN s.buffer \cup {at} = 0 .. s.buffer_size - 1
  BY <1>1, <1>2
<1>5. t = [s EXCEPT !.buffer = buf, !.buffered_bytes_write = k]
  BY DEF StoreByte
<1>6. buf \in [0 .. s.buffer_size - 1 -> Cells] /\ buf[at] = c
      /\ \A i \in 0 .. s.buffer_size - 1 : i # at => buf[i] = s.buffer[i]
  <2>1. buf = [i \in 0 .. s.buffer_size - 1 |-> IF i = at THEN c ELSE s.buffer[i]]
    BY <1>4
  <2>2. c \in Cells
    BY DEF Cells
  <2> HIDE DEF at, buf
  <2> QED BY <1>1, <1>3, <2>1, <2>2
<1>7. buf \in Buffers
  BY <1>6, BuffersIntro DEF Streams
<1> HIDE DEF buf, k, t
<1>8. /\ t \in Streams /\ t.flags = s.flags /\ t.open = s.open
      /\ t.buffer = buf /\ t.buffer_size = s.buffer_size
      /\ t.buffered_bytes_write = k
      /\ t.buffered_bytes_read = s.buffered_bytes_read
      /\ t.buffered_bytes_read_offset = s.buffered_bytes_read_offset
  BY <1>1, <1>5, <1>7 DEF Streams
<1>9. \A i \in 0 .. k - 1 : buf[i] \in Bytes
  <2>1. \A i \in 0 .. k - 1 : i = at \/ i \in 0 .. at - 1
    BY <1>1 DEF k
  <2>2. \A i \in 0 .. at - 1 : s.buffer[i] \in Bytes
    BY DEF InBounds
  <2>3. \A i \in 0 .. at - 1 : i \in 0 .. s.buffer_size - 1 /\ i # at
    BY <1>1
  <2> HIDE DEF at
  <2> QED BY <1>6, <2>1, <2>2, <2>3
<1>10. \A i \in s.buffered_bytes_read_offset .. s.buffered_bytes_read - 1 : FALSE
  BY DEF UnreadCount, Streams
<1>11. InBounds(t)
  <2>1. DOMAIN buf = 0 .. s.buffer_size - 1
    BY <1>6
  <2> QED BY <1>1, <1>8, <1>9, <1>10, <2>1 DEF InBounds
<1>12. UnreadCount(t) = 0
  BY <1>8 DEF UnreadCount
<1>13. Directed(t) /\ Steady(s, t)
  BY <1>8, <1>12 DEF Directed, Steady, Has
<1> QED BY <1>8, <1>11, <1>13 DEF t

\* fputc on a buffered stream never stores past the end of the buffer.
LEMMA FputcGood ==
  ASSUME NEW s, NEW n, Ready(s, n), s.buffer_size > 0, NEW c \in Bytes,
         NEW o \in FputcBuffered(s, n, c)
  PROVE  Ends(s, o) /\ o.ret \in Bytes \cup {EOF}
<1>1. PICK m \in Then(FflushReadUnlocked(s, n), MakeRoom) :
        IF m.ret = EOF THEN o = m ELSE o \in WriteByte(m.s, m.n, c)
  BY DEF FputcBuffered, Then
<1>2. PICK r \in FflushReadUnlocked(s, n) :
        IF r.ret = EOF THEN m = r ELSE m \in MakeRoom(r.s, r.n)
  BY DEF Then
<1>3. Ends(s, r) /\ r.ret \in {0, EOF} /\ (r.ret = 0 => UnreadCount(r.s) = 0)
  BY FflushReadGood DEF Ready
<1>4. CASE r.ret = EOF
  BY <1>1, <1>2, <1>3, <1>4
<1>5. CASE r.ret # EOF
  <2>1. Ready(r.s, r.n) /\ UnreadCount(r.s) = 0
        /\ r.s.buffer_size = s.buffer_size
    BY <1>3, <1>5 DEF Ends, Safe, Ready, Steady
  <2>2. s.buffer_size \in Nat /\ r.s.buffered_bytes_write \in Nat
        /\ r.s.buffered_bytes_write <= s.buffer_size
    BY <2>1, SizesNat DEF Ready, Good, Streams, InBounds
  <2>3. /\ Ends(s, m) /\ m.ret \in {0, EOF}
        /\ m.ret = 0 => /\ UnreadCount(m.s) = 0
                        /\ m.s.buffered_bytes_write < m.s.buffer_size
    <3>1. CASE r.s.buffered_bytes_write = r.s.buffer_size
      <4>1. m \in FflushWriteUnlocked(r.s, r.n)
        BY <1>2, <1>5, <3>1 DEF MakeRoom
      <4>2. /\ Ends(r.s, m) /\ m.ret \in {0, EOF}
            /\ UnreadCount(m.s) = 0
            /\ m.ret = 0 => m.s.buffered_bytes_write = 0
        BY <2>1, <4>1, FflushWriteGood DEF Ready
      <4>3. Ends(s, m) /\ m.s.buffer_size = s.buffer_size
        BY <1>3, <4>2 DEF Ends, Steady
      <4> QED BY <2>2, <4>2, <4>3
    <3>2. CASE r.s.buffered_bytes_write # r.s.buffer_size
      <4>1. m.s = r.s /\ m.n = r.n /\ m.ret = 0
        <5>1. m \in MakeRoom(r.s, r.n)
          BY <1>2, <1>5, Zenon
        <5>2. m = Outcome(r.s, r.n, 0)
          BY <3>2, <5>1, Zenon DEF MakeRoom
        <5> QED BY <5>2 DEF Outcome
      <4>2. Ends(s, m)
        BY <1>3, <1>5, <4>1, Zenon DEF Ends
      <4>3. r.s.buffered_bytes_write < r.s.buffer_size
        BY <2>1, <2>2, <3>2
      <4> QED BY <2>1, <4>1, <4>2, <4>3
    <3> QED BY <3>1, <3>2
  <2>4. CASE m.ret = EOF
    BY <1>1, <2>3, <2>4
  <2>5. CASE m.ret # EOF
    <3> DEFINE d == Clear(m.s, {"DIRECTION_READ"})
               t == Set(d, {"DIRECTION_WRITE"})
               u == StoreByte(t, c)
    <3>1. Ready(m.s, m.n) /\ UnreadCount(m.s) = 0
          /\ m.s.buffered_bytes_write < m.s.buffer_size
      BY <2>3, <2>5 DEF Ends, Safe, Ready
    <3>2. {"DIRECTION_WRITE"} \in SUBSET Flags /\ {"DIRECTION_READ"} \in SUBSET Flags
      BY DEF Flags
    <3>3. /\ d \in Streams /\ SameBuffer(m.s, d)
          /\ d.flags = m.s.flags \ {"DIRECTION_READ"}
      BY <3>1, <3>2, SetClear DEF Ready, Good
    <3> HIDE DEF d
    <3>4. /\ t \in Streams /\ SameBuffer(d, t)
          /\ t.flags = d.flags \cup {"DIRECTION_WRITE"}
      BY <3>2, <3>3, SetClear
    <3>5. PICK w \in IF u.buffer_mode = LBF /\ c = NL
                     THEN FflushWriteUnlocked(u, m.n) ELSE {Outcome(u, m.n, 0)} :
            o = Outcome(w.s, w.n, IF w.ret = EOF THEN EOF ELSE c)
      BY <1>1, <2>5 DEF WriteByte, d
    <3> HIDE DEF t
    <3>6. InBounds(t) /\ UnreadCount(t) = 0 /\ Steady(m.s, t)
      BY <3>1, <3>3, <3>4, SameBufferFacts DEF Ready, Good, SameBuffer, Steady, Has
    <3>7. /\ Ready(t, m.n) /\ Has(t, "DIRECTION_WRITE")
          /\ t.buffered_bytes_write < t.buffer_size
      BY <3>1, <3>3, <3>4, <3>6 DEF Ready, Good, Directed, Has, SameBuffer
    <3>8. Ready(u, m.n) /\ Steady(t, u)
      BY <3>6, <3>7, StoreByteGood
    <3> HIDE DEF u
    <3>9. Ends(u, w) /\ w.ret \in {0, EOF}
      <4>1. CASE w \in FflushWriteUnlocked(u, m.n)
        BY <3>8, <4>1, FflushWriteGood DEF Ready
      <4>2. CASE w = Outcome(u, m.n, 0)
        BY <3>8, <4>2 DEF Outcome, Ends, Safe, Ready, Steady
      <4> QED BY <3>5, <4>1, <4>2
    <3>10. Ends(u, o) /\ o.ret \in Bytes \cup {EOF}
      BY <3>5, <3>9 DEF Outcome, Ends
    <3> QED BY <2>3, <3>6, <3>8, <3>10 DEF Ends, Steady
  <2> QED BY <2>4, <2>5
<1> QED BY <1>4, <1>5

\* Reading an unbuffered stream touches only the flags and the offset.
LEMMA FreadDirectGood ==
  ASSUME NEW s, NEW n, Ready(s, n), NEW total \in Nat,
         NEW o \in FreadDirect(s, n, total)
  PROVE  Safe(o.s, o.n) /\ Steady(s, o.s) /\ o.ret \in Seq(Bytes)
<1> USE DEF Ready, Good
<1> DEFINE d     == Set(s, {"DIRECTION_READ"})
           s1    == Clear(d, {"EOF"})
           there == IF Available(n) < total THEN Available(n) ELSE total
           Got(k) == SubSeq(n.data, n.off + 1, n.off + k)
           To(k)  == [n EXCEPT !.off = @ + k]
<1>1. n.off \in Nat /\ n.data \in Seq(Bytes) /\ Len(n.data) \in Nat
  BY DEF Nodes
<1>2. Available(n) \in Nat /\ n.off + Available(n) = Len(n.data)
  BY <1>1 DEF Available
<1>3. there \in Nat /\ n.off + there <= Len(n.data)
  BY <1>1, <1>2
<1>4. ASSUME NEW fs \in SUBSET {"EOF", "ERROR"}, NEW t \in {s, s1}
      PROVE  Set(t, fs) \in Streams /\ InBounds(Set(t, fs)) /\ Directed(Set(t, fs))
             /\ Steady(s, Set(t, fs)) /\ t \in Streams /\ InBounds(t) /\ Directed(t)
             /\ Steady(s, t)
  <2>1. /\ {"DIRECTION_READ"} \in SUBSET Flags /\ {"EOF"} \in SUBSET Flags
        /\ fs \in SUBSET Flags
    BY DEF Flags
  <2>2. d \in Streams /\ SameBuffer(s, d) /\ d.flags = s.flags \cup {"DIRECTION_READ"}
    BY <2>1, SetClear
  <2> HIDE DEF d
  <2>3. s1 \in Streams /\ SameBuffer(d, s1) /\ s1.flags = d.flags \ {"EOF"}
    BY <2>1, <2>2, SetClear
  <2> HIDE DEF s1
  <2>4. /\ t \in Streams /\ SameBuffer(s, t)
        /\ s.flags \ {"EOF"} \subseteq t.flags
        /\ t.flags \subseteq s.flags \cup {"DIRECTION_READ"}
    BY <2>2, <2>3, <1>4 DEF SameBuffer
  <2>5. Set(t, fs) \in Streams /\ SameBuffer(t, Set(t, fs)) /\ Set(t, fs).flags = t.flags \cup fs
    BY <2>1, <2>4, SetClear
  <2>6. ASSUME NEW u, SameBuffer(s, u), s.flags \ {"EOF"} \subseteq u.flags,
               u.flags \subseteq s.flags \cup {"DIRECTION_READ", "EOF", "ERROR"}
        PROVE  InBounds(u) /\ Directed(u) /\ Steady(s, u)
    <3>1. InBounds(u) /\ UnreadCount(u) = UnreadCount(s)
      BY <2>6, SameBufferFacts
    <3> QED BY <2>6, <3>1 DEF Directed, Steady, Has, SameBuffer
  <2>7. SameBuffer(s, Set(t, fs))
    BY <2>4, <2>5 DEF SameBuffer
  <2> QED BY <2>4, <2>5, <2>6, <2>7
<1>5. ASSUME NEW k \in Nat, n.off + k <= Len(n.data)
      PROVE  /\ Got(k) \in Seq(Bytes)
             /\ To(k) \in Nodes /\ To(k).off <= Len(To(k).data)
             /\ To(k).refused = n.refused
             /\ Refuse(To(k)) \in Nodes
             /\ Refuse(To(k)).off <= Len(Refuse(To(k)).data)
             /\ Refuse(To(k)).refused
  <2>1. Got(k) \in Seq(Bytes)
    BY <1>1, <1>5
  <2> DEFINE j == n.off + k
             m == [n EXCEPT !.off = j]
  <2>2. j \in Nat /\ j <= Len(n.data) /\ To(k) = m
    BY <1>1, <1>5
  <2> HIDE DEF j
  <2>3. m \in Nodes /\ m.off <= Len(m.data) /\ m.refused = n.refused
    BY <2>2 DEF Nodes
  <2> HIDE DEF m
  <2>4. /\ Refuse(m) \in Nodes /\ Refuse(m).off <= Len(Refuse(m).data)
        /\ Refuse(m).refused
    BY <2>3 DEF Refuse, Nodes
  <2> QED BY <2>1, <2>2, <2>3, <2>4
<1>6. \/ o = Outcome(Set(s, {"ERROR"}), n, <<>>)
      \/ o = Outcome(IF there < total THEN Set(s1, {"EOF"}) ELSE s1, To(there), Got(there))
      \/ \E k \in 0 .. there :
           o = Outcome(Set(s1, {"ERROR"}), Refuse(To(k)), Got(k))
  <2>1. (IF there < total THEN there ELSE total - 1) <= there
    BY <1>1, <1>2
  <2> QED BY <1>3, <2>1 DEF FreadDirect
<1> HIDE DEF s1, there, Got, To
<1>7. CASE o = Outcome(Set(s, {"ERROR"}), n, <<>>)
  BY <1>4, <1>7 DEF Outcome, Safe
<1>8. CASE o = Outcome(IF there < total THEN Set(s1, {"EOF"}) ELSE s1, To(there), Got(there))
  <2>1. (o.s = Set(s1, {"EOF"}) \/ o.s = s1) /\ o.n = To(there) /\ o.ret = Got(there)
    BY <1>8 DEF Outcome
  <2> QED BY <1>3, <1>4, <1>5, <2>1 DEF Safe
<1>9. ASSUME NEW k \in 0 .. there,
             o = Outcome(Set(s1, {"ERROR"}), Refuse(To(k)), Got(k))
      PROVE  Safe(o.s, o.n) /\ Steady(s, o.s) /\ o.ret \in Seq(Bytes)
  <2>1. k \in Nat /\ n.off + k <= Len(n.data)
    BY <1>1, <1>3
  <2> QED BY <1>4, <1>5, <1>9, <2>1 DEF Outcome, Safe
<1> QED BY <1>6, <1>7, <1>8, <1>9

\* Writing an unbuffered stream, likewise; if the kernel refuses, it is told.
LEMMA FwriteDirectGood ==
  ASSUME NEW s, NEW n, Ready(s, n), NEW data \in Seq(Bytes),
         NEW o \in FwriteDirect(s, n, data)
  PROVE  /\ Safe(o.s, o.n) /\ Steady(s, o.s) /\ o.ret \in Seq(Bytes)
         /\ o.n.refused => o.ret = <<>>
<1> USE DEF Ready, Good
<1> DEFINE d  == Set(s, {"DIRECTION_WRITE"})
           s1 == Clear(d, {"EOF"})
<1>1. ASSUME NEW fs \in SUBSET {"EOF", "ERROR"}, NEW t \in {s, s1}
      PROVE  Set(t, fs) \in Streams /\ InBounds(Set(t, fs)) /\ Directed(Set(t, fs))
             /\ Steady(s, Set(t, fs))
  <2>1. /\ {"DIRECTION_WRITE"} \in SUBSET Flags /\ {"EOF"} \in SUBSET Flags
        /\ fs \in SUBSET Flags
    BY DEF Flags
  <2>2. d \in Streams /\ SameBuffer(s, d) /\ d.flags = s.flags \cup {"DIRECTION_WRITE"}
    BY <2>1, SetClear
  <2> HIDE DEF d
  <2>3. s1 \in Streams /\ SameBuffer(d, s1) /\ s1.flags = d.flags \ {"EOF"}
    BY <2>1, <2>2, SetClear
  <2> HIDE DEF s1
  <2>4. /\ t \in Streams /\ SameBuffer(s, t)
        /\ s.flags \ {"EOF"} \subseteq t.flags
        /\ t.flags \subseteq s.flags \cup {"DIRECTION_WRITE"}
    BY <2>2, <2>3, <1>1 DEF SameBuffer
  <2>5. Set(t, fs) \in Streams /\ SameBuffer(t, Set(t, fs)) /\ Set(t, fs).flags = t.flags \cup fs
    BY <2>1, <2>4, SetClear
  <2>6. SameBuffer(s, Set(t, fs))
    BY <2>4, <2>5 DEF SameBuffer
  <2>7. InBounds(Set(t, fs)) /\ UnreadCount(Set(t, fs)) = UnreadCount(s)
    BY <2>6, SameBufferFacts
  <2>8. Directed(Set(t, fs)) /\ Steady(s, Set(t, fs))
    BY <2>4, <2>5, <2>6, <2>7 DEF Directed, Steady, Has, SameBuffer
  <2> QED BY <2>5, <2>7, <2>8
<1>2. CASE o = Outcome(Set(s, {"ERROR"}), n, <<>>)
  BY <1>1, <1>2 DEF Outcome, Safe
<1>3. ASSUME NEW w \in WriteOutcomes(n, data),
             o = Outcome(Set(s1, w.flag), w.n, IF w.flag = {} THEN data ELSE <<>>)
      PROVE  /\ Safe(o.s, o.n) /\ Steady(s, o.s) /\ o.ret \in Seq(Bytes)
             /\ o.n.refused => o.ret = <<>>
  <2>1. /\ w.n \in Nodes /\ w.n.off <= Len(w.n.data)
        /\ w.flag \in SUBSET {"ERROR", "EOF"}
        /\ w.flag = {} => w.n.refused = n.refused
        /\ w.flag # {} => w.n.refused
    BY <1>3, WriteOutcomesGood
  <2> HIDE DEF s1
  <2> QED BY <1>1, <1>3, <2>1 DEF Outcome, Safe
<1> QED BY <1>2, <1>3 DEF FwriteDirect

\* ungetc: the buffered bytes move to the right end when there is no room before
\* them, and the byte goes where they end on the left.
LEMMA FungetcBufferedGood ==
  ASSUME NEW s, NEW n, Ready(s, n), s.buffered_bytes_write = 0,
         Has(s, "DIRECTION_READ"), NEW c \in Bytes \cup {EOF},
         NEW o \in FungetcBuffered(s, n, c)
  PROVE  Ends(s, o) /\ o.ret \in Bytes \cup {EOF}
<1> USE DEF Ready, Good
<1> DEFINE size  == s.buffer_size
           off   == s.buffered_bytes_read_offset
           br    == s.buffered_bytes_read
           count == UnreadCount(s)
           space == size - count
           mbuf  == [i \in DOMAIN s.buffer |->
                       IF i >= space THEN s.buffer[i - space] ELSE s.buffer[i]]
           moved == [s EXCEPT !.buffer = mbuf,
                              !.buffered_bytes_read_offset = space,
                              !.buffered_bytes_read = space + count]
           room  == IF off = 0 THEN moved ELSE s
           at    == room.buffered_bytes_read_offset - 1
<1>1. size \in Nat /\ off \in Nat /\ br \in Nat /\ off <= br /\ br <= size
      /\ count = br - off /\ count \in Nat /\ space \in Nat
  <2>1. size \in Nat /\ off \in Nat /\ br \in Nat
    BY SizesNat DEF Streams
  <2>2. off <= br /\ br <= size
    BY DEF InBounds
  <2>3. count = br - off
    BY DEF UnreadCount
  <2> HIDE DEF size, off, br, count
  <2> QED BY <2>1, <2>2, <2>3
<1>2. CASE c = EOF \/ (off = 0 /\ space = 0)
  <2>1. o = Outcome(s, n, EOF)
    BY <1>2 DEF FungetcBuffered
  <2> QED BY <2>1 DEF Outcome, Ends, Safe, Steady
<1>3. CASE ~(c = EOF \/ (off = 0 /\ space = 0))
  <2>1. o = Outcome([room EXCEPT !.buffer[at] = c,
                                 !.buffered_bytes_read_offset = at], n, c)
    BY <1>3 DEF FungetcBuffered
  <2>2. c \in Bytes
    BY <1>3
  <2>3. DOMAIN s.buffer = 0 .. size - 1 /\ s.buffer \in [0 .. size - 1 -> Cells]
    <3>1. DOMAIN s.buffer = 0 .. size - 1
      BY DEF InBounds
    <3> QED BY <3>1, BuffersElim DEF Streams
  <2>4. \A i \in off .. br - 1 : s.buffer[i] \in Bytes
    BY DEF InBounds
  <2>5. /\ room \in Streams /\ room.flags = s.flags /\ room.open = s.open
        /\ room.buffer_size = size /\ room.buffered_bytes_write = 0
        /\ room.buffer \in [0 .. size - 1 -> Cells]
        /\ room.buffered_bytes_read_offset \in Nat
        /\ room.buffered_bytes_read_offset > 0
        /\ room.buffered_bytes_read \in Nat
        /\ room.buffered_bytes_read_offset <= room.buffered_bytes_read
        /\ room.buffered_bytes_read <= size
        /\ \A i \in room.buffered_bytes_read_offset .. room.buffered_bytes_read - 1 :
             room.buffer[i] \in Bytes
    <3>1. CASE off # 0
      <4>1. room = s
        BY <3>1
      <4> QED BY <1>1, <2>3, <2>4, <3>1, <4>1
    <3>2. CASE off = 0
      <4>1. /\ count = br /\ space > 0 /\ space + count = size
            /\ room = [s EXCEPT !.buffer = mbuf,
                                !.buffered_bytes_read_offset = space,
                                !.buffered_bytes_read = size]
        <5>1. count = br /\ space > 0 /\ space + count = size
          <6> HIDE DEF size, off, br, count
          <6> QED BY <1>1, <1>3, <3>2
        <5> QED BY <3>2, <5>1
      <4>2. ASSUME NEW i \in 0 .. size - 1
            PROVE  /\ mbuf[i] \in Cells
                   /\ i \in space .. size - 1 => mbuf[i] \in Bytes
        <5>1. mbuf[i] = IF i >= space THEN s.buffer[i - space] ELSE s.buffer[i]
          BY <2>3
        <5>2. CASE i >= space
          <6>1. i - space \in off .. br - 1
            BY <1>1, <3>2, <4>1, <5>2
          <6>2. s.buffer[i - space] \in Bytes
            BY <2>4, <6>1
          <6> QED BY <5>1, <5>2, <6>2 DEF Cells
        <5>3. CASE ~(i >= space)
          <6>1. s.buffer[i] \in Cells
            BY <2>3
          <6>2. i \notin space .. size - 1
            BY <1>1, <5>3
          <6> QED BY <5>1, <5>3, <6>1, <6>2
        <5> QED BY <5>2, <5>3
      <4>3. mbuf = [i \in 0 .. size - 1 |-> mbuf[i]]
        BY <2>3
      <4> HIDE DEF mbuf, space
      <4>4. /\ mbuf \in [0 .. size - 1 -> Cells]
            /\ \A i \in space .. size - 1 : mbuf[i] \in Bytes
        <5>1. space .. size - 1 \subseteq 0 .. size - 1
          BY <1>1
        <5> QED BY <4>2, <4>3, <5>1
      <4>5. mbuf \in Buffers
        BY <4>4, BuffersIntro DEF Streams
      <4> HIDE DEF room
      <4>6. /\ room \in Streams /\ room.flags = s.flags /\ room.open = s.open
            /\ room.buffer_size = size /\ room.buffered_bytes_write = 0
            /\ room.buffer = mbuf /\ room.buffered_bytes_read_offset = space
            /\ room.buffered_bytes_read = size
        BY <1>1, <4>1, <4>5 DEF Streams
      <4> QED BY <1>1, <4>1, <4>4, <4>6
    <3> QED BY <3>1, <3>2
  <2> HIDE DEF room
  <2> DEFINE buf == [room.buffer EXCEPT ![at] = c]
             rbr == room.buffered_bytes_read
  <2>6. at \in Nat /\ at \in 0 .. size - 1 /\ at < rbr /\ rbr <= size /\ rbr \in Nat
        /\ at + 1 = room.buffered_bytes_read_offset
    BY <1>1, <2>5
  <2> HIDE DEF at
  <2>7. /\ buf \in [0 .. size - 1 -> Cells] /\ buf[at] = c
        /\ \A i \in 0 .. size - 1 : i # at => buf[i] = room.buffer[i]
    BY <2>2, <2>5, <2>6 DEF Cells
  <2>8. buf \in Buffers
    BY <2>7, BuffersIntro DEF Streams
  <2>9. o = Outcome([room EXCEPT !.buffer = buf, !.buffered_bytes_read_offset = at], n, c)
    BY <2>1, <2>5 DEF Streams
  <2> HIDE DEF buf, rbr
  <2>10. /\ o.s \in Streams /\ o.s.flags = s.flags /\ o.s.open = s.open
         /\ o.s.buffer_size = size /\ o.s.buffered_bytes_write = 0
         /\ o.s.buffer = buf /\ o.s.buffered_bytes_read = rbr
         /\ o.s.buffered_bytes_read_offset = at /\ o.n = n /\ o.ret = c
    BY <2>5, <2>6, <2>8, <2>9 DEF Streams, Outcome, rbr
  <2>11. \A i \in at .. rbr - 1 : buf[i] \in Bytes
    <3>1. \A i \in at .. rbr - 1 :
            i = at \/ (i # at /\ i \in 0 .. size - 1 /\ i \in at + 1 .. rbr - 1)
      BY <1>1, <2>6
    <3> QED BY <2>2, <2>5, <2>6, <2>7, <3>1 DEF rbr
  <2>12. DOMAIN buf = 0 .. size - 1
    BY <2>7
  <2>13. InBounds(o.s)
    BY <1>1, <2>6, <2>10, <2>11, <2>12 DEF InBounds
  <2>14. Directed(o.s) /\ Steady(s, o.s)
    BY <2>10 DEF Directed, Steady, Has
  <2> QED BY <2>2, <2>10, <2>13, <2>14 DEF Ends, Safe
<1> QED BY <1>2, <1>3

\* __fungetc_unlocked.
LEMMA FungetcGood ==
  ASSUME NEW s, NEW n, Ready(s, n), Sized(s), NEW c \in Bytes \cup {EOF},
         NEW o \in FungetcUnlocked(s, n, c)
  PROVE  /\ Safe(o.s, o.n) /\ Sized(o.s) /\ o.s.open = s.open
         /\ o.ret \in Bytes \cup {EOF}
<1>1. PICK e \in EnsureBuffer(s, n) :
        IF e.ret = EOF THEN o = e ELSE o \in PushBack(e.s, e.n, c)
  BY DEF FungetcUnlocked, Then
<1>2. /\ Safe(e.s, e.n) /\ Sized(e.s) /\ e.s.open = s.open /\ e.ret \in {0, EOF}
      /\ e.ret = 0 => Ready(e.s, e.n) /\ e.s.buffer_size > 0
                      /\ Has(e.s, "BUFFER_SET")
  BY EnsureBufferGood
<1>3. CASE e.ret = EOF
  BY <1>1, <1>2, <1>3
<1>4. CASE e.ret # EOF
  <2>1. Ready(e.s, e.n) /\ Has(e.s, "BUFFER_SET") /\ o \in PushBack(e.s, e.n, c)
    BY <1>1, <1>2, <1>4
  <2>2. SUFFICES Safe(o.s, o.n) /\ Steady(e.s, o.s) /\ o.ret \in Bytes \cup {EOF}
    BY <1>2 DEF Steady, Sized
  <2>3. CASE e.s.buffer_mode = NBF
    <3>1. o.s = Set(e.s, {"ERROR"}) /\ o.n = e.n /\ o.ret = EOF
      BY <2>1, <2>3 DEF PushBack, Outcome
    <3>2. {"ERROR"} \in SUBSET Flags
      BY DEF Flags
    <3>3. o.s \in Streams /\ SameBuffer(e.s, o.s) /\ o.s.flags = e.s.flags \cup {"ERROR"}
      BY <2>1, <3>1, <3>2, SetClear DEF Ready, Good
    <3>4. InBounds(o.s) /\ UnreadCount(o.s) = UnreadCount(e.s)
      BY <2>1, <3>3, SameBufferFacts DEF Ready, Good
    <3>5. Directed(o.s) /\ Steady(e.s, o.s)
      BY <2>1, <3>3, <3>4 DEF Directed, Steady, SameBuffer, Has, Ready
    <3> QED BY <2>1, <3>1, <3>3, <3>4, <3>5 DEF Ready, Safe, Good
  <2>4. CASE e.s.buffer_mode # NBF
    <3>1. PICK w \in FflushWriteUnlocked(e.s, e.n) :
            IF w.ret = EOF THEN o = w
            ELSE o \in FungetcBuffered(
                         Clear(Set(w.s, {"DIRECTION_READ"}), {"EOF"}), w.n, c)
      BY <2>1, <2>4 DEF PushBack, Then
    <3>2. /\ Ends(e.s, w) /\ w.ret \in {0, EOF}
          /\ w.ret = 0 => w.s.buffered_bytes_write = 0
      BY <2>1, FflushWriteGood DEF Ready
    <3>3. CASE w.ret = EOF
      BY <3>1, <3>2, <3>3 DEF Ends
    <3>4. CASE w.ret # EOF
      <4> DEFINE d == Set(w.s, {"DIRECTION_READ"})
                 t == Clear(d, {"EOF"})
      <4>1. Ready(w.s, w.n) /\ w.s.buffered_bytes_write = 0
        BY <3>2, <3>4 DEF Ends, Safe, Ready
      <4>2. {"DIRECTION_READ"} \in SUBSET Flags /\ {"EOF"} \in SUBSET Flags
        BY DEF Flags
      <4>3. /\ d \in Streams /\ SameBuffer(w.s, d)
            /\ d.flags = w.s.flags \cup {"DIRECTION_READ"}
        BY <4>1, <4>2, SetClear DEF Ready, Good
      <4> HIDE DEF d
      <4>4. t \in Streams /\ SameBuffer(d, t) /\ t.flags = d.flags \ {"EOF"}
        BY <4>2, <4>3, SetClear
      <4>5. o \in FungetcBuffered(t, w.n, c)
        BY <3>1, <3>4 DEF d
      <4> HIDE DEF t
      <4>6. InBounds(t) /\ t.buffered_bytes_write = 0 /\ Steady(w.s, t)
        BY <4>1, <4>3, <4>4, SameBufferFacts DEF Ready, Good, SameBuffer, Steady, Has
      <4>7. Ready(t, w.n) /\ Has(t, "DIRECTION_READ")
        BY <4>1, <4>3, <4>4, <4>6 DEF Ready, Good, Directed, Has
      <4>8. Ends(t, o) /\ o.ret \in Bytes \cup {EOF}
        BY <4>5, <4>6, <4>7, FungetcBufferedGood
      <4> QED BY <3>2, <4>6, <4>8 DEF Ends, Steady
    <3> QED BY <3>3, <3>4
  <2> QED BY <2>3, <2>4
<1> QED BY <1>3, <1>4
-----------------------------------------------------------------------------
(* The inductive invariant: between calls the stream is safe, and so it is   *)
(* before every byte of a transfer, because a refusal ends the transfer.     *)

TransferSane ==
  /\ call.done <= call.total
  /\ call.op = "none" => call = Idle
  /\ call.op = "fwrite" /\ call.done < call.total => call.total <= Len(call.data)
  /\ call.done < call.total => ~node.refused /\ Has(stream, "BUFFER_SET")

StreamInv ==
  /\ TypeOK
  /\ Safe(stream, node)
  /\ Sized(stream)
  /\ ~stream.open => node.off = 0
  /\ call # Idle => stream.open
  /\ TransferSane

\* The inductive invariant implies the invariants that TLC checks.
LEMMA InvImplies == StreamInv => TypeOK /\ BufferBounds /\ DirectionSound
BY DEF StreamInv, Safe, Good, BufferBounds, DirectionSound

\* A stream without a buffer is safe over any file.
LEMMA FreshGood ==
  ASSUME NEW t \in Streams, t.buffer = NewBuffer(0), t.buffer_size = 0,
         t.buffered_bytes_write = 0, t.buffered_bytes_read = 0,
         t.buffered_bytes_read_offset = 0, "BUFFER_SET" \notin t.flags,
         NEW n \in Nodes, n.off <= Len(n.data)
  PROVE  Safe(t, n) /\ Sized(t)
<1>1. DOMAIN NewBuffer(0) = 0 .. 0 - 1
  BY DEF NewBuffer
<1>2. InBounds(t)
  BY <1>1 DEF InBounds
<1>3. Directed(t) /\ Sized(t)
  BY DEF Directed, UnreadCount, Sized, Has
<1> QED BY <1>2, <1>3 DEF Safe, Good

\* The missing buffer is one of size 0.
LEMMA NoBuffer == NewBuffer(0) \in Buffers /\ 0 \in BufferSizes
<1>1. 0 \in BufferSizes /\ NewBuffer(0) \in [0 .. 0 - 1 -> Cells]
  BY DEF BufferSizes, NewBuffer, Cells
<1> QED BY <1>1, BuffersIntro

\* The zeroed structure is safe,
LEMMA ClosedGood ==
  ASSUME NEW n \in Nodes, n.off <= Len(n.data)
  PROVE  Safe(Closed, n) /\ Sized(Closed) /\ ~Closed.open
<1>1. Closed \in Streams /\ ~Closed.open
  BY NoBuffer DEF Closed, Streams
<1> QED BY <1>1, FreshGood DEF Closed

\* and so is a structure that fopen has just filled in.
LEMMA OpenedGood ==
  ASSUME NEW fl \in SUBSET Flags, "BUFFER_SET" \notin fl,
         NEW n \in Nodes, n.off <= Len(n.data),
         NEW t, t = [Closed EXCEPT !.open = TRUE, !.flags = fl]
  PROVE  Safe(t, n) /\ Sized(t) /\ t.open
<1>1. t \in Streams /\ t.flags = fl /\ t.open
  BY NoBuffer DEF Closed, Streams
<1> QED BY <1>1, FreshGood DEF Closed

\* The invariant holds initially.
LEMMA InitInv == Init => StreamInv
<1> SUFFICES ASSUME Init PROVE StreamInv
  OBVIOUS
<1>1. /\ node \in Nodes /\ node.off = 0 /\ node.data = <<>> /\ node.off <= Len(node.data)
  BY DEF Init, Nodes
<1>3. Safe(stream, node) /\ Sized(stream) /\ ~stream.open
  BY <1>1, ClosedGood DEF Init
<1>4. call \in Transfers /\ TransferSane
  BY DEF Init, Idle, Transfers, TransferSane
<1>5. ret \in Results
  BY DEF Init, Results, Abstract!Kinds
<1> QED BY <1>1, <1>3, <1>4, <1>5 DEF StreamInv, TypeOK, Safe, Good, Init
-----------------------------------------------------------------------------
(* Every action preserves the invariant.                                    *)

\* A returned value is a result,
LEMMA ReturnType ==
  ASSUME NEW kind \in Abstract!Kinds, NEW v \in Int, Return(kind, v)
  PROVE  ret' \in Results
BY DEF Return, Results

\* and so are returned bytes.
LEMMA ReturnBytes ==
  ASSUME NEW kind \in Abstract!Kinds, NEW v \in Seq(Bytes),
         ret' = [kind |-> kind, val |-> v]
  PROVE  ret' \in Results
<1>1. /\ Len(v) \in Nat /\ \A i \in 1 .. Len(v) : v[i] \in Int
      /\ v = [i \in 1 .. Len(v) |-> v[i]]
  <2>1. Len(v) \in Nat /\ \A i \in 1 .. Len(v) : v[i] \in Bytes
    OBVIOUS
  <2>2. v = [i \in 1 .. Len(v) |-> v[i]]
    OBVIOUS
  <2>3. Bytes \subseteq Int
    BY StreamAssumption
  <2> QED BY <2>1, <2>2, <2>3
<1> DEFINE k == Len(v)
           w == [i \in 1 .. k |-> v[i]]
<1> HIDE DEF k
<1>2. w \in Seq(Int)
  BY <1>1 DEF k
<1>3. v \in Seq(Int)
  BY <1>1, <1>2 DEF k
<1> QED BY <1>3 DEF Results

\* The end of a call that leaves the stream open.
LEMMA CallEnds ==
  ASSUME Safe(stream', node'), Sized(stream'), stream'.open, call' = Idle,
         ret' \in Results
  PROVE  StreamInv'
<1>1. Idle \in Transfers /\ Idle.op = "none" /\ Idle.done = 0 /\ Idle.total = 0
  BY DEF Idle, Transfers
<1>2. TypeOK'
  BY <1>1 DEF TypeOK, Safe, Good
<1>3. TransferSane'
  BY <1>1 DEF TransferSane
<1> QED BY <1>2, <1>3 DEF StreamInv

\* The start of one: a call is only made of a stream that nothing has failed on.
LEMMA CallStarts ==
  ASSUME StreamInv, Calls, "retry" \notin Habits
  PROVE  /\ Ready(stream, node) /\ Sized(stream) /\ stream.open
         /\ call = Idle
BY DEF StreamInv, Calls, Safe, Ready

\* fopen preserves the invariant.
LEMMA FopenInv ==
  ASSUME StreamInv, NEW m \in Opens, Fopen(m) PROVE StreamInv'
<1>1. /\ ParseModeFlags(m) \in SUBSET Flags /\ "BUFFER_SET" \notin ParseModeFlags(m)
  BY DEF ParseModeFlags, Flags
<1>2. node.off = 0 /\ node \in Nodes /\ call = Idle
  BY DEF StreamInv, Fopen, TypeOK
<1>3. node' \in Nodes /\ node'.off = 0
  <2> DEFINE d == IF m \in {"w", "w+"} THEN <<>> ELSE node.data
  <2>1. d \in Seq(Bytes) /\ node' = [node EXCEPT !.data = d, !.refused = FALSE]
    BY <1>2 DEF Fopen, Nodes
  <2> HIDE DEF d
  <2> QED BY <1>2, <2>1 DEF Nodes
<1>4. node'.off <= Len(node'.data)
  BY <1>3 DEF Nodes
<1>5. Safe(stream', node') /\ Sized(stream') /\ stream'.open
  BY <1>1, <1>3, <1>4, OpenedGood DEF Fopen
<1>6. ret' \in Results
  BY ReturnType DEF Fopen, Abstract!Kinds
<1> QED BY <1>2, <1>5, <1>6, CallEnds DEF Fopen

\* A step that keeps the size and the flag keeps their relation.
LEMMA SteadySized ==
  ASSUME NEW s, NEW t, Steady(s, t), Sized(s)
  PROVE  Sized(t) /\ t.open = s.open
BY DEF Steady, Sized

\* fclose preserves it.
LEMMA FcloseInv ==
  ASSUME StreamInv, Fclose PROVE StreamInv'
<1>1. Good(stream, node) /\ Sized(stream) /\ stream.open /\ call = Idle /\ call' = Idle
  BY DEF StreamInv, Fclose, Safe
<1>2. PICK o \in FflushUnlocked(stream, node) :
         \/ stream' = Closed /\ node' = [o.n EXCEPT !.off = 0] /\ Return("close", 0)
         \/ stream' = o.s /\ node' = Refuse(o.n) /\ Return("close", EOF)
  BY DEF Fclose
<1>3. Good(o.s, o.n) /\ Steady(stream, o.s) /\ o.n \in Nodes
  BY <1>1, <1>2, FflushGood DEF Good
<1>4. ASSUME stream' = Closed /\ node' = [o.n EXCEPT !.off = 0]
      PROVE  /\ node' \in Nodes /\ Safe(stream', node') /\ Sized(stream')
             /\ ~stream'.open => node'.off = 0
  <2>1. node' \in Nodes /\ node'.off = 0
    BY <1>3, <1>4 DEF Nodes
  <2>2. node'.off <= Len(node'.data)
    BY <2>1 DEF Nodes
  <2>3. Safe(stream', node') /\ Sized(stream') /\ ~stream'.open
    BY <1>4, <2>1, <2>2, ClosedGood
  <2> QED BY <2>1, <2>3
<1>5. ASSUME stream' = o.s /\ node' = Refuse(o.n)
      PROVE  /\ node' \in Nodes /\ Safe(stream', node') /\ Sized(stream')
             /\ ~stream'.open => node'.off = 0
  <2>1. /\ node' \in Nodes /\ node'.refused
        /\ node'.off = o.n.off /\ node'.data = o.n.data
    BY <1>3, <1>5 DEF Nodes, Refuse
  <2>2. Safe(stream', node')
    BY <1>3, <1>5, <2>1 DEF Safe, Good
  <2>3. Sized(stream') /\ stream'.open
    BY <1>1, <1>3, <1>5, SteadySized
  <2> QED BY <2>1, <2>2, <2>3
<1>6. /\ node' \in Nodes /\ Safe(stream', node') /\ Sized(stream')
      /\ ~stream'.open => node'.off = 0
  BY <1>2, <1>4, <1>5
<1>7. ret' \in Results
  <2>1. 0 \in Int /\ EOF \in Int /\ "close" \in Abstract!Kinds
    BY DEF EOF, Abstract!Kinds
  <2> QED BY <1>2, <2>1, ReturnType
<1>8. Idle \in Transfers /\ Idle.op = "none" /\ Idle.done = 0 /\ Idle.total = 0
  BY DEF Idle, Transfers
<1>10. TransferSane'
  BY <1>1, <1>8 DEF TransferSane
<1> QED BY <1>1, <1>6, <1>7, <1>8, <1>10 DEF StreamInv, TypeOK, Safe, Good

\* fgetc preserves it.
LEMMA FgetcInv ==
  ASSUME StreamInv, Fgetc, "retry" \notin Habits PROVE StreamInv'
<1>1. Ready(stream, node) /\ Sized(stream) /\ stream.open /\ call' = Idle
  BY CallStarts DEF Fgetc
<1>2. PICK e \in EnsureBuffer(stream, node) :
         IF e.ret = EOF
         THEN stream' = e.s /\ node' = e.n /\ Return("got", EOF)
         ELSE IF e.s.buffer_mode = NBF
         THEN \E o \in FreadDirect(e.s, e.n, 1) :
                /\ stream' = o.s /\ node' = o.n
                /\ ret' = [kind |-> "got", val |-> o.ret]
         ELSE \E o \in FgetcBuffered(e.s, e.n) :
                stream' = o.s /\ node' = o.n /\ Return("got", o.ret)
  BY DEF Fgetc
<1>3. /\ Safe(e.s, e.n) /\ Sized(e.s) /\ e.s.open
      /\ e.ret \in {0, EOF}
      /\ e.ret = 0 => Ready(e.s, e.n)
  BY <1>1, EnsureBufferGood
<1>4. "got" \in Abstract!Kinds /\ EOF \in Int /\ Bytes \cup {EOF} \subseteq Int
  BY StreamAssumption DEF Abstract!Kinds, EOF
<1>5. CASE e.ret = EOF
  <2>1. ret' \in Results
    BY <1>2, <1>4, <1>5, ReturnType
  <2> QED BY <1>1, <1>2, <1>3, <1>5, <2>1, CallEnds
<1>6. CASE e.ret # EOF /\ e.s.buffer_mode = NBF
  <2>1. PICK o \in FreadDirect(e.s, e.n, 1) :
          /\ stream' = o.s /\ node' = o.n
          /\ ret' = [kind |-> "got", val |-> o.ret]
    BY <1>2, <1>6
  <2>2. Safe(o.s, o.n) /\ Steady(e.s, o.s) /\ o.ret \in Seq(Bytes)
    BY <1>3, <1>6, FreadDirectGood
  <2>3. ret' \in Results
    BY <1>4, <2>1, <2>2, ReturnBytes
  <2> QED BY <1>1, <1>3, <2>1, <2>2, <2>3, SteadySized, CallEnds
<1>7. CASE e.ret # EOF /\ e.s.buffer_mode # NBF
  <2>1. PICK o \in FgetcBuffered(e.s, e.n) :
          stream' = o.s /\ node' = o.n /\ Return("got", o.ret)
    BY <1>2, <1>7
  <2>2. Ends(e.s, o) /\ o.ret \in Bytes \cup {EOF}
    BY <1>3, <1>7, FgetcGood
  <2>3. ret' \in Results
    BY <1>4, <2>1, <2>2, ReturnType
  <2> QED BY <1>1, <1>3, <2>1, <2>2, <2>3, SteadySized, CallEnds DEF Ends
<1> QED BY <1>5, <1>6, <1>7

\* fputc preserves it.
LEMMA FputcInv ==
  ASSUME StreamInv, NEW c \in Bytes, Fputc(c), "retry" \notin Habits
  PROVE  StreamInv'
<1>1. Ready(stream, node) /\ Sized(stream) /\ stream.open /\ call' = Idle
  BY CallStarts DEF Fputc
<1>2. PICK e \in EnsureBuffer(stream, node) :
         IF e.ret = EOF
         THEN stream' = e.s /\ node' = e.n /\ Return("put", EOF)
         ELSE IF e.s.buffer_mode = NBF
         THEN \E o \in FwriteDirect(e.s, e.n, <<c>>) :
                /\ stream' = o.s /\ node' = o.n
                /\ ret' = [kind |-> "put", val |-> o.ret]
         ELSE \E o \in FputcBuffered(e.s, e.n, c) :
                stream' = o.s /\ node' = o.n /\ Return("put", o.ret)
  BY DEF Fputc
<1>3. /\ Safe(e.s, e.n) /\ Sized(e.s) /\ e.s.open
      /\ e.ret \in {0, EOF}
      /\ e.ret = 0 => Ready(e.s, e.n) /\ e.s.buffer_size > 0
  BY <1>1, EnsureBufferGood
<1>4. "put" \in Abstract!Kinds /\ EOF \in Int /\ Bytes \cup {EOF} \subseteq Int
  BY StreamAssumption DEF Abstract!Kinds, EOF
<1>5. CASE e.ret = EOF
  <2>1. ret' \in Results
    BY <1>2, <1>4, <1>5, ReturnType
  <2> QED BY <1>1, <1>2, <1>3, <1>5, <2>1, CallEnds
<1>6. CASE e.ret # EOF /\ e.s.buffer_mode = NBF
  <2>1. PICK o \in FwriteDirect(e.s, e.n, <<c>>) :
          /\ stream' = o.s /\ node' = o.n
          /\ ret' = [kind |-> "put", val |-> o.ret]
    BY <1>2, <1>6
  <2>2. <<c>> \in Seq(Bytes)
    OBVIOUS
  <2>3. Safe(o.s, o.n) /\ Steady(e.s, o.s) /\ o.ret \in Seq(Bytes)
    BY <1>3, <1>6, <2>2, FwriteDirectGood
  <2>4. ret' \in Results
    BY <1>4, <2>1, <2>3, ReturnBytes
  <2> QED BY <1>1, <1>3, <2>1, <2>3, <2>4, SteadySized, CallEnds
<1>7. CASE e.ret # EOF /\ e.s.buffer_mode # NBF
  <2>1. PICK o \in FputcBuffered(e.s, e.n, c) :
          stream' = o.s /\ node' = o.n /\ Return("put", o.ret)
    BY <1>2, <1>7
  <2>2. Ends(e.s, o) /\ o.ret \in Bytes \cup {EOF}
    BY <1>3, <1>7, FputcGood
  <2>3. ret' \in Results
    BY <1>4, <2>1, <2>2, ReturnType
  <2> QED BY <1>1, <1>3, <2>1, <2>2, <2>3, SteadySized, CallEnds DEF Ends
<1> QED BY <1>5, <1>6, <1>7

\* ungetc preserves it.
LEMMA UngetcInv ==
  ASSUME StreamInv, NEW c \in Bytes \cup {EOF}, Ungetc(c), "retry" \notin Habits
  PROVE  StreamInv'
<1>1. Ready(stream, node) /\ Sized(stream) /\ stream.open /\ call' = Idle
  BY CallStarts DEF Ungetc
<1>2. PICK o \in FungetcUnlocked(stream, node, c) :
        stream' = o.s /\ node' = o.n /\ Return("unget", o.ret)
  BY DEF Ungetc
<1>3. /\ Safe(o.s, o.n) /\ Sized(o.s) /\ o.s.open
      /\ o.ret \in Bytes \cup {EOF}
  BY <1>1, FungetcGood
<1>4. "unget" \in Abstract!Kinds /\ Bytes \cup {EOF} \subseteq Int
  BY StreamAssumption DEF Abstract!Kinds, EOF
<1>5. ret' \in Results
  BY <1>2, <1>3, <1>4, ReturnType
<1> QED BY <1>1, <1>2, <1>3, <1>5, CallEnds

\* fflush preserves it.
LEMMA FflushInv ==
  ASSUME StreamInv, Fflush, "retry" \notin Habits
  PROVE  StreamInv'
<1>1. Ready(stream, node) /\ Sized(stream) /\ stream.open /\ call' = Idle
  BY CallStarts DEF Fflush
<1>2. PICK o \in FflushUnlocked(stream, node) :
        stream' = o.s /\ node' = o.n /\ Return("sync", o.ret)
  BY DEF Fflush
<1>3. Ends(stream, o) /\ o.ret \in {0, EOF}
  BY <1>1, FflushGood DEF Ready
<1>4. "sync" \in Abstract!Kinds /\ {0, EOF} \subseteq Int
  BY DEF Abstract!Kinds, EOF
<1>5. ret' \in Results
  BY <1>2, <1>3, <1>4, ReturnType
<1> QED BY <1>1, <1>2, <1>3, <1>5, SteadySized, CallEnds DEF Ends

\* Moving the offset within the file leaves the buffer alone.
LEMMA MovedGood ==
  ASSUME NEW s, NEW n, Ready(s, n), NEW p \in Nat, p <= Len(n.data),
         NEW m, m = [n EXCEPT !.off = p]
  PROVE  Safe(s, m)
<1>1. m \in Nodes /\ m.off = p /\ m.data = n.data
  BY DEF Ready, Good, Nodes
<1> QED BY <1>1 DEF Ready, Good, Safe

\* fseek preserves it.
LEMMA FseekInv ==
  ASSUME StreamInv, NEW p \in 0 .. MaxFile, Fseek(p), "retry" \notin Habits
  PROVE  StreamInv'
<1>1. Ready(stream, node) /\ Sized(stream) /\ stream.open /\ call' = Idle
  BY CallStarts DEF Fseek
<1>2. p \in Nat /\ p \in Int /\ p <= Len(node.data) /\ stream' = stream
      /\ node' = [node EXCEPT !.off = p] /\ Return("seek", p)
  BY StreamAssumption DEF Fseek
<1>3. Safe(stream', node')
  BY <1>1, <1>2, MovedGood
<1>4. ret' \in Results
  BY <1>2, ReturnType DEF Abstract!Kinds
<1> QED BY <1>1, <1>2, <1>3, <1>4, CallEnds

\* rewind preserves it.
LEMMA RewindInv ==
  ASSUME StreamInv, Rewind, "retry" \notin Habits
  PROVE  StreamInv'
<1>1. Ready(stream, node) /\ Sized(stream) /\ stream.open /\ call' = Idle
  BY CallStarts DEF Rewind
<1>2. 0 <= Len(node.data) /\ stream' = stream
      /\ node' = [node EXCEPT !.off = 0] /\ Return("seek", 0)
  BY <1>1 DEF Rewind, Ready, Good, Nodes
<1>3. Safe(stream', node')
  BY <1>1, <1>2, MovedGood
<1>4. ret' \in Results
  BY <1>2, ReturnType DEF Abstract!Kinds
<1> QED BY <1>1, <1>2, <1>3, <1>4, CallEnds

\* ftell and clearerr preserve it.
LEMMA QueryInv ==
  ASSUME StreamInv, Ftell \/ Clearerr, "retry" \notin Habits
  PROVE  StreamInv'
<1>1. Ready(stream, node) /\ Sized(stream) /\ stream.open /\ call = Idle
  BY CallStarts DEF Ftell, Clearerr
<1>2. stream' = stream /\ node' = node /\ call' = Idle
  BY <1>1 DEF Ftell, Clearerr
<1>3. node.off \in Int
  BY <1>1 DEF Ready, Good, Nodes
<1>4. ret' \in Results
  BY <1>3, ReturnType DEF Ftell, Clearerr, Abstract!Kinds
<1> QED BY <1>1, <1>2, <1>4, CallEnds DEF Ready, Safe

\* setvbuf preserves it.
LEMMA SetvbufInv ==
  ASSUME StreamInv, NEW buf \in {NULL, "user"}, NEW mode \in {FBF, LBF, NBF},
         NEW size \in UserSizes \cup {0}, buf # NULL => size \in UserSizes,
         Setvbuf(buf, mode, size), "retry" \notin Habits
  PROVE  StreamInv'
<1>1. Ready(stream, node) /\ Sized(stream) /\ stream.open /\ call' = Idle
  BY CallStarts DEF Setvbuf
<1>2. PICK o \in SetvbufUnlocked(stream, node, buf, mode, size) :
        stream' = o.s /\ node' = o.n /\ Return("status", o.ret)
  BY DEF Setvbuf
<1>3. /\ Good(o.s, o.n) /\ o.s.open = stream.open /\ o.ret \in {0, EOF}
      /\ o.ret = EOF => o.n.refused /\ Steady(stream, o.s)
      /\ o.ret = 0 => /\ Has(o.s, "BUFFER_SET") /\ o.s.buffer_size > 0
                      /\ Directed(o.s)
  <2>1. size \in UserSizes \cup {0, BUFSIZ} /\ Good(stream, node)
    BY <1>1 DEF Ready
  <2> QED BY <2>1, SetvbufGood
<1>4. Safe(o.s, o.n) /\ Sized(o.s)
  BY <1>1, <1>3 DEF Safe, Sized, Steady
<1>5. "status" \in Abstract!Kinds /\ {0, EOF} \subseteq Int
  BY DEF Abstract!Kinds, EOF
<1>6. ret' \in Results
  BY <1>2, <1>3, <1>5, ReturnType
<1> QED BY <1>1, <1>2, <1>3, <1>4, <1>6, CallEnds

\* The return of fread or fwrite preserves it.
LEMMA TransferEndInv ==
  ASSUME StreamInv, TransferEnd PROVE StreamInv'
<1>1. Safe(stream, node) /\ Sized(stream) /\ call' = Idle /\ call \in Transfers
  BY DEF StreamInv, TypeOK, TransferEnd
<1>2. stream.open
  BY DEF StreamInv, TransferEnd, Idle
<1>3. call.done \div call.size \in Int
  <2>1. call.done \in Int /\ call.size \in Int /\ call.size > 0
    <3>1. call.size \in ElementSizes \cup {1} /\ call.done \in Nat
      BY <1>1 DEF Transfers
    <3>2. ElementSizes \subseteq Nat \ {0}
      BY StreamAssumption
    <3>3. \A z \in ElementSizes \cup {1} : z \in Int /\ z > 0
      BY <3>2
    <3> QED BY <3>1, <3>3
  <2> QED BY <2>1
<1>4. ret' \in Results
  BY <1>3, ReturnType DEF TransferEnd, Abstract!Kinds
<1> QED BY <1>1, <1>2, <1>4, CallEnds DEF TransferEnd

\* A transfer that goes on, or that has just ended.
LEMMA TransferGoes ==
  ASSUME Safe(stream', node'), Sized(stream'), stream'.open, call' \in Transfers,
         ret' \in Results, TransferSane'
  PROVE  StreamInv'
BY DEF StreamInv, TypeOK, Safe, Good

\* A turn of the loop of fread preserves it: a refusal ends the loop.
LEMMA FreadByteInv ==
  ASSUME StreamInv, FreadByte PROVE StreamInv'
<1>1. /\ call \in Transfers /\ call.op = "fread" /\ call.done < call.total
      /\ ~node.refused /\ Has(stream, "BUFFER_SET")
  BY DEF StreamInv, TypeOK, FreadByte, TransferSane
<1>2. Ready(stream, node) /\ Sized(stream)
  BY <1>1 DEF StreamInv, Safe, Ready
<1>3. stream.open
  BY <1>1 DEF StreamInv, Idle
<1>4. PICK o \in FgetcBuffered(stream, node) :
        /\ stream' = o.s /\ node' = o.n
        /\ Return("got", o.ret)
        /\ call' = IF o.ret = EOF THEN [call EXCEPT !.total = call.done]
                   ELSE [call EXCEPT !.done = @ + 1]
  BY DEF FreadByte
<1>5. Ends(stream, o) /\ o.ret \in Bytes \cup {EOF}
  BY <1>2, FgetcGood
<1>6. "got" \in Abstract!Kinds /\ Bytes \cup {EOF} \subseteq Int
  BY StreamAssumption DEF Abstract!Kinds, EOF
<1>7. ret' \in Results
  BY <1>4, <1>5, <1>6, ReturnType
<1>8. Safe(stream', node') /\ Sized(stream') /\ stream'.open
      /\ Has(stream', "BUFFER_SET")
  BY <1>1, <1>2, <1>3, <1>4, <1>5, SteadySized DEF Ends, Steady
<1>9. CASE o.ret = EOF
  <2>1. call' \in Transfers /\ call'.op = "fread" /\ call'.done = call'.total
        /\ call'.done \in Nat
    BY <1>1, <1>4, <1>9 DEF Transfers
  <2>2. TransferSane'
    BY <2>1 DEF TransferSane
  <2> QED BY <1>7, <1>8, <2>1, <2>2, TransferGoes
<1>10. CASE o.ret # EOF
  <2>1. call' \in Transfers /\ call'.op = "fread" /\ call'.done <= call'.total
    BY <1>1, <1>4, <1>10 DEF Transfers
  <2>2. ~node'.refused
    BY <1>4, <1>5, <1>10 DEF Ends
  <2>3. TransferSane'
    BY <1>8, <2>1, <2>2 DEF TransferSane
  <2> QED BY <1>7, <1>8, <2>1, <2>3, TransferGoes
<1> QED BY <1>9, <1>10

\* A turn of the loop of fwrite preserves it, for the same reason.
LEMMA FwriteByteInv ==
  ASSUME StreamInv, FwriteByte PROVE StreamInv'
<1>1. /\ call \in Transfers /\ call.op = "fwrite" /\ call.done < call.total
      /\ call.total <= Len(call.data)
      /\ ~node.refused /\ Has(stream, "BUFFER_SET")
  BY DEF StreamInv, TypeOK, FwriteByte, TransferSane
<1>2. Ready(stream, node) /\ Sized(stream) /\ stream.buffer_size > 0
  BY <1>1 DEF StreamInv, Safe, Ready, Sized
<1>3. stream.open
  BY <1>1 DEF StreamInv, Idle
<1>4. PICK o \in FputcBuffered(stream, node, call.data[call.done + 1]) :
        /\ stream' = o.s /\ node' = o.n
        /\ Return("put", o.ret)
        /\ call' = IF o.ret = EOF THEN [call EXCEPT !.total = call.done]
                   ELSE [call EXCEPT !.done = @ + 1]
  BY DEF FwriteByte
<1>5. call.data[call.done + 1] \in Bytes
  <2>1. call.data \in Seq(Bytes) /\ call.done \in Nat /\ call.total \in Nat
    BY <1>1 DEF Transfers
  <2>2. call.done + 1 \in 1 .. Len(call.data)
    BY <1>1, <2>1
  <2> QED BY <2>1, <2>2
<1>6. Ends(stream, o) /\ o.ret \in Bytes \cup {EOF}
  BY <1>2, <1>4, <1>5, FputcGood
<1>7. "put" \in Abstract!Kinds /\ Bytes \cup {EOF} \subseteq Int
  BY StreamAssumption DEF Abstract!Kinds, EOF
<1>8. ret' \in Results
  BY <1>4, <1>6, <1>7, ReturnType
<1>9. Safe(stream', node') /\ Sized(stream') /\ stream'.open
      /\ Has(stream', "BUFFER_SET")
  BY <1>1, <1>2, <1>3, <1>4, <1>6, SteadySized DEF Ends, Steady
<1>10. CASE o.ret = EOF
  <2>1. call' \in Transfers /\ call'.op = "fwrite" /\ call'.done = call'.total
        /\ call'.done \in Nat
    BY <1>1, <1>4, <1>10 DEF Transfers
  <2>2. TransferSane'
    BY <2>1 DEF TransferSane
  <2> QED BY <1>8, <1>9, <2>1, <2>2, TransferGoes
<1>11. CASE o.ret # EOF
  <2>1. /\ call' \in Transfers /\ call'.op = "fwrite" /\ call'.done <= call'.total
        /\ call'.total = call.total /\ call'.data = call.data
    BY <1>1, <1>4, <1>11 DEF Transfers
  <2>2. ~node'.refused
    BY <1>4, <1>6, <1>11 DEF Ends
  <2>3. TransferSane'
    BY <1>1, <1>9, <2>1, <2>2 DEF TransferSane
  <2> QED BY <1>8, <1>9, <2>1, <2>3, TransferGoes
<1> QED BY <1>10, <1>11

\* The records that FreadBegin and FwriteBegin start a transfer with.
LEMMA TransferType ==
  ASSUME NEW size \in ElementSizes, NEW total \in Nat, NEW done \in Nat,
         NEW op \in {"fread", "fwrite"}, NEW data \in Seq(Bytes),
         NEW t, t = [op |-> op, size |-> size, done |-> done, total |-> total,
                     data |-> data]
  PROVE  /\ t \in Transfers /\ t.op = op /\ t.done = done /\ t.total = total
         /\ t.data = data
<1>1. size \in ElementSizes \cup {1} /\ op \in {"none", "fread", "fwrite"}
  OBVIOUS
<1> QED BY <1>1 DEF Transfers

\* The same for a transfer that carries no data.
LEMMA TransferEmpty ==
  ASSUME NEW size \in ElementSizes, NEW total \in Nat, NEW done \in Nat,
         NEW op \in {"fread", "fwrite"},
         NEW t, t = [op |-> op, size |-> size, done |-> done, total |-> total,
                     data |-> <<>>]
  PROVE  t \in Transfers /\ t.op = op /\ t.done = done /\ t.total = total
<1> DEFINE none == <<>>
<1>1. none \in Seq(Bytes) /\ t = [op |-> op, size |-> size, done |-> done,
                                 total |-> total, data |-> none]
  OBVIOUS
<1> HIDE DEF none
<1> QED BY <1>1, TransferType

\* Refusing the wrong direction only sets the error indicator.
LEMMA ErrorGood ==
  ASSUME NEW s, NEW n, Ready(s, n)
  PROVE  Safe(Set(s, {"ERROR"}), n) /\ Steady(s, Set(s, {"ERROR"}))
<1> DEFINE t == Set(s, {"ERROR"})
<1>1. {"ERROR"} \in SUBSET Flags
  BY DEF Flags
<1>2. t \in Streams /\ SameBuffer(s, t) /\ t.flags = s.flags \cup {"ERROR"}
  BY <1>1, SetClear DEF Ready, Good
<1> HIDE DEF t
<1>3. InBounds(t) /\ UnreadCount(t) = UnreadCount(s)
  BY <1>2, SameBufferFacts DEF Ready, Good
<1>4. Directed(t) /\ Steady(s, t)
  BY <1>2, <1>3 DEF Directed, Steady, SameBuffer, Has, Ready
<1> QED BY <1>2, <1>3, <1>4 DEF Ready, Safe, Good, t

\* The start of fread preserves it.
LEMMA FreadBeginInv ==
  ASSUME StreamInv, NEW size \in ElementSizes, NEW nmemb \in Lengths,
         FreadBegin(size, nmemb), "retry" \notin Habits
  PROVE  StreamInv'
<1>1. Ready(stream, node) /\ Sized(stream) /\ stream.open /\ call = Idle
  BY CallStarts DEF FreadBegin
<1>2. /\ "got" \in Abstract!Kinds /\ "status" \in Abstract!Kinds
      /\ EOF \in Int /\ 0 \in Int
  BY DEF Abstract!Kinds, EOF
<1>3. size * nmemb \in Nat
  BY StreamAssumption
<1>4. CASE ~Has(stream, "MODE_READ")
  <2>1. stream' = Set(stream, {"ERROR"}) /\ node' = node /\ call' = Idle
        /\ Return("got", EOF)
    BY <1>1, <1>4 DEF FreadBegin
  <2>2. Safe(stream', node') /\ Steady(stream, stream')
    BY <1>1, <2>1, ErrorGood
  <2>3. ret' \in Results
    BY <1>2, <2>1, ReturnType
  <2> QED BY <1>1, <2>1, <2>2, <2>3, SteadySized, CallEnds
<1>5. CASE Has(stream, "MODE_READ")
  <2>1. PICK e \in EnsureBuffer(stream, node) :
          IF e.ret = EOF
          THEN stream' = e.s /\ node' = e.n /\ Return("got", EOF) /\ UNCHANGED call
          ELSE IF e.s.buffer_mode = NBF
          THEN \E o \in FreadDirect(e.s, e.n, size * nmemb) :
                 /\ stream' = o.s /\ node' = o.n
                 /\ ret' = [kind |-> "got", val |-> o.ret]
                 /\ call' = [Idle EXCEPT !.op = "fread", !.size = size,
                                !.done = Len(o.ret), !.total = Len(o.ret)]
          ELSE /\ stream' = e.s /\ node' = e.n
               /\ call' = [Idle EXCEPT !.op = "fread", !.size = size,
                                       !.total = size * nmemb]
               /\ Return("status", 0)
    BY <1>5 DEF FreadBegin
  <2>2. /\ Safe(e.s, e.n) /\ Sized(e.s) /\ e.s.open
        /\ e.ret \in {0, EOF}
        /\ e.ret = 0 => Ready(e.s, e.n) /\ Has(e.s, "BUFFER_SET")
    BY <1>1, EnsureBufferGood
  <2>3. CASE e.ret = EOF
    <3>1. ret' \in Results
      BY <1>2, <2>1, <2>3, ReturnType
    <3> QED BY <1>1, <2>1, <2>2, <2>3, <3>1, CallEnds
  <2>4. CASE e.ret # EOF /\ e.s.buffer_mode = NBF
    <3>1. PICK o \in FreadDirect(e.s, e.n, size * nmemb) :
            /\ stream' = o.s /\ node' = o.n
            /\ ret' = [kind |-> "got", val |-> o.ret]
            /\ call' = [Idle EXCEPT !.op = "fread", !.size = size,
                           !.done = Len(o.ret), !.total = Len(o.ret)]
      BY <2>1, <2>4
    <3>2. Safe(o.s, o.n) /\ Steady(e.s, o.s) /\ o.ret \in Seq(Bytes)
      BY <1>3, <2>2, <2>4, FreadDirectGood
    <3>3. ret' \in Results
      BY <1>2, <3>1, <3>2, ReturnBytes
    <3>4. Len(o.ret) \in Nat
      BY <3>2
    <3>5. /\ call' \in Transfers /\ call'.op = "fread"
          /\ call'.done = call'.total /\ call'.done \in Nat
      <4>1. call' = [op |-> "fread", size |-> size, done |-> Len(o.ret),
                     total |-> Len(o.ret), data |-> <<>>]
        BY <3>1 DEF Idle
      <4> QED BY <3>4, <4>1, TransferEmpty
    <3>6. TransferSane'
      BY <3>5 DEF TransferSane
    <3> QED BY <2>2, <3>1, <3>2, <3>3, <3>5, <3>6, SteadySized, TransferGoes
  <2>5. CASE e.ret # EOF /\ e.s.buffer_mode # NBF
    <3>1. /\ stream' = e.s /\ node' = e.n /\ Return("status", 0)
          /\ call' = [Idle EXCEPT !.op = "fread", !.size = size,
                                  !.total = size * nmemb]
      BY <2>1, <2>5
    <3>2. ret' \in Results
      BY <1>2, <3>1, ReturnType
    <3>3. /\ call' \in Transfers /\ call'.op = "fread"
          /\ call'.done = 0 /\ call'.total \in Nat
      <4>1. call' = [op |-> "fread", size |-> size, done |-> 0,
                     total |-> size * nmemb, data |-> <<>>]
        BY <3>1 DEF Idle
      <4> QED BY <1>3, <4>1, TransferEmpty
    <3>4. TransferSane'
      BY <2>2, <2>5, <3>1, <3>3 DEF TransferSane, Ready
    <3> QED BY <2>2, <3>1, <3>2, <3>3, <3>4, TransferGoes
  <2> QED BY <2>3, <2>4, <2>5
<1> QED BY <1>4, <1>5

\* The start of fwrite preserves it.
LEMMA FwriteBeginInv ==
  ASSUME StreamInv, NEW size \in ElementSizes, NEW data \in Seq(Bytes),
         FwriteBegin(size, data), "retry" \notin Habits
  PROVE  StreamInv'
<1>1. Ready(stream, node) /\ Sized(stream) /\ stream.open /\ call = Idle
  BY CallStarts DEF FwriteBegin
<1>2. /\ "put" \in Abstract!Kinds /\ "status" \in Abstract!Kinds
      /\ EOF \in Int /\ 0 \in Int
  BY DEF Abstract!Kinds, EOF
<1>3. Len(data) \in Nat
  OBVIOUS
<1>4. CASE ~Has(stream, "MODE_WRITE")
  <2>1. stream' = Set(stream, {"ERROR"}) /\ node' = node /\ call' = Idle
        /\ Return("put", EOF)
    BY <1>1, <1>4 DEF FwriteBegin
  <2>2. Safe(stream', node') /\ Steady(stream, stream')
    BY <1>1, <2>1, ErrorGood
  <2>3. ret' \in Results
    BY <1>2, <2>1, ReturnType
  <2> QED BY <1>1, <2>1, <2>2, <2>3, SteadySized, CallEnds
<1>5. CASE Has(stream, "MODE_WRITE")
  <2>1. PICK e \in EnsureBuffer(stream, node) :
          IF e.ret = EOF
          THEN stream' = e.s /\ node' = e.n /\ Return("put", EOF) /\ UNCHANGED call
          ELSE IF e.s.buffer_mode = NBF
          THEN \E o \in FwriteDirect(e.s, e.n, data) :
                 /\ stream' = o.s /\ node' = o.n
                 /\ ret' = [kind |-> "put", val |-> o.ret]
                 /\ call' = IF o.ret = <<>> THEN call
                            ELSE [Idle EXCEPT !.op = "fwrite", !.size = size,
                                    !.done = Len(data), !.total = Len(data)]
          ELSE /\ stream' = e.s /\ node' = e.n
               /\ call' = [Idle EXCEPT !.op = "fwrite", !.size = size,
                                       !.total = Len(data), !.data = data]
               /\ Return("status", 0)
    BY <1>5 DEF FwriteBegin
  <2>2. /\ Safe(e.s, e.n) /\ Sized(e.s) /\ e.s.open
        /\ e.ret \in {0, EOF}
        /\ e.ret = 0 => Ready(e.s, e.n) /\ Has(e.s, "BUFFER_SET")
    BY <1>1, EnsureBufferGood
  <2>3. CASE e.ret = EOF
    <3>1. ret' \in Results
      BY <1>2, <2>1, <2>3, ReturnType
    <3> QED BY <1>1, <2>1, <2>2, <2>3, <3>1, CallEnds
  <2>4. CASE e.ret # EOF /\ e.s.buffer_mode = NBF
    <3>1. PICK o \in FwriteDirect(e.s, e.n, data) :
            /\ stream' = o.s /\ node' = o.n
            /\ ret' = [kind |-> "put", val |-> o.ret]
            /\ call' = IF o.ret = <<>> THEN call
                       ELSE [Idle EXCEPT !.op = "fwrite", !.size = size,
                               !.done = Len(data), !.total = Len(data)]
      BY <2>1, <2>4
    <3>2. Safe(o.s, o.n) /\ Steady(e.s, o.s) /\ o.ret \in Seq(Bytes)
      BY <2>2, <2>4, FwriteDirectGood
    <3>3. ret' \in Results
      BY <1>2, <3>1, <3>2, ReturnBytes
    <3>4. CASE o.ret = <<>>
      BY <1>1, <2>2, <3>1, <3>2, <3>3, <3>4, SteadySized, CallEnds
    <3>5. CASE o.ret # <<>>
      <4>1. call' = [op |-> "fwrite", size |-> size, done |-> Len(data),
                     total |-> Len(data), data |-> <<>>]
        BY <3>1, <3>5 DEF Idle
      <4>3. /\ call' \in Transfers /\ call'.op = "fwrite"
            /\ call'.done = call'.total /\ call'.done \in Nat
        BY <1>3, <4>1, TransferEmpty
      <4>4. TransferSane'
        BY <4>3 DEF TransferSane
      <4> QED BY <2>2, <3>1, <3>2, <3>3, <4>3, <4>4, SteadySized, TransferGoes
    <3> QED BY <3>4, <3>5
  <2>5. CASE e.ret # EOF /\ e.s.buffer_mode # NBF
    <3>1. /\ stream' = e.s /\ node' = e.n /\ Return("status", 0)
          /\ call' = [Idle EXCEPT !.op = "fwrite", !.size = size,
                                  !.total = Len(data), !.data = data]
      BY <2>1, <2>5
    <3>2. ret' \in Results
      BY <1>2, <3>1, ReturnType
    <3>3. /\ call' \in Transfers /\ call'.op = "fwrite"
          /\ call'.done = 0 /\ call'.total = Len(data) /\ call'.data = data
      <4>1. call' = [op |-> "fwrite", size |-> size, done |-> 0,
                     total |-> Len(data), data |-> data]
        BY <3>1 DEF Idle
      <4>2. 0 \in Nat
        OBVIOUS
      <4> QED BY <1>3, <4>1, <4>2, TransferType
    <3>4. TransferSane'
      BY <1>3, <2>2, <2>5, <3>1, <3>3 DEF TransferSane, Ready
    <3> QED BY <2>2, <3>1, <3>2, <3>3, <3>4, TransferGoes
  <2> QED BY <2>3, <2>4, <2>5
<1> QED BY <1>4, <1>5

\* Every step preserves the invariant.
LEMMA NextInv ==
  ASSUME StreamInv, [Next]_vars, "retry" \notin Habits
  PROVE  StreamInv'
<1>1. CASE \E m \in Opens : Fopen(m)
  BY <1>1, FopenInv
<1>2. CASE Fclose
  BY <1>2, FcloseInv
<1>3. CASE Fgetc
  BY <1>3, FgetcInv
<1>4. CASE \E c \in Bytes : Fputc(c)
  BY <1>4, FputcInv
<1>5. CASE \E size \in ElementSizes, nmemb \in Lengths : FreadBegin(size, nmemb)
  BY <1>5, FreadBeginInv
<1>6. CASE FreadByte
  BY <1>6, FreadByteInv
<1>7. CASE \E size \in ElementSizes, nmemb \in Lengths :
             \E data \in [1 .. size * nmemb -> Bytes] : FwriteBegin(size, data)
  <2>1. PICK size \in ElementSizes, nmemb \in Lengths :
          \E data \in [1 .. size * nmemb -> Bytes] : FwriteBegin(size, data)
    BY <1>7
  <2>2. PICK data \in [1 .. size * nmemb -> Bytes] : FwriteBegin(size, data)
    BY <2>1
  <2>3. size * nmemb \in Nat
    BY StreamAssumption
  <2>4. data \in Seq(Bytes)
    BY <2>3
  <2> QED BY <2>2, <2>4, FwriteBeginInv
<1>8. CASE FwriteByte
  BY <1>8, FwriteByteInv
<1>9. CASE TransferEnd
  BY <1>9, TransferEndInv
<1>10. CASE \E c \in Bytes \cup {EOF} : Ungetc(c)
  BY <1>10, UngetcInv
<1>11. CASE Fflush
  BY <1>11, FflushInv
<1>12. CASE \E p \in 0 .. MaxFile : Fseek(p)
  BY <1>12, FseekInv
<1>13. CASE Ftell \/ Clearerr
  BY <1>13, QueryInv
<1>14. CASE Rewind
  BY <1>14, RewindInv
<1>15. CASE \E mode \in {FBF, LBF, NBF}, size \in UserSizes :
              Setvbuf("user", mode, size)
  <2>1. PICK mode \in {FBF, LBF, NBF}, size \in UserSizes :
          Setvbuf("user", mode, size)
    BY <1>15
  <2>2. "user" \in {NULL, "user"} /\ size \in UserSizes \cup {0}
    OBVIOUS
  <2> QED BY <2>1, <2>2, SetvbufInv
<1>16. CASE \E mode \in {FBF, LBF, NBF}, size \in UserSizes \cup {0} :
              Setvbuf(NULL, mode, size)
  BY <1>16, SetvbufInv
<1>17. CASE UNCHANGED vars
  BY <1>17 DEF vars, StreamInv, TypeOK, TransferSane
<1> QED BY <1>1, <1>2, <1>3, <1>4, <1>5, <1>6, <1>7, <1>8, <1>9, <1>10, <1>11,
           <1>12, <1>13, <1>14, <1>15, <1>16, <1>17 DEF Next
-----------------------------------------------------------------------------
\* The inductive invariant holds in every reachable state.
THEOREM StreamInvariant ==
  ASSUME "retry" \notin Habits
  PROVE  Spec => []StreamInv
<1>1. Init => StreamInv
  BY InitInv
<1>2. StreamInv /\ [Next]_vars => StreamInv'
  BY NextInv
<1> QED BY <1>1, <1>2, PTL DEF Spec

\* The state always has its shape; in particular no byte that nobody wrote into
\* the buffer is ever written to the file, whatever the
\* sizes, the modes and the failures of the kernel, as long as a client stops
\* using a stream on which a call has failed.
THEOREM TypeCorrect ==
  ASSUME "retry" \notin Habits
  PROVE  Spec => []TypeOK
BY StreamInvariant, InvImplies, PTL

\* The counters that fputc, fgetc and ungetc index the buffer with never leave
\* it, for every buffer size and every sequence of calls, partial transfers and
\* failures included, under the same condition on the client.
THEOREM BoundsHold ==
  ASSUME "retry" \notin Habits
  PROVE  Spec => []BufferBounds
BY StreamInvariant, InvImplies, PTL

\* Bytes are only buffered in the direction the flags record, and never in both
\* directions, so that fflush and fclose find them (__fflush_unlocked).
THEOREM DirectionHolds ==
  ASSUME "retry" \notin Habits
  PROVE  Spec => []DirectionSound
BY StreamInvariant, InvImplies, PTL
-----------------------------------------------------------------------------
(* What the functions keep besides: the file of a stream that may not be    *)
(* written, the mark that explains an EOF, and no completed line.           *)

\* MODE_WRITE is set by fopen only, and without it the file stays as it is.
Kept(s, n, o) ==
  /\ Has(o.s, "MODE_WRITE") <=> Has(s, "MODE_WRITE")
  /\ ~Has(s, "MODE_WRITE") => o.n.data = n.data

\* The flags say why there is nothing to return.
Marked(s, n) ==
  \/ Has(s, "ERROR")
  \/ Has(s, "EOF") /\ (Available(n) = 0 \/ s.buffered_bytes_write > 0)

\* The flags of a stream once it is marked.
Marking(s) == {s.flags \cup {"EOF"}, s.flags \cup {"ERROR"}}

\* Only a stream that may be written has written bytes, and no line-buffered
\* one has a newline among them.
Lined(s, n) ==
  /\ Has(s, "DIRECTION_WRITE") => Has(s, "MODE_WRITE")
  /\ s.buffer_mode = LBF /\ ~n.refused =>
       \A i \in 0 .. s.buffered_bytes_write - 1 : s.buffer[i] # NL

\* A stream whose write flags and written bytes are those of another.
LEMMA LinedSame ==
  ASSUME NEW s, NEW n, NEW t, NEW m, SameBuffer(s, t), Lined(s, n),
         n.refused => m.refused,
         Has(t, "DIRECTION_WRITE") => Has(s, "DIRECTION_WRITE"),
         Has(s, "MODE_WRITE") => Has(t, "MODE_WRITE")
  PROVE  Lined(t, m)
BY DEF Lined, SameBuffer

\* The same, when nothing is pending.
LEMMA LinedEmpty ==
  ASSUME NEW t, NEW m, t.buffered_bytes_write = 0,
         Has(t, "DIRECTION_WRITE") => Has(t, "MODE_WRITE")
  PROVE  Lined(t, m)
BY DEF Lined

\* Flushing the write buffer,
LEMMA FflushWriteKept ==
  ASSUME NEW s, NEW n, Good(s, n), NEW o \in FflushWriteUnlocked(s, n)
  PROVE  /\ Kept(s, n, o) /\ (o.ret = EOF => Marked(o.s, o.n))
         /\ Lined(s, n) => Lined(o.s, o.n)
         /\ o.s.buffer_mode = s.buffer_mode
         /\ Has(o.s, "DIRECTION_WRITE") => Has(s, "DIRECTION_WRITE")
<1> USE DEF Good
<1>1. CASE ~Has(s, "DIRECTION_WRITE")
  <2>1. o.s = s /\ o.n = n /\ o.ret = 0
    BY <1>1 DEF FflushWriteUnlocked, Outcome
  <2> QED BY <2>1 DEF Kept, EOF
<1>2. CASE Has(s, "DIRECTION_WRITE") /\ ~Has(s, "MODE_WRITE")
  <2>1. o.s = Set(s, {"ERROR"}) /\ o.n = n /\ o.ret = EOF
    BY <1>2 DEF FflushWriteUnlocked, Outcome
  <2>2. {"ERROR"} \in SUBSET Flags
    BY DEF Flags
  <2>3. o.s \in Streams /\ SameBuffer(s, o.s) /\ o.s.flags = s.flags \cup {"ERROR"}
    BY <2>1, <2>2, SetClear
  <2>4. ~Lined(s, n)
    BY <1>2 DEF Lined
  <2> QED BY <1>2, <2>1, <2>3, <2>4 DEF Kept, Marked, Has, SameBuffer
<1>3. CASE Has(s, "DIRECTION_WRITE") /\ Has(s, "MODE_WRITE")
  <2>1. PICK w \in WriteOutcomes(n, Pending(s)) :
          o = Outcome([s EXCEPT !.flags = (@ \cup w.flag) \ {"DIRECTION_WRITE"},
                                !.buffered_bytes_write = @ - w.written],
                      w.n, IF w.flag = {} THEN 0 ELSE EOF)
    BY <1>3, Zenon DEF FflushWriteUnlocked
  <2>2. Pending(s) \in Seq(Bytes) /\ Len(Pending(s)) = s.buffered_bytes_write
    BY PendingBytes
  <2>3. /\ w.flag \in SUBSET {"ERROR", "EOF"}
        /\ w.flag = {} => w.written = s.buffered_bytes_write
        /\ w.flag # {} => w.n.refused /\ w.written < s.buffered_bytes_write
        /\ w.written \in Nat
    BY <2>1, <2>2, WriteOutcomesGood
  <2> DEFINE fl == (s.flags \cup w.flag) \ {"DIRECTION_WRITE"}
             k  == s.buffered_bytes_write - w.written
  <2>4. /\ "MODE_WRITE" \in fl /\ "DIRECTION_WRITE" \notin fl
        /\ w.flag # {} => ("EOF" \in fl \/ "ERROR" \in fl) /\ k > 0
        /\ w.flag = {} => k = 0
    BY <1>3, <2>3 DEF Streams, Has
  <2>5. o = Outcome([s EXCEPT !.flags = fl, !.buffered_bytes_write = k],
                    w.n, IF w.flag = {} THEN 0 ELSE EOF)
    BY <2>1
  <2> HIDE DEF fl, k
  <2>6. /\ o.s.flags = fl /\ o.s.buffered_bytes_write = k
        /\ o.s.buffer_mode = s.buffer_mode
        /\ o.n = w.n /\ o.ret = IF w.flag = {} THEN 0 ELSE EOF
    BY <2>5 DEF Outcome, Streams
  <2>7. Lined(o.s, o.n)
    <3>1. CASE w.flag = {}
      BY <2>4, <2>6, <3>1, LinedEmpty DEF Has
    <3>2. CASE w.flag # {}
      BY <2>3, <2>4, <2>6, <3>2 DEF Lined, Has
    <3> QED BY <3>1, <3>2
  <2> QED BY <1>3, <2>4, <2>6, <2>7 DEF Kept, Marked, Has, EOF
<1> QED BY <1>1, <1>2, <1>3

\* and the read buffer, which has no part in it.
LEMMA FflushReadKept ==
  ASSUME NEW s, NEW n, Good(s, n), NEW o \in FflushReadUnlocked(s, n)
  PROVE  /\ Kept(s, n, o) /\ (o.ret = EOF => Marked(o.s, o.n))
         /\ Lined(s, n) => Lined(o.s, o.n)
         /\ o.s.buffer_mode = s.buffer_mode
<1> USE DEF Good
<1>1. CASE ~Has(s, "DIRECTION_READ")
  <2>1. o.s = s /\ o.n = n /\ o.ret = 0
    BY <1>1 DEF FflushReadUnlocked, Outcome
  <2> QED BY <2>1 DEF Kept, EOF
<1>2. CASE Has(s, "DIRECTION_READ") /\ ~Has(s, "MODE_READ")
  <2>1. o.s = Set(s, {"ERROR"}) /\ o.n = n /\ o.ret = EOF
    BY <1>2 DEF FflushReadUnlocked, Outcome
  <2>2. {"ERROR"} \in SUBSET Flags
    BY DEF Flags
  <2>3. o.s \in Streams /\ SameBuffer(s, o.s) /\ o.s.flags = s.flags \cup {"ERROR"}
    BY <2>1, <2>2, SetClear
  <2>4. Lined(s, n) => Lined(o.s, o.n)
    BY <2>1, <2>3, LinedSame DEF Has
  <2> QED BY <2>1, <2>3, <2>4 DEF Kept, Marked, Has, SameBuffer
<1>3. CASE Has(s, "DIRECTION_READ") /\ Has(s, "MODE_READ")
  <2> DEFINE back  == IF n.off < UnreadCount(s) THEN 0 ELSE n.off - UnreadCount(s)
             zeroed == [s EXCEPT !.buffered_bytes_read = 0,
                                 !.buffered_bytes_read_offset = 0]
             reset == Clear(zeroed, {"DIRECTION_READ"})
  <2>1. /\ o.s = reset \/ o.s = Set(reset, {"ERROR"})
        /\ o.n = n \/ o.n = [n EXCEPT !.off = back]
        /\ o.ret = 0
    BY <1>3 DEF FflushReadUnlocked, Outcome
  <2>2. /\ zeroed \in Streams /\ zeroed.flags = s.flags
        /\ zeroed.buffer = s.buffer
        /\ zeroed.buffer_mode = s.buffer_mode
        /\ zeroed.buffered_bytes_write = s.buffered_bytes_write
    BY DEF Streams
  <2> HIDE DEF back, zeroed
  <2>3. {"DIRECTION_READ"} \in SUBSET Flags /\ {"ERROR"} \in SUBSET Flags
    BY DEF Flags
  <2>4. /\ reset \in Streams /\ SameBuffer(zeroed, reset)
        /\ reset.flags = s.flags \ {"DIRECTION_READ"}
    BY <2>2, <2>3, SetClear
  <2> HIDE DEF reset
  <2>5. /\ SameBuffer(reset, Set(reset, {"ERROR"}))
        /\ Set(reset, {"ERROR"}).flags = reset.flags \cup {"ERROR"}
    BY <2>3, <2>4, SetClear
  <2>6. /\ SameBuffer(zeroed, o.s)
        /\ Has(o.s, "MODE_WRITE") <=> Has(s, "MODE_WRITE")
        /\ Has(o.s, "DIRECTION_WRITE") <=> Has(s, "DIRECTION_WRITE")
    BY <2>1, <2>4, <2>5 DEF SameBuffer, Has
  <2>7. o.n.data = n.data /\ o.n.refused = n.refused
    BY <2>1 DEF Nodes
  <2>8. Lined(s, n) => Lined(o.s, o.n)
    BY <2>2, <2>6, <2>7 DEF Lined, SameBuffer
  <2>9. o.ret # EOF
    BY <2>1 DEF EOF
  <2> QED BY <2>2, <2>6, <2>7, <2>8, <2>9 DEF Kept, SameBuffer
<1> QED BY <1>1, <1>2, <1>3

\* fflush,
LEMMA FflushKept ==
  ASSUME NEW s, NEW n, Good(s, n), NEW o \in FflushUnlocked(s, n)
  PROVE  Kept(s, n, o) /\ (Lined(s, n) => Lined(o.s, o.n))
<1>1. PICK r \in FflushReadUnlocked(s, n) :
        IF r.ret = EOF THEN o = r ELSE o \in FflushWriteUnlocked(r.s, r.n)
  BY DEF FflushUnlocked, Then
<1>2. Good(r.s, r.n) /\ Kept(s, n, r) /\ (Lined(s, n) => Lined(r.s, r.n))
  BY FflushReadGood, FflushReadKept
<1>3. CASE r.ret = EOF
  BY <1>1, <1>2, <1>3
<1>4. CASE r.ret # EOF
  <2>1. Kept(r.s, r.n, o) /\ (Lined(r.s, r.n) => Lined(o.s, o.n))
    BY <1>1, <1>2, <1>4, FflushWriteKept
  <2> QED BY <1>2, <2>1 DEF Kept
<1> QED BY <1>3, <1>4

\* setvbuf,
LEMMA SetvbufKept ==
  ASSUME NEW s, NEW n, Good(s, n), NEW buf \in {NULL, "user"}, NEW mode, NEW size,
         NEW o \in SetvbufUnlocked(s, n, buf, mode, size)
  PROVE  /\ Kept(s, n, o)
         /\ Lined(s, n) => Lined(o.s, o.n)
         /\ "alloc" \notin Faults => o.ret = 0
<1> USE DEF Good
<1> DEFINE frees == /\ s.buffer_mode # NBF
                    /\ s.memory # "null"
                    /\ Has(s, "OWNER_LIBRARY")
           bytes == IF buf # NULL THEN size
                    ELSE IF size = 0 THEN BUFSIZ
                    ELSE IF size < BUFSIZMIN THEN BUFSIZMIN ELSE size
           flags == (s.flags \ {"OWNER_LIBRARY"}) \cup {"BUFFER_SET"}
                    \cup (IF buf # NULL THEN {} ELSE {"OWNER_LIBRARY"})
           done  == [s EXCEPT !.memory = "live", !.buffer = NewBuffer(bytes),
                              !.buffer_size = bytes, !.buffer_mode = mode,
                              !.buffered_bytes_read = 0,
                              !.buffered_bytes_read_offset = 0,
                              !.buffered_bytes_write = 0, !.flags = flags]
           lost  == [s EXCEPT !.memory = IF frees THEN "freed" ELSE @]
<1>1. \/ o = Outcome(done, n, 0)
      \/ "alloc" \in Faults /\ o = Outcome(lost, Refuse(n), -1)
  BY DEF SetvbufUnlocked
<1>2. CASE o = Outcome(done, n, 0)
  <2>1. /\ o.n = n /\ o.ret = 0 /\ o.s.buffered_bytes_write = 0
        /\ o.s.flags = flags
    BY <1>2 DEF Outcome, Streams
  <2>2. /\ "MODE_WRITE" \in flags <=> "MODE_WRITE" \in s.flags
        /\ "DIRECTION_WRITE" \in flags <=> "DIRECTION_WRITE" \in s.flags
    OBVIOUS
  <2> HIDE DEF flags
  <2>3. Lined(s, n) => Lined(o.s, o.n)
    BY <2>1, <2>2, LinedEmpty DEF Lined, Has
  <2> QED BY <2>1, <2>2, <2>3 DEF Kept, Has
<1>3. CASE "alloc" \in Faults /\ o = Outcome(lost, Refuse(n), -1)
  <2>1. /\ o.s.flags = s.flags /\ o.n.data = n.data /\ o.n.refused
    BY <1>3 DEF Outcome, Streams, Refuse, Nodes
  <2> QED BY <1>3, <2>1 DEF Kept, Lined, Has
<1> QED BY <1>1, <1>2, <1>3

\* and the buffer that every access starts with.
LEMMA EnsureBufferKept ==
  ASSUME NEW s, NEW n, Good(s, n), NEW o \in EnsureBuffer(s, n)
  PROVE  /\ Kept(s, n, o)
         /\ Lined(s, n) => Lined(o.s, o.n)
         /\ "alloc" \notin Faults => o.ret = 0
<1>1. CASE Has(s, "BUFFER_SET")
  <2>1. o.s = s /\ o.n = n /\ o.ret = 0
    BY <1>1 DEF EnsureBuffer, Outcome
  <2> QED BY <2>1 DEF Kept
<1>2. CASE ~Has(s, "BUFFER_SET")
  <2>1. o \in SetvbufUnlocked(s, n, NULL, FBF, BUFSIZ)
    BY <1>2 DEF EnsureBuffer, SetdefbufUnlocked
  <2> QED BY <2>1, SetvbufKept
<1> QED BY <1>1, <1>2

\* A read call moves the offset and no more, and reads nothing at the end only.
LEMMA ReadOutcomesKept ==
  ASSUME NEW s, NEW n \in Nodes, NEW most \in Nat \ {0}, NEW r \in ReadOutcomes(s, n, most)
  PROVE  r.n.data = n.data /\ (r.read = 0 => r.n = n /\ Available(n) = 0)
<1>1. r.n.data = n.data
  BY DEF ReadOutcomes, Refuse, Nodes
<1>2. Available(n) \in Nat
  BY DEF Available, Nodes
<1>3. r.read = 0 => r.n = n /\ Available(n) = 0
  BY <1>2 DEF ReadOutcomes
<1> QED BY <1>1, <1>3

\* Filling the buffer marks the stream when there is nothing to fill it with,
LEMMA FillBufferKept ==
  ASSUME NEW s, NEW n, Ready(s, n), s.buffer_size > 0, NEW o \in FillBuffer(s, n)
  PROVE  /\ o.s.flags \in {s.flags} \cup Marking(s) /\ (o.ret = EOF => Marked(o.s, o.n))
         /\ o.n.data = n.data
         /\ o.s.buffered_bytes_write = s.buffered_bytes_write
<1>s. s \in Streams /\ n \in Nodes
  BY DEF Ready, Good
<1> DEFINE space == IF UNGET >= s.buffer_size THEN 0 ELSE UNGET
           most == s.buffer_size - space
           Filled(r) ==
             [s EXCEPT !.buffer = [i \in DOMAIN @ |->
                                     IF i >= space /\ i < space + r.read
                                     THEN n.data[n.off + i - space + 1] ELSE @[i]],
                       !.buffered_bytes_read = space + r.read,
                       !.buffered_bytes_read_offset = space]
<1>1. PICK r \in ReadOutcomes(s, n, most) :
        o = CASE r.read = 0  -> Outcome(Set(s, {"EOF"}), r.n, EOF)
              [] r.read = -1 -> Outcome(Set(s, {"ERROR"}), r.n, EOF)
              [] OTHER       -> Outcome(Filled(r), r.n, 0)
  BY Zenon DEF FillBuffer
<1>m. most \in Nat \ {0}
  <2>1. s.buffer_size \in Nat /\ UNGET \in Nat
    BY <1>s, SizesNat, StreamAssumption DEF Streams
  <2> QED BY <2>1
<1> HIDE DEF space
<1>2. r.n.data = n.data /\ (r.read = 0 => Available(r.n) = 0)
  BY <1>s, <1>m, ReadOutcomesKept
<1>3. ASSUME NEW fl, fl \in {"EOF", "ERROR"}, o = Outcome(Set(s, {fl}), r.n, EOF),
             fl = "EOF" => r.read = 0
      PROVE  /\ o.s.flags \in {s.flags} \cup Marking(s) /\ Marked(o.s, o.n)
             /\ o.n.data = n.data /\ o.s.buffered_bytes_write = s.buffered_bytes_write
  <2>1. o.s = Set(s, {fl}) /\ o.n = r.n
    BY <1>3 DEF Outcome
  <2>2. {fl} \in SUBSET Flags
    BY <1>3 DEF Flags
  <2>3. SameBuffer(s, o.s) /\ o.s.flags = s.flags \cup {fl}
    <3>1. SameBuffer(s, Set(s, {fl})) /\ Set(s, {fl}).flags = s.flags \cup {fl}
      BY <1>s, <2>2, SetClear
    <3> QED BY <2>1, <3>1, Zenon
  <2>4. Marked(o.s, o.n)
    <3>1. fl = "EOF" => Available(o.n) = 0
      BY <1>2, <1>3, <2>1
    <3>2. fl \in o.s.flags
      BY <2>3
    <3> QED BY <1>3, <3>1, <3>2 DEF Marked, Has
  <2>5. o.s.flags \in Marking(s)
    BY <1>3, <2>3 DEF Marking
  <2>6. o.s.buffered_bytes_write = s.buffered_bytes_write
    BY <2>3 DEF SameBuffer
  <2>7. o.n.data = n.data
    BY <1>2, <2>1
  <2> QED BY <2>4, <2>5, <2>6, <2>7
<1>5. CASE r.read = 0
  <2>1. o = Outcome(Set(s, {"EOF"}), r.n, EOF)
    BY <1>1, <1>5
  <2> QED BY <1>3, <1>5, <2>1
<1>6. CASE r.read = -1
  <2>1. o = Outcome(Set(s, {"ERROR"}), r.n, EOF)
    BY <1>1, <1>6
  <2> QED BY <1>3, <2>1
<1>4. CASE r.read \notin {0, -1}
  <2>1. o.s = Filled(r) /\ o.n = r.n /\ o.ret = 0
    BY <1>1, <1>4 DEF Outcome
  <2>2. o.s.flags = s.flags /\ o.s.buffered_bytes_write = s.buffered_bytes_write
    BY <1>s, <2>1 DEF Streams
  <2> QED BY <1>2, <2>1, <2>2 DEF EOF
<1> QED BY <1>4, <1>5, <1>6

\* fgetc,
LEMMA FgetcKept ==
  ASSUME NEW s, NEW n, Ready(s, n), s.buffer_size > 0, NEW o \in FgetcBuffered(s, n)
  PROVE  /\ Kept(s, n, o) /\ (o.ret = EOF => Marked(o.s, o.n))
         /\ Lined(s, n) => Lined(o.s, o.n)
<1>1. PICK w \in FflushWriteUnlocked(s, n) :
        IF w.ret = EOF THEN o = w ELSE o \in ReadByte(w.s, w.n)
  BY DEF FgetcBuffered, Then
<1>2. /\ Ends(s, w) /\ w.ret \in {0, EOF}
      /\ w.ret = 0 => w.s.buffered_bytes_write = 0
  BY FflushWriteGood DEF Ready
<1>3. /\ Kept(s, n, w) /\ (w.ret = EOF => Marked(w.s, w.n))
      /\ Lined(s, n) => Lined(w.s, w.n)
  BY FflushWriteKept DEF Ready
<1>4. CASE w.ret = EOF
  BY <1>1, <1>3, <1>4
<1>5. CASE w.ret # EOF
  <2> DEFINE c == Clear(w.s, {"DIRECTION_WRITE"})
             t == Set(c, {"DIRECTION_READ"})
  <2>1. Ready(w.s, w.n) /\ w.s.buffered_bytes_write = 0
    BY <1>2, <1>5 DEF Ends, Safe, Ready
  <2>2. {"DIRECTION_WRITE"} \in SUBSET Flags /\ {"DIRECTION_READ"} \in SUBSET Flags
    BY DEF Flags
  <2>3. /\ c \in Streams /\ SameBuffer(w.s, c)
        /\ c.flags = w.s.flags \ {"DIRECTION_WRITE"}
    BY <2>1, <2>2, SetClear DEF Ready, Good
  <2> HIDE DEF c
  <2>4. /\ t \in Streams /\ SameBuffer(c, t)
        /\ t.flags = c.flags \cup {"DIRECTION_READ"}
    BY <2>2, <2>3, SetClear
  <2>5. o \in IF t.buffered_bytes_read_offset >= t.buffered_bytes_read
              THEN Then(FillBuffer(t, w.n), TakeByte) ELSE TakeByte(t, w.n)
    BY <1>1, <1>5 DEF ReadByte, c
  <2> HIDE DEF t
  <2>6. /\ InBounds(t) /\ t.buffered_bytes_write = 0
        /\ Has(t, "MODE_WRITE") <=> Has(w.s, "MODE_WRITE")
        /\ ~Has(t, "DIRECTION_WRITE") /\ Has(t, "DIRECTION_READ")
    BY <2>1, <2>3, <2>4, SameBufferFacts DEF Ready, Good, SameBuffer, Has
  <2>7. Ready(t, w.n) /\ t.buffer_size > 0
    BY <1>2, <2>1, <2>3, <2>4, <2>6 DEF Ready, Good, Directed, Has, Ends, Steady, SameBuffer
  <2>8. ASSUME NEW x, NEW m, x.flags \in {t.flags} \cup Marking(t), m.data = w.n.data,
               x.buffered_bytes_write = 0
        PROVE  Kept(s, n, Outcome(x, m, 0)) /\ Lined(x, m)
    <3>1. /\ Has(x, "MODE_WRITE") <=> Has(t, "MODE_WRITE")
          /\ ~Has(x, "DIRECTION_WRITE")
      BY <2>6, <2>8 DEF Has, Marking
    <3>2. /\ Has(x, "MODE_WRITE") <=> Has(s, "MODE_WRITE")
          /\ ~Has(s, "MODE_WRITE") => m.data = n.data
      BY <1>3, <2>6, <2>8, <3>1 DEF Kept
    <3>3. Kept(s, n, Outcome(x, m, 0))
      BY <3>2 DEF Kept, Outcome
    <3> QED BY <2>8, <3>1, <3>3, LinedEmpty
  <2>9. ASSUME NEW x \in Streams, NEW m, NEW q \in TakeByte(x, m)
        PROVE  /\ q.s.flags = x.flags /\ q.n = m
               /\ q.s.buffered_bytes_write = x.buffered_bytes_write
    BY <2>9 DEF TakeByte, Outcome, Streams
  <2>10. /\ t.buffered_bytes_read \in Nat /\ t.buffered_bytes_read_offset \in Nat
         /\ t.buffered_bytes_read_offset <= t.buffered_bytes_read
    BY <2>4, <2>6 DEF Streams, InBounds
  <2>11. /\ o.s.flags \in {t.flags} \cup Marking(t) /\ o.n.data = w.n.data
         /\ o.s.buffered_bytes_write = 0
         /\ o.ret = EOF => Marked(o.s, o.n)
    <3>1. CASE t.buffered_bytes_read_offset < t.buffered_bytes_read
      <4>1. o \in TakeByte(t, w.n)
        <5>1. ~(t.buffered_bytes_read_offset >= t.buffered_bytes_read)
          BY <2>10, <3>1
        <5> QED BY <2>5, <5>1, Zenon
      <4>2. o.ret \in Bytes
        BY <2>6, <2>7, <3>1, <4>1, TakeByteGood
      <4>3. o.ret # EOF
        BY <4>2, StreamAssumption DEF EOF
      <4> QED BY <2>4, <2>6, <2>9, <4>1, <4>3
    <3>2. CASE t.buffered_bytes_read_offset = t.buffered_bytes_read
      <4>1. PICK f \in FillBuffer(t, w.n) :
              IF f.ret = EOF THEN o = f ELSE o \in TakeByte(f.s, f.n)
        <5>1. o \in Then(FillBuffer(t, w.n), TakeByte)
          BY <2>5, <2>10, <3>2
        <5> QED BY <5>1 DEF Then
      <4>2. UnreadCount(t) = 0
        BY <2>10, <3>2 DEF UnreadCount
      <4>3. /\ Ends(t, f) /\ f.ret \in {0, EOF}
            /\ f.ret = 0 => /\ f.s.buffered_bytes_write = 0
                            /\ f.s.buffered_bytes_read_offset < f.s.buffered_bytes_read
                            /\ Has(f.s, "DIRECTION_READ")
        BY <2>6, <2>7, <4>2, FillBufferGood
      <4>4. /\ f.s.flags \in {t.flags} \cup Marking(t) /\ (f.ret = EOF => Marked(f.s, f.n))
            /\ f.n.data = w.n.data /\ f.s.buffered_bytes_write = 0
        BY <2>6, <2>7, FillBufferKept
      <4>5. CASE f.ret = EOF
        BY <4>1, <4>4, <4>5
      <4>6. CASE f.ret # EOF
        <5>1. Ready(f.s, f.n) /\ f.s \in Streams
          BY <4>3, <4>6 DEF Ends, Safe, Ready, Good
        <5>2. o \in TakeByte(f.s, f.n) /\ o.ret \in Bytes
          BY <4>1, <4>3, <4>6, <5>1, TakeByteGood
        <5>3. o.ret # EOF
          BY <5>2, StreamAssumption DEF EOF
        <5> QED BY <2>9, <4>4, <5>1, <5>2, <5>3
      <4> QED BY <4>5, <4>6
    <3> QED BY <2>10, <3>1, <3>2
  <2>12. Kept(s, n, Outcome(o.s, o.n, 0)) /\ Lined(o.s, o.n)
    BY <2>8, <2>11
  <2> QED BY <2>11, <2>12 DEF Kept, Outcome
<1> QED BY <1>4, <1>5

\* Flushing leaves no line behind that the kernel did not refuse.
LEMMA FlushedLined ==
  ASSUME NEW s, NEW n, Ready(s, n), Has(s, "DIRECTION_WRITE"), Has(s, "MODE_WRITE"),
         NEW o \in FflushWriteUnlocked(s, n)
  PROVE  Lined(o.s, o.n)
<1>1. /\ o.ret \in {0, EOF} /\ (o.ret = 0 => o.s.buffered_bytes_write = 0)
      /\ o.ret = EOF => o.n.refused
  <2>1. o.ret \in {0, EOF} /\ (o.ret = 0 => o.s.buffered_bytes_write = 0)
    BY FflushWriteGood DEF Ready
  <2>2. PICK w \in WriteOutcomes(n, Pending(s)) :
          /\ o.n = w.n /\ o.ret = IF w.flag = {} THEN 0 ELSE EOF
    <3>1. PICK w \in WriteOutcomes(n, Pending(s)) :
            o = Outcome([s EXCEPT !.flags = (@ \cup w.flag) \ {"DIRECTION_WRITE"},
                                  !.buffered_bytes_write = @ - w.written],
                        w.n, IF w.flag = {} THEN 0 ELSE EOF)
      BY Zenon DEF FflushWriteUnlocked
    <3>2. o.n = w.n /\ o.ret = IF w.flag = {} THEN 0 ELSE EOF
      BY <3>1 DEF Outcome
    <3> QED BY <3>1, <3>2
  <2>3. Pending(s) \in Seq(Bytes)
    BY PendingBytes DEF Ready, Good
  <2>4. w.flag # {} => w.n.refused
    BY <2>2, <2>3, WriteOutcomesGood DEF Ready, Good
  <2> QED BY <2>1, <2>2, <2>4 DEF EOF
<1>2. Has(o.s, "MODE_WRITE")
  BY FflushWriteKept DEF Ready, Kept
<1>3. CASE o.ret = 0
  BY <1>1, <1>2, <1>3, LinedEmpty
<1>4. CASE o.ret = EOF
  BY <1>1, <1>2, <1>4 DEF Lined
<1> QED BY <1>1, <1>3, <1>4

\* A byte after pending ones without a newline,
LEMMA StoreByteKept ==
  ASSUME NEW s, NEW n, Ready(s, n), UnreadCount(s) = 0,
         s.buffered_bytes_write < s.buffer_size, Has(s, "DIRECTION_WRITE"),
         NEW c \in Bytes
  PROVE  /\ StoreByte(s, c).flags = s.flags
         /\ StoreByte(s, c).buffer_mode = s.buffer_mode
         /\ Lined(s, n) /\ (c # NL \/ s.buffer_mode # LBF) => Lined(StoreByte(s, c), n)
<1> DEFINE at  == s.buffered_bytes_write
           buf == [i \in DOMAIN s.buffer \cup {at} |-> IF i = at THEN c ELSE s.buffer[i]]
           t   == StoreByte(s, c)
<1>1. /\ s \in Streams /\ at \in Nat /\ s.buffer_size \in Nat
      /\ DOMAIN s.buffer = 0 .. s.buffer_size - 1
  BY SizesNat DEF Ready, Good, Streams, InBounds
<1>2. t = [s EXCEPT !.buffer = buf, !.buffered_bytes_write = at + 1]
  BY DEF StoreByte
<1>3. /\ t.flags = s.flags /\ t.buffer_mode = s.buffer_mode /\ t.buffer = buf
      /\ t.buffered_bytes_write = at + 1
  BY <1>1, <1>2 DEF Streams
<1> HIDE DEF t
<1>4. buf[at] = c /\ \A i \in 0 .. at - 1 : buf[i] = s.buffer[i]
  BY <1>1
<1> HIDE DEF buf
<1>5. ASSUME Lined(s, n), c # NL \/ s.buffer_mode # LBF
      PROVE  Lined(t, n)
  <2>1. ASSUME t.buffer_mode = LBF, ~n.refused, NEW i \in 0 .. at
        PROVE  buf[i] # NL
    <3>1. CASE i = at
      BY <1>3, <1>4, <1>5, <2>1, <3>1
    <3>2. CASE i # at
      <4>1. i \in 0 .. at - 1
        BY <1>1, <3>2
      <4> QED BY <1>3, <1>4, <1>5, <2>1, <4>1 DEF Lined
    <3> QED BY <3>1, <3>2
  <2>2. 0 .. t.buffered_bytes_write - 1 = 0 .. at
    BY <1>1, <1>3
  <2> QED BY <1>3, <1>5, <2>1, <2>2 DEF Lined, Has
<1> QED BY <1>3, <1>5 DEF t

\* fputc: a newline is flushed with what precedes it, unless the kernel refuses,
LEMMA FputcKept ==
  ASSUME NEW s, NEW n, Ready(s, n), s.buffer_size > 0, NEW c \in Bytes,
         NEW o \in FputcBuffered(s, n, c)
  PROVE  /\ Kept(s, n, o)
         /\ Lined(s, n) /\ Has(s, "MODE_WRITE") => Lined(o.s, o.n)
<1>1. PICK m \in Then(FflushReadUnlocked(s, n), MakeRoom) :
        IF m.ret = EOF THEN o = m ELSE o \in WriteByte(m.s, m.n, c)
  BY DEF FputcBuffered, Then
<1>2. PICK r \in FflushReadUnlocked(s, n) :
        IF r.ret = EOF THEN m = r ELSE m \in MakeRoom(r.s, r.n)
  BY DEF Then
<1>3. Ends(s, r) /\ r.ret \in {0, EOF} /\ (r.ret = 0 => UnreadCount(r.s) = 0)
  BY FflushReadGood DEF Ready
<1>4. Kept(s, n, r) /\ (Lined(s, n) => Lined(r.s, r.n))
  BY FflushReadKept DEF Ready
<1>5. CASE r.ret = EOF
  BY <1>1, <1>2, <1>4, <1>5
<1>6. CASE r.ret # EOF
  <2>1. Ready(r.s, r.n) /\ UnreadCount(r.s) = 0
        /\ r.s.buffer_size = s.buffer_size
    BY <1>3, <1>6 DEF Ends, Safe, Ready, Steady
  <2>2. s.buffer_size \in Nat /\ r.s.buffered_bytes_write \in Nat
        /\ r.s.buffered_bytes_write <= s.buffer_size
    BY <2>1, SizesNat DEF Ready, Good, Streams, InBounds
  <2>3. /\ Ends(r.s, m) /\ m.ret \in {0, EOF} /\ UnreadCount(m.s) = 0
        /\ m.ret = 0 => m.s.buffered_bytes_write < m.s.buffer_size
        /\ Kept(r.s, r.n, m) /\ (Lined(r.s, r.n) => Lined(m.s, m.n))
    <3>1. CASE r.s.buffered_bytes_write = r.s.buffer_size
      <4>1. m \in FflushWriteUnlocked(r.s, r.n)
        BY <1>2, <1>6, <3>1, Zenon DEF MakeRoom
      <4>2. /\ Ends(r.s, m) /\ m.ret \in {0, EOF}
            /\ UnreadCount(m.s) = 0
            /\ m.ret = 0 => m.s.buffered_bytes_write = 0
        BY <2>1, <4>1, FflushWriteGood DEF Ready
      <4>3. m.s.buffer_size = s.buffer_size
        BY <2>1, <4>2 DEF Ends, Steady
      <4>4. Kept(r.s, r.n, m) /\ (Lined(r.s, r.n) => Lined(m.s, m.n))
        BY <2>1, <4>1, FflushWriteKept DEF Ready
      <4> QED BY <2>2, <4>2, <4>3, <4>4
    <3>2. CASE r.s.buffered_bytes_write # r.s.buffer_size
      <4>1. m.s = r.s /\ m.n = r.n /\ m.ret = 0
        <5>1. m \in MakeRoom(r.s, r.n)
          BY <1>2, <1>6, Zenon
        <5>2. m = Outcome(r.s, r.n, 0)
          BY <3>2, <5>1, Zenon DEF MakeRoom
        <5> QED BY <5>2 DEF Outcome
      <4>2. Ends(r.s, m)
        BY <2>1, <4>1, Zenon DEF Ends, Safe, Ready, Steady
      <4>3. r.s.buffered_bytes_write < r.s.buffer_size
        BY <2>1, <2>2, <3>2
      <4> QED BY <2>1, <4>1, <4>2, <4>3 DEF Kept
    <3> QED BY <3>1, <3>2
  <2>4. Kept(s, n, m) /\ (Lined(s, n) => Lined(m.s, m.n))
    BY <1>4, <2>3 DEF Kept
  <2>5. CASE m.ret = EOF
    BY <1>1, <2>4, <2>5
  <2>6. CASE m.ret # EOF
    <3> DEFINE d == Clear(m.s, {"DIRECTION_READ"})
               t == Set(d, {"DIRECTION_WRITE"})
               u == StoreByte(t, c)
    <3>1. Ready(m.s, m.n) /\ UnreadCount(m.s) = 0
          /\ m.s.buffered_bytes_write < m.s.buffer_size
      BY <2>3, <2>6 DEF Ends, Safe, Ready
    <3>2. {"DIRECTION_WRITE"} \in SUBSET Flags /\ {"DIRECTION_READ"} \in SUBSET Flags
      BY DEF Flags
    <3>3. /\ d \in Streams /\ SameBuffer(m.s, d)
          /\ d.flags = m.s.flags \ {"DIRECTION_READ"}
      BY <3>1, <3>2, SetClear DEF Ready, Good
    <3> HIDE DEF d
    <3>4. /\ t \in Streams /\ SameBuffer(d, t)
          /\ t.flags = d.flags \cup {"DIRECTION_WRITE"}
      BY <3>2, <3>3, SetClear
    <3>5. PICK w \in IF u.buffer_mode = LBF /\ c = NL
                     THEN FflushWriteUnlocked(u, m.n) ELSE {Outcome(u, m.n, 0)} :
            o = Outcome(w.s, w.n, IF w.ret = EOF THEN EOF ELSE c)
      BY <1>1, <2>6 DEF WriteByte, d
    <3> HIDE DEF t
    <3>6. InBounds(t) /\ UnreadCount(t) = 0
      BY <3>1, <3>3, <3>4, SameBufferFacts DEF Ready, Good, SameBuffer, Has
    <3>7. /\ Ready(t, m.n) /\ Has(t, "DIRECTION_WRITE")
          /\ t.buffered_bytes_write < t.buffer_size
      BY <3>1, <3>3, <3>4, <3>6 DEF Ready, Good, Directed, Has, SameBuffer
    <3>8. Ready(u, m.n)
      BY <3>6, <3>7, StoreByteGood
    <3>9. /\ u.flags = t.flags /\ u.buffer_mode = t.buffer_mode
          /\ Lined(t, m.n) /\ (c # NL \/ t.buffer_mode # LBF) => Lined(u, m.n)
      BY <3>6, <3>7, StoreByteKept
    <3>10. Has(t, "MODE_WRITE") <=> Has(m.s, "MODE_WRITE")
      BY <3>3, <3>4 DEF Has
    <3>11. Lined(m.s, m.n) /\ Has(m.s, "MODE_WRITE") => Lined(t, m.n)
      BY <3>3, <3>4, <3>10 DEF Lined, SameBuffer
    <3>12. Has(u, "MODE_WRITE") <=> Has(m.s, "MODE_WRITE")
      BY <3>9, <3>10 DEF Has
    <3> HIDE DEF u
    <3>13. o.s = w.s /\ o.n = w.n
      BY <3>5 DEF Outcome
    <3>14. CASE u.buffer_mode = LBF /\ c = NL
      <4>1. w \in FflushWriteUnlocked(u, m.n)
        BY <3>5, <3>14
      <4>2. Kept(u, m.n, w)
        BY <3>8, <4>1, FflushWriteKept DEF Ready
      <4>3. Has(u, "MODE_WRITE") => Lined(w.s, w.n)
        BY <3>8, <3>9, <3>7, <4>1, FlushedLined DEF Has
      <4> QED BY <2>4, <3>12, <3>13, <4>2, <4>3 DEF Kept
    <3>15. CASE ~(u.buffer_mode = LBF /\ c = NL)
      <4>1. w = Outcome(u, m.n, 0)
        BY <3>5, <3>15
      <4>2. o.s = u /\ o.n = m.n
        BY <3>13, <4>1 DEF Outcome
      <4> QED BY <2>4, <3>9, <3>11, <3>12, <3>15, <4>2 DEF Kept
    <3> QED BY <3>14, <3>15
  <2> QED BY <2>5, <2>6
<1> QED BY <1>5, <1>6

\* The flags a direct transfer leaves behind,
LEMMA DirectFlags ==
  ASSUME NEW s \in Streams, NEW dir \in {"DIRECTION_READ", "DIRECTION_WRITE"},
         NEW fs \in SUBSET {"EOF", "ERROR"}, NEW t,
         t = Set(Clear(Set(s, {dir}), {"EOF"}), fs)
         \/ (fs = {} /\ t = Clear(Set(s, {dir}), {"EOF"}))
  PROVE  /\ SameBuffer(s, t) /\ t.flags = ((s.flags \cup {dir}) \ {"EOF"}) \cup fs
         /\ Has(t, "MODE_WRITE") <=> Has(s, "MODE_WRITE")
         /\ fs \subseteq t.flags
<1> DEFINE d  == Set(s, {dir})
           s1 == Clear(d, {"EOF"})
<1>1. {dir} \in SUBSET Flags /\ {"EOF"} \in SUBSET Flags /\ fs \in SUBSET Flags
  BY DEF Flags
<1>2. d \in Streams /\ SameBuffer(s, d) /\ d.flags = s.flags \cup {dir}
  BY <1>1, SetClear
<1>3. t = Set(s1, fs) \/ (fs = {} /\ t = s1)
  OBVIOUS
<1> HIDE DEF d
<1>4. s1 \in Streams /\ SameBuffer(d, s1) /\ s1.flags = d.flags \ {"EOF"}
  BY <1>1, <1>2, SetClear
<1> HIDE DEF s1
<1>5. SameBuffer(s1, Set(s1, fs)) /\ Set(s1, fs).flags = s1.flags \cup fs
  BY <1>1, <1>4, SetClear
<1>6. SameBuffer(s1, t) /\ t.flags = s1.flags \cup fs
  BY <1>3, <1>5 DEF SameBuffer
<1>7. t.flags = ((s.flags \cup {dir}) \ {"EOF"}) \cup fs
  BY <1>2, <1>4, <1>6
<1>8. SameBuffer(s, t)
  BY <1>2, <1>4, <1>6 DEF SameBuffer
<1> QED BY <1>7, <1>8 DEF Has

\* the length of what it returns,
LEMMA SliceLength ==
  ASSUME NEW f \in Seq(Bytes), NEW p \in Nat, NEW k \in Nat, p + k <= Len(f)
  PROVE  Len(SubSeq(f, p + 1, p + k)) = k
<1>1. (p + 1) \in 1 .. Len(f) + 1 /\ (p + k) \in 0 .. Len(f) /\ (p + k) - (p + 1) + 1 = k
  OBVIOUS
<1> DEFINE a == p + 1
           b == p + k
<1>2. a \in 1 .. Len(f) + 1 /\ b \in 0 .. Len(f) /\ b - a + 1 = k
  BY <1>1
<1> HIDE DEF a, b
<1>3. Len(SubSeq(f, a, b)) = b - a + 1
  BY <1>2
<1> QED BY <1>2, <1>3 DEF a, b

\* a direct read that is asked for bytes and returns none marks the stream,
LEMMA FreadDirectKept ==
  ASSUME NEW s, NEW n, Ready(s, n), NEW total \in Nat,
         NEW o \in FreadDirect(s, n, total)
  PROVE  /\ Kept(s, n, o) /\ (total > 0 /\ o.ret = <<>> => Marked(o.s, o.n))
         /\ Lined(s, n) => Lined(o.s, o.n)
<1> USE DEF Ready, Good
<1> DEFINE s1    == Clear(Set(s, {"DIRECTION_READ"}), {"EOF"})
           there == IF Available(n) < total THEN Available(n) ELSE total
           Got(k) == SubSeq(n.data, n.off + 1, n.off + k)
           To(k)  == [n EXCEPT !.off = @ + k]
<1>1. n.off \in Nat /\ n.data \in Seq(Bytes) /\ Len(n.data) \in Nat
  BY DEF Nodes
<1>2. Available(n) \in Nat /\ n.off + Available(n) = Len(n.data)
  BY <1>1 DEF Available
<1>3. there \in Nat /\ n.off + there <= Len(n.data)
  BY <1>1, <1>2
<1>4. \/ o = Outcome(Set(s, {"ERROR"}), n, <<>>)
      \/ o = Outcome(IF there < total THEN Set(s1, {"EOF"}) ELSE s1, To(there), Got(there))
      \/ \E k \in Nat : o = Outcome(Set(s1, {"ERROR"}), Refuse(To(k)), Got(k))
  <2>1. 0 .. (IF there < total THEN there ELSE total - 1) \subseteq Nat
    OBVIOUS
  <2> QED BY <2>1 DEF FreadDirect
<1>5. ASSUME there = total, total > 0
      PROVE  Got(there) # <<>>
  <2>1. Len(Got(there)) = there
    BY <1>1, <1>3, SliceLength
  <2>2. Len(<<>>) = 0
    OBVIOUS
  <2>3. Len(Got(there)) > 0
    BY <1>5, <2>1
  <2> HIDE DEF Got, there
  <2> QED BY <2>2, <2>3
<1>6. ASSUME NEW k \in Nat
      PROVE  /\ To(k).data = n.data /\ To(k).refused = n.refused
             /\ Refuse(To(k)).data = n.data /\ Refuse(To(k)).refused
  <2> DEFINE j == n.off + k
             m == [n EXCEPT !.off = j]
  <2>1. j \in Nat /\ To(k) = m
    BY <1>1
  <2> HIDE DEF j
  <2>2. m \in Nodes /\ m.data = n.data /\ m.refused = n.refused
    BY <2>1 DEF Nodes
  <2> HIDE DEF m
  <2> QED BY <2>1, <2>2 DEF Refuse, Nodes
<1>7. ASSUME NEW fs \in SUBSET {"EOF", "ERROR"}, NEW t,
             t = Set(s1, fs) \/ (fs = {} /\ t = s1),
             NEW m, m.data = n.data, n.refused => m.refused,
             "EOF" \in fs => Available(m) = 0
      PROVE  /\ Kept(s, n, Outcome(t, m, 0)) /\ (fs # {} => Marked(t, m))
             /\ Lined(s, n) => Lined(t, m)
  <2>0. "DIRECTION_READ" \in {"DIRECTION_READ", "DIRECTION_WRITE"}
    OBVIOUS
  <2>1. /\ SameBuffer(s, t) /\ t.flags = ((s.flags \cup {"DIRECTION_READ"}) \ {"EOF"}) \cup fs
        /\ Has(t, "MODE_WRITE") <=> Has(s, "MODE_WRITE")
        /\ fs \subseteq t.flags
    BY <1>7, <2>0, DirectFlags
  <2>2. Has(t, "DIRECTION_WRITE") => Has(s, "DIRECTION_WRITE")
    BY <1>7, <2>1 DEF Has
  <2>3. Lined(s, n) => Lined(t, m)
    BY <1>7, <2>1, <2>2, LinedSame
  <2> QED BY <1>7, <2>1, <2>3 DEF Kept, Outcome, Marked, Has
<1>11. there < total => Available(To(there)) = 0
  <2> DEFINE j == n.off + there
             m == [n EXCEPT !.off = j]
  <2>1. j \in Nat /\ To(there) = m /\ (there < total => j = Len(n.data))
    BY <1>1, <1>2
  <2> HIDE DEF j
  <2>2. m.data = n.data /\ m.off = j
    BY <2>1 DEF Nodes
  <2> HIDE DEF m
  <2> QED BY <1>1, <2>1, <2>2 DEF Available
<1> HIDE DEF s1, there, Got, To
<1>8. CASE o = Outcome(Set(s, {"ERROR"}), n, <<>>)
  <2>1. {"ERROR"} \in SUBSET Flags /\ o.s = Set(s, {"ERROR"}) /\ o.n = n
    BY <1>8 DEF Flags, Outcome
  <2>2. SameBuffer(s, o.s) /\ o.s.flags = s.flags \cup {"ERROR"}
    BY <2>1, SetClear
  <2>3. Lined(s, n) => Lined(o.s, o.n)
    BY <2>1, <2>2, LinedSame DEF Has
  <2> QED BY <2>1, <2>2, <2>3 DEF Kept, Marked, Has
<1>9. CASE o = Outcome(IF there < total THEN Set(s1, {"EOF"}) ELSE s1, To(there), Got(there))
  <2>1. o.n = To(there) /\ o.ret = Got(there)
        /\ o.s = IF there < total THEN Set(s1, {"EOF"}) ELSE s1
    BY <1>9 DEF Outcome
  <2>2. o.n.data = n.data /\ o.n.refused = n.refused
    BY <1>3, <1>6, <2>1
  <2>3. CASE there < total
    <3>1. Available(o.n) = 0 /\ {"EOF"} \in SUBSET {"EOF", "ERROR"} /\ {"EOF"} # {}
      BY <1>11, <2>1, <2>3
    <3>2. o.s = Set(s1, {"EOF"})
      BY <2>1, <2>3
    <3>3. /\ Kept(s, n, Outcome(o.s, o.n, 0)) /\ Marked(o.s, o.n)
          /\ Lined(s, n) => Lined(o.s, o.n)
      BY <1>7, <2>2, <3>1, <3>2
    <3> QED BY <3>3 DEF Kept, Outcome
  <2>4. CASE ~(there < total)
    <3>3. o.s = s1 /\ {} \in SUBSET {"EOF", "ERROR"} /\ "EOF" \notin {}
      BY <2>1, <2>4
    <3>1. /\ Kept(s, n, Outcome(o.s, o.n, 0))
          /\ Lined(s, n) => Lined(o.s, o.n)
      BY <1>7, <2>2, <3>3
    <3>2. there = total
      BY <1>2, <2>4 DEF there
    <3> QED BY <1>5, <2>1, <3>1, <3>2 DEF Kept, Outcome
  <2> QED BY <2>3, <2>4
<1>10. ASSUME NEW k \in Nat, o = Outcome(Set(s1, {"ERROR"}), Refuse(To(k)), Got(k))
       PROVE  /\ Kept(s, n, o) /\ Marked(o.s, o.n)
              /\ Lined(s, n) => Lined(o.s, o.n)
  <2>1. o.s = Set(s1, {"ERROR"}) /\ o.n.data = n.data /\ o.n.refused
    BY <1>6, <1>10 DEF Outcome
  <2>2. /\ Kept(s, n, Outcome(o.s, o.n, 0)) /\ Marked(o.s, o.n)
        /\ Lined(s, n) => Lined(o.s, o.n)
    BY <1>7, <2>1
  <2> QED BY <2>2 DEF Kept, Outcome
<1> QED BY <1>4, <1>8, <1>9, <1>10

\* and a direct write asks for MODE_WRITE.
LEMMA FwriteDirectKept ==
  ASSUME NEW s, NEW n, Ready(s, n), NEW data \in Seq(Bytes),
         NEW o \in FwriteDirect(s, n, data)
  PROVE  Kept(s, n, o) /\ (Lined(s, n) => Lined(o.s, o.n))
<1> USE DEF Ready, Good
<1>1. CASE ~Has(s, "MODE_WRITE")
  <2>1. o.s = Set(s, {"ERROR"}) /\ o.n = n
    BY <1>1 DEF FwriteDirect, Outcome
  <2>2. {"ERROR"} \in SUBSET Flags
    BY DEF Flags
  <2>3. SameBuffer(s, o.s) /\ o.s.flags = s.flags \cup {"ERROR"}
    BY <2>1, <2>2, SetClear
  <2>4. Lined(s, n) => Lined(o.s, o.n)
    BY <2>1, <2>3, LinedSame DEF Has
  <2> QED BY <2>1, <2>3, <2>4 DEF Kept, Has
<1>2. CASE Has(s, "MODE_WRITE")
  <2>1. PICK w \in WriteOutcomes(n, data) :
          o = Outcome(Set(Clear(Set(s, {"DIRECTION_WRITE"}), {"EOF"}), w.flag), w.n,
                      IF w.flag = {} THEN data ELSE <<>>)
    BY <1>2, Zenon DEF FwriteDirect
  <2>2. /\ w.flag \in SUBSET {"ERROR", "EOF"}
        /\ n.refused => w.n.refused
    BY <2>1, WriteOutcomesGood
  <2>3. o.s = Set(Clear(Set(s, {"DIRECTION_WRITE"}), {"EOF"}), w.flag) /\ o.n = w.n
    BY <2>1 DEF Outcome
  <2>4. w.flag \in SUBSET {"EOF", "ERROR"}
        /\ "DIRECTION_WRITE" \in {"DIRECTION_READ", "DIRECTION_WRITE"}
    BY <2>2
  <2>5. SameBuffer(s, o.s) /\ Has(o.s, "MODE_WRITE")
    BY <1>2, <2>3, <2>4, DirectFlags
  <2>6. Lined(s, n) => Lined(o.s, o.n)
    BY <1>2, <2>2, <2>3, <2>5 DEF Lined, SameBuffer
  <2> QED BY <1>2, <2>5, <2>6 DEF Kept
<1> QED BY <1>1, <1>2

\* Pushing a byte back,
LEMMA FungetcBufferedKept ==
  ASSUME NEW s \in Streams, NEW n, NEW c, NEW o \in FungetcBuffered(s, n, c)
  PROVE  /\ o.s.flags = s.flags /\ o.n = n
         /\ o.s.buffered_bytes_write = s.buffered_bytes_write
<1> DEFINE count == UnreadCount(s)
           space == s.buffer_size - count
           moved == [s EXCEPT !.buffer = [i \in DOMAIN @ |->
                                            IF i >= space THEN @[i - space] ELSE @[i]],
                              !.buffered_bytes_read_offset = space,
                              !.buffered_bytes_read = space + count]
           room  == IF s.buffered_bytes_read_offset = 0 THEN moved ELSE s
           at    == room.buffered_bytes_read_offset - 1
<1>1. \/ o = Outcome(s, n, EOF)
      \/ o = Outcome([room EXCEPT !.buffer[at] = c,
                                  !.buffered_bytes_read_offset = at], n, c)
  BY DEF FungetcBuffered
<1>2. /\ moved.flags = s.flags /\ moved.buffered_bytes_write = s.buffered_bytes_write
      /\ DOMAIN moved = DOMAIN s
  BY DEF Streams
<1> HIDE DEF moved
<1>3. /\ room.flags = s.flags /\ room.buffered_bytes_write = s.buffered_bytes_write
      /\ DOMAIN room = DOMAIN s
  BY <1>2
<1>4. DOMAIN s = {"open", "flags", "memory", "buffer", "buffer_size", "buffer_mode",
                  "buffered_bytes_write", "buffered_bytes_read",
                  "buffered_bytes_read_offset"}
  BY DEF Streams
<1> HIDE DEF room, at
<1> DEFINE put == [room EXCEPT !.buffer[at] = c, !.buffered_bytes_read_offset = at]
<1>5. put.flags = room.flags /\ put.buffered_bytes_write = room.buffered_bytes_write
  BY <1>3, <1>4
<1>6. o = Outcome(s, n, EOF) \/ o = Outcome(put, n, c)
  BY <1>1
<1> HIDE DEF put
<1> QED BY <1>3, <1>5, <1>6 DEF Outcome

\* ungetc.
LEMMA FungetcKept ==
  ASSUME NEW s, NEW n, Ready(s, n), Sized(s), NEW c \in Bytes \cup {EOF},
         NEW o \in FungetcUnlocked(s, n, c)
  PROVE  Kept(s, n, o) /\ (Lined(s, n) => Lined(o.s, o.n))
<1>1. PICK e \in EnsureBuffer(s, n) :
        IF e.ret = EOF THEN o = e ELSE o \in PushBack(e.s, e.n, c)
  BY DEF FungetcUnlocked, Then
<1>2. e.ret \in {0, EOF} /\ (e.ret = 0 => Ready(e.s, e.n))
  BY EnsureBufferGood
<1>3. Kept(s, n, e) /\ (Lined(s, n) => Lined(e.s, e.n))
  BY EnsureBufferKept DEF Ready
<1>4. CASE e.ret = EOF
  BY <1>1, <1>3, <1>4
<1>5. CASE e.ret # EOF /\ e.s.buffer_mode = NBF
  <2>1. o.s = Set(e.s, {"ERROR"}) /\ o.n = e.n
    BY <1>1, <1>5 DEF PushBack, Outcome
  <2>2. {"ERROR"} \in SUBSET Flags /\ e.s \in Streams
    BY <1>2, <1>5 DEF Flags, Ready, Good
  <2>3. SameBuffer(e.s, o.s) /\ o.s.flags = e.s.flags \cup {"ERROR"}
    BY <2>1, <2>2, SetClear
  <2>4. Lined(e.s, e.n) => Lined(o.s, o.n)
    BY <2>1, <2>3, LinedSame DEF Has
  <2> QED BY <1>3, <2>1, <2>3, <2>4 DEF Kept, Has
<1>6. CASE e.ret # EOF /\ e.s.buffer_mode # NBF
  <2>1. Ready(e.s, e.n)
    BY <1>2, <1>6
  <2> DEFINE T(x) == Clear(Set(x, {"DIRECTION_READ"}), {"EOF"})
  <2>2. PICK w \in FflushWriteUnlocked(e.s, e.n) :
          IF w.ret = EOF THEN o = w ELSE o \in FungetcBuffered(T(w.s), w.n, c)
    BY <1>1, <1>6 DEF PushBack, Then
  <2>3. /\ Ends(e.s, w) /\ w.ret \in {0, EOF}
        /\ w.ret = 0 => w.s.buffered_bytes_write = 0
    BY <2>1, FflushWriteGood DEF Ready
  <2>4. Kept(e.s, e.n, w) /\ (Lined(e.s, e.n) => Lined(w.s, w.n))
    BY <2>1, FflushWriteKept DEF Ready
  <2>5. CASE w.ret = EOF
    BY <1>3, <2>2, <2>4, <2>5 DEF Kept
  <2>6. CASE w.ret # EOF
    <3> DEFINE d == Set(w.s, {"DIRECTION_READ"})
               t == Clear(d, {"EOF"})
    <3>1. w.s \in Streams /\ w.s.buffered_bytes_write = 0 /\ o \in FungetcBuffered(t, w.n, c)
      BY <2>2, <2>3, <2>6 DEF Ends, Safe, Good
    <3>2. {"DIRECTION_READ"} \in SUBSET Flags /\ {"EOF"} \in SUBSET Flags
      BY DEF Flags
    <3>3. /\ d \in Streams /\ SameBuffer(w.s, d)
          /\ d.flags = w.s.flags \cup {"DIRECTION_READ"}
      BY <3>1, <3>2, SetClear
    <3> HIDE DEF d
    <3>4. t \in Streams /\ SameBuffer(d, t) /\ t.flags = d.flags \ {"EOF"}
      BY <3>2, <3>3, SetClear
    <3> HIDE DEF t
    <3>5. /\ o.s.flags = t.flags /\ o.n = w.n
          /\ o.s.buffered_bytes_write = t.buffered_bytes_write
      BY <3>1, <3>4, FungetcBufferedKept
    <3>6. /\ o.s.buffered_bytes_write = 0
          /\ Has(o.s, "MODE_WRITE") <=> Has(w.s, "MODE_WRITE")
          /\ Has(o.s, "DIRECTION_WRITE") <=> Has(w.s, "DIRECTION_WRITE")
      BY <3>1, <3>3, <3>4, <3>5 DEF SameBuffer, Has
    <3>7. Lined(w.s, w.n) => Lined(o.s, o.n)
      BY <3>6, LinedEmpty DEF Lined
    <3> QED BY <1>3, <2>4, <3>5, <3>6, <3>7 DEF Kept
  <2> QED BY <2>5, <2>6
<1> QED BY <1>4, <1>5, <1>6
-----------------------------------------------------------------------------
\* No completed line is kept back, and only a stream that may be written is in
\* the middle of an fwrite.
LineInv ==
  /\ Lined(stream, node)
  /\ call.op = "fwrite" /\ call.done < call.total => Has(stream, "MODE_WRITE")

\* What a step does for ReadOnlyKept, EofExplained and LinesDelivered.
Keeps ==
  /\ stream.open /\ ~Has(stream, "MODE_WRITE") => node'.data = node.data
  /\ "alloc" \notin Faults => EofExplained'
  /\ "mode" \notin Habits /\ LineInv => LineInv'

\* A result explains itself unless it is an empty read of an unmarked stream.
Explains(s, n, kind, val) ==
  kind = "got" /\ val = <<>> /\ "alloc" \notin Faults => Marked(s, n)

\* A call that ends with one of a function's outcomes.
LEMMA OutcomeKeeps ==
  ASSUME NEW o, stream' = o.s, node' = o.n, Kept(stream, node, o),
         "mode" \notin Habits /\ LineInv => Lined(o.s, o.n),
         NEW kind, NEW val, ret' = [kind |-> kind, val |-> val],
         Explains(o.s, o.n, kind, val),
         call'.op = "fwrite" /\ call'.done < call'.total => Has(stream, "MODE_WRITE")
  PROVE  Keeps
<1>1. ret' = [kind |-> "got", val |-> <<>>] => kind = "got" /\ val = <<>>
  OBVIOUS
<1>2. "alloc" \notin Faults => EofExplained'
  BY <1>1 DEF Explains, EofExplained, Marked
<1>3. "mode" \notin Habits /\ LineInv => LineInv'
  BY DEF LineInv, Kept
<1> QED BY <1>2, <1>3 DEF Keeps, Kept

\* The same with a returned value, when it is no read or the stream is marked.
LEMMA ReturnKeeps ==
  ASSUME NEW o, stream' = o.s, node' = o.n, Kept(stream, node, o),
         "mode" \notin Habits /\ LineInv => Lined(o.s, o.n),
         NEW kind, NEW v, Return(kind, v),
         kind = "got" /\ v = EOF /\ "alloc" \notin Faults => Marked(o.s, o.n),
         call'.op = "fwrite" /\ call'.done < call'.total => Has(stream, "MODE_WRITE")
  PROVE  Keeps
<1> DEFINE val == IF v = EOF THEN <<>> ELSE <<v>>
<1>1. ret' = [kind |-> kind, val |-> val]
  BY DEF Return
<1>2. val = <<>> => v = EOF
  OBVIOUS
<1> HIDE DEF val
<1>3. Explains(o.s, o.n, kind, val)
  BY <1>2 DEF Explains
<1> QED BY <1>1, <1>3, OutcomeKeeps

\* Between calls there is no transfer.
LEMMA IdleCall == Idle.op # "fwrite"
BY DEF Idle

\* A step that leaves the stream and the bytes of the file alone.
LEMMA StillKeeps ==
  ASSUME stream' = stream, node'.data = node.data, node'.refused = node.refused,
         call'.op # "fwrite", NEW kind, NEW v, kind # "got", Return(kind, v)
  PROVE  Keeps
<1>1. ret' # [kind |-> "got", val |-> <<>>]
  BY DEF Return
<1>2. Lined(stream, node) => Lined(stream', node')
  BY DEF Lined
<1> QED BY <1>1, <1>2 DEF Keeps, EofExplained, LineInv

\* fopen and fclose start and end with an empty buffer.
LEMMA FopenKeeps ==
  ASSUME StreamInv, NEW m \in Opens, Fopen(m) PROVE Keeps
<1>1. ~stream.open /\ call' = call /\ call = Idle
  BY DEF Fopen, StreamInv
<1>2. /\ stream'.buffered_bytes_write = 0 /\ ~Has(stream', "DIRECTION_WRITE")
  BY DEF Fopen, Closed, ParseModeFlags, Has
<1>3. Lined(stream', node')
  BY <1>2, LinedEmpty
<1>4. EofExplained'
  BY DEF Fopen, Return, EofExplained, EOF
<1> QED BY <1>1, <1>3, <1>4, IdleCall DEF Keeps, LineInv

\* fclose flushes what it may.
LEMMA FcloseKeeps ==
  ASSUME StreamInv, Fclose PROVE Keeps
<1>1. Good(stream, node) /\ call' = call /\ call = Idle
  BY DEF StreamInv, Fclose, Safe
<1>2. PICK o \in FflushUnlocked(stream, node) :
         \/ stream' = Closed /\ node' = [o.n EXCEPT !.off = 0]
         \/ stream' = o.s /\ node' = Refuse(o.n) /\ Return("close", EOF)
  BY DEF Fclose
<1>3. o.n \in Nodes /\ Kept(stream, node, o)
  BY <1>1, <1>2, FflushGood, FflushKept DEF Good
<1>4. CASE stream' = Closed /\ node' = [o.n EXCEPT !.off = 0]
  <2>1. node'.data = o.n.data
    BY <1>3, <1>4 DEF Nodes
  <2>2. stream'.buffered_bytes_write = 0 /\ ~Has(stream', "DIRECTION_WRITE") /\ ~stream'.open
    BY <1>4 DEF Closed, Has
  <2>3. Lined(stream', node')
    BY <2>2, LinedEmpty
  <2> QED BY <1>1, <1>3, <2>1, <2>2, <2>3, IdleCall DEF Keeps, LineInv, Kept, EofExplained
<1>5. CASE stream' = o.s /\ node' = Refuse(o.n) /\ Return("close", EOF)
  <2> DEFINE q == Outcome(o.s, Refuse(o.n), EOF)
  <2>1. /\ stream' = q.s /\ node' = q.n
        /\ q.n.data = o.n.data /\ q.n.refused /\ q.s = o.s
    BY <1>3, <1>5 DEF Outcome, Refuse, Nodes
  <2> HIDE DEF q
  <2>2. Kept(stream, node, q) /\ (Lined(stream, node) => Lined(q.s, q.n))
    <3>1. Lined(stream, node) => Lined(o.s, o.n)
      BY <1>1, <1>2, FflushKept
    <3> QED BY <1>3, <2>1, <3>1 DEF Kept, Lined
  <2>3. call'.op # "fwrite" /\ "close" # "got"
    BY <1>1, IdleCall
  <2> QED BY <1>5, <2>1, <2>2, <2>3, ReturnKeeps DEF LineInv
<1> QED BY <1>2, <1>4, <1>5

\* fgetc explains an EOF.
LEMMA FgetcKeeps ==
  ASSUME StreamInv, Fgetc, "retry" \notin Habits PROVE Keeps
<1>1. Ready(stream, node) /\ Sized(stream) /\ call' = Idle
  BY CallStarts DEF Fgetc
<1>2. PICK e \in EnsureBuffer(stream, node) :
         IF e.ret = EOF
         THEN stream' = e.s /\ node' = e.n /\ Return("got", EOF)
         ELSE IF e.s.buffer_mode = NBF
         THEN \E o \in FreadDirect(e.s, e.n, 1) :
                /\ stream' = o.s /\ node' = o.n
                /\ ret' = [kind |-> "got", val |-> o.ret]
         ELSE \E o \in FgetcBuffered(e.s, e.n) :
                stream' = o.s /\ node' = o.n /\ Return("got", o.ret)
  BY DEF Fgetc
<1>3. e.ret \in {0, EOF} /\ (e.ret = 0 => Ready(e.s, e.n) /\ e.s.buffer_size > 0)
  BY <1>1, EnsureBufferGood
<1>4. /\ Kept(stream, node, e) /\ ("alloc" \notin Faults => e.ret = 0)
      /\ Lined(stream, node) => Lined(e.s, e.n)
  BY <1>1, EnsureBufferKept DEF Ready
<1>5. CASE e.ret = EOF
  <2>1. "alloc" \in Faults
    BY <1>4, <1>5 DEF EOF
  <2> QED BY <1>1, <1>2, <1>4, <1>5, <2>1, ReturnKeeps, IdleCall DEF LineInv
<1>6. CASE e.ret # EOF /\ e.s.buffer_mode = NBF
  <2>1. PICK o \in FreadDirect(e.s, e.n, 1) :
          /\ stream' = o.s /\ node' = o.n
          /\ ret' = [kind |-> "got", val |-> o.ret]
    BY <1>2, <1>6
  <2>2. 1 \in Nat /\ 1 > 0
    OBVIOUS
  <2>3. /\ Kept(e.s, e.n, o) /\ (o.ret = <<>> => Marked(o.s, o.n))
        /\ Lined(e.s, e.n) => Lined(o.s, o.n)
    BY <1>3, <1>6, <2>2, FreadDirectKept
  <2>4. Kept(stream, node, o) /\ Explains(o.s, o.n, "got", o.ret)
    BY <1>4, <2>3 DEF Kept, Explains
  <2> QED BY <1>1, <1>4, <2>1, <2>3, <2>4, OutcomeKeeps, IdleCall DEF LineInv
<1>7. CASE e.ret # EOF /\ e.s.buffer_mode # NBF
  <2>1. PICK o \in FgetcBuffered(e.s, e.n) :
          stream' = o.s /\ node' = o.n /\ Return("got", o.ret)
    BY <1>2, <1>7
  <2>2. /\ Kept(e.s, e.n, o) /\ (o.ret = EOF => Marked(o.s, o.n))
        /\ Lined(e.s, e.n) => Lined(o.s, o.n)
    BY <1>3, <1>7, FgetcKept
  <2>3. Kept(stream, node, o)
    BY <1>4, <2>2 DEF Kept
  <2> QED BY <1>1, <1>4, <2>1, <2>2, <2>3, ReturnKeeps, IdleCall DEF LineInv
<1> QED BY <1>5, <1>6, <1>7

\* fputc, with a client that asks for the right mode, keeps no line back.
LEMMA FputcKeeps ==
  ASSUME StreamInv, NEW c \in Bytes, Fputc(c), "retry" \notin Habits
  PROVE  Keeps
<1>1. /\ Ready(stream, node) /\ Sized(stream) /\ call' = Idle
      /\ "mode" \notin Habits => Has(stream, "MODE_WRITE")
  BY CallStarts DEF Fputc, MayWrite
<1>2. PICK e \in EnsureBuffer(stream, node) :
         IF e.ret = EOF
         THEN stream' = e.s /\ node' = e.n /\ Return("put", EOF)
         ELSE IF e.s.buffer_mode = NBF
         THEN \E o \in FwriteDirect(e.s, e.n, <<c>>) :
                /\ stream' = o.s /\ node' = o.n
                /\ ret' = [kind |-> "put", val |-> o.ret]
         ELSE \E o \in FputcBuffered(e.s, e.n, c) :
                stream' = o.s /\ node' = o.n /\ Return("put", o.ret)
  BY DEF Fputc
<1>3. /\ e.ret \in {0, EOF}
      /\ e.ret = 0 => Ready(e.s, e.n) /\ e.s.buffer_size > 0
  BY <1>1, EnsureBufferGood
<1>4. Kept(stream, node, e) /\ (Lined(stream, node) => Lined(e.s, e.n))
  BY <1>1, EnsureBufferKept DEF Ready
<1>5. CASE e.ret = EOF
  BY <1>1, <1>2, <1>4, <1>5, ReturnKeeps, IdleCall DEF LineInv
<1>6. CASE e.ret # EOF /\ e.s.buffer_mode = NBF
  <2>1. PICK o \in FwriteDirect(e.s, e.n, <<c>>) :
          /\ stream' = o.s /\ node' = o.n
          /\ ret' = [kind |-> "put", val |-> o.ret]
    BY <1>2, <1>6
  <2>2. <<c>> \in Seq(Bytes)
    OBVIOUS
  <2>3. Kept(e.s, e.n, o) /\ (Lined(e.s, e.n) => Lined(o.s, o.n))
    BY <1>3, <1>6, <2>2, FwriteDirectKept
  <2>4. Kept(stream, node, o) /\ Explains(o.s, o.n, "put", o.ret)
    BY <1>4, <2>3 DEF Kept, Explains
  <2> QED BY <1>1, <1>4, <2>1, <2>3, <2>4, OutcomeKeeps, IdleCall DEF LineInv
<1>7. CASE e.ret # EOF /\ e.s.buffer_mode # NBF
  <2>1. PICK o \in FputcBuffered(e.s, e.n, c) :
          stream' = o.s /\ node' = o.n /\ Return("put", o.ret)
    BY <1>2, <1>7
  <2>2. /\ Kept(e.s, e.n, o)
        /\ Lined(e.s, e.n) /\ Has(e.s, "MODE_WRITE") => Lined(o.s, o.n)
    BY <1>3, <1>7, FputcKept
  <2>3. Kept(stream, node, o)
    BY <1>4, <2>2 DEF Kept
  <2>4. "mode" \notin Habits /\ LineInv => Lined(o.s, o.n)
    BY <1>1, <1>4, <2>2 DEF LineInv, Kept
  <2> QED BY <1>1, <2>1, <2>3, <2>4, ReturnKeeps, IdleCall
<1> QED BY <1>5, <1>6, <1>7

\* Refusing the wrong direction marks the stream.
LEMMA ErrorKept ==
  ASSUME NEW s, NEW n, Ready(s, n), NEW o, o.s = Set(s, {"ERROR"}), o.n = n
  PROVE  Kept(s, n, o) /\ Marked(o.s, o.n) /\ (Lined(s, n) => Lined(o.s, o.n))
<1>1. {"ERROR"} \in SUBSET Flags /\ s \in Streams
  BY DEF Flags, Ready, Good
<1>2. SameBuffer(s, o.s) /\ o.s.flags = s.flags \cup {"ERROR"}
  BY <1>1, SetClear
<1>3. Lined(s, n) => Lined(o.s, o.n)
  BY <1>2, LinedSame DEF Has
<1> QED BY <1>2, <1>3 DEF Kept, Marked, Has

\* The start of fread,
LEMMA FreadBeginKeeps ==
  ASSUME StreamInv, NEW size \in ElementSizes, NEW nmemb \in Lengths,
         FreadBegin(size, nmemb), "retry" \notin Habits
  PROVE  Keeps
<1>0. Calls /\ nmemb > 0
  BY Zenon DEF FreadBegin
<1>1. Ready(stream, node) /\ Sized(stream) /\ call = Idle /\ nmemb > 0
  BY <1>0, CallStarts
<1>2. size * nmemb \in Nat /\ size * nmemb > 0
  <2>1. size \in Nat /\ size > 0 /\ nmemb \in Nat
    BY StreamAssumption
  <2> QED BY <1>1, <2>1
<1>3. CASE ~Has(stream, "MODE_READ")
  <2> DEFINE o == Outcome(Set(stream, {"ERROR"}), node, EOF)
  <2>1. stream' = o.s /\ node' = o.n /\ call' = Idle /\ Return("got", EOF)
    BY <1>1, <1>3 DEF FreadBegin, Outcome
  <2>2. o.s = Set(stream, {"ERROR"}) /\ o.n = node
    BY DEF Outcome
  <2> HIDE DEF o
  <2>3. /\ Kept(stream, node, o) /\ Marked(o.s, o.n)
        /\ Lined(stream, node) => Lined(o.s, o.n)
    BY <1>1, <2>2, ErrorKept
  <2> QED BY <2>1, <2>3, ReturnKeeps, IdleCall DEF LineInv
<1>4. CASE Has(stream, "MODE_READ")
  <2>1. PICK e \in EnsureBuffer(stream, node) :
          IF e.ret = EOF
          THEN stream' = e.s /\ node' = e.n /\ Return("got", EOF) /\ UNCHANGED call
          ELSE IF e.s.buffer_mode = NBF
          THEN \E o \in FreadDirect(e.s, e.n, size * nmemb) :
                 /\ stream' = o.s /\ node' = o.n
                 /\ ret' = [kind |-> "got", val |-> o.ret]
                 /\ call' = [Idle EXCEPT !.op = "fread", !.size = size,
                                !.done = Len(o.ret), !.total = Len(o.ret)]
          ELSE /\ stream' = e.s /\ node' = e.n
               /\ call' = [Idle EXCEPT !.op = "fread", !.size = size,
                                       !.total = size * nmemb]
               /\ Return("status", 0)
    BY <1>4, Zenon DEF FreadBegin
  <2>2. e.ret \in {0, EOF} /\ (e.ret = 0 => Ready(e.s, e.n))
    BY <1>1, EnsureBufferGood
  <2>3. /\ Kept(stream, node, e) /\ ("alloc" \notin Faults => e.ret = 0)
        /\ Lined(stream, node) => Lined(e.s, e.n)
    BY <1>1, EnsureBufferKept DEF Ready
  <2>4. CASE e.ret = EOF
    <3>1. "alloc" \in Faults
      BY <2>3, <2>4 DEF EOF
    <3> QED BY <1>1, <2>1, <2>3, <2>4, <3>1, ReturnKeeps, IdleCall DEF LineInv
  <2>5. CASE e.ret # EOF /\ e.s.buffer_mode = NBF
    <3>1. PICK o \in FreadDirect(e.s, e.n, size * nmemb) :
            /\ stream' = o.s /\ node' = o.n
            /\ ret' = [kind |-> "got", val |-> o.ret]
            /\ call' = [Idle EXCEPT !.op = "fread", !.size = size,
                           !.done = Len(o.ret), !.total = Len(o.ret)]
      BY <2>1, <2>5, Zenon
    <3>2. call'.op = "fread"
      BY <3>1 DEF Idle
    <3>3. /\ Kept(e.s, e.n, o) /\ (o.ret = <<>> => Marked(o.s, o.n))
          /\ Lined(e.s, e.n) => Lined(o.s, o.n)
      BY <1>2, <2>2, <2>5, FreadDirectKept
    <3>4. Kept(stream, node, o) /\ Explains(o.s, o.n, "got", o.ret)
      BY <2>3, <3>3 DEF Kept, Explains
    <3> QED BY <2>3, <3>1, <3>2, <3>3, <3>4, OutcomeKeeps DEF LineInv
  <2>6. CASE e.ret # EOF /\ e.s.buffer_mode # NBF
    <3>1. stream' = e.s /\ node' = e.n /\ Return("status", 0)
      BY <2>1, <2>6
    <3>2. call'.op = "fread"
      BY <2>1, <2>6 DEF Idle
    <3> QED BY <2>3, <3>1, <3>2, ReturnKeeps DEF LineInv
  <2> QED BY <2>4, <2>5, <2>6
<1> QED BY <1>3, <1>4

\* and its loop.
LEMMA FreadByteKeeps ==
  ASSUME StreamInv, FreadByte PROVE Keeps
<1>1. /\ call \in Transfers /\ call.op = "fread" /\ ~node.refused
      /\ Has(stream, "BUFFER_SET")
  BY DEF StreamInv, TypeOK, FreadByte, TransferSane
<1>2. Ready(stream, node) /\ stream.buffer_size > 0
  BY <1>1 DEF StreamInv, Safe, Ready, Sized
<1>3. PICK o \in FgetcBuffered(stream, node) :
        /\ stream' = o.s /\ node' = o.n
        /\ Return("got", o.ret)
        /\ call' = IF o.ret = EOF THEN [call EXCEPT !.total = call.done]
                   ELSE [call EXCEPT !.done = @ + 1]
  BY DEF FreadByte
<1>4. call'.op = "fread"
  BY <1>1, <1>3 DEF Transfers
<1>5. /\ Kept(stream, node, o) /\ (o.ret = EOF => Marked(o.s, o.n))
      /\ Lined(stream, node) => Lined(o.s, o.n)
  BY <1>2, FgetcKept
<1> QED BY <1>3, <1>4, <1>5, ReturnKeeps DEF LineInv

\* The start of fwrite, which turns back on a stream that may not be written,
LEMMA FwriteBeginKeeps ==
  ASSUME StreamInv, NEW size \in ElementSizes, NEW data \in Seq(Bytes),
         FwriteBegin(size, data), "retry" \notin Habits
  PROVE  Keeps
<1>1. Ready(stream, node) /\ Sized(stream) /\ call = Idle
  BY CallStarts DEF FwriteBegin
<1>2. CASE ~Has(stream, "MODE_WRITE")
  <2> DEFINE o == Outcome(Set(stream, {"ERROR"}), node, EOF)
  <2>1. stream' = o.s /\ node' = o.n /\ call' = Idle /\ Return("put", EOF)
    BY <1>1, <1>2 DEF FwriteBegin, Outcome
  <2>2. o.s = Set(stream, {"ERROR"}) /\ o.n = node
    BY DEF Outcome
  <2> HIDE DEF o
  <2>3. Kept(stream, node, o) /\ (Lined(stream, node) => Lined(o.s, o.n))
    BY <1>1, <2>2, ErrorKept
  <2> QED BY <2>1, <2>3, ReturnKeeps, IdleCall DEF LineInv
<1>3. CASE Has(stream, "MODE_WRITE")
  <2>1. PICK e \in EnsureBuffer(stream, node) :
          IF e.ret = EOF
          THEN stream' = e.s /\ node' = e.n /\ Return("put", EOF) /\ UNCHANGED call
          ELSE IF e.s.buffer_mode = NBF
          THEN \E o \in FwriteDirect(e.s, e.n, data) :
                 /\ stream' = o.s /\ node' = o.n
                 /\ ret' = [kind |-> "put", val |-> o.ret]
                 /\ call' = IF o.ret = <<>> THEN call
                            ELSE [Idle EXCEPT !.op = "fwrite", !.size = size,
                                    !.done = Len(data), !.total = Len(data)]
          ELSE /\ stream' = e.s /\ node' = e.n
               /\ call' = [Idle EXCEPT !.op = "fwrite", !.size = size,
                                       !.total = Len(data), !.data = data]
               /\ Return("status", 0)
    BY <1>3 DEF FwriteBegin
  <2>2. e.ret \in {0, EOF} /\ (e.ret = 0 => Ready(e.s, e.n))
    BY <1>1, EnsureBufferGood
  <2>3. Kept(stream, node, e) /\ (Lined(stream, node) => Lined(e.s, e.n))
    BY <1>1, EnsureBufferKept DEF Ready
  <2>4. CASE e.ret = EOF
    BY <1>3, <2>1, <2>3, <2>4, ReturnKeeps DEF LineInv
  <2>5. CASE e.ret # EOF /\ e.s.buffer_mode = NBF
    <3>1. PICK o \in FwriteDirect(e.s, e.n, data) :
            stream' = o.s /\ node' = o.n /\ ret' = [kind |-> "put", val |-> o.ret]
      BY <2>1, <2>5
    <3>2. Kept(e.s, e.n, o) /\ (Lined(e.s, e.n) => Lined(o.s, o.n))
      BY <2>2, <2>5, FwriteDirectKept
    <3>3. Kept(stream, node, o) /\ Explains(o.s, o.n, "put", o.ret)
      BY <2>3, <3>2 DEF Kept, Explains
    <3> QED BY <1>3, <2>3, <3>1, <3>2, <3>3, OutcomeKeeps DEF LineInv
  <2>6. CASE e.ret # EOF /\ e.s.buffer_mode # NBF
    <3>1. stream' = e.s /\ node' = e.n /\ Return("status", 0)
      BY <2>1, <2>6
    <3> QED BY <1>3, <2>3, <3>1, ReturnKeeps DEF LineInv
  <2> QED BY <2>4, <2>5, <2>6
<1> QED BY <1>2, <1>3

\* and its loop.
LEMMA FwriteByteKeeps ==
  ASSUME StreamInv, FwriteByte PROVE Keeps
<1>1. /\ call \in Transfers /\ call.op = "fwrite" /\ call.done < call.total
      /\ call.total <= Len(call.data)
      /\ ~node.refused /\ Has(stream, "BUFFER_SET")
  BY DEF StreamInv, TypeOK, FwriteByte, TransferSane
<1>2. Ready(stream, node) /\ stream.buffer_size > 0
  BY <1>1 DEF StreamInv, Safe, Ready, Sized
<1>3. call.data[call.done + 1] \in Bytes
  <2>1. call.done \in Nat /\ call.total \in Nat /\ call.data \in Seq(Bytes)
    BY <1>1 DEF Transfers
  <2> QED BY <1>1, <2>1
<1>4. PICK o \in FputcBuffered(stream, node, call.data[call.done + 1]) :
        /\ stream' = o.s /\ node' = o.n
        /\ Return("put", o.ret)
  BY DEF FwriteByte
<1>5. /\ Kept(stream, node, o)
      /\ Lined(stream, node) /\ Has(stream, "MODE_WRITE") => Lined(o.s, o.n)
  BY <1>2, <1>3, FputcKept
<1>6. CASE Has(stream, "MODE_WRITE")
  BY <1>4, <1>5, <1>6, ReturnKeeps DEF LineInv
<1>7. CASE ~Has(stream, "MODE_WRITE")
  <2>1. ~LineInv
    BY <1>1, <1>7 DEF LineInv
  <2>2. ret' # [kind |-> "got", val |-> <<>>]
    BY <1>4 DEF Return
  <2> QED BY <1>4, <1>5, <2>1, <2>2 DEF Keeps, Kept, EofExplained
<1> QED BY <1>6, <1>7

\* ungetc and fflush,
LEMMA UngetcKeeps ==
  ASSUME StreamInv, NEW c \in Bytes \cup {EOF}, Ungetc(c), "retry" \notin Habits
  PROVE  Keeps
<1>1. Ready(stream, node) /\ Sized(stream) /\ call' = Idle
  BY CallStarts DEF Ungetc
<1>2. PICK o \in FungetcUnlocked(stream, node, c) :
        stream' = o.s /\ node' = o.n /\ Return("unget", o.ret)
  BY DEF Ungetc
<1>3. Kept(stream, node, o) /\ (Lined(stream, node) => Lined(o.s, o.n))
  BY <1>1, FungetcKept
<1> QED BY <1>1, <1>2, <1>3, ReturnKeeps, IdleCall DEF LineInv

LEMMA FflushKeeps ==
  ASSUME StreamInv, Fflush, "retry" \notin Habits
  PROVE  Keeps
<1>1. Ready(stream, node) /\ call' = Idle
  BY CallStarts DEF Fflush
<1>2. PICK o \in FflushUnlocked(stream, node) :
        stream' = o.s /\ node' = o.n /\ Return("sync", o.ret)
  BY DEF Fflush
<1>3. Kept(stream, node, o) /\ (Lined(stream, node) => Lined(o.s, o.n))
  BY <1>1, FflushKept DEF Ready
<1> QED BY <1>1, <1>2, <1>3, ReturnKeeps, IdleCall DEF LineInv

\* the calls that move the offset or ask for it, and the end of a transfer,
LEMMA MoveKeeps ==
  ASSUME StreamInv,
         (\E p \in 0 .. MaxFile : Fseek(p)) \/ Ftell \/ Clearerr \/ Rewind \/ TransferEnd,
         "retry" \notin Habits
  PROVE  Keeps
<1>1. node \in Nodes
  BY DEF StreamInv, TypeOK
<1>2. stream' = stream
  BY DEF Fseek, Ftell, Clearerr, Rewind, TransferEnd
<1>3. node'.data = node.data /\ node'.refused = node.refused
  BY <1>1 DEF Fseek, Ftell, Clearerr, Rewind, TransferEnd, Nodes
<1>4. call' = Idle
  BY DEF Fseek, Ftell, Clearerr, Rewind, TransferEnd, Calls
<1>5. \E kind \in {"seek", "tell", "status", "count"} : \E v : Return(kind, v)
  BY DEF Fseek, Ftell, Clearerr, Rewind, TransferEnd
<1> QED BY <1>2, <1>3, <1>4, <1>5, IdleCall, StillKeeps

\* and setvbuf.
LEMMA SetvbufKeeps ==
  ASSUME StreamInv, NEW buf \in {NULL, "user"}, NEW mode, NEW size,
         Setvbuf(buf, mode, size), "retry" \notin Habits
  PROVE  Keeps
<1>1. Ready(stream, node) /\ call' = Idle
  BY CallStarts DEF Setvbuf
<1>2. PICK o \in SetvbufUnlocked(stream, node, buf, mode, size) :
        stream' = o.s /\ node' = o.n /\ Return("status", o.ret)
  BY DEF Setvbuf
<1>3. Kept(stream, node, o) /\ (Lined(stream, node) => Lined(o.s, o.n))
  BY <1>1, SetvbufKept DEF Ready
<1> QED BY <1>1, <1>2, <1>3, ReturnKeeps, IdleCall DEF LineInv

\* Every step of the specification does.
LEMMA NextKeeps ==
  ASSUME StreamInv, Next, "retry" \notin Habits
  PROVE  Keeps
<1>1. CASE \E m \in Opens : Fopen(m)
  BY <1>1, FopenKeeps
<1>2. CASE Fclose
  BY <1>2, FcloseKeeps
<1>3. CASE Fgetc
  BY <1>3, FgetcKeeps
<1>4. CASE \E c \in Bytes : Fputc(c)
  BY <1>4, FputcKeeps
<1>5. CASE \E size \in ElementSizes, nmemb \in Lengths : FreadBegin(size, nmemb)
  BY <1>5, FreadBeginKeeps
<1>6. CASE FreadByte
  BY <1>6, FreadByteKeeps
<1>7. CASE \E size \in ElementSizes, nmemb \in Lengths :
             \E data \in [1 .. size * nmemb -> Bytes] : FwriteBegin(size, data)
  <2>1. PICK size \in ElementSizes, nmemb \in Lengths :
          \E data \in [1 .. size * nmemb -> Bytes] : FwriteBegin(size, data)
    BY <1>7
  <2>2. PICK data \in [1 .. size * nmemb -> Bytes] : FwriteBegin(size, data)
    BY <2>1
  <2>3. size * nmemb \in Nat
    BY StreamAssumption
  <2>4. data \in Seq(Bytes)
    BY <2>3
  <2> QED BY <2>2, <2>4, FwriteBeginKeeps
<1>8. CASE FwriteByte
  BY <1>8, FwriteByteKeeps
<1>9. CASE \E c \in Bytes \cup {EOF} : Ungetc(c)
  BY <1>9, UngetcKeeps
<1>10. CASE Fflush
  BY <1>10, FflushKeeps
<1>11. CASE (\E p \in 0 .. MaxFile : Fseek(p)) \/ Ftell \/ Clearerr \/ Rewind \/ TransferEnd
  BY <1>11, MoveKeeps
<1>12. CASE \E mode \in {FBF, LBF, NBF} :
              \/ \E size \in UserSizes : Setvbuf("user", mode, size)
              \/ \E size \in UserSizes \cup {0} : Setvbuf(NULL, mode, size)
  <2>1. PICK buf \in {NULL, "user"} : \E mode, size : Setvbuf(buf, mode, size)
    BY <1>12
  <2> QED BY <2>1, SetvbufKeeps
<1> QED BY <1>1, <1>2, <1>3, <1>4, <1>5, <1>6, <1>7, <1>8, <1>9, <1>10, <1>11,
           <1>12 DEF Next

\* Whatever is put into a stream that was not opened for writing, its file
\* stays as it is: for every buffer, every client that stops after a failure
\* and all the faults of the kernel (__fflush_write_unlocked, __fwrite_unlocked).
THEOREM ReadOnlyHolds ==
  ASSUME "retry" \notin Habits
  PROVE  Spec => ReadOnlyKept
<1>1. StreamInv /\ [Next]_vars
        => [stream.open /\ ~Has(stream, "MODE_WRITE") => node'.data = node.data]_vars
  BY NextKeeps DEF Keeps
<1>2. Spec => []StreamInv
  BY StreamInvariant
<1> QED BY <1>1, <1>2, PTL DEF Spec, ReadOnlyKept

\* A read that returns no byte has marked the stream, as long as malloc gives
\* the default buffer: fgetc and fread return EOF without a mark when it does
\* not.
THEOREM EofHolds ==
  ASSUME "retry" \notin Habits, "alloc" \notin Faults
  PROVE  Spec => []EofExplained
<1>1. Init => EofExplained
  BY DEF Init, EofExplained, Closed
<1>2. StreamInv /\ EofExplained /\ [Next]_vars => EofExplained'
  <2>1. ASSUME StreamInv, Next PROVE EofExplained'
    BY <2>1, NextKeeps DEF Keeps
  <2>2. ASSUME EofExplained, UNCHANGED vars PROVE EofExplained'
    BY <2>2 DEF EofExplained, vars
  <2> QED BY <2>1, <2>2
<1>3. Spec => []StreamInv
  BY StreamInvariant
<1> QED BY <1>1, <1>2, <1>3, PTL DEF Spec

\* A line-buffered stream keeps no completed line back from the kernel unless it
\* refused it, when clients write only streams opened for writing: fputc
\* on another keeps the line, and its flush fails.
THEOREM LinesHold ==
  ASSUME "retry" \notin Habits, "mode" \notin Habits
  PROVE  Spec => []LinesDelivered
<1>1. Init => LineInv
  <2> SUFFICES ASSUME Init PROVE LineInv
    OBVIOUS
  <2>1. stream.buffered_bytes_write = 0 /\ ~Has(stream, "DIRECTION_WRITE")
    BY DEF Init, Closed, Has
  <2>2. Lined(stream, node)
    BY <2>1, LinedEmpty
  <2> QED BY <2>2, IdleCall DEF Init, LineInv
<1>2. StreamInv /\ LineInv /\ [Next]_vars => LineInv'
  <2>1. ASSUME StreamInv, LineInv, Next PROVE LineInv'
    BY <2>1, NextKeeps DEF Keeps
  <2>2. ASSUME LineInv, UNCHANGED vars PROVE LineInv'
    BY <2>2 DEF LineInv, Lined, vars
  <2> QED BY <2>1, <2>2
<1>3. LineInv => LinesDelivered
  BY DEF LineInv, Lined, LinesDelivered
<1>4. Spec => []StreamInv
  BY StreamInvariant
<1> QED BY <1>1, <1>2, <1>3, <1>4, PTL DEF Spec

(***************************************************************************)
(* StdioStream implements ByteStream: the stream behaves as one without a  *)
(* buffer would, while the kernel does at most short reads and callers     *)
(* keep to the plain calls.  The proof follows the refinement mapping of   *)
(* StdioStream, for every set of bytes, buffer size, mode and bound.       *)
(*                                                                         *)
(* The lemmas say of each C function what it does to the caller's view     *)
(* (content, position and input): the flushes and setvbuf do not change    *)
(* it, fgetc takes the first byte of the input, fputc overlays the         *)
(* content.  StreamInv bounds the buffer; ViewInv adds that a closed       *)
(* stream is zeroed, that an unbuffered one holds no bytes and that the    *)
(* flushes find the mode that lets them succeed.                           *)
(***************************************************************************)

\* The caller's view of a stream s over a file n, as Content, pos and Input.
ContentOf(s, n) == IF s.buffered_bytes_write = 0 THEN n.data
                   ELSE Overlay(n.data, n.off, Pending(s))
PosOf(s, n) == n.off + s.buffered_bytes_write - UnreadCount(s)
Rest(f, p) == SubSeq(f, p + 1, Len(f))
InputOf(s, n) == Unread(s) \o Rest(ContentOf(s, n), n.off + s.buffered_bytes_write)

\* The same view.
SameView(s, n, t, m) ==
  /\ ContentOf(t, m) = ContentOf(s, n)
  /\ PosOf(t, m) = PosOf(s, n)
  /\ InputOf(t, m) = InputOf(s, n)

\* Bytes are buffered only where the mode lets the flushes succeed, and only
\* in a buffer.
Plain(s) ==
  /\ Has(s, "DIRECTION_READ") => Has(s, "MODE_READ")
  /\ Has(s, "DIRECTION_WRITE") => Has(s, "MODE_WRITE")
  /\ ~Has(s, "BUFFER_SET") => s.buffer_mode = NBF
  /\ s.buffer_mode = NBF => s.buffered_bytes_write = 0 /\ UnreadCount(s) = 0

\* What the flushes and transfers do not change.
SameMode(s, t) ==
  /\ t.buffer_mode = s.buffer_mode
  /\ Has(t, "MODE_READ") <=> Has(s, "MODE_READ")
  /\ Has(t, "MODE_WRITE") <=> Has(s, "MODE_WRITE")

\* No failures of the kernel or malloc.
Faultless == Faults \subseteq {"short"}
-----------------------------------------------------------------------------
(* Sequences                                                               *)

\* What SubSeq is.
LEMMA Slice ==
  ASSUME NEW S, NEW f \in Seq(S), NEW p \in Nat, NEW k \in Nat, p + k <= Len(f)
  PROVE  /\ SubSeq(f, p + 1, p + k) \in Seq(S)
         /\ Len(SubSeq(f, p + 1, p + k)) = k
         /\ \A i \in 1 .. k : SubSeq(f, p + 1, p + k)[i] = f[p + i]
<1>1. SubSeq(f, p + 1, p + k) = [i \in 1 .. k |-> f[p + i]]
  <2>1. (p + 1) + 0 = p + 1 /\ (p + k) - (p + 1) + 1 = k
    OBVIOUS
  <2> QED BY <2>1
<1>2. \A i \in 1 .. k : f[p + i] \in S
  <2> SUFFICES ASSUME NEW i \in 1 .. k PROVE f[p + i] \in S
    OBVIOUS
  <2>1. p + i \in 1 .. Len(f)
    OBVIOUS
  <2> QED BY <2>1
<1> QED BY <1>1, <1>2

\* What is left of a sequence after its first p elements.
LEMMA RestIs ==
  ASSUME NEW S, NEW f \in Seq(S), NEW p \in Nat, p <= Len(f)
  PROVE  /\ Rest(f, p) \in Seq(S) /\ Len(Rest(f, p)) = Len(f) - p
         /\ \A i \in 1 .. Len(f) - p : Rest(f, p)[i] = f[p + i]
<1>1. PICK k \in Nat : p + k = Len(f)
  <2>1. Len(f) - p \in Nat /\ p + (Len(f) - p) = Len(f)
    OBVIOUS
  <2> QED BY <2>1
<1>2. k = Len(f) - p
  BY <1>1
<1>3. p + k <= Len(f)
  BY <1>1
<1>4. /\ SubSeq(f, p + 1, p + k) \in Seq(S)
      /\ Len(SubSeq(f, p + 1, p + k)) = k
      /\ \A i \in 1 .. k : SubSeq(f, p + 1, p + k)[i] = f[p + i]
  BY <1>3, Slice
<1> QED BY <1>1, <1>2, <1>4 DEF Rest

\* The rest after p is the next k and the rest after those.
LEMMA RestSplit ==
  ASSUME NEW S, NEW f \in Seq(S), NEW p \in Nat, NEW k \in Nat, p + k <= Len(f)
  PROVE  /\ SubSeq(f, p + 1, p + k) \o Rest(f, p + k) = Rest(f, p)
         /\ SubSeq(Rest(f, p), 1, k) = SubSeq(f, p + 1, p + k)
         /\ Rest(Rest(f, p), k) = Rest(f, p + k)
         /\ k <= Len(Rest(f, p))
<1> DEFINE a == SubSeq(f, p + 1, p + k)
           b == Rest(f, p + k)
           r == Rest(f, p)
<1>1. a \in Seq(S) /\ Len(a) = k /\ \A i \in 1 .. k : a[i] = f[p + i]
  BY Slice
<1>2. /\ b \in Seq(S) /\ Len(b) = Len(f) - (p + k)
      /\ \A i \in 1 .. Len(f) - (p + k) : b[i] = f[(p + k) + i]
  <2>1. p + k \in Nat
    OBVIOUS
  <2> QED BY <2>1, RestIs
<1>3. /\ r \in Seq(S) /\ Len(r) = Len(f) - p
      /\ \A i \in 1 .. Len(f) - p : r[i] = f[p + i]
  <2>1. p <= Len(f)
    OBVIOUS
  <2> QED BY <2>1, RestIs
<1>4. Len(f) \in Nat /\ k <= Len(f) - p
  OBVIOUS
<1> HIDE DEF a, b, r
<1>5. a \o b = r
  <2>1. /\ p + 1 \in 1 .. Len(f) + 1 /\ p + k \in (p + 1) - 1 .. Len(f)
        /\ Len(f) \in p + k .. Len(f)
    BY <1>4
  <2> QED BY <2>1, ConcatAdjacentSubSeq DEF a, b, r, Rest
<1>6. SubSeq(r, 1, k) = a
  <2>1. 0 + 1 = 1 /\ 0 + k = k /\ 0 \in Nat /\ 0 + k <= Len(r)
    BY <1>3, <1>4
  <2>2. /\ SubSeq(r, 0 + 1, 0 + k) \in Seq(S) /\ Len(SubSeq(r, 0 + 1, 0 + k)) = k
        /\ \A i \in 1 .. k : SubSeq(r, 0 + 1, 0 + k)[i] = r[0 + i]
    BY <1>3, <2>1, Slice
  <2>3. ASSUME NEW i \in 1 .. k PROVE SubSeq(r, 1, k)[i] = a[i]
    <3>1. i \in 1 .. Len(f) - p /\ 0 + i = i
      BY <1>4
    <3> QED BY <1>1, <1>3, <2>1, <2>2, <3>1
  <2>4. SubSeq(r, 1, k) \in Seq(S) /\ Len(SubSeq(r, 1, k)) = k
    BY <2>1, <2>2
  <2> QED BY <1>1, <2>3, <2>4, SeqEqual
<1>7. Rest(r, k) = b
  <2>1. k <= Len(r) /\ Len(r) - k = Len(f) - (p + k)
    BY <1>3, <1>4
  <2>2. /\ Rest(r, k) \in Seq(S) /\ Len(Rest(r, k)) = Len(r) - k
        /\ \A i \in 1 .. Len(r) - k : Rest(r, k)[i] = r[k + i]
    BY <1>3, <2>1, RestIs
  <2>3. ASSUME NEW i \in 1 .. Len(f) - (p + k) PROVE Rest(r, k)[i] = b[i]
    <3>1. k + i \in 1 .. Len(f) - p /\ p + (k + i) = (p + k) + i
      BY <1>4
    <3> QED BY <1>2, <1>3, <2>1, <2>2, <3>1
  <2> QED BY <1>2, <2>1, <2>2, <2>3, SeqEqual
<1>8. k <= Len(r)
  BY <1>3, <1>4
<1> QED BY <1>5, <1>6, <1>7, <1>8 DEF a, b, r

\* A byte in front of others.
LEMMA FirstRest ==
  ASSUME NEW S, NEW x \in S, NEW a \in Seq(S)
  PROVE  /\ SubSeq(<<x>> \o a, 1, 1) = <<x>> /\ Rest(<<x>> \o a, 1) = a
         /\ <<x>> \o a \in Seq(S) /\ Len(<<x>> \o a) = Len(a) + 1
<1>1. PICK u \in Seq(S) : u = <<x>>
  <2>1. <<x>> = Append(<<>>, x)
    OBVIOUS
  <2> QED BY <2>1, EmptySeq, AppendProperties
<1>2. Len(u) = 1 /\ u[1] = x
  BY <1>1
<1>3. PICK f \in Seq(S) : f = u \o a
  BY ConcatProperties
<1>4. /\ Len(f) = Len(a) + 1 /\ Len(a) \in Nat
      /\ f[1] = x /\ \A i \in 1 .. Len(a) : f[1 + i] = a[i]
  <2>1. /\ Len(f) = Len(u) + Len(a)
        /\ \A i \in 1 .. Len(u) + Len(a) :
             f[i] = IF i <= Len(u) THEN u[i] ELSE a[i - Len(u)]
    BY <1>3, ConcatProperties
  <2>2. ASSUME NEW i \in 1 .. Len(a) PROVE f[1 + i] = a[i]
    <3>1. 1 + i \in 1 .. Len(u) + Len(a) /\ ~(1 + i <= Len(u)) /\ (1 + i) - Len(u) = i
      BY <1>2
    <3> QED BY <2>1, <3>1
  <2> QED BY <1>2, <2>1, <2>2
<1>5. SubSeq(f, 1, 1) = u
  <2>1. 0 + 1 = 1 /\ 0 \in Nat /\ 1 \in Nat /\ 0 + 1 <= Len(f)
    BY <1>4
  <2>2. /\ SubSeq(f, 0 + 1, 0 + 1) \in Seq(S) /\ Len(SubSeq(f, 0 + 1, 0 + 1)) = 1
        /\ \A i \in 1 .. 1 : SubSeq(f, 0 + 1, 0 + 1)[i] = f[0 + i]
    BY <2>1, Slice
  <2>3. \A i \in 1 .. 1 : SubSeq(f, 1, 1)[i] = u[i]
    BY <1>2, <1>4, <2>2
  <2> QED BY <1>2, <2>1, <2>2, <2>3, SeqEqual
<1>6. /\ Rest(f, 1) \in Seq(S) /\ Len(Rest(f, 1)) = Len(f) - 1
      /\ \A i \in 1 .. Len(f) - 1 : Rest(f, 1)[i] = f[1 + i]
  <2>1. 1 \in Nat /\ 1 <= Len(f)
    BY <1>4
  <2> QED BY <2>1, RestIs
<1>7. Rest(f, 1) = a
  <2>1. Len(Rest(f, 1)) = Len(a) /\ \A i \in 1 .. Len(a) : Rest(f, 1)[i] = a[i]
    BY <1>4, <1>6
  <2> QED BY <1>6, <2>1, SeqEqual
<1> QED BY <1>1, <1>3, <1>4, <1>5, <1>7
-----------------------------------------------------------------------------
(* The buffer and the file                                                 *)

\* A file written over from within is again a file, of the longer length.
LEMMA OverlayIs ==
  ASSUME NEW f \in Seq(Bytes), NEW s \in Seq(Bytes), NEW p \in Nat, p <= Len(f)
  PROVE  /\ Overlay(f, p, s) \in Seq(Bytes)
         /\ Len(Overlay(f, p, s)) = IF Len(f) > p + Len(s) THEN Len(f) ELSE p + Len(s)
         /\ \A i \in 1 .. Len(Overlay(f, p, s)) :
              Overlay(f, p, s)[i] =
                IF i > p /\ i <= p + Len(s) THEN s[i - p] ELSE f[i]
<1> DEFINE m == IF Len(f) > p + Len(s) THEN Len(f) ELSE p + Len(s)
<1>1. m \in Nat
  OBVIOUS
<1>2. Overlay(f, p, s) \in Seq(Bytes)
  BY OverlayType
<1>3. Overlay(f, p, s) = [i \in 1 .. m |->
         IF i > p /\ i <= p + Len(s) THEN s[i - p] ELSE f[i]]
  BY DEF Overlay
<1>4. Len(Overlay(f, p, s)) = m
  <2> HIDE DEF m
  <2> QED BY <1>1, <1>2, <1>3
<1> QED BY <1>2, <1>3, <1>4

\* Writing nothing.
LEMMA OverlayNone ==
  ASSUME NEW f \in Seq(Bytes), NEW p \in Nat, p <= Len(f)
  PROVE  Overlay(f, p, <<>>) = f
<1>1. <<>> \in Seq(Bytes) /\ Len(<<>>) = 0
  BY EmptySeq
<1>2. /\ Overlay(f, p, <<>>) \in Seq(Bytes)
      /\ Len(Overlay(f, p, <<>>)) = IF Len(f) > p + Len(<<>>) THEN Len(f) ELSE p + Len(<<>>)
      /\ \A i \in 1 .. Len(Overlay(f, p, <<>>)) :
           Overlay(f, p, <<>>)[i] =
             IF i > p /\ i <= p + Len(<<>>) THEN <<>>[i - p] ELSE f[i]
  BY <1>1, OverlayIs
<1>3. Len(Overlay(f, p, <<>>)) = Len(f)
  BY <1>1, <1>2
<1>4. \A i \in 1 .. Len(f) : Overlay(f, p, <<>>)[i] = f[i]
  BY <1>1, <1>2, <1>3
<1> QED BY <1>2, <1>3, <1>4, SeqEqual

\* Writing one byte after others.
LEMMA OverlayMore ==
  ASSUME NEW f \in Seq(Bytes), NEW s \in Seq(Bytes), NEW p \in Nat, p <= Len(f),
         NEW c \in Bytes
  PROVE  /\ Overlay(f, p, Append(s, c)) = Overlay(Overlay(f, p, s), p + Len(s), <<c>>)
         /\ p + Len(s) <= Len(Overlay(f, p, s))
<1>1. PICK t \in Seq(Bytes) : t = Append(s, c)
  BY AppendProperties
<1>2. /\ Len(t) = Len(s) + 1 /\ t[Len(s) + 1] = c
      /\ \A i \in 1 .. Len(s) : t[i] = s[i]
  BY <1>1, AppendProperties
<1>3. PICK u \in Seq(Bytes) : u = <<c>>
  <2>1. <<c>> = Append(<<>>, c)
    OBVIOUS
  <2> QED BY <2>1, EmptySeq, AppendProperties
<1>4. Len(u) = 1 /\ u[1] = c
  BY <1>3
<1>5. PICK g \in Seq(Bytes) : g = Overlay(f, p, s)
  BY OverlayType
<1>6. /\ Len(g) = IF Len(f) > p + Len(s) THEN Len(f) ELSE p + Len(s)
      /\ \A i \in 1 .. Len(g) :
           g[i] = IF i > p /\ i <= p + Len(s) THEN s[i - p] ELSE f[i]
  BY <1>5, OverlayIs
<1>7. PICK q \in Nat : q = p + Len(s)
  OBVIOUS
<1>8. q <= Len(g) /\ Len(f) <= Len(g) /\ Len(g) \in Nat /\ Len(f) \in Nat
  BY <1>6, <1>7
<1>9. PICK h \in Seq(Bytes) : h = Overlay(g, q, u)
  BY <1>8, OverlayType
<1>10. /\ Len(h) = IF Len(g) > q + Len(u) THEN Len(g) ELSE q + Len(u)
       /\ \A i \in 1 .. Len(h) :
            h[i] = IF i > q /\ i <= q + Len(u) THEN u[i - q] ELSE g[i]
  BY <1>8, <1>9, OverlayIs
<1>11. PICK k \in Seq(Bytes) : k = Overlay(f, p, t)
  BY OverlayType
<1>12. /\ Len(k) = IF Len(f) > p + Len(t) THEN Len(f) ELSE p + Len(t)
       /\ \A i \in 1 .. Len(k) :
            k[i] = IF i > p /\ i <= p + Len(t) THEN t[i - p] ELSE f[i]
  BY <1>11, OverlayIs
<1>13. Len(s) \in Nat /\ p + Len(t) = q + 1
  BY <1>2, <1>7
<1>14. Len(h) = Len(k) /\ Len(h) \in Nat
  BY <1>4, <1>6, <1>7, <1>10, <1>12, <1>13
<1>15. ASSUME NEW i \in 1 .. Len(h) PROVE k[i] = h[i]
  <2>0. i \in Nat /\ i \in 1 .. Len(k)
    BY <1>14
  <2>1. CASE i = q + 1
    <3>1. i - q = 1 /\ i - p = Len(s) + 1 /\ i > p /\ i <= q + 1 /\ i > q
      <4>1. ASSUME NEW x \in Nat, NEW l \in Nat, NEW y \in Nat, y = p + l, x = y + 1
            PROVE  x - y = 1 /\ x - p = l + 1 /\ x > p /\ x <= y + 1 /\ x > y
        BY <4>1
      <4> QED BY <1>7, <1>13, <2>0, <2>1, <4>1
    <3>2. h[i] = c
      BY <1>4, <1>10, <3>1
    <3>3. k[i] = c
      BY <1>2, <1>12, <1>13, <2>0, <3>1
    <3> QED BY <3>2, <3>3
  <2>2. CASE i # q + 1
    <3>1. ~(i > q /\ i <= q + 1)
      BY <2>0, <2>2
    <3>2. h[i] = g[i]
      BY <1>4, <1>10, <3>1
    <3>3. i \in 1 .. Len(g)
      BY <1>4, <1>8, <1>10, <2>0, <2>2
    <3>4. CASE i > p /\ i <= q
      <4>1. i - p \in 1 .. Len(s) /\ i <= p + Len(s) /\ i <= p + Len(t)
        BY <1>7, <1>13, <2>0, <3>4
      <4>2. g[i] = s[i - p] /\ k[i] = t[i - p]
        BY <1>6, <1>12, <2>0, <3>3, <3>4, <4>1
      <4> QED BY <1>2, <3>2, <4>1, <4>2
    <3>5. CASE ~(i > p /\ i <= q)
      <4>1. ~(i > p /\ i <= p + Len(s)) /\ ~(i > p /\ i <= p + Len(t))
        <5>1. ~(i > p /\ i <= p + Len(s))
          BY <1>7, <3>5
        <5>2. i <= q + 1 => i <= q
          BY <2>0, <2>2
        <5> QED BY <1>13, <3>5, <5>1, <5>2
      <4> QED BY <1>6, <1>12, <2>0, <3>2, <3>3, <4>1
    <3> QED BY <3>4, <3>5
  <2> QED BY <2>1, <2>2
<1>16. k = h
  BY <1>14, <1>15, SeqEqual
<1> QED BY <1>1, <1>3, <1>5, <1>7, <1>8, <1>9, <1>11, <1>16

\* The unread bytes.
LEMMA UnreadBytes ==
  ASSUME NEW s, NEW n, Good(s, n)
  PROVE  /\ UnreadCount(s) \in Nat /\ Unread(s) \in Seq(Bytes)
         /\ Len(Unread(s)) = UnreadCount(s)
         /\ s.buffered_bytes_write \in Nat /\ n.off \in Nat
         /\ n.data \in Seq(Bytes) /\ n.off <= Len(n.data)
<1>1. /\ s.buffered_bytes_read \in Nat /\ s.buffered_bytes_read_offset \in Nat
      /\ s.buffered_bytes_read_offset <= s.buffered_bytes_read
      /\ s.buffered_bytes_write \in Nat /\ n.off \in Nat
      /\ n.data \in Seq(Bytes) /\ n.off <= Len(n.data)
  BY DEF Good, Streams, Nodes, InBounds
<1>2. PICK k \in Nat : k = UnreadCount(s)
  BY <1>1 DEF UnreadCount
<1>3. ASSUME NEW i \in 1 .. k
      PROVE  s.buffer[s.buffered_bytes_read_offset + i - 1] \in Bytes
  <2>1. s.buffered_bytes_read_offset + i - 1 \in
          s.buffered_bytes_read_offset .. s.buffered_bytes_read - 1
    <3>1. ASSUME NEW a \in Nat, NEW b \in Nat, a <= b, k = b - a
          PROVE  a + i - 1 \in a .. b - 1
      BY <3>1
    <3> QED BY <1>1, <1>2, <3>1 DEF UnreadCount
  <2> QED BY <2>1 DEF Good, InBounds
<1>4. Unread(s) = [i \in 1 .. k |-> s.buffer[s.buffered_bytes_read_offset + i - 1]]
  BY <1>2 DEF Unread
<1>5. Unread(s) \in Seq(Bytes) /\ Len(Unread(s)) = k
  BY <1>3, <1>4
<1> QED BY <1>1, <1>2, <1>5

\* The content is always the file with the pending bytes written over it.
LEMMA ContentIs ==
  ASSUME NEW s, NEW n, Good(s, n)
  PROVE  /\ ContentOf(s, n) = Overlay(n.data, n.off, Pending(s))
         /\ ContentOf(s, n) \in Seq(Bytes)
         /\ n.off + s.buffered_bytes_write <= Len(ContentOf(s, n))
         /\ n.off + s.buffered_bytes_write \in Nat
<1>1. /\ n.data \in Seq(Bytes) /\ n.off \in Nat /\ n.off <= Len(n.data)
      /\ s.buffered_bytes_write \in Nat
  BY UnreadBytes
<1>2. Pending(s) \in Seq(Bytes) /\ Len(Pending(s)) = s.buffered_bytes_write
  BY PendingBytes DEF Good
<1>3. ContentOf(s, n) = Overlay(n.data, n.off, Pending(s))
  <2>1. CASE s.buffered_bytes_write = 0
    <3>1. Pending(s) = <<>>
      BY <1>2, <2>1, EmptySeq
    <3> QED BY <1>1, <2>1, <3>1, OverlayNone DEF ContentOf
  <2>2. CASE s.buffered_bytes_write # 0
    BY <2>2 DEF ContentOf
  <2> QED BY <2>1, <2>2
<1>4. /\ Overlay(n.data, n.off, Pending(s)) \in Seq(Bytes)
      /\ n.off + Len(Pending(s)) <= Len(Overlay(n.data, n.off, Pending(s)))
  BY <1>1, <1>2, OverlayType
<1> QED BY <1>1, <1>2, <1>3, <1>4

\* Without unread bytes the input is the content from the position on.
LEMMA NoUnread ==
  ASSUME NEW s, NEW n, Good(s, n), UnreadCount(s) = 0
  PROVE  /\ InputOf(s, n) = Rest(ContentOf(s, n), PosOf(s, n))
         /\ PosOf(s, n) = n.off + s.buffered_bytes_write
         /\ Unread(s) = <<>>
         /\ PosOf(s, n) \in Nat /\ PosOf(s, n) <= Len(ContentOf(s, n))
<1>1. Unread(s) = <<>>
  BY UnreadBytes, EmptySeq
<1>2. PosOf(s, n) = n.off + s.buffered_bytes_write
  BY UnreadBytes DEF PosOf
<1>3. PICK p \in Nat : p = n.off + s.buffered_bytes_write /\ p <= Len(ContentOf(s, n))
  BY ContentIs
<1>4. Rest(ContentOf(s, n), p) \in Seq(Bytes)
  BY <1>3, ContentIs, RestIs
<1>5. <<>> \o Rest(ContentOf(s, n), p) = Rest(ContentOf(s, n), p)
  BY <1>4, ConcatEmptySeq
<1> QED BY <1>1, <1>2, <1>3, <1>5 DEF InputOf
-----------------------------------------------------------------------------
(* The functions, as the caller sees them                                   *)

\* The state between calls.
Calm(s, n) == Ready(s, n) /\ Plain(s)

\* The view depends on the buffer, not on the flags.
LEMMA SameBufferView ==
  ASSUME NEW s, NEW t, SameBuffer(s, t), NEW n
  PROVE  /\ SameView(s, n, t, n) /\ Unread(t) = Unread(s)
         /\ Pending(t) = Pending(s) /\ UnreadCount(t) = UnreadCount(s)
BY DEF SameBuffer, SameView, ContentOf, PosOf, InputOf, Unread, UnreadCount, Pending

\* Writing the pending bytes changes nothing for the caller, and cannot fail.
LEMMA FflushWriteView ==
  ASSUME NEW s, NEW n, Calm(s, n), Faultless, NEW o \in FflushWriteUnlocked(s, n)
  PROVE  /\ o.ret = 0 /\ Calm(o.s, o.n) /\ SameMode(s, o.s) /\ Steady(s, o.s)
         /\ SameView(s, n, o.s, o.n)
         /\ o.s.buffered_bytes_write = 0 /\ UnreadCount(o.s) = UnreadCount(s)
<1>0. Ready(s, n) /\ Plain(s) /\ Good(s, n) /\ s \in Streams /\ n \in Nodes
      /\ InBounds(s) /\ n.off <= Len(n.data) /\ ~n.refused
  BY DEF Calm, Ready, Good
<1>1. CASE ~Has(s, "DIRECTION_WRITE")
  <2>1. o.s = s /\ o.n = n /\ o.ret = 0
    BY <1>1 DEF FflushWriteUnlocked, Outcome
  <2>2. s.buffered_bytes_write = 0
    BY <1>0, <1>1 DEF Ready, Directed, Streams
  <2> QED BY <1>0, <2>1, <2>2 DEF Calm, SameMode, Steady, SameView
<1>2. CASE Has(s, "DIRECTION_WRITE")
  <2>0. Has(s, "MODE_WRITE")
    BY <1>0, <1>2 DEF Plain
  <2>1. PICK w \in WriteOutcomes(n, Pending(s)) :
          o = Outcome([s EXCEPT !.flags = (@ \cup w.flag) \ {"DIRECTION_WRITE"},
                                !.buffered_bytes_write = @ - w.written],
                      w.n, IF w.flag = {} THEN 0 ELSE EOF)
    BY <1>2, <2>0 DEF FflushWriteUnlocked
  <2>2. w = [n |-> WriteAt(n, Pending(s)), written |-> Len(Pending(s)), flag |-> {}]
    <3>1. "error" \notin Faults /\ "eof" \notin Faults
      BY DEF Faultless
    <3> QED BY <2>1, <3>1 DEF WriteOutcomes
  <2>3. Pending(s) \in Seq(Bytes) /\ Len(Pending(s)) = s.buffered_bytes_write
    BY <1>0, PendingBytes
  <2>4. s.buffered_bytes_write - s.buffered_bytes_write = 0 /\ s.flags \in SUBSET Flags
    BY <1>0 DEF Streams
  <2>5. o = Outcome([s EXCEPT !.flags = s.flags \ {"DIRECTION_WRITE"},
                              !.buffered_bytes_write = 0], WriteAt(n, Pending(s)), 0)
    <3>1. (s.flags \cup {}) \ {"DIRECTION_WRITE"} = s.flags \ {"DIRECTION_WRITE"}
      OBVIOUS
    <3>2. w.flag = {} /\ w.n = WriteAt(n, Pending(s)) /\ w.written = s.buffered_bytes_write
      BY <2>2, <2>3
    <3>3. o = Outcome([s EXCEPT !.flags = (s.flags \cup w.flag) \ {"DIRECTION_WRITE"},
                                !.buffered_bytes_write = s.buffered_bytes_write - w.written],
                      w.n, 0)
      BY <2>1, <3>2
    <3> QED BY <2>4, <3>1, <3>2, <3>3, Zenon
  <2> DEFINE fl == s.flags \ {"DIRECTION_WRITE"}
  <2>6. fl \in SUBSET Flags /\ \A f : f \in fl <=> f \in s.flags /\ f # "DIRECTION_WRITE"
    BY <2>4
  <2> HIDE DEF fl
  <2>7. /\ o.s \in Streams /\ o.s.flags = fl /\ o.s.buffered_bytes_write = 0
        /\ o.s.buffer = s.buffer /\ o.s.buffer_mode = s.buffer_mode
        /\ o.s.buffered_bytes_read = s.buffered_bytes_read
        /\ o.s.buffered_bytes_read_offset = s.buffered_bytes_read_offset
        /\ o.n = WriteAt(n, Pending(s)) /\ o.ret = 0
    BY <1>0, <2>5, <2>6 DEF Outcome, Streams, fl
  <2>8. /\ Ready(o.s, o.n) /\ Steady(s, o.s) /\ UnreadCount(o.s) = UnreadCount(s)
    <3>1. /\ Good(o.s, o.n) /\ Steady(s, o.s) /\ UnreadCount(o.s) = UnreadCount(s)
          /\ Ends(s, o)
      BY <1>0, FflushWriteGood
    <3>2. ~o.n.refused
      BY <2>7, <3>1 DEF Ends, EOF
    <3> QED BY <3>1, <3>2 DEF Ends, Safe, Ready
  <2>9. Plain(o.s) /\ SameMode(s, o.s)
    BY <1>0, <2>6, <2>7, <2>8 DEF Plain, SameMode, Has
  <2>10. o.n.off = n.off + s.buffered_bytes_write /\ o.n.data = ContentOf(s, n)
    <3>1. ContentOf(s, n) = Overlay(n.data, n.off, Pending(s))
      BY <1>0, ContentIs
    <3>2. CASE Pending(s) = <<>>
      <4>1. o.n = n /\ s.buffered_bytes_write = 0
        BY <2>3, <2>7, <3>2, EmptySeq DEF WriteAt
      <4> QED BY <1>0, <4>1 DEF ContentOf, Nodes
    <3>3. CASE Pending(s) # <<>>
      <4>1. o.n = [n EXCEPT !.data = ContentOf(s, n), !.off = n.off + s.buffered_bytes_write]
        BY <2>3, <2>7, <3>1, <3>3 DEF WriteAt
      <4> QED BY <1>0, <4>1 DEF Nodes
    <3> QED BY <3>2, <3>3
  <2>11. SameView(s, n, o.s, o.n)
    <3>1. ContentOf(o.s, o.n) = ContentOf(s, n)
      BY <2>7, <2>10 DEF ContentOf
    <3>2. Unread(o.s) = Unread(s)
      BY <2>7, <2>8 DEF Unread
    <3>3. o.n.off + o.s.buffered_bytes_write = n.off + s.buffered_bytes_write
      BY <1>0, <2>7, <2>10 DEF Streams, Nodes
    <3>4. PosOf(o.s, o.n) = PosOf(s, n)
      <4>1. UnreadCount(s) \in Nat /\ n.off \in Nat /\ s.buffered_bytes_write \in Nat
        BY <1>0, UnreadBytes
      <4> QED BY <2>7, <2>8, <2>10, <4>1 DEF PosOf
    <3>5. InputOf(o.s, o.n) = InputOf(s, n)
      BY <3>1, <3>2, <3>3, Zenon DEF InputOf
    <3> QED BY <3>1, <3>4, <3>5 DEF SameView
  <2> QED BY <2>7, <2>8, <2>9, <2>11 DEF Calm
<1> QED BY <1>1, <1>2

\* Dropping the bytes read ahead moves back to where the caller is.
LEMMA FflushReadView ==
  ASSUME NEW s, NEW n, Calm(s, n), Faultless, NEW o \in FflushReadUnlocked(s, n)
  PROVE  /\ o.ret = 0 /\ Calm(o.s, o.n) /\ SameMode(s, o.s) /\ Steady(s, o.s)
         /\ UnreadCount(o.s) = 0
         /\ ContentOf(o.s, o.n) = ContentOf(s, n)
         /\ PosOf(o.s, o.n) = IF PosOf(s, n) < 0 THEN 0 ELSE PosOf(s, n)
<1>0. Ready(s, n) /\ Plain(s) /\ Good(s, n) /\ s \in Streams /\ n \in Nodes
      /\ InBounds(s) /\ n.off <= Len(n.data) /\ ~n.refused
  BY DEF Calm, Ready, Good
<1>1. UnreadCount(s) \in Nat /\ n.off \in Nat /\ s.buffered_bytes_write \in Nat
  BY <1>0, UnreadBytes
<1>2. CASE ~Has(s, "DIRECTION_READ")
  <2>1. o.s = s /\ o.n = n /\ o.ret = 0
    BY <1>2 DEF FflushReadUnlocked, Outcome
  <2>2. UnreadCount(s) = 0
    BY <1>0, <1>1, <1>2 DEF Ready, Directed
  <2>3. PosOf(s, n) >= 0 /\ PosOf(s, n) \in Nat
    BY <1>1, <2>2 DEF PosOf
  <2>4. ~(PosOf(s, n) < 0)
    BY <2>3
  <2> QED BY <1>0, <2>1, <2>2, <2>4 DEF Calm, SameMode, Steady
<1>3. CASE Has(s, "DIRECTION_READ")
  <2>0. Has(s, "MODE_READ") /\ "seek" \notin Faults
    BY <1>0, <1>3 DEF Plain, Faultless
  <2> DEFINE back  == IF n.off < UnreadCount(s) THEN 0 ELSE n.off - UnreadCount(s)
             zeroed == [s EXCEPT !.buffered_bytes_read = 0,
                                 !.buffered_bytes_read_offset = 0]
             reset == Clear(zeroed, {"DIRECTION_READ"})
  <2>1. back \in Nat /\ back <= n.off
    BY <1>1
  <2>2. o.s = reset /\ o.n = [n EXCEPT !.off = back] /\ o.ret = 0
    BY <1>3, <2>0 DEF FflushReadUnlocked, Outcome
  <2>3. /\ zeroed \in Streams /\ zeroed.flags = s.flags
        /\ zeroed.buffer = s.buffer /\ zeroed.buffer_mode = s.buffer_mode
        /\ zeroed.buffered_bytes_write = s.buffered_bytes_write
    BY <1>0 DEF Streams
  <2> HIDE DEF zeroed
  <2>4. {"DIRECTION_READ"} \in SUBSET Flags
    BY DEF Flags
  <2>5. SameBuffer(zeroed, reset) /\ reset.flags = s.flags \ {"DIRECTION_READ"}
    BY <2>3, <2>4, SetClear
  <2>6. /\ o.s.buffer = s.buffer /\ o.s.buffer_mode = s.buffer_mode
        /\ o.s.buffered_bytes_write = s.buffered_bytes_write
        /\ o.s.flags = s.flags \ {"DIRECTION_READ"}
    BY <2>2, <2>3, <2>5 DEF SameBuffer
  <2> HIDE DEF back
  <2>7. o.n.off = back /\ o.n.data = n.data /\ ~o.n.refused
    BY <1>0, <2>1, <2>2 DEF Nodes
  <2>8. Good(o.s, o.n) /\ Steady(s, o.s) /\ Ends(s, o) /\ UnreadCount(o.s) = 0
    BY <1>0, <2>2, FflushReadGood
  <2>9. Ready(o.s, o.n)
    BY <2>7, <2>8 DEF Ends, Safe, Ready
  <2>10. Plain(o.s) /\ SameMode(s, o.s)
    BY <1>0, <2>6, <2>8 DEF Plain, SameMode, Has
  <2>11. s.buffered_bytes_write = 0 \/ UnreadCount(s) = 0
    BY <1>0 DEF Ready, Directed
  <2>12. CASE s.buffered_bytes_write = 0
    <3>1. ContentOf(o.s, o.n) = ContentOf(s, n)
      BY <2>6, <2>7, <2>12 DEF ContentOf
    <3>2. PosOf(o.s, o.n) = IF PosOf(s, n) < 0 THEN 0 ELSE PosOf(s, n)
      BY <1>1, <2>1, <2>6, <2>7, <2>8, <2>12 DEF PosOf, back
    <3> QED BY <2>2, <2>8, <2>9, <2>10, <3>1, <3>2 DEF Calm
  <2>13. CASE UnreadCount(s) = 0
    <3>1. back = n.off
      BY <1>1, <2>13 DEF back
    <3>2. ContentOf(o.s, o.n) = ContentOf(s, n)
      BY <2>6, <2>7, <3>1 DEF ContentOf, Pending
    <3>3. PosOf(o.s, o.n) = IF PosOf(s, n) < 0 THEN 0 ELSE PosOf(s, n)
      BY <1>1, <2>6, <2>7, <2>8, <2>13, <3>1 DEF PosOf
    <3> QED BY <2>2, <2>8, <2>9, <2>10, <3>2, <3>3 DEF Calm
  <2> QED BY <2>11, <2>12, <2>13
<1> QED BY <1>2, <1>3

\* fflush: the caller's position, if it is one, and nothing else.
LEMMA FflushView ==
  ASSUME NEW s, NEW n, Calm(s, n), Faultless, NEW o \in FflushUnlocked(s, n)
  PROVE  /\ o.ret = 0 /\ Calm(o.s, o.n) /\ SameMode(s, o.s) /\ Steady(s, o.s)
         /\ o.s.buffered_bytes_write = 0 /\ UnreadCount(o.s) = 0
         /\ ContentOf(o.s, o.n) = ContentOf(s, n)
         /\ PosOf(o.s, o.n) = IF PosOf(s, n) < 0 THEN 0 ELSE PosOf(s, n)
<1>1. PICK r \in FflushReadUnlocked(s, n) :
        IF r.ret = EOF THEN o = r ELSE o \in FflushWriteUnlocked(r.s, r.n)
  BY DEF FflushUnlocked, Then
<1>2. /\ r.ret = 0 /\ Calm(r.s, r.n) /\ SameMode(s, r.s) /\ Steady(s, r.s)
      /\ UnreadCount(r.s) = 0
      /\ ContentOf(r.s, r.n) = ContentOf(s, n)
      /\ PosOf(r.s, r.n) = IF PosOf(s, n) < 0 THEN 0 ELSE PosOf(s, n)
  BY FflushReadView
<1>3. o \in FflushWriteUnlocked(r.s, r.n)
  BY <1>1, <1>2 DEF EOF
<1>4. /\ o.ret = 0 /\ Calm(o.s, o.n) /\ SameMode(r.s, o.s) /\ Steady(r.s, o.s)
      /\ SameView(r.s, r.n, o.s, o.n)
      /\ o.s.buffered_bytes_write = 0 /\ UnreadCount(o.s) = UnreadCount(r.s)
  BY <1>2, <1>3, FflushWriteView
<1> QED BY <1>2, <1>4 DEF SameMode, Steady, SameView

\* An empty buffer leaves the file and its offset to be seen.
LEMMA EmptyView ==
  ASSUME NEW s, NEW n, NEW t, s.buffered_bytes_write = 0, UnreadCount(s) = 0,
         t.buffered_bytes_write = 0, UnreadCount(t) = 0
  PROVE  SameView(s, n, t, n)
<1>1. 1 .. 0 = {}
  OBVIOUS
<1>2. Unread(s) = Unread(t)
  BY <1>1 DEF Unread
<1> QED BY <1>2 DEF SameView, ContentOf, PosOf, InputOf

\* setvbuf on an empty buffer.
LEMMA SetvbufView ==
  ASSUME NEW s, NEW n, Calm(s, n), Faultless, s.buffered_bytes_write = 0,
         UnreadCount(s) = 0, NEW buf \in {NULL, "user"}, NEW mode \in {FBF, LBF, NBF},
         NEW size \in UserSizes \cup {0, BUFSIZ}, buf # NULL => size \in UserSizes,
         NEW o \in SetvbufUnlocked(s, n, buf, mode, size)
  PROVE  /\ o.ret = 0 /\ o.n = n /\ Calm(o.s, n) /\ SameView(s, n, o.s, n)
         /\ o.s.buffered_bytes_write = 0 /\ UnreadCount(o.s) = 0
         /\ o.s.buffer_mode = mode
         /\ Has(o.s, "BUFFER_SET") /\ o.s.buffer_size > 0 /\ o.s.open = s.open
         /\ Has(o.s, "MODE_READ") <=> Has(s, "MODE_READ")
         /\ Has(o.s, "MODE_WRITE") <=> Has(s, "MODE_WRITE")
<1>0. Ready(s, n) /\ Plain(s) /\ Good(s, n) /\ s \in Streams
  BY DEF Calm, Ready, Good
<1> DEFINE bytes == IF buf # NULL THEN size
                    ELSE IF size = 0 THEN BUFSIZ
                    ELSE IF size < BUFSIZMIN THEN BUFSIZMIN ELSE size
           fl    == (s.flags \ {"OWNER_LIBRARY"}) \cup {"BUFFER_SET"}
                    \cup (IF buf # NULL THEN {} ELSE {"OWNER_LIBRARY"})
           done  == [s EXCEPT !.memory = "live", !.buffer = NewBuffer(bytes),
                              !.buffer_size = bytes, !.buffer_mode = mode,
                              !.buffered_bytes_read = 0,
                              !.buffered_bytes_read_offset = 0,
                              !.buffered_bytes_write = 0, !.flags = fl]
<1>1. o = Outcome(done, n, 0)
  <2>1. "alloc" \notin Faults
    BY DEF Faultless
  <2> QED BY <2>1 DEF SetvbufUnlocked
<1>2. \A f : f \in fl <=> \/ f \in s.flags /\ f # "OWNER_LIBRARY"
                          \/ f = "BUFFER_SET" \/ (f = "OWNER_LIBRARY" /\ buf = NULL)
  OBVIOUS
<1> HIDE DEF bytes, fl
<1>3. /\ o.s.flags = fl /\ o.s.buffer_mode = mode
      /\ o.s.buffered_bytes_write = 0 /\ o.s.buffered_bytes_read = 0
      /\ o.s.buffered_bytes_read_offset = 0
      /\ o.n = n /\ o.ret = 0
  BY <1>0, <1>1 DEF Streams, Outcome
<1>4. /\ Good(o.s, o.n) /\ o.s.open = s.open /\ Directed(o.s)
      /\ Has(o.s, "BUFFER_SET") /\ o.s.buffer_size > 0
  BY <1>0, <1>3, SetvbufGood
<1>5. UnreadCount(o.s) = 0
  BY <1>3 DEF UnreadCount
<1>6. /\ Plain(o.s)
      /\ Has(o.s, "MODE_READ") <=> Has(s, "MODE_READ")
      /\ Has(o.s, "MODE_WRITE") <=> Has(s, "MODE_WRITE")
  BY <1>0, <1>2, <1>3, <1>4, <1>5 DEF Plain, Has
<1>7. SameView(s, n, o.s, n)
  BY <1>3, <1>5, EmptyView
<1> QED BY <1>0, <1>3, <1>4, <1>5, <1>6, <1>7 DEF Calm, Ready

\* What every access starts with.
LEMMA EnsureBufferView ==
  ASSUME NEW s, NEW n, Calm(s, n), Sized(s), Faultless, NEW o \in EnsureBuffer(s, n)
  PROVE  /\ o.ret = 0 /\ o.n = n /\ Calm(o.s, n) /\ SameView(s, n, o.s, n)
         /\ Has(o.s, "BUFFER_SET") /\ o.s.buffer_size > 0 /\ o.s.open = s.open
         /\ Has(o.s, "MODE_READ") <=> Has(s, "MODE_READ")
         /\ Has(o.s, "MODE_WRITE") <=> Has(s, "MODE_WRITE")
<1>1. CASE Has(s, "BUFFER_SET")
  <2>1. o.s = s /\ o.n = n /\ o.ret = 0
    BY <1>1 DEF EnsureBuffer, Outcome
  <2> QED BY <1>1, <2>1 DEF Sized, SameView
<1>2. CASE ~Has(s, "BUFFER_SET")
  <2>1. s.buffered_bytes_write = 0 /\ UnreadCount(s) = 0
    BY <1>2 DEF Calm, Plain
  <2>2. o \in SetvbufUnlocked(s, n, NULL, FBF, BUFSIZ)
    BY <1>2 DEF EnsureBuffer, SetdefbufUnlocked
  <2> QED BY <2>1, <2>2, SetvbufView
<1> QED BY <1>1, <1>2

\* A read call: short at most, and nothing only at the end of the file.
LEMMA ReadOutcomesPlain ==
  ASSUME NEW s, NEW n \in Nodes, n.off <= Len(n.data), NEW most \in Nat, most > 0,
         Faultless, Has(s, "MODE_READ"), NEW r \in ReadOutcomes(s, n, most)
  PROVE  /\ r.read \in Nat /\ n.off + r.read <= Len(n.data)
         /\ r.n \in Nodes /\ r.n.data = n.data /\ r.n.off = n.off + r.read
         /\ r.n.refused = n.refused
         /\ r.read = 0 => n.off = Len(n.data) /\ r.n = n
<1> DEFINE there == IF Available(n) < most THEN Available(n) ELSE most
<1>1. n.off \in Nat /\ Len(n.data) \in Nat
  BY DEF Nodes
<1>2. Available(n) \in Nat /\ n.off + Available(n) = Len(n.data)
  BY <1>1 DEF Available
<1>3. there \in Nat /\ n.off + there <= Len(n.data) /\ (there = 0 => n.off = Len(n.data))
  BY <1>1, <1>2
<1>4. "error" \notin Faults
  BY DEF Faultless
<1> HIDE DEF there
<1>5. PICK k \in {there} \cup 1 .. there :
        r = [n |-> IF k > 0 THEN [n EXCEPT !.off = @ + k]
                   ELSE IF k = -1 /\ Has(s, "MODE_READ") THEN Refuse(n) ELSE n,
             read |-> k]
  BY <1>4 DEF ReadOutcomes, there
<1>6. k \in Nat /\ n.off + k <= Len(n.data) /\ (k = 0 => n.off = Len(n.data))
  BY <1>1, <1>3, <1>5
<1>7. CASE k > 0
  <2>1. r.n = [n EXCEPT !.off = n.off + k] /\ r.read = k /\ n.off + k \in Nat
    BY <1>1, <1>5, <1>6, <1>7
  <2> QED BY <1>6, <1>7, <2>1 DEF Nodes
<1>8. CASE k = 0
  <2>1. r.n = n /\ r.read = 0
    BY <1>5, <1>8
  <2> QED BY <1>1, <1>6, <1>8, <2>1
<1> QED BY <1>6, <1>7, <1>8

\* The next k bytes of a file, and the rest after them.
LEMMA NextBytes ==
  ASSUME NEW f \in Seq(Bytes), NEW p \in Nat, NEW k \in Nat, p + k <= Len(f),
         NEW u \in Seq(Bytes), Len(u) = k, \A i \in 1 .. k : u[i] = f[p + i]
  PROVE  u = SubSeq(f, p + 1, p + k) /\ u \o Rest(f, p + k) = Rest(f, p)
<1>1. /\ SubSeq(f, p + 1, p + k) \in Seq(Bytes)
      /\ Len(SubSeq(f, p + 1, p + k)) = k
      /\ \A i \in 1 .. k : SubSeq(f, p + 1, p + k)[i] = f[p + i]
  BY Slice
<1>2. PICK v \in Seq(Bytes) : v = SubSeq(f, p + 1, p + k)
  BY <1>1
<1>3. u = v
  BY <1>1, <1>2, SeqEqual
<1>4. SubSeq(f, p + 1, p + k) \o Rest(f, p + k) = Rest(f, p)
  BY RestSplit
<1> QED BY <1>2, <1>3, <1>4

\* Filling an empty buffer changes nothing for the caller, and fails only when
\* there is no input left.
LEMMA FillBufferView ==
  ASSUME NEW s, NEW n, Calm(s, n), s.buffered_bytes_write = 0, UnreadCount(s) = 0,
         s.buffer_size > 0, s.buffer_mode # NBF, Has(s, "DIRECTION_READ"), Faultless,
         NEW o \in FillBuffer(s, n)
  PROVE  /\ o.ret \in {0, EOF} /\ Calm(o.s, o.n) /\ SameMode(s, o.s) /\ Steady(s, o.s)
         /\ SameView(s, n, o.s, o.n) /\ o.s.buffered_bytes_write = 0
         /\ Has(o.s, "DIRECTION_READ")
         /\ o.ret = 0 => o.s.buffered_bytes_read_offset < o.s.buffered_bytes_read
         /\ o.ret = EOF => InputOf(s, n) = <<>>
<1>0. Ready(s, n) /\ Plain(s) /\ Good(s, n) /\ s \in Streams /\ n \in Nodes
      /\ InBounds(s) /\ n.off <= Len(n.data) /\ ~n.refused /\ Has(s, "MODE_READ")
  BY DEF Calm, Ready, Good, Plain
<1> DEFINE space == IF UNGET >= s.buffer_size THEN 0 ELSE UNGET
<1>1. s.buffer_size \in Nat /\ UNGET \in Nat
  BY <1>0, SizesNat, StreamAssumption DEF Streams
<1>2. space \in Nat /\ s.buffer_size - space \in Nat /\ s.buffer_size - space > 0
  BY <1>1
<1> DEFINE most == s.buffer_size - space
           Filled(r) ==
             [s EXCEPT !.buffer = [i \in DOMAIN @ |->
                                     IF i >= space /\ i < space + r.read
                                     THEN n.data[n.off + i - space + 1] ELSE @[i]],
                       !.buffered_bytes_read = space + r.read,
                       !.buffered_bytes_read_offset = space]
<1>3. PICK r \in ReadOutcomes(s, n, most) :
        o = CASE r.read = 0  -> Outcome(Set(s, {"EOF"}), r.n, EOF)
              [] r.read = -1 -> Outcome(Set(s, {"ERROR"}), r.n, EOF)
              [] OTHER       -> Outcome(Filled(r), r.n, 0)
  BY DEF FillBuffer
<1> HIDE DEF space
<1>4. /\ r.read \in Nat /\ n.off + r.read <= Len(n.data)
      /\ r.n \in Nodes /\ r.n.data = n.data /\ r.n.off = n.off + r.read
      /\ r.n.refused = n.refused
      /\ r.read = 0 => n.off = Len(n.data) /\ r.n = n
  BY <1>0, <1>2, <1>3, ReadOutcomesPlain
<1>5. /\ Ends(s, o) /\ o.ret \in {0, EOF}
      /\ o.ret = 0 => /\ o.s.buffered_bytes_write = 0
                      /\ o.s.buffered_bytes_read_offset < o.s.buffered_bytes_read
                      /\ Has(o.s, "DIRECTION_READ")
  BY <1>0, FillBufferGood
<1>6. n.data \in Seq(Bytes) /\ n.off \in Nat /\ Len(n.data) \in Nat
  BY <1>0 DEF Nodes
<1>7. CASE r.read = 0
  <2>1. o.s = Set(s, {"EOF"}) /\ o.n = n /\ o.ret = EOF
    BY <1>3, <1>4, <1>7 DEF Outcome
  <2>2. {"EOF"} \in SUBSET Flags
    BY DEF Flags
  <2>3. o.s \in Streams /\ SameBuffer(s, o.s) /\ o.s.flags = s.flags \cup {"EOF"}
    BY <1>0, <2>1, <2>2, SetClear
  <2>4. SameView(s, n, o.s, o.n) /\ UnreadCount(o.s) = UnreadCount(s)
    BY <2>1, <2>3, SameBufferView
  <2>5. Ready(o.s, o.n)
    BY <1>0, <1>5, <2>1 DEF Ends, Safe, Ready
  <2>6. /\ Plain(o.s) /\ SameMode(s, o.s) /\ Has(o.s, "DIRECTION_READ")
        /\ o.s.buffered_bytes_write = 0
    BY <1>0, <2>3, <2>4 DEF Plain, SameMode, SameBuffer, Has
  <2>7. InputOf(s, n) = <<>>
    <3>1. ContentOf(s, n) = n.data /\ PosOf(s, n) = Len(n.data)
      BY <1>4, <1>6, <1>7 DEF ContentOf, PosOf
    <3>2. InputOf(s, n) = Rest(n.data, Len(n.data))
      BY <1>0, <3>1, NoUnread
    <3>3. Len(n.data) <= Len(n.data)
      BY <1>6
    <3>4. Rest(n.data, Len(n.data)) \in Seq(Bytes) /\ Len(Rest(n.data, Len(n.data))) = 0
      BY <1>6, <3>3, RestIs
    <3> QED BY <3>2, <3>4, EmptySeq
  <2> QED BY <1>5, <2>1, <2>4, <2>5, <2>6, <2>7 DEF Calm, Ends, EOF
<1>8. CASE r.read # 0
  <2>1. o.s = Filled(r) /\ o.n = r.n /\ o.ret = 0
    BY <1>3, <1>4, <1>8 DEF Outcome
  <2> DEFINE buf == [i \in DOMAIN s.buffer |->
                       IF i >= space /\ i < space + r.read
                       THEN n.data[n.off + i - space + 1] ELSE s.buffer[i]]
             br  == space + r.read
  <2>2. o.s = [s EXCEPT !.buffer = buf, !.buffered_bytes_read = br,
                        !.buffered_bytes_read_offset = space]
    BY <2>1
  <2> HIDE DEF buf, br
  <2>3. /\ o.s.flags = s.flags /\ o.s.buffer = buf /\ o.s.buffer_mode = s.buffer_mode
        /\ o.s.buffered_bytes_write = 0 /\ o.s.buffer_size = s.buffer_size
        /\ o.s.buffered_bytes_read = br /\ o.s.buffered_bytes_read_offset = space
    BY <1>0, <2>2 DEF Streams
  <2>4. Ready(o.s, o.n)
    BY <1>0, <1>4, <1>5, <2>1 DEF Ends, Safe, Ready
  <2>5. UnreadCount(o.s) = r.read
    BY <1>2, <1>4, <2>3 DEF UnreadCount, br
  <2>6. Plain(o.s) /\ SameMode(s, o.s)
    BY <1>0, <2>3 DEF Plain, SameMode, Has
  <2>7. ASSUME NEW i \in 1 .. r.read PROVE Unread(o.s)[i] = n.data[n.off + i]
    <3>1. Unread(o.s)[i] = buf[space + i - 1]
      BY <2>3, <2>5 DEF Unread
    <3>2. /\ space + i - 1 \in 0 .. s.buffer_size - 1
          /\ space + i - 1 >= space /\ space + i - 1 < space + r.read
          /\ n.off + (space + i - 1) - space + 1 = n.off + i
      <4>1. r.read <= s.buffer_size - space
        <5>1. r.read \in -1 .. most
          BY <1>0, <1>2, <1>3, ReadOutcomesGood
        <5> QED BY <1>2, <1>4, <5>1
      <4>2. PICK a \in Nat, b \in Nat, c \in Nat, q \in Nat :
              a = space /\ b = s.buffer_size /\ c = r.read /\ q = n.off
        BY <1>1, <1>2, <1>4, <1>6
      <4>3. i \in 1 .. c /\ c <= b - a
        BY <4>1, <4>2
      <4>4. /\ a + i - 1 \in 0 .. b - 1 /\ a + i - 1 >= a /\ a + i - 1 < a + c
            /\ q + (a + i - 1) - a + 1 = q + i
        BY <4>3
      <4> QED BY <4>2, <4>4, Zenon
    <3>3. DOMAIN s.buffer = 0 .. s.buffer_size - 1
      BY <1>0 DEF InBounds
    <3> QED BY <3>1, <3>2, <3>3 DEF buf
  <2>8. PICK f \in Seq(Bytes), p \in Nat, k \in Nat :
          f = n.data /\ p = n.off /\ k = r.read /\ p + k <= Len(f)
    BY <1>4, <1>6
  <2>10. Unread(o.s) \o Rest(f, p + k) = Rest(f, p)
    <3>1. PICK u \in Seq(Bytes) : u = Unread(o.s) /\ Len(u) = k
      BY <2>4, <2>5, <2>8, UnreadBytes DEF Ready
    <3>2. \A i \in 1 .. k : u[i] = f[p + i]
      BY <2>7, <2>8, <3>1
    <3>3. u \o Rest(f, p + k) = Rest(f, p)
      <4>1. f \in Seq(Bytes) /\ p \in Nat /\ k \in Nat /\ p + k <= Len(f)
        BY <2>8
      <4>2. u \in Seq(Bytes) /\ Len(u) = k
        BY <3>1
      <4> QED BY <3>2, <4>1, <4>2, NextBytes, Zenon
    <3> QED BY <3>1, <3>3
  <2>9. SameView(s, n, o.s, o.n)
    <3>1. ContentOf(s, n) = n.data /\ ContentOf(o.s, o.n) = n.data
      BY <1>4, <2>1, <2>3 DEF ContentOf
    <3>2. PosOf(o.s, o.n) = n.off /\ PosOf(s, n) = n.off
      BY <1>4, <1>6, <2>1, <2>3, <2>5 DEF PosOf
    <3>3. InputOf(s, n) = Rest(n.data, n.off)
      BY <1>0, <3>1, <3>2, NoUnread
    <3>4. o.n.off + o.s.buffered_bytes_write = p + k
      BY <1>4, <1>6, <2>1, <2>3, <2>8
    <3>7. InputOf(o.s, o.n) = Rest(n.data, n.off)
      BY <2>8, <2>10, <3>1, <3>4, Zenon DEF InputOf
    <3> QED BY <3>1, <3>2, <3>3, <3>7 DEF SameView
  <2> QED BY <1>5, <2>1, <2>3, <2>4, <2>6, <2>9 DEF Calm, Ends, EOF
<1> QED BY <1>7, <1>8

\* A byte taken: the first of the input.
Took(s, n, o) ==
  /\ o.ret \in Bytes /\ ContentOf(o.s, o.n) = ContentOf(s, n)
  /\ PosOf(o.s, o.n) = PosOf(s, n) + 1
  /\ InputOf(s, n) = <<o.ret>> \o InputOf(o.s, o.n)
  /\ InputOf(o.s, o.n) \in Seq(Bytes)

\* The input are bytes.
LEMMA InputBytes ==
  ASSUME NEW s, NEW n, Good(s, n)
  PROVE  /\ InputOf(s, n) \in Seq(Bytes) /\ PosOf(s, n) \in Int
         /\ Rest(ContentOf(s, n), n.off + s.buffered_bytes_write) \in Seq(Bytes)
<1>1. Unread(s) \in Seq(Bytes)
  BY UnreadBytes
<1>2. Rest(ContentOf(s, n), n.off + s.buffered_bytes_write) \in Seq(Bytes)
  BY ContentIs, RestIs
<1>3. PosOf(s, n) \in Int
  BY UnreadBytes DEF PosOf
<1> QED BY <1>1, <1>2, <1>3, ConcatProperties DEF InputOf

\* What makes a sequence start with a byte.
LEMMA StartsWith ==
  ASSUME NEW x \in Bytes, NEW a \in Seq(Bytes), NEW f \in Seq(Bytes),
         Len(f) = Len(a) + 1, f[1] = x, \A i \in 1 .. Len(a) : f[i + 1] = a[i]
  PROVE  f = <<x>> \o a
<1>1. PICK u \in Seq(Bytes) : u = <<x>>
  <2>1. <<x>> = Append(<<>>, x)
    OBVIOUS
  <2> QED BY <2>1, EmptySeq, AppendProperties
<1>2. Len(u) = 1 /\ u[1] = x
  BY <1>1
<1>3. PICK g \in Seq(Bytes) : g = u \o a
  BY ConcatProperties
<1>4. /\ Len(g) = Len(u) + Len(a)
      /\ \A i \in 1 .. Len(u) + Len(a) :
           g[i] = IF i <= Len(u) THEN u[i] ELSE a[i - Len(u)]
  BY <1>3, ConcatProperties
<1>5. Len(a) \in Nat
  OBVIOUS
<1>6. ASSUME NEW i \in 1 .. Len(f) PROVE f[i] = g[i]
  <2>1. CASE i = 1
    BY <1>2, <1>4, <1>5, <2>1
  <2>2. CASE i # 1
    <3>1. /\ i - 1 \in 1 .. Len(a) /\ (i - 1) + 1 = i /\ ~(i <= Len(u))
          /\ i \in 1 .. Len(u) + Len(a) /\ i - Len(u) = i - 1
      BY <1>2, <1>5, <2>2
    <3>2. g[i] = a[i - 1]
      BY <1>4, <3>1
    <3>3. f[(i - 1) + 1] = a[i - 1]
      BY <3>1
    <3> QED BY <3>1, <3>2, <3>3
  <2> QED BY <2>1, <2>2
<1>7. Len(f) = Len(g)
  BY <1>2, <1>4, <1>5
<1> QED BY <1>1, <1>3, <1>6, <1>7, SeqEqual

\* The first of the unread bytes is the first of the input.
LEMMA UnreadTook ==
  ASSUME NEW s, NEW n, Good(s, n), NEW t, Good(t, n), NEW x \in Bytes,
         Unread(s) = <<x>> \o Unread(t), UnreadCount(s) = UnreadCount(t) + 1,
         t.buffered_bytes_write = 0, s.buffered_bytes_write = 0
  PROVE  /\ ContentOf(t, n) = ContentOf(s, n) /\ PosOf(t, n) = PosOf(s, n) + 1
         /\ InputOf(s, n) = <<x>> \o InputOf(t, n)
<1>1. ContentOf(t, n) = ContentOf(s, n)
  BY DEF ContentOf
<1>2. PosOf(t, n) = PosOf(s, n) + 1
  <2>1. UnreadCount(s) \in Nat /\ UnreadCount(t) \in Nat /\ n.off \in Nat
    BY UnreadBytes
  <2> QED BY <2>1 DEF PosOf
<1>3. PICK r \in Seq(Bytes) : r = Rest(ContentOf(s, n), n.off + s.buffered_bytes_write)
  BY InputBytes
<1>4. InputOf(s, n) = (<<x>> \o Unread(t)) \o r /\ InputOf(t, n) = Unread(t) \o r
  BY <1>1, <1>3 DEF InputOf
<1>5. <<x>> \in Seq(Bytes)
  <2>1. <<x>> = Append(<<>>, x)
    OBVIOUS
  <2> QED BY <2>1, EmptySeq, AppendProperties
<1>6. Unread(t) \in Seq(Bytes)
  BY UnreadBytes
<1>7. (<<x>> \o Unread(t)) \o r = <<x>> \o (Unread(t) \o r)
  BY <1>3, <1>5, <1>6, ConcatAssociative
<1> QED BY <1>1, <1>2, <1>4, <1>7

\* Taking a byte out of the buffer is reading the next byte of the input.
LEMMA TakeByteView ==
  ASSUME NEW s, NEW n, Calm(s, n), s.buffered_bytes_write = 0,
         Has(s, "DIRECTION_READ"), s.buffered_bytes_read_offset < s.buffered_bytes_read,
         NEW o \in TakeByte(s, n)
  PROVE  Took(s, n, o) /\ Calm(o.s, o.n) /\ SameMode(s, o.s) /\ Steady(s, o.s)
<1>0. Ready(s, n) /\ Plain(s) /\ Good(s, n) /\ s \in Streams
  BY DEF Calm, Ready, Good
<1>1. Ends(s, o) /\ o.ret \in Bytes
  BY <1>0, TakeByteGood
<1>2. /\ s.buffered_bytes_read \in Nat /\ s.buffered_bytes_read_offset \in Nat
      /\ s.buffered_bytes_read_offset + 1 \in Nat
  BY <1>0 DEF Streams
<1>3. /\ o.n = n /\ o.ret = s.buffer[s.buffered_bytes_read_offset]
      /\ o.s = [s EXCEPT !.buffered_bytes_read_offset = s.buffered_bytes_read_offset + 1]
  BY DEF TakeByte, Outcome
<1>4. /\ o.s.flags = s.flags /\ o.s.buffer = s.buffer /\ o.s.buffer_mode = s.buffer_mode
      /\ o.s.buffered_bytes_write = 0
      /\ o.s.buffered_bytes_read = s.buffered_bytes_read
      /\ o.s.buffered_bytes_read_offset = s.buffered_bytes_read_offset + 1
  BY <1>0, <1>3 DEF Streams
<1>5. Ready(o.s, o.n)
  BY <1>0, <1>1, <1>3 DEF Ends, Safe, Ready
<1>6. UnreadCount(s) = UnreadCount(o.s) + 1 /\ UnreadCount(s) # 0 /\ UnreadCount(o.s) \in Nat
  BY <1>2, <1>4 DEF UnreadCount
<1>7. Plain(o.s) /\ SameMode(s, o.s)
  BY <1>0, <1>4, <1>6 DEF Plain, SameMode, Has
<1>8. Unread(s) = <<o.ret>> \o Unread(o.s)
  <2>1. /\ Unread(s) \in Seq(Bytes) /\ Len(Unread(s)) = UnreadCount(s)
        /\ Unread(o.s) \in Seq(Bytes) /\ Len(Unread(o.s)) = UnreadCount(o.s)
    BY <1>0, <1>5, UnreadBytes DEF Ready
  <2>2. Unread(s)[1] = o.ret
    <3>1. 1 \in 1 .. UnreadCount(s) /\ s.buffered_bytes_read_offset + 1 - 1 = s.buffered_bytes_read_offset
      BY <1>2, <1>6
    <3> QED BY <1>3, <3>1 DEF Unread
  <2>3. ASSUME NEW i \in 1 .. UnreadCount(o.s) PROVE Unread(s)[i + 1] = Unread(o.s)[i]
    <3>1. /\ i + 1 \in 1 .. UnreadCount(s)
          /\ s.buffered_bytes_read_offset + (i + 1) - 1
               = (s.buffered_bytes_read_offset + 1) + i - 1
      BY <1>2, <1>6
    <3>2. Unread(s)[i + 1] = s.buffer[s.buffered_bytes_read_offset + (i + 1) - 1]
      BY <3>1 DEF Unread
    <3>3. Unread(o.s)[i] = s.buffer[(s.buffered_bytes_read_offset + 1) + i - 1]
      BY <1>4 DEF Unread
    <3> QED BY <3>1, <3>2, <3>3
  <2> QED BY <1>1, <1>6, <2>1, <2>2, <2>3, StartsWith
<1>9. /\ ContentOf(o.s, n) = ContentOf(s, n) /\ PosOf(o.s, n) = PosOf(s, n) + 1
      /\ InputOf(s, n) = <<o.ret>> \o InputOf(o.s, n)
  <2>1. Good(o.s, n)
    BY <1>3, <1>5 DEF Ready
  <2>2. /\ UnreadCount(s) = UnreadCount(o.s) + 1 /\ o.ret \in Bytes /\ Good(s, n)
        /\ o.s.buffered_bytes_write = 0 /\ s.buffered_bytes_write = 0
    BY <1>0, <1>1, <1>4, <1>6
  <2> QED BY <1>8, <2>1, <2>2, UnreadTook
<1>10. InputOf(o.s, n) \in Seq(Bytes)
  BY <1>3, <1>5, InputBytes DEF Ready
<1> QED BY <1>1, <1>3, <1>5, <1>7, <1>9, <1>10 DEF Took, Calm, Ends

\* Taking a byte after a step the caller does not see.
LEMMA TookAfter ==
  ASSUME NEW s, NEW n, NEW t, NEW m, SameView(s, n, t, m), NEW o, Took(t, m, o)
  PROVE  Took(s, n, o)
BY DEF SameView, Took

\* fgetc on a buffered stream: the next byte of the input, EOF if there is none.
LEMMA FgetcView ==
  ASSUME NEW s, NEW n, Calm(s, n), s.buffer_size > 0, s.buffer_mode # NBF,
         Has(s, "MODE_READ"), Faultless, NEW o \in FgetcBuffered(s, n)
  PROVE  /\ Calm(o.s, o.n) /\ SameMode(s, o.s) /\ Steady(s, o.s)
         /\ \/ Took(s, n, o)
            \/ o.ret = EOF /\ SameView(s, n, o.s, o.n) /\ InputOf(s, n) = <<>>
<1>1. PICK w \in FflushWriteUnlocked(s, n) :
        IF w.ret = EOF THEN o = w ELSE o \in ReadByte(w.s, w.n)
  BY DEF FgetcBuffered, Then
<1>2. /\ w.ret = 0 /\ Calm(w.s, w.n) /\ SameMode(s, w.s) /\ Steady(s, w.s)
      /\ SameView(s, n, w.s, w.n) /\ w.s.buffered_bytes_write = 0
  BY FflushWriteView
<1> DEFINE c == Clear(w.s, {"DIRECTION_WRITE"})
           t == Set(c, {"DIRECTION_READ"})
<1>3. Ready(w.s, w.n) /\ Plain(w.s) /\ w.s \in Streams
  BY <1>2 DEF Calm, Ready, Good
<1>4. {"DIRECTION_WRITE"} \in SUBSET Flags /\ {"DIRECTION_READ"} \in SUBSET Flags
  BY DEF Flags
<1>5. c \in Streams /\ SameBuffer(w.s, c) /\ c.flags = w.s.flags \ {"DIRECTION_WRITE"}
  BY <1>3, <1>4, SetClear
<1> HIDE DEF c
<1>6. t \in Streams /\ SameBuffer(c, t) /\ t.flags = c.flags \cup {"DIRECTION_READ"}
  BY <1>4, <1>5, SetClear
<1>7. o \in IF t.buffered_bytes_read_offset >= t.buffered_bytes_read
            THEN Then(FillBuffer(t, w.n), TakeByte) ELSE TakeByte(t, w.n)
  <2>1. w.ret # EOF
    BY <1>2 DEF EOF
  <2> QED BY <1>1, <2>1 DEF ReadByte, c
<1> HIDE DEF t
<1>8. SameBuffer(w.s, t)
  BY <1>5, <1>6 DEF SameBuffer
<1>9. InBounds(t) /\ t.buffered_bytes_write = 0 /\ UnreadCount(t) = UnreadCount(w.s)
  BY <1>2, <1>3, <1>8, SameBufferFacts DEF Ready, Good, SameBuffer
<1>10. /\ \A f : f \in t.flags <=> (f \in w.s.flags /\ f # "DIRECTION_WRITE")
                                   \/ f = "DIRECTION_READ"
  BY <1>5, <1>6
<1>11. Ready(t, w.n) /\ Has(t, "DIRECTION_READ") /\ Steady(w.s, t)
  BY <1>3, <1>6, <1>8, <1>9, <1>10 DEF Ready, Good, Directed, Has, Steady, SameBuffer
<1>12. Has(w.s, "MODE_READ") /\ w.s.buffer_mode # NBF /\ w.s.buffer_size > 0
  BY <1>2 DEF SameMode, Steady
<1>13. /\ Plain(t) /\ SameMode(w.s, t)
       /\ t.buffer_size > 0 /\ t.buffer_mode # NBF
  BY <1>3, <1>8, <1>10, <1>12 DEF Plain, SameMode, SameBuffer, Has
<1>14. Calm(t, w.n) /\ SameMode(s, t) /\ Steady(s, t)
  BY <1>2, <1>11, <1>13 DEF Calm, SameMode, Steady
<1>15. SameView(s, n, t, w.n)
  <2>1. SameView(w.s, w.n, t, w.n)
    BY <1>8, SameBufferView
  <2> QED BY <1>2, <2>1 DEF SameView
<1>16. /\ t.buffered_bytes_read \in Nat /\ t.buffered_bytes_read_offset \in Nat
       /\ t.buffered_bytes_read_offset <= t.buffered_bytes_read
  BY <1>6, <1>9 DEF Streams, InBounds
<1>17. CASE t.buffered_bytes_read_offset < t.buffered_bytes_read
  <2>1. o \in TakeByte(t, w.n)
    <3>1. ~(t.buffered_bytes_read_offset >= t.buffered_bytes_read)
      BY <1>16, <1>17
    <3> QED BY <1>7, <3>1, Zenon
  <2>2. Took(t, w.n, o) /\ Calm(o.s, o.n) /\ SameMode(t, o.s) /\ Steady(t, o.s)
    BY <1>9, <1>11, <1>14, <1>17, <2>1, TakeByteView
  <2>3. Took(s, n, o)
    BY <1>15, <2>2, TookAfter
  <2> QED BY <1>14, <2>2, <2>3 DEF SameMode, Steady
<1>18. CASE t.buffered_bytes_read_offset = t.buffered_bytes_read
  <2>1. PICK f \in FillBuffer(t, w.n) :
          IF f.ret = EOF THEN o = f ELSE o \in TakeByte(f.s, f.n)
    <3>1. o \in Then(FillBuffer(t, w.n), TakeByte)
      BY <1>7, <1>16, <1>18
    <3> QED BY <3>1 DEF Then
  <2>2. UnreadCount(t) = 0
    BY <1>16, <1>18 DEF UnreadCount
  <2>3. /\ f.ret \in {0, EOF} /\ Calm(f.s, f.n) /\ SameMode(t, f.s) /\ Steady(t, f.s)
        /\ SameView(t, w.n, f.s, f.n) /\ f.s.buffered_bytes_write = 0
        /\ Has(f.s, "DIRECTION_READ")
        /\ f.ret = 0 => f.s.buffered_bytes_read_offset < f.s.buffered_bytes_read
        /\ f.ret = EOF => InputOf(t, w.n) = <<>>
    BY <1>9, <1>11, <1>13, <1>14, <2>2, FillBufferView
  <2>4. SameView(s, n, f.s, f.n) /\ SameMode(s, f.s) /\ Steady(s, f.s)
    BY <1>14, <1>15, <2>3 DEF SameView, SameMode, Steady
  <2>5. CASE f.ret = EOF
    <3>1. InputOf(s, n) = <<>>
      BY <1>15, <2>3, <2>5 DEF SameView
    <3>2. o = f
      BY <2>1, <2>5
    <3> QED BY <2>3, <2>4, <2>5, <3>1, <3>2
  <2>6. CASE f.ret # EOF
    <3>1. o \in TakeByte(f.s, f.n)
      BY <2>1, <2>6
    <3>2. Took(f.s, f.n, o) /\ Calm(o.s, o.n) /\ SameMode(f.s, o.s) /\ Steady(f.s, o.s)
      BY <2>3, <2>6, <3>1, TakeByteView
    <3>3. Took(s, n, o)
      BY <2>4, <3>2, TookAfter
    <3> QED BY <2>4, <3>2, <3>3 DEF SameMode, Steady
  <2> QED BY <2>5, <2>6
<1> QED BY <1>16, <1>17, <1>18

\* A byte stored in the buffer is written where the caller is.
LEMMA StoreByteView ==
  ASSUME NEW s, NEW n, Calm(s, n), UnreadCount(s) = 0, s.buffer_mode # NBF,
         s.buffered_bytes_write < s.buffer_size, Has(s, "DIRECTION_WRITE"),
         NEW c \in Bytes, NEW t, t = StoreByte(s, c)
  PROVE  /\ Calm(t, n) /\ SameMode(s, t) /\ Steady(s, t) /\ UnreadCount(t) = 0
         /\ ContentOf(t, n) = Overlay(ContentOf(s, n), PosOf(s, n), <<c>>)
         /\ PosOf(t, n) = PosOf(s, n) + 1
<1>0. Ready(s, n) /\ Plain(s) /\ Good(s, n) /\ s \in Streams /\ InBounds(s)
  BY DEF Calm, Ready, Good
<1>1. Ready(t, n) /\ Steady(s, t)
  BY <1>0, StoreByteGood
<1> DEFINE at  == s.buffered_bytes_write
           buf == [i \in DOMAIN s.buffer \cup {at} |-> IF i = at THEN c ELSE s.buffer[i]]
<1>2. at \in Nat /\ s.buffer_size \in Nat /\ n.off \in Nat
      /\ n.data \in Seq(Bytes) /\ n.off <= Len(n.data)
  BY <1>0, SizesNat, UnreadBytes DEF Streams
<1>3. t = [s EXCEPT !.buffer = buf, !.buffered_bytes_write = at + 1]
  BY DEF StoreByte
<1> HIDE DEF buf
<1>4. /\ t.flags = s.flags /\ t.buffer = buf /\ t.buffer_mode = s.buffer_mode
      /\ t.buffered_bytes_write = at + 1
      /\ t.buffered_bytes_read = s.buffered_bytes_read
      /\ t.buffered_bytes_read_offset = s.buffered_bytes_read_offset
  BY <1>0, <1>3 DEF Streams
<1>5. UnreadCount(t) = 0
  BY <1>4 DEF UnreadCount
<1>6. Plain(t) /\ SameMode(s, t)
  BY <1>0, <1>4 DEF Plain, SameMode, Has
<1>7. Pending(t) = Append(Pending(s), c)
  <2>1. /\ Pending(s) \in Seq(Bytes) /\ Len(Pending(s)) = at
        /\ Pending(t) \in Seq(Bytes) /\ Len(Pending(t)) = at + 1
    BY <1>0, <1>1, <1>4, PendingBytes DEF Ready, Good
  <2>2. PICK a \in Seq(Bytes) : a = Append(Pending(s), c)
    BY <2>1, AppendProperties
  <2>3. /\ Len(a) = at + 1 /\ a[at + 1] = c
        /\ \A i \in 1 .. at : a[i] = Pending(s)[i]
    BY <2>1, <2>2, AppendProperties
  <2>4. ASSUME NEW i \in 1 .. at + 1 PROVE Pending(t)[i] = a[i]
    <3>1. Pending(t)[i] = buf[i - 1]
      BY <1>4 DEF Pending
    <3>2. CASE i = at + 1
      <4>1. i - 1 = at
        BY <1>2, <3>2
      <4> QED BY <2>3, <3>1, <3>2, <4>1 DEF buf
    <3>3. CASE i # at + 1
      <4>1. i \in 1 .. at /\ i - 1 # at /\ i - 1 \in 0 .. s.buffer_size - 1
        BY <1>2, <3>3
      <4>2. i - 1 \in DOMAIN s.buffer
        BY <1>0, <4>1 DEF InBounds
      <4>3. buf[i - 1] = s.buffer[i - 1]
        BY <4>1, <4>2 DEF buf
      <4>4. Pending(s)[i] = s.buffer[i - 1]
        BY <4>1 DEF Pending
      <4> QED BY <2>3, <3>1, <4>1, <4>3, <4>4
    <3> QED BY <3>2, <3>3
  <2> QED BY <2>1, <2>2, <2>3, <2>4, SeqEqual
<1>8. PosOf(s, n) = n.off + at /\ PosOf(t, n) = PosOf(s, n) + 1
  BY <1>2, <1>4, <1>5 DEF PosOf
<1>9. ContentOf(t, n) = Overlay(ContentOf(s, n), PosOf(s, n), <<c>>)
  <2>1. PICK p \in Seq(Bytes) : p = Pending(s) /\ Len(p) = at
    BY <1>0, PendingBytes
  <2>2. /\ ContentOf(s, n) = Overlay(n.data, n.off, p)
        /\ ContentOf(t, n) = Overlay(n.data, n.off, Append(p, c))
    BY <1>0, <1>1, <1>7, <2>1, ContentIs DEF Ready
  <2>3. p \in Seq(Bytes) /\ Len(p) = at
    BY <2>1
  <2>4. Overlay(n.data, n.off, Append(p, c))
          = Overlay(Overlay(n.data, n.off, p), n.off + Len(p), <<c>>)
    BY <1>2, <2>3, OverlayMore
  <2> QED BY <1>8, <2>2, <2>3, <2>4, Zenon
<1> QED BY <1>1, <1>5, <1>6, <1>8, <1>9 DEF Calm

\* A byte put: written over the content where the caller is.
Stored(s, n, bytes, t, m) ==
  LET p == IF PosOf(s, n) < 0 THEN 0 ELSE PosOf(s, n)
  IN  /\ ContentOf(t, m) = Overlay(ContentOf(s, n), p, bytes)
      /\ PosOf(t, m) = p + Len(bytes)
      /\ InputOf(t, m) = Rest(ContentOf(t, m), PosOf(t, m))

\* fputc on a buffered stream.
LEMMA FputcView ==
  ASSUME NEW s, NEW n, Calm(s, n), s.buffer_size > 0, s.buffer_mode # NBF,
         Has(s, "MODE_WRITE"), Faultless, NEW c \in Bytes,
         NEW o \in FputcBuffered(s, n, c)
  PROVE  /\ Calm(o.s, o.n) /\ SameMode(s, o.s) /\ Steady(s, o.s)
         /\ o.ret = c /\ Stored(s, n, <<c>>, o.s, o.n)
<1> DEFINE P == IF PosOf(s, n) < 0 THEN 0 ELSE PosOf(s, n)
<1>1. PICK m \in Then(FflushReadUnlocked(s, n), MakeRoom) :
        IF m.ret = EOF THEN o = m ELSE o \in WriteByte(m.s, m.n, c)
  BY DEF FputcBuffered, Then
<1>2. PICK r \in FflushReadUnlocked(s, n) :
        IF r.ret = EOF THEN m = r ELSE m \in MakeRoom(r.s, r.n)
  BY DEF Then
<1>3. /\ r.ret = 0 /\ Calm(r.s, r.n) /\ SameMode(s, r.s) /\ Steady(s, r.s)
      /\ UnreadCount(r.s) = 0
      /\ ContentOf(r.s, r.n) = ContentOf(s, n) /\ PosOf(r.s, r.n) = P
  BY FflushReadView
<1> HIDE DEF P
<1>4. m \in MakeRoom(r.s, r.n)
  <2>1. r.ret # EOF
    BY <1>3 DEF EOF
  <2> QED BY <1>2, <2>1
<1>5. /\ m.ret = 0 /\ Calm(m.s, m.n) /\ SameMode(s, m.s) /\ Steady(s, m.s)
      /\ UnreadCount(m.s) = 0 /\ m.s.buffered_bytes_write < m.s.buffer_size
      /\ ContentOf(m.s, m.n) = ContentOf(s, n) /\ PosOf(m.s, m.n) = P
  <2>1. CASE r.s.buffered_bytes_write = r.s.buffer_size
    <3>1. m \in FflushWriteUnlocked(r.s, r.n)
      BY <1>4, <2>1 DEF MakeRoom
    <3>2. /\ m.ret = 0 /\ Calm(m.s, m.n) /\ SameMode(r.s, m.s) /\ Steady(r.s, m.s)
          /\ SameView(r.s, r.n, m.s, m.n)
          /\ m.s.buffered_bytes_write = 0 /\ UnreadCount(m.s) = 0
      BY <1>3, <3>1, FflushWriteView
    <3>3. SameMode(s, m.s) /\ Steady(s, m.s)
      BY <1>3, <3>2 DEF SameMode, Steady
    <3>4. m.s.buffered_bytes_write < m.s.buffer_size
      BY <3>2, <3>3 DEF Steady
    <3> QED BY <1>3, <3>2, <3>3, <3>4 DEF SameView
  <2>2. CASE r.s.buffered_bytes_write # r.s.buffer_size
    <3>1. m = Outcome(r.s, r.n, 0)
      BY <1>4, <2>2, Zenon DEF MakeRoom
    <3>2. m.s = r.s /\ m.n = r.n /\ m.ret = 0
      BY <3>1 DEF Outcome
    <3>3. r.s.buffered_bytes_write < r.s.buffer_size
      <4>1. /\ r.s.buffer_size \in Nat /\ r.s.buffered_bytes_write \in Nat
            /\ r.s.buffered_bytes_write <= r.s.buffer_size
        BY <1>3, SizesNat DEF Calm, Ready, Good, Streams, InBounds
      <4> QED BY <2>2, <4>1
    <3> QED BY <1>3, <3>2, <3>3
  <2> QED BY <2>1, <2>2
<1> DEFINE d == Clear(m.s, {"DIRECTION_READ"})
           t == Set(d, {"DIRECTION_WRITE"})
           u == StoreByte(t, c)
<1>6. Ready(m.s, m.n) /\ Plain(m.s) /\ m.s \in Streams
  BY <1>5 DEF Calm, Ready, Good
<1>7. {"DIRECTION_WRITE"} \in SUBSET Flags /\ {"DIRECTION_READ"} \in SUBSET Flags
  BY DEF Flags
<1>8. d \in Streams /\ SameBuffer(m.s, d) /\ d.flags = m.s.flags \ {"DIRECTION_READ"}
  BY <1>6, <1>7, SetClear
<1> HIDE DEF d
<1>9. t \in Streams /\ SameBuffer(d, t) /\ t.flags = d.flags \cup {"DIRECTION_WRITE"}
  BY <1>7, <1>8, SetClear
<1>10. PICK w \in IF u.buffer_mode = LBF /\ c = NL
                  THEN FflushWriteUnlocked(u, m.n) ELSE {Outcome(u, m.n, 0)} :
         o = Outcome(w.s, w.n, IF w.ret = EOF THEN EOF ELSE c)
  <2>1. m.ret # EOF
    BY <1>5 DEF EOF
  <2> QED BY <1>1, <2>1 DEF WriteByte, d
<1> HIDE DEF t
<1>11. SameBuffer(m.s, t)
  BY <1>8, <1>9 DEF SameBuffer
<1>12. InBounds(t) /\ UnreadCount(t) = 0
  BY <1>5, <1>6, <1>11, SameBufferFacts DEF Ready, Good
<1>13. \A f : f \in t.flags <=> (f \in m.s.flags /\ f # "DIRECTION_READ")
                                \/ f = "DIRECTION_WRITE"
  BY <1>8, <1>9
<1>14. /\ Ready(t, m.n) /\ Has(t, "DIRECTION_WRITE") /\ Steady(m.s, t)
       /\ t.buffered_bytes_write < t.buffer_size
  BY <1>5, <1>6, <1>9, <1>11, <1>12, <1>13
     DEF Ready, Good, Directed, Has, Steady, SameBuffer
<1>15. Has(m.s, "MODE_WRITE") /\ m.s.buffer_mode # NBF
  BY <1>5 DEF SameMode
<1>16. Plain(t) /\ SameMode(m.s, t) /\ t.buffer_mode # NBF
  BY <1>6, <1>11, <1>13, <1>15 DEF Plain, SameMode, SameBuffer, Has
<1>17. Calm(t, m.n) /\ SameMode(s, t) /\ Steady(s, t)
  BY <1>5, <1>14, <1>16 DEF Calm, SameMode, Steady
<1>18. ContentOf(t, m.n) = ContentOf(s, n) /\ PosOf(t, m.n) = P
  BY <1>5, <1>11, SameBufferView DEF SameView
<1>19. /\ Calm(u, m.n) /\ SameMode(t, u) /\ Steady(t, u) /\ UnreadCount(u) = 0
       /\ ContentOf(u, m.n) = Overlay(ContentOf(s, n), P, <<c>>)
       /\ PosOf(u, m.n) = P + 1
  BY <1>12, <1>14, <1>16, <1>17, <1>18, StoreByteView
<1> HIDE DEF u
<1>20. /\ w.ret = 0 /\ Calm(w.s, w.n) /\ SameMode(u, w.s) /\ Steady(u, w.s)
       /\ SameView(u, m.n, w.s, w.n) /\ UnreadCount(w.s) = 0
  <2>1. CASE w \in FflushWriteUnlocked(u, m.n)
    BY <1>19, <2>1, FflushWriteView
  <2>2. CASE w = Outcome(u, m.n, 0)
    <3>1. w.s = u /\ w.n = m.n /\ w.ret = 0
      BY <2>2 DEF Outcome
    <3> QED BY <1>19, <3>1 DEF SameMode, Steady, SameView
  <2> QED BY <1>10, <2>1, <2>2
<1>21. o.s = w.s /\ o.n = w.n /\ o.ret = c
  BY <1>10, <1>20 DEF Outcome, EOF
<1>22. SameMode(s, o.s) /\ Steady(s, o.s)
  BY <1>17, <1>19, <1>20, <1>21 DEF SameMode, Steady
<1>23. /\ ContentOf(o.s, o.n) = Overlay(ContentOf(s, n), P, <<c>>)
       /\ PosOf(o.s, o.n) = P + 1
  BY <1>19, <1>20, <1>21 DEF SameView
<1>24. InputOf(o.s, o.n) = Rest(ContentOf(o.s, o.n), PosOf(o.s, o.n))
  BY <1>20, <1>21, NoUnread DEF Calm, Ready
<1>25. Len(<<c>>) = 1
  OBVIOUS
<1>26. Stored(s, n, <<c>>, o.s, o.n)
  BY <1>23, <1>24, <1>25, Zenon DEF Stored, P
<1> QED BY <1>20, <1>21, <1>22, <1>26

\* The bytes v read: the first ones of the input.
Got(s, n, v, t, m) ==
  /\ ContentOf(t, m) = ContentOf(s, n)
  /\ \E k \in 1 .. Len(InputOf(s, n)) :
       /\ v = SubSeq(InputOf(s, n), 1, k)
       /\ InputOf(t, m) = Rest(InputOf(s, n), k)
       /\ PosOf(t, m) = PosOf(s, n) + k

\* No bytes read: there were none.
GotNone(s, n, t, m) == SameView(s, n, t, m) /\ InputOf(s, n) = <<>>

\* A byte taken is a read of one byte.
LEMMA TookGot ==
  ASSUME NEW s, NEW n, NEW o, Took(s, n, o)
  PROVE  Got(s, n, <<o.ret>>, o.s, o.n)
<1>1. PICK a \in Seq(Bytes) : a = InputOf(o.s, o.n)
  BY DEF Took
<1>2. PICK x \in Bytes : x = o.ret
  BY DEF Took
<1>3. /\ SubSeq(<<x>> \o a, 1, 1) = <<x>> /\ Rest(<<x>> \o a, 1) = a
      /\ Len(<<x>> \o a) = Len(a) + 1
  <2>1. x \in Bytes /\ a \in Seq(Bytes)
    BY <1>1, <1>2
  <2> QED BY <2>1, FirstRest
<1>4. InputOf(s, n) = <<x>> \o a
  BY <1>1, <1>2 DEF Took
<1>5. 1 \in 1 .. Len(InputOf(s, n))
  <2>1. Len(a) \in Nat
    BY <1>1
  <2> QED BY <1>3, <1>4, <2>1
<1>6. /\ <<x>> = SubSeq(InputOf(s, n), 1, 1) /\ InputOf(o.s, o.n) = Rest(InputOf(s, n), 1)
      /\ PosOf(o.s, o.n) = PosOf(s, n) + 1 /\ ContentOf(o.s, o.n) = ContentOf(s, n)
  BY <1>1, <1>3, <1>4 DEF Took
<1> QED BY <1>2, <1>5, <1>6, Zenon DEF Got

\* An unbuffered stream after a transfer in direction dir.
LEMMA DirectPlain ==
  ASSUME NEW s, Plain(s), s.buffer_mode = NBF, NEW t, SameBuffer(s, t),
         NEW dir \in {"DIRECTION_READ", "DIRECTION_WRITE"},
         NEW fs \in SUBSET {"EOF", "ERROR"},
         t.flags = ((s.flags \cup {dir}) \ {"EOF"}) \cup fs,
         dir = "DIRECTION_READ" => Has(s, "MODE_READ"),
         dir = "DIRECTION_WRITE" => Has(s, "MODE_WRITE")
  PROVE  Plain(t) /\ SameMode(s, t)
<1>1. UnreadCount(t) = UnreadCount(s)
  BY SameBufferFacts
<1> QED BY <1>1 DEF Plain, SameMode, SameBuffer, Has

\* Reading an unbuffered stream.
LEMMA FreadDirectView ==
  ASSUME NEW s, NEW n, Calm(s, n), s.buffer_mode = NBF, Has(s, "MODE_READ"), Faultless,
         NEW total \in Nat, total > 0, NEW o \in FreadDirect(s, n, total)
  PROVE  /\ Calm(o.s, o.n) /\ SameMode(s, o.s) /\ Steady(s, o.s)
         /\ \/ Got(s, n, o.ret, o.s, o.n)
            \/ o.ret = <<>> /\ GotNone(s, n, o.s, o.n)
<1>0. /\ Ready(s, n) /\ Plain(s) /\ Good(s, n) /\ s \in Streams /\ n \in Nodes
      /\ n.off <= Len(n.data) /\ ~n.refused
      /\ s.buffered_bytes_write = 0 /\ UnreadCount(s) = 0
  BY DEF Calm, Ready, Good, Plain
<1> DEFINE s1    == Clear(Set(s, {"DIRECTION_READ"}), {"EOF"})
           there == IF Available(n) < total THEN Available(n) ELSE total
<1>1. n.off \in Nat /\ n.data \in Seq(Bytes) /\ Len(n.data) \in Nat
  BY <1>0 DEF Nodes
<1>2. Available(n) \in Nat /\ n.off + Available(n) = Len(n.data)
  BY <1>0, <1>1 DEF Available
<1>3. PICK k \in Nat : /\ k = there /\ n.off + k <= Len(n.data)
                       /\ k = 0 => n.off = Len(n.data)
  BY <1>1, <1>2
<1>4. o = Outcome(IF there < total THEN Set(s1, {"EOF"}) ELSE s1,
                  [n EXCEPT !.off = @ + there],
                  SubSeq(n.data, n.off + 1, n.off + there))
  <2>1. "error" \notin Faults
    BY DEF Faultless
  <2> QED BY <2>1 DEF FreadDirect
<1> HIDE DEF there
<1>5. /\ o.s = Set(s1, {"EOF"}) \/ o.s = s1
      /\ o.n = [n EXCEPT !.off = n.off + k]
      /\ o.ret = SubSeq(n.data, n.off + 1, n.off + k)
  BY <1>3, <1>4 DEF Outcome
<1>6. PICK fs \in SUBSET {"EOF", "ERROR"} :
        o.s = Set(s1, fs) \/ (fs = {} /\ o.s = s1)
  BY <1>5
<1>7. /\ SameBuffer(s, o.s)
      /\ o.s.flags = ((s.flags \cup {"DIRECTION_READ"}) \ {"EOF"}) \cup fs
  BY <1>0, <1>6, DirectFlags
<1> HIDE DEF s1
<1>8. Plain(o.s) /\ SameMode(s, o.s)
  BY <1>0, <1>6, <1>7, DirectPlain
<1>9. o.n.off = n.off + k /\ o.n.data = n.data /\ ~o.n.refused
  BY <1>0, <1>1, <1>3, <1>5 DEF Nodes
<1>10. Safe(o.s, o.n) /\ Steady(s, o.s)
  BY <1>0, FreadDirectGood
<1>11. Ready(o.s, o.n)
  BY <1>9, <1>10 DEF Safe, Ready
<1>12. PICK f \in Seq(Bytes), p \in Nat : f = n.data /\ p = n.off
  BY <1>1
<1>13. f \in Seq(Bytes) /\ p \in Nat /\ k \in Nat /\ p + k <= Len(f)
  BY <1>3, <1>12
<1>14. o.s.buffered_bytes_write = 0 /\ UnreadCount(o.s) = 0
  BY <1>0, <1>7, SameBufferFacts DEF SameBuffer
<1>15. ContentOf(s, n) = f /\ ContentOf(o.s, o.n) = f
  BY <1>0, <1>9, <1>12, <1>14 DEF ContentOf
<1>16. PosOf(s, n) = p /\ PosOf(o.s, o.n) = p + k
  BY <1>0, <1>9, <1>12, <1>13, <1>14 DEF PosOf
<1>17. InputOf(s, n) = Rest(f, p) /\ InputOf(o.s, o.n) = Rest(f, p + k)
  BY <1>0, <1>11, <1>14, <1>15, <1>16, NoUnread DEF Ready
<1>18. /\ SubSeq(Rest(f, p), 1, k) = SubSeq(f, p + 1, p + k)
       /\ Rest(Rest(f, p), k) = Rest(f, p + k) /\ k <= Len(Rest(f, p))
  BY <1>13, RestSplit
<1>19. o.ret = SubSeq(f, p + 1, p + k)
  BY <1>5, <1>12
<1>20. CASE k > 0
  <2>1. k \in 1 .. Len(InputOf(s, n))
    <3>1. Rest(f, p) \in Seq(Bytes)
      <4>1. p <= Len(f)
        BY <1>0, <1>12
      <4> QED BY <1>13, <4>1, RestIs
    <3>2. Len(Rest(f, p)) \in Nat
      BY <3>1, LenProperties
    <3> QED BY <1>13, <1>17, <1>18, <1>20, <3>2
  <2>2. /\ o.ret = SubSeq(InputOf(s, n), 1, k)
        /\ InputOf(o.s, o.n) = Rest(InputOf(s, n), k)
        /\ PosOf(o.s, o.n) = PosOf(s, n) + k
        /\ ContentOf(o.s, o.n) = ContentOf(s, n)
    BY <1>15, <1>16, <1>17, <1>18, <1>19, Zenon
  <2>3. Got(s, n, o.ret, o.s, o.n)
    BY <2>1, <2>2, Zenon DEF Got
  <2> QED BY <1>8, <1>10, <1>11, <2>3 DEF Calm
<1>21. CASE k = 0
  <2>1. p + k = p /\ p = Len(f)
    BY <1>3, <1>12, <1>13, <1>21
  <2>2. o.ret = <<>>
    <3>1. p + 1 \in Int /\ p + k \in Int /\ p + k < p + 1
      BY <1>13, <2>1
    <3> QED BY <1>19, <3>1, SubSeqEmpty
  <2>3. Rest(f, p) = <<>>
    <3>1. p + 1 \in Int /\ Len(f) \in Int /\ Len(f) < p + 1
      BY <1>13, <2>1
    <3> QED BY <3>1, SubSeqEmpty DEF Rest
  <2>4. SameView(s, n, o.s, o.n)
    BY <1>15, <1>16, <1>17, <2>1 DEF SameView
  <2> QED BY <1>8, <1>10, <1>11, <1>17, <2>2, <2>3, <2>4 DEF Calm, GotNone
<1> QED BY <1>3, <1>20, <1>21

\* Writing an unbuffered stream.
LEMMA FwriteDirectView ==
  ASSUME NEW s, NEW n, Calm(s, n), s.buffer_mode = NBF, Has(s, "MODE_WRITE"), Faultless,
         NEW data \in Seq(Bytes), data # <<>>, NEW o \in FwriteDirect(s, n, data)
  PROVE  /\ Calm(o.s, o.n) /\ SameMode(s, o.s) /\ Steady(s, o.s)
         /\ o.ret = data /\ Stored(s, n, data, o.s, o.n)
<1>0. /\ Ready(s, n) /\ Plain(s) /\ Good(s, n) /\ s \in Streams /\ n \in Nodes
      /\ n.off <= Len(n.data) /\ ~n.refused
      /\ s.buffered_bytes_write = 0 /\ UnreadCount(s) = 0
  BY DEF Calm, Ready, Good, Plain
<1> DEFINE s1 == Clear(Set(s, {"DIRECTION_WRITE"}), {"EOF"})
<1>1. PICK w \in WriteOutcomes(n, data) :
        o = Outcome(Set(s1, w.flag), w.n, IF w.flag = {} THEN data ELSE <<>>)
  BY DEF FwriteDirect
<1>2. w = [n |-> WriteAt(n, data), written |-> Len(data), flag |-> {}]
  <2>1. "error" \notin Faults /\ "eof" \notin Faults
    BY DEF Faultless
  <2> QED BY <1>1, <2>1 DEF WriteOutcomes
<1>3. o.s = Set(s1, {}) /\ o.n = WriteAt(n, data) /\ o.ret = data
  BY <1>1, <1>2 DEF Outcome
<1>4. /\ SameBuffer(s, o.s)
      /\ o.s.flags = ((s.flags \cup {"DIRECTION_WRITE"}) \ {"EOF"}) \cup {}
  <2>1. {} \in SUBSET {"EOF", "ERROR"}
    OBVIOUS
  <2> QED BY <1>0, <1>3, <2>1, DirectFlags
<1>5. Plain(o.s) /\ SameMode(s, o.s)
  <2>1. {} \in SUBSET {"EOF", "ERROR"}
    OBVIOUS
  <2> QED BY <1>0, <1>4, <2>1, DirectPlain
<1>6. Safe(o.s, o.n) /\ Steady(s, o.s) /\ (o.n.refused => o.ret = <<>>)
  BY <1>0, FwriteDirectGood
<1>7. Ready(o.s, o.n)
  BY <1>3, <1>6 DEF Safe, Ready
<1>8. o.s.buffered_bytes_write = 0 /\ UnreadCount(o.s) = 0
  BY <1>0, <1>4, SameBufferFacts DEF SameBuffer
<1>9. n.off \in Nat /\ Len(data) \in Nat
  BY <1>0 DEF Nodes
<1>10. o.n.data = Overlay(n.data, n.off, data) /\ o.n.off = n.off + Len(data)
  <2>1. o.n = [n EXCEPT !.data = Overlay(n.data, n.off, data), !.off = n.off + Len(data)]
    BY <1>3 DEF WriteAt
  <2> QED BY <1>0, <2>1 DEF Nodes
<1>11. PosOf(s, n) = n.off /\ PosOf(o.s, o.n) = n.off + Len(data) /\ ~(PosOf(s, n) < 0)
  BY <1>0, <1>8, <1>9, <1>10 DEF PosOf
<1>12. ContentOf(s, n) = n.data /\ ContentOf(o.s, o.n) = Overlay(n.data, n.off, data)
  BY <1>0, <1>8, <1>10 DEF ContentOf
<1>13. InputOf(o.s, o.n) = Rest(ContentOf(o.s, o.n), PosOf(o.s, o.n))
  BY <1>7, <1>8, NoUnread DEF Ready
<1>14. Stored(s, n, data, o.s, o.n)
  BY <1>11, <1>12, <1>13, Zenon DEF Stored
<1> QED BY <1>3, <1>5, <1>6, <1>7, <1>14 DEF Calm

\* A byte pushed back: the first of the input now.
Pushed(s, n, c, t, m) ==
  /\ ContentOf(t, m) = ContentOf(s, n)
  /\ PosOf(t, m) = PosOf(s, n) - 1
  /\ InputOf(t, m) = <<c>> \o InputOf(s, n)

\* ungetc into a buffer without written bytes.
LEMMA FungetcBufferedView ==
  ASSUME NEW s, NEW n, Calm(s, n), s.buffered_bytes_write = 0, s.buffer_mode # NBF,
         Has(s, "DIRECTION_READ"), NEW c \in Bytes \cup {EOF},
         NEW o \in FungetcBuffered(s, n, c)
  PROVE  /\ Calm(o.s, o.n) /\ SameMode(s, o.s) /\ Steady(s, o.s)
         /\ \/ o.ret = EOF /\ SameView(s, n, o.s, o.n)
            \/ o.ret \in Bytes /\ Pushed(s, n, o.ret, o.s, o.n)
<1>0. Ready(s, n) /\ Plain(s) /\ Good(s, n) /\ s \in Streams /\ InBounds(s) /\ ~n.refused
  BY DEF Calm, Ready, Good
<1> DEFINE size  == s.buffer_size
           off   == s.buffered_bytes_read_offset
           br    == s.buffered_bytes_read
           count == UnreadCount(s)
           space == size - count
           mbuf  == [i \in DOMAIN s.buffer |->
                       IF i >= space THEN s.buffer[i - space] ELSE s.buffer[i]]
           moved == [s EXCEPT !.buffer = mbuf,
                              !.buffered_bytes_read_offset = space,
                              !.buffered_bytes_read = space + count]
           room  == IF off = 0 THEN moved ELSE s
           at    == room.buffered_bytes_read_offset - 1
<1>1. size \in Nat /\ off \in Nat /\ br \in Nat /\ off <= br /\ br <= size
      /\ count = br - off /\ count \in Nat /\ space \in Nat
  <2>1. size \in Nat /\ off \in Nat /\ br \in Nat
    BY <1>0, SizesNat DEF Streams
  <2>2. off <= br /\ br <= size
    BY <1>0 DEF InBounds
  <2>3. count = br - off
    BY DEF UnreadCount
  <2> HIDE DEF size, off, br, count
  <2> QED BY <2>1, <2>2, <2>3
<1>2. Ends(s, o)
  BY <1>0, FungetcBufferedGood
<1>3. CASE c = EOF \/ (off = 0 /\ space = 0)
  <2>1. o = Outcome(s, n, EOF)
    BY <1>3 DEF FungetcBuffered
  <2>2. o.s = s /\ o.n = n /\ o.ret = EOF
    BY <2>1 DEF Outcome
  <2> QED BY <2>2 DEF SameMode, Steady, SameView
<1>4. CASE ~(c = EOF \/ (off = 0 /\ space = 0))
  <2>1. o = Outcome([room EXCEPT !.buffer[at] = c,
                                 !.buffered_bytes_read_offset = at], n, c)
    BY <1>4 DEF FungetcBuffered
  <2>2. c \in Bytes
    BY <1>4
  <2>3. DOMAIN s.buffer = 0 .. size - 1
    BY <1>0 DEF InBounds
  \* Where the unread bytes start once there is room before them.
  <2>4. /\ room.flags = s.flags /\ room.buffer_mode = s.buffer_mode
        /\ room.buffered_bytes_write = 0 /\ DOMAIN room.buffer = 0 .. size - 1
        /\ room.buffered_bytes_read_offset \in Nat
        /\ room.buffered_bytes_read_offset > 0
        /\ room.buffered_bytes_read = room.buffered_bytes_read_offset + count
        /\ room.buffered_bytes_read <= size
        /\ DOMAIN room = DOMAIN s
        /\ \A i \in 1 .. count :
             room.buffer[room.buffered_bytes_read_offset + i - 1] = s.buffer[off + i - 1]
    <3>1. CASE off # 0
      <4>1. room = s
        BY <3>1
      <4>2. off > 0 /\ br = off + count
        BY <1>1, <3>1
      <4> QED BY <1>1, <2>3, <3>1, <4>1, <4>2
    <3>2. CASE off = 0
      <4>1. /\ count = br /\ space > 0 /\ space + count = size
            /\ room = [s EXCEPT !.buffer = mbuf,
                                !.buffered_bytes_read_offset = space,
                                !.buffered_bytes_read = size]
        <5>1. count = br /\ space > 0 /\ space + count = size
          <6> HIDE DEF size, off, br, count
          <6> QED BY <1>1, <1>4, <3>2
        <5> QED BY <3>2, <5>1
      <4>2. ASSUME NEW i \in 1 .. count
            PROVE  mbuf[space + i - 1] = s.buffer[off + i - 1]
        <5>1. PICK a \in Nat, b \in Nat, d \in Nat :
                a = space /\ b = count /\ d = size /\ a + b = d
          BY <1>1, <4>1
        <5>2. i \in 1 .. b
          BY <5>1
        <5>3. a + i - 1 \in 0 .. d - 1 /\ a + i - 1 >= a /\ (a + i - 1) - a = 0 + i - 1
          BY <5>1, <5>2
        <5>4. /\ space + i - 1 \in DOMAIN s.buffer /\ space + i - 1 >= space
              /\ (space + i - 1) - space = off + i - 1
          BY <2>3, <3>2, <5>1, <5>3, Zenon
        <5> HIDE DEF space, off
        <5> QED BY <5>4
      <4>3. DOMAIN mbuf = 0 .. size - 1
        BY <2>3
      <4> HIDE DEF mbuf, space, room
      <4>4. /\ room.flags = s.flags /\ room.buffer_mode = s.buffer_mode
            /\ room.buffered_bytes_write = 0 /\ DOMAIN room = DOMAIN s
            /\ room.buffer = mbuf /\ room.buffered_bytes_read_offset = space
            /\ room.buffered_bytes_read = size
        BY <1>0, <4>1 DEF Streams
      <4> HIDE DEF size, off, br, count
      <4>5. size <= size
        BY <1>1
      <4> QED BY <1>1, <4>1, <4>2, <4>3, <4>4, <4>5
    <3> QED BY <3>1, <3>2
  <2> HIDE DEF room
  <2> DEFINE buf == [room.buffer EXCEPT ![at] = c]
             rbr == room.buffered_bytes_read
  <2>5. at \in Nat /\ at \in 0 .. size - 1 /\ rbr \in Nat
        /\ at + 1 = room.buffered_bytes_read_offset /\ rbr = at + 1 + count
        /\ at + 1 + count <= size
    <3> HIDE DEF size, count
    <3>1. PICK a \in Nat : a = room.buffered_bytes_read_offset
      BY <2>4
    <3>2. a > 0 /\ at = a - 1 /\ a + count <= size /\ rbr = a + count
      BY <2>4, <3>1
    <3> HIDE DEF at, rbr
    <3> QED BY <1>1, <3>1, <3>2
  <2> HIDE DEF at
  <2>6. /\ buf[at] = c /\ \A i \in 0 .. size - 1 : i # at => buf[i] = room.buffer[i]
    BY <2>4, <2>5
  <2>7. /\ o.s.flags = room.flags /\ o.s.buffer_mode = room.buffer_mode
        /\ o.s.buffered_bytes_write = 0
        /\ o.s.buffer = buf /\ o.s.buffered_bytes_read = rbr
        /\ o.s.buffered_bytes_read_offset = at /\ o.n = n /\ o.ret = c
    BY <1>0, <2>1, <2>4 DEF Streams, Outcome
  <2> HIDE DEF buf, rbr
  <2>8. UnreadCount(o.s) = count + 1
    <3> HIDE DEF count
    <3> QED BY <1>1, <2>5, <2>7 DEF UnreadCount
  <2>9. Ready(o.s, n)
    BY <1>0, <1>2, <2>7 DEF Ends, Safe, Ready
  <2>10. Plain(o.s) /\ SameMode(s, o.s)
    BY <1>0, <2>4, <2>7 DEF Plain, SameMode, Has
  <2>11. Unread(o.s) = <<c>> \o Unread(s)
    <3>1. /\ Unread(s) \in Seq(Bytes) /\ Len(Unread(s)) = count
          /\ Unread(o.s) \in Seq(Bytes) /\ Len(Unread(o.s)) = count + 1
      BY <1>0, <2>8, <2>9, UnreadBytes DEF Ready
    <3>2. Unread(o.s)[1] = c
      <4>1. 1 \in 1 .. UnreadCount(o.s) /\ at + 1 - 1 = at
        BY <1>1, <2>5, <2>8
      <4> QED BY <2>6, <2>7, <4>1 DEF Unread
    <3>3. ASSUME NEW i \in 1 .. count PROVE Unread(o.s)[i + 1] = Unread(s)[i]
      <4>1. Unread(s)[i] = s.buffer[off + i - 1]
        BY DEF Unread
      <4>2. i + 1 \in 1 .. UnreadCount(o.s)
        BY <1>1, <2>8
      <4>3. Unread(o.s)[i + 1] = buf[at + (i + 1) - 1]
        BY <2>7, <4>2 DEF Unread
      <4>4. /\ at + (i + 1) - 1 = (at + 1) + i - 1
            /\ at + (i + 1) - 1 \in 0 .. size - 1 /\ at + (i + 1) - 1 # at
        <5>1. PICK b \in Nat, d \in Nat : b = count /\ d = size /\ at + 1 + b <= d
          BY <1>1, <2>5
        <5>2. i \in 1 .. b
          BY <5>1
        <5> HIDE DEF size, count
        <5>3. /\ at + (i + 1) - 1 = (at + 1) + i - 1
              /\ at + (i + 1) - 1 \in 0 .. d - 1 /\ at + (i + 1) - 1 # at
          BY <2>5, <5>1, <5>2
        <5> QED BY <5>1, <5>3
      <4>5. buf[at + (i + 1) - 1] = room.buffer[(at + 1) + i - 1]
        BY <2>6, <4>4
      <4>6. room.buffer[(at + 1) + i - 1] = s.buffer[off + i - 1]
        BY <2>4, <2>5, Zenon
      <4> QED BY <4>1, <4>3, <4>5, <4>6
    <3>4. PICK a \in Seq(Bytes), f \in Seq(Bytes) : a = Unread(s) /\ f = Unread(o.s)
      BY <3>1
    <3>5. /\ a \in Seq(Bytes) /\ f \in Seq(Bytes) /\ Len(f) = Len(a) + 1 /\ f[1] = c
          /\ \A i \in 1 .. Len(a) : f[i + 1] = a[i]
      BY <3>1, <3>2, <3>3, <3>4
    <3>6. f = <<c>> \o a
      BY <2>2, <3>5, StartsWith
    <3> QED BY <3>4, <3>6
  <2>12. /\ ContentOf(s, n) = ContentOf(o.s, n) /\ PosOf(s, n) = PosOf(o.s, n) + 1
         /\ InputOf(o.s, n) = <<c>> \o InputOf(s, n)
    <3>1. Good(o.s, n)
      BY <2>9 DEF Ready
    <3>2. /\ UnreadCount(o.s) = UnreadCount(s) + 1 /\ c \in Bytes /\ Good(s, n)
          /\ o.s.buffered_bytes_write = 0 /\ s.buffered_bytes_write = 0
      BY <1>0, <2>2, <2>7, <2>8
    <3> QED BY <2>11, <3>1, <3>2, UnreadTook
  <2>13. PosOf(o.s, n) = PosOf(s, n) - 1
    <3>1. PosOf(o.s, n) \in Int
      BY <2>9, InputBytes DEF Ready
    <3> QED BY <2>12, <3>1
  <2> QED BY <1>2, <2>2, <2>7, <2>9, <2>10, <2>12, <2>13 DEF Calm, Ends, Pushed
<1> QED BY <1>3, <1>4

\* ungetc.
LEMMA FungetcView ==
  ASSUME NEW s, NEW n, Calm(s, n), Sized(s), Has(s, "MODE_READ"), Faultless,
         NEW c \in Bytes \cup {EOF}, NEW o \in FungetcUnlocked(s, n, c)
  PROVE  /\ Calm(o.s, o.n) /\ o.s.open = s.open
         /\ \/ o.ret = EOF /\ SameView(s, n, o.s, o.n)
            \/ o.ret \in Bytes /\ Pushed(s, n, o.ret, o.s, o.n)
<1>1. PICK e \in EnsureBuffer(s, n) :
        IF e.ret = EOF THEN o = e ELSE o \in PushBack(e.s, e.n, c)
  BY DEF FungetcUnlocked, Then
<1>2. /\ e.ret = 0 /\ e.n = n /\ Calm(e.s, n) /\ SameView(s, n, e.s, n)
      /\ e.s.open = s.open /\ Has(e.s, "MODE_READ")
  BY EnsureBufferView
<1>3. o \in PushBack(e.s, n, c)
  <2>1. e.ret # EOF
    BY <1>2 DEF EOF
  <2> QED BY <1>1, <1>2, <2>1
<1>4. CASE e.s.buffer_mode = NBF
  <2>1. o.s = Set(e.s, {"ERROR"}) /\ o.n = n /\ o.ret = EOF
    BY <1>3, <1>4 DEF PushBack, Outcome
  <2>2. Ready(e.s, n) /\ e.s \in Streams /\ Plain(e.s) /\ {"ERROR"} \in SUBSET Flags
    BY <1>2 DEF Calm, Ready, Good, Flags
  <2>3. /\ o.s \in Streams /\ SameBuffer(e.s, o.s)
        /\ o.s.flags = e.s.flags \cup {"ERROR"}
    BY <2>1, <2>2, SetClear
  <2>4. SameView(e.s, n, o.s, n) /\ UnreadCount(o.s) = UnreadCount(e.s)
    BY <2>3, SameBufferView
  <2>5. Plain(o.s)
    BY <2>2, <2>3, <2>4 DEF Plain, SameBuffer, Has
  <2>6. Ready(o.s, n) /\ o.s.open = e.s.open
    BY <2>1, <2>2, ErrorGood DEF Safe, Ready, Steady
  <2> QED BY <1>2, <2>1, <2>4, <2>5, <2>6 DEF Calm, SameView
<1>5. CASE e.s.buffer_mode # NBF
  <2>1. PICK w \in FflushWriteUnlocked(e.s, n) :
          IF w.ret = EOF THEN o = w
          ELSE o \in FungetcBuffered(Clear(Set(w.s, {"DIRECTION_READ"}), {"EOF"}), w.n, c)
    BY <1>3, <1>5 DEF PushBack, Then
  <2>2. /\ w.ret = 0 /\ Calm(w.s, w.n) /\ SameMode(e.s, w.s) /\ Steady(e.s, w.s)
        /\ SameView(e.s, n, w.s, w.n) /\ w.s.buffered_bytes_write = 0
    BY <1>2, FflushWriteView
  <2> DEFINE d == Set(w.s, {"DIRECTION_READ"})
             t == Clear(d, {"EOF"})
  <2>3. o \in FungetcBuffered(t, w.n, c)
    <3>1. w.ret # EOF
      BY <2>2 DEF EOF
    <3> QED BY <2>1, <3>1
  <2>4. Ready(w.s, w.n) /\ Plain(w.s) /\ w.s \in Streams
    BY <2>2 DEF Calm, Ready, Good
  <2>5. {"DIRECTION_READ"} \in SUBSET Flags /\ {"EOF"} \in SUBSET Flags
    BY DEF Flags
  <2>6. d \in Streams /\ SameBuffer(w.s, d) /\ d.flags = w.s.flags \cup {"DIRECTION_READ"}
    BY <2>4, <2>5, SetClear
  <2> HIDE DEF d
  <2>7. t \in Streams /\ SameBuffer(d, t) /\ t.flags = d.flags \ {"EOF"}
    BY <2>5, <2>6, SetClear
  <2> HIDE DEF t
  <2>8. SameBuffer(w.s, t)
    BY <2>6, <2>7 DEF SameBuffer
  <2>9. \A f : f \in t.flags <=> (f \in w.s.flags \/ f = "DIRECTION_READ") /\ f # "EOF"
    BY <2>6, <2>7
  <2>10. InBounds(t) /\ UnreadCount(t) = UnreadCount(w.s) /\ t.buffered_bytes_write = 0
    BY <2>2, <2>4, <2>8, SameBufferFacts DEF Ready, Good, SameBuffer
  <2>11. Ready(t, w.n) /\ Has(t, "DIRECTION_READ")
    BY <2>4, <2>7, <2>8, <2>9, <2>10 DEF Ready, Good, Directed, Has, SameBuffer
  <2>12. Has(w.s, "MODE_READ") /\ w.s.buffer_mode # NBF
    BY <1>2, <1>5, <2>2 DEF SameMode
  <2>13. Plain(t) /\ t.buffer_mode # NBF /\ t.open = w.s.open
    BY <2>4, <2>8, <2>9, <2>12 DEF Plain, SameBuffer, Has
  <2>14. SameView(w.s, w.n, t, w.n)
    BY <2>8, SameBufferView
  <2>15. SameView(s, n, t, w.n)
    BY <1>2, <2>2, <2>14 DEF SameView
  <2>16. /\ Calm(o.s, o.n) /\ Steady(t, o.s)
         /\ \/ o.ret = EOF /\ SameView(t, w.n, o.s, o.n)
            \/ o.ret \in Bytes /\ Pushed(t, w.n, o.ret, o.s, o.n)
    <3>1. Calm(t, w.n)
      BY <2>11, <2>13 DEF Calm
    <3> QED BY <2>3, <2>10, <2>11, <2>13, <3>1, FungetcBufferedView
  <2>17. o.s.open = s.open
    BY <1>2, <2>2, <2>13, <2>16 DEF Steady
  <2> QED BY <2>15, <2>16, <2>17 DEF SameView, Pushed
<1> QED BY <1>4, <1>5
-----------------------------------------------------------------------------
(* The steps of ByteStream                                                  *)

\* Every step is one of ByteStream or changes nothing there.
AbstractStep == [Abstract!Next]_(Abstract!vars)

USE DEF CallerPos

\* The refinement mapping, in terms of the functions above.
LEMMA Mapping ==
  /\ Content = ContentOf(stream, node) /\ Input = InputOf(stream, node)
  /\ Content' = ContentOf(stream', node') /\ Input' = InputOf(stream', node')
  /\ node.off + stream.buffered_bytes_write - UnreadCount(stream) = PosOf(stream, node)
  /\ (node.off + stream.buffered_bytes_write - UnreadCount(stream))' = PosOf(stream', node')
BY DEF Content, Input, ContentOf, InputOf, PosOf, Rest, Pending, UnreadCount, Unread

\* A read that returns bytes,
LEMMA StepGot ==
  ASSUME stream.open, stream'.open = stream.open, NEW v,
         ret' = [kind |-> "got", val |-> v], Got(stream, node, v, stream', node')
  PROVE  AbstractStep
<1>1. PICK k \in 1 .. Len(InputOf(stream, node)) :
        /\ v = SubSeq(InputOf(stream, node), 1, k)
        /\ InputOf(stream', node') = Rest(InputOf(stream, node), k)
        /\ PosOf(stream', node') = PosOf(stream, node) + k
  BY DEF Got
<1>2. Content' = Content
  BY Mapping DEF Got
<1>3. /\ k \in 1 .. Len(Input) /\ ret' = [kind |-> "got", val |-> SubSeq(Input, 1, k)]
      /\ Input' = SubSeq(Input, k + 1, Len(Input))
      /\ (node.off + stream.buffered_bytes_write - UnreadCount(stream))'
           = (node.off + stream.buffered_bytes_write - UnreadCount(stream)) + k
  BY <1>1, Mapping, Zenon DEF Rest
<1>4. Abstract!Get
  BY <1>2, <1>3 DEF Abstract!Get, Abstract!From
<1> QED BY <1>4 DEF AbstractStep, Abstract!Next

\* one that reports the end of the file,
LEMMA StepNone ==
  ASSUME stream.open, stream'.open = stream.open,
         ret' = [kind |-> "got", val |-> <<>>], GotNone(stream, node, stream', node')
  PROVE  AbstractStep
<1>1. /\ Content' = Content /\ Input' = Input /\ Input = <<>>
      /\ (node.off + stream.buffered_bytes_write - UnreadCount(stream))'
           = (node.off + stream.buffered_bytes_write - UnreadCount(stream))
  BY Mapping, Zenon DEF GotNone, SameView
<1>2. Abstract!GetEnd
  BY <1>1 DEF Abstract!GetEnd
<1> QED BY <1>2 DEF AbstractStep, Abstract!Next

\* a write,
LEMMA StepPut ==
  ASSUME stream.open, stream'.open = stream.open, NEW v, v # <<>>,
         ret' = [kind |-> "put", val |-> v], Stored(stream, node, v, stream', node')
  PROVE  AbstractStep
<1> DEFINE pos == node.off + stream.buffered_bytes_write - UnreadCount(stream)
<1>1. pos = PosOf(stream, node) /\ pos' = PosOf(stream', node')
  BY Mapping
<1>2. /\ Content' = Overlay(Content, IF pos < 0 THEN 0 ELSE pos, v)
      /\ pos' = (IF pos < 0 THEN 0 ELSE pos) + Len(v)
      /\ Input' = SubSeq(Content', pos' + 1, Len(Content'))
  BY <1>1, Mapping, Zenon DEF Stored, Rest
<1>3. ret'.kind = "put" /\ ret'.val = v
  OBVIOUS
<1>4. Abstract!Put
  BY <1>2, <1>3 DEF Abstract!Put, Abstract!Position, Abstract!From, Abstract!Overlay, Overlay
<1> QED BY <1>4 DEF AbstractStep, Abstract!Next

\* a flush,
LEMMA StepSync ==
  ASSUME stream.open, stream'.open = stream.open, ret'.kind = "sync",
         ContentOf(stream', node') = ContentOf(stream, node),
         PosOf(stream', node')
           = IF PosOf(stream, node) < 0 THEN 0 ELSE PosOf(stream, node),
         InputOf(stream', node') = Rest(ContentOf(stream', node'), PosOf(stream', node'))
  PROVE  AbstractStep
<1> DEFINE pos == node.off + stream.buffered_bytes_write - UnreadCount(stream)
<1>1. pos = PosOf(stream, node) /\ pos' = PosOf(stream', node')
  BY Mapping
<1>2. /\ Content' = Content /\ pos' = (IF pos < 0 THEN 0 ELSE pos)
      /\ Input' = SubSeq(Content, pos' + 1, Len(Content))
  BY <1>1, Mapping, Zenon DEF Rest
<1>3. Abstract!Sync
  BY <1>2 DEF Abstract!Sync, Abstract!Position, Abstract!From
<1> QED BY <1>3 DEF AbstractStep, Abstract!Next

\* an ungetc that takes the byte or refuses it,
LEMMA StepUnget ==
  ASSUME stream.open, stream'.open = stream.open, Good(stream, node),
         NEW c, Return("unget", c),
         \/ c = EOF /\ SameView(stream, node, stream', node')
         \/ c \in Bytes /\ Pushed(stream, node, c, stream', node')
  PROVE  AbstractStep
<1> DEFINE pos == node.off + stream.buffered_bytes_write - UnreadCount(stream)
<1>1. pos = PosOf(stream, node) /\ pos' = PosOf(stream', node')
  BY Mapping
<1>2. Input \in Seq(Bytes) /\ pos \in Int
  BY <1>1, InputBytes, Mapping
<1>3. CASE c = EOF /\ SameView(stream, node, stream', node')
  <2>1. ret'.kind = "unget" /\ ret'.val = <<>>
    BY <1>3 DEF Return
  <2>2. Content' = Content /\ Input' = Input /\ pos' = pos
    BY <1>1, <1>3, Mapping, Zenon DEF SameView
  <2>3. <<>> \o Input = Input /\ pos - Len(<<>>) = pos
    BY <1>2, ConcatEmptySeq
  <2>4. Abstract!Unget
    BY <2>1, <2>2, <2>3 DEF Abstract!Unget
  <2> QED BY <2>4 DEF AbstractStep, Abstract!Next
<1>4. CASE c \in Bytes /\ Pushed(stream, node, c, stream', node')
  <2>1. ret'.kind = "unget" /\ ret'.val = <<c>>
    BY <1>4, StreamAssumption DEF Return, EOF
  <2>2. Content' = Content /\ Input' = <<c>> \o Input /\ pos' = pos - 1
    BY <1>1, <1>4, Mapping, Zenon DEF Pushed
  <2>3. Len(<<c>>) = 1
    OBVIOUS
  <2>4. Abstract!Unget
    BY <2>1, <2>2, <2>3 DEF Abstract!Unget
  <2> QED BY <2>4 DEF AbstractStep, Abstract!Next
<1> QED BY <1>3, <1>4

\* and a step that the caller does not see are steps of ByteStream.
LEMMA StepReport ==
  ASSUME stream'.open = stream.open, ret'.kind \in {"status", "count"},
         SameView(stream, node, stream', node')
  PROVE  AbstractStep
<1>1. /\ Content' = Content /\ Input' = Input
      /\ (node.off + stream.buffered_bytes_write - UnreadCount(stream))'
           = (node.off + stream.buffered_bytes_write - UnreadCount(stream))
  BY Mapping, Zenon DEF SameView
<1>2. Abstract!Report
  BY <1>1 DEF Abstract!Report
<1> QED BY <1>2 DEF AbstractStep, Abstract!Next

\* A seek, with nothing buffered.
LEMMA StepMove ==
  ASSUME stream.open, Good(stream, node), stream.buffered_bytes_write = 0,
         UnreadCount(stream) = 0, UNCHANGED stream,
         NEW p \in Nat, p <= Len(node.data), node' = [node EXCEPT !.off = p],
         ret' = [kind |-> "seek", val |-> <<p>>]
  PROVE  AbstractStep
<1> DEFINE pos == node.off + stream.buffered_bytes_write - UnreadCount(stream)
<1>1. pos = PosOf(stream, node) /\ pos' = PosOf(stream', node')
  BY Mapping
<1>2. node \in Nodes /\ node.off \in Nat /\ Len(node.data) \in Nat
  BY DEF Good, Nodes
<1>3. node'.off = p /\ node'.data = node.data /\ node' \in Nodes
  BY <1>2 DEF Nodes
<1>4. Good(stream', node')
  BY <1>3 DEF Good
<1>5. Content = node.data /\ Content' = node.data
  BY <1>3 DEF Content
<1>6. pos = node.off /\ pos' = p
  BY <1>2, <1>3
<1>7. Input' = SubSeq(Content, p + 1, Len(Content))
  <2>1. stream'.buffered_bytes_write = 0 /\ UnreadCount(stream') = 0
    OBVIOUS
  <2>2. InputOf(stream', node') = Rest(ContentOf(stream', node'), PosOf(stream', node'))
    BY <1>4, <2>1, NoUnread
  <2> QED BY <1>1, <1>5, <1>6, <2>2, Mapping, Zenon DEF Rest
<1>8. ret'.kind = "seek" /\ ret'.val = <<pos'>> /\ pos' \in 0 .. Len(Content)
  BY <1>2, <1>5, <1>6
<1> HIDE DEF pos
<1>9. Content' = Content /\ stream'.open = stream.open
  BY <1>5
<1>10. Input' = SubSeq(Content, pos' + 1, Len(Content))
  BY <1>6, <1>7, Zenon
<1>11. Abstract!Seek
  BY <1>8, <1>9, <1>10 DEF Abstract!Seek, Abstract!From, pos
<1> QED BY <1>11 DEF AbstractStep, Abstract!Next

\* A question about the position, which is the kernel's when nothing is buffered.
LEMMA StepTell ==
  ASSUME stream.open, Good(stream, node), UNCHANGED <<stream, node>>,
         ret' = [kind |-> "tell", val |-> <<node.off>>],
         ret.kind \in {"open", "sync", "seek"} => NoneBuffered
  PROVE  AbstractStep
<1>1. node.off \in Nat
  BY DEF Good, Nodes
<1>2. /\ Content' = Content /\ Input' = Input /\ stream'.open = stream.open
      /\ (node.off + stream.buffered_bytes_write - UnreadCount(stream))'
           = node.off + stream.buffered_bytes_write - UnreadCount(stream)
  BY DEF Content, Input
<1>3. NoneBuffered => node.off + stream.buffered_bytes_write - UnreadCount(stream) = node.off
  BY <1>1 DEF NoneBuffered
<1>4. ret.kind \in {"open", "sync", "seek"} =>
        ret'.val = <<Abstract!Position(
          node.off + stream.buffered_bytes_write - UnreadCount(stream))>>
  BY <1>1, <1>3 DEF Abstract!Position
<1>5. ret'.kind = "tell"
  OBVIOUS
<1>6. Abstract!Tell
  BY <1>2, <1>4, <1>5 DEF Abstract!Tell
<1> QED BY <1>6 DEF AbstractStep, Abstract!Next

\* Reading after a step the caller does not see.
LEMMA SameViewReads ==
  ASSUME NEW s, NEW n, NEW t, NEW m, SameView(s, n, t, m), NEW v, NEW u, NEW k
  PROVE  /\ Got(t, m, v, u, k) => Got(s, n, v, u, k)
         /\ GotNone(t, m, u, k) => GotNone(s, n, u, k)
<1>1. /\ ContentOf(t, m) = ContentOf(s, n) /\ PosOf(t, m) = PosOf(s, n)
      /\ InputOf(t, m) = InputOf(s, n)
  BY DEF SameView
<1>2. Got(t, m, v, u, k) => Got(s, n, v, u, k)
  BY <1>1, Zenon DEF Got
<1>3. GotNone(t, m, u, k) => GotNone(s, n, u, k)
  BY <1>1, Zenon DEF GotNone, SameView
<1> QED BY <1>2, <1>3

\* What fgetc on a buffered stream returns.
FgetcResult(s, n, o) ==
  \/ Took(s, n, o)
  \/ o.ret = EOF /\ GotNone(s, n, o.s, o.n)

\* It is a step of ByteStream.
LEMMA StepByte ==
  ASSUME stream.open, stream'.open = stream.open, NEW o, FgetcResult(stream, node, o),
         stream' = o.s, node' = o.n, Return("got", o.ret)
  PROVE  AbstractStep
<1>1. CASE Took(stream, node, o)
  <2>1. o.ret # EOF
    BY <1>1, StreamAssumption DEF Took, EOF
  <2>2. ret' = [kind |-> "got", val |-> <<o.ret>>]
    BY <2>1 DEF Return
  <2>3. Got(stream, node, <<o.ret>>, stream', node')
    BY <1>1, TookGot
  <2> QED BY <2>2, <2>3, StepGot
<1>2. CASE o.ret = EOF /\ GotNone(stream, node, o.s, o.n)
  <2>1. ret' = [kind |-> "got", val |-> <<>>]
    BY <1>2 DEF Return
  <2> QED BY <1>2, <2>1, StepNone
<1> QED BY <1>1, <1>2 DEF FgetcResult
-----------------------------------------------------------------------------
(* The actions                                                              *)

\* What the refinement needs of the state besides StreamInv: nothing failed, a
\* closed stream is the zeroed structure, and a transfer in progress goes
\* through the buffer, in a direction the stream was opened for.
ViewInv ==
  /\ ~node.refused /\ Plain(stream)
  /\ ~stream.open => stream = Closed
  /\ call.done < call.total => stream.buffer_mode # NBF
  /\ call.op = "fread" /\ call.done < call.total => Has(stream, "MODE_READ")
  /\ call.op = "fwrite" /\ call.done < call.total => Has(stream, "MODE_WRITE")

\* A plain client of a kernel that does not fail.
PlainUse == StreamInv /\ ViewInv /\ Faultless /\ Habits = {}

\* What is to be shown of every action.
Refines == AbstractStep /\ ViewInv'

\* Plain use keeps the stream between calls in the state the functions rely on.
LEMMA UseCalm ==
  ASSUME PlainUse
  PROVE  Calm(stream, node) /\ Sized(stream) /\ Good(stream, node)
BY DEF PlainUse, StreamInv, ViewInv, Calm, Safe, Ready

\* After a call nothing is left to show of ViewInv.
LEMMA CallView ==
  ASSUME Calm(stream', node'), stream'.open, ~(call'.done < call'.total)
  PROVE  ViewInv'
BY DEF ViewInv, Calm, Ready

\* No transfer is in progress between calls.
LEMMA IdleOver == ~(Idle.done < Idle.total)
BY DEF Idle

\* What a public function finds.
LEMMA CallsView ==
  ASSUME PlainUse, Calls
  PROVE  /\ Calm(stream, node) /\ Sized(stream) /\ Good(stream, node) /\ stream.open
         /\ call = Idle /\ ~(call.done < call.total)
         /\ MayRead => Has(stream, "MODE_READ")
         /\ MayWrite => Has(stream, "MODE_WRITE")
BY UseCalm, IdleOver DEF PlainUse, Calls, MayRead, MayWrite

\* fgetc.
LEMMA FgetcRefines ==
  ASSUME PlainUse, Fgetc PROVE Refines
<1>1. /\ Calm(stream, node) /\ Sized(stream) /\ stream.open /\ Has(stream, "MODE_READ")
      /\ ~(call'.done < call'.total) /\ Faultless
  BY CallsView DEF Fgetc, PlainUse
<1>2. PICK e \in EnsureBuffer(stream, node) :
         IF e.ret = EOF
         THEN stream' = e.s /\ node' = e.n /\ Return("got", EOF)
         ELSE IF e.s.buffer_mode = NBF
         THEN \E o \in FreadDirect(e.s, e.n, 1) :
                /\ stream' = o.s /\ node' = o.n
                /\ ret' = [kind |-> "got", val |-> o.ret]
         ELSE \E o \in FgetcBuffered(e.s, e.n) :
                stream' = o.s /\ node' = o.n /\ Return("got", o.ret)
  BY DEF Fgetc
<1>3. /\ e.ret = 0 /\ e.n = node /\ Calm(e.s, node) /\ SameView(stream, node, e.s, node)
      /\ e.s.buffer_size > 0 /\ e.s.open /\ Has(e.s, "MODE_READ")
  BY <1>1, EnsureBufferView
<1>4. e.ret # EOF
  BY <1>3 DEF EOF
<1>5. CASE e.s.buffer_mode = NBF
  <2>1. PICK o \in FreadDirect(e.s, node, 1) :
          /\ stream' = o.s /\ node' = o.n
          /\ ret' = [kind |-> "got", val |-> o.ret]
    BY <1>2, <1>3, <1>4, <1>5
  <2>2. /\ Calm(o.s, o.n) /\ Steady(e.s, o.s)
        /\ \/ Got(e.s, node, o.ret, o.s, o.n)
           \/ o.ret = <<>> /\ GotNone(e.s, node, o.s, o.n)
    BY <1>1, <1>3, <1>5, FreadDirectView
  <2>3. \/ Got(stream, node, o.ret, o.s, o.n)
        \/ o.ret = <<>> /\ GotNone(stream, node, o.s, o.n)
    BY <1>3, <2>2, SameViewReads
  <2>4. stream'.open /\ stream'.open = stream.open
    BY <1>1, <1>3, <2>1, <2>2 DEF Steady
  <2>5. AbstractStep
    BY <1>1, <2>1, <2>3, <2>4, StepGot, StepNone
  <2>6. ViewInv'
    BY <1>1, <2>1, <2>2, <2>4, CallView
  <2> QED BY <2>5, <2>6 DEF Refines
<1>6. CASE e.s.buffer_mode # NBF
  <2>1. PICK o \in FgetcBuffered(e.s, node) :
          stream' = o.s /\ node' = o.n /\ Return("got", o.ret)
    BY <1>2, <1>3, <1>4, <1>6
  <2>2. Calm(o.s, o.n) /\ Steady(e.s, o.s) /\ FgetcResult(stream, node, o)
    <3>1. /\ Calm(o.s, o.n) /\ Steady(e.s, o.s)
          /\ \/ Took(e.s, node, o)
             \/ o.ret = EOF /\ SameView(e.s, node, o.s, o.n) /\ InputOf(e.s, node) = <<>>
      BY <1>1, <1>3, <1>6, FgetcView
    <3> QED BY <1>3, <3>1, TookAfter DEF SameView, FgetcResult, GotNone
  <2>3. stream'.open /\ stream'.open = stream.open
    BY <1>1, <1>3, <2>1, <2>2 DEF Steady
  <2>4. AbstractStep
    BY <1>1, <2>1, <2>2, <2>3, StepByte
  <2>5. ViewInv'
    BY <1>1, <2>1, <2>2, <2>3, CallView
  <2> QED BY <2>4, <2>5 DEF Refines
<1> QED BY <1>5, <1>6

\* Writing after a step the caller does not see.
LEMMA SameViewStored ==
  ASSUME NEW s, NEW n, NEW t, NEW m, SameView(s, n, t, m), NEW v, NEW u, NEW k,
         Stored(t, m, v, u, k)
  PROVE  Stored(s, n, v, u, k)
BY Zenon DEF SameView, Stored

\* fputc.
LEMMA FputcRefines ==
  ASSUME PlainUse, NEW c \in Bytes, Fputc(c) PROVE Refines
<1>1. /\ Calm(stream, node) /\ Sized(stream) /\ stream.open /\ Has(stream, "MODE_WRITE")
      /\ ~(call'.done < call'.total) /\ Faultless
  BY CallsView DEF Fputc, PlainUse
<1>2. PICK e \in EnsureBuffer(stream, node) :
         IF e.ret = EOF
         THEN stream' = e.s /\ node' = e.n /\ Return("put", EOF)
         ELSE IF e.s.buffer_mode = NBF
         THEN \E o \in FwriteDirect(e.s, e.n, <<c>>) :
                /\ stream' = o.s /\ node' = o.n
                /\ ret' = [kind |-> "put", val |-> o.ret]
         ELSE \E o \in FputcBuffered(e.s, e.n, c) :
                stream' = o.s /\ node' = o.n /\ Return("put", o.ret)
  BY DEF Fputc
<1>3. /\ e.ret = 0 /\ e.n = node /\ Calm(e.s, node) /\ SameView(stream, node, e.s, node)
      /\ e.s.buffer_size > 0 /\ e.s.open /\ Has(e.s, "MODE_WRITE")
  BY <1>1, EnsureBufferView
<1>4. e.ret # EOF /\ c # EOF
  BY <1>3, StreamAssumption DEF EOF
<1>5. PICK d \in Seq(Bytes) : d = <<c>> /\ d # <<>>
  <2>1. <<c>> \in Seq(Bytes) /\ <<c>> # <<>>
    OBVIOUS
  <2> QED BY <2>1
<1>6. \E o : /\ stream' = o.s /\ node' = o.n /\ ret' = [kind |-> "put", val |-> <<c>>]
             /\ Calm(o.s, o.n) /\ Steady(e.s, o.s) /\ Stored(e.s, node, <<c>>, o.s, o.n)
  <2>1. CASE e.s.buffer_mode = NBF
    <3>1. PICK o \in FwriteDirect(e.s, node, d) :
            /\ stream' = o.s /\ node' = o.n
            /\ ret' = [kind |-> "put", val |-> o.ret]
      BY <1>2, <1>3, <1>4, <1>5, <2>1
    <3>2. /\ Calm(o.s, o.n) /\ Steady(e.s, o.s) /\ o.ret = d
          /\ Stored(e.s, node, d, o.s, o.n)
      <4>1. d \in Seq(Bytes) /\ d # <<>> /\ o \in FwriteDirect(e.s, node, d)
        BY <1>5, <3>1
      <4> QED BY <1>1, <1>3, <2>1, <4>1, FwriteDirectView
    <3> QED BY <1>5, <3>1, <3>2
  <2>2. CASE e.s.buffer_mode # NBF
    <3>1. PICK o \in FputcBuffered(e.s, node, c) :
            stream' = o.s /\ node' = o.n /\ Return("put", o.ret)
      BY <1>2, <1>3, <1>4, <2>2
    <3>2. /\ Calm(o.s, o.n) /\ Steady(e.s, o.s) /\ o.ret = c
          /\ Stored(e.s, node, <<c>>, o.s, o.n)
      BY <1>1, <1>3, <2>2, FputcView
    <3> QED BY <1>4, <3>1, <3>2 DEF Return
  <2> QED BY <2>1, <2>2
<1>7. PICK o : /\ stream' = o.s /\ node' = o.n /\ ret' = [kind |-> "put", val |-> <<c>>]
               /\ Calm(o.s, o.n) /\ Steady(e.s, o.s) /\ Stored(e.s, node, <<c>>, o.s, o.n)
  BY <1>6
<1>8. stream'.open /\ stream'.open = stream.open
  BY <1>1, <1>3, <1>7 DEF Steady
<1>9. Stored(stream, node, <<c>>, stream', node')
  BY <1>3, <1>7, SameViewStored
<1>10. AbstractStep
  BY <1>1, <1>5, <1>7, <1>8, <1>9, StepPut
<1>11. ViewInv'
  BY <1>1, <1>7, <1>8, CallView
<1> QED BY <1>10, <1>11 DEF Refines

\* ungetc.
LEMMA UngetcRefines ==
  ASSUME PlainUse, NEW c \in Bytes \cup {EOF}, Ungetc(c) PROVE Refines
<1>1. /\ Calm(stream, node) /\ Sized(stream) /\ stream.open /\ Has(stream, "MODE_READ")
      /\ ~(call'.done < call'.total) /\ Faultless /\ Good(stream, node)
  BY CallsView DEF Ungetc, PlainUse
<1>2. PICK o \in FungetcUnlocked(stream, node, c) :
        stream' = o.s /\ node' = o.n /\ Return("unget", o.ret)
  BY DEF Ungetc
<1>3. /\ Calm(o.s, o.n) /\ o.s.open = stream.open
      /\ \/ o.ret = EOF /\ SameView(stream, node, o.s, o.n)
         \/ o.ret \in Bytes /\ Pushed(stream, node, o.ret, o.s, o.n)
  BY <1>1, FungetcView
<1>4. AbstractStep
  BY <1>1, <1>2, <1>3, StepUnget
<1>5. ViewInv'
  BY <1>1, <1>2, <1>3, CallView
<1> QED BY <1>4, <1>5 DEF Refines

\* fflush.
LEMMA FflushRefines ==
  ASSUME PlainUse, Fflush PROVE Refines
<1>1. /\ Calm(stream, node) /\ stream.open /\ ~(call'.done < call'.total) /\ Faultless
  BY CallsView DEF Fflush, PlainUse
<1>2. PICK o \in FflushUnlocked(stream, node) :
        stream' = o.s /\ node' = o.n /\ Return("sync", o.ret)
  BY DEF Fflush
<1>3. /\ Calm(o.s, o.n) /\ Steady(stream, o.s) /\ UnreadCount(o.s) = 0
      /\ ContentOf(o.s, o.n) = ContentOf(stream, node)
      /\ PosOf(o.s, o.n) = IF PosOf(stream, node) < 0 THEN 0 ELSE PosOf(stream, node)
  BY <1>1, FflushView
<1>4. InputOf(o.s, o.n) = Rest(ContentOf(o.s, o.n), PosOf(o.s, o.n))
  BY <1>3, NoUnread DEF Calm, Ready
<1>5. ret'.kind = "sync" /\ stream'.open /\ stream'.open = stream.open
  BY <1>1, <1>2, <1>3 DEF Return, Steady
<1>6. AbstractStep
  BY <1>1, <1>2, <1>3, <1>4, <1>5, StepSync, Zenon
<1>7. ViewInv'
  BY <1>1, <1>2, <1>3, <1>5, CallView
<1> QED BY <1>6, <1>7 DEF Refines

\* The arguments setvbuf is called with.
BufferRequest(buf, mode, size) ==
  /\ buf \in {NULL, "user"} /\ mode \in {FBF, LBF, NBF}
  /\ size \in UserSizes \cup {0} /\ (buf # NULL => size \in UserSizes)

\* setvbuf, for any of them.
LEMMA SetvbufRequest ==
  ASSUME NEW s, NEW n, Calm(s, n), Faultless, s.buffered_bytes_write = 0,
         UnreadCount(s) = 0, NEW buf, NEW mode, NEW size, BufferRequest(buf, mode, size),
         NEW o \in SetvbufUnlocked(s, n, buf, mode, size)
  PROVE  o.n = n /\ Calm(o.s, n) /\ SameView(s, n, o.s, n) /\ o.s.open = s.open
<1>1. /\ buf \in {NULL, "user"} /\ mode \in {FBF, LBF, NBF}
      /\ size \in UserSizes \cup {0, BUFSIZ} /\ (buf # NULL => size \in UserSizes)
  BY DEF BufferRequest
<1> QED BY <1>1, SetvbufView

\* setvbuf shows the caller nothing.
LEMMA SetvbufRefines ==
  ASSUME PlainUse, NEW buf \in {NULL, "user"}, NEW mode \in {FBF, LBF, NBF},
         NEW size \in UserSizes \cup {0}, buf # NULL => size \in UserSizes,
         Setvbuf(buf, mode, size)
  PROVE  Refines
<1>1. /\ Calm(stream, node) /\ stream.open /\ ~(call'.done < call'.total) /\ Faultless
      /\ stream.buffered_bytes_write = 0 /\ UnreadCount(stream) = 0
  BY CallsView DEF Setvbuf, PlainUse, NoneBuffered
<1>2. PICK o \in SetvbufUnlocked(stream, node, buf, mode, size) :
        stream' = o.s /\ node' = o.n /\ Return("status", o.ret)
  BY DEF Setvbuf
<1>3. /\ o.n = node /\ Calm(o.s, node) /\ SameView(stream, node, o.s, node)
      /\ o.s.open = stream.open
  <2>1. o \in SetvbufUnlocked(stream, node, buf, mode, size)
    BY <1>2
  <2>2. BufferRequest(buf, mode, size)
    BY DEF BufferRequest
  <2> QED BY <1>1, <2>1, <2>2, SetvbufRequest
<1>4. ret'.kind = "status"
  BY <1>2 DEF Return
<1>5. AbstractStep
  BY <1>2, <1>3, <1>4, StepReport
<1>6. ViewInv'
  BY <1>1, <1>2, <1>3, CallView
<1> QED BY <1>5, <1>6 DEF Refines

\* fseek and rewind, with nothing buffered.
LEMMA MoveRefines ==
  ASSUME PlainUse, (\E p \in 0 .. MaxFile : Fseek(p)) \/ Rewind
  PROVE  Refines
<1>1. /\ Calm(stream, node) /\ Good(stream, node) /\ stream.open
      /\ ~(call'.done < call'.total) /\ UNCHANGED stream
      /\ stream.buffered_bytes_write = 0 /\ UnreadCount(stream) = 0
  BY CallsView DEF Fseek, Rewind, PlainUse, NoneBuffered
<1>2. node \in Nodes /\ node.off \in Nat /\ node.off <= Len(node.data) /\ Len(node.data) \in Nat
  BY <1>1 DEF Good, Nodes
<1>3. \A p \in Nat : p # EOF
  BY DEF EOF
<1>4. PICK p \in Nat : /\ p <= Len(node.data) /\ node' = [node EXCEPT !.off = p]
                       /\ Return("seek", p)
  <2>1. CASE \E p \in 0 .. MaxFile : Fseek(p)
    <3>1. PICK p \in 0 .. MaxFile : Fseek(p)
      BY <2>1
    <3>2. p \in Nat
      BY <3>1, StreamAssumption
    <3> QED BY <3>1, <3>2 DEF Fseek
  <2>2. CASE Rewind
    BY <1>2, <2>2 DEF Rewind
  <2> QED BY <2>1, <2>2
<1>5. p \in Nat /\ p # EOF
  BY <1>3, <1>4
<1>6. ret' = [kind |-> "seek", val |-> <<p>>]
  BY <1>4, <1>5 DEF Return
<1>7. AbstractStep
  BY <1>1, <1>4, <1>5, <1>6, StepMove
<1>8. ~node'.refused
  BY <1>1, <1>2, <1>4 DEF Calm, Ready, Nodes
<1>9. Safe(stream, node')
  BY <1>1, <1>4, <1>5, MovedGood DEF Calm
<1>10. Calm(stream', node') /\ stream'.open
  BY <1>1, <1>8, <1>9 DEF Calm, Ready, Safe
<1>11. ViewInv'
  BY <1>1, <1>10, CallView
<1> QED BY <1>7, <1>11 DEF Refines

\* Straight after an open, a flush or a seek nothing is buffered.
SettledInv == ret.kind \in {"open", "sync", "seek"} => NoneBuffered

\* ftell.
LEMMA TellRefines ==
  ASSUME PlainUse, SettledInv, Ftell PROVE Refines
<1>1. /\ Good(stream, node) /\ stream.open /\ UNCHANGED <<stream, node, call>>
  BY CallsView DEF Ftell
<1>2. node.off # EOF
  BY <1>1 DEF EOF, Good, Nodes
<1>3. ret' = [kind |-> "tell", val |-> <<node.off>>]
  BY <1>2 DEF Ftell, Return
<1>4. AbstractStep
  BY <1>1, <1>3, StepTell DEF SettledInv
<1>5. ViewInv'
  BY <1>1 DEF PlainUse, ViewInv
<1> QED BY <1>4, <1>5 DEF Refines

\* The calls that return such a result leave nothing buffered.
LEMMA SettledNext ==
  ASSUME PlainUse, SettledInv, [Next]_vars PROVE SettledInv'
<1>1. ASSUME NEW m \in Opens, Fopen(m) PROVE SettledInv'
  BY <1>1 DEF Fopen, Closed, SettledInv, NoneBuffered, UnreadCount
<1>2. CASE Fflush
  <2>1. Calm(stream, node) /\ Faultless
    BY <1>2, CallsView DEF Fflush, PlainUse
  <2>2. PICK o \in FflushUnlocked(stream, node) : stream' = o.s
    BY <1>2 DEF Fflush
  <2>3. stream'.buffered_bytes_write = 0 /\ UnreadCount(stream') = 0
    BY <2>1, <2>2, FflushView
  <2> QED BY <2>3 DEF SettledInv, NoneBuffered, UnreadCount
<1>3. CASE (\E p \in 0 .. MaxFile : Fseek(p)) \/ Rewind
  BY <1>3 DEF Fseek, Rewind, PlainUse, SettledInv, NoneBuffered, UnreadCount
<1>4. CASE UNCHANGED vars
  BY <1>4 DEF vars, SettledInv, NoneBuffered, UnreadCount
<1>5. CASE Fclose
  BY <1>5 DEF Fclose, Return, SettledInv
<1>6. CASE Fgetc
  BY <1>6 DEF Fgetc, Return, SettledInv
<1>7. ASSUME NEW c \in Bytes, Fputc(c) PROVE SettledInv'
  BY <1>7 DEF Fputc, Return, SettledInv
<1>8. ASSUME NEW size \in ElementSizes, NEW nmemb \in Lengths, FreadBegin(size, nmemb)
      PROVE  SettledInv'
  <2>1. ret'.kind \in {"got", "status"}
    <3>1. CASE ~Has(stream, "MODE_READ")
      BY <1>8, <3>1 DEF FreadBegin, Return
    <3>2. CASE Has(stream, "MODE_READ")
      <4>1. PICK e \in EnsureBuffer(stream, node) :
              \/ Return("got", EOF)
              \/ \E o \in FreadDirect(e.s, e.n, size * nmemb) :
                   ret' = [kind |-> "got", val |-> o.ret]
              \/ Return("status", 0)
        BY <1>8, <3>2, Zenon DEF FreadBegin
      <4> QED BY <4>1 DEF Return
    <3> QED BY <3>1, <3>2
  <2> QED BY <2>1 DEF SettledInv
<1>9. ASSUME NEW size, NEW data, FwriteBegin(size, data) PROVE SettledInv'
  BY <1>9 DEF FwriteBegin, Return, SettledInv
<1>10. CASE FreadByte
  BY <1>10 DEF FreadByte, Return, SettledInv
<1>11. CASE FwriteByte
  BY <1>11 DEF FwriteByte, Return, SettledInv
<1>12. CASE TransferEnd \/ Clearerr \/ Ftell
  BY <1>12 DEF TransferEnd, Clearerr, Ftell, Return, SettledInv
<1>13. ASSUME NEW c, Ungetc(c) PROVE SettledInv'
  BY <1>13 DEF Ungetc, Return, SettledInv
<1>14. ASSUME NEW buf, NEW mode, NEW size, Setvbuf(buf, mode, size) PROVE SettledInv'
  BY <1>14 DEF Setvbuf, Return, SettledInv
<1> QED BY <1>1, <1>2, <1>3, <1>4, <1>5, <1>6, <1>7, <1>8, <1>9, <1>10, <1>11, <1>12,
           <1>13, <1>14 DEF Next

\* clearerr, and the end of a transfer.
LEMMA ReportRefines ==
  ASSUME PlainUse, Clearerr \/ TransferEnd PROVE Refines
<1>1. UNCHANGED <<stream, node>> /\ ret'.kind \in {"status", "count"}
  BY DEF Clearerr, TransferEnd, Return
<1>2. ~(call'.done < call'.total)
  BY CallsView, IdleOver DEF Clearerr, TransferEnd
<1>3. AbstractStep
  BY <1>1, StepReport DEF SameView
<1>4. ViewInv'
  BY <1>1, <1>2 DEF PlainUse, ViewInv
<1> QED BY <1>3, <1>4 DEF Refines

\* A byte of fread.
LEMMA FreadByteRefines ==
  ASSUME PlainUse, FreadByte PROVE Refines
<1>1. /\ Calm(stream, node) /\ Sized(stream) /\ Faultless
  BY UseCalm DEF PlainUse
<1>2. /\ call.op = "fread" /\ call.done < call.total
      /\ stream.buffer_mode # NBF /\ Has(stream, "MODE_READ")
      /\ Has(stream, "BUFFER_SET") /\ stream.open
  BY DEF FreadByte, PlainUse, ViewInv, StreamInv, TransferSane, Idle
<1>3. stream.buffer_size > 0
  BY <1>1, <1>2 DEF Sized
<1>4. PICK o \in FgetcBuffered(stream, node) :
        /\ stream' = o.s /\ node' = o.n /\ Return("got", o.ret)
        /\ call' = IF o.ret = EOF THEN [call EXCEPT !.total = call.done]
                   ELSE [call EXCEPT !.done = @ + 1]
  BY DEF FreadByte
<1>5. /\ Calm(o.s, o.n) /\ SameMode(stream, o.s) /\ Steady(stream, o.s)
      /\ \/ Took(stream, node, o)
         \/ /\ o.ret = EOF /\ SameView(stream, node, o.s, o.n)
            /\ InputOf(stream, node) = <<>>
  BY <1>1, <1>2, <1>3, FgetcView
<1>6. FgetcResult(stream, node, o)
  BY <1>5 DEF FgetcResult, GotNone
<1>7. stream'.open /\ stream'.open = stream.open
  BY <1>2, <1>4, <1>5 DEF Steady
<1>8. AbstractStep
  BY <1>2, <1>4, <1>6, <1>7, StepByte
<1>9. call'.op = "fread"
  BY <1>2, <1>4 DEF PlainUse, StreamInv, TypeOK, Transfers
<1>10. stream'.buffer_mode # NBF /\ Has(stream', "MODE_READ")
  BY <1>2, <1>4, <1>5 DEF SameMode
<1>11. ViewInv'
  BY <1>4, <1>5, <1>7, <1>9, <1>10 DEF ViewInv, Calm, Ready
<1> QED BY <1>8, <1>11 DEF Refines

\* A byte of fwrite.
LEMMA FwriteByteRefines ==
  ASSUME PlainUse, FwriteByte PROVE Refines
<1>1. /\ Calm(stream, node) /\ Sized(stream) /\ Faultless
  BY UseCalm DEF PlainUse
<1>2. /\ call.op = "fwrite" /\ call.done < call.total
      /\ stream.buffer_mode # NBF /\ Has(stream, "MODE_WRITE")
      /\ Has(stream, "BUFFER_SET") /\ stream.open
      /\ call.total <= Len(call.data) /\ call \in Transfers
  BY DEF FwriteByte, PlainUse, ViewInv, StreamInv, TransferSane, Idle, TypeOK
<1>3. stream.buffer_size > 0
  BY <1>1, <1>2 DEF Sized
<1>4. PICK c \in Bytes : c = call.data[call.done + 1]
  <2>1. call.data \in Seq(Bytes) /\ call.done \in Nat /\ call.total \in Nat
    BY <1>2 DEF Transfers
  <2>2. call.done + 1 \in 1 .. Len(call.data)
    BY <1>2, <2>1
  <2> QED BY <2>1, <2>2, ElementOfSeq
<1>5. PICK o \in FputcBuffered(stream, node, c) :
        /\ stream' = o.s /\ node' = o.n /\ Return("put", o.ret)
        /\ call' = IF o.ret = EOF THEN [call EXCEPT !.total = call.done]
                   ELSE [call EXCEPT !.done = @ + 1]
  BY <1>4 DEF FwriteByte
<1>6. /\ Calm(o.s, o.n) /\ SameMode(stream, o.s) /\ Steady(stream, o.s)
      /\ o.ret = c /\ Stored(stream, node, <<c>>, o.s, o.n)
  <2>1. c \in Bytes /\ o \in FputcBuffered(stream, node, c)
    BY <1>4, <1>5
  <2> QED BY <1>1, <1>2, <1>3, <2>1, FputcView, Zenon
<1>7. stream'.open /\ stream'.open = stream.open
  BY <1>2, <1>5, <1>6 DEF Steady
<1>8. ret' = [kind |-> "put", val |-> <<c>>]
  <2>1. c # EOF
    BY <1>4, StreamAssumption DEF EOF
  <2> QED BY <1>5, <1>6, <2>1 DEF Return
<1>9. AbstractStep
  <2>1. <<c>> # <<>>
    OBVIOUS
  <2> QED BY <1>2, <1>5, <1>6, <1>7, <1>8, <2>1, StepPut
<1>10. call'.op = "fwrite"
  BY <1>2, <1>5 DEF Transfers
<1>11. stream'.buffer_mode # NBF /\ Has(stream', "MODE_WRITE")
  BY <1>2, <1>5, <1>6 DEF SameMode
<1>12. ViewInv'
  BY <1>5, <1>6, <1>7, <1>10, <1>11 DEF ViewInv, Calm, Ready
<1> QED BY <1>9, <1>12 DEF Refines

\* The beginning of fread, which on an unbuffered stream is all of it.
LEMMA FreadBeginRefines ==
  ASSUME PlainUse, NEW size \in ElementSizes, NEW nmemb \in Lengths, FreadBegin(size, nmemb)
  PROVE  Refines
<1>1. /\ Calm(stream, node) /\ Sized(stream) /\ stream.open /\ Has(stream, "MODE_READ")
      /\ Faultless /\ call = Idle
  BY CallsView DEF FreadBegin, PlainUse
<1>2. PICK e \in EnsureBuffer(stream, node) :
       IF e.ret = EOF
       THEN stream' = e.s /\ node' = e.n /\ Return("got", EOF) /\ UNCHANGED call
       ELSE IF e.s.buffer_mode = NBF
       THEN \E o \in FreadDirect(e.s, e.n, size * nmemb) :
              /\ stream' = o.s /\ node' = o.n
              /\ ret' = [kind |-> "got", val |-> o.ret]
              /\ call' = [Idle EXCEPT !.op = "fread", !.size = size,
                                      !.done = Len(o.ret), !.total = Len(o.ret)]
       ELSE /\ stream' = e.s /\ node' = e.n
            /\ call' = [Idle EXCEPT !.op = "fread", !.size = size,
                                    !.total = size * nmemb]
            /\ Return("status", 0)
  BY <1>1 DEF FreadBegin
<1>3. /\ e.ret = 0 /\ e.n = node /\ Calm(e.s, node) /\ SameView(stream, node, e.s, node)
      /\ e.s.buffer_size > 0 /\ e.s.open /\ Has(e.s, "MODE_READ")
  BY <1>1, EnsureBufferView
<1>4. e.ret # EOF
  BY <1>3 DEF EOF
<1>5. PICK total \in Nat : total = size * nmemb /\ total > 0
  <2>0. nmemb > 0
    BY DEF FreadBegin
  <2>1. size \in Nat /\ size > 0 /\ nmemb \in Nat
    BY StreamAssumption
  <2>2. size * nmemb \in Nat /\ size * nmemb > 0
    BY <2>0, <2>1
  <2> QED BY <2>2
<1>6. CASE e.s.buffer_mode = NBF
  <2>1. PICK o \in FreadDirect(e.s, node, total) :
          /\ stream' = o.s /\ node' = o.n
          /\ ret' = [kind |-> "got", val |-> o.ret]
          /\ call' = [Idle EXCEPT !.op = "fread", !.size = size,
                                  !.done = Len(o.ret), !.total = Len(o.ret)]
    BY <1>2, <1>3, <1>4, <1>5, <1>6
  <2>2. /\ Calm(o.s, o.n) /\ Steady(e.s, o.s)
        /\ \/ Got(e.s, node, o.ret, o.s, o.n)
           \/ o.ret = <<>> /\ GotNone(e.s, node, o.s, o.n)
    <3>1. total \in Nat /\ total > 0 /\ o \in FreadDirect(e.s, node, total)
      BY <1>5, <2>1
    <3> QED BY <1>1, <1>3, <1>6, <3>1, FreadDirectView, Zenon
  <2>3. \/ Got(stream, node, o.ret, o.s, o.n)
        \/ o.ret = <<>> /\ GotNone(stream, node, o.s, o.n)
    BY <1>3, <2>2, SameViewReads
  <2>4. stream'.open /\ stream'.open = stream.open
    BY <1>1, <1>3, <2>1, <2>2 DEF Steady
  <2>5. AbstractStep
    BY <1>1, <2>1, <2>3, <2>4, StepGot, StepNone
  <2>6. ~(call'.done < call'.total)
    <3>1. o.ret \in Seq(Bytes)
      BY <1>3, <1>5, FreadDirectGood DEF Calm
    <3>2. Len(o.ret) \in Nat
      BY <3>1
    <3>3. call'.done = Len(o.ret) /\ call'.total = Len(o.ret)
      BY <2>1 DEF Idle
    <3> QED BY <3>2, <3>3
  <2>7. ViewInv'
    BY <2>1, <2>2, <2>4, <2>6, CallView
  <2> QED BY <2>5, <2>7 DEF Refines
<1>7. CASE e.s.buffer_mode # NBF
  <2>1. /\ stream' = e.s /\ node' = node /\ Return("status", 0)
        /\ call' = [Idle EXCEPT !.op = "fread", !.size = size, !.total = size * nmemb]
    BY <1>2, <1>3, <1>4, <1>7
  <2>2. call'.op = "fread" /\ ret'.kind = "status"
    BY <2>1 DEF Idle, Return
  <2>3. AbstractStep
    BY <1>1, <1>3, <2>1, <2>2, StepReport
  <2>4. ViewInv'
    BY <1>3, <1>7, <2>1, <2>2 DEF ViewInv, Calm, Ready
  <2> QED BY <2>3, <2>4 DEF Refines
<1> QED BY <1>6, <1>7

\* The beginning of fwrite.
LEMMA FwriteBeginRefines ==
  ASSUME PlainUse, NEW size \in ElementSizes, NEW data \in Seq(Bytes), FwriteBegin(size, data)
  PROVE  Refines
<1>1. /\ Calm(stream, node) /\ Sized(stream) /\ stream.open /\ Has(stream, "MODE_WRITE")
      /\ Faultless /\ call = Idle /\ data # <<>>
  BY CallsView DEF FwriteBegin, PlainUse
<1>2. PICK e \in EnsureBuffer(stream, node) :
       IF e.ret = EOF
       THEN stream' = e.s /\ node' = e.n /\ Return("put", EOF) /\ UNCHANGED call
       ELSE IF e.s.buffer_mode = NBF
       THEN \E o \in FwriteDirect(e.s, e.n, data) :
              /\ stream' = o.s /\ node' = o.n
              /\ ret' = [kind |-> "put", val |-> o.ret]
              /\ call' = IF o.ret = <<>> THEN call
                         ELSE [Idle EXCEPT !.op = "fwrite", !.size = size,
                                  !.done = Len(data), !.total = Len(data)]
       ELSE /\ stream' = e.s /\ node' = e.n
            /\ call' = [Idle EXCEPT !.op = "fwrite", !.size = size,
                                    !.total = Len(data), !.data = data]
            /\ Return("status", 0)
  BY <1>1 DEF FwriteBegin
<1>3. /\ e.ret = 0 /\ e.n = node /\ Calm(e.s, node) /\ SameView(stream, node, e.s, node)
      /\ e.s.buffer_size > 0 /\ e.s.open /\ Has(e.s, "MODE_WRITE")
  BY <1>1, EnsureBufferView
<1>4. e.ret # EOF
  BY <1>3 DEF EOF
<1>5. CASE e.s.buffer_mode = NBF
  <2>1. PICK o \in FwriteDirect(e.s, node, data) :
          /\ stream' = o.s /\ node' = o.n
          /\ ret' = [kind |-> "put", val |-> o.ret]
          /\ call' = IF o.ret = <<>> THEN call
                     ELSE [Idle EXCEPT !.op = "fwrite", !.size = size,
                              !.done = Len(data), !.total = Len(data)]
    BY <1>2, <1>3, <1>4, <1>5
  <2>2. /\ Calm(o.s, o.n) /\ Steady(e.s, o.s) /\ o.ret = data
        /\ Stored(e.s, node, data, o.s, o.n)
    BY <1>1, <1>3, <1>5, FwriteDirectView
  <2>3. Stored(stream, node, data, stream', node')
    BY <1>3, <2>1, <2>2, SameViewStored
  <2>4. stream'.open /\ stream'.open = stream.open
    BY <1>1, <1>3, <2>1, <2>2 DEF Steady
  <2>5. AbstractStep
    BY <1>1, <2>1, <2>2, <2>3, <2>4, StepPut
  <2>6. ~(call'.done < call'.total)
    <3>1. Len(data) \in Nat
      OBVIOUS
    <3>2. call'.done = Len(data) /\ call'.total = Len(data)
      BY <1>1, <2>1, <2>2 DEF Idle
    <3> QED BY <3>1, <3>2
  <2>7. ViewInv'
    BY <2>1, <2>2, <2>4, <2>6, CallView
  <2> QED BY <2>5, <2>7 DEF Refines
<1>6. CASE e.s.buffer_mode # NBF
  <2>1. /\ stream' = e.s /\ node' = node /\ Return("status", 0)
        /\ call' = [Idle EXCEPT !.op = "fwrite", !.size = size,
                                !.total = Len(data), !.data = data]
    BY <1>2, <1>3, <1>4, <1>6
  <2>2. call'.op = "fwrite" /\ ret'.kind = "status"
    BY <2>1 DEF Idle, Return
  <2>3. AbstractStep
    BY <1>1, <1>3, <2>1, <2>2, StepReport
  <2>4. ViewInv'
    BY <1>3, <1>6, <2>1, <2>2 DEF ViewInv, Calm, Ready
  <2> QED BY <2>3, <2>4 DEF Refines
<1> QED BY <1>5, <1>6

\* A stream on which nothing is buffered, over a file at its start.
LEMMA FreshView ==
  ASSUME NEW s, NEW n, s.buffered_bytes_write = 0, s.buffered_bytes_read = 0,
         s.buffered_bytes_read_offset = 0, n.off = 0, n.data \in Seq(Bytes)
  PROVE  /\ ContentOf(s, n) = n.data /\ PosOf(s, n) = 0 /\ InputOf(s, n) = n.data
         /\ UnreadCount(s) = 0
<1>1. UnreadCount(s) = 0
  BY DEF UnreadCount
<1>2. 1 .. 0 = {}
  OBVIOUS
<1>3. Unread(s) = <<>>
  BY <1>1, <1>2 DEF Unread
<1>4. ContentOf(s, n) = n.data /\ PosOf(s, n) = 0
  BY <1>1 DEF ContentOf, PosOf
<1>5. Rest(n.data, 0) = n.data
  <2>1. 0 \in Nat /\ 0 <= Len(n.data) /\ Len(n.data) - 0 = Len(n.data) /\ Len(n.data) \in Nat
    OBVIOUS
  <2>2. /\ Rest(n.data, 0) \in Seq(Bytes) /\ Len(Rest(n.data, 0)) = Len(n.data)
        /\ \A i \in 1 .. Len(n.data) : Rest(n.data, 0)[i] = n.data[0 + i]
    BY <2>1, RestIs
  <2>3. \A i \in 1 .. Len(n.data) : Rest(n.data, 0)[i] = n.data[i]
    <3> SUFFICES ASSUME NEW i \in 1 .. Len(n.data) PROVE Rest(n.data, 0)[i] = n.data[i]
      OBVIOUS
    <3>1. 0 + i = i
      OBVIOUS
    <3> QED BY <2>2, <3>1
  <2> QED BY <2>2, <2>3, SeqEqual
<1>6. <<>> \o n.data = n.data
  BY ConcatEmptySeq
<1>7. n.off + s.buffered_bytes_write = 0
  OBVIOUS
<1> QED BY <1>1, <1>3, <1>4, <1>5, <1>6, <1>7 DEF InputOf

\* The zeroed structure.
LEMMA ClosedView ==
  ASSUME NEW n, n.off = 0, n.data \in Seq(Bytes)
  PROVE  /\ ContentOf(Closed, n) = n.data /\ PosOf(Closed, n) = 0
         /\ InputOf(Closed, n) = n.data /\ Plain(Closed) /\ ~Closed.open
<1>1. /\ Closed.buffered_bytes_write = 0 /\ Closed.buffered_bytes_read = 0
      /\ Closed.buffered_bytes_read_offset = 0 /\ Closed.flags = {}
      /\ Closed.buffer_mode = NBF /\ ~Closed.open
  BY DEF Closed
<1>2. UnreadCount(Closed) = 0
  BY <1>1 DEF UnreadCount
<1> QED BY <1>1, <1>2, FreshView DEF Plain, Has

\* The program starts where ByteStream does.
LEMMA InitRefines == Init => Abstract!Init /\ ViewInv
<1> SUFFICES ASSUME Init PROVE Abstract!Init /\ ViewInv
  OBVIOUS
<1>1. node.off = 0 /\ node.data = <<>> /\ ~node.refused /\ stream = Closed /\ call = Idle
  BY DEF Init
<1>2. <<>> \in Seq(Bytes)
  OBVIOUS
<1>3. /\ ContentOf(stream, node) = <<>> /\ PosOf(stream, node) = 0
      /\ InputOf(stream, node) = <<>> /\ Plain(stream) /\ ~stream.open
  BY <1>1, <1>2, ClosedView
<1>4. /\ Content = <<>> /\ Input = <<>>
      /\ node.off + stream.buffered_bytes_write - UnreadCount(stream) = 0
  BY <1>3, Mapping, Zenon
<1>5. stream.open = FALSE /\ ret = [kind |-> "close", val |-> <<0>>]
  BY <1>1 DEF Init, Closed
<1>6. Abstract!Init
  BY <1>2, <1>4, <1>5 DEF Abstract!Init
<1>7. ViewInv
  BY <1>1, <1>3, IdleOver DEF ViewInv
<1> QED BY <1>6, <1>7

\* fopen.
LEMMA FopenRefines ==
  ASSUME PlainUse, NEW m \in Opens, Fopen(m) PROVE Refines
<1>1. /\ ~stream.open /\ stream = Closed /\ node \in Nodes /\ node.off = 0 /\ call = Idle
      /\ UNCHANGED call
  BY DEF PlainUse, ViewInv, StreamInv, TypeOK, Fopen
<1>2. node.data \in Seq(Bytes)
  BY <1>1 DEF Nodes
<1>3. PICK d \in Seq(Bytes) : /\ d \in {node.data, <<>>}
                              /\ node' = [node EXCEPT !.data = d, !.refused = FALSE]
  <2>1. <<>> \in Seq(Bytes)
    OBVIOUS
  <2>2. CASE m \in {"w", "w+"}
    BY <2>1, <2>2 DEF Fopen
  <2>3. CASE m \notin {"w", "w+"}
    <3>1. node' = [node EXCEPT !.data = node.data, !.refused = FALSE]
      BY <2>3 DEF Fopen
    <3> QED BY <1>2, <3>1
  <2> QED BY <2>2, <2>3
<1>4. node'.data = d /\ node'.off = 0 /\ ~node'.refused /\ d \in Seq(Bytes)
  BY <1>1, <1>3 DEF Nodes
<1>5. /\ stream'.open = TRUE /\ stream'.flags = ParseModeFlags(m)
      /\ stream'.buffered_bytes_write = 0 /\ stream'.buffered_bytes_read = 0
      /\ stream'.buffered_bytes_read_offset = 0 /\ stream'.buffer_mode = NBF
  BY DEF Fopen, Closed
<1>6. /\ ContentOf(stream', node') = d /\ PosOf(stream', node') = 0
      /\ InputOf(stream', node') = d /\ UnreadCount(stream') = 0
  BY <1>4, <1>5, FreshView
<1>7. ContentOf(stream, node) = node.data
  BY <1>1, <1>2, ClosedView
<1>8. /\ Content = node.data /\ Content' = d /\ Input' = d
      /\ (node.off + stream.buffered_bytes_write - UnreadCount(stream))' = 0
  BY <1>6, <1>7, Mapping, Zenon
<1>9. ret'.kind = "open"
  BY DEF Fopen, Return
<1>10. Abstract!Open
  BY <1>1, <1>3, <1>5, <1>8, <1>9 DEF Abstract!Open
<1>11. Plain(stream')
  <2>1. /\ "DIRECTION_READ" \notin ParseModeFlags(m)
        /\ "DIRECTION_WRITE" \notin ParseModeFlags(m)
    BY DEF ParseModeFlags
  <2> QED BY <1>5, <1>6, <2>1 DEF Plain, Has
<1>12. ~(call'.done < call'.total)
  BY <1>1, IdleOver
<1>13. ViewInv'
  BY <1>4, <1>5, <1>11, <1>12 DEF ViewInv
<1> QED BY <1>10, <1>13 DEF Refines, AbstractStep, Abstract!Next

\* fclose.
LEMMA FcloseRefines ==
  ASSUME PlainUse, Fclose PROVE Refines
<1>1. /\ Calm(stream, node) /\ stream.open /\ Faultless /\ call = Idle /\ UNCHANGED call
  BY UseCalm DEF PlainUse, Fclose
<1>2. PICK o \in FflushUnlocked(stream, node) :
         stream' = Closed /\ node' = [o.n EXCEPT !.off = 0] /\ Return("close", 0)
  BY <1>1 DEF Fclose, Faultless
<1>3. /\ Calm(o.s, o.n) /\ o.s.buffered_bytes_write = 0
      /\ ContentOf(o.s, o.n) = ContentOf(stream, node)
  BY <1>1, <1>2, FflushView
<1>4. o.n \in Nodes /\ ~o.n.refused
  BY <1>3 DEF Calm, Ready, Good
<1>5. o.n.data = ContentOf(stream, node)
  BY <1>3 DEF ContentOf
<1>6. node'.data = o.n.data /\ node'.off = 0 /\ ~node'.refused /\ o.n.data \in Seq(Bytes)
  BY <1>2, <1>4 DEF Nodes
<1>7. /\ ContentOf(stream', node') = ContentOf(stream, node) /\ PosOf(stream', node') = 0
      /\ InputOf(stream', node') = ContentOf(stream, node)
      /\ Plain(stream') /\ ~stream'.open
  BY <1>2, <1>5, <1>6, ClosedView
<1>8. /\ Content' = Content /\ Input' = Content
      /\ (node.off + stream.buffered_bytes_write - UnreadCount(stream))' = 0
  BY <1>7, Mapping, Zenon
<1>9. ret'.kind = "close" /\ stream'.open = FALSE
  BY <1>2 DEF Fclose, Return, Closed
<1>10. Abstract!Close
  BY <1>1, <1>8, <1>9 DEF Abstract!Close
<1>11. ~(call'.done < call'.total)
  BY <1>1, IdleOver
<1>12. ViewInv'
  BY <1>2, <1>6, <1>7, <1>11 DEF ViewInv
<1> QED BY <1>10, <1>12 DEF Refines, AbstractStep, Abstract!Next

\* Every step.
LEMMA NextRefines ==
  ASSUME PlainUse, SettledInv, [Next]_vars PROVE Refines
<1>1. CASE \E m \in Opens : Fopen(m)
  BY <1>1, FopenRefines
<1>2. CASE Fclose
  BY <1>2, FcloseRefines
<1>3. CASE Fgetc
  BY <1>3, FgetcRefines
<1>4. CASE \E c \in Bytes : Fputc(c)
  BY <1>4, FputcRefines
<1>5. CASE \E size \in ElementSizes, nmemb \in Lengths : FreadBegin(size, nmemb)
  BY <1>5, FreadBeginRefines
<1>6. CASE FreadByte
  BY <1>6, FreadByteRefines
<1>7. CASE \E size \in ElementSizes, nmemb \in Lengths :
             \E data \in [1 .. size * nmemb -> Bytes] : FwriteBegin(size, data)
  <2>1. PICK size \in ElementSizes, nmemb \in Lengths :
          \E data \in [1 .. size * nmemb -> Bytes] : FwriteBegin(size, data)
    BY <1>7
  <2>2. PICK data \in [1 .. size * nmemb -> Bytes] : FwriteBegin(size, data)
    BY <2>1
  <2>3. size * nmemb \in Nat
    BY StreamAssumption
  <2>4. data \in Seq(Bytes)
    BY <2>3
  <2> QED BY <2>2, <2>4, FwriteBeginRefines
<1>8. CASE FwriteByte
  BY <1>8, FwriteByteRefines
<1>9. CASE Clearerr \/ TransferEnd
  BY <1>9, ReportRefines
<1>10. CASE \E c \in Bytes \cup {EOF} : Ungetc(c)
  BY <1>10, UngetcRefines
<1>11. CASE Fflush
  BY <1>11, FflushRefines
<1>12. CASE (\E p \in 0 .. MaxFile : Fseek(p)) \/ Rewind
  BY <1>12, MoveRefines
<1>16. CASE Ftell
  BY <1>16, TellRefines
<1>13. CASE \E mode \in {FBF, LBF, NBF}, size \in UserSizes :
              Setvbuf("user", mode, size)
  <2>1. PICK mode \in {FBF, LBF, NBF}, size \in UserSizes :
          Setvbuf("user", mode, size)
    BY <1>13
  <2>2. /\ "user" \in {NULL, "user"} /\ size \in UserSizes \cup {0}
        /\ "user" # NULL => size \in UserSizes
    OBVIOUS
  <2> QED BY <2>1, <2>2, SetvbufRefines
<1>14. CASE \E mode \in {FBF, LBF, NBF}, size \in UserSizes \cup {0} :
              Setvbuf(NULL, mode, size)
  <2>1. PICK mode \in {FBF, LBF, NBF}, size \in UserSizes \cup {0} :
          Setvbuf(NULL, mode, size)
    BY <1>14
  <2>2. NULL \in {NULL, "user"} /\ (NULL # NULL => size \in UserSizes)
    OBVIOUS
  <2> QED BY <2>1, <2>2, SetvbufRefines
<1>15. CASE UNCHANGED vars
  <2>1. UNCHANGED <<stream, node, call, ret>>
    BY <1>15 DEF vars
  <2>2. /\ UNCHANGED <<stream.open, Content, Input, ret>>
        /\ UNCHANGED (node.off + stream.buffered_bytes_write - UnreadCount(stream))
    BY <2>1 DEF Content, Input
  <2>3. UNCHANGED Abstract!vars
    BY <2>2 DEF Abstract!vars
  <2>4. ViewInv'
    BY <2>1 DEF PlainUse, ViewInv
  <2> QED BY <2>3, <2>4 DEF Refines, AbstractStep
<1> QED BY <1>1, <1>2, <1>3, <1>4, <1>5, <1>6, <1>7, <1>8, <1>9, <1>10, <1>11,
           <1>12, <1>13, <1>14, <1>15, <1>16 DEF Next
-----------------------------------------------------------------------------
\* While the kernel does nothing worse than reading short, and callers make
\* the plain calls (reading readable streams and writing writable ones, seeking
\* and changing the buffer only when nothing is buffered), the functions of
\* libc/src/stdio behave on a buffered stream as ByteStream says they would
\* without a buffer: whatever the sizes, the modes and the order of the calls.
\* ftell may be called at any time; what it returns is the position straight
\* after fopen, fseek, rewind or fflush.
THEOREM RefinementHolds ==
  ASSUME Faults \subseteq {"short"}, Habits = {}
  PROVE  Spec => StreamRefinement
<1>1. Faultless /\ "retry" \notin Habits
  BY DEF Faultless
<1>2. Init => Abstract!Init /\ ViewInv /\ SettledInv
  BY InitRefines DEF Init, SettledInv
<1>3. StreamInv /\ ViewInv /\ SettledInv /\ [Next]_vars
        => AbstractStep /\ ViewInv' /\ SettledInv'
  BY <1>1, NextRefines, SettledNext DEF PlainUse, Refines
<1>4. Spec => []StreamInv
  BY <1>1, StreamInvariant
<1>5. StreamInv /\ ViewInv /\ SettledInv /\ [Next]_vars
        => [Abstract!Next]_(Abstract!vars) /\ ViewInv' /\ SettledInv'
  BY <1>3 DEF AbstractStep
<1> QED BY <1>2, <1>4, <1>5, PTL DEF Spec, StreamRefinement
=============================================================================
