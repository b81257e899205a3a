---------------------------- MODULE StdioStream ----------------------------
(***************************************************************************)
(* One FILE of libc's stdio (libc/inc/file.h, libc/src/stdio): the buffer  *)
(* that reads and writes share, its counters and direction flags, over an  *)
(* open file of the kernel.  Every public function runs its unlocked body  *)
(* under the stream's mutex, so a call is one step; fread and fwrite on a  *)
(* buffered stream are a step per byte, during which no other call runs.   *)
(*                                                                         *)
(* A function that may end in several ways is the set of its outcomes:     *)
(* the stream, the node and the value it returns.                          *)
(***************************************************************************)
EXTENDS Integers, Sequences

CONSTANTS
  Bytes,      \* the byte values in use
  NL,         \* '\n', one of them
  BUFSIZ,     \* size of the buffer setvbuf allocates by default
  BUFSIZMIN,  \* the smallest buffer setvbuf allocates
  UNGET,      \* G_FILE_UNGET_PRESERVED_SPACE
  UserSizes,  \* sizes of the buffers callers hand to setvbuf
  Opens,      \* the mode strings files are opened with
  ElementSizes, Lengths,  \* size and number of the elements of an fread or fwrite
  MaxFile,    \* bound: the file is at most this long
  Faults,     \* what the kernel and malloc may do wrong, see AllFaults
  Habits      \* what callers do beyond the plain calls, see AllHabits

\* error, eof: a transfer fails, or moves nothing; short: a read returns less
\* than there is; seek: the position cannot be had or set; close: the descriptor
\* cannot be closed; alloc: malloc fails.
AllFaults == {"error", "eof", "short", "seek", "close", "alloc"}

\* retry: go on after a call on the stream has failed; mode: read a stream that
\* is not readable or write one that is not writable; seek: reposition while
\* bytes are buffered; setvbuf: replace the buffer while bytes are in it.
AllHabits == {"retry", "mode", "seek", "setvbuf"}

AllOpens == {"r", "r+", "w", "w+"}

EOF == -1
Uninit == -2   \* memory that malloc returned and nobody has written

ASSUME StreamAssumption ==
  /\ Bytes \subseteq 0 .. 255
  /\ NL \in Bytes
  /\ BUFSIZ \in Nat \ {0} /\ BUFSIZMIN \in Nat \ {0} /\ UNGET \in Nat
  /\ UserSizes \subseteq Nat \ {0}
  /\ ElementSizes \subseteq Nat \ {0} /\ Lengths \subseteq Nat
  /\ MaxFile \in Nat
  /\ Opens \subseteq AllOpens
  /\ Faults \subseteq AllFaults
  /\ Habits \subseteq AllHabits

VARIABLES
  stream,  \* the FILE structure
  node,    \* the kernel's open file: data, offset, whether it ever refused us
  call,    \* the fread or fwrite in progress
  ret      \* what the last call returned

vars == <<stream, node, call, ret>>
-----------------------------------------------------------------------------
FBF == "_IOFBF"
LBF == "_IOLBF"
NBF == "_IONBF"
NULL == "NULL"

Flags == {"MODE_READ", "MODE_WRITE", "EOF", "ERROR", "BUFFER_SET",
          "DIRECTION_READ", "DIRECTION_WRITE", "OWNER_LIBRARY"}

\* A buffer of n bytes fresh from malloc or from the caller.
NewBuffer(n) == [i \in 0 .. n - 1 |-> Uninit]

\* The zeroed structure: no buffer, unbuffered until the first access.
Closed ==
  [open |-> FALSE, flags |-> {}, memory |-> "null", buffer |-> NewBuffer(0),
   buffer_size |-> 0, buffer_mode |-> NBF, buffered_bytes_write |-> 0,
   buffered_bytes_read |-> 0, buffered_bytes_read_offset |-> 0]

\* __parse_mode_flags, for the flags that matter here.
ParseModeFlags(m) ==
  (IF m = "w" THEN {} ELSE {"MODE_READ"}) \cup (IF m = "r" THEN {} ELSE {"MODE_WRITE"})

Idle == [op |-> "none", size |-> 1, done |-> 0, total |-> 0, data |-> <<>>]

Outcome(s, n, r) == [s |-> s, n |-> n, ret |-> r]

Has(s, flag) == flag \in s.flags
Set(s, fs) == [s EXCEPT !.flags = @ \cup fs]
Clear(s, fs) == [s EXCEPT !.flags = @ \ fs]
Refuse(n) == [n EXCEPT !.refused = TRUE]

\* "if (f(stream) == EOF) return EOF;" followed by the rest of the function.
Then(outcomes, Rest(_, _)) ==
  UNION {IF o.ret = EOF THEN {o} ELSE Rest(o.s, o.n) : o \in outcomes}

\* The bytes waiting to be written, and those read but not yet returned.
Pending(s) == [i \in 1 .. s.buffered_bytes_write |-> s.buffer[i - 1]]
UnreadCount(s) == s.buffered_bytes_read - s.buffered_bytes_read_offset
Unread(s) ==
  [i \in 1 .. UnreadCount(s) |-> s.buffer[s.buffered_bytes_read_offset + i - 1]]
-----------------------------------------------------------------------------
(* The kernel's file.                                                      *)

\* f with the bytes s written over it from position p on.
Overlay(f, p, s) ==
  [i \in 1 .. (IF Len(f) > p + Len(s) THEN Len(f) ELSE p + Len(s)) |->
     IF i > p /\ i <= p + Len(s) THEN s[i - p] ELSE f[i]]

WriteAt(n, s) ==
  IF s = <<>> THEN n
  ELSE [n EXCEPT !.data = Overlay(n.data, n.off, s), !.off = @ + Len(s)]

Available(n) == IF n.off < Len(n.data) THEN Len(n.data) - n.off ELSE 0

\* A loop of write calls over the bytes s: it ends when all are written, or at
\* the first call that writes none, after `written' of them, with flag set.
WriteOutcomes(n, s) ==
  {[n |-> WriteAt(n, s), written |-> Len(s), flag |-> {}]}
  \cup {[n |-> Refuse(WriteAt(n, SubSeq(s, 1, k))), written |-> k, flag |-> {fl}] :
          k \in 0 .. Len(s) - 1,
          fl \in (IF "error" \in Faults THEN {"ERROR"} ELSE {})
                 \cup (IF "eof" \in Faults THEN {"EOF"} ELSE {})}

\* One read call of at most `most' bytes: none at the end of the file, -1 when
\* it fails, which it does on a file not opened for reading.
ReadOutcomes(s, n, most) ==
  LET there == IF Available(n) < most THEN Available(n) ELSE most
      full  == IF Has(s, "MODE_READ") THEN {there} ELSE {-1}
      short == IF "short" \in Faults /\ Has(s, "MODE_READ") THEN 1 .. there ELSE {}
      bad   == IF "error" \in Faults THEN {-1} ELSE {}
  IN  {[n |-> IF k > 0 THEN [n EXCEPT !.off = @ + k]
              ELSE IF k = -1 /\ Has(s, "MODE_READ") THEN Refuse(n) ELSE n,
        read |-> k] : k \in full \cup short \cup bad}
-----------------------------------------------------------------------------
(* The unlocked functions.                                                 *)

\* buf is NULL, or memory the caller gives.
SetvbufUnlocked(s, n, buf, mode, size) ==
  LET frees == /\ s.buffer_mode # NBF
               /\ s.memory # "null"
               /\ Has(s, "OWNER_LIBRARY")
      bytes == IF buf # NULL THEN size
               ELSE IF size = 0 THEN BUFSIZ
               ELSE IF size < BUFSIZMIN THEN BUFSIZMIN ELSE size
      flags == (s.flags \ {"OWNER_LIBRARY"}) \cup {"BUFFER_SET"}
               \cup (IF buf # NULL THEN {} ELSE {"OWNER_LIBRARY"})
      done  == [s EXCEPT !.memory = "live", !.buffer = NewBuffer(bytes),
                         !.buffer_size = bytes, !.buffer_mode = mode,
                         !.buffered_bytes_read = 0,
                         !.buffered_bytes_read_offset = 0,
                         !.buffered_bytes_write = 0, !.flags = flags]
      lost  == [s EXCEPT !.memory = IF frees THEN "freed" ELSE @]
  IN  {Outcome(done, n, 0)}
      \cup (IF buf = NULL /\ "alloc" \in Faults
            THEN {Outcome(lost, Refuse(n), -1)} ELSE {})

\* Both attempts of the function ask for the same buffer.
SetdefbufUnlocked(s, n) == SetvbufUnlocked(s, n, NULL, FBF, BUFSIZ)

\* What every access starts with: a buffer, the default one if none was set.
EnsureBuffer(s, n) ==
  IF Has(s, "BUFFER_SET") THEN {Outcome(s, n, 0)} ELSE SetdefbufUnlocked(s, n)

\* Mutant: the pending bytes are written without asking for MODE_WRITE.
FflushWriteAnyMode(s, n) ==
  IF ~Has(s, "DIRECTION_WRITE") THEN {Outcome(s, n, 0)}
  ELSE {Outcome([s EXCEPT !.flags = @ \ {"DIRECTION_WRITE"},
                          !.buffered_bytes_write = 0], WriteAt(n, Pending(s)), 0)}

FflushWriteUnlocked(s, n) ==
  IF ~Has(s, "DIRECTION_WRITE") THEN {Outcome(s, n, 0)}
  ELSE IF ~Has(s, "MODE_WRITE") THEN {Outcome(Set(s, {"ERROR"}), n, EOF)}
  ELSE {Outcome([s EXCEPT !.flags = (@ \cup w.flag) \ {"DIRECTION_WRITE"},
                          !.buffered_bytes_write = @ - w.written],
                w.n, IF w.flag = {} THEN 0 ELSE EOF) :
          w \in WriteOutcomes(n, Pending(s))}

FflushReadUnlocked(s, n) ==
  LET back  == IF n.off < UnreadCount(s) THEN 0 ELSE n.off - UnreadCount(s)
      reset == Clear([s EXCEPT !.buffered_bytes_read = 0,
                               !.buffered_bytes_read_offset = 0],
                     {"DIRECTION_READ"})
  IN  IF ~Has(s, "DIRECTION_READ") THEN {Outcome(s, n, 0)}
      ELSE IF ~Has(s, "MODE_READ") THEN {Outcome(Set(s, {"ERROR"}), n, EOF)}
      ELSE {Outcome(reset, [n EXCEPT !.off = back], 0)}
           \cup (IF "seek" \in Faults
                 THEN {Outcome(reset, n, 0), Outcome(Set(reset, {"ERROR"}), n, 0)}
                 ELSE {})

FflushUnlocked(s, n) ==
  Then(FflushReadUnlocked(s, n), FflushWriteUnlocked)

\* The byte at the read offset is returned, or the buffer is filled first.
TakeByte(s, n) ==
  {Outcome([s EXCEPT !.buffered_bytes_read_offset = @ + 1], n,
           s.buffer[s.buffered_bytes_read_offset])}

\* Mutant: a failed read is taken for the end of the file.
FillBufferEnds(s, n) ==
  {Outcome(Set(s, {"EOF"}), r.n, EOF) : r \in ReadOutcomes(s, n, s.buffer_size)}

\* Mutant: a read is taken to have filled the buffer.
FillBufferAll(s, n) ==
  LET space == IF UNGET >= s.buffer_size THEN 0 ELSE UNGET
  IN  {IF r.read <= 0 THEN Outcome(Set(s, {"EOF", "ERROR"}), r.n, EOF)
       ELSE Outcome([s EXCEPT !.buffer = [i \in DOMAIN @ |->
                                IF i >= space /\ i < space + r.read
                                THEN n.data[n.off + i - space + 1] ELSE @[i]],
                              !.buffered_bytes_read = s.buffer_size,
                              !.buffered_bytes_read_offset = space], r.n, 0) :
         r \in ReadOutcomes(s, n, s.buffer_size - space)}

FillBuffer(s, n) ==
  LET space == IF UNGET >= s.buffer_size THEN 0 ELSE UNGET
      Filled(r) ==
        [s EXCEPT !.buffer = [i \in DOMAIN @ |->
                                IF i >= space /\ i < space + r.read
                                THEN n.data[n.off + i - space + 1] ELSE @[i]],
                  !.buffered_bytes_read = space + r.read,
                  !.buffered_bytes_read_offset = space]
  IN  {CASE r.read = 0  -> Outcome(Set(s, {"EOF"}), r.n, EOF)
         [] r.read = -1 -> Outcome(Set(s, {"ERROR"}), r.n, EOF)
         [] OTHER       -> Outcome(Filled(r), r.n, 0) :
         r \in ReadOutcomes(s, n, s.buffer_size - space)}

\* Mutant: the direction is not changed to reading.
ReadByteUndirected(s, n) ==
  IF s.buffered_bytes_read_offset >= s.buffered_bytes_read
  THEN Then(FillBuffer(s, n), TakeByte) ELSE TakeByte(s, n)

ReadByte(s, n) ==
  LET s1 == Set(Clear(s, {"DIRECTION_WRITE"}), {"DIRECTION_READ"})
  IN  IF s1.buffered_bytes_read_offset >= s1.buffered_bytes_read
      THEN Then(FillBuffer(s1, n), TakeByte)
      ELSE TakeByte(s1, n)

\* Mutant: fgetc does not flush what was written before.
FgetcNoFlush(s, n) == ReadByte(s, n)

\* __fgetc_unlocked on a buffered stream.
FgetcBuffered(s, n) == Then(FflushWriteUnlocked(s, n), ReadByte)

\* A byte stored at the end of the pending ones; past the end of the buffer it
\* lands in the memory that follows.
StoreByte(s, c) ==
  LET at == s.buffered_bytes_write
  IN  [s EXCEPT !.buffer = [i \in DOMAIN @ \cup {at} |-> IF i = at THEN c ELSE @[i]],
                !.buffered_bytes_write = at + 1]

MakeRoom(s, n) ==
  IF s.buffered_bytes_write = s.buffer_size
  THEN FflushWriteUnlocked(s, n) ELSE {Outcome(s, n, 0)}

\* Mutant: a newline does not flush.
WriteByteNoLine(s, n, c) ==
  {Outcome(StoreByte(Set(Clear(s, {"DIRECTION_READ"}), {"DIRECTION_WRITE"}), c), n, c)}

WriteByte(s, n, c) ==
  LET s1 == StoreByte(Set(Clear(s, {"DIRECTION_READ"}), {"DIRECTION_WRITE"}), c)
  IN  {Outcome(o.s, o.n, IF o.ret = EOF THEN EOF ELSE c) :
         o \in IF s1.buffer_mode = LBF /\ c = NL
               THEN FflushWriteUnlocked(s1, n) ELSE {Outcome(s1, n, 0)}}

\* __fputc_unlocked on a buffered stream.
FputcBuffered(s, n, c) ==
  Then(Then(FflushReadUnlocked(s, n), MakeRoom),
       LAMBDA s1, n1 : WriteByte(s1, n1, c))

\* A loop of read calls straight into the caller's memory, on an unbuffered
\* stream: the bytes it got, and the flag the call that ended it set.
FreadDirect(s, n, total) ==
  LET s1    == Clear(Set(s, {"DIRECTION_READ"}), {"EOF"})
      there == IF Available(n) < total THEN Available(n) ELSE total
      Got(k) == SubSeq(n.data, n.off + 1, n.off + k)
      To(k)  == [n EXCEPT !.off = @ + k]
  IN  IF ~Has(s, "MODE_READ") THEN {Outcome(Set(s, {"ERROR"}), n, <<>>)}
      ELSE {Outcome(IF there < total THEN Set(s1, {"EOF"}) ELSE s1,
                    To(there), Got(there))}
           \cup {Outcome(Set(s1, {"ERROR"}), Refuse(To(k)), Got(k)) :
                   k \in IF "error" \notin Faults THEN {}
                         ELSE 0 .. (IF there < total THEN there ELSE total - 1)}

\* The same for writing; a failed loop returns EOF whatever it wrote.
FwriteDirect(s, n, data) ==
  LET s1 == Clear(Set(s, {"DIRECTION_WRITE"}), {"EOF"})
  IN  IF ~Has(s, "MODE_WRITE") THEN {Outcome(Set(s, {"ERROR"}), n, <<>>)}
      ELSE {Outcome(Set(s1, w.flag), w.n, IF w.flag = {} THEN data ELSE <<>>) :
              w \in WriteOutcomes(n, data)}

\* Mutant: a byte is pushed back whether there is room for it or not.
FungetcNoSpaceCheck(s, n, c) ==
  {IF c = EOF THEN Outcome(s, n, EOF)
   ELSE Outcome([s EXCEPT !.buffered_bytes_read_offset = @ - 1], n, c)}

\* c = EOF pushes nothing back.
FungetcBuffered(s, n, c) ==
  LET count == UnreadCount(s)
      space == s.buffer_size - count
      moved == [s EXCEPT !.buffer = [i \in DOMAIN @ |->
                                       IF i >= space THEN @[i - space] ELSE @[i]],
                         !.buffered_bytes_read_offset = space,
                         !.buffered_bytes_read = space + count]
      room  == IF s.buffered_bytes_read_offset = 0 THEN moved ELSE s
      at    == room.buffered_bytes_read_offset - 1
  IN  IF c = EOF \/ (s.buffered_bytes_read_offset = 0 /\ space = 0)
      THEN {Outcome(s, n, EOF)}
      ELSE {Outcome([room EXCEPT !.buffer[at] = c,
                                 !.buffered_bytes_read_offset = at], n, c)}

\* Flushing the written bytes turns the stream to reading.
PushBack(s, n, c) ==
  IF s.buffer_mode = NBF THEN {Outcome(Set(s, {"ERROR"}), n, EOF)}
  ELSE Then(FflushWriteUnlocked(s, n),
            LAMBDA s1, n1 :
              FungetcBuffered(Clear(Set(s1, {"DIRECTION_READ"}), {"EOF"}), n1, c))

FungetcUnlocked(s, n, c) ==
  Then(EnsureBuffer(s, n), LAMBDA s1, n1 : PushBack(s1, n1, c))
-----------------------------------------------------------------------------
(* The public functions.  Each is called by a client that has the stream   *)
(* to itself: the functions take the stream's mutex and keep it.           *)

\* A value returned: a byte, or nothing for EOF.
Return(kind, v) == ret' = [kind |-> kind, val |-> IF v = EOF THEN <<>> ELSE <<v>>]

\* A client calls a function of the open stream; unless it has the habit to
\* retry, it only does so as long as nothing has failed.
Calls ==
  /\ stream.open
  /\ call = Idle
  /\ "retry" \in Habits \/ ~node.refused

MayRead  == "mode" \in Habits \/ Has(stream, "MODE_READ")
MayWrite == "mode" \in Habits \/ Has(stream, "MODE_WRITE")
NoneBuffered == stream.buffered_bytes_write = 0 /\ UnreadCount(stream) = 0

\* Where the next byte is written, for the bound on the file.
PutPosition ==
  (IF node.off < UnreadCount(stream) THEN 0 ELSE node.off - UnreadCount(stream))
  + stream.buffered_bytes_write

Fopen(m) ==
  /\ ~stream.open
  /\ stream' = [Closed EXCEPT !.open = TRUE, !.flags = ParseModeFlags(m)]
  /\ node' = [node EXCEPT !.data = IF m \in {"w", "w+"} THEN <<>> ELSE @,
                          !.refused = FALSE]
  /\ Return("open", 0)
  /\ UNCHANGED call

\* The flush's result is not looked at; the position goes with the descriptor.
\* When that cannot be closed, the FILE stays as the flush left it.
Fclose ==
  /\ stream.open
  /\ call = Idle
  /\ \E o \in FflushUnlocked(stream, node) :
       \/ /\ stream' = Closed
          /\ node' = [o.n EXCEPT !.off = 0]
          /\ Return("close", 0)
       \/ /\ "close" \in Faults
          /\ stream' = o.s
          /\ node' = Refuse(o.n)
          /\ Return("close", EOF)
  /\ UNCHANGED call

Fgetc ==
  /\ Calls /\ MayRead
  /\ \E e \in EnsureBuffer(stream, node) :
       IF e.ret = EOF
       THEN stream' = e.s /\ node' = e.n /\ Return("got", EOF)
       ELSE IF e.s.buffer_mode = NBF
       THEN \E o \in FreadDirect(e.s, e.n, 1) :
              /\ stream' = o.s /\ node' = o.n
              /\ ret' = [kind |-> "got", val |-> o.ret]
       ELSE \E o \in FgetcBuffered(e.s, e.n) :
              stream' = o.s /\ node' = o.n /\ Return("got", o.ret)
  /\ UNCHANGED call

Fputc(c) ==
  /\ Calls /\ MayWrite
  /\ PutPosition < MaxFile
  /\ \E e \in EnsureBuffer(stream, node) :
       IF e.ret = EOF
       THEN stream' = e.s /\ node' = e.n /\ Return("put", EOF)
       ELSE IF e.s.buffer_mode = NBF
       THEN \E o \in FwriteDirect(e.s, e.n, <<c>>) :
              /\ stream' = o.s /\ node' = o.n
              /\ ret' = [kind |-> "put", val |-> o.ret]
       ELSE \E o \in FputcBuffered(e.s, e.n, c) :
              stream' = o.s /\ node' = o.n /\ Return("put", o.ret)
  /\ UNCHANGED call

\* fread on a stream that may be read: unbuffered it ends in one go, buffered
\* it starts the loop over the bytes.
FreadBegin(size, nmemb) ==
  /\ Calls /\ MayRead /\ nmemb > 0
  /\ IF ~Has(stream, "MODE_READ")
     THEN /\ stream' = Set(stream, {"ERROR"})
          /\ Return("got", EOF)
          /\ UNCHANGED <<node, call>>
     ELSE \E e \in EnsureBuffer(stream, node) :
       IF e.ret = EOF
       THEN stream' = e.s /\ node' = e.n /\ Return("got", EOF) /\ UNCHANGED call
       ELSE IF e.s.buffer_mode = NBF
       THEN \E o \in FreadDirect(e.s, e.n, size * nmemb) :
              /\ stream' = o.s /\ node' = o.n
              /\ ret' = [kind |-> "got", val |-> o.ret]
              /\ call' = [Idle EXCEPT !.op = "fread", !.size = size,
                                      !.done = Len(o.ret), !.total = Len(o.ret)]
       ELSE /\ stream' = e.s /\ node' = e.n
            /\ call' = [Idle EXCEPT !.op = "fread", !.size = size,
                                    !.total = size * nmemb]
            /\ Return("status", 0)

\* One turn of the loop; EOF ends it.
FreadByte ==
  /\ call.op = "fread" /\ call.done < call.total
  /\ \E o \in FgetcBuffered(stream, node) :
       /\ stream' = o.s /\ node' = o.n
       /\ Return("got", o.ret)
       /\ call' = IF o.ret = EOF THEN [call EXCEPT !.total = call.done]
                  ELSE [call EXCEPT !.done = @ + 1]

FwriteBegin(size, data) ==
  /\ Calls /\ MayWrite /\ data # <<>>
  /\ PutPosition + Len(data) <= MaxFile
  /\ IF ~Has(stream, "MODE_WRITE")
     THEN /\ stream' = Set(stream, {"ERROR"})
          /\ Return("put", EOF)
          /\ UNCHANGED <<node, call>>
     ELSE \E e \in EnsureBuffer(stream, node) :
       IF e.ret = EOF
       THEN stream' = e.s /\ node' = e.n /\ Return("put", EOF) /\ UNCHANGED call
       ELSE IF e.s.buffer_mode = NBF
       THEN \E o \in FwriteDirect(e.s, e.n, data) :
              /\ stream' = o.s /\ node' = o.n
              /\ ret' = [kind |-> "put", val |-> o.ret]
              /\ call' = IF o.ret = <<>> THEN call
                         ELSE [Idle EXCEPT !.op = "fwrite", !.size = size,
                                  !.done = Len(data), !.total = Len(data)]
       ELSE /\ stream' = e.s /\ node' = e.n
            /\ call' = [Idle EXCEPT !.op = "fwrite", !.size = size,
                                    !.total = Len(data), !.data = data]
            /\ Return("status", 0)

FwriteByte ==
  /\ call.op = "fwrite" /\ call.done < call.total
  /\ \E o \in FputcBuffered(stream, node, call.data[call.done + 1]) :
       /\ stream' = o.s /\ node' = o.n
       /\ Return("put", o.ret)
       /\ call' = IF o.ret = EOF THEN [call EXCEPT !.total = call.done]
                  ELSE [call EXCEPT !.done = @ + 1]

\* fread and fwrite return the number of complete elements.
TransferEnd ==
  /\ call.op # "none" /\ call.done = call.total
  /\ call' = Idle
  /\ Return("count", call.done \div call.size)
  /\ UNCHANGED <<stream, node>>

Ungetc(c) ==
  /\ Calls /\ MayRead
  /\ \E o \in FungetcUnlocked(stream, node, c) :
       stream' = o.s /\ node' = o.n /\ Return("unget", o.ret)
  /\ UNCHANGED call

Fflush ==
  /\ Calls
  /\ \E o \in FflushUnlocked(stream, node) :
       stream' = o.s /\ node' = o.n /\ Return("sync", o.ret)
  /\ UNCHANGED call

\* Straight to the kernel: the buffer is neither flushed nor dropped.
Fseek(p) ==
  /\ Calls
  /\ "seek" \in Habits \/ NoneBuffered
  /\ p <= Len(node.data)
  /\ node' = [node EXCEPT !.off = p]
  /\ Return("seek", p)
  /\ UNCHANGED <<stream, call>>

\* The kernel's position, whatever is buffered.
Ftell ==
  /\ Calls
  /\ Return("tell", node.off)
  /\ UNCHANGED <<stream, node, call>>

\* No stream has an impl_clearerr, so the flags stay as they are.
Clearerr ==
  /\ Calls
  /\ Return("status", 0)
  /\ UNCHANGED <<stream, node, call>>

Rewind ==
  /\ Calls
  /\ "seek" \in Habits \/ NoneBuffered
  /\ node' = [node EXCEPT !.off = 0]
  /\ Return("seek", 0)
  /\ UNCHANGED <<stream, call>>

Setvbuf(buf, mode, size) ==
  /\ Calls
  /\ "setvbuf" \in Habits \/ NoneBuffered
  /\ \E o \in SetvbufUnlocked(stream, node, buf, mode, size) :
       stream' = o.s /\ node' = o.n /\ Return("status", o.ret)
  /\ UNCHANGED call
-----------------------------------------------------------------------------
Init ==
  /\ stream = Closed
  /\ node = [data |-> <<>>, off |-> 0, refused |-> FALSE]
  /\ call = Idle
  /\ ret = [kind |-> "close", val |-> <<0>>]

Next ==
  \/ \E m \in Opens : Fopen(m)
  \/ Fclose
  \/ Fgetc
  \/ \E c \in Bytes : Fputc(c)
  \/ \E size \in ElementSizes, nmemb \in Lengths : FreadBegin(size, nmemb)
  \/ FreadByte
  \/ \E size \in ElementSizes, nmemb \in Lengths :
       \E data \in [1 .. size * nmemb -> Bytes] : FwriteBegin(size, data)
  \/ FwriteByte
  \/ TransferEnd
  \/ \E c \in Bytes \cup {EOF} : Ungetc(c)
  \/ Fflush
  \/ \E p \in 0 .. MaxFile : Fseek(p)
  \/ Ftell
  \/ Clearerr
  \/ Rewind
  \/ \E mode \in {FBF, LBF, NBF} :
       \/ \E size \in UserSizes : Setvbuf("user", mode, size)
       \/ \E size \in UserSizes \cup {0} : Setvbuf(NULL, mode, size)

Spec == Init /\ [][Next]_vars
-----------------------------------------------------------------------------
(* The caller's view: the file as if every pending byte were written, the   *)
(* position as if no byte were read ahead.                                  *)

Content == IF stream.buffered_bytes_write = 0 THEN node.data
           ELSE Overlay(node.data, node.off, Pending(stream))
Input == Unread(stream)
         \o SubSeq(Content, node.off + stream.buffered_bytes_write + 1, Len(Content))

CallerPos == node.off + stream.buffered_bytes_write - UnreadCount(stream)

Abstract == INSTANCE ByteStream WITH
  isOpen  <- stream.open,
  content <- Content,
  pos     <- CallerPos,
  input   <- Input,
  result  <- ret

\* The buffered stream behaves as an unbuffered one would: a read returns the
\* next byte of the file as written so far and EOF only at its end, a write
\* lands at the caller's position, and fflush, fclose, setvbuf and a change
\* between reading and writing lose and move nothing (the whole of libc/src/stdio).
\* ftell is held to the position only straight after fopen, fseek or fflush.
StreamRefinement == Abstract!Init /\ [][Abstract!Next]_(Abstract!vars)

Cells == Bytes \cup {Uninit}
BufferSizes == {0, BUFSIZ, BUFSIZMIN} \cup UserSizes
Buffers == UNION {[0 .. k - 1 -> Cells] : k \in BufferSizes}
Streams ==
  [open : BOOLEAN, flags : SUBSET Flags, memory : {"null", "live", "freed"},
   buffer : Buffers,
   buffer_size : BufferSizes, buffer_mode : {FBF, LBF, NBF},
   buffered_bytes_write : Nat, buffered_bytes_read : Nat,
   buffered_bytes_read_offset : Nat]
Nodes == [data : Seq(Bytes), off : Nat, refused : BOOLEAN]
Transfers == [op : {"none", "fread", "fwrite"}, size : ElementSizes \cup {1},
              done : Nat, total : Nat, data : Seq(Bytes)]
Results == [kind : Abstract!Kinds, val : Seq(Int)]

\* The shape of the state; that the file holds bytes only means that nothing
\* uninitialised is ever written to it.
TypeOK ==
  /\ stream \in Streams
  /\ node \in Nodes
  /\ call \in Transfers
  /\ ret \in Results

InBounds(s) ==
  /\ DOMAIN s.buffer = 0 .. s.buffer_size - 1
  /\ s.buffered_bytes_write <= s.buffer_size
  /\ s.buffered_bytes_read <= s.buffer_size
  /\ s.buffered_bytes_read_offset <= s.buffered_bytes_read
  /\ \A i \in 0 .. s.buffered_bytes_write - 1 : s.buffer[i] \in Bytes
  /\ \A i \in s.buffered_bytes_read_offset .. s.buffered_bytes_read - 1 :
       s.buffer[i] \in Bytes

\* The counters stay inside the buffer, and what lies between them is data that
\* the file or the caller put there (fputc, fgetc and ungetc index by them).
BufferBounds == InBounds(stream)

Directed(s) ==
  /\ s.buffered_bytes_write > 0 => Has(s, "DIRECTION_WRITE")
  /\ UnreadCount(s) > 0 => Has(s, "DIRECTION_READ")
  /\ s.buffered_bytes_write = 0 \/ UnreadCount(s) = 0

\* Bytes are only buffered in the direction the flags record, else fflush and
\* fclose would leave them behind (__fflush_unlocked tests the flags first).
DirectionSound == ~node.refused => Directed(stream)

\* A line-buffered stream never keeps a completed line back (__fputc_unlocked
\* flushes on a newline, in every path that stores a byte).
LinesDelivered ==
  stream.buffer_mode = LBF /\ ~node.refused =>
    \A i \in 0 .. stream.buffered_bytes_write - 1 : stream.buffer[i] # NL

\* When a read returns no byte, the indicators say why (fgetc, fread: a caller
\* has no other way to tell the end from a failure): the error indicator is set,
\* or the end-of-file indicator, and the file is at its end or bytes that had to
\* be written first are still pending.
EofExplained ==
  stream.open /\ ret = [kind |-> "got", val |-> <<>>] =>
    \/ Has(stream, "ERROR")
    \/ Has(stream, "EOF") /\ (Available(node) = 0 \/ stream.buffered_bytes_write > 0)

\* A stream that was not opened for writing never changes its file, whatever is
\* put into it (__fflush_write_unlocked, __fwrite_unlocked).
ReadOnlyKept ==
  [][stream.open /\ ~Has(stream, "MODE_WRITE") => node'.data = node.data]_vars
=============================================================================
