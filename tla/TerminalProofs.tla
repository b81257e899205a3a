--------------------------- MODULE TerminalProofs ---------------------------
(***************************************************************************)
(* Proof about Terminal that of what is typed nothing is doubled or        *)
(* reordered on its way to the programs, and that nothing is lost but the  *)
(* end of a key whose only write found the pipe nearly full: for every set *)
(* of characters, any number of output streams, every size of the pipe and *)
(* every bound on the events.                                              *)
(*                                                                         *)
(* The fairness of the specification plays no part.  NothingLost is not    *)
(* inductive: it says nothing of what the input thread has still to write  *)
(* when it takes the next key, so InputInv adds that it has written        *)
(* everything by then, and that it writes the bytes of keys only, never of *)
(* an answer.                                                              *)
(***************************************************************************)
EXTENDS Terminal, NaturalsInduction, WellFoundedInduction, TLAPS

\* Every set of numbers that is not empty has a least one.
LEMMA LeastNumber ==
  ASSUME NEW T \in SUBSET Nat, T # {}
  PROVE  \E m \in T : \A k \in T : m <= k
<1>1. PICK m \in T : \A k \in T : ~ (<<k, m>> \in OpToRel(<, Nat))
  BY NatLessThanWellFounded, WFMin
<1>2. \A k \in T : ~(k < m)
  BY <1>1 DEF OpToRel
<1> QED BY <1>2
-----------------------------------------------------------------------------
(* The bytes of keys among the bytes in the pipe.                           *)

KeyBytes == Chars \cup TermKeys \cup {"SUB", "HIGH", "NEWLINE"}
Characters == KeyBytes \cup AnswerBytes

\* One step of the recursion of KeysIn.
Taking(w, c) == IF c \in AnswerBytes THEN w ELSE Append(w, c)

\* g[n] holds the keys among the first n of the characters s, up to n = k.
IsTaking(g, s, k) ==
  /\ g \in [0 .. k -> Seq(KeyBytes)]
  /\ g[0] = <<>>
  /\ \A n \in 1 .. k : g[n] = Taking(g[n - 1], s[n])

\* Taking a key leaves keys.
LEMMA TakingType ==
  ASSUME NEW w \in Seq(KeyBytes), NEW c \in Characters
  PROVE  Taking(w, c) \in Seq(KeyBytes)
BY DEF Taking, Characters, AnswerBytes

\* Two functions that do that agree.
LEMMA TakingUnique ==
  ASSUME NEW s, NEW k \in Nat, NEW g, NEW h, IsTaking(g, s, k), IsTaking(h, s, k)
  PROVE  g[k] = h[k]
<1> DEFINE T == {n \in 0 .. k : g[n] # h[n]}
<1>1. T = {}
  <2> SUFFICES ASSUME T # {} PROVE FALSE
    OBVIOUS
  <2>1. T \in SUBSET Nat
    OBVIOUS
  <2>2. PICK m \in T : \A j \in T : m <= j
    BY <2>1, LeastNumber
  <2>3. m # 0
    BY <2>2 DEF IsTaking
  <2>4. m \in 1 .. k /\ m - 1 \in 0 .. k /\ m - 1 \notin T
    BY <2>2, <2>3
  <2> QED BY <2>2, <2>4 DEF IsTaking
<1> QED BY <1>1

\* There is one.
LEMMA TakingExists ==
  ASSUME NEW s \in Seq(Characters)
  PROVE  \A k \in 0 .. Len(s) : \E g : IsTaking(g, s, k)
<1> DEFINE T == {k \in 0 .. Len(s) : ~ \E g : IsTaking(g, s, k)}
<1> SUFFICES ASSUME T # {} PROVE FALSE
  OBVIOUS
<1>0. T \in SUBSET Nat
  OBVIOUS
<1>1. PICK m \in T : \A j \in T : m <= j
  BY <1>0, LeastNumber
<1>2. m \in 0 .. Len(s) /\ ~ \E g : IsTaking(g, s, m)
  BY <1>1
<1>3. CASE m = 0
  <2>1. IsTaking([n \in 0 .. 0 |-> <<>>], s, 0)
    BY DEF IsTaking
  <2> QED BY <1>2, <1>3, <2>1
<1>4. CASE m # 0
  <2>1. m \in Nat /\ m - 1 \in 0 .. Len(s) /\ m - 1 \notin T /\ m \in 1 .. Len(s)
    BY <1>1, <1>2, <1>4
  <2>2. PICK g : IsTaking(g, s, m - 1)
    BY <2>1
  <2> DEFINE w == Taking(g[m - 1], s[m])
             h == [n \in 0 .. m |-> IF n = m THEN w ELSE g[n]]
  <2>3. w \in Seq(KeyBytes)
    <3>1. g[m - 1] \in Seq(KeyBytes)
      BY <2>1, <2>2 DEF IsTaking
    <3>2. s[m] \in Characters
      BY <2>1
    <3> QED BY <3>1, <3>2, TakingType
  <2> HIDE DEF w
  <2>4. h \in [0 .. m -> Seq(KeyBytes)]
    BY <2>1, <2>2, <2>3 DEF IsTaking
  <2>5. h[0] = <<>>
    BY <2>1, <2>2 DEF IsTaking
  <2>6. ASSUME NEW n \in 1 .. m PROVE h[n] = Taking(h[n - 1], s[n])
    <3>1. CASE n = m
      <4>1. h[n] = w /\ h[n - 1] = g[m - 1]
        BY <2>1, <3>1
      <4> QED BY <3>1, <4>1 DEF w
    <3>2. CASE n # m
      <4>1. n \in 1 .. m - 1 /\ n \in 0 .. m /\ n - 1 \in 0 .. m /\ n - 1 # m
        BY <2>1, <3>2
      <4>2. h[n] = g[n] /\ h[n - 1] = g[n - 1]
        BY <3>2, <4>1
      <4> QED BY <2>2, <4>1, <4>2 DEF IsTaking
    <3> QED BY <3>1, <3>2
  <2> HIDE DEF h
  <2>7. IsTaking(h, s, m)
    BY <2>4, <2>5, <2>6 DEF IsTaking
  <2> QED BY <1>2, <2>7
<1> QED BY <1>3, <1>4

\* KeysIn is its last value.
LEMMA KeysInTaking ==
  ASSUME NEW s \in Seq(Characters)
  PROVE  \E g : IsTaking(g, s, Len(s)) /\ KeysIn(s) = g[Len(s)]
<1> DEFINE N == Len(s)
           Eq(f) == f = [n \in 0 .. N |-> IF n = 0 THEN <<>>
                                          ELSE IF s[n] \in AnswerBytes THEN f[n - 1]
                                          ELSE Append(f[n - 1], s[n])]
           F == CHOOSE f : Eq(f)
<1>1. N \in Nat /\ N \in 0 .. N
  OBVIOUS
<1>2. PICK g : IsTaking(g, s, N)
  BY <1>1, TakingExists
<1>3. Eq(g)
  <2>1. \A n \in 0 .. N : n # 0 => n \in 1 .. N
    BY <1>1
  <2>2. \A n \in 0 .. N : g[n] = IF n = 0 THEN <<>>
                                 ELSE IF s[n] \in AnswerBytes THEN g[n - 1]
                                 ELSE Append(g[n - 1], s[n])
    BY <1>2, <2>1 DEF IsTaking, Taking
  <2> QED BY <1>2, <2>2 DEF IsTaking
<1>4. KeysIn(s) = F[N]
  BY DEF KeysIn
<1>5. Eq(F)
  BY <1>3
<1> HIDE DEF F
<1>6. \A n \in 0 .. N : F[n] = IF n = 0 THEN <<>> ELSE Taking(F[n - 1], s[n])
  BY <1>5 DEF Taking
<1>7. F = [n \in 0 .. N |-> F[n]]
  BY <1>5
<1> HIDE DEF N, Eq
<1> DEFINE T == {n \in 0 .. N : F[n] # g[n]}
<1>8. T = {}
  <2> SUFFICES ASSUME T # {} PROVE FALSE
    OBVIOUS
  <2>1. T \in SUBSET Nat
    BY <1>1
  <2>2. PICK m \in T : \A k \in T : m <= k
    BY <2>1, LeastNumber
  <2>3. m # 0
    BY <1>1, <1>2, <1>6, <2>2 DEF IsTaking
  <2>4. m - 1 \in 0 .. N /\ m - 1 \notin T /\ m \in 1 .. N
    BY <1>1, <2>2, <2>3
  <2> QED BY <1>2, <1>6, <2>2, <2>3, <2>4 DEF IsTaking
<1> QED BY <1>1, <1>2, <1>4, <1>8 DEF N

\* Any function that takes the keys of s ends in KeysIn(s).
LEMMA KeysInIs ==
  ASSUME NEW s \in Seq(Characters), NEW g, IsTaking(g, s, Len(s))
  PROVE  KeysIn(s) = g[Len(s)] /\ KeysIn(s) \in Seq(KeyBytes)
<1>1. PICK h : IsTaking(h, s, Len(s)) /\ KeysIn(s) = h[Len(s)]
  BY KeysInTaking
<1>2. Len(s) \in Nat
  OBVIOUS
<1>3. h[Len(s)] = g[Len(s)]
  BY <1>1, <1>2, TakingUnique
<1>4. Len(s) \in 0 .. Len(s)
  BY <1>2
<1>5. g[Len(s)] \in Seq(KeyBytes)
  BY <1>4 DEF IsTaking
<1> QED BY <1>1, <1>3, <1>5

\* Nothing holds no key.
LEMMA KeysInEmpty == KeysIn(<<>>) = <<>>
<1> DEFINE g == [n \in 0 .. 0 |-> <<>>]
<1>1. <<>> \in Seq(Characters) /\ Len(<<>>) = 0
  OBVIOUS
<1>2. IsTaking(g, <<>>, 0) /\ g[0] = <<>>
  BY DEF IsTaking
<1> HIDE DEF g
<1> QED BY <1>1, <1>2, KeysInIs

\* What is written last comes last.
LEMMA KeysInAppend ==
  ASSUME NEW s \in Seq(Characters), NEW c \in Characters
  PROVE  KeysIn(Append(s, c)) = Taking(KeysIn(s), c)
<1> DEFINE t == Append(s, c)
           N == Len(s)
           M == Len(t)
<1>1. /\ N \in Nat /\ t \in Seq(Characters) /\ M = N + 1 /\ t[N + 1] = c
      /\ \A n \in 1 .. N : t[n] = s[n]
  OBVIOUS
<1>2. PICK g : IsTaking(g, s, N) /\ KeysIn(s) = g[N]
  BY KeysInTaking
<1> HIDE DEF t, N
<1> DEFINE w == Taking(g[N], c)
           h == [n \in 0 .. N + 1 |-> IF n = N + 1 THEN w ELSE g[n]]
<1>3. w \in Seq(KeyBytes)
  <2>1. g[N] \in Seq(KeyBytes)
    BY <1>1, <1>2 DEF IsTaking
  <2> QED BY <2>1, TakingType
<1>4. w = Taking(g[N], c)
  OBVIOUS
<1> HIDE DEF w
<1>5. h \in [0 .. N + 1 -> Seq(KeyBytes)] /\ h[N + 1] = w /\ \A n \in 0 .. N : h[n] = g[n]
  BY <1>1, <1>2, <1>3 DEF IsTaking
<1> HIDE DEF h
<1>6. ASSUME NEW n \in 1 .. N + 1 PROVE h[n] = Taking(h[n - 1], t[n])
  <2>1. CASE n = N + 1
    <3>1. h[n - 1] = g[N]
      BY <1>1, <1>5, <2>1
    <3> QED BY <1>1, <1>4, <1>5, <2>1, <3>1
  <2>2. CASE n # N + 1
    <3>1. n \in 1 .. N /\ n - 1 \in 0 .. N /\ n \in 0 .. N
      BY <1>1, <2>2
    <3> QED BY <1>1, <1>2, <1>5, <3>1 DEF IsTaking
  <2> QED BY <2>1, <2>2
<1>7. IsTaking(h, t, N + 1)
  <2>1. h[0] = <<>>
    BY <1>1, <1>2, <1>5 DEF IsTaking
  <2> QED BY <1>5, <1>6, <2>1 DEF IsTaking
<1>8. KeysIn(t) = h[N + 1]
  BY <1>1, <1>7, KeysInIs
<1> QED BY <1>2, <1>4, <1>5, <1>8 DEF t

\* What is read first came first.
LEMMA KeysInTail ==
  ASSUME NEW s \in Seq(Characters), s # <<>>
  PROVE  /\ Head(s) \in AnswerBytes => KeysIn(Tail(s)) = KeysIn(s)
         /\ Head(s) \notin AnswerBytes => /\ KeysIn(s) # <<>>
                                /\ KeysIn(Tail(s)) = Tail(KeysIn(s))
<1> DEFINE t == Tail(s)
           N == Len(t)
<1>1. /\ N \in Nat /\ t \in Seq(Characters) /\ Len(s) = N + 1
      /\ Head(s) = s[1] /\ s[1] \in Characters
      /\ \A n \in 1 .. N : t[n] = s[n + 1]
  OBVIOUS
<1>2. PICK g : IsTaking(g, s, N + 1) /\ KeysIn(s) = g[N + 1]
  BY <1>1, KeysInTaking
<1>3. Tail(s) = t
  OBVIOUS
<1> HIDE DEF t, N
<1>4. g[1] = Taking(<<>>, s[1])
  BY <1>1, <1>2 DEF IsTaking
<1>5. CASE Head(s) \in AnswerBytes
  <2> DEFINE h == [n \in 0 .. N |-> g[n + 1]]
  <2>1. \A n \in 0 .. N : h[n] = g[n + 1] /\ n + 1 \in 0 .. N + 1
    BY <1>1
  <2>2. h \in [0 .. N -> Seq(KeyBytes)]
    BY <1>1, <1>2 DEF IsTaking
  <2> HIDE DEF h
  <2>3. h[0] = <<>>
    BY <1>1, <1>4, <1>5, <2>1 DEF Taking
  <2>4. ASSUME NEW n \in 1 .. N PROVE h[n] = Taking(h[n - 1], t[n])
    <3>1. n + 1 \in 1 .. N + 1 /\ n \in 0 .. N /\ n - 1 \in 0 .. N /\ (n + 1) - 1 = n /\ (n - 1) + 1 = n
      BY <1>1
    <3>2. g[n + 1] = Taking(g[n], s[n + 1])
      BY <1>2, <3>1 DEF IsTaking
    <3>3. h[n - 1] = g[n] /\ h[n] = g[n + 1]
      BY <2>1, <3>1
    <3> QED BY <1>1, <3>2, <3>3
  <2>5. IsTaking(h, t, N)
    BY <2>2, <2>3, <2>4 DEF IsTaking
  <2>6. KeysIn(t) = h[N]
    BY <1>1, <2>5, KeysInIs DEF N
  <2>7. h[N] = g[N + 1]
    BY <1>1, <2>1
  <2> QED BY <1>2, <1>3, <1>5, <2>6, <2>7
<1>6. CASE Head(s) \notin AnswerBytes
  <2>1. \A n \in 1 .. N + 1 : g[n] # <<>>
    <3> DEFINE T == {n \in 1 .. N + 1 : g[n] = <<>>}
    <3> SUFFICES ASSUME T # {} PROVE FALSE
      OBVIOUS
    <3>1. T \in SUBSET Nat
      BY <1>1
    <3>2. PICK m \in T : \A k \in T : m <= k
      BY <3>1, LeastNumber
    <3>3. m # 1
      <4>1. g[1] = Append(<<>>, s[1])
        BY <1>1, <1>4, <1>6 DEF Taking
      <4>2. Append(<<>>, s[1]) # <<>>
        BY <1>1
      <4>3. g[m] = <<>>
        BY <3>2
      <4> QED BY <4>1, <4>2, <4>3
    <3>4. m - 1 \in 1 .. N + 1 /\ m - 1 \notin T /\ m \in 1 .. N + 1 /\ m - 1 \in 0 .. N + 1
      BY <1>1, <3>2, <3>3
    <3>5. g[m] = Taking(g[m - 1], s[m]) /\ g[m - 1] \in Seq(KeyBytes)
      BY <1>2, <3>4 DEF IsTaking
    <3>6. g[m - 1] # <<>>
      BY <3>4
    <3>7. \A w \in Seq(KeyBytes) : \A c : Append(w, c) # <<>>
      OBVIOUS
    <3>8. g[m] = <<>>
      BY <3>2
    <3> QED BY <3>5, <3>6, <3>7, <3>8, Zenon DEF Taking
  <2> DEFINE h == [n \in 0 .. N |-> Tail(g[n + 1])]
  <2>2. \A n \in 0 .. N : h[n] = Tail(g[n + 1]) /\ n + 1 \in 0 .. N + 1 /\ n + 1 \in 1 .. N + 1
    BY <1>1
  <2>3. h \in [0 .. N -> Seq(KeyBytes)]
    <3>1. ASSUME NEW n \in 0 .. N PROVE Tail(g[n + 1]) \in Seq(KeyBytes)
      <4>1. g[n + 1] \in Seq(KeyBytes) /\ g[n + 1] # <<>>
        BY <1>2, <2>1, <2>2 DEF IsTaking
      <4> QED BY <4>1
    <3> QED BY <3>1
  <2> HIDE DEF h
  <2>4. h[0] = <<>>
    <3>1. g[1] = Append(<<>>, s[1])
      BY <1>1, <1>4, <1>6 DEF Taking
    <3>2. 0 \in 0 .. N /\ 0 + 1 = 1
      BY <1>1
    <3>3. h[0] = Tail(g[1])
      BY <2>2, <3>2
    <3> QED BY <3>1, <3>3
  <2>5. ASSUME NEW n \in 1 .. N PROVE h[n] = Taking(h[n - 1], t[n])
    <3>1. /\ n + 1 \in 1 .. N + 1 /\ n \in 0 .. N /\ n - 1 \in 0 .. N /\ n \in 0 .. N + 1
          /\ n \in 1 .. N + 1 /\ (n + 1) - 1 = n /\ (n - 1) + 1 = n
      BY <1>1
    <3>2. g[n + 1] = Taking(g[n], s[n + 1])
      BY <1>2, <3>1 DEF IsTaking
    <3>3. h[n - 1] = Tail(g[n]) /\ h[n] = Tail(g[n + 1])
      BY <2>2, <3>1
    <3>4. g[n] \in Seq(KeyBytes) /\ g[n] # <<>>
      BY <1>2, <2>1, <3>1 DEF IsTaking
    <3>5. ASSUME NEW w \in Seq(KeyBytes), w # <<>>, NEW c
          PROVE  Tail(Taking(w, c)) = Taking(Tail(w), c)
      <4>1. Tail(Append(w, c)) = Append(Tail(w), c)
        BY <3>5
      <4> QED BY <4>1 DEF Taking
    <3> QED BY <1>1, <3>2, <3>3, <3>4, <3>5
  <2>6. IsTaking(h, t, N)
    BY <2>3, <2>4, <2>5 DEF IsTaking
  <2>7. KeysIn(t) = h[N]
    BY <1>1, <2>6, KeysInIs DEF N
  <2>8. h[N] = Tail(g[N + 1]) /\ g[N + 1] # <<>>
    BY <1>1, <2>1, <2>2
  <2> QED BY <1>2, <1>3, <1>6, <2>7, <2>8
<1> QED BY <1>5, <1>6
-----------------------------------------------------------------------------
(* Facts about sequences of bytes.                                          *)

\* The first m + 1 elements are the first m and one more.
LEMMA PrefixGrows ==
  ASSUME NEW S, NEW t \in Seq(S), NEW m \in 1 .. Len(t)
  PROVE  /\ SubSeq(t, 1, m) = Append(SubSeq(t, 1, m - 1), t[m])
         /\ SubSeq(t, 1, m - 1) \in Seq(S) /\ t[m] \in S
OBVIOUS

\* The prefixes of a sequence.
LEMMA Prefixes ==
  ASSUME NEW S, NEW t \in Seq(S)
  PROVE  /\ SubSeq(t, 1, 0) = <<>> /\ SubSeq(t, 1, Len(t)) = t
         /\ \A n \in Int : n <= Len(t) => SubSeq(t, 1, n) \in Seq(S)
         /\ \A n \in 0 .. Len(t) : Len(SubSeq(t, 1, n)) = n
OBVIOUS

\* Appending to the end of what is joined.
LEMMA JoinAppend ==
  ASSUME NEW s \in Seq(Characters), NEW t \in Seq(Characters), NEW c
  PROVE  s \o Append(t, c) = Append(s \o t, c) /\ s \o t \in Seq(Characters)
OBVIOUS

\* A sequence is what its parts are together.
LEMMA Parts ==
  ASSUME NEW a \in Seq(KeyBytes), NEW t \in Seq(KeyBytes), NEW n \in 0 .. Len(t)
  PROVE  /\ SubSeq(t, n + 1, Len(t)) \in Seq(KeyBytes)
         /\ (a \o SubSeq(t, 1, n)) \o SubSeq(t, n + 1, Len(t)) = a \o t
<1> DEFINE u == SubSeq(t, 1, n)
           v == SubSeq(t, n + 1, Len(t))
           x == (a \o u) \o v
           y == a \o t
<1>1. /\ u \in Seq(KeyBytes) /\ Len(u) = n /\ \A i \in 1 .. n : u[i] = t[i]
  OBVIOUS
<1>2. /\ v \in Seq(KeyBytes) /\ Len(v) = Len(t) - n
      /\ \A i \in 1 .. Len(t) - n : v[i] = t[n + i]
  OBVIOUS
<1> HIDE DEF u, v
<1>3. /\ x \in Seq(KeyBytes) /\ y \in Seq(KeyBytes) /\ Len(x) = Len(y)
      /\ Len(y) = Len(a) + Len(t)
  BY <1>1, <1>2
<1>4. ASSUME NEW i \in 1 .. Len(x) PROVE x[i] = y[i]
  <2>1. CASE i <= Len(a)
    BY <1>1, <1>2, <2>1
  <2>2. CASE i > Len(a) /\ i <= Len(a) + n
    BY <1>1, <1>2, <2>2
  <2>3. CASE i > Len(a) + n
    <3> DEFINE z == a \o u
    <3>1. z \in Seq(KeyBytes) /\ Len(z) = Len(a) + n
      BY <1>1
    <3>2. x[i] = v[i - (Len(a) + n)]
      <4> HIDE DEF z
      <4>1. (z \o v)[i] = v[i - (Len(a) + n)]
        BY <1>2, <1>3, <2>3, <3>1
      <4> QED BY <4>1 DEF z
    <3>3. i - (Len(a) + n) \in 1 .. Len(t) - n /\ n + (i - (Len(a) + n)) = i - Len(a)
      BY <1>3, <2>3
    <3>4. v[i - (Len(a) + n)] = t[i - Len(a)]
      BY <1>2, <3>3
    <3>5. y[i] = t[i - Len(a)]
      BY <1>3, <2>3
    <3> QED BY <3>2, <3>4, <3>5
  <2> QED BY <1>3, <2>1, <2>2, <2>3
<1> HIDE DEF x, y
<1>5. x = y
  BY <1>3, <1>4
<1> QED BY <1>2, <1>5 DEF u, v, x, y

\* Dropping from the end of what is joined drops from the end of its second part.
LEMMA DropEnd ==
  ASSUME NEW a \in Seq(KeyBytes), NEW t \in Seq(KeyBytes), NEW n \in 0 .. Len(t)
  PROVE  SubSeq(a \o t, 1, Len(a \o t) - (Len(t) - n)) = a \o SubSeq(t, 1, n)
<1>1. Len(a \o t) = Len(a) + Len(t) /\ Len(a) \in Nat /\ Len(t) \in Nat /\ a \o t \in Seq(KeyBytes)
  OBVIOUS
<1>2. Len(a \o t) - (Len(t) - n) = Len(a) + n
  BY <1>1
<1>3. SubSeq(a \o t, 1, Len(a) + n) = a \o SubSeq(t, 1, n)
  OBVIOUS
<1> QED BY <1>2, <1>3

LEMMA TailOfJoin ==
  ASSUME NEW a \in Seq(KeyBytes), NEW b \in Seq(KeyBytes), a # <<>>
  PROVE  Tail(a \o b) = Tail(a) \o b
OBVIOUS

LEMMA JoinEmpty ==
  ASSUME NEW a \in Seq(KeyBytes)
  PROVE  a \o <<>> = a
OBVIOUS

\* The bytes of an answer are no bytes of keys.
LEMMA AnswerNoKey == AnswerBytes \cap KeyBytes = {}
BY TerminalAssumption DEF AnswerBytes, KeyBytes, TermKeys

\* What is written after s comes after the bytes of keys in s.
LEMMA KeysInJoin ==
  ASSUME NEW s \in Seq(Characters), NEW t \in Seq(KeyBytes)
  PROVE  KeysIn(s \o t) = KeysIn(s) \o t /\ s \o t \in Seq(Characters)
<1> DEFINE P(k) == SubSeq(t, 1, k)
           T == {k \in 0 .. Len(t) : KeysIn(s \o P(k)) # KeysIn(s) \o P(k)}
<1>1. /\ Len(t) \in Nat /\ t \in Seq(Characters) /\ s \o t \in Seq(Characters)
      /\ KeyBytes \subseteq Characters
  BY DEF Characters
<1>2. KeysIn(s) \in Seq(KeyBytes)
  BY KeysInTaking, KeysInIs
<1>3. T = {}
  <2> SUFFICES ASSUME T # {} PROVE FALSE
    OBVIOUS
  <2>1. T \in SUBSET Nat
    BY <1>1
  <2> HIDE DEF P
  <2>2. PICK m \in T : \A k \in T : m <= k
    BY <2>1, LeastNumber
  <2>3. m # 0
    <3>1. P(0) = <<>>
      BY Prefixes DEF P
    <3>2. s \o P(0) = s /\ KeysIn(s) \o P(0) = KeysIn(s)
      BY <1>2, <3>1
    <3> QED BY <2>2, <3>2
  <2>4. m \in 1 .. Len(t) /\ m - 1 \in 0 .. Len(t) /\ m - 1 \notin T
    BY <1>1, <2>2, <2>3
  <2>5. P(m) = Append(P(m - 1), t[m]) /\ P(m - 1) \in Seq(KeyBytes) /\ t[m] \in KeyBytes
    BY <2>4, PrefixGrows DEF P
  <2>6. P(m - 1) \in Seq(Characters) /\ t[m] \in Characters
    BY <2>5 DEF Characters
  <2>7. KeysIn(s \o P(m - 1)) = KeysIn(s) \o P(m - 1)
    BY <2>4
  <2>8. s \o P(m) = Append(s \o P(m - 1), t[m]) /\ s \o P(m - 1) \in Seq(Characters)
    BY <2>5, <2>6, JoinAppend
  <2>9. KeysIn(s) \o P(m) = Append(KeysIn(s) \o P(m - 1), t[m])
    <3>1. KeysIn(s) \in Seq(Characters)
      BY <1>2 DEF Characters
    <3> QED BY <2>5, <2>6, <3>1, JoinAppend
  <2>10. KeysIn(s \o P(m)) = Append(KeysIn(s \o P(m - 1)), t[m])
    BY <2>5, <2>6, <2>8, KeysInAppend, AnswerNoKey DEF Taking
  <2> QED BY <2>2, <2>7, <2>9, <2>10
<1>4. Len(t) \in 0 .. Len(t) /\ P(Len(t)) = t
  BY <1>1, Prefixes
<1> HIDE DEF P
<1> QED BY <1>1, <1>3, <1>4

\* An answer, or a part of one, adds nothing to the bytes of keys.
LEMMA KeysInAnswer ==
  ASSUME stdin \in Seq(Characters)
  PROVE  /\ KeysIn(stdin \o Taken(Answer)) = KeysIn(stdin)
         /\ stdin \o Taken(Answer) \in Seq(Characters)
<1>1. "CSI" \in AnswerBytes /\ "R" \in AnswerBytes /\ AnswerBytes \subseteq Characters
  BY DEF AnswerBytes, Characters
<1>2. \A u \in Seq(Characters), c \in AnswerBytes :
        KeysIn(Append(u, c)) = KeysIn(u) /\ Append(u, c) \in Seq(Characters)
  BY <1>1, KeysInAppend DEF Taking
<1>3. Taken(Answer) \in {<<>>, <<"CSI">>, <<"CSI", "R">>}
  <2>1. Answer = <<"CSI", "R">> /\ Len(Answer) = 2
    BY DEF Answer
  <2> DEFINE room == PipeSize - Len(stdin)
             n == IF 2 < room THEN 2 ELSE room
  <2>2. Taken(Answer) = SubSeq(<<"CSI", "R">>, 1, n)
    BY <2>1 DEF Taken
  <2>3. room \in Int
    BY TerminalAssumption
  <2> HIDE DEF room
  <2>4. n = 2 \/ n = 1 \/ (n \in Int /\ n <= 0)
    BY <2>3
  <2>5. /\ SubSeq(<<"CSI", "R">>, 1, 2) = <<"CSI", "R">>
        /\ SubSeq(<<"CSI", "R">>, 1, 1) = <<"CSI">>
    <3> DEFINE a == <<"CSI", "R">>
    <3>1. a \in Seq(AnswerBytes) /\ Len(a) = 2 /\ a[1] = "CSI" /\ 1 \in 1 .. Len(a)
      BY <1>1
    <3> HIDE DEF a
    <3>2. SubSeq(a, 1, 2) = a /\ SubSeq(a, 1, 0) = <<>>
      BY <3>1, Prefixes
    <3>3. SubSeq(a, 1, 1) = Append(SubSeq(a, 1, 1 - 1), a[1])
      BY <3>1, PrefixGrows
    <3>4. 1 - 1 = 0 /\ Append(<<>>, "CSI") = <<"CSI">>
      OBVIOUS
    <3>5. SubSeq(a, 1, 1) = <<"CSI">>
      BY <3>1, <3>2, <3>3, <3>4
    <3> QED BY <3>2, <3>5 DEF a
  <2>6. ASSUME NEW k \in Int, k <= 0 PROVE SubSeq(<<"CSI", "R">>, 1, k) = <<>>
    BY <2>6
  <2> HIDE DEF n
  <2> QED BY <2>2, <2>4, <2>5, <2>6
<1>4. /\ stdin \o <<>> = stdin /\ stdin \o <<"CSI">> = Append(stdin, "CSI")
      /\ stdin \o <<"CSI", "R">> = Append(Append(stdin, "CSI"), "R")
  OBVIOUS
<1> QED BY <1>1, <1>2, <1>3, <1>4

\* What the pipe takes of a write is a part from its start.
LEMMA TakenPrefix ==
  ASSUME stdin \in Seq(Characters), Len(stdin) < PipeSize, NEW w \in Seq(KeyBytes)
  PROVE  \E n \in 0 .. Len(w) :
           Taken(w) = SubSeq(w, 1, n) /\ Len(Taken(w)) = n /\ Taken(w) \in Seq(KeyBytes)
<1> DEFINE room == PipeSize - Len(stdin)
           n == IF Len(w) < room THEN Len(w) ELSE room
<1>1. room \in Nat /\ Len(w) \in Nat
  BY TerminalAssumption
<1>2. Taken(w) = SubSeq(w, 1, n)
  BY DEF Taken
<1> HIDE DEF room
<1>3. n \in 0 .. Len(w) /\ n \in Int /\ n <= Len(w)
  BY <1>1
<1> HIDE DEF n
<1>4. SubSeq(w, 1, n) \in Seq(KeyBytes) /\ Len(SubSeq(w, 1, n)) = n
  BY <1>3, Prefixes
<1> QED BY <1>2, <1>3, <1>4
-----------------------------------------------------------------------------
(* The invariant.                                                           *)

Steps == {"read", "wait", "key", "echo", "send", "flush"}
InputThreads ==
  [pc : Steps, key : Keys \cup {NULL}, mode : {"line", "raw"},
   line : Seq(KeyBytes), send : Seq(KeyBytes)]

InputInv ==
  /\ queue \in Seq(Keys) /\ inp \in InputThreads
  /\ stdin \in Seq(Characters) /\ owed \in Seq(KeyBytes)
  /\ inp.pc = "key" => inp.key \in Keys
  /\ inp.pc = "send" => inp.send # <<>>
  /\ inp.send # <<>> => inp.pc \in {"echo", "send"}
  /\ NothingLost

LEMMA InitInput == Init => InputInv
<1> SUFFICES ASSUME Init PROVE InputInv
  OBVIOUS
<1>1. inp \in InputThreads
  BY DEF Init, InputThreads, Steps
<1>2. queue \in Seq(Keys) /\ stdin \in Seq(Characters) /\ owed \in Seq(KeyBytes)
  BY DEF Init
<1>3. inp.pc = "read" /\ inp.send = <<>>
  BY DEF Init
<1>4. KeysIn(stdin) \o inp.send = owed
  <2>1. KeysIn(stdin) = <<>>
    BY KeysInEmpty DEF Init
  <2> QED BY <1>3, <2>1 DEF Init
<1> QED BY <1>1, <1>2, <1>3, <1>4 DEF InputInv, NothingLost

\* A step that changes neither what was typed nor what was written of it.
LEMMA OtherSteps ==
  ASSUME InputInv, queue' = queue \/ \E k \in Keys : queue' = Append(queue, k),
         inp' = inp, stdin' = stdin, owed' = owed,
         shell' # "gone" => shell # "gone"
  PROVE  InputInv'
<1>1. queue' \in Seq(Keys)
  BY DEF InputInv
<1>2. NothingLost'
  BY DEF InputInv, NothingLost
<1> QED BY <1>1, <1>2 DEF InputInv

\* A step of the input thread between the keys, which changes its place only.
LEMMA MovesOn ==
  ASSUME InputInv, NEW pc \in Steps, NEW k \in Keys \cup {NULL}, NEW m \in {"line", "raw"},
         inp' = [inp EXCEPT !.pc = pc, !.key = k, !.mode = m],
         queue' \in Seq(Keys), stdin' = stdin, owed' = owed,
         shell' # "gone" => shell # "gone",
         pc = "key" => k \in Keys,
         pc = "send" => inp.send # <<>>,
         inp.send # <<>> => pc \in {"echo", "send"}
  PROVE  InputInv'
<1>1. inp' \in InputThreads /\ inp'.pc = pc /\ inp'.key = k /\ inp'.send = inp.send
  BY DEF InputInv, InputThreads
<1>2. NothingLost'
  BY <1>1 DEF InputInv, NothingLost
<1> QED BY <1>1, <1>2 DEF InputInv

\* Taking a key, or going to wait for one.
LEMMA ReadInputStep == ASSUME InputInv, ReadInput PROVE InputInv'
<1>1. /\ inp \in InputThreads /\ queue \in Seq(Keys) /\ inp.pc = "read"
      /\ inp.send = <<>>
  BY DEF InputInv, ReadInput
<1>2. stdin' = stdin /\ owed' = owed /\ shell' = shell
  BY DEF ReadInput, programs
<1>3. CASE queue = <<>>
  <2>1. inp' = [inp EXCEPT !.pc = "wait"] /\ queue' = queue
    BY <1>3 DEF ReadInput
  <2>2. inp' = [inp EXCEPT !.pc = "wait", !.key = inp.key, !.mode = inp.mode]
    BY <1>1, <2>1 DEF InputThreads
  <2>3. /\ inp.key \in Keys \cup {NULL} /\ inp.mode \in {"line", "raw"}
        /\ "wait" \in Steps /\ queue' \in Seq(Keys)
    BY <1>1, <2>1 DEF InputThreads, Steps
  <2> QED BY <1>1, <1>2, <2>2, <2>3, MovesOn
<1>4. CASE queue # <<>>
  <2>1. inp' = [inp EXCEPT !.pc = "key", !.key = Head(queue)] /\ queue' = Tail(queue)
    BY <1>4 DEF ReadInput
  <2>2. Head(queue) \in Keys /\ queue' \in Seq(Keys)
    BY <1>1, <1>4, <2>1
  <2>3. inp' = [inp EXCEPT !.pc = "key", !.key = Head(queue), !.mode = inp.mode]
    BY <1>1, <2>1 DEF InputThreads
  <2>4. inp.mode \in {"line", "raw"} /\ "key" \in Steps
    BY <1>1 DEF InputThreads, Steps
  <2> QED BY <1>1, <1>2, <2>2, <2>3, <2>4, MovesOn
<1> QED BY <1>3, <1>4

LEMMA WaitInputStep == ASSUME InputInv, WaitInput PROVE InputInv'
<1>1. /\ inp \in InputThreads /\ queue' \in Seq(Keys) /\ inp.send = <<>>
  BY DEF InputInv, WaitInput
<1>2. stdin' = stdin /\ owed' = owed /\ shell' = shell
  BY DEF WaitInput, programs
<1>3. inp' = [inp EXCEPT !.pc = "read", !.key = inp.key, !.mode = inp.mode]
  BY <1>1 DEF WaitInput, InputThreads
<1>4. inp.key \in Keys \cup {NULL} /\ inp.mode \in {"line", "raw"} /\ "read" \in Steps
  BY <1>1 DEF InputThreads, Steps
<1> QED BY <1>1, <1>2, <1>3, <1>4, MovesOn

\* The echo, and the flush that ends the handling of a key.
LEMMA EchoStep == ASSUME InputInv, Echo PROVE InputInv'
<1> DEFINE pc == IF inp.send = <<>> THEN "flush" ELSE "send"
<1>1. /\ inp \in InputThreads /\ queue' \in Seq(Keys)
  BY DEF InputInv, Echo
<1>2. stdin' = stdin /\ owed' = owed /\ shell' = shell
  BY DEF Echo, programs
<1>3. inp' = [inp EXCEPT !.pc = pc, !.key = inp.key, !.mode = inp.mode]
  BY <1>1 DEF Echo, InputThreads
<1>4. /\ inp.key \in Keys \cup {NULL} /\ inp.mode \in {"line", "raw"}
      /\ pc \in Steps /\ pc # "key"
      /\ pc = "send" => inp.send # <<>>
      /\ inp.send # <<>> => pc \in {"echo", "send"}
  BY <1>1 DEF InputThreads, Steps
<1> HIDE DEF pc
<1> QED BY <1>1, <1>2, <1>3, <1>4, MovesOn

LEMMA InputFlushStep == ASSUME InputInv, InputFlush PROVE InputInv'
<1>1. /\ inp \in InputThreads /\ queue' \in Seq(Keys) /\ inp.send = <<>>
  BY DEF InputInv, InputFlush
<1>2. stdin' = stdin /\ owed' = owed /\ shell' = shell
  BY DEF InputFlush, programs
<1>3. inp' = [inp EXCEPT !.pc = "read", !.key = NULL, !.mode = "line"]
  BY DEF InputFlush
<1>4. NULL \in Keys \cup {NULL} /\ "line" \in {"line", "raw"} /\ "read" \in Steps
  BY DEF Steps
<1> QED BY <1>1, <1>2, <1>3, <1>4, MovesOn

\* Handling a key adds what it amounts to to what is still to be written.
LEMMA KeyHandled ==
  ASSUME InputInv, inp.pc = "key", NEW w \in Seq(KeyBytes), NEW pc \in Steps, NEW l \in Seq(KeyBytes),
         NEW m \in {"line", "raw"},
         inp' = [inp EXCEPT !.pc = pc, !.mode = m, !.line = l, !.send = w],
         owed' = owed \o w, queue' = queue, stdin' = stdin, shell' # "gone" => shell # "gone",
         pc # "key", pc = "send" => w # <<>>,
         w # <<>> => pc \in {"echo", "send"}
  PROVE  InputInv'
<1>1. inp' \in InputThreads /\ inp'.pc = pc /\ inp'.send = w
  BY DEF InputInv, InputThreads
<1>2. inp.send = <<>> /\ KeysIn(stdin) \in Seq(KeyBytes) /\ owed \in Seq(KeyBytes)
  <2>1. stdin \in Seq(Characters)
    BY DEF InputInv
  <2> QED BY <2>1, KeysInTaking, KeysInIs DEF InputInv
<1>3. NothingLost'
  <2> SUFFICES ASSUME shell' # "gone" PROVE KeysIn(stdin) \o w = owed \o w
    BY <1>1 DEF NothingLost
  <2>1. KeysIn(stdin) \o inp.send = owed
    BY DEF InputInv, NothingLost
  <2>2. KeysIn(stdin) = owed
    BY <1>2, <2>1, JoinEmpty
  <2> QED BY <2>2
<1>4. owed' \in Seq(KeyBytes)
  BY <1>2
<1> QED BY <1>1, <1>3, <1>4 DEF InputInv

LEMMA KeyInLineStep == ASSUME InputInv, KeyInLine PROVE InputInv'
<1>1. /\ inp \in InputThreads /\ inp.pc = "key" /\ inp.key \in Keys
      /\ inp.send = <<>> /\ owed \in Seq(KeyBytes)
  BY DEF InputInv, KeyInLine
<1>2. /\ queue' = queue /\ stdin' = stdin /\ shell' = shell
      /\ owed' = owed \o Amounts(inp.key, "line", inp.line)
  BY DEF KeyInLine
<1>3. inp.line \in Seq(KeyBytes) /\ inp.mode \in {"line", "raw"} /\ <<>> \in Seq(KeyBytes)
  BY <1>1 DEF InputThreads
<1>4. CASE inp.key = "ENTER"
  <2> DEFINE pc == IF inputEcho THEN "echo" ELSE "send"
             w  == Append(inp.line, "NEWLINE")
  <2>1. inp' = [inp EXCEPT !.pc = pc, !.send = w, !.line = <<>>]
    BY <1>4 DEF KeyInLine
  <2>2. w \in Seq(KeyBytes) /\ w # <<>> /\ owed' = owed \o w
    BY <1>2, <1>3, <1>4 DEF Amounts, KeyBytes
  <2>3. pc \in Steps /\ pc # "key" /\ pc \in {"echo", "send"}
    BY DEF Steps
  <2> HIDE DEF pc, w
  <2>4. inp' = [inp EXCEPT !.pc = pc, !.mode = inp.mode, !.line = <<>>, !.send = w]
    BY <1>1, <2>1 DEF InputThreads
  <2> QED BY <1>1, <1>2, <1>3, <2>2, <2>3, <2>4, KeyHandled
<1>5. CASE inp.key # "ENTER"
  <2>1. owed' = owed \o <<>>
    BY <1>2, <1>5 DEF Amounts
  <2>2. PICK pc \in {"flush", "echo"}, l \in Seq(KeyBytes) :
          inp' = [inp EXCEPT !.pc = pc, !.line = l]
    <3>1. CASE inp.key = "BACKSPACE"
      <4>1. inp' = [inp EXCEPT !.pc = "flush", !.line = Front(inp.line)]
        BY <1>1, <3>1 DEF KeyInLine, InputThreads
      <4>2. Front(inp.line) \in Seq(KeyBytes)
        BY <1>3 DEF Front
      <4> QED BY <4>1, <4>2
    <3>2. CASE inp.key = "ARROW"
      <4>1. inp' = [inp EXCEPT !.pc = "flush"]
        BY <3>2 DEF KeyInLine
      <4>2. inp' = [inp EXCEPT !.pc = "flush", !.line = inp.line]
        BY <1>1, <4>1 DEF InputThreads
      <4> QED BY <1>3, <4>2
    <3>3. CASE inp.key # "BACKSPACE" /\ inp.key # "ARROW"
      <4>1. inp' = [inp EXCEPT !.pc = IF inputEcho THEN "echo" ELSE "flush",
                               !.line = Append(inp.line, inp.key)]
        BY <1>1, <1>5, <3>3 DEF KeyInLine, InputThreads
      <4>2. Append(inp.line, inp.key) \in Seq(KeyBytes)
        <5>1. inp.key \in KeyBytes
          BY <1>1, <1>5, <3>3 DEF KeyInLine, Keys, KeyBytes
        <5> QED BY <1>3, <5>1
      <4>3. (IF inputEcho THEN "echo" ELSE "flush") \in {"flush", "echo"}
        OBVIOUS
      <4> QED BY <4>1, <4>2, <4>3
    <3> QED BY <3>1, <3>2, <3>3
  <2>3. inp' = [inp EXCEPT !.pc = pc, !.mode = inp.mode, !.line = l, !.send = <<>>]
    BY <1>1, <2>2 DEF InputThreads
  <2>4. pc \in Steps /\ pc # "key" /\ pc # "send" /\ l \in Seq(KeyBytes)
    BY <2>2 DEF Steps
  <2> QED BY <1>1, <1>2, <1>3, <2>1, <2>3, <2>4, KeyHandled
<1> QED BY <1>4, <1>5

LEMMA KeyInRawStep == ASSUME InputInv, KeyInRaw PROVE InputInv'
<1>1. /\ inp \in InputThreads /\ inp.pc = "key" /\ inp.key \in Keys
      /\ inp.send = <<>> /\ owed \in Seq(KeyBytes)
  BY DEF InputInv, KeyInRaw
<1>2. /\ queue' = queue /\ stdin' = stdin /\ shell' = shell
      /\ owed' = owed \o Amounts(inp.key, "raw", inp.line)
  BY DEF KeyInRaw
<1>3. inp.line \in Seq(KeyBytes) /\ inp.mode \in {"line", "raw"} /\ <<>> \in Seq(KeyBytes)
      /\ "raw" \in {"line", "raw"}
  BY <1>1 DEF InputThreads
<1>4. CASE inp.key = "ESC"
  <2>1. owed' = owed \o <<>>
    BY <1>2, <1>4 DEF Amounts, TermKeys
  <2>2. inp' = [inp EXCEPT !.pc = "flush"]
    BY <1>4 DEF KeyInRaw
  <2>3. inp' = [inp EXCEPT !.pc = "flush", !.mode = inp.mode, !.line = inp.line, !.send = <<>>]
    BY <1>1, <2>2 DEF InputThreads
  <2>4. "flush" \in Steps
    BY DEF Steps
  <2> QED BY <1>1, <1>2, <1>3, <2>1, <2>3, <2>4, KeyHandled
<1>5. CASE inp.key # "ESC"
  <2> DEFINE w == Amounts(inp.key, "raw", inp.line)
  <2>1. w \in Seq(KeyBytes) /\ w # <<>>
    <3>1. CASE inp.key \in TermKeys
      <4>1. w = <<"SUB", inp.key, "HIGH">>
        BY <1>5, <3>1 DEF Amounts, TermKeyBytes
      <4>2. {"SUB", inp.key, "HIGH"} \subseteq KeyBytes
        BY <3>1 DEF KeyBytes
      <4>3. <<"SUB", inp.key, "HIGH">> \in Seq(KeyBytes) /\ <<"SUB", inp.key, "HIGH">> # <<>>
        BY <4>2
      <4> QED BY <4>1, <4>3
    <3>2. CASE inp.key \notin TermKeys
      <4>1. w = <<inp.key>>
        BY <1>5, <3>2 DEF Amounts
      <4>2. inp.key \in KeyBytes
        BY <1>1, <1>5, <3>2 DEF Keys, KeyBytes
      <4>3. \A c \in KeyBytes : <<c>> \in Seq(KeyBytes) /\ <<c>> # <<>>
        OBVIOUS
      <4> QED BY <4>1, <4>2, <4>3
    <3> QED BY <3>1, <3>2
  <2>2. owed' = owed \o w
    BY <1>2
  <2>3. inp' = [inp EXCEPT !.pc = "send", !.mode = "raw", !.send = w]
    BY <1>5 DEF KeyInRaw
  <2> HIDE DEF w
  <2>4. inp' = [inp EXCEPT !.pc = "send", !.mode = "raw", !.line = inp.line, !.send = w]
    BY <1>1, <2>3 DEF InputThreads
  <2>5. "send" \in Steps
    BY DEF Steps
  <2> QED BY <1>1, <1>2, <1>3, <2>1, <2>2, <2>4, <2>5, KeyHandled
<1> QED BY <1>4, <1>5

LEMMA KeyKillsStep == ASSUME InputInv, KeyKills PROVE InputInv'
<1>1. /\ inp \in InputThreads /\ queue' \in Seq(Keys) /\ inp.send = <<>>
  BY DEF InputInv, KeyKills
<1>2. stdin' = stdin /\ owed' = owed /\ (shell' # "gone" => shell # "gone")
  BY DEF KeyKills
<1>3. inp' = [inp EXCEPT !.pc = "flush", !.key = inp.key, !.mode = inp.mode]
  BY <1>1 DEF KeyKills, InputThreads
<1>4. inp.key \in Keys \cup {NULL} /\ inp.mode \in {"line", "raw"} /\ "flush" \in Steps
  BY <1>1 DEF InputThreads, Steps
<1> QED BY <1>1, <1>2, <1>3, <1>4, MovesOn

\* What the pipe takes moves from what is to be written to the pipe.
LEMMA SendLineStep == ASSUME InputInv, SendLine PROVE InputInv'
<1> DEFINE t == Taken(inp.send)
           rest == SubSeq(inp.send, Len(t) + 1, Len(inp.send))
           next == IF rest = <<>> THEN "flush" ELSE "send"
<1>1. /\ inp \in InputThreads /\ inp.send \in Seq(KeyBytes) /\ Len(stdin) < PipeSize
      /\ stdin \in Seq(Characters) /\ owed \in Seq(KeyBytes) /\ queue \in Seq(Keys)
  BY DEF InputInv, SendLine, InputThreads
<1>2. /\ queue' = queue /\ owed' = owed /\ shell' = shell /\ stdin' = stdin \o t
      /\ inp' = [inp EXCEPT !.send = rest, !.pc = next]
  BY DEF SendLine, programs
<1>3. PICK n \in 0 .. Len(inp.send) :
        t = SubSeq(inp.send, 1, n) /\ Len(t) = n /\ t \in Seq(KeyBytes)
  BY <1>1, TakenPrefix
<1>4. KeysIn(stdin) \in Seq(KeyBytes)
  BY <1>1, KeysInTaking, KeysInIs
<1>5. /\ rest \in Seq(KeyBytes)
      /\ (KeysIn(stdin) \o t) \o rest = KeysIn(stdin) \o inp.send
  <2> HIDE DEF t
  <2>1. rest = SubSeq(inp.send, n + 1, Len(inp.send))
    BY <1>3
  <2> DEFINE k == KeysIn(stdin)
             w == inp.send
  <2>2. /\ k \in Seq(KeyBytes) /\ w \in Seq(KeyBytes) /\ n \in 0 .. Len(w)
        /\ t = SubSeq(w, 1, n) /\ rest = SubSeq(w, n + 1, Len(w))
    BY <1>1, <1>3, <1>4, <2>1
  <2> HIDE DEF k, w, rest
  <2>3. /\ SubSeq(w, n + 1, Len(w)) \in Seq(KeyBytes)
        /\ (k \o SubSeq(w, 1, n)) \o SubSeq(w, n + 1, Len(w)) = k \o w
    BY <2>2, Parts
  <2>4. rest \in Seq(KeyBytes) /\ (k \o t) \o rest = k \o w
    BY <2>2, <2>3
  <2> QED BY <2>4 DEF k, w
<1>6. next \in Steps /\ next # "key" /\ (next = "send" <=> rest # <<>>)
  BY DEF Steps
<1>7. KeysIn(stdin \o t) = KeysIn(stdin) \o t /\ stdin \o t \in Seq(Characters)
  BY <1>1, <1>3, KeysInJoin
<1> HIDE DEF t, rest, next
<1>8. inp' \in InputThreads /\ inp'.pc = next /\ inp'.send = rest
  BY <1>1, <1>2, <1>5, <1>6 DEF InputThreads
<1>9. NothingLost'
  BY <1>2, <1>5, <1>7, <1>8 DEF InputInv, NothingLost
<1> QED BY <1>1, <1>2, <1>6, <1>7, <1>8, <1>9 DEF InputInv

\* What the pipe does not take of a key is taken off what programs are to
\* receive, and it was the end of it.
LEMMA SendKeyStep == ASSUME InputInv, SendKey PROVE InputInv'
<1> DEFINE t == Taken(inp.send)
           next == IF RawEcho THEN "echo" ELSE "flush"
<1>1. /\ inp \in InputThreads /\ inp.send \in Seq(KeyBytes) /\ Len(stdin) < PipeSize
      /\ stdin \in Seq(Characters) /\ owed \in Seq(KeyBytes) /\ queue \in Seq(Keys)
  BY DEF InputInv, SendKey, InputThreads
<1>2. /\ queue' = queue /\ shell' = shell /\ stdin' = stdin \o t
      /\ owed' = SubSeq(owed, 1, Len(owed) - (Len(inp.send) - Len(t)))
      /\ inp' = [inp EXCEPT !.send = <<>>, !.pc = next]
  BY DEF SendKey
<1>3. PICK n \in 0 .. Len(inp.send) :
        t = SubSeq(inp.send, 1, n) /\ Len(t) = n /\ t \in Seq(KeyBytes)
  BY <1>1, TakenPrefix
<1>4. KeysIn(stdin) \in Seq(KeyBytes)
  BY <1>1, KeysInTaking, KeysInIs
<1>5. next \in Steps /\ next \notin {"key", "send"} /\ <<>> \in Seq(KeyBytes)
  BY DEF Steps
<1>6. KeysIn(stdin \o t) = KeysIn(stdin) \o t /\ stdin \o t \in Seq(Characters)
  BY <1>1, <1>3, KeysInJoin
<1> HIDE DEF t, next
<1>7. inp' \in InputThreads /\ inp'.pc = next /\ inp'.send = <<>>
  BY <1>1, <1>2, <1>5 DEF InputThreads
<1>8. owed' \in Seq(KeyBytes)
  <2>1. Len(inp.send) - Len(t) \in Nat /\ Len(owed) \in Nat
    BY <1>1, <1>3
  <2>2. /\ Len(owed) - (Len(inp.send) - Len(t)) \in Int
        /\ Len(owed) - (Len(inp.send) - Len(t)) <= Len(owed)
    BY <2>1
  <2> QED BY <1>1, <1>2, <2>2, Prefixes
<1>9. NothingLost'
  <2> SUFFICES ASSUME shell' # "gone" PROVE KeysIn(stdin') \o <<>> = owed'
    BY <1>7 DEF NothingLost
  <2>1. owed = KeysIn(stdin) \o inp.send
    BY <1>2 DEF InputInv, NothingLost
  <2>2. owed' = KeysIn(stdin) \o t
    <3> DEFINE k == KeysIn(stdin)
               w == inp.send
    <3>1. k \in Seq(KeyBytes) /\ w \in Seq(KeyBytes) /\ owed = k \o w /\ n \in 0 .. Len(w)
      BY <1>1, <1>3, <1>4, <2>1
    <3>2. owed' = SubSeq(k \o w, 1, Len(k \o w) - (Len(w) - n))
      BY <1>2, <1>3, <3>1
    <3>3. t = SubSeq(w, 1, n)
      BY <1>3
    <3> HIDE DEF k, w
    <3>4. owed' = k \o SubSeq(w, 1, n)
      BY <3>1, <3>2, DropEnd
    <3> QED BY <3>3, <3>4 DEF k
  <2>3. KeysIn(stdin') = owed'
    BY <1>2, <1>6, <2>2
  <2> QED BY <1>8, <2>3, JoinEmpty
<1> QED BY <1>1, <1>2, <1>5, <1>6, <1>7, <1>8, <1>9 DEF InputInv

LEMMA SendFailsStep == ASSUME InputInv, SendFails PROVE InputInv'
<1> DEFINE next == IF RawEcho THEN "echo" ELSE "flush"
<1>1. /\ inp \in InputThreads /\ stdin' = stdin /\ owed' = owed /\ queue' = queue
      /\ shell' = "gone" /\ inp' = [inp EXCEPT !.send = <<>>, !.pc = next]
  BY DEF InputInv, SendFails, programs
<1>2. next \in Steps /\ next \notin {"key", "send"} /\ <<>> \in Seq(KeyBytes)
  BY DEF Steps
<1> HIDE DEF next
<1>3. inp' \in InputThreads /\ inp'.pc = next /\ inp'.send = <<>>
  BY <1>1, <1>2 DEF InputThreads
<1>4. NothingLost'
  BY <1>1 DEF NothingLost
<1> QED BY <1>1, <1>2, <1>3, <1>4 DEF InputInv

\* An answer, or the part of it that the pipe takes, goes in between the keys.
LEMMA OutProcessStep ==
  ASSUME InputInv, NEW s \in Outs, OutProcess(s) PROVE InputInv'
<1>1. /\ queue' = queue /\ inp' = inp /\ owed' = owed /\ shell' = shell
      /\ stdin' = stdin \/ stdin' = stdin \o Taken(Answer)
  BY DEF OutProcess, input, programs
<1>2. stdin \in Seq(Characters)
  BY DEF InputInv
<1>3. stdin' \in Seq(Characters) /\ KeysIn(stdin') = KeysIn(stdin)
  BY <1>1, <1>2, KeysInAnswer
<1>4. NothingLost'
  BY <1>1, <1>3 DEF InputInv, NothingLost
<1> QED BY <1>1, <1>3, <1>4 DEF InputInv

\* A program reads the first character.
LEMMA ReadStdinStep == ASSUME InputInv, ReadStdin PROVE InputInv'
<1>1. /\ stdin \in Seq(Characters) /\ stdin # <<>> /\ shell # "gone"
      /\ owed \in Seq(KeyBytes) /\ inp.send \in Seq(KeyBytes)
      /\ KeysIn(stdin) \o inp.send = owed
  BY DEF InputInv, ReadStdin, InputThreads, NothingLost
<1>2. /\ queue' = queue /\ inp' = inp /\ stdin' = Tail(stdin)
      /\ owed' = IF Head(stdin) \in AnswerBytes THEN owed ELSE Tail(owed)
  BY DEF ReadStdin, input
<1>3. KeysIn(stdin) \in Seq(KeyBytes) /\ stdin' \in Seq(Characters)
  BY <1>1, <1>2, KeysInTaking, KeysInIs
<1>4. KeysIn(stdin') \o inp.send = owed' /\ owed' \in Seq(KeyBytes)
  <2>1. CASE Head(stdin) \in AnswerBytes
    <3>1. KeysIn(stdin') = KeysIn(stdin)
      BY <1>1, <1>2, <2>1, KeysInTail
    <3> QED BY <1>1, <1>2, <2>1, <3>1
  <2>2. CASE Head(stdin) \notin AnswerBytes
    <3>1. KeysIn(stdin') = Tail(KeysIn(stdin)) /\ KeysIn(stdin) # <<>>
      BY <1>1, <1>2, <2>2, KeysInTail
    <3>2. owed' = Tail(KeysIn(stdin) \o inp.send)
      BY <1>1, <1>2, <2>2
    <3>3. Tail(KeysIn(stdin)) \in Seq(KeyBytes)
      BY <1>3, <3>1
    <3>4. owed' = Tail(KeysIn(stdin)) \o inp.send
      BY <1>1, <1>3, <3>1, <3>2, TailOfJoin
    <3> QED BY <1>1, <3>1, <3>3, <3>4
  <2> QED BY <2>1, <2>2
<1>5. NothingLost'
  BY <1>2, <1>4 DEF NothingLost
<1> QED BY <1>2, <1>3, <1>4, <1>5 DEF InputInv

LEMMA NextInput == ASSUME InputInv, [Next]_vars PROVE InputInv'
<1>1. CASE \E k \in Keys : BufferInput(k)
  BY <1>1, OtherSteps DEF BufferInput, programs
<1>2. CASE Repaint
  BY <1>2, OtherSteps DEF Repaint, input, programs
<1>3. CASE InputThread
  BY <1>3, ReadInputStep, WaitInputStep, KeyInLineStep, KeyKillsStep, KeyInRawStep,
     EchoStep, SendLineStep, SendKeyStep, SendFailsStep, InputFlushStep DEF InputThread
<1>4. ASSUME NEW s \in Outs, OutputThread(s) PROVE InputInv'
  <2>1. CASE OutRead(s)
    BY <2>1, OtherSteps DEF OutRead, input
  <2>2. CASE OutEnd(s)
    BY <2>2, OtherSteps DEF OutEnd, input, programs
  <2>3. CASE OutLock(s)
    BY <2>3, OtherSteps DEF OutLock, input, programs
  <2>4. CASE OutProcess(s)
    BY <2>4, OutProcessStep
  <2>5. CASE OutFlush(s)
    BY <2>5, OtherSteps DEF OutFlush, input, programs
  <2> QED BY <1>4, <2>1, <2>2, <2>3, <2>4, <2>5 DEF OutputThread
<1>5. CASE PaintThread
  <2>1. queue' = queue /\ inp' = inp /\ stdin' = stdin /\ owed' = owed /\ shell' = shell
    BY <1>5 DEF PaintThread, PaintBegin, PaintEnd, PaintWake, input, programs
  <2> QED BY <2>1, OtherSteps
<1>6. CASE \E s \in Outs, i \in Items : ProgramPrints(s, i)
  <2>1. queue' = queue /\ inp' = inp /\ stdin' = stdin /\ owed' = owed /\ shell = "free"
    BY <1>6 DEF ProgramPrints, input
  <2> QED BY <2>1, OtherSteps
<1>7. CASE ReadStdin
  BY <1>7, ReadStdinStep
<1>8. CASE ShellEnds
  BY <1>8, OtherSteps DEF ShellEnds, input
<1>9. CASE UNCHANGED vars
  BY <1>9, OtherSteps DEF vars
<1> QED BY <1>1, <1>2, <1>3, <1>4, <1>5, <1>6, <1>7, <1>8, <1>9 DEF Next

\* Nothing typed is doubled or reordered between the keyboard and the programs,
\* and nothing is lost but the end of a key that is written in raw mode with a
\* single write, however the threads interleave, whatever the output does to
\* the mode and the echo in between, and however small the pipe is
\* (terminalInputRoutine, terminalWriteToShell, terminalWriteTermkeyToShell).
THEOREM NothingLostHolds == Spec => []NothingLost
<1>1. Init => InputInv
  BY InitInput
<1>2. InputInv /\ [Next]_vars => InputInv'
  BY NextInput
<1>3. InputInv => NothingLost
  BY DEF InputInv
<1> QED BY <1>1, <1>2, <1>3, PTL DEF Spec
=============================================================================
