---------------------------- MODULE ScreenProofs ----------------------------
(***************************************************************************)
(* Proofs about Screen, for every set of window sizes, every document and  *)
(* every order of writes, events and repaints.                             *)
(*                                                                         *)
(* The cached number of rows and the scroll position are right whenever    *)
(* nobody is at work, unless rows were counted by one thread while the     *)
(* other was at work, and the view shows what the two of them call for     *)
(* even then.  The painter stays within its view buffer: the buffer is     *)
(* only checked when the size differs from that of the last pass, and it   *)
(* only ever grows.                                                        *)
(***************************************************************************)
EXTENDS Screen, NaturalsInduction, WellFoundedInduction, FiniteSetTheorems,
        TLAPS

-----------------------------------------------------------------------------
(* Rows of a line                                                          *)

\* Every set of numbers that is not empty has a least one.
LEMMA LeastNumber ==
  ASSUME NEW T \in SUBSET Nat, T # {}
  PROVE  \E m \in T : \A k \in T : m <= k
<1>1. PICK m \in T : \A k \in T : ~ (<<k, m>> \in OpToRel(<, Nat))
  BY NatLessThanWellFounded, WFMin
<1>2. \A k \in T : ~(k < m)
  BY <1>1 DEF OpToRel
<1> QED BY <1>2

\* Division with a remainder.
LEMMA DivMod ==
  ASSUME NEW n \in Nat, NEW c \in Nat \ {0}
  PROVE  /\ n \div c \in Nat /\ n % c \in 0..(c - 1)
         /\ n = c * (n \div c) + (n % c)
<1>1. n \div c \in Nat
  OBVIOUS
<1>2. n % c \in 0..(c - 1)
  OBVIOUS
<1>3. n = c * (n \div c) + (n % c)
  OBVIOUS
<1> QED BY <1>1, <1>2, <1>3

LEMMA DivModIs ==
  ASSUME NEW c \in Nat \ {0}, NEW q \in Nat, NEW r \in 0..(c - 1), NEW n \in Nat,
         n = c * q + r
  PROVE  n \div c = q /\ n % c = r
OBVIOUS

\* getRowCount counts the rows of a line by rounding its length up.
LEMMA LineRowsIs ==
  ASSUME NEW n \in Nat, NEW c \in Nat \ {0}
  PROVE  /\ LineRows(n, c) \in Nat \ {0}
         /\ n = 0 => LineRows(n, c) = 1
         /\ n # 0 => LineRows(n, c) = (n + c - 1) \div c
         /\ n # 0 => /\ (LineRows(n, c) - 1) * c < n
                     /\ n <= LineRows(n, c) * c
<1>1. PICK q \in Nat, r \in 0..(c - 1) : n = c * q + r
  BY DivMod
<1>2. n \div c = q /\ n % c = r
  BY <1>1, DivModIs
<1>3. CASE n = 0
  <2>1. q = 0
    BY <1>1, <1>3
  <2> QED BY <1>2, <1>3, <2>1 DEF LineRows
<1>4. CASE n # 0 /\ r = 0
  <2>1. LineRows(n, c) = q
    BY <1>2, <1>4 DEF LineRows
  <2>2. n + c - 1 = c * q + (c - 1) /\ n + c - 1 \in Nat
    BY <1>1, <1>4
  <2>3. (n + c - 1) \div c = q
    BY <2>2, DivModIs
  <2>4. q # 0
    BY <1>1, <1>4
  <2>5. (q - 1) * c < n /\ n <= q * c
    BY <1>1, <1>4
  <2> QED BY <1>4, <2>1, <2>3, <2>4, <2>5
<1>5. CASE n # 0 /\ r # 0
  <2>1. LineRows(n, c) = q + 1
    BY <1>2, <1>5 DEF LineRows
  <2>2. n + c - 1 = c * (q + 1) + (r - 1) /\ n + c - 1 \in Nat
        /\ r - 1 \in 0..(c - 1) /\ q + 1 \in Nat
    BY <1>1, <1>5
  <2>3. (n + c - 1) \div c = q + 1
    BY <2>2, DivModIs
  <2>5. ((q + 1) - 1) * c < n /\ n <= (q + 1) * c
    BY <1>1, <1>5
  <2> QED BY <1>5, <2>1, <2>3, <2>5
<1> QED BY <1>3, <1>4, <1>5

\* Where the row i of a line of n characters ends.
RowEnd(n, c, i) == IF i * c < n THEN i * c ELSE n

\* What wrapping a line yields.
LEMMA WrapIs ==
  ASSUME NEW S, NEW l \in Seq(S), NEW c \in Nat \ {0}
  PROVE  /\ Wrap(l, c) \in Seq(Seq(S))
         /\ Len(Wrap(l, c)) = LineRows(Len(l), c)
         /\ \A i \in 1..LineRows(Len(l), c) :
              Wrap(l, c)[i] = SubSeq(l, (i - 1) * c + 1, RowEnd(Len(l), c, i))
<1> DEFINE n == Len(l)
           R == LineRows(n, c)
           rows == IF l = <<>> THEN 1 ELSE (n + c - 1) \div c
           Row(i) == SubSeq(l, (i - 1) * c + 1, RowEnd(n, c, i))
<1>1. n \in Nat /\ (l = <<>> <=> n = 0)
  OBVIOUS
<1>2. R \in Nat \ {0} /\ R = rows
  BY <1>1, LineRowsIs
<1>3. Wrap(l, c) = [i \in 1..rows |-> Row(i)]
  BY DEF Wrap, RowEnd
<1>4. \A i \in 1..R : Row(i) \in Seq(S)
  <2> SUFFICES ASSUME NEW i \in 1..R PROVE Row(i) \in Seq(S)
    OBVIOUS
  <2>1. (i - 1) * c \in Nat /\ i * c \in Nat
    BY <1>2
  <2>2. (i - 1) * c + 1 \in Nat \ {0} /\ RowEnd(n, c, i) \in Int
        /\ RowEnd(n, c, i) <= n
    BY <1>1, <2>1 DEF RowEnd
  <2> DEFINE a == (i - 1) * c + 1
             b == RowEnd(n, c, i)
  <2>3. a \in Nat \ {0} /\ b \in Int /\ b <= Len(l)
    BY <2>2
  <2> HIDE DEF a, b
  <2>4. SubSeq(l, a, b) \in Seq(S)
    BY <2>3
  <2> QED BY <2>4 DEF a, b
<1> HIDE DEF R, rows, Row
<1>5. Wrap(l, c) = [i \in 1..R |-> Row(i)]
  BY <1>2, <1>3
<1>6. Wrap(l, c) \in Seq(Seq(S)) /\ Len(Wrap(l, c)) = R
  BY <1>2, <1>4, <1>5
<1>7. \A i \in 1..R : Wrap(l, c)[i] = Row(i)
  BY <1>5
<1> QED BY <1>6, <1>7 DEF R, Row
-----------------------------------------------------------------------------
(* Rows of a document                                                      *)

\* g[n] holds the rows of the newest n lines of the document d, up to n = k.
IsRows(g, S, d, c, k) ==
  /\ g \in [0..k -> Seq(Seq(S))]
  /\ g[0] = <<>>
  /\ \A n \in 1..k : g[n] = Wrap(d[n], c) \o g[n - 1]

\* The parts of a sequence that is put together.
LEMMA ConcatIs ==
  ASSUME NEW S, NEW a \in Seq(S), NEW b \in Seq(S)
  PROVE  /\ a \o b \in Seq(S) /\ Len(a \o b) = Len(a) + Len(b)
         /\ Len(a) \in Nat /\ Len(b) \in Nat
         /\ \A i \in 1..Len(a) : (a \o b)[i] = a[i]
         /\ \A i \in 1..Len(b) : (a \o b)[Len(a) + i] = b[i]
OBVIOUS

\* There is such a function.
LEMMA RowsExist ==
  ASSUME NEW S, NEW d \in Seq(Seq(S)), NEW c \in Nat \ {0}
  PROVE  \A k \in 0..Len(d) : \E g : IsRows(g, S, d, c, k)
<1> DEFINE T == {k \in 0..Len(d) : ~ \E g : IsRows(g, S, d, c, k)}
<1> SUFFICES ASSUME T # {} PROVE FALSE
  OBVIOUS
<1>0. T \in SUBSET Nat
  OBVIOUS
<1>1. PICK m \in T : \A j \in T : m <= j
  BY <1>0, LeastNumber
<1>2. m \in 0..Len(d) /\ ~ \E g : IsRows(g, S, d, c, m)
  BY <1>1
<1>3. CASE m = 0
  <2>1. IsRows([n \in 0..0 |-> <<>>], S, d, c, 0)
    BY DEF IsRows
  <2> QED BY <1>2, <1>3, <2>1
<1>4. CASE m # 0
  <2>0. m \in Nat /\ m - 1 \in 0..Len(d) /\ m \in 1..Len(d) /\ ~(m <= m - 1)
    BY <1>2, <1>4
  <2>1. /\ m \in Nat /\ m - 1 \in 0..Len(d) /\ m \in 1..Len(d)
        /\ m - 1 \notin T
    BY <1>1, <2>0
  <2>2. PICK g : IsRows(g, S, d, c, m - 1)
    BY <2>1
  <2> DEFINE w == Wrap(d[m], c) \o g[m - 1]
             h == [n \in 0..m |-> IF n = m THEN w ELSE g[n]]
  <2>3. w \in Seq(Seq(S))
    <3>1. g[m - 1] \in Seq(Seq(S))
      BY <2>1, <2>2 DEF IsRows
    <3>2. d[m] \in Seq(S)
      BY <2>1
    <3>3. Wrap(d[m], c) \in Seq(Seq(S))
      BY <3>2, WrapIs
    <3> QED BY <3>1, <3>3
  <2> HIDE DEF w
  <2>4. h \in [0..m -> Seq(Seq(S))]
    BY <2>1, <2>2, <2>3 DEF IsRows
  <2>5. h[0] = <<>>
    BY <2>1, <2>2 DEF IsRows
  <2>6. ASSUME NEW n \in 1..m PROVE h[n] = Wrap(d[n], c) \o h[n - 1]
    <3>1. CASE n = m
      <4>1. h[n] = w /\ h[n - 1] = g[m - 1]
        BY <2>1, <3>1
      <4> QED BY <3>1, <4>1 DEF w
    <3>2. CASE n # m
      <4>1. n \in 1..(m - 1) /\ n \in 0..m /\ n - 1 \in 0..m /\ n - 1 # m
        BY <2>1, <3>2
      <4>2. h[n] = g[n] /\ h[n - 1] = g[n - 1]
        BY <3>2, <4>1
      <4> QED BY <2>2, <4>1, <4>2 DEF IsRows
    <3> QED BY <3>1, <3>2
  <2> HIDE DEF h
  <2>7. IsRows(h, S, d, c, m)
    BY <2>4, <2>5, <2>6 DEF IsRows
  <2> QED BY <1>2, <2>7
<1> QED BY <1>3, <1>4

\* Its last value is AllRows.
LEMMA AllRowsIs ==
  ASSUME NEW S, NEW d \in Seq(Seq(S)), NEW c \in Nat \ {0}, NEW g,
         IsRows(g, S, d, c, Len(d))
  PROVE  AllRows(d, c) = g[Len(d)]
<1> DEFINE N == Len(d)
           Eq(f) == f = [n \in 0..N |-> IF n = 0 THEN <<>>
                                        ELSE Wrap(d[n], c) \o f[n - 1]]
           F == CHOOSE f : Eq(f)
<1>1. N \in Nat /\ N \in 0..N
  OBVIOUS
<1>3. Eq(g)
  <2>1. \A n \in 0..N : n # 0 => n \in 1..N
    BY <1>1
  <2>2. \A n \in 0..N : g[n] = IF n = 0 THEN <<>>
                                ELSE Wrap(d[n], c) \o g[n - 1]
    BY <2>1 DEF IsRows
  <2> QED BY <2>2 DEF IsRows
<1>4. AllRows(d, c) = F[N]
  BY DEF AllRows
<1>5. Eq(F)
  BY <1>3
<1> HIDE DEF F
<1>6. \A n \in 0..N : F[n] = IF n = 0 THEN <<>> ELSE Wrap(d[n], c) \o F[n - 1]
  BY <1>5
<1> HIDE DEF Eq
<1> DEFINE T == {n \in 0..N : F[n] # g[n]}
<1>8. T = {}
  <2> SUFFICES ASSUME T # {} PROVE FALSE
    OBVIOUS
  <2>1. T \in SUBSET Nat
    BY <1>1
  <2>2. PICK m \in T : \A k \in T : m <= k
    BY <2>1, LeastNumber
  <2>3. m # 0
    BY <1>1, <1>6, <2>2 DEF IsRows
  <2>4. m - 1 \in 0..N /\ m - 1 \notin T /\ m \in 1..N
    BY <1>1, <2>2, <2>3
  <2> QED BY <1>6, <2>2, <2>3, <2>4 DEF IsRows
<1> QED BY <1>1, <1>4, <1>8

\* getRowCount counts its rows.
LEMMA RowCountIs ==
  ASSUME NEW S, NEW d \in Seq(Seq(S)), NEW c \in Nat \ {0}, NEW g,
         IsRows(g, S, d, c, Len(d))
  PROVE  RowCount(d, c) = Len(g[Len(d)])
<1> DEFINE N == Len(d)
           Eq(f) == f = [n \in 0..N |-> IF n = 0 THEN 0
                                        ELSE f[n - 1] + LineRows(Len(d[n]), c)]
           F == CHOOSE f : Eq(f)
           h == [n \in 0..N |-> Len(g[n])]
<1>1. N \in Nat /\ N \in 0..N
  OBVIOUS
<1>2. ASSUME NEW n \in 1..N
      PROVE  h[n] = h[n - 1] + LineRows(Len(d[n]), c)
  <2>1. n \in 0..N /\ n - 1 \in 0..N
    BY <1>1
  <2>2. g[n - 1] \in Seq(Seq(S)) /\ g[n] = Wrap(d[n], c) \o g[n - 1]
    BY <2>1 DEF IsRows
  <2>3. d[n] \in Seq(S)
    OBVIOUS
  <2>4. Wrap(d[n], c) \in Seq(Seq(S))
        /\ Len(Wrap(d[n], c)) = LineRows(Len(d[n]), c)
    BY <2>3, WrapIs
  <2>5. Len(g[n]) = Len(Wrap(d[n], c)) + Len(g[n - 1])
    BY <2>2, <2>4, ConcatIs
  <2>6. Len(g[n - 1]) \in Nat /\ Len(Wrap(d[n], c)) \in Nat
    BY <2>2, <2>4
  <2>7. h[n] = Len(g[n]) /\ h[n - 1] = Len(g[n - 1])
    BY <2>1
  <2> HIDE DEF h
  <2> QED BY <2>4, <2>5, <2>6, <2>7
<1>3. h[0] = 0 /\ h = [n \in 0..N |-> h[n]]
  BY <1>1 DEF IsRows
<1>4. h[N] = Len(g[N])
  BY <1>1
<1> HIDE DEF h
<1>5. Eq(h)
  <2>1. \A n \in 0..N : n # 0 => n \in 1..N
    BY <1>1
  <2>2. \A n \in 0..N : h[n] = IF n = 0 THEN 0
                                ELSE h[n - 1] + LineRows(Len(d[n]), c)
    BY <1>2, <1>3, <2>1
  <2> QED BY <1>3, <2>2
<1>6. RowCount(d, c) = F[N]
  BY DEF RowCount
<1>7. Eq(F)
  BY <1>5
<1> HIDE DEF F
<1>8. \A n \in 0..N : F[n] = IF n = 0 THEN 0
                              ELSE F[n - 1] + LineRows(Len(d[n]), c)
  BY <1>7
<1> HIDE DEF Eq
<1> DEFINE T == {n \in 0..N : F[n] # h[n]}
<1>9. T = {}
  <2> SUFFICES ASSUME T # {} PROVE FALSE
    OBVIOUS
  <2>1. T \in SUBSET Nat
    BY <1>1
  <2>2. PICK m \in T : \A k \in T : m <= k
    BY <2>1, LeastNumber
  <2>3. m # 0
    BY <1>1, <1>3, <1>8, <2>2
  <2>4. m - 1 \in 0..N /\ m - 1 \notin T /\ m \in 1..N
    BY <1>1, <2>2, <2>3
  <2>5. F[m - 1] = h[m - 1]
    BY <2>4
  <2>6. h[m] = h[m - 1] + LineRows(Len(d[m]), c)
    BY <1>2, <2>4
  <2>7. F[m] = F[m - 1] + LineRows(Len(d[m]), c)
    BY <1>8, <2>3, <2>4
  <2> QED BY <2>2, <2>5, <2>6, <2>7
<1> QED BY <1>1, <1>4, <1>6, <1>9

\* getRowCount agrees with the rows of the document, and no document that
\* has a line is without a row.
THEOREM RowCountSound ==
  ASSUME NEW S, NEW d \in Seq(Seq(S)), NEW c \in Nat \ {0}
  PROVE  /\ AllRows(d, c) \in Seq(Seq(S))
         /\ RowCount(d, c) = Len(AllRows(d, c)) /\ RowCount(d, c) \in Nat
         /\ d # <<>> => RowCount(d, c) # 0
<1> DEFINE N == Len(d)
<1>1. N \in Nat /\ N \in 0..N
  OBVIOUS
<1>2. PICK g : IsRows(g, S, d, c, N)
  BY <1>1, RowsExist
<1>3. AllRows(d, c) = g[N] /\ RowCount(d, c) = Len(g[N])
  BY <1>2, AllRowsIs, RowCountIs
<1>4. g[N] \in Seq(Seq(S))
  BY <1>1, <1>2 DEF IsRows
<1>5. ASSUME d # <<>> PROVE Len(g[N]) # 0
  <2>1. N \in 1..N /\ N - 1 \in 0..N
    BY <1>1, <1>5
  <2>2. g[N - 1] \in Seq(Seq(S)) /\ g[N] = Wrap(d[N], c) \o g[N - 1]
    BY <1>2, <2>1 DEF IsRows
  <2>3. d[N] \in Seq(S) /\ Len(d[N]) \in Nat
    BY <2>1
  <2>4. /\ Wrap(d[N], c) \in Seq(Seq(S))
        /\ Len(Wrap(d[N], c)) = LineRows(Len(d[N]), c)
    BY <2>3, WrapIs
  <2>5. LineRows(Len(d[N]), c) \in Nat \ {0}
    BY <2>3, LineRowsIs
  <2>6. Len(g[N]) = Len(Wrap(d[N], c)) + Len(g[N - 1]) /\ Len(g[N - 1]) \in Nat
    BY <2>2, <2>4, ConcatIs
  <2> QED BY <2>4, <2>5, <2>6
<1> QED BY <1>3, <1>4, <1>5
-----------------------------------------------------------------------------
(* What an operation leaves is a document again                            *)

Cells == Chars \cup {Gap}

LEMMA LineInsertType ==
  ASSUME NEW l \in Seq(Cells), NEW x \in Nat, NEW c \in Chars
  PROVE  LineInsert(l, x, c) \in Seq(Cells)
<1>1. c \in Cells /\ Gap \in Cells /\ Len(l) \in Nat
  BY DEF Cells
<1>2. CASE x < Len(l)
  <2>1. [l EXCEPT ![x + 1] = c] \in Seq(Cells)
    BY <1>1, <1>2
  <2> QED BY <1>2, <2>1 DEF LineInsert
<1>3. CASE ~(x < Len(l))
  <2> DEFINE f == [i \in 1..(x - Len(l)) |-> Gap]
  <2>1. x - Len(l) \in Nat
    BY <1>1, <1>3
  <2>2. f \in Seq(Cells)
    BY <1>1, <2>1
  <2> HIDE DEF f
  <2>3. l \o f \o <<c>> \in Seq(Cells)
    BY <1>1, <2>2
  <2> QED BY <1>3, <2>3 DEF LineInsert, f
<1> QED BY <1>2, <1>3

LEMMA LineRemoveType ==
  ASSUME NEW l \in Seq(Cells), NEW x \in Nat,
         Len(l) = 0 \/ x \in 0..(Len(l) - 1)
  PROVE  LineRemove(l, x) \in Seq(Cells)
<1>1. CASE l = <<>>
  BY <1>1 DEF LineRemove
<1>2. CASE l # <<>>
  <2>1. Len(l) \in Nat /\ x + 1 \in 1..Len(l)
    BY <1>2
  <2>2. SubSeq(l, 1, (x + 1) - 1) \in Seq(Cells)
    BY <2>1
  <2>3. SubSeq(l, (x + 1) + 1, Len(l)) \in Seq(Cells)
    BY <2>1
  <2> QED BY <1>2, <2>2, <2>3, ConcatIs DEF LineRemove, RemoveAt
<1> QED BY <1>1, <1>2

\* Replacing a line.
LEMMA LineExcept ==
  ASSUME NEW d \in Seq(Seq(Cells)), d # <<>>, NEW l \in Seq(Cells),
         NEW i \in 1..Len(d)
  PROVE  [d EXCEPT ![i] = l] \in Seq(Seq(Cells)) /\ [d EXCEPT ![i] = l] # <<>>
<1> DEFINE e == [d EXCEPT ![i] = l]
<1>1. e \in Seq(Seq(Cells)) /\ Len(e) = Len(d)
  OBVIOUS
<1>2. Len(d) # 0
  OBVIOUS
<1> QED BY <1>1, <1>2

LEMMA DocInsertType ==
  ASSUME NEW d \in Seq(Seq(Cells)), d # <<>>, NEW x \in Nat, NEW y \in Nat,
         NEW c \in Chars \cup {Newline}
  PROVE  DocInsert(d, x, y, c) \in Seq(Seq(Cells)) /\ DocInsert(d, x, y, c) # <<>>
<1>1. CASE ~HasLine(d, y)
  BY <1>1 DEF DocInsert
<1>2. CASE HasLine(d, y) /\ c = Newline
  <2>1. Len(d) \in Nat /\ y + 1 \in 1..Len(d)
    BY <1>2 DEF HasLine
  <2> DEFINE a == SubSeq(d, 1, (y + 1) - 1)
             b == SubSeq(d, y + 1, Len(d))
  <2>2. a \in Seq(Seq(Cells))
    BY <2>1
  <2>3. b \in Seq(Seq(Cells))
    BY <2>1
  <2>4. << <<>> >> \in Seq(Seq(Cells)) /\ Len(<< <<>> >>) = 1
    OBVIOUS
  <2> HIDE DEF a, b
  <2>5. a \o << <<>> >> \in Seq(Seq(Cells)) /\ Len(a \o << <<>> >>) # 0
    BY <2>2, <2>4, ConcatIs
  <2>6. /\ (a \o << <<>> >>) \o b \in Seq(Seq(Cells))
        /\ Len((a \o << <<>> >>) \o b) # 0
    BY <2>3, <2>5, ConcatIs
  <2>7. DocInsert(d, x, y, c) = (a \o << <<>> >>) \o b
    BY <1>2 DEF DocInsert, InsertAt, a, b
  <2> QED BY <2>6, <2>7
<1>3. CASE HasLine(d, y) /\ c # Newline
  <2>1. y + 1 \in 1..Len(d) /\ d[y + 1] \in Seq(Cells) /\ c \in Chars
    BY <1>3 DEF HasLine
  <2>2. LineInsert(d[y + 1], x, c) \in Seq(Cells)
    BY <2>1, LineInsertType
  <2>3. DocInsert(d, x, y, c) = [d EXCEPT ![y + 1] = LineInsert(d[y + 1], x, c)]
    BY <1>3 DEF DocInsert
  <2> QED BY <2>1, <2>2, <2>3, LineExcept
<1> QED BY <1>1, <1>2, <1>3

LEMMA DocRemoveType ==
  ASSUME NEW d \in Seq(Seq(Cells)), d # <<>>, NEW x \in Nat, NEW y \in Nat,
         RemoveSafe(d, x, y)
  PROVE  DocRemove(d, x, y) \in Seq(Seq(Cells)) /\ DocRemove(d, x, y) # <<>>
<1>1. CASE ~HasLine(d, y)
  BY <1>1 DEF DocRemove
<1>2. CASE HasLine(d, y)
  <2>1. y + 1 \in 1..Len(d) /\ d[y + 1] \in Seq(Cells)
    BY <1>2 DEF HasLine
  <2>2. Len(d[y + 1]) = 0 \/ x \in 0..(Len(d[y + 1]) - 1)
    BY <1>2 DEF RemoveSafe
  <2>3. LineRemove(d[y + 1], x) \in Seq(Cells)
    BY <2>1, <2>2, LineRemoveType
  <2>4. DocRemove(d, x, y) = [d EXCEPT ![y + 1] = LineRemove(d[y + 1], x)]
    BY <1>2 DEF DocRemove
  <2> QED BY <2>1, <2>3, <2>4, LineExcept
<1> QED BY <1>1, <1>2

\* The smallest document.
LEMMA EmptyDocumentType ==
  EmptyDocument \in Seq(Seq(Cells)) /\ EmptyDocument # <<>>
BY DEF EmptyDocument
-----------------------------------------------------------------------------
(* The cached number of rows and the scroll position                       *)

Rows == RowCount(doc, size.columns)

\* A window between two sizes: the width of one and the height of another.
Windows ==
  {w \in [columns : Nat, rows : Nat] :
     \E s, t \in Sizes : w = [columns |-> s.columns, rows |-> t.rows]}

Counting == {"bounds", "count", "store"}
Normalising == Tests \cup Stores
Places == {"idle", "set", "view", "end"} \cup Counting \cup Normalising
Doings == Chars \cup {Newline, "removed", "scroll", "resized", NULL}
States == [pc : Places, n : Int, doing : Doings]

\* What a thread holds at its place.
HoldsTypes(w) ==
  /\ w.pc = "idle" <=> w.doing = NULL
  /\ w.pc \in Counting => w.doing # "scroll"
  /\ w.pc = "bounds" => w.n \in {s.rows : s \in Sizes}
  /\ w.pc = "store" => w.n \in Nat \ {0}

RowTypes ==
  /\ size \in Windows
  /\ doc \in Seq(Seq(Cells)) /\ doc # <<>>
  /\ cursor \in [x : Nat, y : Nat]
  /\ documentRows \in Nat \ {0} /\ scrollY \in Int
  /\ thread \in [Threads -> States]
  /\ raced \in BOOLEAN
  /\ \A t \in Threads : HoldsTypes(thread[t])

Recounts(t) == thread[t].doing \notin {NULL, "scroll"}

\* What a thread at its place knows of the rows of the document, the height of
\* the window and the cached number of rows.
Knows(w, rows, height, total) ==
  /\ w.pc = "store" => w.n = rows
  /\ w.pc \in Normalising => w.n = height
  /\ w.pc \in {"high", "low", "setHigh", "setLow"} => w.n < total
  /\ w.pc = "setZero" => w.n >= total

\* Who counts is alone, and what he has counted is stored when he normalises.
CountInv ==
  /\ \A t \in Threads : Recounts(t) => thread[Other(t)].pc = "idle"
  /\ \A t \in Threads : Knows(thread[t], Rows, size.rows, documentRows)
  /\ (\A t \in Threads : thread[t].pc \notin Counting) => documentRows = Rows

\* Somebody is at one of the places ps.
At(ps) == \E t \in Threads : thread[t].pc \in ps

\* A scroll position that is too high, too low or not 0 is found by somebody
\* who has the test for it still before him, or the store.
Before == Counting \cup {"set", "view", "above", "setAbove", "fits"}
ScrollInv ==
  /\ size.rows < documentRows /\ scrollY > documentRows - size.rows
       => At(Before \cup {"high", "setHigh"})
  /\ size.rows < documentRows /\ scrollY < 1 - size.rows
       => At(Before \cup {"high", "setHigh", "low", "setLow"})
  /\ size.rows >= documentRows /\ scrollY # 0 => At(Before \cup {"setZero"})

RowInv == RowTypes /\ (~raced => CountInv /\ ScrollInv)

LEMMA WindowType ==
  ASSUME NEW s \in Windows
  PROVE  /\ s.columns \in Nat \ {0} /\ s.rows \in Nat \ {0}
         /\ s.rows * s.columns <= 2 * InitialMax
         /\ s = [columns |-> s.columns, rows |-> s.rows]
<1>1. PICK u \in Sizes, v \in Sizes : s = [columns |-> u.columns, rows |-> v.rows]
  BY DEF Windows
<1>2. s.columns = u.columns /\ s.rows = v.rows
  BY <1>1
<1>3. v.rows * u.columns <= 2 * InitialMax
  BY ViewAssumption
<1> QED BY <1>1, <1>2, <1>3, ScreenAssumption

LEMMA WindowOf ==
  ASSUME NEW a \in Sizes, NEW b \in Sizes
  PROVE  [columns |-> a.columns, rows |-> b.rows] \in Windows
BY ScreenAssumption DEF Windows

\* A window that has got another width, or another height.
LEMMA WindowMixed ==
  ASSUME NEW s \in Windows, NEW t \in Windows
  PROVE  /\ [s EXCEPT !.columns = t.columns] \in Windows
         /\ [s EXCEPT !.rows = t.rows] \in Windows
<1>1. PICK u \in Sizes, v \in Sizes : s = [columns |-> u.columns, rows |-> v.rows]
  BY DEF Windows
<1>2. PICK x \in Sizes, y \in Sizes : t = [columns |-> x.columns, rows |-> y.rows]
  BY DEF Windows
<1>3. /\ [s EXCEPT !.columns = t.columns] = [columns |-> x.columns, rows |-> v.rows]
      /\ [s EXCEPT !.rows = t.rows] = [columns |-> u.columns, rows |-> y.rows]
  BY <1>1, <1>2
<1> QED BY <1>3, WindowOf

\* There are two threads, and each is the other of the other.
LEMMA TwoThreads ==
  ASSUME NEW t \in Threads
  PROVE  /\ Other(t) \in Threads /\ Other(t) # t /\ Other(Other(t)) = t
         /\ \A u \in Threads : u = t \/ u = Other(t)
BY DEF Threads, Other

\* Every count is a positive number.
LEMMA RowsType ==
  ASSUME size \in Windows, doc \in Seq(Seq(Cells)), doc # <<>>
  PROVE  Rows \in Nat \ {0} /\ Rows = Total
<1>1. size.columns \in Nat \ {0}
  BY WindowType
<1> QED BY <1>1, RowCountSound DEF Rows, Total

\* One thread changes its state.
LEMMA Moved ==
  ASSUME thread \in [Threads -> States], NEW t \in Threads, NEW w \in States,
         thread' = [thread EXCEPT ![t] = w]
  PROVE  /\ thread' \in [Threads -> States] /\ thread'[t] = w
         /\ \A u \in Threads : u # t => thread'[u] = thread[u]
OBVIOUS

LEMMA GoneTo ==
  ASSUME thread \in [Threads -> States], NEW t \in Threads,
         NEW pc \in Places, NEW n \in Int, GoTo(t, pc, n)
  PROVE  /\ thread' \in [Threads -> States]
         /\ thread'[t].pc = pc /\ thread'[t].n = n /\ thread'[t].doing = thread[t].doing
         /\ \A u \in Threads : u # t => thread'[u] = thread[u]
<1> DEFINE w == [thread[t] EXCEPT !.pc = pc, !.n = n]
<1>1. thread[t] \in States
  OBVIOUS
<1>2. w \in States /\ w.pc = pc /\ w.n = n /\ w.doing = thread[t].doing
  BY <1>1 DEF States
<1>3. thread' = [thread EXCEPT ![t] = w]
  BY <1>1 DEF GoTo, States
<1> HIDE DEF w
<1> QED BY <1>2, <1>3, Moved

LEMMA RowInit == Init => RowInv
<1> SUFFICES ASSUME Init PROVE RowInv
  OBVIOUS
<1>1. size \in Sizes /\ doc \in Seq(Seq(Cells)) /\ doc # <<>>
  BY EmptyDocumentType DEF Init
<1>2. size \in Windows
  <2>1. size = [columns |-> size.columns, rows |-> size.rows]
    BY <1>1, ScreenAssumption
  <2> QED BY <1>1, <2>1, WindowOf
<1>3. Rows \in Nat \ {0} /\ size.rows \in Nat \ {0}
  BY <1>1, <1>2, RowsType, WindowType
<1>4. documentRows = Rows /\ scrollY = 0 /\ raced = FALSE
  BY DEF Init, Rows
<1>5. Idle \in States /\ Idle.pc = "idle" /\ Idle.n = 0 /\ Idle.doing = NULL
  BY DEF Idle, States, Places, Doings
<1>6. thread \in [Threads -> States] /\ \A t \in Threads : thread[t] = Idle
  BY <1>5 DEF Init
<1>7. \A t \in Threads : HoldsTypes(thread[t]) /\ Knows(thread[t], Rows, size.rows, documentRows)
  BY <1>5, <1>6 DEF HoldsTypes, Knows, Counting, Normalising, Tests, Stores
<1>8. cursor \in [x : Nat, y : Nat]
  BY DEF Init
<1>9. RowTypes
  <2>1. scrollY \in Int /\ documentRows \in Nat \ {0}
    BY <1>3, <1>4
  <2>2. raced \in BOOLEAN
    BY <1>4
  <2> QED BY <1>1, <1>2, <1>6, <1>7, <1>8, <2>1, <2>2 DEF RowTypes
<1>10. CountInv
  BY <1>4, <1>5, <1>6, <1>7 DEF CountInv, Recounts
<1>11. ScrollInv
  BY <1>3, <1>4 DEF ScrollInv
<1> QED BY <1>9, <1>10, <1>11 DEF RowInv

\* A thread that moves on, and leaves the document, the window and the cached
\* count alone: what has to hold of it, and that it still has before it what it
\* had to do about the scroll position.
LEMMA RowMoves ==
  ASSUME RowInv, NEW t \in Threads,
         thread' \in [Threads -> States],
         \A u \in Threads : u # t => thread'[u] = thread[u],
         thread'[t].doing = thread[t].doing,
         HoldsTypes(thread'[t]),
         UNCHANGED <<doc, size, documentRows, raced>>,
         cursor' \in [x : Nat, y : Nat], scrollY' \in Int,
         thread[t].pc \in Counting <=> thread'[t].pc \in Counting,
         thread'[t].pc # "idle",
         ~raced /\ CountInv => Knows(thread'[t], Rows, size.rows, documentRows),
         ~raced /\ CountInv /\ ScrollInv => ScrollInv'
  PROVE  RowInv'
<1>1. RowTypes'
  <2>1. \A u \in Threads : HoldsTypes(thread'[u])
    BY DEF RowInv, RowTypes
  <2>2. raced' \in BOOLEAN
    BY DEF RowInv, RowTypes
  <2> QED BY <2>1, <2>2 DEF RowInv, RowTypes
<1>2. ASSUME ~raced', CountInv PROVE CountInv'
  <2>1. Rows' = Rows /\ ~raced
    BY <1>2 DEF Rows
  <2>3. ASSUME NEW u \in Threads PROVE Knows(thread'[u], Rows', size'.rows, documentRows')
    BY <1>2, <2>1 DEF CountInv
  <2>4. ASSUME NEW u \in Threads, Recounts(u)' PROVE thread'[Other(u)].pc = "idle"
    <3>1. Recounts(u)
      BY <2>4 DEF Recounts
    <3>2. thread[Other(u)].pc = "idle"
      BY <1>2, <3>1 DEF CountInv
    <3>3. Other(u) # t
      <4>1. CASE Other(u) = t
        <5>1. thread[t].doing = NULL
          BY <3>2, <4>1 DEF RowInv, RowTypes, HoldsTypes
        <5>2. thread'[t].doing # NULL
          BY DEF HoldsTypes
        <5> QED BY <5>1, <5>2
      <4> QED BY <4>1
    <3> QED BY <3>2, <3>3, TwoThreads
  <2>5. (\A u \in Threads : thread'[u].pc \notin Counting) => documentRows' = Rows'
    BY <1>2, <2>1 DEF CountInv
  <2>6. \A u \in Threads : Recounts(u)' => thread'[Other(u)].pc = "idle"
    BY <2>4
  <2> QED BY <2>3, <2>5, <2>6 DEF CountInv
<1> QED BY <1>1, <1>2 DEF RowInv

\* Scrolling starts: the thread will normalise.
LEMMA EnterScroll ==
  ASSUME RowInv, NEW t \in Threads, NEW n \in Int, Enter(t, "scroll", "set", n),
         UNCHANGED <<doc, cursor, size, documentRows, scrollY>>
  PROVE  RowInv'
<1> DEFINE w == [pc |-> "set", n |-> n, doing |-> "scroll"]
<1>1. /\ thread \in [Threads -> States] /\ thread[t].pc = "idle"
      /\ thread' = [thread EXCEPT ![t] = w]
      /\ raced' = (raced \/ Recounts(Other(t)))
  BY DEF RowInv, RowTypes, Enter, Free, Recounts
<1>2. /\ w \in States /\ w.pc = "set" /\ w.doing = "scroll"
  BY DEF States, Places, Doings
<1> HIDE DEF w
<1>3. /\ thread' \in [Threads -> States] /\ thread'[t] = w
      /\ \A u \in Threads : u # t => thread'[u] = thread[u]
  BY <1>1, <1>2, Moved
<1>4. "set" \notin Counting /\ "set" \notin Normalising /\ "idle" \notin Counting
  BY DEF Counting, Normalising, Tests, Stores
<1>5. HoldsTypes(w) /\ Knows(w, Rows', size'.rows, documentRows')
  BY <1>2, <1>4 DEF HoldsTypes, Knows, Counting, Normalising, Tests, Stores, NULL
<1>6. RowTypes'
  <2>1. \A u \in Threads : HoldsTypes(thread'[u])
    BY <1>3, <1>5 DEF RowInv, RowTypes
  <2>2. raced' \in BOOLEAN
    BY <1>1
  <2> QED BY <1>3, <2>1, <2>2 DEF RowInv, RowTypes
<1>7. ASSUME ~raced' PROVE CountInv' /\ ScrollInv'
  <2>1. ~raced /\ ~Recounts(Other(t)) /\ CountInv /\ ScrollInv /\ Rows' = Rows
    BY <1>1, <1>7 DEF RowInv, Rows
  <2>3. \A u \in Threads : Knows(thread'[u], Rows', size'.rows, documentRows')
    BY <1>3, <1>5, <2>1 DEF CountInv
  <2>4. \A u \in Threads : ~Recounts(u)'
    BY <1>2, <1>3, <2>1, TwoThreads DEF Recounts
  <2>5. (\A u \in Threads : thread'[u].pc \notin Counting) => documentRows' = Rows'
    BY <1>1, <1>3, <1>4, <2>1 DEF CountInv
  <2>6. \A ps : "idle" \notin ps => (At(ps) => At(ps)')
    BY <1>1, <1>3 DEF At
  <2>7. "idle" \notin Before \cup {"high", "setHigh", "low", "setLow", "setZero"}
    BY DEF Before, Counting
  <2>8. ScrollInv'
    <3>1. /\ At(Before \cup {"high", "setHigh"}) => At(Before \cup {"high", "setHigh"})'
          /\ At(Before \cup {"high", "setHigh", "low", "setLow"})
               => At(Before \cup {"high", "setHigh", "low", "setLow"})'
          /\ At(Before \cup {"setZero"}) => At(Before \cup {"setZero"})'
      BY <2>6, <2>7
    <3> QED BY <2>1, <3>1 DEF ScrollInv
  <2> QED BY <2>3, <2>4, <2>5, <2>8 DEF CountInv
<1> QED BY <1>6, <1>7 DEF RowInv

\* A change of the document or of the window starts: the thread will count.
LEMMA EnterRecount ==
  ASSUME RowInv, NEW t \in Threads, NEW pc \in {"bounds", "count"},
         NEW what \in Doings \ {NULL, "scroll"}, NEW n \in Int,
         pc = "bounds" => n \in {s.rows : s \in Sizes},
         Enter(t, what, pc, n),
         size' \in Windows, doc' \in Seq(Seq(Cells)), doc' # <<>>,
         cursor' \in [x : Nat, y : Nat],
         UNCHANGED <<documentRows, scrollY>>
  PROVE  RowInv'
<1> DEFINE w == [pc |-> pc, n |-> n, doing |-> what]
<1>1. /\ thread \in [Threads -> States] /\ thread[t].pc = "idle"
      /\ thread' = [thread EXCEPT ![t] = w]
      /\ raced' = (thread[Other(t)].pc # "idle")
  BY DEF RowInv, RowTypes, Enter, Free
<1>2. /\ w \in States /\ w.pc = pc /\ w.n = n /\ w.doing = what
  BY DEF States, Places, Counting
<1> HIDE DEF w
<1>3. /\ thread' \in [Threads -> States] /\ thread'[t] = w
      /\ \A u \in Threads : u # t => thread'[u] = thread[u]
  BY <1>1, <1>2, Moved
<1>4. HoldsTypes(w) /\ Knows(w, Rows', size'.rows, documentRows') /\ pc \in Counting /\ pc \in Before
  BY <1>2 DEF HoldsTypes, Knows, Counting, Normalising, Tests, Stores, Before
<1>5. RowTypes'
  <2>1. \A u \in Threads : HoldsTypes(thread'[u])
    BY <1>3, <1>4 DEF RowInv, RowTypes
  <2>2. raced' \in BOOLEAN
    BY <1>1
  <2> QED BY <1>3, <2>1, <2>2 DEF RowInv, RowTypes
<1>6. ASSUME ~raced' PROVE CountInv' /\ ScrollInv'
  <2>1. thread'[Other(t)].pc = "idle" /\ thread'[Other(t)].doing = NULL
    BY <1>1, <1>3, <1>6, TwoThreads DEF RowInv, RowTypes, HoldsTypes
  <2>2. Knows(thread'[Other(t)], Rows', size'.rows, documentRows')
    BY <2>1 DEF Knows, Normalising, Tests, Stores
  <2>3. \A u \in Threads : Knows(thread'[u], Rows', size'.rows, documentRows')
    BY <1>3, <1>4, <2>2, TwoThreads
  <2>4. \A u \in Threads : Recounts(u)' => thread'[Other(u)].pc = "idle"
    BY <2>1, TwoThreads DEF Recounts
  <2>5. \A ps : At(Before \cup ps)'
    BY <1>2, <1>3, <1>4 DEF At
  <2>6. ScrollInv'
    BY <2>5, Zenon DEF ScrollInv
  <2> QED BY <1>2, <1>3, <1>4, <2>3, <2>4, <2>6 DEF CountInv
<1> QED BY <1>5, <1>6 DEF RowInv

LEMMA WriteCharRows ==
  ASSUME RowInv, NEW c \in Chars \cup {Newline}, WriteChar(c)
  PROVE  RowInv'
<1>1. cursor.x \in Nat /\ cursor.y \in Nat /\ cursor' = cursor
  BY DEF RowInv, RowTypes, WriteChar
<1>2. doc' \in Seq(Seq(Cells)) /\ doc' # <<>>
  BY <1>1, DocInsertType DEF WriteChar, RowInv, RowTypes
<1>3. c \in Doings \ {NULL, "scroll"} /\ "writer" \in Threads
  BY ScreenAssumption DEF Doings, Newline, NULL, Threads
<1>4. /\ Enter("writer", c, "count", 0) /\ 0 \in Int /\ "count" \in {"bounds", "count"}
      /\ size' \in Windows /\ cursor' \in [x : Nat, y : Nat]
      /\ UNCHANGED <<documentRows, scrollY>>
  BY <1>1 DEF WriteChar, RowInv, RowTypes
<1> QED BY <1>2, <1>3, <1>4, EnterRecount

LEMMA RemoveCharRows ==
  ASSUME RowInv, NEW b \in {0, 1}, RemoveChar(b)
  PROVE  RowInv'
<1> DEFINE x == cursor.x - b
<1>1. x \in Nat /\ cursor.y \in Nat /\ cursor' = [cursor EXCEPT !.x = x]
  BY DEF RowInv, RowTypes, RemoveChar
<1>2. cursor' \in [x : Nat, y : Nat]
  BY <1>1 DEF RowInv, RowTypes
<1>3. RemoveSafe(doc, x, cursor.y) /\ doc' = DocRemove(doc, x, cursor.y)
  BY DEF RemoveChar
<1> HIDE DEF x
<1>4. doc' \in Seq(Seq(Cells)) /\ doc' # <<>>
  BY <1>1, <1>3, DocRemoveType DEF RowInv, RowTypes
<1>5. "removed" \in Doings \ {NULL, "scroll"} /\ "writer" \in Threads
  BY DEF Doings, NULL, Threads
<1>6. /\ Enter("writer", "removed", "count", 0) /\ 0 \in Int
      /\ "count" \in {"bounds", "count"} /\ size' \in Windows
      /\ UNCHANGED <<documentRows, scrollY>>
  BY DEF RemoveChar, RowInv, RowTypes
<1> QED BY <1>2, <1>4, <1>5, <1>6, EnterRecount

LEMMA CleanRows == ASSUME RowInv, Clean PROVE RowInv'
<1>1. doc' \in Seq(Seq(Cells)) /\ doc' # <<>>
  BY EmptyDocumentType DEF Clean
<1>2. "removed" \in Doings \ {NULL, "scroll"} /\ "writer" \in Threads
  BY DEF Doings, NULL, Threads
<1>3. /\ Enter("writer", "removed", "count", 0) /\ 0 \in Int
      /\ "count" \in {"bounds", "count"} /\ size' \in Windows
      /\ cursor' \in [x : Nat, y : Nat] /\ UNCHANGED <<documentRows, scrollY>>
  BY DEF Clean, RowInv, RowTypes
<1> QED BY <1>1, <1>2, <1>3, EnterRecount

LEMMA ResizeStep ==
  ASSUME RowInv, NEW s \in Sizes, Resize(s)
  PROVE  RowInv'
<1>1. s = [columns |-> s.columns, rows |-> s.rows] /\ s.rows \in Int
  BY ScreenAssumption
<1>2. s \in Windows
  BY <1>1, WindowOf
<1>3. size' \in Windows
  BY <1>2, WindowMixed DEF Resize, RowInv, RowTypes
<1>4. "resized" \in Doings \ {NULL, "scroll"} /\ "event" \in Threads
  BY DEF Doings, NULL, Threads
<1>5. /\ Enter("event", "resized", "bounds", s.rows) /\ s.rows \in {u.rows : u \in Sizes}
      /\ "bounds" \in {"bounds", "count"}
      /\ doc' \in Seq(Seq(Cells)) /\ doc' # <<>>
      /\ cursor' \in [x : Nat, y : Nat] /\ UNCHANGED <<documentRows, scrollY>>
  BY DEF Resize, RowInv, RowTypes
<1> QED BY <1>1, <1>3, <1>4, <1>5, EnterRecount

LEMMA ScrollRows ==
  ASSUME RowInv, NEW t \in Threads, NEW v \in Scrolls, Scroll(t, v)
  PROVE  RowInv'
<1>1. scrollY + v \in Int
  BY ScreenAssumption DEF RowInv, RowTypes
<1>2. PICK n \in Int : n = scrollY + v
  BY <1>1
<1>3. Enter(t, "scroll", "set", n) /\ UNCHANGED <<doc, cursor, size, documentRows, scrollY>>
  BY <1>2 DEF Scroll
<1> QED BY <1>3, EnterScroll

LEMMA SetScrollAreaRows ==
  ASSUME RowInv, NEW v \in {0} \cup (Scrolls \cap Nat), SetScrollArea(v)
  PROVE  RowInv'
<1>1. v \in Int /\ "writer" \in Threads
  BY DEF Threads
<1> QED BY <1>1, EnterScroll DEF SetScrollArea

LEMMA SetCursorRows ==
  ASSUME RowInv, NEW x \in 0..1, NEW y \in 0..MaxOps, SetCursor(x, y)
  PROVE  RowInv'
<1>1. cursor' \in [x : Nat, y : Nat]
  BY ScreenAssumption DEF SetCursor
<1>2. UNCHANGED <<doc, size, documentRows, scrollY, thread, raced>>
  BY DEF SetCursor
<1>3. RowTypes'
  BY <1>1, <1>2 DEF RowInv, RowTypes
<1> QED BY <1>2, <1>3 DEF RowInv, CountInv, ScrollInv, Recounts, At, Rows

\* A thread that counts goes on: it is alone, and will normalise.
LEMMA RowCounts ==
  ASSUME RowInv, NEW t \in Threads, thread[t].pc \in Counting,
         thread' \in [Threads -> States],
         \A u \in Threads : u # t => thread'[u] = thread[u],
         thread'[t].doing = thread[t].doing,
         HoldsTypes(thread'[t]), thread'[t].pc \in Counting \cup {"view"},
         size' \in Windows, documentRows' \in Nat \ {0},
         UNCHANGED <<doc, cursor, scrollY, raced>>,
         ~raced /\ CountInv =>
           /\ thread'[t].pc = "store" => thread'[t].n = Rows'
           /\ thread'[t].pc = "view" => documentRows' = Rows'
  PROVE  RowInv'
<1>1. RowTypes'
  <2>1. \A u \in Threads : HoldsTypes(thread'[u])
    BY DEF RowInv, RowTypes
  <2>2. raced' \in BOOLEAN
    BY DEF RowInv, RowTypes
  <2> QED BY <2>1, <2>2 DEF RowInv, RowTypes
<1>2. ASSUME ~raced' PROVE CountInv' /\ ScrollInv'
  <2>1. ~raced /\ CountInv
    BY <1>2 DEF RowInv
  <2>2. Recounts(t)
    BY DEF Recounts, RowInv, RowTypes, HoldsTypes, Counting
  <2>3. /\ thread'[Other(t)].pc = "idle" /\ thread'[Other(t)].doing = NULL
    BY <2>1, <2>2, TwoThreads DEF CountInv, RowInv, RowTypes, HoldsTypes
  <2>4. Knows(thread'[Other(t)], Rows', size'.rows, documentRows')
    BY <2>3 DEF Knows, Normalising, Tests, Stores
  <2>5. Knows(thread'[t], Rows', size'.rows, documentRows')
    BY <2>1 DEF Knows, Counting, Normalising, Tests, Stores
  <2>6. \A u \in Threads : Knows(thread'[u], Rows', size'.rows, documentRows')
    BY <2>4, <2>5, TwoThreads
  <2>7. \A u \in Threads : Recounts(u)' => thread'[Other(u)].pc = "idle"
    BY <2>3, TwoThreads DEF Recounts
  <2>8. (\A u \in Threads : thread'[u].pc \notin Counting) => documentRows' = Rows'
    BY <2>1
  <2>9. thread'[t].pc \in Before
    BY DEF Before
  <2>10. \A ps : At(Before \cup ps)'
    BY <2>9 DEF At
  <2>11. ScrollInv'
    BY <2>10, Zenon DEF ScrollInv
  <2> QED BY <2>6, <2>7, <2>8, <2>11 DEF CountInv
<1> QED BY <1>1, <1>2 DEF RowInv

LEMMA ResizeRowsStep == ASSUME RowInv, ResizeRows PROVE RowInv'
<1> DEFINE t == "event"
<1>1. /\ t \in Threads /\ thread \in [Threads -> States] /\ thread[t].pc = "bounds"
      /\ HoldsTypes(thread[t]) /\ thread[t].doing \notin {NULL, "scroll"}
  BY DEF Threads, ResizeRows, RowInv, RowTypes, HoldsTypes, Counting
<1>2. /\ GoTo(t, "count", 0) /\ "count" \in Places /\ 0 \in Int
  BY DEF ResizeRows, Places, Counting
<1>3. /\ thread' \in [Threads -> States]
      /\ thread'[t].pc = "count" /\ thread'[t].doing = thread[t].doing
      /\ \A u \in Threads : u # t => thread'[u] = thread[u]
  BY <1>1, <1>2, GoneTo
<1>4. HoldsTypes(thread'[t])
  BY <1>1, <1>3 DEF HoldsTypes, NULL
<1>5. size' \in Windows
  <2>1. PICK s \in Sizes : thread[t].n = s.rows
    BY <1>1 DEF HoldsTypes
  <2>2. s = [columns |-> s.columns, rows |-> s.rows]
    BY ScreenAssumption
  <2>3. s \in Windows /\ size' = [size EXCEPT !.rows = s.rows]
    BY <2>1, <2>2, WindowOf DEF ResizeRows
  <2> QED BY <2>3, WindowMixed DEF RowInv, RowTypes
<1>6. UNCHANGED <<doc, cursor, documentRows, scrollY, raced>>
  BY DEF ResizeRows
<1>7. documentRows' \in Nat \ {0} /\ "bounds" \in Counting /\ "count" \in Counting
  BY <1>6 DEF RowInv, RowTypes, Counting
<1> HIDE DEF t
<1> QED BY <1>1, <1>3, <1>4, <1>5, <1>6, <1>7, RowCounts

LEMMA CountRowsRows ==
  ASSUME RowInv, NEW t \in Threads, CountRows(t) PROVE RowInv'
<1>1. /\ thread \in [Threads -> States] /\ thread[t].pc = "count"
      /\ HoldsTypes(thread[t]) /\ thread[t].doing \notin {NULL, "scroll"}
  BY DEF CountRows, RowInv, RowTypes, HoldsTypes, Counting
<1>2. Rows \in Nat \ {0}
  BY RowsType DEF RowInv, RowTypes
<1>3. PICK n \in Int : n = Rows
  BY <1>2
<1>4. GoTo(t, "store", n) /\ "store" \in Places
  BY <1>3 DEF CountRows, Places, Counting, Rows
<1>5. /\ thread' \in [Threads -> States] /\ thread'[t].n = n
      /\ thread'[t].pc = "store" /\ thread'[t].doing = thread[t].doing
      /\ \A u \in Threads : u # t => thread'[u] = thread[u]
  BY <1>1, <1>4, GoneTo
<1>6. HoldsTypes(thread'[t])
  BY <1>1, <1>2, <1>3, <1>5 DEF HoldsTypes, NULL
<1>7. UNCHANGED <<doc, cursor, size, documentRows, scrollY, raced>>
  BY DEF CountRows, work
<1>8. /\ documentRows' \in Nat \ {0} /\ size' \in Windows /\ Rows' = Rows
      /\ "count" \in Counting /\ "store" \in Counting
  BY <1>7 DEF RowInv, RowTypes, Counting, Rows
<1> QED BY <1>1, <1>3, <1>5, <1>6, <1>7, <1>8, RowCounts

LEMMA StoreRowsRows ==
  ASSUME RowInv, NEW t \in Threads, StoreRows(t) PROVE RowInv'
<1>1. /\ thread \in [Threads -> States] /\ thread[t].pc = "store"
      /\ HoldsTypes(thread[t]) /\ thread[t].doing \notin {NULL, "scroll"}
      /\ thread[t].n \in Nat \ {0}
  BY DEF StoreRows, RowInv, RowTypes, HoldsTypes, Counting
<1>2. GoTo(t, "view", 0) /\ "view" \in Places /\ 0 \in Int
  BY DEF StoreRows, Places
<1>3. /\ thread' \in [Threads -> States]
      /\ thread'[t].pc = "view" /\ thread'[t].doing = thread[t].doing
      /\ \A u \in Threads : u # t => thread'[u] = thread[u]
  BY <1>1, <1>2, GoneTo
<1>4. HoldsTypes(thread'[t])
  BY <1>1, <1>3 DEF HoldsTypes, NULL, Counting
<1>5. UNCHANGED <<doc, cursor, size, scrollY, raced>> /\ documentRows' = thread[t].n
  BY DEF StoreRows, work
<1>6. size' \in Windows /\ Rows' = Rows /\ "store" \in Counting
  BY <1>5 DEF RowInv, RowTypes, Counting, Rows
<1>7. CountInv => documentRows' = Rows'
  BY <1>1, <1>5, <1>6 DEF CountInv, Knows
<1> QED BY <1>1, <1>3, <1>4, <1>5, <1>6, <1>7, RowCounts

LEMMA StoreScrollRows ==
  ASSUME RowInv, NEW t \in Threads, StoreScroll(t) PROVE RowInv'
<1>1. /\ thread \in [Threads -> States] /\ thread[t].pc = "set"
      /\ HoldsTypes(thread[t]) /\ thread[t].n \in Int
  BY DEF StoreScroll, RowInv, RowTypes, States
<1>2. GoTo(t, "view", 0) /\ "view" \in Places /\ 0 \in Int
  BY DEF StoreScroll, Places
<1>3. /\ thread' \in [Threads -> States]
      /\ thread'[t].pc = "view" /\ thread'[t].doing = thread[t].doing
      /\ \A u \in Threads : u # t => thread'[u] = thread[u]
  BY <1>1, <1>2, GoneTo
<1>4. HoldsTypes(thread'[t]) /\ Knows(thread'[t], Rows, size.rows, documentRows)
  BY <1>1, <1>3 DEF HoldsTypes, Knows, NULL, Counting, Normalising, Tests, Stores
<1>5. /\ UNCHANGED <<doc, cursor, size, documentRows, raced>> /\ scrollY' \in Int
      /\ cursor' \in [x : Nat, y : Nat]
  BY <1>1 DEF StoreScroll, work, RowInv, RowTypes
<1>6. ScrollInv'
  <2>1. "view" \in Before
    BY DEF Before
  <2>2. \A ps : At(Before \cup ps)'
    BY <1>3, <2>1 DEF At
  <2> QED BY <2>2, Zenon DEF ScrollInv
<1>7. "set" \notin Counting /\ "view" \notin Counting
  BY DEF Counting
<1> QED BY <1>1, <1>3, <1>4, <1>5, <1>6, <1>7, RowMoves

LEMMA ViewRowsRows ==
  ASSUME RowInv, NEW t \in Threads, ViewRows(t) PROVE RowInv'
<1>1. /\ thread \in [Threads -> States] /\ thread[t].pc = "view"
      /\ HoldsTypes(thread[t]) /\ size.rows \in Int
  BY WindowType DEF ViewRows, RowInv, RowTypes
<1>2. PICK n \in Int : n = size.rows
  BY <1>1
<1>3. GoTo(t, "above", n) /\ "above" \in Places
  BY <1>2 DEF ViewRows, Places, Normalising, Tests
<1>4. /\ thread' \in [Threads -> States] /\ thread'[t].n = n
      /\ thread'[t].pc = "above" /\ thread'[t].doing = thread[t].doing
      /\ \A u \in Threads : u # t => thread'[u] = thread[u]
  BY <1>1, <1>3, GoneTo
<1>5. HoldsTypes(thread'[t]) /\ Knows(thread'[t], Rows, size.rows, documentRows)
  BY <1>1, <1>2, <1>4 DEF HoldsTypes, Knows, NULL, Counting
<1>6. /\ UNCHANGED <<doc, cursor, size, documentRows, scrollY, raced>>
      /\ cursor' \in [x : Nat, y : Nat] /\ scrollY' \in Int
  BY DEF ViewRows, work, RowInv, RowTypes
<1>7. ScrollInv'
  <2>1. "above" \in Before
    BY DEF Before
  <2>2. \A ps : At(Before \cup ps)'
    BY <1>4, <2>1 DEF At
  <2> QED BY <2>2, Zenon DEF ScrollInv
<1>8. "view" \notin Counting /\ "above" \notin Counting
  BY DEF Counting
<1> QED BY <1>1, <1>4, <1>5, <1>6, <1>7, <1>8, RowMoves

\* A set of places that a thread does not leave is still taken.
LEMMA AtMoves ==
  ASSUME NEW t \in Threads, \A u \in Threads : u # t => thread'[u] = thread[u],
         NEW ps, thread[t].pc \notin ps \/ thread'[t].pc \in ps
  PROVE  At(ps) => At(ps)'
BY DEF At

\* Where the tests of normalizeScroll lead.
Leads(p, q, s, total, rows) ==
  \/ p = "above" /\ q \in {"setAbove", "fits"}
  \/ p = "fits" /\ q = "high" /\ rows < total
  \/ p = "fits" /\ q = "setZero" /\ rows >= total
  \/ p = "high" /\ q = "setHigh"
  \/ p = "high" /\ q = "low" /\ s <= total - rows
  \/ p = "low" /\ q = "setLow"
  \/ p = "low" /\ q = "end" /\ s >= 1 - rows

LEMMA NormalizeTestIs ==
  ASSUME NEW p \in Tests, NEW s \in Int, NEW total \in Int, NEW rows \in Int
  PROVE  Leads(p, NormalizeTest(p, s, total, rows), s, total, rows)
<1>1. CASE p = "above"
  <2>1. NormalizeTest(p, s, total, rows) \in {"setAbove", "fits"}
    BY <1>1 DEF NormalizeTest
  <2> QED BY <1>1, <2>1 DEF Leads
<1>2. CASE p = "fits"
  <2>1. NormalizeTest(p, s, total, rows) = IF rows < total THEN "high" ELSE "setZero"
    BY <1>2 DEF NormalizeTest
  <2> QED BY <1>2, <2>1 DEF Leads
<1>3. CASE p = "high"
  <2>1. NormalizeTest(p, s, total, rows)
          = IF s > total - rows THEN "setHigh" ELSE "low"
    BY <1>3 DEF NormalizeTest
  <2> QED BY <1>3, <2>1 DEF Leads
<1>4. CASE p = "low"
  <2>1. NormalizeTest(p, s, total, rows) = IF s < 1 - rows THEN "setLow" ELSE "end"
    BY <1>4 DEF NormalizeTest
  <2> QED BY <1>4, <2>1 DEF Leads
<1> QED BY <1>1, <1>2, <1>3, <1>4 DEF Tests

\* A test finds what it looks for, or leaves it to those who come after.
LEMMA NormalizeTestsRows ==
  ASSUME RowInv, NEW t \in Threads, NormalizeTests(t) PROVE RowInv'
<1> DEFINE p == thread[t].pc
           q == NormalizeTest(p, scrollY, documentRows, thread[t].n)
           High == Before \cup {"high", "setHigh"}
           Low == Before \cup {"high", "setHigh", "low", "setLow"}
           Zero == Before \cup {"setZero"}
<1>1. /\ thread \in [Threads -> States] /\ p \in Tests /\ thread[t].n \in Int
      /\ HoldsTypes(thread[t]) /\ scrollY \in Int /\ documentRows \in Nat \ {0}
      /\ size.rows \in Nat \ {0}
  BY WindowType DEF NormalizeTests, RowInv, RowTypes, States
<1>2. GoTo(t, q, thread[t].n)
  BY DEF NormalizeTests
<1>3. Leads(p, q, scrollY, documentRows, thread[t].n)
  BY <1>1, NormalizeTestIs
<1>4. q \in Normalising \cup {"end"} /\ q \in Places
  BY <1>3 DEF Leads, Places, Normalising, Tests, Stores
<1>5. PICK pc \in Places, n \in Int : pc = q /\ n = thread[t].n
  BY <1>1, <1>4
<1> HIDE DEF q
<1>6. /\ thread' \in [Threads -> States] /\ thread'[t].n = thread[t].n
      /\ thread'[t].pc = q /\ thread'[t].doing = thread[t].doing
      /\ \A u \in Threads : u # t => thread'[u] = thread[u]
  <2>1. GoTo(t, pc, n)
    BY <1>2, <1>5
  <2> QED BY <1>1, <1>5, <2>1, GoneTo
<1>7. /\ p \notin Counting /\ q \notin Counting /\ q # "idle" /\ p # "idle"
      /\ q \notin {"bounds", "store"}
  BY <1>1, <1>4 DEF Counting, Normalising, Tests, Stores
<1>8. HoldsTypes(thread'[t])
  BY <1>1, <1>6, <1>7 DEF HoldsTypes
<1>9. /\ UNCHANGED <<doc, cursor, size, documentRows, scrollY, raced>>
      /\ cursor' \in [x : Nat, y : Nat] /\ scrollY' \in Int
  BY DEF NormalizeTests, work, RowInv, RowTypes
<1>10. ASSUME ~raced, CountInv PROVE Knows(thread'[t], Rows, size.rows, documentRows)
  <2>1. Knows(thread[t], Rows, size.rows, documentRows) /\ p \in Normalising
    BY <1>1, <1>10 DEF CountInv, Normalising
  <2>2. /\ q \in {"high", "low", "setHigh", "setLow"} => thread[t].n < documentRows
        /\ q = "setZero" => thread[t].n >= documentRows
    BY <1>3, <2>1 DEF Knows, Leads
  <2> QED BY <1>6, <1>7, <2>1, <2>2 DEF Knows
<1>11. ASSUME ~raced, CountInv, ScrollInv PROVE ScrollInv'
  <2>1. /\ thread[t].n = size.rows
        /\ p \in {"high", "low"} => size.rows < documentRows
    BY <1>1, <1>11 DEF CountInv, Knows, Normalising
  <2>2. /\ size.rows < documentRows /\ scrollY > documentRows - size.rows => At(High)
        /\ size.rows < documentRows /\ scrollY < 1 - size.rows => At(Low)
        /\ size.rows >= documentRows /\ scrollY # 0 => At(Zero)
    BY <1>11 DEF ScrollInv
  <2>3. size.rows < documentRows /\ scrollY > documentRows - size.rows => At(High)'
    <3> SUFFICES ASSUME size.rows < documentRows, scrollY > documentRows - size.rows
                 PROVE  At(High)'
      OBVIOUS
    <3>1. p \notin High \/ q \in High
      BY <1>1, <1>3, <2>1 DEF Before, Counting, Leads
    <3> QED BY <1>6, <2>2, <3>1, AtMoves
  <2>4. size.rows < documentRows /\ scrollY < 1 - size.rows => At(Low)'
    <3> SUFFICES ASSUME size.rows < documentRows, scrollY < 1 - size.rows
                 PROVE  At(Low)'
      OBVIOUS
    <3>1. p \notin Low \/ q \in Low
      BY <1>1, <1>3, <2>1 DEF Before, Counting, Leads
    <3> QED BY <1>6, <2>2, <3>1, AtMoves
  <2>5. size.rows >= documentRows /\ scrollY # 0 => At(Zero)'
    <3> SUFFICES ASSUME size.rows >= documentRows, scrollY # 0 PROVE At(Zero)'
      OBVIOUS
    <3>1. p \notin Zero \/ q \in Zero
      BY <1>1, <1>3, <2>1 DEF Before, Counting, Leads
    <3> QED BY <1>6, <2>2, <3>1, AtMoves
  <2> QED BY <1>9, <2>3, <2>4, <2>5 DEF ScrollInv
<1> QED BY <1>1, <1>6, <1>7, <1>8, <1>9, <1>10, <1>11, RowMoves

\* What is stored is a position that suits, or is tested again.
LEMMA NormalizeStoresRows ==
  ASSUME RowInv, NEW t \in Threads, NormalizeStores(t) PROVE RowInv'
<1> DEFINE p == thread[t].pc
           q == IF p = "setAbove" THEN "fits" ELSE "end"
<1>1. /\ thread \in [Threads -> States] /\ p \in Stores /\ thread[t].n \in Int
      /\ HoldsTypes(thread[t]) /\ scrollY \in Int /\ documentRows \in Nat \ {0}
      /\ size.rows \in Nat \ {0}
  BY WindowType DEF NormalizeStores, RowInv, RowTypes, States
<1>2. GoTo(t, q, thread[t].n) /\ q \in {"fits", "end"}
  BY DEF NormalizeStores
<1>3. /\ p = "setAbove" => q = "fits"
      /\ p = "setZero" => scrollY' = 0
      /\ p = "setHigh" => scrollY' = documentRows - thread[t].n
      /\ p = "setLow" => scrollY' = 1 - thread[t].n
      /\ scrollY' \in Int
  BY <1>1 DEF NormalizeStores, NormalizeStore, Stores
<1>4. q \in Places
  BY <1>2 DEF Places, Normalising, Tests
<1>5. PICK pc \in Places, n \in Int : pc = q /\ n = thread[t].n
  BY <1>1, <1>4
<1> HIDE DEF q
<1>6. /\ thread' \in [Threads -> States] /\ thread'[t].n = thread[t].n
      /\ thread'[t].pc = q /\ thread'[t].doing = thread[t].doing
      /\ \A u \in Threads : u # t => thread'[u] = thread[u]
  <2>1. GoTo(t, pc, n)
    BY <1>2, <1>5
  <2> QED BY <1>1, <1>5, <2>1, GoneTo
<1>7. /\ p \notin Counting /\ q \notin Counting /\ q # "idle" /\ p # "idle"
      /\ q \notin {"bounds", "store"}
  BY <1>1, <1>2 DEF Counting, Stores
<1>8. HoldsTypes(thread'[t])
  BY <1>1, <1>6, <1>7 DEF HoldsTypes
<1>9. /\ UNCHANGED <<doc, cursor, size, documentRows, raced>>
      /\ cursor' \in [x : Nat, y : Nat]
  BY DEF NormalizeStores, work, RowInv, RowTypes
<1>10. ASSUME ~raced, CountInv PROVE Knows(thread'[t], Rows, size.rows, documentRows)
  <2>1. Knows(thread[t], Rows, size.rows, documentRows) /\ p \in Normalising
    BY <1>1, <1>10 DEF CountInv, Normalising
  <2> QED BY <1>2, <1>6, <1>7, <2>1 DEF Knows
<1>11. ASSUME ~raced, CountInv PROVE ScrollInv'
  <2>1. /\ thread[t].n = size.rows
        /\ p \in {"setHigh", "setLow"} => size.rows < documentRows
        /\ p = "setZero" => size.rows >= documentRows
    BY <1>1, <1>11 DEF CountInv, Knows, Normalising
  <2>2. CASE p = "setAbove"
    <3>1. thread'[t].pc \in Before
      BY <1>3, <1>6, <2>2 DEF Before
    <3>2. \A ps : At(Before \cup ps)'
      BY <3>1 DEF At
    <3> QED BY <3>2, Zenon DEF ScrollInv
  <2>3. CASE p # "setAbove"
    <3>1. /\ ~(size.rows < documentRows /\ scrollY' > documentRows - size.rows)
          /\ ~(size.rows < documentRows /\ scrollY' < 1 - size.rows)
          /\ ~(size.rows >= documentRows /\ scrollY' # 0)
      BY <1>1, <1>3, <2>1, <2>3 DEF Stores
    <3> QED BY <1>9, <3>1 DEF ScrollInv
  <2> QED BY <2>2, <2>3
<1> QED BY <1>1, <1>3, <1>6, <1>7, <1>8, <1>9, <1>10, <1>11, RowMoves

\* Who leaves has nothing before him.
LEMMA LeaveRows ==
  ASSUME RowInv, NEW t \in Threads, Leave(t) PROVE RowInv'
<1>1. /\ thread \in [Threads -> States] /\ thread[t].pc = "end"
      /\ thread' = [thread EXCEPT ![t] = Idle]
      /\ UNCHANGED <<doc, size, documentRows, scrollY, raced>>
  BY DEF Leave, RowInv, RowTypes
<1>2. Idle \in States /\ Idle.pc = "idle" /\ Idle.n = 0 /\ Idle.doing = NULL
  BY DEF Idle, States, Places, Doings
<1>3. /\ thread' \in [Threads -> States] /\ thread'[t] = Idle
      /\ \A u \in Threads : u # t => thread'[u] = thread[u]
  BY <1>1, <1>2, Moved
<1>4. HoldsTypes(Idle) /\ Knows(Idle, Rows', size'.rows, documentRows')
  BY <1>2 DEF HoldsTypes, Knows, Counting, Normalising, Tests, Stores
<1>5. cursor' \in [x : Nat, y : Nat]
  <2>1. cursor \in [x : Nat, y : Nat]
    BY DEF RowInv, RowTypes
  <2>2. \/ cursor' = [cursor EXCEPT !.x = 0]
        \/ cursor' = [cursor EXCEPT !.x = cursor.x + 1]
        \/ cursor' = cursor
    BY ScreenAssumption DEF Leave
  <2> QED BY <2>1, <2>2
<1>6. RowTypes'
  <2>1. \A u \in Threads : HoldsTypes(thread'[u])
    BY <1>3, <1>4 DEF RowInv, RowTypes
  <2>2. raced' \in BOOLEAN
    BY <1>1 DEF RowInv, RowTypes
  <2> QED BY <1>1, <1>3, <1>5, <2>1, <2>2 DEF RowInv, RowTypes
<1>7. ASSUME ~raced' PROVE CountInv' /\ ScrollInv'
  <2>1. CountInv /\ ScrollInv /\ Rows' = Rows
    BY <1>1, <1>7 DEF RowInv, Rows
  <2>2. \A u \in Threads : Knows(thread'[u], Rows', size'.rows, documentRows')
    BY <1>1, <1>3, <1>4, <2>1 DEF CountInv
  <2>3. \A u \in Threads : Recounts(u)' => thread'[Other(u)].pc = "idle"
    BY <1>2, <1>3, <2>1, TwoThreads DEF CountInv, Recounts
  <2>4. (\A u \in Threads : thread'[u].pc \notin Counting) => documentRows' = Rows'
    BY <1>1, <1>3, <2>1 DEF CountInv, Counting
  <2>5. \A ps : "end" \notin ps => (At(ps) => At(ps)')
    BY <1>1, <1>3 DEF At
  <2>6. /\ At(Before \cup {"high", "setHigh"}) => At(Before \cup {"high", "setHigh"})'
        /\ At(Before \cup {"high", "setHigh", "low", "setLow"})
             => At(Before \cup {"high", "setHigh", "low", "setLow"})'
        /\ At(Before \cup {"setZero"}) => At(Before \cup {"setZero"})'
    <3>1. "end" \notin Before \cup {"high", "setHigh", "low", "setLow", "setZero"}
      BY DEF Before, Counting
    <3> QED BY <2>5, <3>1
  <2>7. ScrollInv'
    BY <1>1, <2>1, <2>6 DEF ScrollInv
  <2> QED BY <2>2, <2>3, <2>4, <2>7 DEF CountInv
<1> QED BY <1>6, <1>7 DEF RowInv

LEMMA RowNext == ASSUME RowInv, [Next]_vars PROVE RowInv'
<1>1. CASE Writer
  BY <1>1, WriteCharRows, RemoveCharRows, SetCursorRows, CleanRows,
     SetScrollAreaRows DEF Writer
<1>2. CASE \E s \in Sizes : Resize(s)
  BY <1>2, ResizeStep
<1>3. CASE ResizeRows
  BY <1>3, ResizeRowsStep
<1>4. ASSUME NEW t \in Threads, Section(t) PROVE RowInv'
  <2>1. CASE \E v \in Scrolls : Scroll(t, v)
    BY <2>1, ScrollRows
  <2>2. CASE CountRows(t)
    BY <2>2, CountRowsRows
  <2>3. CASE StoreRows(t)
    BY <2>3, StoreRowsRows
  <2>4. CASE StoreScroll(t)
    BY <2>4, StoreScrollRows
  <2>5. CASE ViewRows(t)
    BY <2>5, ViewRowsRows
  <2>6. CASE NormalizeTests(t)
    BY <2>6, NormalizeTestsRows
  <2>7. CASE NormalizeStores(t)
    BY <2>7, NormalizeStoresRows
  <2>8. CASE Leave(t)
    BY <2>8, LeaveRows
  <2> QED BY <1>4, <2>1, <2>2, <2>3, <2>4, <2>5, <2>6, <2>7, <2>8 DEF Section
<1>5. CASE UNCHANGED <<doc, cursor, size, documentRows, scrollY, thread, raced>>
  <2>1. RowTypes'
    BY <1>5 DEF RowInv, RowTypes
  <2> QED BY <1>5, <2>1 DEF RowInv, CountInv, ScrollInv, Recounts, At, Rows
<1>6. Painter \/ UNCHANGED vars
        => UNCHANGED <<doc, cursor, size, documentRows, scrollY, thread, raced>>
  BY DEF Painter, PaintColumns, PaintLines, PaintPlace, PaintStart, PaintRow,
         PaintWait, work, vars
<1> QED BY <1>1, <1>2, <1>3, <1>4, <1>5, <1>6 DEF Next

LEMMA RowAlways == Spec => []RowInv
<1>1. RowInv /\ [Next]_vars => RowInv'
  BY RowNext
<1> QED BY <1>1, RowInit, PTL DEF Spec

\* With nobody at work nothing is left to be found.
LEMMA RowQuiet ==
  ASSUME RowInv, Quiet, ~raced
  PROVE  /\ documentRows = Rows
         /\ size.rows < documentRows
              => scrollY \in (1 - size.rows)..(documentRows - size.rows)
         /\ size.rows >= documentRows => scrollY = 0
<1>1. \A t \in Threads : thread[t].pc = "idle"
  BY DEF Quiet
<1>2. CountInv /\ ScrollInv
  BY DEF RowInv
<1>3. documentRows = Rows
  BY <1>1, <1>2 DEF CountInv, Counting
<1>4. \A ps : "idle" \notin ps => ~At(ps)
  BY <1>1 DEF At
<1>5. "idle" \notin Before \cup {"high", "setHigh", "low", "setLow", "setZero"}
  BY DEF Before, Counting
<1>6. /\ ~At(Before \cup {"high", "setHigh"})
      /\ ~At(Before \cup {"high", "setHigh", "low", "setLow"})
      /\ ~At(Before \cup {"setZero"})
  BY <1>4, <1>5
<1>7. size.rows \in Nat /\ documentRows \in Nat /\ scrollY \in Int
  BY WindowType DEF RowInv, RowTypes
<1> QED BY <1>2, <1>3, <1>6, <1>7 DEF ScrollInv

\* Whenever no operation is in progress, the cached number of rows is that
\* of the document at its present width, for every document and every set of
\* window sizes, unless a thread has counted rows while the other was at work
\* and none has counted alone since (recalculateView of gui_screen.cpp).
THEOREM RowsCurrentHolds == Spec => []RowsCurrent
<1>1. RowInv => RowsCurrent
  <2> SUFFICES ASSUME RowInv, Quiet, ~raced PROVE documentRows = Total
    BY DEF RowsCurrent
  <2> QED BY RowQuiet, RowsType DEF RowInv, RowTypes
<1> QED BY <1>1, RowAlways, PTL

\* Under the same condition the user cannot lose sight of the document,
\* however far the two threads scroll and however the loads, tests and stores
\* of their scrolling fall (scroll and normalizeScroll of gui_screen.cpp).
THEOREM ScrollSoundHolds == Spec => []ScrollSound
<1>1. RowInv => ScrollSound
  <2> SUFFICES ASSUME RowInv, Quiet, ~raced PROVE ScrollSound
    BY DEF ScrollSound
  <2> DEFINE rows == size.rows
             start == RenderStart(documentRows, rows, scrollY)
             seen == {y \in 0..(rows - 1) : start - y - 1 \in 0..(Total - 1)}
  <2>1. /\ documentRows = Total /\ Total \in Nat \ {0} /\ rows \in Nat \ {0}
        /\ scrollY \in Int
        /\ rows < Total => scrollY \in (1 - rows)..(Total - rows)
        /\ rows >= Total => scrollY = 0
    BY RowQuiet, RowsType, WindowType DEF RowInv, RowTypes
  <2>2. CASE Total <= rows
    <3>1. start = Total
      BY <2>1, <2>2 DEF RenderStart
    <3> HIDE DEF start
    <3>2. seen = 0..(Total - 1)
      BY <2>1, <2>2, <3>1
    <3>3. Total - 1 \in Int /\ 0 \in Int /\ ~(0 > Total - 1)
          /\ (Total - 1) - 0 + 1 = Total /\ 0 \in seen
      BY <2>1, <3>2
    <3>4. Cardinality(0..(Total - 1)) = (Total - 1) - 0 + 1
      BY <3>3, FS_Interval
    <3> HIDE DEF seen
    <3>5. Cardinality(seen) = Total
      BY <3>2, <3>3, <3>4
    <3> QED BY <2>1, <3>3, <3>5 DEF ScrollSound, start, seen
  <2>3. CASE ~(Total <= rows)
    <3>1. start - 0 - 1 \in 0..(Total - 1)
      BY <2>1, <2>3 DEF RenderStart
    <3>2. 0 \in seen
      BY <2>1, <3>1
    <3> QED BY <2>1, <2>3, <3>2 DEF ScrollSound
  <2> QED BY <2>2, <2>3
<1> QED BY <1>1, RowAlways, PTL
-----------------------------------------------------------------------------
(* acquireRow finds the row it is asked for                                *)

\* The rows g[n] are the last ones of g[k].
LastRows(g, n, k) ==
  /\ Len(g[n]) \in Nat /\ Len(g[k]) \in Nat /\ Len(g[n]) <= Len(g[k])
  /\ \A i \in 1..Len(g[n]) : g[k][Len(g[k]) - Len(g[n]) + i] = g[n][i]

\* The rows of the newest lines are the last rows of the document.
LEMMA RowsSuffix ==
  ASSUME NEW S, NEW d \in Seq(Seq(S)), NEW c \in Nat \ {0}, NEW g,
         IsRows(g, S, d, c, Len(d)), NEW n \in 0..Len(d)
  PROVE  \A k \in n..Len(d) : LastRows(g, n, k)
<1> DEFINE N == Len(d)
           P(k) == LastRows(g, n, k)
           T == {k \in n..N : ~P(k)}
<1> SUFFICES ASSUME T # {} PROVE FALSE
  OBVIOUS
<1>1. N \in Nat /\ n \in Nat /\ n <= N
  OBVIOUS
<1>2. T \in SUBSET Nat
  <2>1. \A k \in n..N : k \in Nat
    BY <1>1
  <2> HIDE DEF P
  <2> QED BY <2>1
<1>3. PICK m \in T : \A k \in T : m <= k
  BY <1>2, LeastNumber
<1>4. m \in n..N /\ ~P(m)
  BY <1>3
<1>5. \A k \in 0..N : g[k] \in Seq(Seq(S)) /\ Len(g[k]) \in Nat
  <2>1. \A k \in 0..N : g[k] \in Seq(Seq(S))
    BY DEF IsRows
  <2> QED BY <2>1
<1>6. m # n
  <2>1. Len(g[n]) \in Nat
    BY <1>5
  <2>2. \A i \in 1..Len(g[n]) : Len(g[n]) - Len(g[n]) + i = i
    BY <2>1
  <2>3. P(n)
    BY <2>1, <2>2 DEF LastRows
  <2> QED BY <1>4, <2>3
<1>7. /\ m - 1 \in n..N /\ m - 1 \in 0..N /\ m \in 1..N /\ m \in 0..N
      /\ ~(m <= m - 1)
  BY <1>1, <1>4, <1>6
<1>8. P(m - 1)
  BY <1>3, <1>7
<1> DEFINE a == Wrap(d[m], c)
           b == g[m - 1]
<1>9. a \in Seq(Seq(S))
  <2>1. d[m] \in Seq(S)
    BY <1>7
  <2> QED BY <2>1, WrapIs
<1>10. g[m] = a \o b /\ b \in Seq(Seq(S))
  BY <1>5, <1>7 DEF IsRows
<1> HIDE DEF a
<1>11. /\ Len(g[m]) = Len(a) + Len(b) /\ Len(a) \in Nat /\ Len(b) \in Nat
       /\ \A i \in 1..Len(b) : g[m][Len(a) + i] = b[i]
  BY <1>9, <1>10, ConcatIs
<1>12. ASSUME NEW i \in 1..Len(g[n])
       PROVE  g[m][Len(g[m]) - Len(g[n]) + i] = g[n][i]
  <2> DEFINE j == Len(b) - Len(g[n]) + i
  <2>0. Len(g[n]) \in Nat /\ Len(g[n]) <= Len(b) /\ i \in 1..Len(g[n])
    BY <1>8 DEF LastRows
  <2>1. j \in 1..Len(b) /\ Len(g[m]) - Len(g[n]) + i = Len(a) + j
    <3>1. ASSUME NEW x \in Nat, NEW y \in Nat, NEW z \in Nat, NEW v,
                 z <= y, i \in 1..z, v = x + y
          PROVE  y - z + i \in 1..y /\ v - z + i = x + (y - z + i)
      BY <3>1
    <3>2. /\ Len(a) \in Nat /\ Len(b) \in Nat
          /\ Len(g[m]) = Len(a) + Len(b)
      BY <1>11
    <3> HIDE DEF b
    <3>3. /\ Len(b) - Len(g[n]) + i \in 1..Len(b)
          /\ Len(g[m]) - Len(g[n]) + i = Len(a) + (Len(b) - Len(g[n]) + i)
      BY <2>0, <3>1, <3>2
    <3> QED BY <3>3
  <2>2. b[j] = g[n][i]
    BY <1>8 DEF LastRows
  <2> HIDE DEF j, b
  <2> QED BY <1>11, <2>1, <2>2
<1>13. P(m)
  <2>1. Len(g[n]) \in Nat /\ Len(g[n]) <= Len(b)
    BY <1>8 DEF LastRows
  <2>2. Len(g[m]) \in Nat /\ Len(g[n]) <= Len(g[m])
    BY <1>11, <2>1
  <2> QED BY <1>12, <2>1, <2>2 DEF LastRows
<1> QED BY <1>4, <1>13

\* The row q of a line of L characters, and the step to the one above it.
LEMMA RowEndIs ==
  ASSUME NEW c \in Nat \ {0}, NEW L \in Nat, NEW q \in 1..LineRows(L, c)
  PROVE  LET e == RowEnd(L, c, q)
             length == IF e % c = 0 THEN c ELSE e % c
         IN /\ e \in Nat /\ (e = 0 <=> L = 0) /\ (e > c <=> q > 1)
            /\ L # 0 => e - length = (q - 1) * c
            /\ q > 1 => e - length = RowEnd(L, c, q - 1)
            /\ q = LineRows(L, c) => e = L
<1> DEFINE R == LineRows(L, c)
           e == RowEnd(L, c, q)
           length == IF e % c = 0 THEN c ELSE e % c
<1> SUFFICES /\ e \in Nat /\ (e = 0 <=> L = 0) /\ (e > c <=> q > 1)
             /\ L # 0 => e - length = (q - 1) * c
             /\ q > 1 => e - length = RowEnd(L, c, q - 1)
             /\ q = R => e = L
  OBVIOUS
<1>1. /\ R \in Nat \ {0} /\ (L = 0 => R = 1)
      /\ L # 0 => (R - 1) * c < L /\ L <= R * c
  BY LineRowsIs
<1>2. q \in Nat \ {0} /\ q <= R /\ q * c \in Nat /\ q * c >= c
  BY <1>1
<1>3. e = IF q * c < L THEN q * c ELSE L
  BY DEF RowEnd
<1> HIDE DEF R, e
<1>4. CASE L = 0
  BY <1>1, <1>2, <1>3, <1>4 DEF R
<1>5. CASE L # 0
  <2>1. (q - 1) * c \in Nat /\ (q - 1) * c <= (R - 1) * c /\ (R - 1) * c \in Nat
    BY <1>1, <1>2
  <2>2. (q - 1) * c < L /\ (q - 1) * c + c = q * c
    BY <1>1, <1>2, <1>5, <2>1
  <2>3. e \in Nat /\ (q - 1) * c < e /\ e <= (q - 1) * c + c
    BY <1>2, <1>3, <2>1, <2>2
  <2>4. e > c <=> q > 1
    <3>1. CASE q = 1
      BY <2>3, <3>1
    <3>2. CASE q # 1
      <4>1. (q - 1) * c >= c /\ q > 1
        BY <1>2, <3>2
      <4> QED BY <2>1, <2>3, <4>1
    <3> QED BY <3>1, <3>2
  <2>5. e - length = (q - 1) * c
    <3>1. CASE e = (q - 1) * c + c
      <4>1. e = c * q + 0 /\ 0 \in 0..(c - 1)
        BY <1>2, <2>2, <3>1
      <4>2. e % c = 0
        <5>1. (c * q + 0) % c = 0
          BY <1>2
        <5> QED BY <4>1, <5>1
      <4> QED BY <2>1, <2>3, <3>1, <4>2
    <3>2. CASE e # (q - 1) * c + c
      <4> DEFINE r == e - (q - 1) * c
      <4>1. r \in 0..(c - 1) /\ r # 0
        BY <2>1, <2>3, <3>2
      <4>2. e = c * (q - 1) + r /\ q - 1 \in Nat
        BY <1>2, <2>1, <2>3
      <4> HIDE DEF r
      <4>3. e % c = r
        <5>1. (c * (q - 1) + r) % c = r
          BY <4>1, <4>2
        <5> QED BY <4>2, <5>1
      <4>4. length = r
        BY <4>1, <4>3
      <4> QED BY <2>1, <2>3, <4>4 DEF r
    <3> QED BY <3>1, <3>2
  <2> HIDE DEF length
  <2>6. RowEnd(L, c, q - 1) = (q - 1) * c
    BY <2>2 DEF RowEnd
  <2>7. q = R => e = L
    BY <1>1, <1>3, <1>5
  <2>8. e # 0
    BY <2>1, <2>3
  <2> QED BY <1>5, <2>3, <2>4, <2>5, <2>6, <2>7, <2>8
<1> QED BY <1>4, <1>5
-----------------------------------------------------------------------------

\* One turn of the loop of acquireRow, and its state after o turns.
Turn(d, c, w) == IF w.line > Len(d) THEN w ELSE StepUp(d, c, w)

IsWalk(f, d, c, o) ==
  /\ f = [n \in 0..o |-> f[n]]
  /\ f[0] = [line |-> 1, rem |-> Len(d[1])]
  /\ \A n \in 1..o : f[n] = Turn(d, c, f[n - 1])

LEMMA WalkExists ==
  ASSUME NEW d, NEW c
  PROVE  \A o \in Nat : \E f : IsWalk(f, d, c, o)
<1> DEFINE T == {o \in Nat : ~ \E f : IsWalk(f, d, c, o)}
<1> SUFFICES ASSUME T # {} PROVE FALSE
  OBVIOUS
<1>1. PICK m \in T : \A j \in T : m <= j
  BY LeastNumber
<1>2. m \in Nat /\ ~ \E f : IsWalk(f, d, c, m)
  BY <1>1
<1>3. CASE m = 0
  <2> DEFINE f == [n \in 0..0 |-> [line |-> 1, rem |-> Len(d[1])]]
  <2>1. IsWalk(f, d, c, 0)
    BY DEF IsWalk
  <2> QED BY <1>2, <1>3, <2>1
<1>4. CASE m # 0
  <2>0. m - 1 \in Nat /\ ~(m <= m - 1)
    BY <1>2, <1>4
  <2>1. PICK f : IsWalk(f, d, c, m - 1)
    BY <1>1, <2>0
  <2> DEFINE w == Turn(d, c, f[m - 1])
             h == [n \in 0..m |-> IF n = m THEN w ELSE f[n]]
  <2>2. h = [n \in 0..m |-> h[n]]
    OBVIOUS
  <2>3. h[0] = [line |-> 1, rem |-> Len(d[1])]
    BY <1>2, <1>4, <2>1 DEF IsWalk
  <2>4. ASSUME NEW n \in 1..m PROVE h[n] = Turn(d, c, h[n - 1])
    <3>1. CASE n = m
      <4>1. h[n] = w /\ h[n - 1] = f[m - 1]
        BY <1>2, <3>1
      <4> QED BY <4>1
    <3>2. CASE n # m
      <4>1. n \in 1..(m - 1) /\ n \in 0..m /\ n - 1 \in 0..m /\ n - 1 # m
        BY <1>2, <3>2
      <4>2. h[n] = f[n] /\ h[n - 1] = f[n - 1]
        BY <3>2, <4>1
      <4> QED BY <2>1, <4>1, <4>2 DEF IsWalk
    <3> QED BY <3>1, <3>2
  <2> HIDE DEF h
  <2>5. IsWalk(h, d, c, m)
    BY <2>2, <2>3, <2>4 DEF IsWalk
  <2> QED BY <1>2, <2>5
<1> QED BY <1>3, <1>4

\* acquireRow takes its row from where the walk ends.
RowAt(d, c, w) ==
  LET length == IF w.rem % c = 0 THEN c ELSE w.rem % c
  IN IF w.line > Len(d) \/ w.rem = 0 THEN <<>>
     ELSE SubSeq(d[w.line], w.rem - length + 1, w.rem)

LEMMA AcquireRowWalks ==
  ASSUME NEW d, NEW c, NEW o \in Nat
  PROVE  \E f : IsWalk(f, d, c, o) /\ AcquireRow(d, o, c) = RowAt(d, c, f[o])
<1> DEFINE Eq(f) == f = [n \in 0..o |->
                           IF n = 0 THEN [line |-> 1, rem |-> Len(d[1])]
                           ELSE IF f[n - 1].line > Len(d) THEN f[n - 1]
                           ELSE StepUp(d, c, f[n - 1])]
           F == CHOOSE f : Eq(f)
<1>1. PICK g : IsWalk(g, d, c, o)
  BY WalkExists
<1>2. Eq(g)
  <2>1. \A n \in 0..o : n # 0 => n \in 1..o
    OBVIOUS
  <2>2. \A n \in 0..o : g[n] = IF n = 0 THEN [line |-> 1, rem |-> Len(d[1])]
                               ELSE IF g[n - 1].line > Len(d) THEN g[n - 1]
                               ELSE StepUp(d, c, g[n - 1])
    BY <1>1, <2>1 DEF IsWalk, Turn
  <2> QED BY <1>1, <2>2 DEF IsWalk
<1>3. Eq(F)
  <2> HIDE DEF Eq
  <2> QED BY <1>2
<1>4. AcquireRow(d, o, c) = RowAt(d, c, F[o])
  <2>1. ~(o < 0)
    OBVIOUS
  <2>2. AcquireRow(d, o, c) =
          LET length == IF F[o].rem % c = 0 THEN c ELSE F[o].rem % c
          IN IF o < 0 \/ F[o].line > Len(d) \/ F[o].rem = 0 THEN <<>>
             ELSE SubSeq(d[F[o].line], F[o].rem - length + 1, F[o].rem)
    BY Zenon DEF AcquireRow
  <2> HIDE DEF F
  <2> QED BY <2>1, <2>2 DEF RowAt
<1> HIDE DEF F
<1>5. F = [n \in 0..o |-> F[n]]
  BY <1>3
<1>6. \A n \in 0..o : F[n] = IF n = 0 THEN [line |-> 1, rem |-> Len(d[1])]
                             ELSE IF F[n - 1].line > Len(d) THEN F[n - 1]
                             ELSE StepUp(d, c, F[n - 1])
  BY <1>3
<1>7. F[0] = [line |-> 1, rem |-> Len(d[1])]
  BY <1>6
<1>8. \A n \in 1..o : F[n] = Turn(d, c, F[n - 1])
  BY <1>6 DEF Turn
<1>9. IsWalk(F, d, c, o)
  BY <1>5, <1>7, <1>8 DEF IsWalk
<1> QED BY <1>4, <1>9

\* The walk is o rows away from the newest one: at the row q of a line whose
\* newer rows number o, or above the document.
WalkAt(g, d, c, w, o) ==
  \/ /\ w.line \in 1..Len(d)
     /\ \E q \in 1..LineRows(Len(d[w.line]), c) :
          /\ w.rem = RowEnd(Len(d[w.line]), c, q)
          /\ o = Len(g[w.line]) - q
  \/ w.line = Len(d) + 1 /\ o >= Len(g[Len(d)])

\* A line's rows and those of the newer lines, counted together.
LEMMA RowsOfLine ==
  ASSUME NEW S, NEW d \in Seq(Seq(S)), NEW c \in Nat \ {0}, NEW g,
         IsRows(g, S, d, c, Len(d)), NEW n \in 1..Len(d)
  PROVE  /\ d[n] \in Seq(S) /\ Len(d[n]) \in Nat
         /\ LineRows(Len(d[n]), c) \in Nat \ {0}
         /\ Len(g[n]) \in Nat /\ Len(g[n - 1]) \in Nat
         /\ Len(g[n]) = LineRows(Len(d[n]), c) + Len(g[n - 1])
         /\ \A q \in 1..LineRows(Len(d[n]), c) : g[n][q] = Wrap(d[n], c)[q]
<1>1. n \in 0..Len(d) /\ n - 1 \in 0..Len(d)
  OBVIOUS
<1>2. d[n] \in Seq(S) /\ Len(d[n]) \in Nat
  OBVIOUS
<1>3. g[n] = Wrap(d[n], c) \o g[n - 1] /\ g[n - 1] \in Seq(Seq(S))
  BY <1>1 DEF IsRows
<1>4. /\ Wrap(d[n], c) \in Seq(Seq(S))
      /\ Len(Wrap(d[n], c)) = LineRows(Len(d[n]), c)
  BY <1>2, WrapIs
<1>5. LineRows(Len(d[n]), c) \in Nat \ {0}
  BY <1>2, LineRowsIs
<1> DEFINE a == Wrap(d[n], c)
           b == g[n - 1]
           R == LineRows(Len(d[n]), c)
<1>6. a \in Seq(Seq(S)) /\ b \in Seq(Seq(S)) /\ g[n] = a \o b
  BY <1>3, <1>4
<1>7. Len(a) = R /\ R \in Nat \ {0}
  BY <1>4, <1>5
<1> HIDE DEF a, b, R
<1>8. /\ Len(a \o b) = Len(a) + Len(b) /\ Len(b) \in Nat
      /\ \A q \in 1..Len(a) : (a \o b)[q] = a[q]
  BY <1>6, ConcatIs
<1>9. /\ Len(g[n]) = R + Len(b) /\ Len(b) \in Nat /\ Len(g[n]) \in Nat
      /\ \A q \in 1..R : g[n][q] = a[q]
  <2>1. Len(g[n]) = Len(a \o b) /\ \A q \in 1..R : g[n][q] = (a \o b)[q]
    BY <1>6
  <2>2. Len(g[n]) = R + Len(b) /\ Len(b) \in Nat
    BY <1>7, <1>8, <2>1
  <2>3. \A q \in 1..R : g[n][q] = a[q]
    BY <1>7, <1>8, <2>1
  <2>4. Len(g[n]) \in Nat
    BY <1>7, <2>2
  <2> QED BY <2>2, <2>3, <2>4
<1> QED BY <1>2, <1>5, <1>9 DEF a, b, R

\* Where the walk begins on a line.
LEMMA WalkEnters ==
  ASSUME NEW S, NEW d \in Seq(Seq(S)), NEW c \in Nat \ {0}, NEW g,
         IsRows(g, S, d, c, Len(d)), NEW n \in 1..Len(d)
  PROVE  WalkAt(g, d, c, [line |-> n, rem |-> Len(d[n])], Len(g[n - 1]))
<1> DEFINE R == LineRows(Len(d[n]), c)
<1>1. /\ Len(d[n]) \in Nat /\ R \in Nat \ {0} /\ Len(g[n - 1]) \in Nat
      /\ Len(g[n]) = R + Len(g[n - 1])
  BY RowsOfLine
<1>2. R \in 1..R /\ Len(g[n - 1]) = Len(g[n]) - R
  <2> HIDE DEF R
  <2> QED BY <1>1
<1>3. RowEnd(Len(d[n]), c, R) = Len(d[n])
  BY <1>1, <1>2, RowEndIs
<1> HIDE DEF R
<1> DEFINE w == [line |-> n, rem |-> Len(d[n])]
<1>4. w.line = n /\ w.rem = Len(d[n])
  OBVIOUS
<1> HIDE DEF w
<1>5. WalkAt(g, d, c, w, Len(g[n - 1]))
  BY <1>2, <1>3, <1>4 DEF WalkAt, R
<1> QED BY <1>5 DEF w

\* One turn goes one row up.
LEMMA TurnSound ==
  ASSUME NEW S, NEW d \in Seq(Seq(S)), NEW c \in Nat \ {0}, NEW g,
         IsRows(g, S, d, c, Len(d)), NEW o \in Nat,
         NEW w \in [line : Nat, rem : Nat], WalkAt(g, d, c, w, o)
  PROVE  /\ Turn(d, c, w) \in [line : Nat, rem : Nat]
         /\ WalkAt(g, d, c, Turn(d, c, w), o + 1)
<1> DEFINE N == Len(d)
<1>0. N \in Nat
  OBVIOUS
<1>1. CASE w.line = N + 1 /\ o >= Len(g[N])
  <2>1. Turn(d, c, w) = w
    BY <1>0, <1>1 DEF Turn
  <2>2. Len(g[N]) \in Nat
    <3>1. N \in 0..N
      BY <1>0
    <3>2. g[N] \in Seq(Seq(S))
      BY <3>1 DEF IsRows
    <3> QED BY <3>2
  <2>3. o + 1 >= Len(g[N])
    BY <1>1, <2>2
  <2> QED BY <1>1, <2>1, <2>3 DEF WalkAt
<1>2. ASSUME w.line \in 1..N,
             NEW q \in 1..LineRows(Len(d[w.line]), c),
             w.rem = RowEnd(Len(d[w.line]), c, q), o = Len(g[w.line]) - q
      PROVE  /\ Turn(d, c, w) \in [line : Nat, rem : Nat]
             /\ WalkAt(g, d, c, Turn(d, c, w), o + 1)
  <2> DEFINE n == w.line
             L == Len(d[n])
             R == LineRows(L, c)
             e == w.rem
             length == IF e % c = 0 THEN c ELSE e % c
  <2>1. /\ L \in Nat /\ R \in Nat \ {0} /\ Len(g[n]) \in Nat /\ n \in Nat
        /\ q \in Nat \ {0} /\ q <= R
    <3>1. /\ L \in Nat /\ R \in Nat \ {0} /\ Len(g[n]) \in Nat
      BY <1>2, RowsOfLine
    <3>2. n \in Nat /\ q \in 1..R
      BY <1>2
    <3> HIDE DEF n, L, R
    <3> QED BY <3>1, <3>2
  <2>2. /\ e \in Nat /\ (e = 0 <=> L = 0) /\ (e > c <=> q > 1)
        /\ q > 1 => e - length = RowEnd(L, c, q - 1)
    BY <1>2, <2>1, RowEndIs
  <2>3. (IF e = 0 THEN L ELSE e) = e /\ ~(n > N)
    BY <1>0, <1>2, <2>2
  <2>4. Turn(d, c, w) =
          IF e > c THEN [w EXCEPT !.rem = e - length]
          ELSE [line |-> n + 1,
                rem |-> IF n < N THEN Len(d[n + 1]) ELSE e]
    <3>1. Turn(d, c, w) = StepUp(d, c, w)
      BY <2>3 DEF Turn
    <3>2. StepUp(d, c, w) =
            LET x == IF e = 0 THEN L ELSE e
            IN IF x > c
               THEN [w EXCEPT !.rem = x - (IF x % c = 0 THEN c ELSE x % c)]
               ELSE [line |-> n + 1,
                     rem |-> IF n < N THEN Len(d[n + 1]) ELSE x]
      BY Zenon DEF StepUp
    <3> QED BY <2>3, <3>1, <3>2
  <2>5. CASE q > 1
    <3> DEFINE v == [w EXCEPT !.rem = e - length]
    <3>1. Turn(d, c, w) = v
      BY <2>2, <2>4, <2>5
    <3>2. q - 1 \in 1..R /\ o + 1 = Len(g[n]) - (q - 1)
      BY <1>2, <2>1, <2>5
    <3>3. RowEnd(L, c, q - 1) \in Nat
      BY <2>1, <3>2, RowEndIs
    <3>4. v.line = n /\ v.rem = RowEnd(L, c, q - 1)
          /\ v \in [line : Nat, rem : Nat]
      BY <2>1, <2>2, <2>5, <3>3
    <3> HIDE DEF v
    <3>5. WalkAt(g, d, c, v, o + 1)
      BY <1>2, <3>2, <3>4 DEF WalkAt
    <3> QED BY <3>1, <3>4, <3>5
  <2>6. CASE ~(q > 1) /\ n < N
    <3>1. q = 1 /\ n + 1 \in 1..N /\ (n + 1) - 1 = n
      <4> HIDE DEF n, N, L, R
      <4> QED BY <1>0, <2>1, <2>6
    <3>2. Turn(d, c, w) = [line |-> n + 1, rem |-> Len(d[n + 1])]
      BY <2>2, <2>4, <2>6
    <3>3. WalkAt(g, d, c, [line |-> n + 1, rem |-> Len(d[n + 1])], Len(g[n]))
      <4> DEFINE k == n + 1
      <4>1. k \in 1..N /\ k - 1 = n
        BY <3>1
      <4> HIDE DEF k
      <4>2. WalkAt(g, d, c, [line |-> k, rem |-> Len(d[k])], Len(g[k - 1]))
        BY <4>1, WalkEnters
      <4>3. WalkAt(g, d, c, [line |-> k, rem |-> Len(d[k])], Len(g[n]))
        BY <4>1, <4>2
      <4> QED BY <4>3 DEF k
    <3>4. Len(g[n]) = o + 1
      BY <1>2, <2>1, <3>1
    <3>5. Len(d[n + 1]) \in Nat /\ n + 1 \in Nat
      BY <3>1
    <3> QED BY <3>2, <3>3, <3>4, <3>5
  <2>7. CASE ~(q > 1) /\ ~(n < N)
    <3>1. q = 1 /\ n = N
      BY <1>0, <1>2, <2>1, <2>7
    <3> DEFINE v == [line |-> n + 1, rem |-> e]
    <3>2. Turn(d, c, w) = v
      BY <2>2, <2>4, <2>7
    <3>3. o + 1 >= Len(g[N]) /\ Len(g[N]) \in Nat
      BY <1>2, <2>1, <3>1
    <3>4. v \in [line : Nat, rem : Nat] /\ v.line = N + 1
      BY <2>1, <2>2, <3>1
    <3> HIDE DEF v
    <3>5. WalkAt(g, d, c, v, o + 1)
      BY <3>3, <3>4 DEF WalkAt
    <3> QED BY <3>2, <3>4, <3>5
  <2> QED BY <2>5, <2>6, <2>7
<1> QED BY <1>1, <1>2 DEF WalkAt

\* So it is where it should be after any number of turns.
LEMMA WalkSound ==
  ASSUME NEW S, NEW d \in Seq(Seq(S)), d # <<>>, NEW c \in Nat \ {0}, NEW g,
         IsRows(g, S, d, c, Len(d)), NEW o \in Nat, NEW f, IsWalk(f, d, c, o)
  PROVE  f[o] \in [line : Nat, rem : Nat] /\ WalkAt(g, d, c, f[o], o)
<1> DEFINE P(k) == f[k] \in [line : Nat, rem : Nat] /\ WalkAt(g, d, c, f[k], k)
           T == {k \in 0..o : ~P(k)}
<1>1. T = {}
  <2> SUFFICES ASSUME T # {} PROVE FALSE
    OBVIOUS
  <2> HIDE DEF P
  <2>1. T \in SUBSET Nat
    OBVIOUS
  <2>2. PICK m \in T : \A k \in T : m <= k
    BY <2>1, LeastNumber
  <2>3. m \in 0..o /\ ~P(m)
    BY <2>2
  <2>4. CASE m = 0
    <3>1. 1 \in 1..Len(d) /\ 1 - 1 = 0
      OBVIOUS
    <3>2. Len(d[1]) \in Nat
      BY <3>1
    <3>3. WalkAt(g, d, c, [line |-> 1, rem |-> Len(d[1])], Len(g[1 - 1]))
      BY <3>1, WalkEnters
    <3>4. Len(g[1 - 1]) = 0
      BY <3>1 DEF IsRows
    <3>5. f[0] = [line |-> 1, rem |-> Len(d[1])]
      BY DEF IsWalk
    <3>6. P(0)
      BY <3>2, <3>3, <3>4, <3>5 DEF P
    <3> QED BY <2>3, <2>4, <3>6
  <2>5. CASE m # 0
    <3>1. m \in 1..o /\ m - 1 \in 0..o /\ m - 1 \in Nat /\ ~(m <= m - 1)
          /\ (m - 1) + 1 = m
      BY <2>3, <2>5
    <3>2. P(m - 1)
      BY <2>2, <3>1
    <3>3. f[m] = Turn(d, c, f[m - 1])
      BY <3>1 DEF IsWalk
    <3>4. /\ Turn(d, c, f[m - 1]) \in [line : Nat, rem : Nat]
          /\ WalkAt(g, d, c, Turn(d, c, f[m - 1]), (m - 1) + 1)
      BY <3>1, <3>2, TurnSound DEF P
    <3>5. P(m)
      BY <3>1, <3>3, <3>4 DEF P
    <3> QED BY <2>3, <3>5
  <2> QED BY <2>4, <2>5
<1>2. o \in 0..o
  OBVIOUS
<1> HIDE DEF P
<1>3. P(o)
  BY <1>1, <1>2
<1> QED BY <1>3 DEF P

\* acquireRow returns the row with the given offset from the newest, and an
\* empty one when the document has none there.
THEOREM AcquireRowIs ==
  ASSUME NEW S, NEW d \in Seq(Seq(S)), d # <<>>, NEW c \in Nat \ {0}, NEW o \in Int
  PROVE  LET rows == AllRows(d, c)
         IN AcquireRow(d, o, c) =
              IF o \in 0..(Len(rows) - 1) THEN rows[Len(rows) - o] ELSE <<>>
<1> DEFINE N == Len(d)
           A == AllRows(d, c)
<1> SUFFICES AcquireRow(d, o, c) =
               IF o \in 0..(Len(A) - 1) THEN A[Len(A) - o] ELSE <<>>
  OBVIOUS
<1>1. N \in Nat /\ N \in 0..N /\ N \in N..N
  OBVIOUS
<1>2. PICK g : IsRows(g, S, d, c, N)
  BY <1>1, RowsExist
<1>3. A = g[N]
  BY <1>2, AllRowsIs
<1>4. CASE o < 0
  <2>1. AcquireRow(d, o, c) = <<>>
    BY <1>4 DEF AcquireRow
  <2> QED BY <1>4, <2>1
<1>5. CASE ~(o < 0)
  <2>1. o \in Nat
    BY <1>5
  <2>2. PICK f : IsWalk(f, d, c, o) /\ AcquireRow(d, o, c) = RowAt(d, c, f[o])
    BY <2>1, AcquireRowWalks
  <2> DEFINE w == f[o]
  <2>3. w \in [line : Nat, rem : Nat] /\ WalkAt(g, d, c, w, o)
    BY <1>2, <2>1, <2>2, WalkSound
  <2> HIDE DEF w
  <2>4. CASE w.line = N + 1 /\ o >= Len(g[N])
    <3>1. w.line > Len(d)
      BY <1>1, <2>4
    <3>2. RowAt(d, c, w) = <<>>
      BY <3>1 DEF RowAt
    <3>3. g[N] \in Seq(Seq(S))
      BY <1>1, <1>2 DEF IsRows
    <3>4. Len(g[N]) \in Nat
      BY <3>3
    <3>5. ~(o \in 0..(Len(g[N]) - 1))
      BY <2>1, <2>4, <3>4
    <3> QED BY <1>3, <2>2, <3>2, <3>5 DEF w
  <2>5. ASSUME w.line \in 1..N, NEW q \in 1..LineRows(Len(d[w.line]), c),
               w.rem = RowEnd(Len(d[w.line]), c, q), o = Len(g[w.line]) - q
        PROVE  AcquireRow(d, o, c) =
                 IF o \in 0..(Len(A) - 1) THEN A[Len(A) - o] ELSE <<>>
    <3> DEFINE n == w.line
               l == d[n]
               L == Len(l)
               R == LineRows(L, c)
               e == w.rem
               length == IF e % c = 0 THEN c ELSE e % c
    <3>0. n \in 1..N /\ q \in 1..R /\ e = RowEnd(L, c, q) /\ o = Len(g[n]) - q
      BY <2>5
    <3>1. /\ l \in Seq(S) /\ L \in Nat /\ R \in Nat \ {0}
          /\ Len(g[n]) \in Nat /\ Len(g[n - 1]) \in Nat
          /\ Len(g[n]) = R + Len(g[n - 1])
          /\ \A i \in 1..R : g[n][i] = Wrap(l, c)[i]
      <4> HIDE DEF n
      <4> QED BY <1>2, <3>0, RowsOfLine
    <3>2. Wrap(l, c)[q] = SubSeq(l, (q - 1) * c + 1, e)
      <4> HIDE DEF n, l
      <4>1. \A i \in 1..R : Wrap(l, c)[i] = SubSeq(l, (i - 1) * c + 1, RowEnd(L, c, i))
        BY <3>1, WrapIs
      <4> HIDE DEF L, R, e
      <4> QED BY <3>0, <4>1
    <3>3. /\ n \in 0..N /\ N \in n..N /\ q \in 1..R /\ ~(n > N)
      <4> HIDE DEF n, N, R
      <4> QED BY <1>1, <3>0
    <3>4. /\ Len(g[N]) \in Nat /\ Len(g[n]) <= Len(g[N])
          /\ \A i \in 1..Len(g[n]) : g[N][Len(g[N]) - Len(g[n]) + i] = g[n][i]
      <4> HIDE DEF n
      <4>1. \A k \in n..N : LastRows(g, n, k)
        BY <1>2, <3>3, RowsSuffix
      <4> HIDE DEF N
      <4>2. LastRows(g, n, N)
        BY <3>3, <4>1
      <4> QED BY <4>2 DEF LastRows
    <3>5. q \in 1..Len(g[n]) /\ q \in Nat
      <4> HIDE DEF n, l, L, R
      <4> QED BY <3>1, <3>3
    <3>6. o \in 0..(Len(g[N]) - 1) /\ Len(g[N]) - o = Len(g[N]) - Len(g[n]) + q
      <4>1. ASSUME NEW x \in Nat, NEW y \in Nat, x <= y, q \in 1..x, q \in Nat
            PROVE  x - q \in 0..(y - 1) /\ y - (x - q) = y - x + q
        BY <4>1
      <4> HIDE DEF n, N
      <4>2. Len(g[n]) \in Nat /\ Len(g[N]) \in Nat /\ Len(g[n]) <= Len(g[N])
        BY <3>1, <3>4
      <4> QED BY <3>0, <3>5, <4>1, <4>2
    <3>7. A[Len(A) - o] = SubSeq(l, (q - 1) * c + 1, e)
      <4>1. g[N][Len(g[N]) - o] = g[n][q]
        BY <3>4, <3>5, <3>6
      <4>2. g[n][q] = Wrap(l, c)[q]
        BY <3>1, <3>3
      <4> QED BY <1>3, <3>2, <4>1, <4>2
    <3>8. /\ e \in Nat /\ (e = 0 <=> L = 0)
          /\ L # 0 => e - length = (q - 1) * c
      <4> HIDE DEF n, l, L
      <4> DEFINE x == RowEnd(L, c, q)
                 y == IF x % c = 0 THEN c ELSE x % c
      <4>1. x \in Nat /\ (x = 0 <=> L = 0) /\ (L # 0 => x - y = (q - 1) * c)
        BY <3>0, <3>1, RowEndIs
      <4>2. e = x
        BY <3>0
      <4>3. length = y
        BY <4>2
      <4> HIDE DEF x, y, e, length
      <4> QED BY <4>1, <4>2, <4>3
    <3>9. RowAt(d, c, w) = SubSeq(l, (q - 1) * c + 1, e)
      <4>1. CASE e = 0
        <5>1. RowAt(d, c, w) = <<>>
          BY <4>1 DEF RowAt
        <5>2. (q - 1) * c \in Nat
          BY <3>5
        <5> DEFINE z == (q - 1) * c
                   b == z + 1
        <5>3. z \in Nat
          BY <5>2
        <5> HIDE DEF z, e, n
        <5>5. b > e /\ b \in Int
          BY <4>1, <5>3
        <5> HIDE DEF b
        <5>4. SubSeq(l, b, e) = <<>>
          BY <3>1, <3>8, <5>5
        <5> QED BY <5>1, <5>4 DEF b, z
      <4>2. CASE e # 0
        <5>1. RowAt(d, c, w) = SubSeq(l, e - length + 1, e)
          BY <3>3, <4>2 DEF RowAt
        <5>2. e - length = (q - 1) * c
          BY <3>8, <4>2
        <5> HIDE DEF length
        <5> QED BY <5>1, <5>2
      <4> QED BY <4>1, <4>2
    <3> QED BY <1>3, <2>2, <3>6, <3>7, <3>9 DEF w
  <2> QED BY <2>3, <2>4, <2>5 DEF WalkAt
<1> QED BY <1>4, <1>5

\* What the painter shows of a row.
LEMMA PaddedType ==
  ASSUME NEW c \in Nat, NEW row \in Seq(Cells)
  PROVE  Padded(row, c) \in Seq(Cells) /\ Padded(<<>>, c) = Blank(c)
<1>1. Gap \in Cells /\ Len(row) \in Nat
  BY DEF Cells
<1>2. \A x \in 1..c : (IF x <= Len(row) THEN row[x] ELSE Gap) \in Cells
  BY <1>1
<1>3. Padded(row, c) \in Seq(Cells)
  BY <1>2 DEF Padded
<1>4. Padded(<<>>, c) = Blank(c)
  BY DEF Padded, Blank
<1> QED BY <1>3, <1>4

LEMMA AcquireRowType ==
  ASSUME NEW d \in Seq(Seq(Cells)), d # <<>>, NEW c \in Nat \ {0}, NEW o \in Int
  PROVE  AcquireRow(d, o, c) \in Seq(Cells)
<1> DEFINE A == AllRows(d, c)
<1>1. A \in Seq(Seq(Cells)) /\ Len(A) \in Nat
  BY RowCountSound
<1>2. AcquireRow(d, o, c) =
        IF o \in 0..(Len(A) - 1) THEN A[Len(A) - o] ELSE <<>>
  BY AcquireRowIs
<1> HIDE DEF A
<1>3. o \in 0..(Len(A) - 1) => Len(A) - o \in 1..Len(A)
  BY <1>1
<1> QED BY <1>1, <1>2, <1>3
-----------------------------------------------------------------------------
(* The view                                                                *)

PaintPlaces == {"columns", "lines", "place", "short", "scrolled", "rows", "wait"}
Passes == [pc : PaintPlaces, size : Windows, start : Int, y : Nat]

\* The size of the pass is known and the view buffer has it.
Sized == painter.pc \notin {"columns", "lines"}

PaintTypes ==
  /\ painter \in Passes
  /\ painter.pc = "rows" => painter.y < painter.size.rows
  /\ painter.pc = "wait" => painter.y = painter.size.rows
  /\ view.rows \in Nat /\ view.cell \in Seq(Seq(Cells))
  /\ Len(view.cell) = view.rows
  /\ view = [columns |-> view.columns, rows |-> view.rows, max |-> view.max,
             cell |-> view.cell]
  /\ Sized => view.rows = painter.size.rows

\* The view buffer has room for its rows.
ViewInv ==
  /\ view.max \in Nat /\ view.max >= InitialMax
  /\ view.rows * view.columns <= view.max

\* The row of the view that the painter fills from the document.
ShownRow(y) == Padded(AcquireRow(doc, painter.start - y, size.columns),
                      size.columns)

\* What the painter has read in this pass, and the rows it has painted, are
\* current, unless somebody is at work or has left the token for another pass.
PassInv ==
  Quiet /\ ~upToDate =>
    /\ painter.pc # "columns" => painter.size.columns = size.columns
    /\ Sized => painter.size.rows = size.rows
    /\ painter.pc = "short" => documentRows < size.rows
    /\ painter.pc = "scrolled" => ~(documentRows < size.rows)
    /\ painter.pc \in {"rows", "wait"} =>
         /\ painter.start = RenderStart(documentRows, size.rows, scrollY)
         /\ \A y \in 1..painter.y : view.cell[y] = ShownRow(y)

PaintInv == RowTypes /\ PaintTypes /\ ViewInv /\ PassInv

PassVars == <<doc, size, documentRows, scrollY, thread, upToDate>>

\* Sequences of one value, and replacing a value of a sequence.
LEMMA ConstantSeq ==
  ASSUME NEW S, NEW n \in Nat, NEW b \in S
  PROVE  [y \in 1..n |-> b] \in Seq(S) /\ Len([y \in 1..n |-> b]) = n
OBVIOUS

LEMMA ReplaceIs ==
  ASSUME NEW S, NEW s \in Seq(S), NEW k \in 1..Len(s), NEW b \in S
  PROVE  LET t == [s EXCEPT ![k] = b]
         IN /\ t \in Seq(S) /\ Len(t) = Len(s) /\ t[k] = b
            /\ \A i \in 1..Len(s) : i # k => t[i] = s[i]
OBVIOUS

LEMMA SeqFunction ==
  ASSUME NEW S, NEW s \in Seq(S), NEW n, Len(s) = n
  PROVE  s = [y \in 1..n |-> s[y]]
OBVIOUS

LEMMA BlankType == ASSUME NEW c \in Nat PROVE Blank(c) \in Seq(Cells)
BY DEF Blank, Cells

\* What ValidView returns fits, whatever was there before.
LEMMA ValidViewFits ==
  ASSUME ViewInv, NEW s \in Windows
  PROVE  LET w == ValidView(view, s)
         IN /\ w.max \in Nat /\ w.max >= InitialMax
            /\ w.rows * w.columns <= w.max
<1> DEFINE n == s.rows * s.columns
           w == ValidView(view, s)
<1> SUFFICES w.max \in Nat /\ w.max >= InitialMax /\ w.rows * w.columns <= w.max
  OBVIOUS
<1>1. n \in Nat /\ n <= 2 * InitialMax /\ InitialMax \in Nat
  BY ScreenAssumption, WindowType
<1>2. CASE view.columns = s.columns /\ view.rows = s.rows
  BY <1>2 DEF ValidView, ViewInv
<1>3. CASE ~(view.columns = s.columns /\ view.rows = s.rows)
  <2>1. /\ w.rows * w.columns = n
        /\ w.max = IF n > view.max THEN 2 * view.max ELSE view.max
    BY <1>3 DEF ValidView
  <2> HIDE DEF n, w
  <2> QED BY <1>1, <2>1 DEF ViewInv
<1> QED BY <1>2, <1>3

LEMMA ValidViewType ==
  ASSUME PaintTypes, NEW s \in Windows
  PROVE  LET v == ValidView(view, s)
         IN /\ v = [columns |-> v.columns, rows |-> v.rows, max |-> v.max,
                    cell |-> v.cell]
            /\ v.rows = s.rows /\ v.cell \in Seq(Seq(Cells))
            /\ Len(v.cell) = v.rows
<1> DEFINE v == ValidView(view, s)
<1> SUFFICES /\ v = [columns |-> v.columns, rows |-> v.rows, max |-> v.max,
                     cell |-> v.cell]
             /\ v.rows = s.rows /\ v.cell \in Seq(Seq(Cells))
             /\ Len(v.cell) = v.rows
  OBVIOUS
<1>1. CASE view.columns = s.columns /\ view.rows = s.rows
  <2>1. v = view
    BY <1>1 DEF ValidView
  <2> HIDE DEF v
  <2> QED BY <1>1, <2>1 DEF PaintTypes
<1>2. CASE ~(view.columns = s.columns /\ view.rows = s.rows)
  <2> DEFINE m == IF s.rows * s.columns > view.max THEN 2 * view.max ELSE view.max
             z == [y \in 1..s.rows |-> Blank(s.columns)]
  <2>1. v = [columns |-> s.columns, rows |-> s.rows, max |-> m, cell |-> z]
    BY <1>2, Zenon DEF ValidView
  <2>2. s.rows \in Nat /\ s.columns \in Nat
    BY WindowType
  <2>3. Blank(s.columns) \in Seq(Cells)
    BY <2>2, BlankType
  <2>4. z \in Seq(Seq(Cells)) /\ Len(z) = s.rows
    BY <2>2, <2>3, ConstantSeq
  <2> HIDE DEF v, m, z
  <2> QED BY <2>1, <2>4
<1> QED BY <1>1, <1>2

LEMMA PaintInit == Init => PaintInv
<1> SUFFICES ASSUME Init PROVE PaintInv
  OBVIOUS
<1>1. RowTypes
  BY RowInit DEF RowInv
<1>2. painter = [pc |-> "columns", size |-> size, start |-> 0, y |-> 0]
      /\ size \in Windows
  BY <1>1 DEF Init, RowTypes
<1>3. view = [columns |-> 0, rows |-> 0, max |-> InitialMax, cell |-> <<>>]
  BY DEF Init
<1>4. PaintTypes
  BY <1>2, <1>3 DEF PaintTypes, Sized, Passes, PaintPlaces
<1>5. PassInv
  BY <1>2 DEF PassInv, Sized
<1>6. ViewInv
  BY <1>3, ScreenAssumption DEF ViewInv
<1> QED BY <1>1, <1>4, <1>5, <1>6 DEF PaintInv

\* Whoever is not the painter leaves its state alone; at the end of what he
\* does he leaves the token, and until then he is at work.
LEMMA OthersPaint ==
  ASSUME PaintInv, UNCHANGED <<painter, view>>,
         upToDate' \/ ~Quiet' \/ UNCHANGED PassVars
  PROVE  PaintTypes' /\ ViewInv' /\ PassInv'
<1>1. PaintTypes' /\ ViewInv'
  BY DEF PaintInv, PaintTypes, ViewInv, Sized
<1>2. CASE upToDate' \/ ~Quiet'
  BY <1>1, <1>2 DEF PassInv
<1>3. CASE UNCHANGED PassVars
  BY <1>1, <1>3 DEF PassVars, PaintInv, PassInv, Quiet, ShownRow, Sized
<1> QED BY <1>1, <1>2, <1>3

\* A thread that starts, or goes on to a place, is at work.
LEMMA EnterWorks ==
  ASSUME RowTypes, NEW t \in Threads, NEW what, NEW pc, NEW n, pc # "idle",
         Enter(t, what, pc, n)
  PROVE  ~Quiet'
BY DEF RowTypes, Enter, Quiet

LEMMA GoesOn ==
  ASSUME RowTypes, NEW t \in Threads, NEW pc, NEW n, pc # "idle", GoTo(t, pc, n)
  PROVE  ~Quiet'
BY DEF RowTypes, States, GoTo, Quiet

\* The steps of the others.
LEMMA WriterStep ==
  ASSUME RowTypes, Writer
  PROVE  UNCHANGED <<painter, view>> /\ (upToDate' \/ ~Quiet')
<1>0. "writer" \in Threads
  BY DEF Threads
<1>1. ASSUME NEW c \in Chars \cup {Newline}, WriteChar(c)
      PROVE  UNCHANGED <<painter, view>> /\ ~Quiet'
  <2>1. Enter("writer", c, "count", 0) /\ UNCHANGED <<painter, view>>
    BY <1>1 DEF WriteChar, picture
  <2> QED BY <1>0, <2>1, EnterWorks
<1>2. ASSUME NEW b \in {0, 1}, RemoveChar(b)
      PROVE  UNCHANGED <<painter, view>> /\ ~Quiet'
  <2>1. Enter("writer", "removed", "count", 0) /\ UNCHANGED <<painter, view>>
    BY <1>2 DEF RemoveChar, picture
  <2> QED BY <1>0, <2>1, EnterWorks
<1>3. ASSUME NEW x \in 0..1, NEW y \in 0..MaxOps, SetCursor(x, y)
      PROVE  UNCHANGED <<painter, view>> /\ upToDate'
  BY <1>3 DEF SetCursor, picture
<1>4. ASSUME Clean PROVE UNCHANGED <<painter, view>> /\ ~Quiet'
  <2>1. Enter("writer", "removed", "count", 0) /\ UNCHANGED <<painter, view>>
    BY <1>4 DEF Clean, picture
  <2> QED BY <1>0, <2>1, EnterWorks
<1>5. ASSUME NEW v \in {0} \cup (Scrolls \cap Nat), SetScrollArea(v)
      PROVE  UNCHANGED <<painter, view>> /\ ~Quiet'
  <2>1. Enter("writer", "scroll", "set", v) /\ UNCHANGED <<painter, view>>
    BY <1>5 DEF SetScrollArea, picture
  <2> QED BY <1>0, <2>1, EnterWorks
<1> QED BY <1>1, <1>2, <1>3, <1>4, <1>5 DEF Writer

LEMMA ResizesStep ==
  ASSUME RowTypes, (\E s \in Sizes : Resize(s)) \/ ResizeRows
  PROVE  UNCHANGED <<painter, view>> /\ ~Quiet'
<1>0. "event" \in Threads
  BY DEF Threads
<1>1. ASSUME NEW s \in Sizes, Resize(s)
      PROVE  UNCHANGED <<painter, view>> /\ ~Quiet'
  <2>1. Enter("event", "resized", "bounds", s.rows) /\ UNCHANGED <<painter, view>>
    BY <1>1 DEF Resize, picture
  <2> QED BY <1>0, <2>1, EnterWorks
<1>2. ASSUME ResizeRows PROVE UNCHANGED <<painter, view>> /\ ~Quiet'
  <2>1. GoTo("event", "count", 0) /\ UNCHANGED <<painter, view>>
    BY <1>2 DEF ResizeRows, picture
  <2> QED BY <1>0, <2>1, GoesOn
<1> QED BY <1>1, <1>2

LEMMA SectionStep ==
  ASSUME RowTypes, NEW t \in Threads, Section(t)
  PROVE  UNCHANGED <<painter, view>> /\ (upToDate' \/ ~Quiet')
<1>1. ASSUME NEW v \in Scrolls, Scroll(t, v)
      PROVE  UNCHANGED <<painter, view>> /\ ~Quiet'
  <2>1. Enter(t, "scroll", "set", scrollY + v) /\ UNCHANGED <<painter, view>>
    BY <1>1 DEF Scroll, picture
  <2> QED BY <2>1, EnterWorks
<1>2. ASSUME NEW pc, NEW n, pc # "idle", GoTo(t, pc, n), UNCHANGED picture
      PROVE  UNCHANGED <<painter, view>> /\ ~Quiet'
  BY <1>2, GoesOn DEF picture
<1>3. CASE CountRows(t)
  BY <1>2, <1>3 DEF CountRows
<1>4. CASE StoreRows(t)
  BY <1>2, <1>4 DEF StoreRows
<1>5. CASE StoreScroll(t)
  BY <1>2, <1>5 DEF StoreScroll
<1>6. CASE ViewRows(t)
  BY <1>2, <1>6 DEF ViewRows
<1>7. CASE NormalizeTests(t)
  <2>1. GoTo(t, NormalizeTest(thread[t].pc, scrollY, documentRows, thread[t].n),
             thread[t].n) /\ UNCHANGED picture
    BY <1>7 DEF NormalizeTests
  <2>2. NormalizeTest(thread[t].pc, scrollY, documentRows, thread[t].n)
          \in {"setAbove", "fits", "high", "setZero", "setHigh", "low", "setLow", "end"}
    BY DEF NormalizeTest
  <2>3. NormalizeTest(thread[t].pc, scrollY, documentRows, thread[t].n) # "idle"
    BY <2>2
  <2> QED BY <1>2, <2>1, <2>3
<1>8. CASE NormalizeStores(t)
  <2>1. PICK pc \in {"fits", "end"} : GoTo(t, pc, thread[t].n)
    BY <1>8 DEF NormalizeStores
  <2> QED BY <1>2, <1>8, <2>1 DEF NormalizeStores
<1>9. CASE Leave(t)
  BY <1>9 DEF Leave, picture
<1> QED BY <1>1, <1>3, <1>4, <1>5, <1>6, <1>7, <1>8, <1>9 DEF Section

\* The painter's loads: a pass goes on, with what it has read last.
LEMMA PaintMoves ==
  ASSUME PaintTypes, NEW pc \in PaintPlaces \ {"wait"}, NEW s \in Windows,
         NEW n \in Int, NEW y \in Nat,
         painter' = [painter EXCEPT !.pc = pc, !.size = s, !.start = n, !.y = y]
  PROVE  /\ painter' \in Passes /\ painter'.pc = pc /\ painter'.size = s
         /\ painter'.start = n /\ painter'.y = y
BY DEF PaintTypes, Passes

LEMMA PaintColumnsStep ==
  ASSUME PaintInv, PaintColumns PROVE PaintTypes' /\ ViewInv' /\ PassInv'
<1> DEFINE s == [painter.size EXCEPT !.columns = size.columns]
<1>1. /\ painter.size \in Windows /\ size \in Windows /\ painter \in Passes
      /\ UNCHANGED PassVars /\ UNCHANGED view
  BY DEF PaintColumns, PaintInv, PaintTypes, RowTypes, Passes, PassVars, work
<1>2. s \in Windows
  BY <1>1, WindowMixed
<1>3. s.columns = size.columns
  BY <1>1 DEF Windows
<1>4. painter' = [painter EXCEPT !.pc = "lines", !.size = s]
  BY <1>1 DEF PaintColumns, Passes
<1> HIDE DEF s
<1>5. painter' \in Passes /\ painter'.pc = "lines" /\ painter'.size = s
  BY <1>1, <1>2, <1>4 DEF Passes, PaintPlaces
<1>6. PaintTypes' /\ ViewInv'
  BY <1>1, <1>5 DEF PaintInv, PaintTypes, ViewInv, Sized
<1>7. PassInv'
  BY <1>1, <1>3, <1>5 DEF PassInv, PassVars, Sized
<1> QED BY <1>6, <1>7

LEMMA PaintLinesStep ==
  ASSUME PaintInv, PaintLines PROVE PaintTypes' /\ ViewInv' /\ PassInv'
<1> DEFINE s == [painter.size EXCEPT !.rows = size.rows]
<1>1. /\ painter.size \in Windows /\ size \in Windows /\ painter \in Passes
      /\ painter.pc = "lines" /\ UNCHANGED PassVars
  BY DEF PaintLines, PaintInv, PaintTypes, RowTypes, Passes, PassVars, work
<1>2. s \in Windows
  BY <1>1, WindowMixed
<1>3. s.rows = size.rows /\ s.columns = painter.size.columns
  BY <1>1 DEF Windows
<1>4. /\ painter' = [painter EXCEPT !.pc = "place", !.size = s]
      /\ view' = ValidView(view, s)
  BY DEF PaintLines
<1> HIDE DEF s
<1>5. painter' \in Passes /\ painter'.pc = "place" /\ painter'.size = s
  BY <1>1, <1>2, <1>4 DEF Passes, PaintPlaces
<1>6. /\ view' = [columns |-> view'.columns, rows |-> view'.rows,
                  max |-> view'.max, cell |-> view'.cell]
      /\ view'.rows = s.rows /\ view'.cell \in Seq(Seq(Cells))
      /\ Len(view'.cell) = view'.rows
  BY <1>2, <1>4, ValidViewType DEF PaintInv
<1>7. s.rows \in Nat
  BY <1>2, WindowType
<1>8. PaintTypes'
  BY <1>5, <1>6, <1>7 DEF PaintTypes, Sized
<1>9. ViewInv'
  BY <1>2, <1>4, ValidViewFits DEF PaintInv, ViewInv
<1>10. PassInv'
  <2> SUFFICES ASSUME Quiet', ~upToDate'
               PROVE  s.columns = size.columns
    BY <1>1, <1>3, <1>5 DEF PassInv, PassVars, Sized
  <2>1. Quiet /\ ~upToDate
    BY <1>1 DEF Quiet, PassVars
  <2> QED BY <1>1, <1>3, <2>1 DEF PaintInv, PassInv
<1> QED BY <1>8, <1>9, <1>10

LEMMA PaintPlaceStep ==
  ASSUME PaintInv, PaintPlace PROVE PaintTypes' /\ ViewInv' /\ PassInv'
<1> DEFINE pc == IF documentRows < painter.size.rows THEN "short" ELSE "scrolled"
<1>1. /\ painter \in Passes /\ painter.pc = "place"
      /\ UNCHANGED PassVars /\ UNCHANGED view
  BY DEF PaintPlace, PaintInv, PaintTypes, PassVars, work
<1>2. painter' = [painter EXCEPT !.pc = pc] /\ pc \in {"short", "scrolled"}
  BY DEF PaintPlace
<1>3. /\ pc = "short" => documentRows < painter.size.rows
      /\ pc = "scrolled" => ~(documentRows < painter.size.rows)
  OBVIOUS
<1> HIDE DEF pc
<1>4. painter' \in Passes /\ painter'.pc = pc /\ painter'.size = painter.size
  BY <1>1, <1>2 DEF Passes, PaintPlaces
<1>5. PaintTypes' /\ ViewInv'
  BY <1>1, <1>2, <1>4 DEF PaintInv, PaintTypes, ViewInv, Sized
<1>6. PassInv'
  BY <1>1, <1>2, <1>3, <1>4 DEF PaintInv, PassInv, PassVars, Quiet, Sized
<1> QED BY <1>5, <1>6

LEMMA PaintStartStep ==
  ASSUME PaintInv, PaintStart PROVE PaintTypes' /\ ViewInv' /\ PassInv'
<1> DEFINE start == IF painter.pc = "short" THEN documentRows
                    ELSE painter.size.rows + scrollY
<1>1. /\ painter \in Passes /\ painter.pc \in {"short", "scrolled"}
      /\ painter.size \in Windows /\ documentRows \in Int /\ scrollY \in Int
      /\ UNCHANGED PassVars /\ UNCHANGED view
  BY DEF PaintStart, PaintInv, PaintTypes, PassVars, work, RowTypes, Passes
<1>2. painter.size.rows \in Nat \ {0}
  BY <1>1, WindowType
<1>3. start \in Int
  BY <1>1, <1>2
<1>4. painter' = [painter EXCEPT !.pc = "rows", !.y = 0, !.start = start]
  BY DEF PaintStart
<1>5. ASSUME Quiet, ~upToDate
      PROVE  start = RenderStart(documentRows, size.rows, scrollY)
  BY <1>1, <1>5 DEF PaintInv, PassInv, Sized, RenderStart
<1> HIDE DEF start
<1>6. /\ painter' \in Passes /\ painter'.pc = "rows" /\ painter'.y = 0
      /\ painter'.size = painter.size /\ painter'.start = start
  BY <1>1, <1>3, <1>4 DEF Passes, PaintPlaces
<1>7. PaintTypes' /\ ViewInv'
  <2>1. painter'.y < painter'.size.rows /\ Sized
    BY <1>1, <1>2, <1>6 DEF Sized
  <2> QED BY <1>1, <1>6, <2>1 DEF PaintInv, PaintTypes, ViewInv, Sized
<1>8. PassInv'
  <2> SUFFICES ASSUME Quiet', ~upToDate'
               PROVE  /\ painter'.size.columns = size'.columns
                      /\ painter'.size.rows = size'.rows
                      /\ start = RenderStart(documentRows', size'.rows, scrollY')
    BY <1>6 DEF PassInv, Sized
  <2>1. Quiet /\ ~upToDate
    BY <1>1 DEF Quiet, PassVars
  <2> QED BY <1>1, <1>5, <1>6, <2>1 DEF PaintInv, PassInv, PassVars, Sized
<1> QED BY <1>7, <1>8

LEMMA PaintRowStep ==
  ASSUME PaintInv, PaintRow
  PROVE  PaintTypes' /\ ViewInv' /\ PassInv'
<1> DEFINE y == painter.y
           columns == painter.size.columns
           row == Padded(AcquireRow(doc, painter.start - y - 1, columns), columns)
<1>1. /\ painter.pc = "rows" /\ y \in Nat /\ painter.start \in Int
      /\ painter.size \in Windows /\ y < painter.size.rows
      /\ view.rows = painter.size.rows /\ view.rows \in Nat
      /\ view.cell \in Seq(Seq(Cells)) /\ Len(view.cell) = view.rows
      /\ doc \in Seq(Seq(Cells)) /\ doc # <<>>
  BY DEF PaintRow, PaintInv, PaintTypes, Passes, Sized, RowTypes
<1>2. columns \in Nat \ {0} /\ painter.size.rows \in Nat \ {0}
  BY <1>1, WindowType
<1>3. /\ view' = [view EXCEPT !.cell[y + 1] = row]
      /\ painter' = [painter EXCEPT
           !.y = y + 1,
           !.pc = IF y + 1 = painter.size.rows THEN "wait" ELSE "rows"]
      /\ UNCHANGED PassVars
  BY DEF PaintRow, PassVars, work
<1>4. row \in Seq(Cells)
  <2>1. painter.start - y - 1 \in Int
    BY <1>1
  <2>2. AcquireRow(doc, painter.start - y - 1, columns) \in Seq(Cells)
    BY <1>1, <1>2, <2>1, AcquireRowType
  <2> QED BY <1>2, <2>2, PaddedType
<1>5. /\ painter' \in Passes
      /\ painter'.size = painter.size /\ painter'.start = painter.start
      /\ painter'.y = y + 1
      /\ painter'.pc = IF y + 1 = painter.size.rows THEN "wait" ELSE "rows"
  <2> DEFINE x == IF y + 1 = painter.size.rows THEN "wait" ELSE "rows"
  <2>1. x \in PaintPlaces /\ y + 1 \in Nat
    BY <1>1 DEF PaintPlaces
  <2>2. painter' = [painter EXCEPT !.y = y + 1, !.pc = x] /\ painter \in Passes
    BY <1>3 DEF PaintInv, PaintTypes
  <2> HIDE DEF x
  <2>3. /\ painter' \in Passes
        /\ painter'.size = painter.size /\ painter'.start = painter.start
        /\ painter'.y = y + 1 /\ painter'.pc = x
    BY <2>1, <2>2 DEF Passes
  <2> QED BY <2>3 DEF x
<1> HIDE DEF row
<1>6. /\ view' = [columns |-> view'.columns, rows |-> view'.rows,
                  max |-> view'.max, cell |-> view'.cell]
      /\ view'.rows = view.rows
      /\ view'.cell = [view.cell EXCEPT ![y + 1] = row]
  BY <1>3 DEF PaintInv, PaintTypes
<1>7. /\ view'.cell \in Seq(Seq(Cells)) /\ Len(view'.cell) = view.rows
      /\ view'.cell[y + 1] = row
      /\ \A i \in 1..y : view'.cell[i] = view.cell[i]
  <2>1. y + 1 \in 1..Len(view.cell)
        /\ \A i \in 1..y : i \in 1..Len(view.cell) /\ i # y + 1
    <3>1. ASSUME NEW k \in Nat, NEW n \in Nat, k < n
          PROVE  k + 1 \in 1..n /\ \A i \in 1..k : i \in 1..n /\ i # k + 1
      BY <3>1
    <3>2. y \in Nat /\ Len(view.cell) \in Nat /\ y < Len(view.cell)
      BY <1>1
    <3> HIDE DEF y
    <3> QED BY <3>1, <3>2
  <2> DEFINE z == view.cell
             t == [z EXCEPT ![y + 1] = row]
  <2>2. z \in Seq(Seq(Cells)) /\ y + 1 \in 1..Len(z)
    BY <1>1, <2>1
  <2> HIDE DEF z
  <2>3. /\ t \in Seq(Seq(Cells)) /\ Len(t) = Len(z) /\ t[y + 1] = row
        /\ \A i \in 1..Len(z) : i # y + 1 => t[i] = z[i]
    BY <1>4, <2>2, ReplaceIs
  <2>4. view'.cell = t
    BY <1>6 DEF z
  <2> HIDE DEF t
  <2> QED BY <1>1, <2>1, <2>3, <2>4 DEF z
<1>8. PaintTypes'
  <2>1. painter'.pc = "rows" => painter'.y < painter'.size.rows
    BY <1>1, <1>2, <1>5
  <2>2. painter'.pc = "wait" => painter'.y = painter'.size.rows
    BY <1>5
  <2> QED BY <1>1, <1>5, <1>6, <1>7, <2>1, <2>2 DEF PaintTypes, Sized
<1>9. ViewInv'
  <2>1. view'.max = view.max /\ view'.columns = view.columns
    BY <1>3 DEF PaintInv, PaintTypes
  <2> QED BY <1>6, <2>1 DEF PaintInv, ViewInv
<1>10. PassInv'
  <2> SUFFICES ASSUME Quiet', ~upToDate'
               PROVE  /\ painter'.size.columns = size'.columns
                      /\ painter'.size.rows = size'.rows
                      /\ painter'.start = RenderStart(documentRows', size'.rows, scrollY')
                      /\ \A i \in 1..painter'.y : view'.cell[i] = ShownRow(i)'
    BY <1>5 DEF PassInv, Sized
  <2>1. Quiet /\ ~upToDate
    BY <1>3 DEF Quiet, PassVars
  <2>2. /\ columns = size.columns /\ painter.size.rows = size.rows
        /\ painter.start = RenderStart(documentRows, size.rows, scrollY)
        /\ \A i \in 1..y : view.cell[i] = ShownRow(i)
    BY <1>1, <2>1 DEF PaintInv, PassInv, Sized
  <2>3. \A i \in Int : ShownRow(i)' = ShownRow(i)
    BY <1>3, <1>5 DEF ShownRow, PassVars
  <2>4. row = ShownRow(y + 1)
    <3>1. painter.start - y - 1 = painter.start - (y + 1)
      BY <1>1
    <3> QED BY <2>2, <3>1 DEF row, ShownRow
  <2>5. ASSUME NEW i \in 1..(y + 1) PROVE view'.cell[i] = ShownRow(i)'
    <3>0. i \in Int
      BY <1>1
    <3>1. CASE i = y + 1
      BY <1>7, <2>3, <2>4, <3>0, <3>1
    <3>2. CASE i # y + 1
      <4>1. i \in 1..y
        <5> HIDE DEF y
        <5> QED BY <1>1, <3>2
      <4> QED BY <1>7, <2>2, <2>3, <3>0, <4>1
    <3> QED BY <3>1, <3>2
  <2> QED BY <1>3, <1>5, <2>2, <2>5 DEF PassVars
<1> QED BY <1>8, <1>9, <1>10

LEMMA PaintWaitStep ==
  ASSUME PaintInv, PaintWait
  PROVE  PaintTypes' /\ ViewInv' /\ PassInv'
<1>1. /\ painter.size \in Windows /\ UNCHANGED view
      /\ painter' = [pc |-> "columns", size |-> painter.size, start |-> 0, y |-> 0]
  BY DEF PaintWait, PaintInv, PaintTypes, Passes
<1>2. painter' \in Passes /\ painter'.pc = "columns"
  BY <1>1 DEF Passes, PaintPlaces
<1>3. PaintTypes' /\ ViewInv'
  BY <1>1, <1>2 DEF PaintInv, PaintTypes, ViewInv, Sized
<1>4. PassInv'
  BY <1>2 DEF PassInv, Sized
<1> QED BY <1>3, <1>4

LEMMA PaintNext ==
  ASSUME PaintInv, RowTypes', [Next]_vars PROVE PaintInv'
<1>1. RowTypes
  BY DEF PaintInv
<1>2. ASSUME Painter PROVE PaintTypes' /\ ViewInv' /\ PassInv'
  BY <1>2, PaintColumnsStep, PaintLinesStep, PaintPlaceStep, PaintStartStep,
     PaintRowStep, PaintWaitStep, Zenon DEF Painter
<1>3. CASE UNCHANGED vars
  <2>1. UNCHANGED <<painter, view>> /\ UNCHANGED PassVars
    BY <1>3 DEF vars, PassVars
  <2> QED BY <2>1, OthersPaint DEF PaintInv
<1>4. CASE UNCHANGED <<painter, view>> /\ (upToDate' \/ ~Quiet')
  BY <1>4, OthersPaint DEF PaintInv
<1>5. CASE Writer
  BY <1>1, <1>4, <1>5, WriterStep
<1>6. CASE (\E s \in Sizes : Resize(s)) \/ ResizeRows
  BY <1>1, <1>4, <1>6, ResizesStep
<1>7. CASE \E t \in Threads : Section(t)
  BY <1>1, <1>4, <1>7, SectionStep
<1>8. CASE Painter
  BY <1>2, <1>8 DEF PaintInv
<1> QED BY <1>3, <1>5, <1>6, <1>7, <1>8 DEF Next

LEMMA PaintAlways == Spec => []PaintInv
<1>1. RowInv => RowTypes
  BY DEF RowInv
<1>2. PaintInv /\ RowTypes' /\ [Next]_vars => PaintInv'
  BY PaintNext, Zenon
<1> QED BY <1>1, <1>2, PaintInit, RowAlways, PTL DEF Spec

\* The painter never writes behind its view buffer, for every set of window
\* sizes within ViewAssumption, even if it reads the width of one size and the
\* height of another (paint of gui_screen.cpp).
THEOREM ViewFitsHolds == Spec => []ViewFits
<1>1. PaintInv => ViewFits
  BY DEF PaintInv, ViewInv, ViewFits
<1> QED BY <1>1, PaintAlways, PTL

\* When the painter has nothing left to do, its view shows the rows of the
\* document that the cached count and the scroll position call for, for every
\* document and set of window sizes and however the writes, scrolls and resizes
\* fell between the painter's unlocked loads and the rows of its passes
\* (acquireRow of terminal_document.cpp, paint and repaint of gui_screen.cpp).
THEOREM ViewCurrentHolds == Spec => []ViewCurrent
<1>1. PaintInv => ViewCurrent
  <2> SUFFICES ASSUME PaintInv, Quiet, painter.pc = "wait", ~upToDate
               PROVE  ViewCurrent
    BY DEF ViewCurrent
  <2> DEFINE rows == AllRows(doc, size.columns)
             columns == size.columns
             start == RenderStart(documentRows, size.rows, scrollY)
             Shown(y) == IF start - y \in 0..(Total - 1)
                         THEN Padded(rows[Total - (start - y)], columns)
                         ELSE Blank(columns)
  <2>1. /\ size \in Windows /\ doc \in Seq(Seq(Cells)) /\ doc # <<>>
        /\ columns \in Nat \ {0} /\ size.rows \in Nat \ {0}
        /\ scrollY \in Int /\ documentRows \in Int
    BY WindowType DEF PaintInv, RowTypes
  <2>2. start \in Int
    BY <2>1 DEF RenderStart
  <2>3. /\ painter.start = start
        /\ \A y \in 1..size.rows : view.cell[y] = ShownRow(y)
        /\ view.cell \in Seq(Seq(Cells)) /\ Len(view.cell) = size.rows
    BY DEF PaintInv, PaintTypes, PassInv, Sized
  <2> HIDE DEF start
  <2>4. ASSUME NEW y \in 1..size.rows PROVE view.cell[y] = Shown(y)
    <3> DEFINE o == start - y
    <3>1. o \in Int
      BY <2>1, <2>2
    <3>2. view.cell[y] = Padded(AcquireRow(doc, o, columns), columns)
      BY <2>3 DEF ShownRow
    <3> HIDE DEF o
    <3>3. AcquireRow(doc, o, columns) =
            IF o \in 0..(Total - 1) THEN rows[Total - o] ELSE <<>>
      BY <2>1, <3>1, AcquireRowIs DEF Total
    <3>4. Padded(<<>>, columns) = Blank(columns)
      <4>1. <<>> \in Seq(Cells)
        OBVIOUS
      <4> QED BY <2>1, <4>1, PaddedType
    <3>5. view.cell[y] = IF o \in 0..(Total - 1) THEN Padded(rows[Total - o], columns)
                         ELSE Blank(columns)
      BY <3>2, <3>3, <3>4
    <3> QED BY <3>5 DEF o
  <2>5. view.cell = [y \in 1..size.rows |-> Shown(y)]
    <3>1. view.cell = [y \in 1..size.rows |-> view.cell[y]]
      BY <2>3, SeqFunction
    <3> HIDE DEF Shown
    <3> QED BY <2>4, <3>1, Zenon
  <2> QED BY <2>5, Zenon DEF ViewCurrent, start
<1> QED BY <1>1, PaintAlways, PTL
=============================================================================
