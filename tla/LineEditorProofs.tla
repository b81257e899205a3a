-------------------------- MODULE LineEditorProofs --------------------------
(***************************************************************************)
(* Proofs about LineEditor, for every alphabet, every number of keys and   *)
(* every size of the library's buffer: the commands are those typed, the   *)
(* screen shows the line that is edited, and every query gets its own      *)
(* answer.  The one hypothesis is about the file names that complete a     *)
(* word, which are external (CompletionsAreNames).                         *)
(*                                                                         *)
(* The three properties speak of the moments when both pipes are empty, so *)
(* none is inductive.  EditorInv says what the bytes on their way will do: *)
(* Does(s, l, x, m, y), that output s takes a screen with line l and the   *)
(* cursor at x to one with line m and the cursor at y; Pipes, that the     *)
(* output leads to the screen the editor has in mind, and that the input   *)
(* holds whole keys, and the answer to the query at that screen's cursor;  *)
(* Follows, that the keys not yet handled lead from the line to the        *)
(* reference.  Run(kind, a, s, b), one notion for the terminal, the        *)
(* numbers of a sequence, the keys in a pipe and the reference, says that  *)
(* reading s leads from a to b.                                            *)
(*                                                                         *)
(* Once a line had a character that the terminal ignores, nothing is known *)
(* of the line on the screen (Lost) but that queries are still answered.   *)
(***************************************************************************)
EXTENDS LineEditor, FiniteSetTheorems, SequenceTheorems, NaturalsInduction,
        WellFoundedInduction, TLAPS

\* The names of files that complete a word: finitely many, each the word and
\* what follows it, in characters that the terminal prints (gshAutocomplete).
Completing(texts) ==
  /\ Letters \subseteq texts
  /\ texts \cap {ESC, Tab, Return, Newline} = {}
  /\ \A w \in Seq(texts) :
       /\ IsFiniteSet(Completions(w))
       /\ \A c \in Completions(w) : c \in Seq(texts) /\ Len(c) >= Len(w)
CompletionsAreNames == \E texts : Completing(texts)

\* The characters of a line.
Texts == CHOOSE texts : Completing(texts)

\* The characters that the screen shows, and that stand in the pipes.
Plain == Texts \ Ignored
Printed == Plain \cup {"p", ">"}
Marks == {ESC, "[", "{", ";", "R", "f", "D", "C", "n", "J", "m", "e", "x",
          "sub", "high", Newline}
Chars == Texts \cup {"p", ">"} \cup Keys \cup Marks \cup Digits

\* A newest line of which nothing is known: no line has a newline in it.
Lost == <<Newline>>

(***************************************************************************)
(* Arithmetic and sequences                                                *)
(***************************************************************************)

\* Every set of numbers that is not empty has a least one.
LEMMA LeastNumber ==
  ASSUME NEW T \in SUBSET Nat, T # {}
  PROVE  \E m \in T : \A k \in T : m <= k
<1>1. PICK m \in T : \A k \in T : ~ (<<k, m>> \in OpToRel(<, Nat))
  BY NatLessThanWellFounded, WFMin
<1>2. \A k \in T : ~(k < m)
  BY <1>1 DEF OpToRel
<1> QED BY <1>2

\* A sequence of one element.
LEMMA OneSeq ==
  ASSUME NEW S, NEW c \in S
  PROVE  <<c>> \in Seq(S) /\ Len(<<c>>) = 1 /\ <<c>>[1] = c
OBVIOUS

\* The first n elements of a sequence, and the others.
LEMMA SplitSeq ==
  ASSUME NEW S, NEW s \in Seq(S), NEW n \in 0 .. Len(s)
  PROVE  /\ SubSeq(s, 1, n) \in Seq(S) /\ SubSeq(s, n + 1, Len(s)) \in Seq(S)
         /\ Len(SubSeq(s, 1, n)) = n /\ Len(SubSeq(s, n + 1, Len(s))) = Len(s) - n
         /\ \A i \in 1 .. n : SubSeq(s, 1, n)[i] = s[i]
         /\ \A i \in 1 .. Len(s) - n : SubSeq(s, n + 1, Len(s))[i] = s[n + i]
         /\ s = SubSeq(s, 1, n) \o SubSeq(s, n + 1, Len(s))
<1>0. Len(s) \in Nat /\ n \in Nat /\ n <= Len(s)
  BY LenProperties
<1>1. \A i \in 1 .. Len(s) : s[i] \in S
  BY ElementOfSeq
<1>2. \A i \in 1 .. n : s[i] \in S
  BY <1>0, <1>1
<1>3. \A i \in n + 1 .. Len(s) : s[i] \in S
  BY <1>0, <1>1
<1> DEFINE a == SubSeq(s, 1, n)
           b == SubSeq(s, n + 1, Len(s))
<1>4. a \in Seq(S) /\ Len(a) = (IF 1 <= n THEN n - 1 + 1 ELSE 0)
      /\ \A i \in 1 .. n - 1 + 1 : a[i] = s[1 + i - 1]
  BY <1>0, <1>2, SubSeqProperties
<1>5. b \in Seq(S) /\ Len(b) = (IF n + 1 <= Len(s) THEN Len(s) - (n + 1) + 1 ELSE 0)
      /\ \A i \in 1 .. Len(s) - (n + 1) + 1 : b[i] = s[n + 1 + i - 1]
  BY <1>0, <1>3, SubSeqProperties
<1>6. Len(a) = n /\ \A i \in 1 .. n : a[i] = s[i]
  BY <1>0, <1>4
<1>7. Len(b) = Len(s) - n /\ \A i \in 1 .. Len(s) - n : b[i] = s[n + i]
  BY <1>0, <1>5
<1> HIDE DEF a, b
<1>8. a \o b \in Seq(S) /\ Len(a \o b) = Len(s)
      /\ \A i \in 1 .. Len(s) : (a \o b)[i] = IF i <= n THEN a[i] ELSE b[i - n]
  <2>1. a \o b \in Seq(S) /\ Len(a \o b) = Len(a) + Len(b)
        /\ \A i \in 1 .. Len(a) + Len(b) :
             (a \o b)[i] = IF i <= Len(a) THEN a[i] ELSE b[i - Len(a)]
    BY <1>4, <1>5, ConcatProperties
  <2>2. Len(a) + Len(b) = Len(s) /\ Len(a) = n
    BY <1>0, <1>6, <1>7
  <2> QED BY <2>1, <2>2
<1>9. \A i \in 1 .. Len(s) : (a \o b)[i] = s[i]
  <2> TAKE i \in 1 .. Len(s)
  <2>1. CASE i <= n
    BY <1>0, <1>6, <1>8, <2>1
  <2>2. CASE ~(i <= n)
    <3>1. i - n \in 1 .. Len(s) - n /\ n + (i - n) = i
      BY <1>0, <2>2
    <3> QED BY <1>7, <1>8, <2>2, <3>1
  <2> QED BY <2>1, <2>2
<1>10. s = a \o b
  BY <1>8, <1>9, SeqEqual
<1> QED BY <1>4, <1>5, <1>6, <1>7, <1>10 DEF a, b

\* Both parts of a sequence that was put together.
LEMMA SplitConcat ==
  ASSUME NEW S, NEW a \in Seq(S), NEW b \in Seq(S)
  PROVE  /\ SubSeq(a \o b, 1, Len(a)) = a
         /\ SubSeq(a \o b, Len(a) + 1, Len(a \o b)) = b
<1>1. a \o b \in Seq(S) /\ Len(a \o b) = Len(a) + Len(b) /\ Len(a) \in Nat /\ Len(b) \in Nat
  BY ConcatProperties, LenProperties
<1>2. \A i \in 1 .. Len(a) + Len(b) : (a \o b)[i] =
                     IF i <= Len(a) THEN a[i] ELSE b[i - Len(a)]
  BY ConcatProperties
<1> DEFINE c == a \o b
           x == SubSeq(c, 1, Len(a))
           y == SubSeq(c, Len(a) + 1, Len(c))
<1> HIDE DEF c
<1>3. Len(a) \in 0 .. Len(c) /\ c \in Seq(S)
  BY <1>1 DEF c
<1>4. x \in Seq(S) /\ Len(x) = Len(a) /\ \A i \in 1 .. Len(a) : x[i] = c[i]
  BY <1>3, SplitSeq
<1>5. y \in Seq(S) /\ Len(y) = Len(c) - Len(a) /\ \A i \in 1 .. Len(c) - Len(a) : y[i] = c[Len(a) + i]
  BY <1>3, SplitSeq
<1> HIDE DEF x, y
<1>6. x = a
  <2>1. \A i \in 1 .. Len(a) : x[i] = a[i]
    BY <1>1, <1>2, <1>4 DEF c
  <2> QED BY <1>4, <2>1, SeqEqual
<1>7. y = b
  <2>1. Len(y) = Len(b)
    BY <1>1, <1>5 DEF c
  <2>2. ASSUME NEW i \in 1 .. Len(b) PROVE y[i] = b[i]
    <3>1. i \in 1 .. Len(c) - Len(a) /\ Len(a) + i \in 1 .. Len(a) + Len(b)
          /\ ~(Len(a) + i <= Len(a)) /\ Len(a) + i - Len(a) = i
      BY <1>1 DEF c
    <3> QED BY <1>2, <1>5, <3>1 DEF c
  <2> QED BY <1>5, <2>1, <2>2, SeqEqual
<1> QED BY <1>6, <1>7 DEF x, y, c

\* A sequence that begins with one element.
LEMMA HeadOfConcat ==
  ASSUME NEW S, NEW c \in S, NEW s \in Seq(S)
  PROVE  /\ <<c>> \o s \in Seq(S) /\ <<c>> \o s # <<>>
         /\ Head(<<c>> \o s) = c /\ Tail(<<c>> \o s) = s
<1>1. <<c>> \in Seq(S) /\ Len(<<c>>) = 1 /\ <<c>>[1] = c
  OBVIOUS
<1>2. <<c>> \o s \in Seq(S) /\ Len(<<c>> \o s) = 1 + Len(s) /\ Len(s) \in Nat
  BY <1>1, ConcatProperties, LenProperties
<1>3. (<<c>> \o s)[1] = c
  BY <1>1, <1>2, ConcatProperties
<1>4. <<c>> \o s # <<>>
  BY <1>2
<1>5. Head(<<c>> \o s) = c
  BY <1>2, <1>3, <1>4
<1>6. SubSeq(<<c>> \o s, 2, Len(<<c>> \o s)) = s
  BY <1>1, SplitConcat
<1>7. Tail(<<c>> \o s) = s
  BY <1>2, <1>4, <1>6, TailIsSubSeq
<1> QED BY <1>2, <1>4, <1>5, <1>7

\* A sequence is its first element and the others.
LEMMA HeadTailConcat ==
  ASSUME NEW S, NEW s \in Seq(S), s # <<>>
  PROVE  /\ Head(s) \in S /\ Tail(s) \in Seq(S) /\ s = <<Head(s)>> \o Tail(s)
         /\ Len(Tail(s)) = Len(s) - 1 /\ Len(s) \in Nat \ {0}
         /\ Head(s) = s[1] /\ \A i \in 1 .. Len(s) - 1 : Tail(s)[i] = s[i + 1]
<1>1. Head(s) \in S /\ Tail(s) \in Seq(S) /\ Len(Tail(s)) = Len(s) - 1
      /\ \A i \in 1 .. Len(Tail(s)) : Tail(s)[i] = s[i + 1]
  BY HeadTailProperties
<1>2. Len(s) \in Nat \ {0}
  BY EmptySeq
<1>3. Head(s) = s[1]
  BY <1>2
<1>4. SubSeq(s, 1, 1) = <<s[1]>>
  <2>1. 1 \in 0 .. Len(s)
    BY <1>2
  <2>2. SubSeq(s, 1, 1) \in Seq(S) /\ Len(SubSeq(s, 1, 1)) = 1 /\ \A i \in 1 .. 1 : SubSeq(s, 1, 1)[i] = s[i]
    BY <2>1, SplitSeq
  <2>3. <<s[1]>> \in Seq(S) /\ Len(<<s[1]>>) = 1 /\ <<s[1]>>[1] = s[1]
    BY <1>1, <1>3
  <2>4. \A i \in 1 .. 1 : SubSeq(s, 1, 1)[i] = <<s[1]>>[i]
    BY <2>2, <2>3
  <2> QED BY <2>2, <2>3, <2>4, SeqEqual
<1>5. s = SubSeq(s, 1, 1) \o SubSeq(s, 1 + 1, Len(s))
  BY <1>2, SplitSeq
<1>6. Tail(s) = SubSeq(s, 1 + 1, Len(s))
  BY TailIsSubSeq
<1> QED BY <1>1, <1>2, <1>3, <1>4, <1>5, <1>6

(***************************************************************************)
(* Runs                                                                    *)
(***************************************************************************)

\* What is read of a sequence: the number of parameters and their values.
Readings == [count : 0 .. MaxParameters, parameters : [1 .. MaxParameters -> Nat]]

\* How a parameter of a sequence is read, by the terminal (SequenceChar) and
\* by the library (ReadParameter).
ReadDigit(r, c) ==
  LET n == IF r.count = 0 THEN 1 ELSE r.count
  IN IF c \in Digits
     THEN IF n > MaxParameters THEN r
          ELSE [count |-> n, parameters |->
                [r.parameters EXCEPT ![n] = @ * 10 + DigitValue(c)]]
     ELSE [r EXCEPT !.count = @ + 1]

\* A step from a to b on the character or key c: the terminal reads output
\* that it does not answer, a parameter is read, keys are taken from the
\* input, a key is applied to a line.
Step(kind, a, c, b) ==
  \/ /\ kind = "terminal"
     /\ b = ProcessOutput(a, c) /\ Answer(a, c, 80, 25) = <<>>
     /\ a.stray => b.stray
  \/ /\ kind = "parameter"
     /\ a \in Readings /\ c \in Digits \cup {";"} /\ b = ReadDigit(a, c)
  \/ /\ kind = "input"
     /\ c \in Keys /\ b \in Seq(Chars) /\ a = Sent(c) \o b
  \/ /\ kind = "reference"
     /\ b = RefKey(a, c)

\* st are the states of a run from a over s to b.
IsRun(kind, st, a, s, b) ==
  /\ st[0] = a /\ st[Len(s)] = b
  /\ \A i \in 1 .. Len(s) : Step(kind, st[i - 1], s[i], st[i])
Run(kind, a, s, b) == \E st : IsRun(kind, st, a, s, b)

\* Nothing happens on an empty sequence.
LEMMA RunEmpty ==
  ASSUME NEW kind, NEW a, NEW b
  PROVE  Run(kind, a, <<>>, b) <=> a = b
<1>1. ASSUME Run(kind, a, <<>>, b) PROVE a = b
  BY <1>1 DEF Run, IsRun
<1>2. ASSUME a = b PROVE Run(kind, a, <<>>, b)
  <2>1. IsRun(kind, [i \in 0 .. 0 |-> a], a, <<>>, b)
    BY <1>2 DEF IsRun
  <2> QED BY <2>1 DEF Run
<1> QED BY <1>1, <1>2

\* One step.
LEMMA RunOne ==
  ASSUME NEW kind, NEW a, NEW c, NEW b, Step(kind, a, c, b)
  PROVE  Run(kind, a, <<c>>, b)
<1> DEFINE st == [i \in 0 .. 1 |-> IF i = 0 THEN a ELSE b]
<1>1. st[0] = a /\ st[1] = b /\ Len(<<c>>) = 1 /\ <<c>>[1] = c
  OBVIOUS
<1> HIDE DEF st
<1>2. \A i \in 1 .. 1 : i = 1 /\ i - 1 = 0
  OBVIOUS
<1>3. IsRun(kind, st, a, <<c>>, b)
  BY <1>1, <1>2 DEF IsRun
<1> QED BY <1>3 DEF Run

\* The first step of a run.
LEMMA RunHead ==
  ASSUME NEW kind, NEW a, NEW s \in Seq(Chars), NEW b, s # <<>>, Run(kind, a, s, b)
  PROVE  \E c : Step(kind, a, Head(s), c) /\ Run(kind, c, Tail(s), b)
<1>1. PICK st : IsRun(kind, st, a, s, b)
  BY DEF Run
<1>2. Len(s) \in Nat \ {0} /\ Head(s) = s[1] /\ Len(Tail(s)) = Len(s) - 1
      /\ \A i \in 1 .. Len(s) - 1 : Tail(s)[i] = s[i + 1]
  BY HeadTailConcat
<1>3. Step(kind, a, Head(s), st[1])
  <2>1. 1 \in 1 .. Len(s) /\ 1 - 1 = 0
    BY <1>2
  <2> QED BY <1>1, <1>2, <2>1 DEF IsRun
<1> DEFINE h == [i \in 0 .. Len(s) - 1 |-> st[i + 1]]
<1>4. h[0] = st[1] /\ h[Len(s) - 1] = b
  BY <1>1, <1>2 DEF IsRun
<1>5. ASSUME NEW i \in 1 .. Len(s) - 1 PROVE Step(kind, h[i - 1], Tail(s)[i], h[i])
  <2>1. i + 1 \in 1 .. Len(s) /\ i - 1 \in 0 .. Len(s) - 1 /\ i \in 0 .. Len(s) - 1
        /\ i - 1 + 1 = i /\ i + 1 - 1 = i
    BY <1>2
  <2>2. h[i - 1] = st[i] /\ h[i] = st[i + 1]
    BY <2>1
  <2>3. Step(kind, st[i + 1 - 1], s[i + 1], st[i + 1])
    BY <1>1, <2>1 DEF IsRun
  <2> QED BY <1>2, <2>1, <2>2, <2>3
<1> HIDE DEF h
<1>6. IsRun(kind, h, st[1], Tail(s), b)
  BY <1>2, <1>4, <1>5 DEF IsRun
<1> QED BY <1>3, <1>6 DEF Run

\* One run after another.
LEMMA RunCompose ==
  ASSUME NEW kind, NEW a, NEW s \in Seq(Chars), NEW b, NEW r \in Seq(Chars), NEW c,
         Run(kind, a, s, b), Run(kind, b, r, c)
  PROVE  Run(kind, a, s \o r, c)
<1>1. PICK f : IsRun(kind, f, a, s, b)
  BY DEF Run
<1>2. PICK g : IsRun(kind, g, b, r, c)
  BY DEF Run
<1>3. Len(s) \in Nat /\ Len(r) \in Nat /\ Len(s \o r) = Len(s) + Len(r)
      /\ \A i \in 1 .. Len(s) + Len(r) : (s \o r)[i] = IF i <= Len(s) THEN s[i] ELSE r[i - Len(s)]
  BY ConcatProperties, LenProperties
<1> DEFINE n == Len(s)
           k == Len(s) + Len(r)
           h == [i \in 0 .. k |-> IF i <= n THEN f[i] ELSE g[i - n]]
<1>4. h[0] = a
  BY <1>1, <1>3 DEF IsRun
<1>5. h[k] = c
  <2>1. CASE Len(r) = 0
    BY <1>1, <1>2, <1>3, <2>1 DEF IsRun
  <2>2. CASE Len(r) # 0
    <3>1. k \in 0 .. k /\ ~(k <= n) /\ k - n = Len(r)
      BY <1>3, <2>2
    <3> QED BY <1>2, <3>1 DEF IsRun
  <2> QED BY <2>1, <2>2
<1>6. ASSUME NEW i \in 1 .. k PROVE Step(kind, h[i - 1], (s \o r)[i], h[i])
  <2>0. i \in Nat /\ i \in 0 .. k /\ i - 1 \in 0 .. k
    BY <1>3
  <2>1. CASE i <= n
    <3>1. i \in 1 .. Len(s) /\ i - 1 <= n
      BY <1>3, <2>0, <2>1
    <3>2. h[i] = f[i] /\ h[i - 1] = f[i - 1]
      BY <2>0, <2>1, <3>1
    <3>3. (s \o r)[i] = s[i]
      BY <1>3, <2>1
    <3>4. Step(kind, f[i - 1], s[i], f[i])
      BY <1>1, <3>1 DEF IsRun
    <3> QED BY <3>2, <3>3, <3>4
  <2>2. CASE ~(i <= n)
    <3>1. i - n \in 1 .. Len(r) /\ i - 1 - n = i - n - 1
      BY <1>3, <2>0, <2>2
    <3>2. h[i] = g[i - n]
      BY <2>0, <2>2
    <3>3. h[i - 1] = g[i - n - 1]
      <4>1. CASE i - 1 <= n
        <5>1. i - 1 = n /\ i - n - 1 = 0
          BY <1>3, <2>0, <2>2, <4>1
        <5>2. h[i - 1] = f[n]
          BY <2>0, <4>1, <5>1
        <5>3. f[n] = b /\ g[0] = b
          BY <1>1, <1>2 DEF IsRun
        <5> QED BY <5>1, <5>2, <5>3
      <4>2. CASE ~(i - 1 <= n)
        BY <2>0, <3>1, <4>2
      <4> QED BY <4>1, <4>2
    <3>4. (s \o r)[i] = r[i - n]
      BY <1>3, <2>2
    <3>5. Step(kind, g[i - n - 1], r[i - n], g[i - n])
      BY <1>2, <3>1 DEF IsRun
    <3> QED BY <3>2, <3>3, <3>4, <3>5
  <2> QED BY <2>1, <2>2
<1> HIDE DEF h
<1>7. IsRun(kind, h, a, s \o r, c)
  BY <1>3, <1>4, <1>5, <1>6 DEF IsRun
<1> QED BY <1>7 DEF Run

(***************************************************************************)
(* Numbers in sequences                                                    *)
(***************************************************************************)

\* A digit is read as the number it was written for.
LEMMA DigitRead ==
  ASSUME NEW k \in 0 .. 9
  PROVE  Digit[k + 1] \in Digits /\ DigitValue(Digit[k + 1]) = k
<1>1. k + 1 \in 1 .. 10
  OBVIOUS
<1>2. \A i \in 1 .. 10 : \/ i = 1 \/ i = 2 \/ i = 3 \/ i = 4 \/ i = 5
                         \/ i = 6 \/ i = 7 \/ i = 8 \/ i = 9 \/ i = 10
  OBVIOUS
<1>3. /\ Digit[1] = "0" /\ Digit[2] = "1" /\ Digit[3] = "2" /\ Digit[4] = "3"
      /\ Digit[5] = "4" /\ Digit[6] = "5" /\ Digit[7] = "6" /\ Digit[8] = "7"
      /\ Digit[9] = "8" /\ Digit[10] = "9"
  BY DEF Digit
<1>4. \A i, j \in 1 .. 10 : Digit[i] = Digit[j] => i = j
  BY <1>2, <1>3
<1> DEFINE v == CHOOSE i \in 1 .. 10 : Digit[i] = Digit[k + 1]
<1>5. v = k + 1
  BY <1>1, <1>4
<1>6. DigitValue(Digit[k + 1]) = v - 1
  BY DEF DigitValue
<1> HIDE DEF v
<1>7. DigitValue(Digit[k + 1]) = k
  BY <1>5, <1>6
<1> QED BY <1>1, <1>7 DEF Digits

\* The digits, and what is none.
LEMMA DigitSet ==
  /\ Digits = {"0", "1", "2", "3", "4", "5", "6", "7", "8", "9"}
  /\ Digits \cap Marks = {}
<1>1. /\ Digit[1] = "0" /\ Digit[2] = "1" /\ Digit[3] = "2" /\ Digit[4] = "3"
      /\ Digit[5] = "4" /\ Digit[6] = "5" /\ Digit[7] = "6" /\ Digit[8] = "7"
      /\ Digit[9] = "8" /\ Digit[10] = "9"
  BY DEF Digit
<1>2. \A i \in 1 .. 10 : \/ i = 1 \/ i = 2 \/ i = 3 \/ i = 4 \/ i = 5
                         \/ i = 6 \/ i = 7 \/ i = 8 \/ i = 9 \/ i = 10
  OBVIOUS
<1>3. Digits \subseteq {"0", "1", "2", "3", "4", "5", "6", "7", "8", "9"}
  BY <1>1, <1>2 DEF Digits
<1>4. {"0", "1", "2", "3", "4", "5", "6", "7", "8", "9"} \subseteq Digits
  BY <1>1 DEF Digits
<1>5. Digits = {"0", "1", "2", "3", "4", "5", "6", "7", "8", "9"}
  BY <1>3, <1>4
<1> QED BY <1>5 DEF Marks, ESC, Newline

\* One digit after another, as in Decimal: g[k] is k in digits.
InDigits(g, n) ==
  \A k \in 0 .. n : g[k] = IF k < 10 THEN <<Digit[k + 1]>>
                           ELSE Append(g[k \div 10], Digit[(k % 10) + 1])

\* Division with a remainder.
LEMMA DivMod ==
  ASSUME NEW n \in Nat, NEW c \in Nat \ {0}
  PROVE  /\ n \div c \in Nat /\ n % c \in 0..(c - 1)
         /\ n = c * (n \div c) + (n % c)
<1>1. n \div c \in Nat
  OBVIOUS
<1>2. n % c \in 0..(c - 1)
  OBVIOUS
<1>3. n = c * (n \div c) + (n % c)
  OBVIOUS
<1> QED BY <1>1, <1>2, <1>3

\* The parts of a number.
LEMMA LastDigit ==
  ASSUME NEW k \in Nat, ~(k < 10)
  PROVE  /\ k \div 10 \in 0 .. k - 1 /\ k % 10 \in 0 .. 9
         /\ (k \div 10) * 10 + (k % 10) = k
<1> DEFINE q == k \div 10
           d == k % 10
<1>1. 10 \in Nat \ {0}
  OBVIOUS
<1>2. q \in Nat /\ d \in 0 .. 10 - 1 /\ k = 10 * q + d
  BY <1>1, DivMod
<1> HIDE DEF q, d
<1>3. q \in 0 .. k - 1 /\ d \in 0 .. 9 /\ q * 10 + d = k
  BY <1>2
<1>4. k \div 10 = q
  BY DEF q
<1>5. k % 10 = d
  BY DEF d
<1>6. k \div 10 \in 0 .. k - 1
  BY <1>3, <1>4
<1>7. k % 10 \in 0 .. 9
  BY <1>3, <1>5
<1>8. (k \div 10) * 10 + (k % 10) = k
  BY <1>3, <1>4, <1>5
<1> QED BY <1>6, <1>7, <1>8

\* There is such a function.
LEMMA DigitsExist ==
  ASSUME NEW n \in Nat
  PROVE  \E g : InDigits(g, n) /\ DOMAIN g = 0 .. n /\ g = [k \in 0 .. n |-> g[k]]
<1> DEFINE Good(g, m) == InDigits(g, m) /\ DOMAIN g = 0 .. m /\ g = [k \in 0 .. m |-> g[k]]
           T == {m \in Nat : ~ \E g : Good(g, m)}
<1>0. T = {}
  <2> SUFFICES ASSUME T # {} PROVE FALSE
    OBVIOUS
  <2>1. PICK m \in T : \A j \in T : m <= j
    <3>1. T \in SUBSET Nat
      OBVIOUS
    <3> QED BY <3>1, LeastNumber
  <2>2. m \in Nat
    BY <2>1
  <2>3. CASE m = 0
    <3> DEFINE g == [k \in 0 .. 0 |-> <<Digit[1]>>]
    <3>1. Good(g, 0)
      <4>1. \A k \in 0 .. 0 : k = 0
        OBVIOUS
      <4>2. g[0] = <<Digit[0 + 1]>> /\ 0 < 10
        OBVIOUS
      <4>3. InDigits(g, 0)
        BY <4>1, <4>2 DEF InDigits
      <4> QED BY <4>3
    <3> QED BY <2>1, <2>3, <3>1
  <2>4. CASE m # 0
    <3>1. m - 1 \in Nat /\ m - 1 \notin T
      BY <2>1, <2>2, <2>4
    <3>2. PICK f : Good(f, m - 1)
      BY <3>1
    <3> DEFINE v == IF m < 10 THEN <<Digit[m + 1]>> ELSE Append(f[m \div 10], Digit[(m % 10) + 1])
               g == [k \in 0 .. m |-> IF k = m THEN v ELSE f[k]]
    <3>3. ASSUME NEW k \in 0 .. m
          PROVE  g[k] = IF k < 10 THEN <<Digit[k + 1]>>
                        ELSE Append(g[k \div 10], Digit[(k % 10) + 1])
      <4>1. CASE k < 10
        <5>1. CASE k = m
          BY <4>1, <5>1
        <5>2. CASE k # m
          <6>1. k \in 0 .. m - 1
            BY <2>2, <5>2
          <6>2. f[k] = <<Digit[k + 1]>>
            BY <3>2, <4>1, <6>1 DEF InDigits
          <6> QED BY <4>1, <5>2, <6>2
        <5> QED BY <5>1, <5>2
      <4>2. CASE ~(k < 10)
        <5>0. k \div 10 \in 0 .. k - 1
          BY <2>2, <4>2, LastDigit
        <5>1. k \div 10 \in 0 .. m /\ k \div 10 # m
          BY <2>2, <5>0
        <5>2. g[k \div 10] = f[k \div 10]
          BY <5>1
        <5>3. CASE k = m
          <6>1. g[k] = v
            BY <5>3
          <6>2. v = Append(f[k \div 10], Digit[(k % 10) + 1])
            BY <4>2, <5>3
          <6> QED BY <4>2, <5>2, <6>1, <6>2
        <5>4. CASE k # m
          <6>1. k \in 0 .. m - 1
            BY <2>2, <5>4
          <6>2. f[k] = Append(f[k \div 10], Digit[(k % 10) + 1])
            BY <3>2, <4>2, <6>1 DEF InDigits
          <6>3. g[k] = f[k]
            BY <5>4
          <6> QED BY <4>2, <5>2, <6>2, <6>3
        <5> QED BY <5>3, <5>4
      <4> QED BY <4>1, <4>2
    <3>4. InDigits(g, m)
      BY <3>3 DEF InDigits
    <3>5. Good(g, m)
      <4>1. DOMAIN g = 0 .. m /\ g = [k \in 0 .. m |-> g[k]]
        OBVIOUS
      <4> QED BY <3>4, <4>1
    <3> HIDE DEF Good, g
    <3> QED BY <2>1, <3>5
  <2> QED BY <2>3, <2>4
<1> QED BY <1>0

\* Decimal is its last value.
LEMMA DecimalDigits ==
  ASSUME NEW n \in Nat
  PROVE  \E g : InDigits(g, n) /\ Decimal(n) = <<>> \o g[n]
<1> DEFINE Eq(f) == f = [k \in 0 .. n |-> IF k < 10 THEN <<Digit[k + 1]>>
                                          ELSE Append(f[k \div 10], Digit[(k % 10) + 1])]
           F == CHOOSE f : Eq(f)
<1>1. PICK g : InDigits(g, n) /\ DOMAIN g = 0 .. n /\ g = [k \in 0 .. n |-> g[k]]
  BY DigitsExist
<1>2. Eq(g)
  BY <1>1 DEF InDigits
<1>3. Eq(F)
  BY <1>2
<1>4. ~(n < 0)
  OBVIOUS
<1>5. Decimal(n) = <<>> \o F[n]
  BY <1>4 DEF Decimal
<1> HIDE DEF F
<1>6. InDigits(F, n)
  BY <1>3 DEF InDigits
<1> QED BY <1>5, <1>6

\* The parameter that the next digit belongs to, and r with k as its value.
Current(r) == IF r.count = 0 THEN 1 ELSE r.count
Put(r, k) == [count |-> Current(r),
              parameters |-> [r.parameters EXCEPT ![Current(r)] = k]]

\* A digit is put behind those that were read.
LEMMA ReadDigitPut ==
  ASSUME NEW r \in Readings, NEW k \in 0 .. 9
  PROVE  Step("parameter", r, Digit[k + 1], Put(r, r.parameters[Current(r)] * 10 + k))
<1>1. Digit[k + 1] \in Digits /\ DigitValue(Digit[k + 1]) = k
  BY DigitRead
<1>2. Current(r) \in 1 .. MaxParameters /\ ~(Current(r) > MaxParameters)
  BY DEF Readings, Current, MaxParameters
<1>3. r.parameters \in [1 .. MaxParameters -> Nat]
  BY DEF Readings
<1>4. ReadDigit(r, Digit[k + 1]) = Put(r, r.parameters[Current(r)] * 10 + k)
  BY <1>1, <1>2, <1>3 DEF ReadDigit, Put, Current
<1> QED BY <1>1, <1>4 DEF Step

\* What a number leaves of what was read before.
LEMMA PutFacts ==
  ASSUME NEW r \in Readings, NEW j \in Nat
  PROVE  /\ Put(r, j) \in Readings
         /\ Current(Put(r, j)) = Current(r)
         /\ Put(r, j).parameters[Current(r)] = j
         /\ \A k \in Nat : Put(Put(r, j), k) = Put(r, k)
<1>1. Current(r) \in 1 .. MaxParameters
  BY DEF Readings, Current, MaxParameters
<1>2. r.parameters \in [1 .. MaxParameters -> Nat]
  BY DEF Readings
<1>3. Put(r, j).count = Current(r) /\ Put(r, j).parameters = [r.parameters EXCEPT ![Current(r)] = j]
  BY DEF Put
<1>4. Put(r, j) \in Readings
  BY <1>1, <1>2 DEF Put, Readings
<1>5. Current(r) # 0
  BY <1>1 DEF MaxParameters
<1>6. Current(Put(r, j)) = Current(r)
  BY <1>3, <1>5 DEF Current
<1>7. ASSUME NEW k \in Nat PROVE Put(Put(r, j), k) = Put(r, k)
  <2>1. [[r.parameters EXCEPT ![Current(r)] = j] EXCEPT ![Current(r)] = k]
        = [r.parameters EXCEPT ![Current(r)] = k]
    BY <1>1, <1>2
  <2> QED BY <1>3, <1>6, <2>1 DEF Put
<1> QED BY <1>1, <1>2, <1>3, <1>4, <1>6, <1>7

\* A number in digits is read as that number.
LEMMA DigitsRead ==
  ASSUME NEW n \in Nat, NEW g, InDigits(g, n), NEW r \in Readings,
         r.parameters[Current(r)] = 0
  PROVE  g[n] \in Seq(Digits) /\ Run("parameter", r, g[n], Put(r, n))
<1> DEFINE Good(k) == g[k] \in Seq(Digits) /\ Run("parameter", r, g[k], Put(r, k))
           T == {k \in 0 .. n : ~Good(k)}
<1>1. T = {}
  <2> SUFFICES ASSUME T # {} PROVE FALSE
    OBVIOUS
  <2>1. PICK k \in T : \A j \in T : k <= j
    <3>1. T \in SUBSET Nat
      OBVIOUS
    <3> QED BY <3>1, LeastNumber
  <2>2. k \in Nat /\ k \in 0 .. n
    BY <2>1
  <2>3. CASE k < 10
    <3>1. k \in 0 .. 9 /\ 0 * 10 + k = k
      BY <2>2, <2>3
    <3>2. g[k] = <<Digit[k + 1]>>
      BY <2>2, <2>3 DEF InDigits
    <3>3. Step("parameter", r, Digit[k + 1], Put(r, k))
      BY <3>1, ReadDigitPut
    <3>4. Run("parameter", r, <<Digit[k + 1]>>, Put(r, k))
      BY <3>3, RunOne
    <3>5. Digit[k + 1] \in Digits
      BY <3>1, DigitRead
    <3>6. Good(k)
      BY <3>2, <3>4, <3>5
    <3> QED BY <2>1, <3>6
  <2>4. CASE ~(k < 10)
    <3> DEFINE q == k \div 10
               d == k % 10
    <3>1. q \in 0 .. k - 1 /\ d \in 0 .. 9 /\ q * 10 + d = k
      BY <2>2, <2>4, LastDigit
    <3>2. g[k] = Append(g[q], Digit[d + 1])
      BY <2>2, <2>4 DEF InDigits
    <3> HIDE DEF q, d
    <3>3. q \in Nat /\ q \in 0 .. n /\ q \notin T
      BY <2>1, <2>2, <3>1
    <3>4. g[q] \in Seq(Digits) /\ Run("parameter", r, g[q], Put(r, q))
      BY <3>3
    <3>5. Put(r, q) \in Readings /\ Put(r, q).parameters[Current(Put(r, q))] = q
          /\ Put(Put(r, q), k) = Put(r, k)
      BY <2>2, <3>3, PutFacts
    <3>6. Step("parameter", Put(r, q), Digit[d + 1], Put(r, k))
      BY <3>1, <3>5, ReadDigitPut
    <3>7. Digit[d + 1] \in Digits
      BY <3>1, DigitRead
    <3>8. Run("parameter", Put(r, q), <<Digit[d + 1]>>, Put(r, k))
      BY <3>6, RunOne
    <3>9. Digits \subseteq Chars
      BY DEF Chars
    <3>10. g[q] \in Seq(Chars) /\ <<Digit[d + 1]>> \in Seq(Chars)
      BY <3>4, <3>7, <3>9, SeqMonotonic
    <3>11. Run("parameter", r, g[q] \o <<Digit[d + 1]>>, Put(r, k))
      BY <3>4, <3>8, <3>10, RunCompose
    <3>12. g[k] = g[q] \o <<Digit[d + 1]>> /\ g[k] \in Seq(Digits)
      BY <3>2, <3>4, <3>7, AppendIsConcat, AppendProperties, SMTT(40)
    <3>13. Good(k)
      BY <3>11, <3>12
    <3> QED BY <2>1, <3>13
  <2> QED BY <2>3, <2>4
<1>2. n \in 0 .. n
  OBVIOUS
<1> QED BY <1>1, <1>2

\* What is written as a number is read as that number.
LEMMA DecimalRead ==
  ASSUME NEW n \in Nat, NEW r \in Readings, r.parameters[Current(r)] = 0
  PROVE  /\ Decimal(n) \in Seq(Digits) /\ Decimal(n) \in Seq(Chars)
         /\ Run("parameter", r, Decimal(n), Put(r, n))
<1>1. PICK g : InDigits(g, n) /\ Decimal(n) = <<>> \o g[n]
  BY DecimalDigits
<1>2. g[n] \in Seq(Digits) /\ Run("parameter", r, g[n], Put(r, n))
  BY <1>1, DigitsRead
<1>3. Decimal(n) = g[n]
  BY <1>1, <1>2, ConcatEmptySeq
<1>4. Digits \subseteq Chars
  BY DEF Chars
<1> QED BY <1>2, <1>3, <1>4, SeqMonotonic

\* The position of the cursor in the newest line, as the sequences hold it,
\* and as it is read.
Column(x) == Decimal(0) \o <<";">> \o Decimal(x)
AtColumn(x) == [count |-> 2, parameters |-> [NoParameters EXCEPT ![2] = x]]

\* The position is read as it was written.
LEMMA ColumnRead ==
  ASSUME NEW x \in Nat
  PROVE  /\ Column(x) \in Seq(Chars)
         /\ Run("parameter", NoReply, Column(x), AtColumn(x))
         /\ AtColumn(x) \in Readings /\ AtColumn(x).count = 2
         /\ AtColumn(x).parameters[1] = 0 /\ AtColumn(x).parameters[2] = x
<1> DEFINE r1 == [count |-> 1, parameters |-> NoParameters]
           r2 == [count |-> 2, parameters |-> NoParameters]
<1>1. NoReply \in Readings /\ r1 \in Readings /\ r2 \in Readings
      /\ \A i \in 1 .. 4 : NoParameters[i] = 0
  BY DEF NoReply, NoParameters, Readings, MaxParameters
<1>2. Current(NoReply) = 1 /\ Current(r2) = 2 /\ NoReply.parameters = NoParameters
  BY DEF Current, NoReply
<1>3. Put(NoReply, 0) = r1
  <2>1. [NoParameters EXCEPT ![1] = 0] = NoParameters
    BY DEF NoParameters, MaxParameters
  <2> QED BY <1>2, <2>1 DEF Put
<1>4. Put(r2, x) = AtColumn(x)
  BY <1>2 DEF Put, AtColumn
<1>5. Decimal(0) \in Seq(Chars) /\ Run("parameter", NoReply, Decimal(0), r1)
  <2>1. NoReply.parameters[Current(NoReply)] = 0
    BY <1>1, <1>2
  <2> QED BY <1>1, <1>3, <2>1, DecimalRead
<1>6. Decimal(x) \in Seq(Chars) /\ Run("parameter", r2, Decimal(x), AtColumn(x))
  <2>1. r2.parameters[Current(r2)] = 0
    BY <1>1, <1>2
  <2> QED BY <1>1, <1>4, <2>1, DecimalRead
<1>7. ";" \in Chars /\ ";" \notin Digits
  BY DigitSet DEF Chars, Marks
<1>8. Step("parameter", r1, ";", r2)
  <2>1. [r1 EXCEPT !.count = @ + 1] = r2
    OBVIOUS
  <2> HIDE DEF r1, r2
  <2>2. ReadDigit(r1, ";") = r2
    BY <1>7, <2>1 DEF ReadDigit
  <2> QED BY <1>1, <2>2 DEF Step
<1> HIDE DEF r1, r2
<1>9. Run("parameter", r1, <<";">>, r2) /\ <<";">> \in Seq(Chars)
  <2>1. Run("parameter", r1, <<";">>, r2)
    BY <1>8, RunOne
  <2>2. <<";">> \in Seq(Chars)
    BY <1>7, OneSeq
  <2> QED BY <2>1, <2>2
<1>10. Run("parameter", NoReply, Decimal(0) \o <<";">>, r2)
  BY <1>5, <1>9, RunCompose
<1>11. Decimal(0) \o <<";">> \in Seq(Chars)
  BY <1>5, <1>9, ConcatProperties
<1>12. Run("parameter", NoReply, Column(x), AtColumn(x))
  BY <1>6, <1>10, <1>11, RunCompose DEF Column
<1>13. Column(x) \in Seq(Chars)
  BY <1>6, <1>11, ConcatProperties DEF Column
<1>14. AtColumn(x) \in Readings
  BY <1>1, <1>2, <1>4, PutFacts
<1>15. AtColumn(x).parameters[1] = 0 /\ AtColumn(x).parameters[2] = x
  BY DEF AtColumn, NoParameters, MaxParameters
<1> QED BY <1>12, <1>13, <1>14, <1>15 DEF AtColumn

(***************************************************************************)
(* What the terminal makes of a sequence                                   *)
(***************************************************************************)

\* t is a terminal, whatever its document.
IsTerminal(t) ==
  t \in [status : {"text", "escape", "vt100", "ghostterm"}, count : 0 .. MaxParameters,
         parameters : [1 .. MaxParameters -> Nat], doc : {t.doc},
         x : Int, y : Int, mode : Nat, echo : BOOLEAN, stray : BOOLEAN]

\* Its newest line is l, and no place outside of the document was touched.
Fits(t, l) ==
  t.doc \in Seq(Seq(Printed)) /\ t.doc # <<>> /\ t.doc[1] = l /\ ~t.stray

\* t reads text, its newest line is l, unless that is lost, and its cursor
\* stands at x in it.
Shows(t, l, x) ==
  /\ IsTerminal(t)
  /\ t.status = "text" /\ t.count = 0 /\ t.parameters = NoParameters
  /\ t.x = x /\ t.y = 0
  /\ l # Lost => Fits(t, l)

\* t in the middle of a sequence, with what was read of it.
With(t, status, r) ==
  [t EXCEPT !.status = status, !.count = r.count, !.parameters = r.parameters]

\* The end of a sequence.
Final(t, status, c) ==
  EndSequence(IF status = "vt100" THEN SequenceVt100(t, c)
              ELSE SequenceGhostterm(t, c))

\* The fields of such a terminal.
LEMMA WithFacts ==
  ASSUME NEW t, IsTerminal(t), NEW status, NEW r
  PROVE  LET w == With(t, status, r) IN
         /\ w.status = status /\ w.count = r.count /\ w.parameters = r.parameters
         /\ w.doc = t.doc /\ w.x = t.x /\ w.y = t.y
         /\ w.mode = t.mode /\ w.echo = t.echo /\ w.stray = t.stray
BY DEF With, IsTerminal

\* A parameter is read within a sequence.
LEMMA ParameterStep ==
  ASSUME NEW t, IsTerminal(t), NEW status \in {"vt100", "ghostterm"},
         NEW r, NEW c, NEW q, Step("parameter", r, c, q)
  PROVE  Step("terminal", With(t, status, r), c, With(t, status, q))
<1> DEFINE w == With(t, status, r)
<1>1. r \in Readings /\ c \in Digits \cup {";"} /\ q = ReadDigit(r, c)
  BY DEF Step
<1>2. w.status = status /\ w.count = r.count /\ w.parameters = r.parameters /\ w.stray = t.stray
  BY WithFacts
<1>3. Answer(w, c, 80, 25) = <<>>
  <2>1. c # "n" /\ c # "i"
    BY <1>1, DigitSet
  <2> QED BY <2>1 DEF Answer
<1>4. ProcessOutput(w, c) = SequenceChar(w, c)
  BY <1>2 DEF ProcessOutput
<1>5. SequenceChar(w, c) = With(t, status, q)
  <2>1. CASE c \in Digits
    <3> DEFINE n == IF r.count = 0 THEN 1 ELSE r.count
    <3>1. CASE n > MaxParameters
      <4>1. q = r
        BY <1>1, <2>1, <3>1 DEF ReadDigit
      <4>2. SequenceChar(w, c) = w
        BY <1>2, <2>1, <3>1 DEF SequenceChar
      <4> QED BY <4>1, <4>2
    <3>2. CASE ~(n > MaxParameters)
      <4> DEFINE v == r.parameters[n] * 10 + DigitValue(c)
                 p == [r.parameters EXCEPT ![n] = v]
      <4>1. q = [count |-> n, parameters |-> p]
        BY <1>1, <2>1, <3>2 DEF ReadDigit
      <4>2. SequenceChar(w, c) = [w EXCEPT !.count = n, !.parameters = p]
        BY <1>2, <2>1, <3>2 DEF SequenceChar
      <4>3. q.count = n /\ q.parameters = p
        BY <4>1
      <4> HIDE DEF n, p
      <4>4. [w EXCEPT !.count = n, !.parameters = p] = With(t, status, q)
        BY <4>3 DEF With, IsTerminal
      <4> QED BY <4>2, <4>4
    <3> QED BY <3>1, <3>2
  <2>2. CASE c \notin Digits
    <3>1. c = ";"
      BY <1>1, <2>2
    <3>2. q = [r EXCEPT !.count = @ + 1]
      BY <1>1, <2>2 DEF ReadDigit
    <3>3. SequenceChar(w, c) = [w EXCEPT !.count = w.count + 1]
      BY <2>2, <3>1 DEF SequenceChar
    <3>4. q.count = r.count + 1 /\ q.parameters = r.parameters
      BY <1>1, <3>2 DEF Readings
    <3>5. [w EXCEPT !.count = w.count + 1] = With(t, status, q)
      BY <1>2, <3>4 DEF With, IsTerminal
    <3> QED BY <3>3, <3>5
  <2> QED BY <2>1, <2>2
<1>6. With(t, status, q).stray = t.stray
  BY WithFacts
<1> QED BY <1>2, <1>3, <1>4, <1>5, <1>6 DEF Step

\* Parameters are read within a sequence.
LEMMA ParameterRun ==
  ASSUME NEW t, IsTerminal(t), NEW status \in {"vt100", "ghostterm"},
         NEW r, NEW s \in Seq(Chars), NEW q, Run("parameter", r, s, q)
  PROVE  Run("terminal", With(t, status, r), s, With(t, status, q))
<1>1. PICK st : IsRun("parameter", st, r, s, q)
  BY DEF Run
<1> DEFINE h == [i \in 0 .. Len(s) |-> With(t, status, st[i])]
<1>2. Len(s) \in Nat
  BY LenProperties
<1>3. h[0] = With(t, status, r) /\ h[Len(s)] = With(t, status, q)
  BY <1>1, <1>2 DEF IsRun
<1>4. ASSUME NEW i \in 1 .. Len(s) PROVE Step("terminal", h[i - 1], s[i], h[i])
  <2>1. i \in 0 .. Len(s) /\ i - 1 \in 0 .. Len(s)
    BY <1>2
  <2>2. h[i] = With(t, status, st[i]) /\ h[i - 1] = With(t, status, st[i - 1])
    BY <2>1
  <2>3. Step("parameter", st[i - 1], s[i], st[i])
    BY <1>1 DEF IsRun
  <2> HIDE DEF h
  <2> QED BY <2>2, <2>3, ParameterStep
<1> HIDE DEF h
<1>5. IsRun("terminal", h, With(t, status, r), s, With(t, status, q))
  BY <1>3, <1>4 DEF IsRun
<1> QED BY <1>5 DEF Run

\* A terminal that reads text is in the middle of nothing.
LEMMA WithText ==
  ASSUME NEW t, IsTerminal(t), t.status = "text", t.count = 0, t.parameters = NoParameters
  PROVE  t = With(t, "text", NoReply)
BY DEF With, IsTerminal, NoReply

\* The beginning of a sequence: a, which is what a new terminal holds, may
\* be any parameters.
LEMMA SequenceBegins ==
  ASSUME NEW t, IsTerminal(t), t.status = "text",
         NEW b \in {"[", "{"}, NEW status, status = IF b = "[" THEN "vt100" ELSE "ghostterm"
  PROVE  LET r == [count |-> t.count, parameters |-> t.parameters]
         IN Run("terminal", t, <<ESC>> \o <<b>>, With(t, status, r))
<1> DEFINE r == [count |-> t.count, parameters |-> t.parameters]
           w == With(t, "escape", r)
           z == With(t, status, r)
<1>0. r.count = t.count /\ r.parameters = t.parameters
  OBVIOUS
<1> HIDE DEF r
<1>1. w.status = "escape" /\ w.stray = t.stray /\ w = [t EXCEPT !.status = "escape"]
  <2>1. w.status = "escape" /\ w.stray = t.stray
    BY DEF With, IsTerminal
  <2>2. w = [t EXCEPT !.status = "escape"]
    BY <1>0 DEF With, IsTerminal
  <2> QED BY <2>1, <2>2
<1>2. Step("terminal", t, ESC, w)
  <2>1. ProcessOutput(t, ESC) = w
    BY <1>1 DEF ProcessOutput, ESC, Return, Tab
  <2>2. Answer(t, ESC, 80, 25) = <<>>
    BY DEF Answer, ESC
  <2> QED BY <1>1, <2>1, <2>2 DEF Step
<1>3. Step("terminal", w, b, z)
  <2>1. ProcessOutput(w, b) = [w EXCEPT !.status = status]
    BY <1>1 DEF ProcessOutput
  <2>2. [w EXCEPT !.status = status] = z
    BY DEF With, IsTerminal
  <2>3. Answer(w, b, 80, 25) = <<>>
    BY <1>1 DEF Answer
  <2>4. z.stray = t.stray
    BY DEF With, IsTerminal
  <2> QED BY <1>1, <2>1, <2>2, <2>3, <2>4 DEF Step
<1>4. Run("terminal", t, <<ESC>>, w)
  BY <1>2, RunOne
<1>5. Run("terminal", w, <<b>>, z)
  BY <1>3, RunOne
<1>6. ESC \in Chars /\ b \in Chars
  BY DEF Chars, Marks
<1>7. <<ESC>> \in Seq(Chars) /\ <<b>> \in Seq(Chars)
  BY <1>6, OneSeq
<1>8. Run("terminal", t, <<ESC>> \o <<b>>, z)
  BY <1>4, <1>5, <1>7, RunCompose
<1> QED BY <1>8 DEF r

\* The end of one that is not answered.
LEMMA SequenceEnds ==
  ASSUME NEW w, NEW status \in {"vt100", "ghostterm"}, w.status = status,
         NEW c, c \notin Digits \cup {";", "n", "i"},
         w.stray => Final(w, status, c).stray
  PROVE  Step("terminal", w, c, Final(w, status, c))
<1>1. Answer(w, c, 80, 25) = <<>>
  BY DEF Answer
<1>2. ProcessOutput(w, c) = SequenceChar(w, c)
  BY DEF ProcessOutput
<1>3. SequenceChar(w, c) = Final(w, status, c)
  BY DEF SequenceChar, Final
<1> QED BY <1>1, <1>2, <1>3 DEF Step

\* The parameters of a sequence.
LEMMA SequencePrefix ==
  ASSUME NEW t, IsTerminal(t), t.status = "text",
         t.count = 0, t.parameters = NoParameters,
         NEW b \in {"[", "{"}, NEW status, status = IF b = "[" THEN "vt100" ELSE "ghostterm",
         NEW s \in Seq(Chars), NEW r, Run("parameter", NoReply, s, r)
  PROVE  /\ <<ESC>> \o <<b>> \o s \in Seq(Chars)
         /\ Run("terminal", t, <<ESC>> \o <<b>> \o s, With(t, status, r))
<1>0. status \in {"vt100", "ghostterm"}
  OBVIOUS
<1>1. ESC \in Chars /\ b \in Chars
  BY DEF Chars, Marks
<1>2. <<ESC>> \in Seq(Chars) /\ <<b>> \in Seq(Chars)
  BY <1>1, OneSeq
<1>3. <<ESC>> \o <<b>> \in Seq(Chars)
  BY <1>2, ConcatProperties
<1>4. [count |-> t.count, parameters |-> t.parameters] = NoReply
  BY DEF NoReply
<1>5. Run("terminal", t, <<ESC>> \o <<b>>, With(t, status, NoReply))
  BY <1>4, SequenceBegins
<1>6. Run("terminal", With(t, status, NoReply), s, With(t, status, r))
  BY <1>0, ParameterRun
<1> QED BY <1>3, <1>5, <1>6, RunCompose, ConcatProperties

\* The last character of a sequence.
LEMMA SequenceText ==
  ASSUME NEW b \in Chars, NEW s \in Seq(Chars), NEW c \in Chars
  PROVE  <<ESC>> \o (<<b>> \o s \o <<c>>) = (<<ESC>> \o <<b>> \o s) \o <<c>>
<1> DEFINE e == <<ESC>>
           f == <<b>>
           g == <<c>>
<1>1. ESC \in Chars
  BY DEF Chars, Marks
<1>2. e \in Seq(Chars) /\ f \in Seq(Chars) /\ g \in Seq(Chars)
  BY <1>1, OneSeq
<1> HIDE DEF e, f, g
<1> DEFINE h == f \o s
<1>3. h \in Seq(Chars)
  BY <1>2, ConcatProperties
<1> HIDE DEF h
<1>4. (e \o h) \o g = e \o (h \o g)
  BY <1>2, <1>3, ConcatAssociative, SMTT(40)
<1>5. (e \o f) \o s = e \o (f \o s)
  BY <1>2, ConcatAssociative
<1>6. ((e \o f) \o s) \o g = e \o ((f \o s) \o g)
  BY <1>4, <1>5 DEF h
<1> QED BY <1>6 DEF e, f, g

\* s takes a terminal that shows l and x to one that shows m and y.
Does(s, l, x, m, y) ==
  /\ s \in Seq(Chars)
  /\ \A t : Shows(t, l, x) => \E u : Run("terminal", t, s, u) /\ Shows(u, m, y)

\* One output after another.
LEMMA DoesCompose ==
  ASSUME NEW s, NEW r, NEW l, NEW x, NEW m, NEW y, NEW n, NEW z,
         Does(s, l, x, m, y), Does(r, m, y, n, z)
  PROVE  Does(s \o r, l, x, n, z)
<1>1. s \o r \in Seq(Chars)
  BY ConcatProperties DEF Does
<1>2. ASSUME NEW t, Shows(t, l, x)
      PROVE  \E v : Run("terminal", t, s \o r, v) /\ Shows(v, n, z)
  <2>1. PICK u : Run("terminal", t, s, u) /\ Shows(u, m, y)
    BY <1>2 DEF Does
  <2>2. PICK v : Run("terminal", u, r, v) /\ Shows(v, n, z)
    BY <2>1 DEF Does
  <2>3. s \in Seq(Chars) /\ r \in Seq(Chars)
    BY DEF Does
  <2>4. Run("terminal", t, s \o r, v)
    BY <2>1, <2>2, <2>3, RunCompose
  <2> QED BY <2>2, <2>4
<1> QED BY <1>1, <1>2 DEF Does

\* No output.
LEMMA DoesNothing ==
  ASSUME NEW l, NEW x
  PROVE  Does(<<>>, l, x, l, x)
BY RunEmpty DEF Does

\* A sequence whose end leaves the terminal as wanted.
LEMMA DoesSequence ==
  ASSUME NEW b \in {"[", "{"}, NEW status, status = IF b = "[" THEN "vt100" ELSE "ghostterm",
         NEW s \in Seq(Chars), NEW r \in Readings, Run("parameter", NoReply, s, r),
         NEW c \in Chars, c \notin Digits \cup {";", "n", "i"},
         NEW l, NEW x, NEW m, NEW y,
         \A t : Shows(t, l, x) =>
           LET u == Final(With(t, status, r), status, c)
           IN Shows(u, m, y) /\ (t.stray => u.stray)
  PROVE  Does(<<ESC>> \o (<<b>> \o s \o <<c>>), l, x, m, y)
<1>0. status \in {"vt100", "ghostterm"}
  OBVIOUS
<1>1. ESC \in Chars /\ b \in Chars
  BY DEF Chars, Marks
<1>2. <<ESC>> \in Seq(Chars) /\ <<b>> \in Seq(Chars) /\ <<c>> \in Seq(Chars)
  BY <1>1, OneSeq
<1> DEFINE o == <<ESC>> \o (<<b>> \o s \o <<c>>)
           a == <<ESC>> \o <<b>> \o s
<1>3. o = a \o <<c>>
  BY <1>1, SequenceText
<1>4. a \in Seq(Chars)
  BY <1>2, ConcatProperties
<1> HIDE DEF o, a
<1>5. o \in Seq(Chars)
  BY <1>2, <1>3, <1>4, ConcatProperties
<1>6. ASSUME NEW t, Shows(t, l, x)
      PROVE  \E u : Run("terminal", t, o, u) /\ Shows(u, m, y)
  <2> DEFINE w == With(t, status, r)
             u == Final(w, status, c)
  <2>1. IsTerminal(t) /\ t.status = "text" /\ t.count = 0 /\ t.parameters = NoParameters
    BY <1>6 DEF Shows
  <2>2. Run("terminal", t, a, w)
    BY <2>1, SequencePrefix DEF a
  <2>3. w.status = status /\ w.stray = t.stray
    BY <2>1 DEF With, IsTerminal
  <2>8. w.stray => u.stray
    BY <1>6, <2>3
  <2> HIDE DEF w
  <2>4. Step("terminal", w, c, u)
    BY <1>0, <2>3, <2>8, SequenceEnds
  <2> HIDE DEF u
  <2>5. Run("terminal", w, <<c>>, u)
    BY <2>4, RunOne
  <2>6. Run("terminal", t, a \o <<c>>, u)
    BY <1>2, <1>4, <2>2, <2>5, RunCompose
  <2>7. Shows(u, m, y)
    BY <1>6 DEF u, w
  <2> QED BY <1>3, <2>6, <2>7
<1>7. Does(o, l, x, m, y)
  BY <1>5, <1>6 DEF Does
<1> QED BY <1>7 DEF o

(***************************************************************************)
(* The commands of the library                                             *)
(***************************************************************************)

\* A terminal in the middle of a sequence is one.
LEMMA WithType ==
  ASSUME NEW t, IsTerminal(t), NEW status \in {"text", "escape", "vt100", "ghostterm"},
         NEW r \in Readings
  PROVE  IsTerminal(With(t, status, r))
<1>1. r.count \in 0 .. MaxParameters /\ r.parameters \in [1 .. MaxParameters -> Nat]
  BY DEF Readings
<1> QED BY <1>1 DEF With, IsTerminal

\* What is left of a sequence at its end.
LEMMA EndShows ==
  ASSUME NEW t, IsTerminal(t), t.y = 0, NEW l, l # Lost => Fits(t, l)
  PROVE  Shows(EndSequence(t), l, t.x) /\ EndSequence(t).stray = t.stray
<1> DEFINE u == EndSequence(t)
<1>1. NoParameters \in [1 .. MaxParameters -> Nat] /\ 0 \in 0 .. MaxParameters
  BY DEF NoParameters, MaxParameters
<1>3. /\ u.status = "text" /\ u.count = 0 /\ u.parameters = NoParameters
      /\ u.doc = t.doc /\ u.x = t.x /\ u.y = t.y /\ u.stray = t.stray
  BY DEF EndSequence, IsTerminal
<1>2. IsTerminal(u)
  BY <1>1, <1>3 DEF EndSequence, IsTerminal
<1> QED BY <1>2, <1>3 DEF Shows, Fits

\* Parameters of one number.
LEMMA NumberRead ==
  ASSUME NEW n \in Nat
  PROVE  /\ Decimal(n) \in Seq(Chars)
         /\ Run("parameter", NoReply, Decimal(n), Put(NoReply, n))
         /\ Put(NoReply, n) \in Readings
         /\ Put(NoReply, n).parameters[1] = n
<1>1. NoReply \in Readings /\ \A i \in 1 .. 4 : NoParameters[i] = 0
  BY DEF NoReply, NoParameters, Readings, MaxParameters
<1>2. Current(NoReply) = 1 /\ NoReply.parameters = NoParameters
  BY DEF Current, NoReply
<1>3. NoReply.parameters[Current(NoReply)] = 0
  BY <1>1, <1>2
<1>4. Decimal(n) \in Seq(Chars) /\ Run("parameter", NoReply, Decimal(n), Put(NoReply, n))
  BY <1>1, <1>3, DecimalRead
<1>5. Put(NoReply, n) \in Readings /\ Put(NoReply, n).parameters[Current(NoReply)] = n
  BY <1>1, PutFacts
<1> QED BY <1>2, <1>4, <1>5

\* What may end a sequence.
LEMMA Enders ==
  ASSUME NEW c \in {"f", "D", "C", "J", "m", "e", "x"}
  PROVE  c \in Chars /\ c \notin Digits \cup {";", "n", "i"}
<1>1. c \in Marks
  BY DEF Marks
<1>2. c \notin Digits
  BY DigitSet
<1> QED BY <1>1, <1>2 DEF Chars

\* Only the cursor is moved.
Moves(r, c, x, y) ==
  \A t : IsTerminal(t) /\ t.status = "vt100" /\ t.parameters = r.parameters /\ t.x = x
         => SequenceVt100(t, c) = [t EXCEPT !.x = y, !.y = IF c = "f" THEN 0 ELSE @]

\* A sequence that moves the cursor.
LEMMA DoesMove ==
  ASSUME NEW s \in Seq(Chars), NEW r \in Readings, Run("parameter", NoReply, s, r),
         NEW c \in {"f", "D", "C", "m"},
         NEW l, NEW x \in Int, NEW y \in Int, Moves(r, c, x, y)
  PROVE  Does(<<ESC>> \o (<<"[">> \o s \o <<c>>), l, x, l, y)
<1>1. c \in Chars /\ c \notin Digits \cup {";", "n", "i"}
  BY Enders
<1>2. ASSUME NEW t, Shows(t, l, x)
      PROVE  LET u == Final(With(t, "vt100", r), "vt100", c)
             IN Shows(u, l, y) /\ (t.stray => u.stray)
  <2> DEFINE w == With(t, "vt100", r)
             v == SequenceVt100(w, c)
  <2>1. IsTerminal(t) /\ t.x = x /\ t.y = 0 /\ (l # Lost => Fits(t, l))
    BY <1>2 DEF Shows
  <2>2. IsTerminal(w)
    BY <2>1, WithType
  <2>3. /\ w.status = "vt100" /\ w.parameters = r.parameters
        /\ w.doc = t.doc /\ w.x = t.x /\ w.y = t.y /\ w.stray = t.stray
    BY <2>1 DEF With, IsTerminal
  <2> HIDE DEF w
  <2>4. v = [w EXCEPT !.x = y, !.y = IF c = "f" THEN 0 ELSE @]
    BY <2>1, <2>2, <2>3 DEF Moves
  <2> HIDE DEF v
  <2>5. IsTerminal(v) /\ v.doc = w.doc /\ v.stray = w.stray /\ v.x = y /\ v.y = 0
    BY <2>1, <2>2, <2>3, <2>4 DEF IsTerminal
  <2>8. l # Lost => Fits(v, l)
    BY <2>1, <2>3, <2>5 DEF Fits
  <2>6. Shows(EndSequence(v), l, y) /\ EndSequence(v).stray = v.stray
    BY <2>5, <2>8, EndShows
  <2>7. Final(w, "vt100", c) = EndSequence(v)
    BY DEF Final, v
  <2> QED BY <2>3, <2>5, <2>6, <2>7 DEF w
<1>3. "[" \in {"[", "{"}
  OBVIOUS
<1> QED BY <1>1, <1>2, <1>3, DoesSequence

\* The cursor is put at a column of the newest line.
LEMMA DoesSetCursor ==
  ASSUME NEW l, NEW x \in Int, NEW y \in Nat
  PROVE  Does(SetCursor(y, 0), l, x, l, y)
<1> DEFINE s == Column(y)
           r == AtColumn(y)
<1>1. s \in Seq(Chars) /\ Run("parameter", NoReply, s, r) /\ r \in Readings
      /\ r.parameters[1] = 0 /\ r.parameters[2] = y
  BY ColumnRead
<1> HIDE DEF s, r
<1>2. Moves(r, "f", x, y)
  BY <1>1 DEF Moves, SequenceVt100, IsTerminal
<1>3. Does(<<ESC>> \o (<<"[">> \o s \o <<"f">>), l, x, l, y)
  BY <1>1, <1>2, DoesMove
<1>4. <<"[">> \o s = <<"[">> \o Decimal(0) \o <<";">> \o Decimal(y)
  <2> DEFINE a == <<"[">>
             b == Decimal(0)
             c == <<";">>
             d == Decimal(y)
  <2>1. "[" \in Chars /\ ";" \in Chars
    BY DEF Chars, Marks
  <2>2. b \in Seq(Chars) /\ d \in Seq(Chars)
    BY NumberRead
  <2>3. a \in Seq(Chars) /\ c \in Seq(Chars)
    BY <2>1, OneSeq
  <2> HIDE DEF a, b, c, d
  <2> DEFINE e == b \o c
  <2>4. e \in Seq(Chars)
    BY <2>2, <2>3, ConcatProperties
  <2>5. (a \o b) \o c = a \o e
    BY <2>2, <2>3, ConcatAssociative
  <2> HIDE DEF e
  <2>6. (a \o e) \o d = a \o (e \o d)
    BY <2>2, <2>3, <2>4, ConcatAssociative, SMTT(40)
  <2> QED BY <2>5, <2>6 DEF a, b, c, d, e, s, Column
<1> QED BY <1>3, <1>4 DEF SetCursor, Command

\* The cursor is moved back and forward.
LEMMA DoesMoveBack ==
  ASSUME NEW l, NEW x \in Int, NEW n \in Nat
  PROVE  Does(MoveBack(n), l, x, l, x - n)
<1> DEFINE s == Decimal(n)
           r == Put(NoReply, n)
<1>1. s \in Seq(Chars) /\ Run("parameter", NoReply, s, r) /\ r \in Readings
      /\ r.parameters[1] = n
  BY NumberRead
<1> HIDE DEF s, r
<1>2. Moves(r, "D", x, x - n)
  BY <1>1, ZenonT(60) DEF Moves, SequenceVt100, IsTerminal
<1>3. Does(<<ESC>> \o (<<"[">> \o s \o <<"D">>), l, x, l, x - n)
  BY <1>1, <1>2, DoesMove
<1> QED BY <1>3 DEF MoveBack, Command, s

\* See DoesMoveBack.
LEMMA DoesMoveForward ==
  ASSUME NEW l, NEW x \in Int, NEW n \in Nat
  PROVE  Does(MoveForward(n), l, x, l, x + n)
<1> DEFINE s == Decimal(n)
           r == Put(NoReply, n)
<1>1. s \in Seq(Chars) /\ Run("parameter", NoReply, s, r) /\ r \in Readings
      /\ r.parameters[1] = n
  BY NumberRead
<1> HIDE DEF s, r
<1>2. Moves(r, "C", x, x + n)
  BY <1>1, ZenonT(60) DEF Moves, SequenceVt100, IsTerminal
<1>3. Does(<<ESC>> \o (<<"[">> \o s \o <<"C">>), l, x, l, x + n)
  BY <1>1, <1>2, DoesMove
<1> QED BY <1>3 DEF MoveForward, Command, s

\* The mode and the echo are set.
LEMMA DoesSetMode ==
  ASSUME NEW l, NEW x \in Int, NEW n \in Nat
  PROVE  Does(SetMode(n), l, x, l, x) /\ Does(SetEcho(n), l, x, l, x)
<1> DEFINE s == Decimal(n)
           r == Put(NoReply, n)
<1>1. s \in Seq(Chars) /\ Run("parameter", NoReply, s, r) /\ r \in Readings
      /\ r.parameters[1] = n
  BY NumberRead
<1> HIDE DEF s, r
<1>2. ASSUME NEW c \in {"m", "e"}
      PROVE  Does(<<ESC>> \o (<<"{">> \o s \o <<c>>), l, x, l, x)
  <2>1. c \in Chars /\ c \notin Digits \cup {";", "n", "i"}
    BY Enders
  <2>2. ASSUME NEW t, Shows(t, l, x)
        PROVE  LET u == Final(With(t, "ghostterm", r), "ghostterm", c)
               IN Shows(u, l, x) /\ (t.stray => u.stray)
    <3> DEFINE w == With(t, "ghostterm", r)
               v == SequenceGhostterm(w, c)
    <3>1. IsTerminal(t) /\ t.x = x /\ t.y = 0 /\ (l # Lost => Fits(t, l))
      BY <2>2 DEF Shows
    <3>2. IsTerminal(w)
      BY <1>1, <3>1, WithType
    <3>3. /\ w.parameters = r.parameters
          /\ w.doc = t.doc /\ w.x = t.x /\ w.y = t.y /\ w.stray = t.stray
      BY <3>1 DEF With, IsTerminal
    <3> HIDE DEF w
    <3>4. v = IF c = "m" THEN [w EXCEPT !.mode = n] ELSE [w EXCEPT !.echo = (n = 1)]
      BY <1>1, <3>3 DEF SequenceGhostterm
    <3> HIDE DEF v
    <3>5. IsTerminal(v) /\ v.doc = w.doc /\ v.stray = w.stray /\ v.x = w.x /\ v.y = w.y
      <4>1. CASE c = "m"
        BY <3>2, <3>4, <4>1 DEF IsTerminal
      <4>2. CASE c # "m"
        <5>1. (n = 1) \in BOOLEAN
          OBVIOUS
        <5> QED BY <3>2, <3>4, <4>2, <5>1 DEF IsTerminal
      <4> QED BY <4>1, <4>2
    <3>8. l # Lost => Fits(v, l)
      BY <3>1, <3>3, <3>5 DEF Fits
    <3>6. Shows(EndSequence(v), l, x) /\ EndSequence(v).stray = v.stray
      BY <3>1, <3>3, <3>5, <3>8, EndShows
    <3>7. Final(w, "ghostterm", c) = EndSequence(v)
      BY DEF Final, v
    <3> QED BY <3>3, <3>5, <3>6, <3>7 DEF w
  <2>3. "{" \in {"[", "{"} /\ "{" # "["
    OBVIOUS
  <2> QED BY <1>1, <2>1, <2>2, <2>3, DoesSequence
<1>3. Does(SetMode(n), l, x, l, x)
  BY <1>2 DEF SetMode, Command, s
<1>4. Does(SetEcho(n), l, x, l, x)
  BY <1>2 DEF SetEcho, Command, s
<1> QED BY <1>3, <1>4

\* What of a sequence is behind its first n elements.
Rest(b, n) == SubSeq(b, n + 1, Len(b))

\* Its elements.
LEMMA RestFacts ==
  ASSUME NEW S, NEW b \in Seq(S), NEW n \in Nat
  PROVE  /\ Rest(b, n) \in Seq(S)
         /\ Len(Rest(b, n)) = IF n < Len(b) THEN Len(b) - n ELSE 0
         /\ \A i \in 1 .. Len(b) - n : Rest(b, n)[i] = b[n + i]
<1>1. Len(b) \in Nat /\ \A i \in 1 .. Len(b) : b[i] \in S
  BY LenProperties, ElementOfSeq
<1>2. n + 1 \in Int /\ \A i \in n + 1 .. Len(b) : b[i] \in S
  BY <1>1
<1>3. /\ Rest(b, n) \in Seq(S)
      /\ Len(Rest(b, n)) = IF n + 1 <= Len(b) THEN Len(b) - (n + 1) + 1 ELSE 0
      /\ \A i \in 1 .. Len(b) - (n + 1) + 1 : Rest(b, n)[i] = b[n + 1 + i - 1]
  BY <1>1, <1>2, SubSeqProperties DEF Rest
<1> HIDE DEF Rest
<1>4. Len(Rest(b, n)) = IF n < Len(b) THEN Len(b) - n ELSE 0
  BY <1>1, <1>3
<1>5. \A i \in 1 .. Len(b) - n : Rest(b, n)[i] = b[n + i]
  BY <1>1, <1>3
<1> QED BY <1>3, <1>4, <1>5

\* One element less.
LEMMA RestStep ==
  ASSUME NEW S, NEW b \in Seq(S), NEW n \in Nat
  PROVE  Rest(Rest(b, n), 1) = Rest(b, n + 1)
<1> DEFINE c == Rest(b, n)
           d == Rest(c, 1)
           e == Rest(b, n + 1)
<1>0. n + 1 \in Nat /\ 1 \in Nat
  OBVIOUS
<1>1. c \in Seq(S) /\ Len(c) = (IF n < Len(b) THEN Len(b) - n ELSE 0)
      /\ \A i \in 1 .. Len(b) - n : c[i] = b[n + i]
  BY RestFacts
<1> HIDE DEF c
<1>2. d \in Seq(S) /\ Len(d) = (IF 1 < Len(c) THEN Len(c) - 1 ELSE 0)
      /\ \A i \in 1 .. Len(c) - 1 : d[i] = c[1 + i]
  BY <1>0, <1>1, RestFacts
<1>3. e \in Seq(S) /\ Len(e) = (IF n + 1 < Len(b) THEN Len(b) - (n + 1) ELSE 0)
      /\ \A i \in 1 .. Len(b) - (n + 1) : e[i] = b[n + 1 + i]
  BY <1>0, RestFacts
<1> HIDE DEF d, e
<1>4. Len(b) \in Nat
  BY LenProperties
<1>5. Len(d) = Len(e)
  BY <1>1, <1>2, <1>3, <1>4
<1>6. ASSUME NEW i \in 1 .. Len(d) PROVE d[i] = e[i]
  <2>1. i \in 1 .. Len(c) - 1 /\ i \in 1 .. Len(b) - (n + 1) /\ 1 + i \in 1 .. Len(b) - n
        /\ n + (1 + i) = n + 1 + i
    BY <1>1, <1>2, <1>4
  <2>2. d[i] = c[1 + i] /\ c[1 + i] = b[n + (1 + i)] /\ e[i] = b[n + 1 + i]
    BY <1>1, <1>2, <1>3, <2>1
  <2> QED BY <2>1, <2>2
<1>7. d = e
  BY <1>2, <1>3, <1>5, <1>6, SeqEqual
<1> QED BY <1>7 DEF d, e, c

\* The characters of a line, and those of them that the screen shows.
LEMMA PrintedNames ==
  ASSUME CompletionsAreNames
  PROVE  /\ Completing(Texts) /\ Letters \subseteq Texts
         /\ (Texts \cup {"p", ">"}) \cap {ESC, Tab, Return, Newline} = {}
         /\ Printed \subseteq Texts \cup {"p", ">"} /\ Printed \cap Ignored = {}
         /\ Lost \notin Seq(Printed)
<1>1. Completing(Texts)
  BY DEF CompletionsAreNames, Texts
<1>2. Texts \cap {ESC, Tab, Return, Newline} = {} /\ Letters \subseteq Texts
  BY <1>1 DEF Completing
<1>3. (Texts \cup {"p", ">"}) \cap {ESC, Tab, Return, Newline} = {}
  BY <1>2 DEF ESC, Tab, Return, Newline
<1>4. Printed \subseteq Texts \cup {"p", ">"} /\ Printed \cap Ignored = {}
  BY IgnoredAssumption DEF Printed, Plain
<1>5. Lost \notin Seq(Printed)
  <2>1. Newline \notin Printed
    BY <1>3, <1>4
  <2>2. Len(Lost) = 1 /\ Lost[1] = Newline
    BY DEF Lost
  <2>3. 1 \in 1 .. Len(Lost)
    BY <2>2
  <2> HIDE DEF Lost
  <2> QED BY <2>1, <2>2, <2>3, ElementOfSeq
<1> QED BY <1>1, <1>2, <1>3, <1>4, <1>5

\* A character is written to the line at the cursor.
LEMMA LineInsertAt ==
  ASSUME NEW a \in Seq(Printed), NEW b \in Seq(Printed), NEW c \in Printed
  PROVE  LineInsert(a \o b, Len(a), c) = (a \o <<c>>) \o Rest(b, 1)
<1> DEFINE l == a \o b
           r == (a \o <<c>>) \o Rest(b, 1)
           v == LineInsert(l, Len(a), c)
<1>1. l \in Seq(Printed) /\ Len(l) = Len(a) + Len(b) /\ Len(a) \in Nat /\ Len(b) \in Nat
      /\ \A i \in 1 .. Len(a) + Len(b) : l[i] = IF i <= Len(a) THEN a[i] ELSE b[i - Len(a)]
  BY ConcatProperties, LenProperties
<1>2. <<c>> \in Seq(Printed) /\ Len(<<c>>) = 1 /\ <<c>>[1] = c
  BY OneSeq
<1> DEFINE d == a \o <<c>>
           e == Rest(b, 1)
<1>3. d \in Seq(Printed) /\ Len(d) = Len(a) + 1
      /\ \A i \in 1 .. Len(a) + 1 : d[i] = IF i <= Len(a) THEN a[i] ELSE <<c>>[i - Len(a)]
  BY <1>2, ConcatProperties
<1>4. e \in Seq(Printed) /\ Len(e) = (IF 1 < Len(b) THEN Len(b) - 1 ELSE 0)
      /\ \A i \in 1 .. Len(b) - 1 : e[i] = b[1 + i]
  <2>1. 1 \in Nat
    OBVIOUS
  <2> QED BY <2>1, RestFacts
<1> HIDE DEF l, d, e
<1>5. r \in Seq(Printed) /\ Len(r) = Len(d) + Len(e)
      /\ \A i \in 1 .. Len(d) + Len(e) : r[i] = IF i <= Len(d) THEN d[i] ELSE e[i - Len(d)]
  BY <1>3, <1>4, ConcatProperties DEF d, e
<1> HIDE DEF r
<1>6. CASE b = <<>>
  <2>1. Len(b) = 0
    BY <1>6
  <2>2. l = a
    BY <1>6, ConcatEmptySeq DEF l
  <2>3. e = <<>>
    BY <1>4, <2>1
  <2>4. r = d
    BY <1>3, <2>3, ConcatEmptySeq DEF r, d, e
  <2>5. ~(Len(a) < Len(l)) /\ [i \in 1 .. (Len(a) - Len(l)) |-> Gap] = <<>>
    BY <1>1, <2>2
  <2>6. v = a \o <<>> \o <<c>>
    BY <2>2, <2>5 DEF LineInsert
  <2>7. v = d
    BY <2>6, ConcatEmptySeq DEF d
  <2> QED BY <2>4, <2>7 DEF l, r
<1>7. CASE b # <<>>
  <2>1. Len(b) \in Nat \ {0}
    BY <1>7, EmptySeq
  <2>2. Len(a) < Len(l) /\ Len(a) + 1 \in 1 .. Len(l)
    BY <1>1, <2>1
  <2>3. v = [l EXCEPT ![Len(a) + 1] = c]
    BY <2>2 DEF LineInsert
  <2>4. v \in Seq(Printed) /\ Len(v) = Len(l)
        /\ \A j \in 1 .. Len(l) : v[j] = IF j = Len(a) + 1 THEN c ELSE l[j]
    BY <1>1, <2>2, <2>3, ExceptSeq
  <2> HIDE DEF v
  <2>5. Len(v) = Len(r)
    <3>0. Len(b) \in Nat /\ Len(e) = IF 1 < Len(b) THEN Len(b) - 1 ELSE 0
      BY <1>1, <1>4
    <3>1. Len(e) = Len(b) - 1
      <4>1. CASE 1 < Len(b)
        BY <3>0, <4>1
      <4>2. CASE ~(1 < Len(b))
        <5> DEFINE n == Len(b)
        <5>0. n \in Nat \ {0} /\ ~(1 < n)
          BY <2>1, <4>2
        <5> HIDE DEF n
        <5>1. n = 1
          BY <5>0
        <5> QED BY <3>0, <5>1 DEF n
      <4> QED BY <4>1, <4>2
    <3>2. Len(r) = Len(a) + 1 + (Len(b) - 1) /\ Len(v) = Len(a) + Len(b)
      BY <1>1, <1>3, <1>5, <2>4, <3>1
    <3> QED BY <1>1, <3>2
  <2>6. ASSUME NEW j \in 1 .. Len(v) PROVE v[j] = r[j]
    <3>0. j \in 1 .. Len(l) /\ j \in 1 .. Len(a) + Len(b) /\ j \in 1 .. Len(d) + Len(e)
      BY <1>1, <1>5, <2>4, <2>5
    <3>1. CASE j <= Len(a)
      <4>1. j <= Len(d) /\ j # Len(a) + 1 /\ j \in 1 .. Len(a) + 1
        BY <1>1, <1>3, <3>1
      <4> QED BY <1>1, <1>3, <1>5, <2>4, <3>0, <3>1, <4>1
    <3>2. CASE j = Len(a) + 1
      <4>1. j <= Len(d) /\ ~(j <= Len(a)) /\ j \in 1 .. Len(a) + 1 /\ j - Len(a) = 1
        BY <1>1, <1>3, <3>2
      <4>2. r[j] = d[j] /\ d[j] = <<c>>[1]
        BY <1>3, <1>5, <3>0, <4>1
      <4> QED BY <1>2, <2>4, <3>0, <3>2, <4>2
    <3>3. CASE j > Len(a) + 1
      <4>1. ~(j <= Len(d)) /\ ~(j <= Len(a)) /\ j - Len(d) \in 1 .. Len(b) - 1
            /\ 1 + (j - Len(d)) = j - Len(a) /\ j # Len(a) + 1
        BY <1>1, <1>3, <3>0, <3>3
      <4>2. r[j] = e[j - Len(d)] /\ e[j - Len(d)] = b[1 + (j - Len(d))]
        BY <1>4, <1>5, <3>0, <4>1
      <4>3. v[j] = l[j] /\ l[j] = b[j - Len(a)]
        BY <1>1, <2>4, <3>0, <4>1
      <4> QED BY <4>1, <4>2, <4>3
    <3> QED BY <1>1, <3>0, <3>1, <3>2, <3>3
  <2>7. v = r
    BY <1>5, <2>4, <2>5, <2>6, SeqEqual
  <2> QED BY <2>7 DEF l, r, v
<1> QED BY <1>6, <1>7

\* A character is printed.
LEMMA DoesPrintOne ==
  ASSUME CompletionsAreNames,
         NEW a \in Seq(Printed), NEW b \in Seq(Printed), NEW c \in Printed
  PROVE  Does(<<c>>, a \o b, Len(a), (a \o <<c>>) \o Rest(b, 1), Len(a) + 1)
<1> DEFINE l == a \o b
           m == (a \o <<c>>) \o Rest(b, 1)
           x == Len(a)
<1>1. c \in Chars /\ c \notin {ESC, Tab, Return, Newline} /\ c \notin Ignored
  BY PrintedNames DEF Chars
<1>2. <<c>> \in Seq(Chars)
  BY <1>1, OneSeq
<1>3. LineInsert(l, x, c) = m /\ x \in Nat
  BY LineInsertAt, LenProperties
<1>4. m \in Seq(Printed)
  <2>1. <<c>> \in Seq(Printed) /\ Rest(b, 1) \in Seq(Printed)
    BY OneSeq, RestFacts
  <2>2. a \o <<c>> \in Seq(Printed)
    BY <2>1, ConcatProperties
  <2> QED BY <2>1, <2>2, ConcatProperties
<1>7. l # Lost
  <2>1. a \o b \in Seq(Printed)
    BY ConcatProperties
  <2>2. Lost \notin Seq(Printed)
    BY PrintedNames
  <2> QED BY <2>1, <2>2
<1> HIDE DEF l, m, x
<1>5. ASSUME NEW t, Shows(t, l, x)
      PROVE  \E u : Run("terminal", t, <<c>>, u) /\ Shows(u, m, x + 1)
  <2>1. /\ IsTerminal(t) /\ t.status = "text" /\ t.count = 0 /\ t.parameters = NoParameters
        /\ t.doc # <<>> /\ t.doc[1] = l /\ t.x = x /\ t.y = 0 /\ ~t.stray
        /\ t.doc \in Seq(Seq(Printed))
    BY <1>5, <1>7 DEF Shows, Fits
  <2>2. t.doc \in Seq(Seq(Printed)) /\ Len(t.doc) \in Nat \ {0}
    BY <2>1, EmptySeq
  <2> DEFINE doc == [t.doc EXCEPT ![1] = m]
             u == ScreenWrite(t, c)
  <2>3. doc \in Seq(Seq(Printed)) /\ Len(doc) = Len(t.doc) /\ doc[1] = m
    <3>1. 1 \in 1 .. Len(t.doc)
      BY <2>2
    <3> QED BY <1>4, <2>2, <3>1, ExceptSeq
  <2>4. doc # <<>>
    BY <2>2, <2>3
  <2>5. HasLine(t.doc, 0)
    BY <2>2 DEF HasLine
  <2>6. DocInsert(t.doc, t.x, t.y, c) = doc
    <3>1. 0 + 1 = 1
      OBVIOUS
    <3>2. [t.doc EXCEPT ![1] = LineInsert(@, x, c)] = doc
      BY <1>3, <2>1
    <3> QED BY <1>1, <2>1, <2>5, <3>1, <3>2 DEF DocInsert
  <2>7. InsertSafe(t.doc, t.x, t.y, c)
    BY <1>3, <2>1 DEF InsertSafe
  <2>8. u = [t EXCEPT !.doc = doc, !.stray = FALSE, !.x = x + 1]
    BY <1>1, <2>1, <2>6, <2>7 DEF ScreenWrite
  <2> HIDE DEF doc, u
  <2>9. IsTerminal(u)
    <3>1. x + 1 \in Int /\ FALSE \in BOOLEAN
      BY <1>3
    <3> QED BY <2>1, <2>3, <2>8, <3>1 DEF IsTerminal
  <2>10. /\ u.status = "text" /\ u.count = 0 /\ u.parameters = NoParameters
         /\ u.doc = doc /\ u.x = x + 1 /\ u.y = 0 /\ ~u.stray
    BY <2>1, <2>8 DEF IsTerminal
  <2>11. Shows(u, m, x + 1)
    BY <2>3, <2>4, <2>9, <2>10 DEF Shows, Fits
  <2>12. ProcessOutput(t, c) = u
    BY <1>1, <2>1 DEF ProcessOutput, u
  <2>13. Answer(t, c, 80, 25) = <<>>
    BY <2>1 DEF Answer
  <2>14. Step("terminal", t, c, u)
    BY <2>1, <2>12, <2>13 DEF Step
  <2> QED BY <2>11, <2>14, RunOne
<1>6. Does(<<c>>, l, x, m, x + 1)
  BY <1>2, <1>5 DEF Does
<1> QED BY <1>6 DEF l, m, x

\* One element more behind a sequence.
LEMMA ConcatPrefix ==
  ASSUME NEW S, NEW a \in Seq(S), NEW s \in Seq(S), NEW n \in 1 .. Len(s)
  PROVE  (a \o SubSeq(s, 1, n - 1)) \o <<s[n]>> = a \o SubSeq(s, 1, n)
<1> DEFINE f == SubSeq(s, 1, n - 1)
           g == <<s[n]>>
<1>1. Len(s) \in Nat /\ 1 \in 1 .. Len(s) /\ n - 1 \in 0 .. Len(s) /\ s[n] \in S
  BY LenProperties, ElementOfSeq
<1>2. SubSeq(s, 1, n) = f \o g
  BY <1>1, SubSeqRecursiveSecond
<1>3. f \in Seq(S) /\ g \in Seq(S)
  BY <1>1, SplitSeq, OneSeq
<1> HIDE DEF f, g
<1>4. (a \o f) \o g = a \o (f \o g)
  BY <1>3, ConcatAssociative, SMTT(40)
<1> QED BY <1>2, <1>4 DEF f, g

\* A text is printed over what stands behind the cursor.
LEMMA DoesPrint ==
  ASSUME CompletionsAreNames,
         NEW a \in Seq(Printed), NEW b \in Seq(Printed), NEW s \in Seq(Printed)
  PROVE  Does(s, a \o b, Len(a), (a \o s) \o Rest(b, Len(s)), Len(a) + Len(s))
<1> DEFINE First(n) == SubSeq(s, 1, n)
           Good(n) == Does(First(n), a \o b, Len(a), (a \o First(n)) \o Rest(b, n), Len(a) + n)
           T == {n \in 0 .. Len(s) : ~Good(n)}
<1>0. Len(s) \in Nat /\ Len(a) \in Nat
  BY LenProperties
<1>1. T = {}
  <2> SUFFICES ASSUME T # {} PROVE FALSE
    OBVIOUS
  <2>1. PICK n \in T : \A j \in T : n <= j
    <3>1. T \in SUBSET Nat
      BY <1>0
    <3> QED BY <3>1, LeastNumber
  <2>2. n \in 0 .. Len(s) /\ n \in Nat /\ ~Good(n)
    BY <1>0, <2>1
  <2>3. CASE n = 0
    <3>1. First(0) = <<>>
      BY SubSeqEmpty
    <3>2. a \o <<>> = a
      BY ConcatEmptySeq
    <3>3. Rest(b, 0) = b
      <4>1. 0 + 1 = 1
        OBVIOUS
      <4> QED BY <4>1, SubSeqFull DEF Rest
    <3>4. Len(a) + 0 = Len(a)
      BY <1>0
    <3>5. Good(0)
      BY <3>1, <3>2, <3>3, <3>4, DoesNothing
    <3> QED BY <2>2, <2>3, <3>5
  <2>4. CASE n # 0
    <3> DEFINE k == n - 1
               d == a \o First(k)
               e == Rest(b, k)
               c == s[n]
    <3>1. k \in Nat /\ k \in 0 .. Len(s) /\ n \in 1 .. Len(s) /\ k + 1 = n /\ k \notin T
      BY <1>0, <2>1, <2>2, <2>4
    <3>2. Good(k)
      BY <3>1
    <3>3. First(k) \in Seq(Printed) /\ Len(First(k)) = k /\ First(n) \in Seq(Printed)
      BY <2>2, <3>1, SplitSeq
    <3>4. c \in Printed
      BY <3>1, ElementOfSeq
    <3>5. d \in Seq(Printed) /\ Len(d) = Len(a) + k
      BY <3>3, ConcatProperties
    <3>6. e \in Seq(Printed)
      BY <3>1, RestFacts
    <3>7. Does(<<c>>, d \o e, Len(d), (d \o <<c>>) \o Rest(e, 1), Len(d) + 1)
      BY <3>4, <3>5, <3>6, DoesPrintOne
    <3>8. Rest(e, 1) = Rest(b, n)
      BY <3>1, RestStep
    <3>9. First(n) = First(k) \o <<c>>
      <4>1. 1 \in 1 .. Len(s) /\ n \in 1 .. Len(s)
        BY <3>1
      <4> QED BY <4>1, SubSeqRecursiveSecond
    <3>10. d \o <<c>> = a \o First(n)
      BY <3>1, ConcatPrefix
    <3>11. Len(d) + 1 = Len(a) + n
      BY <1>0, <3>1, <3>5
    <3>12. Does(<<c>>, d \o e, Len(a) + k, (a \o First(n)) \o Rest(b, n), Len(a) + n)
      BY <3>5, <3>7, <3>8, <3>10, <3>11
    <3>13. Does(First(k), a \o b, Len(a), d \o e, Len(a) + k)
      BY <3>2
    <3> HIDE DEF d, e, c, k
    <3>14. Does(First(k) \o <<c>>, a \o b, Len(a), (a \o First(n)) \o Rest(b, n), Len(a) + n)
      BY <3>12, <3>13, DoesCompose
    <3>15. Good(n)
      BY <3>9, <3>14
    <3> QED BY <2>2, <3>15
  <2> QED BY <2>3, <2>4
<1>2. Len(s) \in 0 .. Len(s)
  BY <1>0
<1>3. Good(Len(s))
  BY <1>1, <1>2
<1>4. First(Len(s)) = s
  BY SubSeqFull
<1> HIDE DEF First
<1> QED BY <1>3, <1>4

\* A text that is at least as long as what it is printed over.
LEMMA DoesPrintOver ==
  ASSUME CompletionsAreNames,
         NEW a \in Seq(Printed), NEW b \in Seq(Printed), NEW s \in Seq(Printed),
         Len(b) <= Len(s)
  PROVE  Does(s, a \o b, Len(a), a \o s, Len(a) + Len(s))
<1>1. Len(s) \in Nat /\ Len(b) \in Nat
  BY LenProperties
<1>2. Rest(b, Len(s)) = <<>>
  <2>1. Len(b) < Len(s) + 1
    BY <1>1
  <2> QED BY <1>1, <2>1, SubSeqEmpty DEF Rest
<1>3. a \o s \in Seq(Printed)
  BY ConcatProperties
<1>4. (a \o s) \o <<>> = a \o s
  BY <1>3, ConcatEmptySeq
<1> QED BY <1>2, <1>4, DoesPrint

\* A character is printed on a line of which nothing is known.
LEMMA LostPrintOne ==
  ASSUME CompletionsAreNames,
         NEW c \in Texts \cup {"p", ">", Newline}, NEW x \in Int
  PROVE  \E y \in Int : /\ Does(<<c>>, Lost, x, Lost, y)
                        /\ c \notin Ignored => y = IF c = Newline THEN 0 ELSE x + 1
<1> DEFINE y == IF c \in Ignored THEN x ELSE IF c = Newline THEN 0 ELSE x + 1
<1>1. c \in Chars /\ c \notin {ESC, Tab, Return}
  BY PrintedNames DEF Chars, Marks, Newline, ESC, Tab, Return
<1>2. <<c>> \in Seq(Chars)
  BY <1>1, OneSeq
<1>3. y \in Int /\ (c \notin Ignored => y = IF c = Newline THEN 0 ELSE x + 1)
  OBVIOUS
<1>4. ASSUME NEW t, Shows(t, Lost, x)
      PROVE  \E u : Run("terminal", t, <<c>>, u) /\ Shows(u, Lost, y)
  <2> DEFINE u == ScreenWrite(t, c)
  <2>1. /\ IsTerminal(t) /\ t.status = "text" /\ t.count = 0 /\ t.parameters = NoParameters
        /\ t.x = x /\ t.y = 0
    BY <1>4 DEF Shows
  <2>2. Shows(u, Lost, y) /\ (t.stray => u.stray)
    <3>1. CASE c \in Ignored
      <4>1. u = t /\ y = x
        BY <3>1 DEF ScreenWrite
      <4> QED BY <1>4, <4>1
    <3>2. CASE c \notin Ignored
      <4> DEFINE doc == DocInsert(t.doc, t.x, t.y, c)
                 stray == t.stray \/ ~InsertSafe(t.doc, t.x, t.y, c)
                 z == IF c = Newline THEN 0 ELSE t.x + 1
      <4>1. u = [t EXCEPT !.doc = doc, !.stray = stray, !.x = z]
        BY <3>2 DEF ScreenWrite
      <4>2. stray \in BOOLEAN /\ (t.stray => stray)
        OBVIOUS
      <4>3. z \in Int /\ z = y
        BY <2>1, <3>2
      <4> HIDE DEF doc, stray, z, u, y
      <4>4. /\ u.status = t.status /\ u.count = t.count /\ u.parameters = t.parameters
            /\ u.doc = doc /\ u.x = z /\ u.y = t.y /\ u.stray = stray
        BY <2>1, <4>1 DEF IsTerminal
      <4>5. IsTerminal(u)
        BY <2>1, <4>1, <4>2, <4>3, <4>4 DEF IsTerminal
      <4> QED BY <2>1, <4>2, <4>3, <4>4, <4>5 DEF Shows
    <3> QED BY <3>1, <3>2
  <2>3. ProcessOutput(t, c) = u
    BY <1>1, <2>1 DEF ProcessOutput
  <2>4. Answer(t, c, 80, 25) = <<>>
    BY <2>1 DEF Answer
  <2> HIDE DEF u
  <2>5. Step("terminal", t, c, u)
    BY <2>2, <2>3, <2>4 DEF Step
  <2> QED BY <2>2, <2>5, RunOne
<1>5. Does(<<c>>, Lost, x, Lost, y)
  BY <1>2, <1>4 DEF Does
<1> QED BY <1>3, <1>5

\* A new line below the others.
LEMMA DoesNewline ==
  ASSUME NEW l, l # Lost, NEW x \in Int
  PROVE  Does(<<Newline>>, l, x, <<>>, 0)
<1>1. Newline \in Chars /\ Newline \notin {ESC, Tab, Return}
  BY DEF Chars, Marks, Newline, ESC, Tab, Return
<1>2. <<Newline>> \in Seq(Chars)
  BY <1>1, OneSeq
<1>3. ASSUME NEW t, Shows(t, l, x)
      PROVE  \E u : Run("terminal", t, <<Newline>>, u) /\ Shows(u, <<>>, 0)
  <2>1. /\ IsTerminal(t) /\ t.status = "text" /\ t.count = 0 /\ t.parameters = NoParameters
        /\ t.doc # <<>> /\ t.doc[1] = l /\ t.x = x /\ t.y = 0 /\ ~t.stray
        /\ t.doc \in Seq(Seq(Printed))
    BY <1>3 DEF Shows, Fits
  <2>2. t.doc \in Seq(Seq(Printed)) /\ Len(t.doc) \in Nat \ {0}
    BY <2>1, EmptySeq
  <2> DEFINE doc == InsertAt(t.doc, 1, <<>>)
             u == ScreenWrite(t, Newline)
  <2>3. doc \in Seq(Seq(Printed)) /\ doc # <<>> /\ doc[1] = <<>>
    <3> DEFINE e == <<>>
               r == SubSeq(t.doc, 1, Len(t.doc))
    <3>1. doc = SubSeq(t.doc, 1, 0) \o <<e>> \o r
      BY DEF InsertAt
    <3>2. SubSeq(t.doc, 1, 0) = <<>>
      BY SubSeqEmpty
    <3>3. r = t.doc
      BY <2>2, SubSeqFull
    <3>4. e \in Seq(Printed)
      OBVIOUS
    <3> HIDE DEF e, r
    <3>5. <<e>> \in Seq(Seq(Printed))
      BY <3>4, OneSeq
    <3>6. <<>> \o <<e>> = <<e>>
      BY <3>5, ConcatEmptySeq
    <3>7. doc = <<e>> \o t.doc
      BY <3>1, <3>2, <3>3, <3>6
    <3> HIDE DEF doc
    <3>8. <<e>> \o t.doc \in Seq(Seq(Printed)) /\ <<e>> \o t.doc # <<>> /\ Head(<<e>> \o t.doc) = e
      BY <2>2, <3>4, HeadOfConcat
    <3>9. doc[1] = e
      BY <3>7, <3>8, HeadTailConcat
    <3> QED BY <3>7, <3>8, <3>9 DEF e
  <2>5. HasLine(t.doc, 0)
    BY <2>2 DEF HasLine
  <2>6. DocInsert(t.doc, t.x, t.y, Newline) = doc
    BY <2>1, <2>5 DEF DocInsert
  <2>7. InsertSafe(t.doc, t.x, t.y, Newline)
    BY DEF InsertSafe
  <2>8. u = [t EXCEPT !.doc = doc, !.stray = FALSE, !.x = 0]
    BY <2>1, <2>6, <2>7, IgnoredAssumption DEF ScreenWrite
  <2> HIDE DEF doc, u
  <2>9. IsTerminal(u)
    <3>1. 0 \in Int /\ FALSE \in BOOLEAN
      OBVIOUS
    <3> QED BY <2>1, <2>3, <2>8, <3>1 DEF IsTerminal
  <2>10. /\ u.status = "text" /\ u.count = 0 /\ u.parameters = NoParameters
         /\ u.doc = doc /\ u.x = 0 /\ u.y = 0 /\ ~u.stray
    BY <2>1, <2>8 DEF IsTerminal
  <2>11. Shows(u, <<>>, 0)
    BY <2>3, <2>9, <2>10 DEF Shows, Fits
  <2>12. ProcessOutput(t, Newline) = u
    BY <1>1, <2>1 DEF ProcessOutput, u
  <2>13. Answer(t, Newline, 80, 25) = <<>>
    BY <2>1 DEF Answer
  <2>14. Step("terminal", t, Newline, u)
    BY <2>1, <2>12, <2>13 DEF Step
  <2> QED BY <2>11, <2>14, RunOne
<1> QED BY <1>2, <1>3 DEF Does

\* One element behind a sequence.
LEMMA ConcatOne ==
  ASSUME NEW S, NEW s \in Seq(S), NEW c \in S, NEW r \in Seq(S),
         Len(r) = Len(s) + 1, r[Len(s) + 1] = c, \A i \in 1 .. Len(s) : r[i] = s[i]
  PROVE  r = s \o <<c>>
<1> DEFINE p == s \o <<c>>
<1>1. <<c>> \in Seq(S) /\ Len(<<c>>) = 1 /\ <<c>>[1] = c /\ Len(s) \in Nat
  BY OneSeq, LenProperties
<1>2. p \in Seq(S) /\ Len(p) = Len(s) + 1
      /\ \A i \in 1 .. Len(s) + 1 : p[i] = IF i <= Len(s) THEN s[i] ELSE <<c>>[i - Len(s)]
  BY <1>1, ConcatProperties
<1> HIDE DEF p
<1>3. ASSUME NEW i \in 1 .. Len(p) PROVE p[i] = r[i]
  <2>1. CASE i <= Len(s)
    BY <1>1, <1>2, <2>1
  <2>2. CASE ~(i <= Len(s))
    <3>1. i = Len(s) + 1 /\ i - Len(s) = 1 /\ i \in 1 .. Len(s) + 1
      BY <1>1, <1>2, <2>2
    <3> QED BY <1>1, <1>2, <2>2, <3>1
  <2> QED BY <2>1, <2>2
<1>4. p = r
  BY <1>2, <1>3, SeqEqual
<1> QED BY <1>4 DEF p

\* The text of a sequence, part by part.
LEMMA TupleParts ==
  ASSUME NEW a, NEW b, NEW c, NEW d
  PROVE  /\ <<a, b>> = <<a>> \o <<>> \o <<b>>
         /\ <<a, b, c>> = <<a>> \o <<b>> \o <<c>>
         /\ <<a, b, c, d>> = <<a>> \o (<<b>> \o <<c>>) \o <<d>>
<1> DEFINE S == {a, b, c, d}
           A == <<a>>
           B == <<b>>
           C == <<c>>
           D == <<d>>
           AB == <<a, b>>
           ABC == <<a, b, c>>
           ABCD == <<a, b, c, d>>
<1>1. /\ A \in Seq(S) /\ Len(A) = 1 /\ A[1] = a
      /\ B \in Seq(S) /\ C \in Seq(S) /\ a \in S /\ b \in S /\ c \in S /\ d \in S
  OBVIOUS
<1>2. AB \in Seq(S) /\ Len(AB) = 1 + 1 /\ AB[1] = a /\ AB[1 + 1] = b
  OBVIOUS
<1>3. ABC \in Seq(S) /\ Len(ABC) = 2 + 1 /\ ABC[1] = a /\ ABC[2] = b /\ ABC[2 + 1] = c
  OBVIOUS
<1>4. ABCD \in Seq(S) /\ Len(ABCD) = 3 + 1 /\ ABCD[1] = a /\ ABCD[2] = b /\ ABCD[3] = c
      /\ ABCD[3 + 1] = d
  OBVIOUS
<1> HIDE DEF S, A, B, C, D, AB, ABC, ABCD
<1>5. AB = A \o B
  <2>1. \A i \in 1 .. 1 : AB[i] = A[i]
    BY <1>1, <1>2
  <2>2. AB = A \o <<b>>
    BY <1>1, <1>2, <2>1, ConcatOne
  <2> QED BY <2>2 DEF B
<1>6. ABC = AB \o C
  <2>1. \A i \in 1 .. 2 : ABC[i] = AB[i]
    <3>1. \A i \in 1 .. 2 : i = 1 \/ i = 2
      OBVIOUS
    <3> QED BY <1>2, <1>3, <3>1
  <2>2. /\ AB \in Seq(S) /\ c \in S /\ ABC \in Seq(S)
        /\ Len(ABC) = Len(AB) + 1 /\ ABC[Len(AB) + 1] = c
        /\ \A i \in 1 .. Len(AB) : ABC[i] = AB[i]
    <3>1. Len(AB) = 2
      BY <1>2
    <3> QED BY <1>1, <1>2, <1>3, <2>1, <3>1
  <2>3. ABC = AB \o <<c>>
    BY <2>2, ConcatOne
  <2> QED BY <2>3 DEF C
<1>7. ABCD = ABC \o D
  <2>1. \A i \in 1 .. 3 : ABCD[i] = ABC[i]
    <3>1. \A i \in 1 .. 3 : i = 1 \/ i = 2 \/ i = 3
      OBVIOUS
    <3> QED BY <1>3, <1>4, <3>1
  <2>2. /\ ABC \in Seq(S) /\ d \in S /\ ABCD \in Seq(S)
        /\ Len(ABCD) = Len(ABC) + 1 /\ ABCD[Len(ABC) + 1] = d
        /\ \A i \in 1 .. Len(ABC) : ABCD[i] = ABC[i]
    <3>1. Len(ABC) = 3
      BY <1>3
    <3> QED BY <1>1, <1>3, <1>4, <2>1, <3>1
  <2>3. ABCD = ABC \o <<d>>
    BY <2>2, ConcatOne
  <2> QED BY <2>3 DEF D
<1>8. A \o <<>> = A
  BY <1>1, ConcatEmptySeq
<1>9. (A \o B) \o C = A \o (B \o C)
  <2>1. A \in Seq(S) /\ B \in Seq(S) /\ C \in Seq(S)
    BY <1>1
  <2> QED BY <2>1, ConcatAssociative
<1>10. AB = (A \o <<>>) \o B /\ ABC = (A \o B) \o C /\ ABCD = (A \o (B \o C)) \o D
  BY <1>5, <1>6, <1>7, <1>8, <1>9
<1> QED BY <1>10 DEF A, B, C, D, AB, ABC, ABCD

\* The last character of the line is removed.
LEMMA DoesRemove ==
  ASSUME CompletionsAreNames, NEW a \in Seq(Printed), NEW c \in Printed
  PROVE  Does(RemoveChar, a \o <<c>>, Len(a), a, Len(a))
<1> DEFINE l == a \o <<c>>
           x == Len(a)
<1>0. x \in Nat
  BY LenProperties
<1>1. l \in Seq(Printed) /\ Len(l) = x + 1 /\ l # <<>>
  <2>1. <<c>> \in Seq(Printed) /\ Len(<<c>>) = 1
    BY OneSeq
  <2>2. l \in Seq(Printed) /\ Len(l) = x + 1
    BY <2>1, ConcatProperties
  <2> QED BY <1>0, <2>2
<1>2. LineRemove(l, x) = a
  <2>1. <<c>> \in Seq(Printed)
    BY OneSeq
  <2>2. SubSeq(l, 1, x) = a
    BY <2>1, SplitConcat
  <2>3. SubSeq(l, x + 1 + 1, Len(l)) = <<>>
    BY <1>0, <1>1, SubSeqEmpty
  <2>4. x + 1 - 1 = x
    BY <1>0
  <2>5. RemoveAt(l, x + 1) = a \o <<>>
    BY <2>2, <2>3, <2>4 DEF RemoveAt
  <2> QED BY <1>1, <2>5, ConcatEmptySeq DEF LineRemove
<1>9. l # Lost
  BY <1>1, PrintedNames
<1> HIDE DEF l, x
<1>3. "x" \in Chars /\ "x" \notin Digits \cup {";", "n", "i"}
  BY Enders
<1>4. NoReply \in Readings /\ Run("parameter", NoReply, <<>>, NoReply) /\ <<>> \in Seq(Chars)
  BY RunEmpty DEF NoReply, NoParameters, Readings, MaxParameters
<1>5. ASSUME NEW t, Shows(t, l, x)
      PROVE  LET u == Final(With(t, "ghostterm", NoReply), "ghostterm", "x")
             IN Shows(u, a, x) /\ (t.stray => u.stray)
  <2> DEFINE w == With(t, "ghostterm", NoReply)
             v == SequenceGhostterm(w, "x")
             doc == [t.doc EXCEPT ![1] = a]
  <2>1. /\ IsTerminal(t) /\ t.doc # <<>> /\ t.doc[1] = l /\ t.x = x /\ t.y = 0 /\ ~t.stray
        /\ t.doc \in Seq(Seq(Printed))
    BY <1>5, <1>9 DEF Shows, Fits
  <2>2. IsTerminal(w)
    BY <1>4, <2>1, WithType
  <2>3. w.doc = t.doc /\ w.x = t.x /\ w.y = t.y /\ w.stray = t.stray
    BY <2>1 DEF With, IsTerminal
  <2> HIDE DEF w
  <2>4. t.doc \in Seq(Seq(Printed)) /\ Len(t.doc) \in Nat \ {0}
    BY <2>1, EmptySeq
  <2>5. doc \in Seq(Seq(Printed)) /\ Len(doc) = Len(t.doc) /\ doc[1] = a
    <3>1. 1 \in 1 .. Len(t.doc)
      BY <2>4
    <3> QED BY <2>4, <3>1, ExceptSeq
  <2>6. doc # <<>>
    BY <2>4, <2>5
  <2>7. HasLine(t.doc, 0)
    BY <2>4 DEF HasLine
  <2>8. DocRemove(w.doc, w.x, w.y) = doc
    <3>1. 0 + 1 = 1
      OBVIOUS
    <3>2. [t.doc EXCEPT ![1] = LineRemove(@, x)] = doc
      BY <1>2, <2>1
    <3> QED BY <2>1, <2>3, <2>7, <3>1, <3>2 DEF DocRemove
  <2>9. RemoveSafe(w.doc, w.x, w.y)
    <3>1. x \in 0 .. Len(l) - 1 /\ 0 + 1 = 1
      BY <1>0, <1>1
    <3> QED BY <2>1, <2>3, <3>1 DEF RemoveSafe
  <2>10. v = [w EXCEPT !.doc = doc]
    BY <2>8, <2>9 DEF SequenceGhostterm, ScreenRemove
  <2> HIDE DEF v, doc
  <2>11. IsTerminal(v) /\ v.doc = doc /\ v.stray = w.stray /\ v.x = w.x /\ v.y = w.y
    BY <2>2, <2>5, <2>10 DEF IsTerminal
  <2>14. Fits(v, a)
    BY <2>1, <2>3, <2>5, <2>6, <2>11 DEF Fits
  <2>12. Shows(EndSequence(v), a, x)
    BY <2>1, <2>3, <2>11, <2>14, EndShows
  <2>13. Final(w, "ghostterm", "x") = EndSequence(v)
    BY DEF Final, v
  <2> QED BY <2>1, <2>12, <2>13 DEF w
<1>6. "{" \in {"[", "{"} /\ "{" # "["
  OBVIOUS
<1>7. Does(<<ESC>> \o (<<"{">> \o <<>> \o <<"x">>), l, x, a, x)
  BY <1>3, <1>4, <1>5, <1>6, DoesSequence
<1>8. <<"{", "x">> = <<"{">> \o <<>> \o <<"x">>
  BY TupleParts, ZenonT(60)
<1> QED BY <1>7, <1>8 DEF RemoveChar, Command, l, x

\* A character is removed from a line of which nothing is known.
LEMMA LostRemove ==
  ASSUME NEW x \in Int
  PROVE  Does(RemoveChar, Lost, x, Lost, x)
<1>3. "x" \in Chars /\ "x" \notin Digits \cup {";", "n", "i"}
  BY Enders
<1>4. NoReply \in Readings /\ Run("parameter", NoReply, <<>>, NoReply) /\ <<>> \in Seq(Chars)
  BY RunEmpty DEF NoReply, NoParameters, Readings, MaxParameters
<1>5. ASSUME NEW t, Shows(t, Lost, x)
      PROVE  LET u == Final(With(t, "ghostterm", NoReply), "ghostterm", "x")
             IN Shows(u, Lost, x) /\ (t.stray => u.stray)
  <2> DEFINE w == With(t, "ghostterm", NoReply)
             v == SequenceGhostterm(w, "x")
  <2>1. IsTerminal(t) /\ t.x = x /\ t.y = 0
    BY <1>5 DEF Shows
  <2>2. IsTerminal(w)
    BY <1>4, <2>1, WithType
  <2>3. w.x = t.x /\ w.y = t.y /\ w.stray = t.stray
    BY <2>1, WithFacts
  <2> HIDE DEF w
  <2>4. v = ScreenRemove(w)
    BY DEF SequenceGhostterm
  <2> HIDE DEF v
  <2>5. IsTerminal(v) /\ v.x = w.x /\ v.y = w.y /\ (w.stray => v.stray)
    <3>1. CASE RemoveSafe(w.doc, w.x, w.y)
      <4>1. v = [w EXCEPT !.doc = DocRemove(w.doc, w.x, w.y)]
        BY <2>4, <3>1 DEF ScreenRemove
      <4> QED BY <2>2, <4>1 DEF IsTerminal
    <3>2. CASE ~RemoveSafe(w.doc, w.x, w.y)
      <4>1. v = [w EXCEPT !.stray = TRUE]
        BY <2>4, <3>2 DEF ScreenRemove
      <4> QED BY <2>2, <4>1 DEF IsTerminal
    <3> QED BY <3>1, <3>2
  <2>6. Shows(EndSequence(v), Lost, x) /\ EndSequence(v).stray = v.stray
    BY <2>1, <2>3, <2>5, EndShows
  <2>7. Final(w, "ghostterm", "x") = EndSequence(v)
    BY DEF Final, v
  <2> QED BY <2>3, <2>5, <2>6, <2>7 DEF w
<1>6. "{" \in {"[", "{"} /\ "{" # "["
  OBVIOUS
<1>7. Does(<<ESC>> \o (<<"{">> \o <<>> \o <<"x">>), Lost, x, Lost, x)
  BY <1>3, <1>4, <1>5, <1>6, DoesSequence
<1>8. <<"{", "x">> = <<"{">> \o <<>> \o <<"x">>
  BY TupleParts, ZenonT(60)
<1> QED BY <1>7, <1>8 DEF RemoveChar, Command

\* One and two digits.
LEMMA ShortNumbers ==
  ASSUME NEW j \in 0 .. 9, NEW k \in 0 .. 9
  PROVE  /\ Run("parameter", NoReply, <<Digit[j + 1]>>, Put(NoReply, j))
         /\ Run("parameter", NoReply, <<Digit[j + 1]>> \o <<Digit[k + 1]>>, Put(NoReply, j * 10 + k))
         /\ <<Digit[j + 1]>> \in Seq(Chars)
         /\ <<Digit[j + 1]>> \o <<Digit[k + 1]>> \in Seq(Chars)
         /\ Put(NoReply, j) \in Readings /\ Put(NoReply, j * 10 + k) \in Readings
         /\ Put(NoReply, j).parameters[1] = j /\ Put(NoReply, j).count = 1
<1>1. NoReply \in Readings /\ NoReply.parameters[1] = 0 /\ Current(NoReply) = 1
  BY DEF NoReply, NoParameters, Readings, MaxParameters, Current
<1>2. j \in Nat /\ j * 10 + k \in Nat /\ 0 * 10 + j = j
  OBVIOUS
<1>3. Step("parameter", NoReply, Digit[j + 1], Put(NoReply, j))
  BY <1>1, <1>2, ReadDigitPut
<1> DEFINE r == Put(NoReply, j)
<1>4. r \in Readings /\ Current(r) = 1 /\ r.parameters[1] = j /\ Put(r, j * 10 + k) = Put(NoReply, j * 10 + k)
  BY <1>1, <1>2, PutFacts
<1>5. Put(NoReply, j * 10 + k) \in Readings
  BY <1>1, <1>2, PutFacts
<1>6. r.count = 1
  BY <1>1 DEF Put
<1> HIDE DEF r
<1>7. Step("parameter", r, Digit[k + 1], Put(NoReply, j * 10 + k))
  BY <1>4, ReadDigitPut
<1>8. Digit[j + 1] \in Chars /\ Digit[k + 1] \in Chars
  BY DigitRead DEF Chars
<1> DEFINE d == <<Digit[j + 1]>>
           e == <<Digit[k + 1]>>
<1>9. d \in Seq(Chars) /\ e \in Seq(Chars)
  BY <1>8, OneSeq
<1>10. Run("parameter", NoReply, d, r) /\ Run("parameter", r, e, Put(NoReply, j * 10 + k))
  BY <1>3, <1>7, RunOne DEF r
<1> HIDE DEF d, e
<1>11. Run("parameter", NoReply, d \o e, Put(NoReply, j * 10 + k))
  BY <1>9, <1>10, RunCompose
<1>12. d \o e \in Seq(Chars)
  BY <1>9, ConcatProperties
<1> QED BY <1>4, <1>5, <1>6, <1>9, <1>10, <1>11, <1>12 DEF r, d, e

\* The colours are not modelled.
LEMMA DoesColour ==
  ASSUME NEW l, NEW x \in Int
  PROVE  /\ Does(Command(<<"[", "3", "8", "m">>), l, x, l, x)
         /\ Does(Command(<<"[", "0", "m">>), l, x, l, x)
<1>1. Digit[3 + 1] = "3" /\ Digit[8 + 1] = "8" /\ Digit[0 + 1] = "0"
  BY DEF Digit
<1>2. ASSUME NEW r PROVE Moves(r, "m", x, x)
  BY ZenonT(60) DEF Moves, SequenceVt100, IsTerminal
<1>3. "m" \in {"f", "D", "C", "m"} /\ 3 \in 0 .. 9 /\ 8 \in 0 .. 9 /\ 0 \in 0 .. 9
  OBVIOUS
<1>4. Does(<<ESC>> \o (<<"[">> \o (<<"3">> \o <<"8">>) \o <<"m">>), l, x, l, x)
  <2> DEFINE s == <<"3">> \o <<"8">>
             r == Put(NoReply, 3 * 10 + 8)
  <2>1. s \in Seq(Chars) /\ r \in Readings /\ Run("parameter", NoReply, s, r)
    BY <1>1, <1>3, ShortNumbers
  <2> HIDE DEF s, r
  <2>2. Does(<<ESC>> \o (<<"[">> \o s \o <<"m">>), l, x, l, x)
    BY <1>2, <1>3, <2>1, DoesMove
  <2> QED BY <2>2 DEF s
<1>5. Does(<<ESC>> \o (<<"[">> \o <<"0">> \o <<"m">>), l, x, l, x)
  <2> DEFINE s == <<"0">>
             r == Put(NoReply, 0)
  <2>1. s \in Seq(Chars) /\ r \in Readings /\ Run("parameter", NoReply, s, r)
    BY <1>1, <1>3, ShortNumbers
  <2> HIDE DEF s, r
  <2>2. Does(<<ESC>> \o (<<"[">> \o s \o <<"m">>), l, x, l, x)
    BY <1>2, <1>3, <2>1, DoesMove
  <2> QED BY <2>2 DEF s
<1>6. <<"[", "3", "8", "m">> = <<"[">> \o (<<"3">> \o <<"8">>) \o <<"m">>
  BY TupleParts
<1>7. <<"[", "0", "m">> = <<"[">> \o <<"0">> \o <<"m">>
  BY TupleParts
<1> QED BY <1>4, <1>5, <1>6, <1>7 DEF Command

\* The answer to a query, when the cursor is at x in the newest line.
Answered(x) == <<ESC, "[">> \o Decimal(0) \o <<";">> \o Decimal(x) \o <<"R">>

\* The query without its last character, and a terminal that has read it: it
\* answers with the position that it will show.
Query == <<ESC>> \o <<"[">> \o <<"6">>
Asked(w, u) ==
  /\ Answer(w, "n", 80, 25) = Answered(u.x) /\ ProcessOutput(w, "n") = u
  /\ w.stray => u.stray

\* A query of the cursor.
LEMMA DoesQuery ==
  ASSUME NEW l, NEW x, NEW t, Shows(t, l, x)
  PROVE  \E w, u : Run("terminal", t, Query, w) /\ Asked(w, u) /\ Shows(u, l, x)
<1> DEFINE r == Put(NoReply, 6)
           w == With(t, "vt100", r)
           u == EndSequence(w)
<1>1. Digit[6 + 1] = "6" /\ 6 \in 0 .. 9 /\ "[" \in {"[", "{"}
  BY DEF Digit
<1>2. <<"6">> \in Seq(Chars) /\ Run("parameter", NoReply, <<"6">>, r) /\ r \in Readings /\ r.parameters[1] = 6
  BY <1>1, ShortNumbers
<1> HIDE DEF r
<1>3. /\ IsTerminal(t) /\ t.status = "text" /\ t.count = 0 /\ t.parameters = NoParameters
      /\ t.x = x /\ t.y = 0 /\ (l # Lost => Fits(t, l))
  BY DEF Shows
<1>4. Run("terminal", t, Query, w)
  <2> DEFINE s == <<"6">>
  <2>1. s \in Seq(Chars) /\ Run("parameter", NoReply, s, r)
    BY <1>2
  <2> HIDE DEF s
  <2>2. Run("terminal", t, <<ESC>> \o <<"[">> \o s, w)
    BY <1>1, <1>3, <2>1, SequencePrefix
  <2> QED BY <2>2 DEF Query, s
<1>5. /\ IsTerminal(w) /\ w.status = "vt100" /\ w.parameters = r.parameters
      /\ w.doc = t.doc /\ w.x = t.x /\ w.y = t.y /\ w.stray = t.stray
  <2>1. IsTerminal(w)
    BY <1>2, <1>3, WithType
  <2> QED BY <1>3, <2>1 DEF With, IsTerminal
<1> HIDE DEF w
<1>12. l # Lost => Fits(w, l)
  BY <1>3, <1>5 DEF Fits
<1>6. Shows(u, l, x) /\ u.stray = w.stray
  BY <1>3, <1>5, <1>12, EndShows
<1>7. "n" \notin Digits /\ "n" # ";"
  BY DigitSet
<1>8. ProcessOutput(w, "n") = u
  <2>1. ProcessOutput(w, "n") = SequenceChar(w, "n")
    BY <1>5 DEF ProcessOutput
  <2>2. SequenceVt100(w, "n") = w
    BY DEF SequenceVt100
  <2>3. SequenceChar(w, "n") = EndSequence(w)
    BY <1>5, <1>7, <2>2 DEF SequenceChar
  <2> QED BY <2>1, <2>3
<1>9. u.x = x
  BY <1>6 DEF Shows
<1> HIDE DEF u
<1>10. Answer(w, "n", 80, 25) = Answered(u.x)
  BY <1>2, <1>3, <1>5, <1>9 DEF Answer, Answered
<1>11. Asked(w, u)
  BY <1>6, <1>8, <1>10 DEF Asked
<1> QED BY <1>4, <1>6, <1>11

\* The query is that and its last character.
LEMMA QueryText ==
  Query \in Seq(Chars) /\ QueryCursor = Query \o <<"n">>
<1>1. "[" \in Chars /\ "n" \in Chars /\ ESC \in Chars
  BY DEF Chars, Marks
<1>2. "6" \in Chars
  BY DigitSet DEF Chars
<1>3. <<"6">> \in Seq(Chars) /\ <<ESC>> \in Seq(Chars) /\ <<"[">> \in Seq(Chars)
  BY <1>1, <1>2, OneSeq
<1>4. Query \in Seq(Chars)
  BY <1>3, ConcatProperties DEF Query
<1> DEFINE s == <<"6">>
<1>5. <<ESC>> \o (<<"[">> \o s \o <<"n">>) = (<<ESC>> \o <<"[">> \o s) \o <<"n">>
  <2>1. s \in Seq(Chars)
    BY <1>3
  <2> HIDE DEF s
  <2> QED BY <1>1, <2>1, SequenceText
<1>6. <<"[", "6", "n">> = <<"[">> \o s \o <<"n">>
  BY TupleParts
<1> QED BY <1>4, <1>5, <1>6 DEF QueryCursor, Command, Query

\* The answer, part by part.
LEMMA AnsweredText ==
  ASSUME NEW x \in Nat
  PROVE  /\ Answered(x) = <<ESC>> \o (<<"[">> \o (Column(x) \o <<"R">>))
         /\ Answered(x) \in Seq(Chars)
<1> DEFINE e == <<ESC>>
           f == <<"[">>
           g == <<"R">>
           h == <<";">>
           p == Decimal(0)
           q == Decimal(x)
<1>1. "[" \in Chars /\ ESC \in Chars /\ "R" \in Chars /\ ";" \in Chars
  BY DEF Chars, Marks
<1>2. e \in Seq(Chars) /\ f \in Seq(Chars) /\ g \in Seq(Chars) /\ h \in Seq(Chars)
  BY <1>1, OneSeq
<1>3. p \in Seq(Chars) /\ q \in Seq(Chars)
  BY NumberRead
<1>4. <<ESC, "[">> = e \o f
  <2>1. <<ESC, "[">> = <<ESC>> \o <<>> \o <<"[">>
    BY TupleParts
  <2>2. <<ESC>> \o <<>> = <<ESC>>
    BY <1>2, ConcatEmptySeq
  <2> QED BY <2>1, <2>2
<1>5. Answered(x) = ((((e \o f) \o p) \o h) \o q) \o g
  BY <1>4 DEF Answered
<1>6. Column(x) = (p \o h) \o q
  BY DEF Column
<1> HIDE DEF e, f, g, h, p, q
<1> DEFINE ef == e \o f
           ph == p \o h
           c == ph \o q
           cg == c \o g
<1>7. ef \in Seq(Chars) /\ ph \in Seq(Chars)
  BY <1>2, <1>3, ConcatProperties
<1>8. (ef \o p) \o h = ef \o ph
  <2>1. ef \in Seq(Chars) /\ p \in Seq(Chars) /\ h \in Seq(Chars)
    BY <1>2, <1>3, <1>7
  <2> HIDE DEF ef
  <2> QED BY <2>1, ConcatAssociative
<1>9. c \in Seq(Chars)
  BY <1>3, <1>7, ConcatProperties
<1>10. (ef \o ph) \o q = ef \o c
  <2>1. ef \in Seq(Chars) /\ ph \in Seq(Chars) /\ q \in Seq(Chars)
    BY <1>3, <1>7
  <2> HIDE DEF ef, ph
  <2> QED BY <2>1, ConcatAssociative
<1>11. (ef \o c) \o g = ef \o cg
  <2>1. ef \in Seq(Chars) /\ c \in Seq(Chars) /\ g \in Seq(Chars)
    BY <1>2, <1>7, <1>9
  <2> HIDE DEF ef, c
  <2> QED BY <2>1, ConcatAssociative
<1>12. cg \in Seq(Chars)
  BY <1>2, <1>9, ConcatProperties
<1>13. (e \o f) \o cg = e \o (f \o cg)
  <2>1. e \in Seq(Chars) /\ f \in Seq(Chars) /\ cg \in Seq(Chars)
    BY <1>2, <1>12
  <2> HIDE DEF cg
  <2> QED BY <2>1, ConcatAssociative
<1>14. Answered(x) = ef \o cg
  BY <1>5, <1>8, <1>10, <1>11
<1>15. Answered(x) \in Seq(Chars)
  BY <1>7, <1>12, <1>14, ConcatProperties
<1>16. Answered(x) = e \o (f \o cg)
  BY <1>13, <1>14
<1> QED BY <1>6, <1>15, <1>16 DEF e, f, g

\* The first output of the shell, whatever the parameters of a new stream.
LEMMA DoesClear ==
  ASSUME NEW g \in {0, 7},
         NEW t, t = NewTerminal([i \in 1 .. MaxParameters |-> g])
  PROVE  /\ Command(<<"[", "2", "J">>) \o SetCursor(0, 0) \in Seq(Chars)
         /\ \E u : /\ Run("terminal", t, Command(<<"[", "2", "J">>) \o SetCursor(0, 0), u)
                   /\ Shows(u, <<>>, 0)
<1>1. IsTerminal(t) /\ t.status = "text" /\ t.count = 0 /\ ~t.stray /\ t.x = 0 /\ t.y = 0
      /\ EmptyDocument \in Seq(Seq(Printed))
      /\ t.doc = EmptyDocument /\ t.parameters = [i \in 1 .. MaxParameters |-> g]
  <2>1. [i \in 1 .. MaxParameters |-> g] \in [1 .. MaxParameters -> Nat]
    OBVIOUS
  <2>2. EmptyDocument \in Seq(Seq(Printed))
    <3> DEFINE e == <<>>
    <3>1. e \in Seq(Printed)
      OBVIOUS
    <3> HIDE DEF e
    <3>2. <<e>> \in Seq(Seq(Printed))
      BY <3>1, OneSeq
    <3> QED BY <3>2 DEF EmptyDocument, e
  <2>3. 0 \in 0 .. MaxParameters /\ FALSE \in BOOLEAN /\ TRUE \in BOOLEAN
    BY DEF MaxParameters
  <2>4. IsTerminal(t)
    BY <2>1, <2>2, <2>3 DEF NewTerminal, IsTerminal
  <2> QED BY <2>2, <2>4 DEF NewTerminal
<1>2. EmptyDocument # <<>> /\ EmptyDocument[1] = <<>>
  BY DEF EmptyDocument
<1> DEFINE r == [count |-> t.count, parameters |-> t.parameters]
           q == Put(r, g * 10 + 2)
           z == With(t, "vt100", r)
           w == With(t, "vt100", q)
           v == SequenceVt100(w, "J")
           u == EndSequence(v)
<1>3. r \in Readings /\ Current(r) = 1 /\ r.parameters[1] = g
  BY <1>1 DEF Readings, Current, IsTerminal, MaxParameters
<1> HIDE DEF r
<1>4. q \in Readings
  <2>1. g * 10 + 2 \in Nat
    OBVIOUS
  <2> QED BY <1>3, <2>1, PutFacts
<1>5. Step("parameter", r, "2", q)
  <2>1. Digit[2 + 1] = "2" /\ 2 \in 0 .. 9
    BY DEF Digit
  <2> QED BY <1>3, <2>1, ReadDigitPut
<1> HIDE DEF q
<1>6. Run("terminal", t, <<ESC>> \o <<"[">>, z)
  <2>1. "[" \in {"[", "{"}
    OBVIOUS
  <2> QED BY <1>1, <2>1, SequenceBegins DEF r
<1>7. Step("terminal", z, "2", w)
  BY <1>1, <1>5, ParameterStep
<1>8. /\ IsTerminal(w) /\ w.status = "vt100" /\ w.stray = t.stray
      /\ w.doc = t.doc /\ w.x = t.x /\ w.y = t.y
  <2>1. IsTerminal(w)
    BY <1>1, <1>4, WithType
  <2> QED BY <1>1, <2>1 DEF With, IsTerminal
<1> HIDE DEF z, w
<1>9. Step("terminal", w, "J", u)
  <2>1. "J" \notin Digits \cup {";", "n", "i"}
    BY Enders
  <2>2. Final(w, "vt100", "J") = u
    BY DEF Final
  <2>3. (w.stray => u.stray) /\ "vt100" \in {"vt100", "ghostterm"} /\ w.status = "vt100"
    BY <1>1, <1>8
  <2> HIDE DEF u, v
  <2>4. Step("terminal", w, "J", Final(w, "vt100", "J"))
    BY <2>1, <2>2, <2>3, SequenceEnds
  <2> QED BY <2>2, <2>4
<1>10. v = w
  <2>1. [w EXCEPT !.doc = EmptyDocument] = w
    BY <1>1, <1>8 DEF IsTerminal
  <2>2. v = w \/ v = [w EXCEPT !.doc = EmptyDocument]
    BY DEF SequenceVt100
  <2> QED BY <2>1, <2>2
<1>11. Shows(u, <<>>, 0)
  <2>1. Fits(w, <<>>)
    BY <1>1, <1>2, <1>8 DEF Fits
  <2> QED BY <1>1, <1>8, <1>10, <2>1, EndShows
<1> HIDE DEF u
<1> DEFINE a == <<ESC>> \o <<"[">>
           b == <<"2">>
           c == <<"J">>
<1>12. a \in Seq(Chars) /\ b \in Seq(Chars) /\ c \in Seq(Chars)
  <2>1. "[" \in Chars /\ ESC \in Chars /\ "J" \in Chars /\ "2" \in Chars
    BY DigitSet DEF Chars, Marks
  <2>2. <<ESC>> \in Seq(Chars) /\ <<"[">> \in Seq(Chars) /\ b \in Seq(Chars) /\ c \in Seq(Chars)
    BY <2>1, OneSeq
  <2> QED BY <2>2, ConcatProperties
<1>13. Run("terminal", z, b, w) /\ Run("terminal", w, c, u)
  BY <1>7, <1>9, RunOne
<1>14. Command(<<"[", "2", "J">>) = (a \o b) \o c
  <2>1. <<"[", "2", "J">> = <<"[">> \o <<"2">> \o <<"J">>
    BY TupleParts
  <2>2. "[" \in Chars /\ "J" \in Chars
    BY DEF Chars, Marks
  <2>3. <<ESC>> \o (<<"[">> \o b \o <<"J">>) = (<<ESC>> \o <<"[">> \o b) \o <<"J">>
    <3> HIDE DEF b
    <3> QED BY <1>12, <2>2, SequenceText
  <2> QED BY <2>1, <2>3 DEF Command
<1>15. Run("terminal", t, a, z)
  BY <1>6
<1> HIDE DEF a, b, c
<1> DEFINE ab == a \o b
<1>16. ab \in Seq(Chars) /\ Run("terminal", t, ab, w)
  BY <1>12, <1>13, <1>15, RunCompose, ConcatProperties
<1> HIDE DEF ab
<1> DEFINE abc == ab \o c
<1>17. abc \in Seq(Chars) /\ Run("terminal", t, abc, u)
  BY <1>12, <1>13, <1>16, RunCompose, ConcatProperties
<1>18. Command(<<"[", "2", "J">>) = abc
  BY <1>14 DEF ab
<1> HIDE DEF abc
<1>19. Does(SetCursor(0, 0), <<>>, 0, <<>>, 0)
  BY DoesSetCursor
<1>20. PICK y : Run("terminal", u, SetCursor(0, 0), y) /\ Shows(y, <<>>, 0)
  BY <1>11, <1>19 DEF Does
<1>21. SetCursor(0, 0) \in Seq(Chars)
  BY <1>19 DEF Does
<1>22. Run("terminal", t, abc \o SetCursor(0, 0), y) /\ abc \o SetCursor(0, 0) \in Seq(Chars)
  BY <1>17, <1>20, <1>21, RunCompose, ConcatProperties
<1> QED BY <1>18, <1>20, <1>22

(***************************************************************************)
(* What the shell reads                                                    *)
(***************************************************************************)

\* A key in the pipe.
LEMMA SentType ==
  ASSUME NEW k \in Keys
  PROVE  Sent(k) \in Seq(Chars) /\ k \in Chars /\ k # ESC /\ k # "sub" /\ k # "none"
<1>1. "sub" \in Chars /\ "high" \in Chars /\ k \in Chars
  BY DEF Chars, Marks
<1>2. Sent(k) \in Seq(Chars)
  <2>1. CASE k \in TermKeys
    <3> DEFINE a == "sub"
               b == "high"
    <3>1. a \in Chars /\ b \in Chars
      BY <1>1
    <3>2. Sent(k) = <<a, k, b>>
      BY <2>1 DEF Sent
    <3> HIDE DEF a, b
    <3>3. <<a, k, b>> \in Seq(Chars)
      BY <1>1, <3>1
    <3> QED BY <3>2, <3>3
  <2>2. CASE k \notin TermKeys
    BY <1>1, <2>2, OneSeq DEF Sent
  <2> QED BY <2>1, <2>2
<1>3. k # ESC /\ k # "sub" /\ k # "none"
  BY LettersAssumption DEF Keys, TermKeys, ESC
<1> QED BY <1>1, <1>2, <1>3

\* A character that is not part of a key is read as it is.
LEMMA ReceiveChar ==
  ASSUME NEW c \in Chars, c # "sub", NEW b \in Seq(Chars), input = <<c>> \o b
  PROVE  input # <<>> /\ Received = c /\ Unread = b
<1>1. input # <<>> /\ Head(input) = c /\ Tail(input) = b
  BY HeadOfConcat
<1> QED BY <1>1 DEF Received, Unread

\* A key is read as it was sent.
LEMMA ReceiveKey ==
  ASSUME NEW k \in Keys, NEW b \in Seq(Chars), input = Sent(k) \o b
  PROVE  input # <<>> /\ Received = k /\ Unread = b /\ input \in Seq(Chars)
<1>0. Sent(k) \in Seq(Chars) /\ k \in Chars /\ k # "sub"
  BY SentType
<1>1. input \in Seq(Chars)
  BY <1>0, ConcatProperties
<1>2. CASE k \in TermKeys
  <2> DEFINE a == Sent(k)
  <2>1. Len(a) = 3 /\ a[1] = "sub" /\ a[2] = k
    BY <1>2 DEF Sent
  <2>2. a \in Seq(Chars)
    BY <1>0
  <2> HIDE DEF a
  <2>3. Len(a \o b) = Len(a) + Len(b) /\ Len(b) \in Nat
        /\ \A i \in 1 .. Len(a) + Len(b) : (a \o b)[i] = IF i <= Len(a) THEN a[i] ELSE b[i - Len(a)]
    BY <2>2, ConcatProperties, LenProperties
  <2>4. 1 \in 1 .. Len(a) + Len(b) /\ 2 \in 1 .. Len(a) + Len(b) /\ 1 <= Len(a) /\ 2 <= Len(a)
    BY <2>1, <2>3
  <2>5. (a \o b)[1] = "sub" /\ (a \o b)[2] = k
    BY <2>1, <2>3, <2>4
  <2>6. SubSeq(a \o b, 4, Len(a \o b)) = b
    <3>1. SubSeq(a \o b, Len(a) + 1, Len(a \o b)) = b
      BY <2>2, SplitConcat
    <3>2. Len(a) + 1 = 4
      BY <2>1
    <3> QED BY <3>1, <3>2
  <2>7. input = a \o b
    BY DEF a
  <2>8. input # <<>>
    <3>1. Len(input) \in Nat \ {0}
      BY <2>1, <2>3, <2>7
    <3> QED BY <3>1
  <2>9. Head(input) = input[1]
    BY <1>1, <2>8, HeadTailConcat
  <2>10. Head(input) = "sub"
    BY <2>5, <2>7, <2>9
  <2> QED BY <1>1, <2>5, <2>6, <2>7, <2>8, <2>10 DEF Received, Unread
<1>3. CASE k \notin TermKeys
  <2>1. input = <<k>> \o b
    BY <1>3 DEF Sent
  <2> QED BY <1>0, <1>1, <2>1, ReceiveChar
<1> QED BY <1>2, <1>3

\* What comes later does not change the keys.
LEMMA InputAppend ==
  ASSUME NEW a, NEW ks \in Seq(Chars), NEW b, NEW z \in Seq(Chars), Run("input", a, ks, b)
  PROVE  Run("input", a \o z, ks, b \o z)
<1>1. PICK st : IsRun("input", st, a, ks, b)
  BY DEF Run
<1>2. Len(ks) \in Nat
  BY LenProperties
<1> DEFINE h == [i \in 0 .. Len(ks) |-> st[i] \o z]
<1>3. h[0] = a \o z /\ h[Len(ks)] = b \o z
  <2>1. st[0] = a /\ st[Len(ks)] = b
    BY <1>1 DEF IsRun
  <2>2. 0 \in 0 .. Len(ks) /\ Len(ks) \in 0 .. Len(ks)
    BY <1>2
  <2>3. h[0] = st[0] \o z /\ h[Len(ks)] = st[Len(ks)] \o z
    BY <2>2
  <2> HIDE DEF h
  <2> QED BY <2>1, <2>3
<1>4. ASSUME NEW i \in 1 .. Len(ks) PROVE Step("input", h[i - 1], ks[i], h[i])
  <2>1. i \in 0 .. Len(ks) /\ i - 1 \in 0 .. Len(ks)
    BY <1>2
  <2>2. h[i] = st[i] \o z /\ h[i - 1] = st[i - 1] \o z
    BY <2>1
  <2>3. Step("input", st[i - 1], ks[i], st[i])
    BY <1>1 DEF IsRun
  <2>4. ks[i] \in Keys /\ st[i] \in Seq(Chars) /\ st[i - 1] = Sent(ks[i]) \o st[i]
    BY <2>3 DEF Step
  <2> DEFINE k == ks[i]
             u == st[i]
             s == Sent(k)
  <2>5. s \in Seq(Chars)
    BY <2>4, SentType
  <2>6. u \in Seq(Chars) /\ st[i - 1] = s \o u
    BY <2>4
  <2> HIDE DEF h, k, u, s
  <2>7. (s \o u) \o z = s \o (u \o z)
    BY <2>5, <2>6, ConcatAssociative, SMTT(40)
  <2>8. u \o z \in Seq(Chars)
    BY <2>6, ConcatProperties
  <2>9. h[i - 1] = s \o (u \o z)
    BY <2>2, <2>6, <2>7
  <2>10. h[i] = u \o z
    BY <2>2 DEF u
  <2>11. Step("input", h[i - 1], k, h[i])
    BY <2>4, <2>8, <2>9, <2>10 DEF Step, k, s
  <2> QED BY <2>11 DEF k
<1> HIDE DEF h
<1>5. IsRun("input", h, a \o z, ks, b \o z)
  BY <1>3, <1>4 DEF IsRun
<1> QED BY <1>5 DEF Run

\* The pipe holds characters.
LEMMA InputType ==
  ASSUME NEW a, NEW ks \in Seq(Chars), NEW b \in Seq(Chars), Run("input", a, ks, b)
  PROVE  a \in Seq(Chars)
<1>1. CASE ks = <<>>
  BY <1>1, RunEmpty
<1>2. CASE ks # <<>>
  <2>1. PICK c : Step("input", a, Head(ks), c) /\ Run("input", c, Tail(ks), b)
    BY <1>2, RunHead
  <2>2. Head(ks) \in Keys /\ c \in Seq(Chars) /\ a = Sent(Head(ks)) \o c
    BY <2>1 DEF Step
  <2>3. Sent(Head(ks)) \in Seq(Chars)
    BY <2>2, SentType
  <2> QED BY <2>2, <2>3, ConcatProperties
<1> QED BY <1>1, <1>2

\* The pipe holds the keys ks.
Keyed(in, ks) == ks \in Seq(Keys) /\ Run("input", in, ks, <<>>)

\* Keys are characters.
LEMMA KeysAreChars ==
  ASSUME NEW ks \in Seq(Keys)
  PROVE  ks \in Seq(Chars)
<1>1. Keys \subseteq Chars
  BY DEF Chars
<1> QED BY <1>1, SeqMonotonic

\* What the pipe holds when it holds keys.
LEMMA KeyedFacts ==
  ASSUME NEW in, NEW ks, Keyed(in, ks)
  PROVE  /\ ks \in Seq(Keys) /\ ks \in Seq(Chars) /\ in \in Seq(Chars)
         /\ ks = <<>> => in = <<>>
         /\ ks # <<>> => \E rest \in Seq(Chars) :
              Head(ks) \in Keys /\ in = Sent(Head(ks)) \o rest /\ Keyed(rest, Tail(ks))
<1>1. ks \in Seq(Keys) /\ Run("input", in, ks, <<>>)
  BY DEF Keyed
<1>2. ks \in Seq(Chars)
  BY <1>1, KeysAreChars
<1>3. in \in Seq(Chars)
  BY <1>1, <1>2, EmptySeq, InputType
<1>4. ks = <<>> => in = <<>>
  BY <1>1, RunEmpty
<1>5. ASSUME ks # <<>>
      PROVE  \E rest \in Seq(Chars) :
              Head(ks) \in Keys /\ in = Sent(Head(ks)) \o rest /\ Keyed(rest, Tail(ks))
  <2>1. PICK c : Step("input", in, Head(ks), c) /\ Run("input", c, Tail(ks), <<>>)
    BY <1>1, <1>2, <1>5, RunHead
  <2>2. Head(ks) \in Keys /\ c \in Seq(Chars) /\ in = Sent(Head(ks)) \o c
    BY <2>1 DEF Step
  <2>3. Tail(ks) \in Seq(Keys)
    BY <1>1, <1>5, HeadTailProperties
  <2> QED BY <2>1, <2>2, <2>3 DEF Keyed
<1> QED BY <1>1, <1>2, <1>3, <1>4, <1>5

\* One more key.
LEMMA KeyedAppend ==
  ASSUME NEW in, NEW ks, Keyed(in, ks), NEW k \in Keys
  PROVE  Keyed(in \o Sent(k), ks \o <<k>>)
<1> DEFINE z == Sent(k)
<1>1. ks \in Seq(Keys) /\ ks \in Seq(Chars) /\ Run("input", in, ks, <<>>)
  BY KeyedFacts DEF Keyed
<1>2. z \in Seq(Chars) /\ k \in Chars
  BY SentType
<1>3. <<>> \o z = z /\ z \o <<>> = z
  BY <1>2, ConcatEmptySeq
<1>4. Run("input", in \o z, ks, z)
  BY <1>1, <1>2, <1>3, InputAppend
<1>5. Step("input", z, k, <<>>)
  BY <1>3, EmptySeq DEF Step
<1> HIDE DEF z
<1>6. Run("input", z, <<k>>, <<>>)
  BY <1>5, RunOne
<1>7. <<k>> \in Seq(Chars) /\ <<k>> \in Seq(Keys)
  BY <1>2, OneSeq
<1>8. Run("input", in \o z, ks \o <<k>>, <<>>)
  BY <1>1, <1>4, <1>6, <1>7, RunCompose
<1>9. ks \o <<k>> \in Seq(Keys)
  BY <1>1, <1>7, ConcatProperties
<1> QED BY <1>8, <1>9 DEF Keyed, z

(***************************************************************************)
(* The reference                                                           *)
(***************************************************************************)

\* Nothing was typed.
Start == Editing(<<>>, <<>>, <<>>)

\* Every sequence of keys leads somewhere.
LEMMA ReferenceRuns ==
  ASSUME NEW ks \in Seq(Chars), NEW a
  PROVE  \E b : Run("reference", a, ks, b)
<1> DEFINE First(n) == SubSeq(ks, 1, n)
           Good(n) == \E b : Run("reference", a, First(n), b)
           T == {n \in 0 .. Len(ks) : ~Good(n)}
<1>0. Len(ks) \in Nat
  BY LenProperties
<1>1. T = {}
  <2> SUFFICES ASSUME T # {} PROVE FALSE
    OBVIOUS
  <2>1. PICK n \in T : \A j \in T : n <= j
    <3>1. T \in SUBSET Nat
      BY <1>0
    <3> QED BY <3>1, LeastNumber
  <2>2. n \in 0 .. Len(ks) /\ n \in Nat /\ ~Good(n)
    BY <1>0, <2>1
  <2>3. CASE n = 0
    <3>1. First(0) = <<>>
      BY SubSeqEmpty
    <3>2. Run("reference", a, <<>>, a)
      BY RunEmpty
    <3> HIDE DEF First
    <3>3. Good(0)
      BY <3>1, <3>2
    <3> QED BY <2>2, <2>3, <3>3
  <2>4. CASE n # 0
    <3>1. n - 1 \in 0 .. Len(ks) /\ n \in 1 .. Len(ks) /\ 1 \in 1 .. Len(ks) /\ n - 1 \notin T
      BY <1>0, <2>1, <2>2, <2>4
    <3>2. PICK b : Run("reference", a, First(n - 1), b)
      BY <3>1
    <3>3. First(n) = First(n - 1) \o <<ks[n]>>
      BY <3>1, SubSeqRecursiveSecond
    <3>4. First(n - 1) \in Seq(Chars)
      BY <3>1, SplitSeq
    <3>5. ks[n] \in Chars
      BY <3>1, ElementOfSeq
    <3>6. Step("reference", b, ks[n], RefKey(b, ks[n]))
      BY DEF Step
    <3>7. Run("reference", b, <<ks[n]>>, RefKey(b, ks[n])) /\ <<ks[n]>> \in Seq(Chars)
      BY <3>5, <3>6, RunOne, OneSeq
    <3> HIDE DEF First
    <3>8. Run("reference", a, First(n - 1) \o <<ks[n]>>, RefKey(b, ks[n]))
      BY <3>2, <3>4, <3>7, RunCompose
    <3>9. Good(n)
      BY <3>3, <3>8
    <3> QED BY <2>2, <3>9
  <2> QED BY <2>3, <2>4
<1>2. Len(ks) \in 0 .. Len(ks)
  BY <1>0
<1>3. Good(Len(ks))
  BY <1>1, <1>2
<1>4. First(Len(ks)) = ks
  BY SubSeqFull
<1> HIDE DEF First
<1> QED BY <1>3, <1>4

\* And to one place only.
LEMMA ReferenceUnique ==
  ASSUME NEW ks \in Seq(Chars), NEW a, NEW b, NEW c,
         Run("reference", a, ks, b), Run("reference", a, ks, c)
  PROVE  b = c
<1>1. PICK f : IsRun("reference", f, a, ks, b)
  BY DEF Run
<1>2. PICK g : IsRun("reference", g, a, ks, c)
  BY DEF Run
<1>3. Len(ks) \in Nat
  BY LenProperties
<1> DEFINE T == {n \in 0 .. Len(ks) : f[n] # g[n]}
<1>4. T = {}
  <2> SUFFICES ASSUME T # {} PROVE FALSE
    OBVIOUS
  <2>1. PICK n \in T : \A j \in T : n <= j
    <3>1. T \in SUBSET Nat
      BY <1>3
    <3> QED BY <3>1, LeastNumber
  <2>2. n # 0
    BY <1>1, <1>2, <2>1 DEF IsRun
  <2>3. n \in 1 .. Len(ks) /\ n - 1 \in 0 .. Len(ks) /\ n - 1 \notin T
    BY <1>3, <2>1, <2>2
  <2>4. Step("reference", f[n - 1], ks[n], f[n]) /\ Step("reference", g[n - 1], ks[n], g[n])
    BY <1>1, <1>2, <2>3 DEF IsRun
  <2>5. f[n] = RefKey(f[n - 1], ks[n]) /\ g[n] = RefKey(g[n - 1], ks[n])
    BY <2>4 DEF Step
  <2>6. f[n - 1] = g[n - 1]
    BY <2>3
  <2> QED BY <2>1, <2>5, <2>6
<1>5. f[Len(ks)] = g[Len(ks)]
  BY <1>3, <1>4
<1> QED BY <1>1, <1>2, <1>5 DEF IsRun

\* The reference is where the keys lead.
LEMMA RefKeysRun ==
  ASSUME NEW ks \in Seq(Chars)
  PROVE  Run("reference", Start, ks, RefKeys(ks))
<1> DEFINE N == Len(ks)
           Eq(f) == f = [n \in 0 .. N |->
                           IF n = 0 THEN Editing(<<>>, <<>>, <<>>)
                           ELSE RefKey(f[n - 1], ks[n])]
           F == CHOOSE f : Eq(f)
<1>1. N \in Nat
  BY LenProperties
<1>2. PICK b : Run("reference", Start, ks, b)
  BY ReferenceRuns
<1>3. PICK st : IsRun("reference", st, Start, ks, b)
  BY <1>2 DEF Run
<1> DEFINE g == [n \in 0 .. N |-> st[n]]
<1>4. Eq(g)
  <2>1. ASSUME NEW n \in 0 .. N
        PROVE  g[n] = IF n = 0 THEN Editing(<<>>, <<>>, <<>>)
                      ELSE RefKey(g[n - 1], ks[n])
    <3>1. CASE n = 0
      BY <1>1, <1>3, <3>1 DEF IsRun, Start
    <3>2. CASE n # 0
      <4>1. n \in 1 .. N /\ n - 1 \in 0 .. N
        BY <1>1, <3>2
      <4>2. Step("reference", st[n - 1], ks[n], st[n])
        BY <1>3, <4>1 DEF IsRun
      <4>3. st[n] = RefKey(st[n - 1], ks[n])
        BY <4>2 DEF Step
      <4>4. g[n] = st[n] /\ g[n - 1] = st[n - 1]
        BY <4>1
      <4> HIDE DEF g
      <4> QED BY <3>2, <4>3, <4>4
    <3> QED BY <3>1, <3>2
  <2> DEFINE h == [n \in 0 .. N |->
                           IF n = 0 THEN Editing(<<>>, <<>>, <<>>)
                           ELSE RefKey(g[n - 1], ks[n])]
  <2>2. \A n \in 0 .. N : g[n] = h[n]
    BY <2>1
  <2>3. g = h
    BY <2>2
  <2> QED BY <2>3
<1> HIDE DEF g
<1>5. Eq(F)
  BY <1>4
<1>6. RefKeys(ks) = F[N]
  BY DEF RefKeys
<1> HIDE DEF F
<1>7. F[0] = Start
  <2>1. 0 \in 0 .. N
    BY <1>1
  <2> QED BY <1>5, <2>1 DEF Start
<1>8. ASSUME NEW n \in 1 .. N PROVE Step("reference", F[n - 1], ks[n], F[n])
  <2>1. n \in 0 .. N /\ n # 0
    BY <1>1
  <2>2. F[n] = RefKey(F[n - 1], ks[n])
    BY <1>5, <2>1
  <2> QED BY <2>2 DEF Step
<1>9. IsRun("reference", F, Start, ks, F[N])
  BY <1>7, <1>8 DEF IsRun
<1> QED BY <1>6, <1>9 DEF Run

\* One more key.
LEMMA RefKeysAppend ==
  ASSUME NEW ks \in Seq(Keys), NEW k \in Keys
  PROVE  RefKeys(Append(ks, k)) = RefKey(RefKeys(ks), k)
<1>1. ks \in Seq(Chars) /\ k \in Chars
  BY KeysAreChars, SentType
<1>2. Append(ks, k) = ks \o <<k>> /\ Append(ks, k) \in Seq(Chars) /\ <<k>> \in Seq(Chars)
  BY <1>1, AppendIsConcat, AppendProperties, OneSeq
<1>3. Run("reference", Start, ks, RefKeys(ks))
  BY <1>1, RefKeysRun
<1>4. Step("reference", RefKeys(ks), k, RefKey(RefKeys(ks), k))
  BY DEF Step
<1>5. Run("reference", RefKeys(ks), <<k>>, RefKey(RefKeys(ks), k))
  BY <1>4, RunOne
<1>6. Run("reference", Start, ks \o <<k>>, RefKey(RefKeys(ks), k))
  BY <1>1, <1>2, <1>3, <1>5, RunCompose
<1>7. Run("reference", Start, Append(ks, k), RefKeys(Append(ks, k)))
  BY <1>2, RefKeysRun
<1> QED BY <1>2, <1>6, <1>7, ReferenceUnique

\* The fields of what is edited.
LEMMA EditingFields ==
  ASSUME NEW c, NEW b, NEW a
  PROVE  /\ Editing(c, b, a).commands = c
         /\ Editing(c, b, a).before = b
         /\ Editing(c, b, a).after = a
BY DEF Editing

\* No key of the terminal is a letter.
LEMMA NotLetters ==
  /\ "ENTER" \notin Letters /\ "BACKSPACE" \notin Letters /\ "LEFT" \notin Letters
  /\ "RIGHT" \notin Letters /\ "UP" \notin Letters /\ "STAB" \notin Letters
  /\ "none" \notin Letters
BY LettersAssumption DEF TermKeys

\* Enter.
LEMMA RefKeyEnter ==
  ASSUME NEW c, NEW b, NEW a
  PROVE  RefKey(Editing(c, b, a), "ENTER") = Editing(Append(c, b \o a), <<>>, <<>>)
<1> DEFINE r == Editing(c, b, a)
<1>1. r.commands = c /\ r.before = b /\ r.after = a
  BY EditingFields
<1> HIDE DEF r
<1>2. RefKey(r, "ENTER") = Editing(Append(c, b \o a), <<>>, <<>>)
  BY <1>1, NotLetters DEF RefKey
<1> QED BY <1>2 DEF r

\* Backspace.
LEMMA RefKeyBackspace ==
  ASSUME NEW c, NEW b, NEW a, b # <<>>
  PROVE  RefKey(Editing(c, b, a), "BACKSPACE") = Editing(c, Front(b), a)
<1> DEFINE r == Editing(c, b, a)
<1>1. r.commands = c /\ r.before = b /\ r.after = a
  BY EditingFields
<1> HIDE DEF r
<1>2. RefKey(r, "BACKSPACE") = Editing(c, Front(b), a)
  BY <1>1, NotLetters DEF RefKey
<1> QED BY <1>2 DEF r

\* Backspace at the beginning.
LEMMA RefKeyNoBackspace ==
  ASSUME NEW c, NEW b, NEW a, b = <<>>
  PROVE  RefKey(Editing(c, b, a), "BACKSPACE") = Editing(c, b, a)
<1> DEFINE r == Editing(c, b, a)
<1>1. r.commands = c /\ r.before = b /\ r.after = a
  BY EditingFields
<1> HIDE DEF r
<1>2. RefKey(r, "BACKSPACE") = r
  BY <1>1, NotLetters DEF RefKey
<1> QED BY <1>2 DEF r

\* A left arrow.
LEMMA RefKeyLeft ==
  ASSUME NEW c, NEW b, NEW a, b # <<>>
  PROVE  RefKey(Editing(c, b, a), "LEFT") = Editing(c, Front(b), <<Last(b)>> \o a)
<1> DEFINE r == Editing(c, b, a)
<1>1. r.commands = c /\ r.before = b /\ r.after = a
  BY EditingFields
<1> HIDE DEF r
<1>2. RefKey(r, "LEFT") = Editing(c, Front(b), <<Last(b)>> \o a)
  BY <1>1, NotLetters DEF RefKey
<1> QED BY <1>2 DEF r

\* A left arrow at the beginning.
LEMMA RefKeyNoLeft ==
  ASSUME NEW c, NEW b, NEW a, b = <<>>
  PROVE  RefKey(Editing(c, b, a), "LEFT") = Editing(c, b, a)
<1> DEFINE r == Editing(c, b, a)
<1>1. r.commands = c /\ r.before = b /\ r.after = a
  BY EditingFields
<1> HIDE DEF r
<1>2. RefKey(r, "LEFT") = r
  BY <1>1, NotLetters DEF RefKey
<1> QED BY <1>2 DEF r

\* A right arrow.
LEMMA RefKeyRight ==
  ASSUME NEW c, NEW b, NEW a, a # <<>>
  PROVE  RefKey(Editing(c, b, a), "RIGHT") = Editing(c, Append(b, Head(a)), Tail(a))
<1> DEFINE r == Editing(c, b, a)
<1>1. r.commands = c /\ r.before = b /\ r.after = a
  BY EditingFields
<1> HIDE DEF r
<1>2. RefKey(r, "RIGHT") = Editing(c, Append(b, Head(a)), Tail(a))
  BY <1>1, NotLetters DEF RefKey
<1> QED BY <1>2 DEF r

\* A right arrow at the end.
LEMMA RefKeyNoRight ==
  ASSUME NEW c, NEW b, NEW a, a = <<>>
  PROVE  RefKey(Editing(c, b, a), "RIGHT") = Editing(c, b, a)
<1> DEFINE r == Editing(c, b, a)
<1>1. r.commands = c /\ r.before = b /\ r.after = a
  BY EditingFields
<1> HIDE DEF r
<1>2. RefKey(r, "RIGHT") = r
  BY <1>1, NotLetters DEF RefKey
<1> QED BY <1>2 DEF r

\* A key that the editor ignores.
LEMMA RefKeyUp ==
  ASSUME NEW c, NEW b, NEW a
  PROVE  RefKey(Editing(c, b, a), "UP") = Editing(c, b, a)
<1> DEFINE r == Editing(c, b, a)
<1>1. r.commands = c /\ r.before = b /\ r.after = a
  BY EditingFields
<1> HIDE DEF r
<1>2. RefKey(r, "UP") = r
  BY <1>1, NotLetters DEF RefKey
<1> QED BY <1>2 DEF r

\* A letter.
LEMMA RefKeyLetter ==
  ASSUME NEW c, NEW b, NEW a, NEW k \in Letters
  PROVE  RefKey(Editing(c, b, a), k) = Editing(c, Append(b, k), a)
<1> DEFINE r == Editing(c, b, a)
<1>1. r.commands = c /\ r.before = b /\ r.after = a
  BY EditingFields
<1>2. k # "ENTER" /\ k # "BACKSPACE" /\ k # "LEFT" /\ k # "RIGHT" /\ k # "STAB"
  BY NotLetters
<1> HIDE DEF r
<1>3. RefKey(r, k) = Editing(c, Append(b, k), a)
  BY <1>1, <1>2 DEF RefKey
<1> QED BY <1>3 DEF r

\* There is one completion of w; a completion of w.
Sole(w) == \E c \in Completions(w) : Completions(w) = {c}
Chosen(w) == CHOOSE c \in Completions(w) : TRUE

\* A tab completes the word before the caret, when there is one completion.
LEMMA RefKeyTab ==
  ASSUME NEW c, NEW b, NEW a, IsFiniteSet(Completions(RefWord(b)))
  PROVE  /\ Sole(RefWord(b)) =>
              RefKey(Editing(c, b, a), "STAB") =
                Editing(c, SubSeq(b, 1, Len(b) - Len(RefWord(b))) \o Chosen(RefWord(b)), a)
         /\ ~Sole(RefWord(b)) => RefKey(Editing(c, b, a), "STAB") = Editing(c, b, a)
<1> DEFINE r == Editing(c, b, a)
           w == RefWord(b)
<1>1. r.commands = c /\ r.before = b /\ r.after = a
  BY EditingFields
<1>2. Sole(w) <=> Cardinality(Completions(w)) = 1
  <2>1. Cardinality(Completions(w)) = 1 <=> \E x : Completions(w) = {x}
    BY FS_Singleton
  <2>2. Sole(w) <=> \E x : Completions(w) = {x}
    BY DEF Sole
  <2> QED BY <2>1, <2>2
<1> HIDE DEF r
<1>3. ASSUME Sole(w)
      PROVE  RefKey(r, "STAB") = Editing(c, SubSeq(b, 1, Len(b) - Len(w)) \o Chosen(w), a)
  <2>1. Cardinality(Completions(w)) = 1
    BY <1>2, <1>3
  <2> QED BY <1>1, <2>1, NotLetters DEF RefKey, Chosen
<1>4. ASSUME ~Sole(w) PROVE RefKey(r, "STAB") = r
  <2>1. Cardinality(Completions(w)) # 1
    BY <1>2, <1>4
  <2> QED BY <1>1, <2>1, NotLetters DEF RefKey
<1> QED BY <1>3, <1>4 DEF r

\* The last space of a text.
LastSpace(b) == SelectLastInSeq(b, LAMBDA c : c = " ")

\* It is a place in the text.
LEMMA LastSpaceIn ==
  ASSUME NEW S, NEW b \in Seq(S)
  PROVE  LastSpace(b) \in 0 .. Len(b)
<1> DEFINE I == {i \in 1 .. Len(b) : b[i] = " "}
<1>0. Len(b) \in Nat
  BY LenProperties
<1>1. LastSpace(b) = IF I # {} THEN Max(I) ELSE 0
  BY DEF LastSpace, SelectLastInSeq
<1>5. I \subseteq 1 .. Len(b)
  OBVIOUS
<1> DEFINE n == Len(b)
<1>6. n \in Nat /\ I \subseteq 1 .. n
  BY <1>0, <1>5
<1> HIDE DEF I, n
<1>7. (IF I # {} THEN Max(I) ELSE 0) \in 0 .. n
  <2>1. CASE I = {}
    BY <1>6, <2>1
  <2>2. CASE I # {}
    <3> DEFINE T == {n - i : i \in I}
    <3>1. T \in SUBSET Nat
      BY <1>6
    <3>2. T # {}
      BY <2>2
    <3>3. PICK m \in T : \A k \in T : m <= k
      BY <3>1, <3>2, LeastNumber
    <3>4. PICK j \in I : m = n - j
      BY <3>3
    <3>5. ASSUME NEW i \in I PROVE j >= i
      <4>1. n - i \in T
        OBVIOUS
      <4>2. n - j <= n - i
        BY <3>3, <3>4, <4>1
      <4>3. i \in 1 .. n /\ j \in 1 .. n
        BY <1>6
      <4> QED BY <1>6, <4>2, <4>3
    <3>6. \E x \in I : \A y \in I : x >= y
      BY <3>5
    <3>7. Max(I) \in I
      BY <3>6 DEF Max
    <3>8. \A z \in I : z \in 0 .. n
      BY <1>6
    <3>9. Max(I) \in 0 .. n
      BY <3>7, <3>8
    <3> QED BY <2>2, <3>9
  <2> QED BY <2>1, <2>2
<1> QED BY <1>1, <1>7 DEF n

\* The last word of a text ends it.
LEMMA WordFacts ==
  ASSUME NEW S, NEW b \in Seq(S)
  PROVE  LET w == RefWord(b)
             n == Len(b) - Len(w)
         IN /\ w \in Seq(S) /\ Len(w) \in 0 .. Len(b) /\ n \in 0 .. Len(b)
            /\ b = SubSeq(b, 1, n) \o w /\ Len(SubSeq(b, 1, n)) = n
            /\ SubSeq(b, 1, n) \in Seq(S)
<1> DEFINE m == LastSpace(b)
           w == RefWord(b)
           n == Len(b) - Len(w)
<1>0. Len(b) \in Nat
  BY LenProperties
<1>1. m \in 0 .. Len(b)
  BY LastSpaceIn
<1>2. RefWord(b) = SubSeq(b, 1 + m, Len(b))
  BY DEF RefWord, LastSpace
<1> HIDE DEF m
<1>3. w = SubSeq(b, m + 1, Len(b))
  <2>1. 1 + m = m + 1
    BY <1>1
  <2> QED BY <1>2, <2>1
<1>4. w \in Seq(S) /\ Len(w) = Len(b) - m /\ b = SubSeq(b, 1, m) \o w
      /\ Len(SubSeq(b, 1, m)) = m /\ SubSeq(b, 1, m) \in Seq(S)
  BY <1>1, <1>3, SplitSeq, SMTT(40)
<1> HIDE DEF w
<1>5. n = m /\ Len(w) \in 0 .. Len(b)
  BY <1>0, <1>1, <1>4
<1> QED BY <1>1, <1>4, <1>5 DEF w

(***************************************************************************)
(* What is on its way to the terminal                                      *)
(***************************************************************************)

\* Once terminal t has read o, without an answer, the first line of the
\* screen is l and the cursor is at column x.
Reach(t, o, l, x) ==
  o \in Seq(Chars) /\ \E u : Run("terminal", t, o, u) /\ Shows(u, l, x)

\* The same, and the last character of o makes the terminal answer.
Waiting(t, o, l, x) ==
  \E p, w, u : /\ p \in Seq(Chars) /\ o = p \o <<"n">>
               /\ Run("terminal", t, p, w) /\ Asked(w, u) /\ Shows(u, l, x)

\* More output.
LEMMA ReachDoes ==
  ASSUME NEW t, NEW o, NEW l, NEW x, Reach(t, o, l, x),
         NEW s, NEW m, NEW y, Does(s, l, x, m, y)
  PROVE  Reach(t, o \o s, m, y)
<1>1. o \in Seq(Chars) /\ s \in Seq(Chars)
  BY DEF Reach, Does
<1>2. PICK u : Run("terminal", t, o, u) /\ Shows(u, l, x)
  BY DEF Reach
<1>3. PICK v : Run("terminal", u, s, v) /\ Shows(v, m, y)
  BY <1>2 DEF Does
<1>4. Run("terminal", t, o \o s, v)
  BY <1>1, <1>2, <1>3, RunCompose
<1>5. o \o s \in Seq(Chars)
  BY <1>1, ConcatProperties
<1> QED BY <1>3, <1>4, <1>5 DEF Reach

\* A query.
LEMMA ReachQuery ==
  ASSUME NEW t, NEW o, NEW l, NEW x, Reach(t, o, l, x)
  PROVE  Waiting(t, o \o QueryCursor, l, x)
<1>1. o \in Seq(Chars) /\ Query \in Seq(Chars) /\ QueryCursor = Query \o <<"n">>
  BY QueryText DEF Reach
<1>2. PICK u : Run("terminal", t, o, u) /\ Shows(u, l, x)
  BY DEF Reach
<1>3. PICK w, v : Run("terminal", u, Query, w) /\ Asked(w, v) /\ Shows(v, l, x)
  BY <1>2, DoesQuery
<1>4. Run("terminal", t, o \o Query, w) /\ o \o Query \in Seq(Chars)
  BY <1>1, <1>2, <1>3, RunCompose, ConcatProperties
<1> DEFINE e == <<"n">>
<1>5. e \in Seq(Chars)
  <2>1. "n" \in Chars
    BY DEF Chars, Marks
  <2> QED BY <2>1, OneSeq
<1> HIDE DEF e
<1>6. o \in Seq(Chars) /\ Query \in Seq(Chars) /\ e \in Seq(Chars)
  BY <1>1, <1>5
<1> DEFINE q == Query
<1> HIDE DEF q
<1>61. o \in Seq(Chars) /\ q \in Seq(Chars) /\ e \in Seq(Chars)
  BY <1>6 DEF q
<1>7. (o \o q) \o e = o \o (q \o e)
  BY <1>61, ConcatAssociative
<1>8. o \o QueryCursor = (o \o Query) \o e
  BY <1>1, <1>7 DEF q, e
<1> QED BY <1>3, <1>4, <1>8 DEF Waiting, e

\* The terminal reads a character.
LEMMA ReachRead ==
  ASSUME NEW t, NEW o, NEW l, NEW x, Reach(t, o, l, x), o # <<>>
  PROVE  /\ Answer(t, Head(o), 80, 25) = <<>>
         /\ Reach(ProcessOutput(t, Head(o)), Tail(o), l, x)
<1>1. PICK u : Run("terminal", t, o, u) /\ Shows(u, l, x)
  BY DEF Reach
<1>2. o \in Seq(Chars) /\ Tail(o) \in Seq(Chars)
  BY HeadTailConcat DEF Reach
<1>3. PICK v : Step("terminal", t, Head(o), v) /\ Run("terminal", v, Tail(o), u)
  BY <1>1, <1>2, RunHead
<1>4. v = ProcessOutput(t, Head(o)) /\ Answer(t, Head(o), 80, 25) = <<>>
  BY <1>3 DEF Step
<1> QED BY <1>1, <1>2, <1>3, <1>4 DEF Reach

\* The terminal reads a character, perhaps the last one of a query.
LEMMA WaitingRead ==
  ASSUME NEW t, NEW o, NEW l, NEW x, Waiting(t, o, l, x)
  PROVE  \/ /\ Answer(t, Head(o), 80, 25) = <<>>
            /\ Waiting(ProcessOutput(t, Head(o)), Tail(o), l, x)
         \/ /\ Answer(t, Head(o), 80, 25) = Answered(x)
            /\ Reach(ProcessOutput(t, Head(o)), Tail(o), l, x)
<1>1. PICK p, w, u : /\ p \in Seq(Chars) /\ o = p \o <<"n">>
                     /\ Run("terminal", t, p, w) /\ Asked(w, u) /\ Shows(u, l, x)
  BY DEF Waiting
<1> DEFINE e == <<"n">>
<1>2. "n" \in Chars
  BY DEF Chars, Marks
<1>3. e \in Seq(Chars) /\ e # <<>> /\ Head(e) = "n" /\ Tail(e) = <<>>
  <2>1. <<"n">> \in Seq(Chars)
    BY <1>2, OneSeq
  <2> QED BY <2>1
<1>4. CASE p = <<>>
  <2>1. t = w
    BY <1>1, <1>4, RunEmpty
  <2>2. o = e
    <3> HIDE DEF e
    <3>1. o = <<>> \o e /\ e \in Seq(Chars)
      BY <1>1, <1>3, <1>4 DEF e
    <3> QED BY <3>1, ConcatEmptySeq
  <2>3. Head(o) = "n" /\ Tail(o) = <<>>
    BY <1>3, <2>2
  <2>4. Answer(t, "n", 80, 25) = Answered(x) /\ ProcessOutput(t, "n") = u
    BY <1>1, <2>1 DEF Asked, Shows
  <2>5. Run("terminal", u, <<>>, u)
    BY RunEmpty
  <2>6. Reach(u, <<>>, l, x)
    BY <1>1, <2>5, EmptySeq DEF Reach
  <2> QED BY <2>3, <2>4, <2>6
<1>5. CASE p # <<>>
  <2>1. p = <<Head(p)>> \o Tail(p) /\ Tail(p) \in Seq(Chars) /\ Head(p) \in Chars
    BY <1>1, <1>5, HeadTailConcat
  <2>2. PICK v : Step("terminal", t, Head(p), v) /\ Run("terminal", v, Tail(p), w)
    BY <1>1, <1>5, RunHead
  <2>3. v = ProcessOutput(t, Head(p)) /\ Answer(t, Head(p), 80, 25) = <<>>
    BY <2>2 DEF Step
  <2>4. Head(o) = Head(p) /\ Tail(o) = Tail(p) \o e
    <3> DEFINE h == Head(p)
               r == Tail(p)
               d == <<h>>
    <3>1. d \in Seq(Chars) /\ r \in Seq(Chars) /\ e \in Seq(Chars)
      BY <1>3, <2>1, OneSeq
    <3>2. h \in Chars /\ r \o e \in Seq(Chars)
      BY <2>1, <3>1, ConcatProperties
    <3>3. p = d \o r /\ o = p \o e
      BY <1>1, <2>1
    <3> HIDE DEF h, r, d, e
    <3>4. (d \o r) \o e = d \o (r \o e)
      BY <3>1, ConcatAssociative
    <3>5. o = d \o (r \o e)
      BY <3>3, <3>4
    <3>6. Head(d \o (r \o e)) = h /\ Tail(d \o (r \o e)) = r \o e
      BY <3>2, HeadOfConcat DEF d
    <3> QED BY <3>5, <3>6 DEF h, r
  <2>5. Waiting(v, Tail(o), l, x)
    BY <1>1, <2>1, <2>2, <2>4 DEF Waiting, e
  <2> QED BY <2>3, <2>4, <2>5
<1> QED BY <1>4, <1>5

(***************************************************************************)
(* What the editor prints                                                  *)
(***************************************************************************)

\* The prompt.
LEMMA PromptType ==
  Prompt \in Seq(Printed) /\ Len(Prompt) = 2 /\ Printed \subseteq Chars
BY DEF Prompt, Printed, Plain, Chars

\* Deleting a character: what follows it is printed one column further to
\* the left, and the last character of the line removed.
LEMMA ScreenBackspace ==
  ASSUME CompletionsAreNames,
         NEW a \in Seq(Printed), NEW b \in Seq(Printed), NEW c \in Printed, NEW x \in Int,
         NEW n, n = Len(a), NEW t, NEW o, Reach(t, o, a \o (<<c>> \o b), x)
  PROVE  Reach(t, o \o SetCursor(n, 0) \o b \o RemoveChar \o SetCursor(n, 0), a \o b, n)
<1> DEFINE d == <<c>> \o b
           k == Len(b)
           l == a \o b
<1>1. d \in Seq(Printed) /\ k \in Nat /\ n \in Nat /\ Len(d) = k + 1
  <2>1. <<c>> \in Seq(Printed) /\ Len(<<c>>) = 1
    BY OneSeq
  <2> QED BY <2>1, ConcatProperties, LenProperties
<1>2. l \in Seq(Printed) /\ Len(l) = n + k
  BY ConcatProperties
<1> HIDE DEF d, k, l
<1>3. Rest(d, k) \in Seq(Printed) /\ Len(Rest(d, k)) = 1
  <2>1. Rest(d, k) \in Seq(Printed)
        /\ Len(Rest(d, k)) = IF k < Len(d) THEN Len(d) - k ELSE 0
    BY <1>1, RestFacts
  <2> QED BY <1>1, <2>1
<1>4. PICK e \in Printed : Rest(d, k) = <<e>>
  <2> DEFINE r == Rest(d, k)
  <2>1. r \in Seq(Printed) /\ Len(r) = 1
    BY <1>3
  <2> HIDE DEF r
  <2>2. r[1] \in Printed
    BY <2>1, ElementOfSeq
  <2>3. r = <<r[1]>>
    BY <2>1
  <2> QED BY <2>2, <2>3 DEF r
<1>5. Reach(t, o, a \o d, x)
  BY DEF d
<1>6. Does(SetCursor(n, 0), a \o d, x, a \o d, n)
  BY <1>1, DoesSetCursor
<1>7. Reach(t, o \o SetCursor(n, 0), a \o d, n)
  BY <1>5, <1>6, ReachDoes
<1>8. Does(b, a \o d, n, l \o <<e>>, n + k)
  BY <1>1, <1>4, DoesPrint DEF l, k
<1>9. Reach(t, o \o SetCursor(n, 0) \o b, l \o <<e>>, n + k)
  BY <1>7, <1>8, ReachDoes
<1>10. Does(RemoveChar, l \o <<e>>, n + k, l, n + k)
  BY <1>2, DoesRemove
<1>11. Reach(t, o \o SetCursor(n, 0) \o b \o RemoveChar, l, n + k)
  BY <1>9, <1>10, ReachDoes
<1>12. Does(SetCursor(n, 0), l, n + k, l, n)
  BY <1>1, DoesSetCursor
<1>13. Reach(t, o \o SetCursor(n, 0) \o b \o RemoveChar \o SetCursor(n, 0), l, n)
  BY <1>11, <1>12, ReachDoes
<1> QED BY <1>13 DEF l

\* Inserting a character: it is printed, and what follows it one column
\* further to the right.
LEMMA ScreenInsert ==
  ASSUME CompletionsAreNames,
         NEW a \in Seq(Printed), NEW b \in Seq(Printed), NEW c \in Printed,
         NEW n, n = Len(a) + 1, NEW t, NEW o, Reach(t, o, a \o b, Len(a))
  PROVE  Reach(t, o \o <<c>> \o SetCursor(n, 0) \o b \o SetCursor(n, 0), (a \o <<c>>) \o b, n)
<1> DEFINE l == a \o <<c>>
           r == Rest(b, 1)
           k == Len(b)
<1>1. l \in Seq(Printed) /\ Len(l) = n /\ n \in Nat /\ k \in Nat
  <2>1. <<c>> \in Seq(Printed) /\ Len(<<c>>) = 1
    BY OneSeq
  <2> QED BY <2>1, ConcatProperties, LenProperties
<1>2. r \in Seq(Printed) /\ Len(r) <= k
  <2>1. 1 \in Nat
    OBVIOUS
  <2>2. r \in Seq(Printed) /\ Len(r) = IF 1 < Len(b) THEN Len(b) - 1 ELSE 0
    BY <2>1, RestFacts
  <2> HIDE DEF r
  <2>3. Len(b) \in Nat
    BY LenProperties
  <2> QED BY <2>2, <2>3
<1>3. Does(<<c>>, a \o b, Len(a), l \o r, n)
  BY DoesPrintOne
<1> HIDE DEF l, r, k
<1>4. Reach(t, o \o <<c>>, l \o r, n)
  BY <1>3, ReachDoes
<1>5. Does(SetCursor(n, 0), l \o r, n, l \o r, n)
  BY <1>1, DoesSetCursor
<1>6. Reach(t, o \o <<c>> \o SetCursor(n, 0), l \o r, n)
  BY <1>4, <1>5, ReachDoes
<1>7. Does(b, l \o r, n, l \o b, n + k)
  BY <1>1, <1>2, DoesPrintOver DEF k
<1>8. Reach(t, o \o <<c>> \o SetCursor(n, 0) \o b, l \o b, n + k)
  BY <1>6, <1>7, ReachDoes
<1>9. Does(SetCursor(n, 0), l \o b, n + k, l \o b, n)
  BY <1>1, DoesSetCursor
<1>10. Reach(t, o \o <<c>> \o SetCursor(n, 0) \o b \o SetCursor(n, 0), l \o b, n)
  BY <1>8, <1>9, ReachDoes
<1> QED BY <1>10 DEF l

\* Completing a word: the completion and what follows the word are printed
\* over both, the completion being no shorter than the word.
LEMMA ScreenComplete ==
  ASSUME CompletionsAreNames,
         NEW a \in Seq(Printed), NEW w \in Seq(Printed), NEW b \in Seq(Printed),
         NEW s \in Seq(Printed), Len(w) <= Len(s),
         NEW n, n = Len(a) + Len(s), NEW t, NEW o, Reach(t, o, a \o (w \o b), Len(a))
  PROVE  Reach(t, o \o s \o b \o SetCursor(n, 0), (a \o s) \o b, n)
<1> DEFINE d == w \o b
           l == a \o s
           i == Len(w)
           j == Len(s)
           k == Len(b)
           r == Rest(d, j)
<1>1. l \in Seq(Printed) /\ Len(l) = n /\ n \in Nat /\ i \in Nat /\ j \in Nat /\ k \in Nat
      /\ d \in Seq(Printed) /\ Len(d) = i + k /\ i <= j
  BY ConcatProperties, LenProperties
<1>2. r \in Seq(Printed) /\ Len(r) = IF j < Len(d) THEN Len(d) - j ELSE 0
  BY <1>1, RestFacts
<1>3. Does(s, a \o d, Len(a), l \o r, n)
  BY <1>1, DoesPrint
<1>4. Reach(t, o, a \o d, Len(a))
  OBVIOUS
<1> HIDE DEF d, l, i, j, k, r
<1>5. Len(r) <= k
  BY <1>1, <1>2
<1>6. Reach(t, o \o s, l \o r, n)
  BY <1>3, <1>4, ReachDoes
<1>7. Does(b, l \o r, n, l \o b, n + k)
  BY <1>1, <1>2, <1>5, DoesPrintOver DEF k
<1>8. Reach(t, o \o s \o b, l \o b, n + k)
  BY <1>6, <1>7, ReachDoes
<1>9. Does(SetCursor(n, 0), l \o b, n + k, l \o b, n)
  BY <1>1, DoesSetCursor
<1>10. Reach(t, o \o s \o b \o SetCursor(n, 0), l \o b, n)
  BY <1>8, <1>9, ReachDoes
<1> QED BY <1>10 DEF l

\* The prompt is printed on an empty line.
LEMMA ScreenPrompt ==
  ASSUME CompletionsAreNames, NEW t, NEW o, Reach(t, o, <<>>, 0)
  PROVE  Reach(t, o \o Command(<<"[", "3", "8", "m">>) \o Prompt \o Command(<<"[", "0", "m">>),
               Prompt, 2)
<1>1. Reach(t, o \o Command(<<"[", "3", "8", "m">>), <<>>, 0)
  BY DoesColour, ReachDoes
<1>2. Does(Prompt, <<>>, 0, Prompt, 2)
  <2> DEFINE z == <<>>
             p == Prompt
  <2>1. z \in Seq(Printed) /\ p \in Seq(Printed) /\ Len(z) = 0 /\ Len(p) = 2
    BY PromptType, EmptySeq
  <2>2. z \o z = z /\ z \o p = p
    BY <2>1, ConcatEmptySeq
  <2> HIDE DEF z, p
  <2>3. Does(p, z \o z, Len(z), z \o p, Len(z) + Len(p))
    <3>1. Len(z) <= Len(p)
      BY <2>1
    <3> QED BY <2>1, <3>1, DoesPrintOver
  <2>4. Len(z) + Len(p) = 2
    BY <2>1
  <2>5. Does(p, z, 0, p, 2)
    BY <2>1, <2>2, <2>3, <2>4
  <2> QED BY <2>5 DEF z, p
<1>3. Reach(t, o \o Command(<<"[", "3", "8", "m">>) \o Prompt, Prompt, 2)
  BY <1>1, <1>2, ReachDoes
<1> QED BY <1>3, DoesColour, ReachDoes

\* A text is printed on a line of which nothing is known.
LEMMA LostPrint ==
  ASSUME CompletionsAreNames, NEW s \in Seq(Texts \cup {"p", ">"}), NEW x \in Int
  PROVE  \E y \in Int : Does(s, Lost, x, Lost, y)
<1> DEFINE First(n) == SubSeq(s, 1, n)
           Good(n) == \E y \in Int : Does(First(n), Lost, x, Lost, y)
           T == {n \in 0 .. Len(s) : ~Good(n)}
<1>0. Len(s) \in Nat
  BY LenProperties
<1>1. T = {}
  <2> SUFFICES ASSUME T # {} PROVE FALSE
    OBVIOUS
  <2>1. PICK n \in T : \A j \in T : n <= j
    <3>1. T \in SUBSET Nat
      BY <1>0
    <3> QED BY <3>1, LeastNumber
  <2>2. n \in 0 .. Len(s) /\ n \in Nat /\ ~Good(n)
    BY <1>0, <2>1
  <2>3. CASE n = 0
    <3>1. First(0) = <<>>
      BY SubSeqEmpty
    <3>2. Does(First(0), Lost, x, Lost, x)
      BY <3>1, DoesNothing
    <3> QED BY <2>2, <2>3, <3>2
  <2>4. CASE n # 0
    <3> DEFINE k == n - 1
               c == s[n]
    <3>1. k \in 0 .. Len(s) /\ n \in 1 .. Len(s) /\ k \notin T
      BY <1>0, <2>1, <2>2, <2>4
    <3>2. PICK y \in Int : Does(First(k), Lost, x, Lost, y)
      BY <3>1
    <3>3. c \in Texts \cup {"p", ">", Newline}
      BY <3>1, ElementOfSeq
    <3>4. First(n) = First(k) \o <<c>>
      <4>1. 1 \in 1 .. Len(s) /\ n \in 1 .. Len(s)
        BY <3>1
      <4> QED BY <4>1, SubSeqRecursiveSecond
    <3> HIDE DEF First, c, k
    <3>5. PICK z \in Int : Does(<<c>>, Lost, y, Lost, z)
      BY <3>3, LostPrintOne
    <3>6. Does(First(n), Lost, x, Lost, z)
      BY <3>2, <3>4, <3>5, DoesCompose
    <3> QED BY <2>2, <3>6
  <2> QED BY <2>3, <2>4
<1>2. Good(Len(s))
  BY <1>0, <1>1
<1>3. First(Len(s)) = s
  BY SubSeqFull
<1> HIDE DEF First
<1> QED BY <1>2, <1>3

\* What is known of the line may be forgotten.
LEMMA LostReach ==
  ASSUME NEW t, NEW o, NEW l, NEW x, Reach(t, o, l, x)
  PROVE  Reach(t, o, Lost, x)
BY DEF Reach, Shows

\* A text on a line of which nothing is known, and the cursor put in place.
LEMMA LostThenCursor ==
  ASSUME CompletionsAreNames, NEW t, NEW o, NEW x \in Int, Reach(t, o, Lost, x),
         NEW s \in Seq(Texts \cup {"p", ">"}), NEW n \in Nat
  PROVE  Reach(t, o \o s \o SetCursor(n, 0), Lost, n)
<1>1. PICK y \in Int : Does(s, Lost, x, Lost, y)
  BY LostPrint
<1>2. Reach(t, o \o s, Lost, y)
  BY <1>1, ReachDoes
<1>3. Does(SetCursor(n, 0), Lost, y, Lost, n)
  BY DoesSetCursor
<1> QED BY <1>2, <1>3, ReachDoes

\* What the editor prints, on such a line.
LEMMA LostBackspace ==
  ASSUME CompletionsAreNames, NEW t, NEW o, NEW x \in Int, Reach(t, o, Lost, x),
         NEW b \in Seq(Texts), NEW n \in Nat
  PROVE  Reach(t, o \o SetCursor(n, 0) \o b \o RemoveChar \o SetCursor(n, 0), Lost, n)
<1>0. b \in Seq(Texts \cup {"p", ">"}) /\ n \in Int
  OBVIOUS
<1>1. Reach(t, o \o SetCursor(n, 0), Lost, n)
  BY DoesSetCursor, ReachDoes
<1>2. PICK y \in Int : Does(b, Lost, n, Lost, y)
  BY <1>0, LostPrint
<1>3. Reach(t, o \o SetCursor(n, 0) \o b, Lost, y)
  BY <1>1, <1>2, ReachDoes
<1>4. Reach(t, o \o SetCursor(n, 0) \o b \o RemoveChar, Lost, y)
  BY <1>3, LostRemove, ReachDoes
<1>5. Does(SetCursor(n, 0), Lost, y, Lost, n)
  BY DoesSetCursor
<1> QED BY <1>4, <1>5, ReachDoes

\* See LostBackspace.
LEMMA LostInsert ==
  ASSUME CompletionsAreNames, NEW t, NEW o, NEW x \in Int, Reach(t, o, Lost, x),
         NEW c \in Texts, NEW b \in Seq(Texts), NEW n \in Nat
  PROVE  Reach(t, o \o <<c>> \o SetCursor(n, 0) \o b \o SetCursor(n, 0), Lost, n)
<1> DEFINE e == <<c>>
<1>1. e \in Seq(Texts \cup {"p", ">"}) /\ b \in Seq(Texts \cup {"p", ">"}) /\ n \in Int
  OBVIOUS
<1> HIDE DEF e
<1>2. Reach(t, o \o e \o SetCursor(n, 0), Lost, n)
  BY <1>1, LostThenCursor
<1>3. Reach(t, o \o e \o SetCursor(n, 0) \o b \o SetCursor(n, 0), Lost, n)
  BY <1>1, <1>2, LostThenCursor
<1> QED BY <1>3 DEF e

\* See LostBackspace.
LEMMA LostComplete ==
  ASSUME CompletionsAreNames, NEW t, NEW o, NEW x \in Int, Reach(t, o, Lost, x),
         NEW s \in Seq(Texts), NEW b \in Seq(Texts), NEW n \in Nat
  PROVE  Reach(t, o \o s \o b \o SetCursor(n, 0), Lost, n)
<1>1. s \in Seq(Texts \cup {"p", ">"}) /\ b \in Seq(Texts \cup {"p", ">"})
  OBVIOUS
<1>2. PICK y \in Int : Does(s, Lost, x, Lost, y)
  BY <1>1, LostPrint
<1>3. Reach(t, o \o s, Lost, y)
  BY <1>2, ReachDoes
<1> QED BY <1>1, <1>3, LostThenCursor

\* The prompt, on such a line: both of its characters are shown.
LEMMA LostPrompt ==
  ASSUME CompletionsAreNames, NEW t, NEW o, Reach(t, o, Lost, 0)
  PROVE  Reach(t, o \o Command(<<"[", "3", "8", "m">>) \o Prompt \o Command(<<"[", "0", "m">>),
               Lost, 2)
<1>1. Reach(t, o \o Command(<<"[", "3", "8", "m">>), Lost, 0)
  BY DoesColour, ReachDoes
<1>2. Does(<<"p">>, Lost, 0, Lost, 1) /\ Does(<<">">>, Lost, 1, Lost, 2)
  <2>1. "p" \notin Ignored /\ ">" \notin Ignored /\ "p" # Newline /\ ">" # Newline
    BY IgnoredAssumption DEF Newline
  <2>2. 0 + 1 = 1 /\ 1 + 1 = 2
    OBVIOUS
  <2> QED BY <2>1, <2>2, LostPrintOne
<1>3. Does(<<"p">> \o <<">">>, Lost, 0, Lost, 2)
  BY <1>2, DoesCompose
<1>4. Prompt = <<"p">> \o <<">">>
  <2>1. <<"p", ">">> = <<"p">> \o <<>> \o <<">">> /\ <<"p">> \o <<>> = <<"p">>
    BY TupleParts, ConcatEmptySeq
  <2> QED BY <2>1 DEF Prompt
<1>5. Reach(t, o \o Command(<<"[", "3", "8", "m">>) \o Prompt, Lost, 2)
  BY <1>1, <1>3, <1>4, ReachDoes
<1> QED BY <1>5, DoesColour, ReachDoes

(***************************************************************************)
(* The line and its caret                                                  *)
(***************************************************************************)

\* The character before a place.
LEMMA StepLeft ==
  ASSUME NEW S, NEW l \in Seq(S), NEW c \in 1 .. Len(l)
  PROVE  /\ SubSeq(l, 1, c) # <<>> /\ Front(SubSeq(l, 1, c)) = SubSeq(l, 1, c - 1)
         /\ Last(SubSeq(l, 1, c)) = l[c] /\ l[c] \in S
         /\ SubSeq(l, c, Len(l)) = <<l[c]>> \o SubSeq(l, c + 1, Len(l))
         /\ SubSeq(l, 1, c) = Append(SubSeq(l, 1, c - 1), l[c])
<1> DEFINE b == SubSeq(l, 1, c)
           z == SubSeq(l, c, Len(l))
<1>0. Len(l) \in Nat /\ c \in 0 .. Len(l) /\ c - 1 \in 0 .. Len(l) /\ c \in Int
  BY LenProperties
<1>1. b \in Seq(S) /\ Len(b) = c /\ \A i \in 1 .. c : b[i] = l[i]
  BY <1>0, SplitSeq
<1>2. l[c] \in S
  BY ElementOfSeq
<1>3. Last(b) = l[c]
  BY <1>1 DEF Last
<1>4. SubSeq(l, 1, c) = SubSeq(l, 1, c - 1) \o <<l[c]>>
  <2>1. 1 \in 1 .. Len(l)
    BY <1>0
  <2> QED BY <2>1, SubSeqRecursiveSecond
<1>5. SubSeq(l, 1, c - 1) \in Seq(S) /\ Len(SubSeq(l, 1, c - 1)) = c - 1
  BY <1>0, SplitSeq
<1>6. SubSeq(l, 1, c) = Append(SubSeq(l, 1, c - 1), l[c])
  BY <1>2, <1>4, <1>5, AppendIsConcat
<1>7. Front(b) = SubSeq(l, 1, c - 1)
  <2> DEFINE p == SubSeq(l, 1, c - 1)
             e == <<l[c]>>
  <2>1. p \in Seq(S) /\ e \in Seq(S) /\ b = p \o e /\ Len(p) = c - 1
    BY <1>2, <1>4, <1>5, OneSeq
  <2>2. Front(b) = SubSeq(b, 1, c - 1)
    BY <1>1 DEF Front
  <2> HIDE DEF p, e, b
  <2>3. SubSeq(p \o e, 1, Len(p)) = p
    BY <2>1, SplitConcat
  <2> QED BY <2>1, <2>2, <2>3 DEF p
<1>8. z = <<l[c]>> \o SubSeq(l, c + 1, Len(l))
  <2>1. c - 1 + 1 = c
    BY <1>0
  <2>2. z \in Seq(S) /\ Len(z) = Len(l) - (c - 1)
        /\ \A i \in 1 .. Len(l) - (c - 1) : z[i] = l[(c - 1) + i]
    BY <1>0, <2>1, SplitSeq
  <2>3. SubSeq(l, c + 1, Len(l)) \in Seq(S) /\ Len(SubSeq(l, c + 1, Len(l))) = Len(l) - c
        /\ \A i \in 1 .. Len(l) - c : SubSeq(l, c + 1, Len(l))[i] = l[c + i]
    BY <1>0, SplitSeq
  <2> DEFINE y == SubSeq(l, c + 1, Len(l))
             n == Len(l)
  <2> HIDE DEF z, y
  <2>4. z # <<>> /\ 1 \in 1 .. n - (c - 1)
    BY <1>0, <2>2
  <2>5. z = <<Head(z)>> \o Tail(z) /\ Head(z) = z[1] /\ Tail(z) \in Seq(S)
        /\ Len(Tail(z)) = Len(z) - 1 /\ \A i \in 1 .. Len(z) - 1 : Tail(z)[i] = z[i + 1]
    BY <2>2, <2>4, HeadTailConcat
  <2>6. Head(z) = l[c]
    <3>1. (c - 1) + 1 = c
      BY <1>0
    <3> QED BY <2>2, <2>4, <2>5, <3>1
  <2>7. Tail(z) = y
    <3>1. y \in Seq(S) /\ Len(y) = n - c /\ \A i \in 1 .. n - c : y[i] = l[c + i]
      BY <2>3 DEF y
    <3>2. Len(Tail(z)) = n - c /\ Len(z) - 1 = n - c
      BY <1>0, <2>2, <2>5
    <3>3. ASSUME NEW i \in 1 .. n - c PROVE Tail(z)[i] = y[i]
      <4>1. i + 1 \in 1 .. n - (c - 1) /\ (c - 1) + (i + 1) = c + i /\ i \in 1 .. Len(z) - 1
        BY <1>0, <3>2
      <4>2. z[i + 1] = l[c + i]
        BY <2>2, <4>1
      <4> QED BY <2>5, <3>1, <4>1, <4>2
    <3> QED BY <2>5, <3>1, <3>2, <3>3, SeqEqual
  <2> QED BY <2>5, <2>6, <2>7 DEF y
<1>9. b # <<>>
  <2>1. Len(b) # 0
    BY <1>0, <1>1
  <2> QED BY <2>1
<1> QED BY <1>2, <1>3, <1>6, <1>7, <1>8, <1>9

(***************************************************************************)
(* What is on its way to the shell                                         *)
(***************************************************************************)

\* The shell is at sh, has read rp of an answer, and in holds the keys ks
\* and the rest of the answer that names column x.
Holds(sh, in, rp, ks, x) ==
  /\ ks \in Seq(Keys)
  /\ \/ sh \in {"prompt", "edit"} /\ Keyed(in, ks)
     \/ sh = "position" /\ rp = AtColumn(x) /\ Keyed(in, ks)
     \/ /\ sh = "seek"
        /\ \E k1 \in Seq(Keys), k2 \in Seq(Keys), b \in Seq(Chars) :
             /\ ks = k1 \o k2
             /\ Run("input", in, k1, Answered(x) \o b) /\ Keyed(b, k2)
     \/ /\ sh = "bracket"
        /\ \E b \in Seq(Chars) :
             in = <<"[">> \o ((Column(x) \o <<"R">>) \o b) /\ Keyed(b, ks)
     \/ /\ sh = "parameters"
        /\ \E s \in Seq(Chars), b \in Seq(Chars) :
             /\ in = s \o (<<"R">> \o b)
             /\ Run("parameter", rp, s, AtColumn(x)) /\ Keyed(b, ks)

\* Three sequences of characters.
LEMMA Assoc ==
  ASSUME NEW S, NEW a \in Seq(S), NEW b \in Seq(S), NEW c \in Seq(S)
  PROVE  (a \o b) \o c = a \o (b \o c) /\ a \o b \in Seq(S) /\ b \o c \in Seq(S)
         /\ a \o (b \o c) \in Seq(S)
<1>1. (a \o b) \o c = a \o (b \o c)
  BY ConcatAssociative
<1>2. a \o b \in Seq(S) /\ b \o c \in Seq(S)
  BY ConcatProperties
<1>3. a \o (b \o c) \in Seq(S)
  BY <1>2, ConcatProperties
<1> QED BY <1>1, <1>2, <1>3

\* The marks of an answer.
LEMMA MarkSeqs ==
  /\ <<"[">> \in Seq(Chars) /\ <<"R">> \in Seq(Chars) /\ <<ESC>> \in Seq(Chars)
  /\ "[" \in Chars /\ "R" \in Chars /\ ESC \in Chars
  /\ "[" # "sub" /\ "R" # "sub" /\ ESC # "sub"
<1>1. "[" \in Chars /\ "R" \in Chars /\ ESC \in Chars
  BY DEF Chars, Marks, ESC
<1>2. "[" # "sub" /\ "R" # "sub" /\ ESC # "sub"
  BY DEF ESC
<1> HIDE DEF ESC
<1>3. <<"[">> \in Seq(Chars) /\ <<"R">> \in Seq(Chars) /\ <<ESC>> \in Seq(Chars)
  BY <1>1, OneSeq
<1> QED BY <1>1, <1>2, <1>3

\* What is on its way are characters.
LEMMA HoldsType ==
  ASSUME NEW sh, NEW in, NEW rp, NEW ks, NEW x \in Nat, Holds(sh, in, rp, ks, x)
  PROVE  in \in Seq(Chars)
<1>1. CASE Keyed(in, ks)
  BY <1>1, KeyedFacts
<1>2. ASSUME NEW k1 \in Seq(Keys), NEW b \in Seq(Chars), Run("input", in, k1, Answered(x) \o b)
      PROVE  in \in Seq(Chars)
  <2>1. Answered(x) \o b \in Seq(Chars)
    BY AnsweredText, ConcatProperties
  <2> QED BY <1>2, <2>1, KeysAreChars, InputType
<1>3. ASSUME NEW b \in Seq(Chars), in = <<"[">> \o ((Column(x) \o <<"R">>) \o b)
      PROVE  in \in Seq(Chars)
  <2> DEFINE h == <<"[">>
             m == Column(x)
             r == <<"R">>
  <2>1. h \in Seq(Chars) /\ m \in Seq(Chars) /\ r \in Seq(Chars)
    BY MarkSeqs, ColumnRead
  <2>2. in = h \o ((m \o r) \o b)
    BY <1>3
  <2> HIDE DEF h, m, r
  <2>3. m \o r \in Seq(Chars)
    BY <2>1, ConcatProperties
  <2> QED BY <2>1, <2>2, <2>3, Assoc
<1>4. ASSUME NEW s \in Seq(Chars), NEW b \in Seq(Chars), in = s \o (<<"R">> \o b)
      PROVE  in \in Seq(Chars)
  <2> DEFINE r == <<"R">>
  <2>1. r \in Seq(Chars) /\ in = s \o (r \o b)
    BY <1>4, MarkSeqs
  <2> HIDE DEF r
  <2> QED BY <2>1, Assoc
<1> QED BY <1>1, <1>2, <1>3, <1>4 DEF Holds

\* Another key comes.
LEMMA HoldsKey ==
  ASSUME NEW sh, NEW in, NEW rp, NEW ks, NEW x \in Nat, Holds(sh, in, rp, ks, x), NEW k \in Keys
  PROVE  Holds(sh, in \o Sent(k), rp, ks \o <<k>>, x)
<1> DEFINE z == Sent(k)
           e == <<k>>
<1>1. z \in Seq(Chars) /\ e \in Seq(Keys) /\ ks \in Seq(Keys)
  BY SentType, OneSeq DEF Holds
<1>2. ks \o e \in Seq(Keys)
  BY <1>1, ConcatProperties
<1>3. ASSUME NEW b, NEW js, Keyed(b, js) PROVE Keyed(b \o z, js \o e)
  BY <1>3, KeyedAppend
<1> HIDE DEF z, e
<1>4. ASSUME NEW k1 \in Seq(Keys), NEW k2 \in Seq(Keys), NEW b \in Seq(Chars), ks = k1 \o k2,
             Run("input", in, k1, Answered(x) \o b), Keyed(b, k2), sh = "seek"
      PROVE  Holds(sh, in \o z, rp, ks \o e, x)
  <2> DEFINE v == Answered(x)
  <2>1. v \in Seq(Chars)
    BY AnsweredText
  <2>2. Run("input", in, k1, v \o b) /\ k1 \in Seq(Chars)
    BY <1>4, KeysAreChars
  <2> HIDE DEF v
  <2>3. (v \o b) \o z = v \o (b \o z) /\ b \o z \in Seq(Chars)
    BY <1>1, <2>1, Assoc, SMTT(40)
  <2>4. Run("input", in \o z, k1, (v \o b) \o z)
    BY <1>1, <2>2, InputAppend
  <2>5. (k1 \o k2) \o e = k1 \o (k2 \o e) /\ k2 \o e \in Seq(Keys)
    <3>1. k1 \in Seq(Keys) /\ k2 \in Seq(Keys) /\ e \in Seq(Keys)
      BY <1>1
    <3> QED BY <3>1, Assoc, SMTT(40)
  <2>6. Keyed(b \o z, k2 \o e)
    BY <1>3, <1>4
  <2>7. Run("input", in \o z, k1, v \o (b \o z))
    BY <2>3, <2>4
  <2>8. ks \o e = k1 \o (k2 \o e)
    BY <1>4, <2>5
  <2> QED BY <1>2, <1>4, <2>3, <2>5, <2>6, <2>7, <2>8 DEF Holds, v
<1>5. ASSUME NEW b \in Seq(Chars), in = <<"[">> \o ((Column(x) \o <<"R">>) \o b), Keyed(b, ks),
             sh = "bracket"
      PROVE  Holds(sh, in \o z, rp, ks \o e, x)
  <2> DEFINE h == <<"[">>
             m == Column(x) \o <<"R">>
  <2>1. h \in Seq(Chars) /\ m \in Seq(Chars)
    BY MarkSeqs, ColumnRead, ConcatProperties
  <2>2. in = h \o (m \o b)
    BY <1>5
  <2> HIDE DEF h, m
  <2>3. (m \o b) \o z = m \o (b \o z) /\ b \o z \in Seq(Chars) /\ m \o b \in Seq(Chars)
    BY <1>1, <2>1, Assoc, SMTT(40)
  <2>4. (h \o (m \o b)) \o z = h \o ((m \o b) \o z)
    <3> DEFINE y == m \o b
    <3>1. h \in Seq(Chars) /\ y \in Seq(Chars) /\ z \in Seq(Chars)
      BY <1>1, <2>1, <2>3
    <3> HIDE DEF y
    <3>2. (h \o y) \o z = h \o (y \o z)
      BY <3>1, Assoc, SMTT(40)
    <3> QED BY <3>2 DEF y
  <2>5. in \o z = h \o (m \o (b \o z))
    BY <2>2, <2>3, <2>4
  <2>6. Keyed(b \o z, ks \o e)
    BY <1>3, <1>5
  <2> QED BY <1>2, <1>5, <2>3, <2>5, <2>6 DEF Holds, h, m
<1>6. ASSUME NEW s \in Seq(Chars), NEW b \in Seq(Chars), in = s \o (<<"R">> \o b),
             Run("parameter", rp, s, AtColumn(x)), Keyed(b, ks), sh = "parameters"
      PROVE  Holds(sh, in \o z, rp, ks \o e, x)
  <2> DEFINE r == <<"R">>
  <2>1. r \in Seq(Chars) /\ in = s \o (r \o b)
    BY <1>6, MarkSeqs
  <2> HIDE DEF r
  <2>2. (r \o b) \o z = r \o (b \o z) /\ b \o z \in Seq(Chars) /\ r \o b \in Seq(Chars)
    <3>1. r \in Seq(Chars) /\ b \in Seq(Chars) /\ z \in Seq(Chars)
      BY <1>1, <2>1
    <3> QED BY <3>1, Assoc
  <2>3. (s \o (r \o b)) \o z = s \o ((r \o b) \o z)
    <3> DEFINE y == r \o b
    <3>1. s \in Seq(Chars) /\ y \in Seq(Chars) /\ z \in Seq(Chars)
      BY <1>1, <2>2
    <3> HIDE DEF y
    <3>2. (s \o y) \o z = s \o (y \o z)
      BY <3>1, Assoc, SMTT(40)
    <3> QED BY <3>2 DEF y
  <2>4. in \o z = s \o (r \o (b \o z))
    BY <2>1, <2>2, <2>3
  <2>5. Keyed(b \o z, ks \o e)
    BY <1>3, <1>6
  <2> QED BY <1>2, <1>6, <2>2, <2>4, <2>5 DEF Holds, r
<1>7. ASSUME Keyed(in, ks), sh \in {"prompt", "edit"} \/ (sh = "position" /\ rp = AtColumn(x))
      PROVE  Holds(sh, in \o z, rp, ks \o e, x)
  <2>1. Keyed(in \o z, ks \o e)
    BY <1>3, <1>7
  <2>2. CASE sh \in {"prompt", "edit"}
    BY <1>2, <2>1, <2>2 DEF Holds
  <2>3. CASE sh = "position" /\ rp = AtColumn(x)
    BY <1>2, <2>1, <2>3 DEF Holds
  <2> QED BY <1>7, <2>2, <2>3
<1>8. Holds(sh, in \o z, rp, ks \o e, x)
  <2>1. CASE sh = "seek"
    <3>1. PICK k1 \in Seq(Keys), k2 \in Seq(Keys), b \in Seq(Chars) :
            ks = k1 \o k2 /\ Run("input", in, k1, Answered(x) \o b) /\ Keyed(b, k2)
      BY <2>1 DEF Holds
    <3> QED BY <1>4, <2>1, <3>1
  <2>2. CASE sh = "bracket"
    <3>1. PICK b \in Seq(Chars) :
            in = <<"[">> \o ((Column(x) \o <<"R">>) \o b) /\ Keyed(b, ks)
      BY <2>2 DEF Holds
    <3> QED BY <1>5, <2>2, <3>1
  <2>3. CASE sh = "parameters"
    <3>1. PICK s \in Seq(Chars), b \in Seq(Chars) :
            /\ in = s \o (<<"R">> \o b)
            /\ Run("parameter", rp, s, AtColumn(x)) /\ Keyed(b, ks)
      BY <2>3 DEF Holds
    <3> QED BY <1>6, <2>3, <3>1
  <2>4. CASE sh \notin {"seek", "bracket", "parameters"}
    <3>1. Keyed(in, ks) /\ (sh \in {"prompt", "edit"} \/ (sh = "position" /\ rp = AtColumn(x)))
      BY <2>4 DEF Holds
    <3> QED BY <1>7, <3>1
  <2> QED BY <2>1, <2>2, <2>3, <2>4
<1> QED BY <1>8 DEF z, e

\* The answer arrives behind the keys.
LEMMA HoldsAnswer ==
  ASSUME NEW in, NEW rp, NEW ks, NEW x \in Nat, Keyed(in, ks)
  PROVE  Holds("seek", in \o Answered(x), rp, ks, x)
<1> DEFINE v == Answered(x)
           z == <<>>
<1>1. v \in Seq(Chars) /\ z \in Seq(Chars) /\ z \in Seq(Keys) /\ Keyed(z, z)
  <2>1. Run("input", z, z, z)
    BY RunEmpty
  <2>2. z \in Seq(Keys)
    BY EmptySeq
  <2> QED BY <2>1, <2>2, AnsweredText, EmptySeq DEF Keyed
<1>2. ks \in Seq(Keys) /\ ks \in Seq(Chars) /\ Run("input", in, ks, z)
  BY KeyedFacts DEF Keyed
<1>3. z \o v = v /\ v \o z = v /\ ks \o z = ks
  BY <1>1, <1>2, ConcatEmptySeq
<1> HIDE DEF v, z
<1>4. Run("input", in \o v, ks, z \o v)
  BY <1>1, <1>2, InputAppend
<1>5. Run("input", in \o v, ks, v \o z) /\ ks = ks \o z
  BY <1>3, <1>4
<1>6. \E k1 \in Seq(Keys), k2 \in Seq(Keys), b \in Seq(Chars) :
             /\ ks = k1 \o k2
             /\ Run("input", in \o v, k1, v \o b) /\ Keyed(b, k2)
  BY <1>1, <1>2, <1>5
<1> QED BY <1>2, <1>6 DEF Holds, v

(***************************************************************************)
(* The inductive invariant                                                 *)
(***************************************************************************)

\* Where the shell waits for the answer to a query, and uses it.
Querying == {"seek", "bracket", "parameters", "position"}

\* The types, and the keys that lead to a query.
EditorTypes ==
  /\ line \in Seq(Texts) /\ caret \in 0 .. Len(line)
  /\ ~unseen => line \in Seq(Plain)
  /\ buffer \in Seq(Keys) /\ typed \in Seq(Keys)
  /\ shell \in Querying \cup {"prompt", "edit"}
  /\ shell \in Querying =>
       \/ key = "none" \/ key \in Letters
       \/ key = "BACKSPACE" /\ caret > 0
       \/ key = "STAB" /\ Sole(RefWord(Before))

\* The last line of the screen, and the cursor, once the terminal has read
\* everything: a completion has moved it to where the word begins.  Nothing is
\* known of the line once one had a character that the terminal does not show.
Seen(l) == IF unseen THEN Lost ELSE l
Back == IF shell \in Querying /\ key = "STAB" THEN Len(RefWord(Before)) ELSE 0
ShownLine == Seen(IF shell = "prompt" THEN <<>> ELSE Prompt \o line)
ShownAt == IF shell = "prompt" THEN 0 ELSE (2 + caret) - Back

\* What is edited, and what it is after the key being handled.
Now == IF shell = "prompt" THEN Editing(commands, <<>>, <<>>)
       ELSE Editing(commands, Before, After)
Target == IF shell \in Querying /\ key # "none" THEN RefKey(Now, key) ELSE Now

\* The query is on its way to the terminal, or its answer on its way back
\* behind the keys that were typed before; ks are the keys in the pipe.
Pipes(ks) ==
  \/ shell = "seek" /\ Waiting(term, output, ShownLine, ShownAt) /\ Keyed(input, ks)
  \/ Reach(term, output, ShownLine, ShownAt) /\ Holds(shell, input, reply, ks, ShownAt)

\* The keys that are not yet handled lead from what is edited to the
\* reference.
Follows(ks) ==
  /\ ks \in Seq(Keys)
  /\ ~dropped => Run("reference", Target, buffer \o ks, Reference)

EditorInv == EditorTypes /\ \E ks : Pipes(ks) /\ Follows(ks)

\* The line, the word before the caret and the cursor.
LEMMA EditorFacts ==
  ASSUME EditorTypes
  PROVE  /\ Before \in Seq(Texts) /\ After \in Seq(Texts) /\ line = Before \o After
         /\ Len(Before) = caret /\ Len(line) \in Nat /\ caret \in Nat
         /\ Word = RefWord(Before) /\ Len(Word) \in 0 .. caret
         /\ (Completes <=> Sole(RefWord(Before)))
         /\ ShownAt \in Nat /\ ShownAt \in Int
         /\ ~unseen => /\ Before \in Seq(Plain) /\ After \in Seq(Plain)
                       /\ line \in Seq(Plain)
<1>1. line \in Seq(Texts) /\ caret \in 0 .. Len(line)
  BY DEF EditorTypes
<1>2. Before \in Seq(Texts) /\ After \in Seq(Texts) /\ line = Before \o After /\ Len(Before) = caret
  BY <1>1, SplitSeq, ZenonT(60) DEF Before, After
<1>3. Len(line) \in Nat /\ caret \in Nat
  BY <1>1, LenProperties
<1>4. Word = RefWord(Before)
  BY <1>2 DEF Word, RefWord
<1>5. Len(RefWord(Before)) \in 0 .. caret
  BY <1>2, WordFacts
<1>6. Completes <=> Sole(RefWord(Before))
  BY <1>4 DEF Completes, Sole
<1>7. ShownAt \in Nat
  BY <1>3, <1>5 DEF ShownAt, Back
<1>8. ASSUME ~unseen
      PROVE  Before \in Seq(Plain) /\ After \in Seq(Plain) /\ line \in Seq(Plain)
  <2>1. line \in Seq(Plain)
    BY <1>8 DEF EditorTypes
  <2> QED BY <1>1, <2>1, SplitSeq, ZenonT(60) DEF Before, After
<1> QED BY <1>2, <1>3, <1>4, <1>5, <1>6, <1>7, <1>8

\* A step that leaves the line alone.
LEMMA SameLine ==
  ASSUME EditorTypes, UNCHANGED <<key, line, caret, commands, unseen>>,
         shell' = shell \/ (shell \in Querying /\ shell' \in Querying)
  PROVE  /\ ShownLine' = ShownLine /\ ShownAt' = ShownAt
         /\ Now' = Now /\ Target' = Target
         /\ buffer' \in Seq(Keys) /\ typed' \in Seq(Keys) => EditorTypes'
<1>1. Before' = Before /\ After' = After
  BY DEF Before, After
<1>2. (shell' = "prompt") = (shell = "prompt") /\ (shell' \in Querying) = (shell \in Querying)
  BY DEF Querying
<1>3. ShownLine' = ShownLine
  BY <1>2 DEF ShownLine, Seen
<1>4. Back' = Back
  BY <1>1, <1>2 DEF Back
<1>5. ShownAt' = ShownAt
  BY <1>2, <1>4 DEF ShownAt
<1>6. Now' = Now
  BY <1>1, <1>2 DEF Now
<1>7. Target' = Target
  BY <1>2, <1>6 DEF Target
<1>8. ASSUME buffer' \in Seq(Keys), typed' \in Seq(Keys) PROVE EditorTypes'
  BY <1>1, <1>8 DEF EditorTypes
<1> QED BY <1>3, <1>5, <1>6, <1>7, <1>8

\* Initially.
LEMMA EditorInit ==
  ASSUME Init
  PROVE  EditorInv
<1>1. PICK g \in {0, 7} : term = NewTerminal([i \in 1 .. MaxParameters |-> g])
  BY DEF Init
<1>2. /\ output = Command(<<"[", "2", "J">>) \o SetCursor(0, 0)
      /\ input = <<>> /\ typed = <<>> /\ shell = "prompt" /\ key = "none"
      /\ buffer = <<>> /\ line = <<>> /\ caret = 0 /\ commands = <<>> /\ unseen = FALSE
  BY DEF Init
<1>3. Reach(term, output, <<>>, 0)
  BY <1>1, <1>2, DoesClear DEF Reach
<1> DEFINE z == <<>>
<1>4. z \in Seq(Texts) /\ z \in Seq(Plain) /\ z \in Seq(Keys) /\ z \in Seq(Chars) /\ Len(z) = 0
  BY EmptySeq
<1>5. EditorTypes
  BY <1>2, <1>4 DEF EditorTypes, Querying
<1>6. ShownLine = <<>> /\ ShownAt = 0 /\ Now = Start /\ Target = Now
  BY <1>2 DEF ShownLine, Seen, ShownAt, Now, Target, Start, Querying
<1>7. Keyed(z, z)
  BY <1>4, RunEmpty DEF Keyed
<1>8. Holds(shell, input, reply, z, ShownAt)
  BY <1>2, <1>4, <1>7 DEF Holds
<1>9. Pipes(z)
  BY <1>3, <1>6, <1>8 DEF Pipes
<1>10. Run("reference", Start, z, RefKeys(z))
  BY <1>4, RefKeysRun
<1>11. Reference = RefKeys(z) /\ buffer \o z = z
  BY <1>2, <1>4, ConcatEmptySeq DEF Reference
<1>12. Follows(z)
  BY <1>4, <1>6, <1>10, <1>11 DEF Follows
<1> QED BY <1>5, <1>9, <1>12 DEF EditorInv

\* The terminal reads a character.
LEMMA EditorTerminalReads ==
  ASSUME EditorInv, TerminalReads
  PROVE  EditorInv'
<1>1. PICK ks : Pipes(ks) /\ Follows(ks)
  BY DEF EditorInv
<1>2. EditorTypes
  BY DEF EditorInv
<1>3. /\ output # <<>>
      /\ term' = ProcessOutput(term, Head(output)) /\ output' = Tail(output)
      /\ input' = input \o Answer(term, Head(output), 80, 25)
  BY DEF TerminalReads
<1>4. UNCHANGED <<typed, shell, key, reply, buffer, dropped, line, caret, commands, unseen>>
  BY DEF TerminalReads
<1>5. ShownAt \in Nat
  BY <1>2, EditorFacts
<1>6. ShownLine' = ShownLine /\ ShownAt' = ShownAt /\ Target' = Target /\ EditorTypes'
  <2>1. buffer' \in Seq(Keys) /\ typed' \in Seq(Keys)
    BY <1>2, <1>4 DEF EditorTypes
  <2>2. /\ EditorTypes /\ UNCHANGED <<key, line, caret, commands, unseen>>
        /\ shell' = shell \/ (shell \in Querying /\ shell' \in Querying)
    BY <1>2, <1>4
  <2> QED BY <2>1, <2>2, SameLine
<1>7. Follows(ks)'
  <2>1. Reference' = Reference
    BY <1>4 DEF Reference
  <2> QED BY <1>1, <1>4, <1>6, <2>1 DEF Follows
<1>8. ASSUME input \in Seq(Chars), Answer(term, Head(output), 80, 25) = <<>> PROVE input' = input
  BY <1>3, <1>8, ConcatEmptySeq
<1>9. Pipes(ks)'
  <2>1. CASE Reach(term, output, ShownLine, ShownAt) /\ Holds(shell, input, reply, ks, ShownAt)
    <3>1. input \in Seq(Chars)
      BY <1>5, <2>1, HoldsType
    <3>2. /\ Answer(term, Head(output), 80, 25) = <<>>
          /\ Reach(term', output', ShownLine, ShownAt)
      BY <1>3, <2>1, ReachRead
    <3>3. input' = input
      BY <1>8, <3>1, <3>2
    <3> QED BY <1>4, <1>6, <2>1, <3>2, <3>3 DEF Pipes
  <2>2. CASE shell = "seek" /\ Waiting(term, output, ShownLine, ShownAt) /\ Keyed(input, ks)
    <3>1. input \in Seq(Chars)
      BY <2>2, KeyedFacts
    <3>2. CASE /\ Answer(term, Head(output), 80, 25) = <<>>
               /\ Waiting(term', output', ShownLine, ShownAt)
      <4>1. input' = input
        BY <1>8, <3>1, <3>2
      <4> QED BY <1>4, <1>6, <2>2, <3>2, <4>1 DEF Pipes
    <3>3. CASE /\ Answer(term, Head(output), 80, 25) = Answered(ShownAt)
               /\ Reach(term', output', ShownLine, ShownAt)
      <4>1. Holds("seek", input', reply, ks, ShownAt)
        BY <1>3, <1>5, <2>2, <3>3, HoldsAnswer
      <4>2. Holds(shell', input', reply', ks, ShownAt')
        BY <1>4, <1>6, <2>2, <4>1
      <4> QED BY <1>6, <3>3, <4>2 DEF Pipes
    <3> QED BY <1>3, <2>2, <3>2, <3>3, WaitingRead
  <2> QED BY <1>1, <2>1, <2>2 DEF Pipes
<1> QED BY <1>6, <1>7, <1>9 DEF EditorInv

\* The user types a key.
LEMMA EditorUserTypes ==
  ASSUME EditorInv, NEW k \in Keys, UserTypes(k)
  PROVE  EditorInv'
<1>1. PICK ks : Pipes(ks) /\ Follows(ks)
  BY DEF EditorInv
<1>2. EditorTypes /\ buffer \in Seq(Keys) /\ typed \in Seq(Keys) /\ ks \in Seq(Keys)
  BY <1>1 DEF EditorInv, EditorTypes, Follows
<1>3. typed' = Append(typed, k) /\ input' = input \o Sent(k)
  BY DEF UserTypes
<1>4. UNCHANGED <<term, output, shell, key, reply, buffer, dropped, line, caret, commands, unseen>>
  BY DEF UserTypes
<1>5. ShownAt \in Nat
  BY <1>2, EditorFacts
<1>6. ShownLine' = ShownLine /\ ShownAt' = ShownAt /\ Target' = Target /\ EditorTypes'
  <2>1. buffer' \in Seq(Keys) /\ typed' \in Seq(Keys)
    BY <1>2, <1>3, <1>4, AppendProperties
  <2>2. /\ EditorTypes /\ UNCHANGED <<key, line, caret, commands, unseen>>
        /\ shell' = shell \/ (shell \in Querying /\ shell' \in Querying)
    BY <1>2, <1>4
  <2> QED BY <2>1, <2>2, SameLine
<1> DEFINE e == <<k>>
           js == ks \o e
<1>7. e \in Seq(Keys) /\ js \in Seq(Keys)
  BY <1>2, OneSeq, ConcatProperties
<1>8. Follows(js)'
  <2>1. ASSUME ~dropped' PROVE Run("reference", Target', buffer' \o js, Reference')
    <3> DEFINE b == buffer
               q == b \o ks
    <3>1. b \in Seq(Keys) /\ ks \in Seq(Keys) /\ e \in Seq(Keys)
      BY <1>2, <1>7
    <3>2. Run("reference", Target, q, Reference)
      BY <1>1, <1>4, <2>1 DEF Follows
    <3>3. Reference' = RefKey(Reference, k)
      BY <1>2, <1>3, RefKeysAppend DEF Reference
    <3>4. Step("reference", Reference, k, Reference')
      BY <3>3 DEF Step
    <3>5. Run("reference", Reference, e, Reference')
      BY <3>4, RunOne
    <3> HIDE DEF b, e
    <3>6. (b \o ks) \o e = b \o (ks \o e) /\ b \o ks \in Seq(Keys)
      BY <3>1, Assoc
    <3>7. q \in Seq(Chars) /\ e \in Seq(Chars)
      BY <3>1, <3>6, KeysAreChars
    <3> HIDE DEF q
    <3>8. Run("reference", Target, q \o e, Reference')
      BY <3>2, <3>5, <3>7, RunCompose
    <3>9. q \o e = b \o js
      BY <3>6 DEF q
    <3> QED BY <1>4, <1>6, <3>8, <3>9 DEF b
  <2> QED BY <1>7, <2>1 DEF Follows
<1>9. Pipes(js)'
  <2>1. CASE Reach(term, output, ShownLine, ShownAt) /\ Holds(shell, input, reply, ks, ShownAt)
    <3>1. Holds(shell, input', reply, js, ShownAt)
      BY <1>3, <1>5, <2>1, HoldsKey
    <3>2. Holds(shell', input', reply', js, ShownAt')
      BY <1>4, <1>6, <3>1
    <3> QED BY <1>4, <1>6, <2>1, <3>2 DEF Pipes
  <2>2. CASE shell = "seek" /\ Waiting(term, output, ShownLine, ShownAt) /\ Keyed(input, ks)
    <3>1. Keyed(input', js)
      BY <1>3, <2>2, KeyedAppend
    <3> QED BY <1>4, <1>6, <2>2, <3>1 DEF Pipes
  <2> QED BY <1>1, <2>1, <2>2 DEF Pipes
<1> QED BY <1>6, <1>8, <1>9 DEF EditorInv

\* A key moves from the pipe to the buffer.
LEMMA BufferKey ==
  ASSUME NEW j \in Keys, NEW js \in Seq(Keys), NEW b \in Seq(Keys)
  PROVE  Append(b, j) \o js = b \o (<<j>> \o js)
<1> DEFINE e == <<j>>
<1>1. b \in Seq(Keys) /\ e \in Seq(Keys) /\ js \in Seq(Keys)
  BY OneSeq
<1>2. Append(b, j) = b \o e
  BY AppendIsConcat
<1> HIDE DEF e
<1>3. (b \o e) \o js = b \o (e \o js)
  BY <1>1, Assoc
<1> QED BY <1>2, <1>3 DEF e

\* The library looks for the answer to a query.
LEMMA EditorReadUntilEsc ==
  ASSUME EditorInv, ReadUntilEsc
  PROVE  EditorInv'
<1>1. PICK ks : Pipes(ks) /\ Follows(ks)
  BY DEF EditorInv
<1>2. EditorTypes /\ buffer \in Seq(Keys) /\ typed \in Seq(Keys) /\ ks \in Seq(Keys)
  BY <1>1 DEF EditorInv, EditorTypes, Follows
<1>3. shell = "seek" /\ input # <<>> /\ input' = Unread
  BY DEF ReadUntilEsc
<1>4. UNCHANGED <<term, output, typed, key, reply, line, caret, commands, unseen>>
  BY DEF ReadUntilEsc
<1>5. ShownAt \in Nat
  BY <1>2, EditorFacts
<1>6. Received = ESC => shell' = "bracket" /\ buffer' = buffer /\ dropped' = dropped
  BY DEF ReadUntilEsc
<1>7. Received # ESC => /\ shell' = shell
                        /\ buffer' = IF Len(buffer) < BufferSize THEN Append(buffer, Received) ELSE buffer
                        /\ dropped' = (dropped \/ Len(buffer) >= BufferSize)
  BY DEF ReadUntilEsc
<1>8. Reference' = Reference
  BY <1>4 DEF Reference
<1>9. ASSUME NEW j \in Keys, NEW js \in Seq(Keys), ks = <<j>> \o js, Received = j
      PROVE  /\ shell' = "seek" /\ Follows(js)' /\ EditorTypes'
             /\ ShownLine' = ShownLine /\ ShownAt' = ShownAt
  <2>1. j # ESC
    BY SentType
  <2>2. /\ shell' = shell /\ dropped' = (dropped \/ Len(buffer) >= BufferSize)
        /\ buffer' = IF Len(buffer) < BufferSize THEN Append(buffer, j) ELSE buffer
    BY <1>7, <1>9, <2>1
  <2>3. buffer' \in Seq(Keys) /\ typed' \in Seq(Keys)
    <3>1. Append(buffer, j) \in Seq(Keys)
      BY <1>2, AppendProperties
    <3> QED BY <1>2, <1>4, <2>2, <3>1
  <2>4. /\ EditorTypes /\ UNCHANGED <<key, line, caret, commands, unseen>>
        /\ shell' = shell \/ (shell \in Querying /\ shell' \in Querying)
    BY <1>2, <1>4, <2>2
  <2>5. EditorTypes' /\ ShownLine' = ShownLine /\ ShownAt' = ShownAt /\ Target' = Target
    BY <2>3, <2>4, SameLine
  <2>6. ASSUME ~dropped' PROVE Run("reference", Target', buffer' \o js, Reference')
    <3>1. ~dropped /\ ~(Len(buffer) >= BufferSize)
      BY <2>2, <2>6
    <3>2. Len(buffer) < BufferSize
      <4>1. Len(buffer) \in Nat /\ BufferSize \in Nat
        BY <1>2, LenProperties, EditorAssumption
      <4> QED BY <3>1, <4>1
    <3>3. buffer' = Append(buffer, j)
      BY <2>2, <3>2
    <3>4. buffer' \o js = buffer \o ks
      BY <1>2, <1>9, <3>3, BufferKey
    <3>5. Run("reference", Target, buffer \o ks, Reference)
      BY <1>1, <3>1 DEF Follows
    <3> QED BY <1>8, <2>5, <3>4, <3>5
  <2>7. Follows(js)'
    BY <2>6 DEF Follows
  <2> QED BY <1>3, <2>2, <2>5, <2>7
<1>10. CASE shell = "seek" /\ Waiting(term, output, ShownLine, ShownAt) /\ Keyed(input, ks)
  <2>1. ks # <<>>
    BY <1>3, <1>10, KeyedFacts
  <2>2. PICK rest \in Seq(Chars) :
          Head(ks) \in Keys /\ input = Sent(Head(ks)) \o rest /\ Keyed(rest, Tail(ks))
    BY <1>10, <2>1, KeyedFacts
  <2>3. Received = Head(ks) /\ Unread = rest
    BY <2>2, ReceiveKey
  <2>4. Tail(ks) \in Seq(Keys) /\ ks = <<Head(ks)>> \o Tail(ks)
    BY <1>2, <2>1, HeadTailConcat
  <2>5. /\ shell' = "seek" /\ Follows(Tail(ks))' /\ EditorTypes'
        /\ ShownLine' = ShownLine /\ ShownAt' = ShownAt
    BY <1>9, <2>2, <2>3, <2>4
  <2> DEFINE js == Tail(ks)
  <2>6. Keyed(input', js)
    BY <1>3, <2>2, <2>3
  <2> HIDE DEF js
  <2>7. Pipes(js)'
    BY <1>4, <1>10, <2>5, <2>6 DEF Pipes
  <2>8. Follows(js)'
    BY <2>5 DEF js
  <2> QED BY <2>5, <2>7, <2>8 DEF EditorInv
<1>11. CASE Reach(term, output, ShownLine, ShownAt) /\ Holds(shell, input, reply, ks, ShownAt)
  <2>1. PICK k1 \in Seq(Keys), k2 \in Seq(Keys), b \in Seq(Chars) :
             /\ ks = k1 \o k2
             /\ Run("input", input, k1, Answered(ShownAt) \o b) /\ Keyed(b, k2)
    BY <1>3, <1>11 DEF Holds
  <2>2. CASE k1 # <<>>
    <3> DEFINE j == Head(k1)
               i1 == Tail(k1)
               js == i1 \o k2
    <3>1. j \in Keys /\ i1 \in Seq(Keys) /\ k1 = <<j>> \o i1 /\ k1 \in Seq(Chars)
      BY <2>2, HeadTailConcat, KeysAreChars
    <3>2. PICK c : Step("input", input, j, c) /\ Run("input", c, i1, Answered(ShownAt) \o b)
      BY <2>1, <2>2, <3>1, RunHead
    <3>3. c \in Seq(Chars) /\ input = Sent(j) \o c
      BY <3>2 DEF Step
    <3> HIDE DEF j, i1
    <3>4. Received = j /\ Unread = c
      BY <3>1, <3>3, ReceiveKey
    <3>5. ks = <<j>> \o js /\ js \in Seq(Keys)
      <4> DEFINE e == <<j>>
      <4>1. e \in Seq(Keys) /\ i1 \in Seq(Keys) /\ k2 \in Seq(Keys)
        BY <3>1, OneSeq
      <4>2. ks = (e \o i1) \o k2
        BY <2>1, <3>1
      <4> HIDE DEF e
      <4>3. (e \o i1) \o k2 = e \o (i1 \o k2) /\ i1 \o k2 \in Seq(Keys)
        BY <4>1, Assoc
      <4> QED BY <4>2, <4>3 DEF e
    <3>6. Holds("seek", c, reply, js, ShownAt)
      BY <2>1, <3>1, <3>2, <3>5 DEF Holds
    <3> HIDE DEF js
    <3>7. /\ shell' = "seek" /\ Follows(js)' /\ EditorTypes'
          /\ ShownLine' = ShownLine /\ ShownAt' = ShownAt
      BY <1>9, <3>1, <3>4, <3>5
    <3>8. Holds(shell', input', reply', js, ShownAt')
      BY <1>3, <1>4, <3>4, <3>6, <3>7
    <3>9. Pipes(js)'
      BY <1>4, <1>11, <3>7, <3>8 DEF Pipes
    <3> QED BY <3>7, <3>9 DEF EditorInv
  <2>3. CASE k1 = <<>>
    <3>1. ks = k2
      BY <1>2, <2>1, <2>3, ConcatEmptySeq
    <3>2. input = Answered(ShownAt) \o b
      BY <2>1, <2>3, RunEmpty
    <3> DEFINE h == <<ESC>>
               g == <<"[">>
               m == Column(ShownAt) \o <<"R">>
               rest == g \o (m \o b)
    <3>3. h \in Seq(Chars) /\ g \in Seq(Chars) /\ m \in Seq(Chars)
      BY <1>5, MarkSeqs, ColumnRead, ConcatProperties
    <3>4. Answered(ShownAt) = h \o (g \o m)
      BY <1>5, AnsweredText
    <3> HIDE DEF h, g, m
    <3>5. (g \o m) \o b = rest /\ rest \in Seq(Chars) /\ g \o m \in Seq(Chars)
      BY <3>3, Assoc, SMTT(40)
    <3> DEFINE y == g \o m
    <3>6. (h \o y) \o b = h \o (y \o b)
      <4>1. h \in Seq(Chars) /\ y \in Seq(Chars) /\ b \in Seq(Chars)
        BY <3>3, <3>5
      <4> HIDE DEF y
      <4> QED BY <4>1, Assoc, SMTT(40)
    <3>7. input = h \o rest
      BY <3>2, <3>4, <3>5, <3>6
    <3> HIDE DEF rest
    <3>8. Received = ESC /\ Unread = rest
      BY <3>5, <3>7, MarkSeqs, ReceiveChar DEF h
    <3>9. shell' = "bracket" /\ buffer' = buffer /\ dropped' = dropped /\ input' = rest
      BY <1>3, <1>6, <3>8
    <3>10. Holds("bracket", rest, reply, ks, ShownAt)
      BY <1>2, <2>1, <3>1 DEF Holds, rest, g, m
    <3>11. /\ EditorTypes /\ UNCHANGED <<key, line, caret, commands, unseen>>
           /\ shell' = shell \/ (shell \in Querying /\ shell' \in Querying)
      BY <1>2, <1>3, <1>4, <3>9 DEF Querying
    <3>12. buffer' \in Seq(Keys) /\ typed' \in Seq(Keys)
      BY <1>2, <1>4, <3>9
    <3>13. EditorTypes' /\ ShownLine' = ShownLine /\ ShownAt' = ShownAt /\ Target' = Target
      BY <3>11, <3>12, SameLine
    <3>14. Holds(shell', input', reply', ks, ShownAt')
      BY <1>4, <3>9, <3>10, <3>13
    <3>15. Pipes(ks)'
      BY <1>4, <1>11, <3>13, <3>14 DEF Pipes
    <3>16. Follows(ks)'
      BY <1>1, <1>8, <3>9, <3>13 DEF Follows
    <3> QED BY <3>13, <3>15, <3>16 DEF EditorInv
  <2> QED BY <2>2, <2>3
<1> QED BY <1>1, <1>10, <1>11 DEF Pipes

\* The shell is between the bytes of an answer: the screen is settled.
LEMMA Answering ==
  ASSUME NEW ks, Pipes(ks), shell # "seek"
  PROVE  Reach(term, output, ShownLine, ShownAt) /\ Holds(shell, input, reply, ks, ShownAt)
BY DEF Pipes

\* A step that reads a byte of an answer.
LEMMA EditorReadAnswer ==
  ASSUME EditorTypes, NEW ks, Pipes(ks), Follows(ks), shell # "seek",
         UNCHANGED <<term, output, typed, key, buffer, dropped, line, caret, commands, unseen>>,
         shell \in Querying, shell' \in Querying,
         Holds(shell', input', reply', ks, ShownAt)
  PROVE  EditorInv'
<1>1. Reach(term, output, ShownLine, ShownAt)
  BY Answering
<1>2. /\ EditorTypes /\ UNCHANGED <<key, line, caret, commands, unseen>>
      /\ shell' = shell \/ (shell \in Querying /\ shell' \in Querying)
  OBVIOUS
<1>3. buffer' \in Seq(Keys) /\ typed' \in Seq(Keys)
  BY DEF EditorTypes
<1>4. EditorTypes' /\ ShownLine' = ShownLine /\ ShownAt' = ShownAt /\ Target' = Target
  BY <1>2, <1>3, SameLine
<1>5. Pipes(ks)'
  BY <1>1, <1>4 DEF Pipes
<1>6. Reference' = Reference
  BY DEF Reference
<1>7. Follows(ks)'
  BY <1>4, <1>6 DEF Follows
<1> QED BY <1>4, <1>5, <1>7 DEF EditorInv

\* The byte behind the ESC.
LEMMA EditorReadBracket ==
  ASSUME EditorInv, ReadBracket
  PROVE  EditorInv'
<1>1. PICK ks : Pipes(ks) /\ Follows(ks)
  BY DEF EditorInv
<1>2. EditorTypes /\ shell = "bracket" /\ ShownAt \in Nat
  BY EditorFacts DEF EditorInv, ReadBracket
<1>3. PICK b \in Seq(Chars) :
        input = <<"[">> \o ((Column(ShownAt) \o <<"R">>) \o b) /\ Keyed(b, ks)
  BY <1>1, <1>2, Answering DEF Holds
<1> DEFINE m == Column(ShownAt)
           r == <<"R">>
           rest == m \o (r \o b)
<1>4. m \in Seq(Chars) /\ r \in Seq(Chars) /\ b \in Seq(Chars)
      /\ Run("parameter", NoReply, m, AtColumn(ShownAt))
  BY <1>2, MarkSeqs, ColumnRead
<1>5. input = <<"[">> \o ((m \o r) \o b)
  BY <1>3
<1> HIDE DEF m, r
<1>6. (m \o r) \o b = rest /\ rest \in Seq(Chars)
  <2>1. m \in Seq(Chars) /\ r \in Seq(Chars) /\ b \in Seq(Chars)
    BY <1>4
  <2> QED BY <2>1, Assoc, SMTT(40)
<1>7. input = <<"[">> \o rest
  BY <1>5, <1>6
<1> HIDE DEF rest
<1>8. Received = "[" /\ Unread = rest
  <2>1. "[" \in Chars /\ "[" # "sub"
    BY MarkSeqs
  <2> QED BY <1>6, <1>7, <2>1, ReceiveChar
<1>9. shell' = "parameters" /\ input' = rest /\ reply' = NoReply
  BY <1>8 DEF ReadBracket
<1>10. UNCHANGED <<term, output, typed, key, buffer, dropped, line, caret, commands, unseen>>
  BY DEF ReadBracket
<1>11. ks \in Seq(Keys)
  BY <1>1 DEF Follows
<1>12. Holds("parameters", rest, NoReply, ks, ShownAt)
  BY <1>3, <1>4, <1>11 DEF Holds, rest, r
<1>13. Holds(shell', input', reply', ks, ShownAt)
  BY <1>9, <1>12
<1>14. shell # "seek" /\ shell \in Querying /\ shell' \in Querying
  BY <1>2, <1>9 DEF Querying
<1> QED BY <1>1, <1>2, <1>10, <1>13, <1>14, EditorReadAnswer

\* The digits of the answer, and its end.
LEMMA EditorReadParameter ==
  ASSUME EditorInv, ReadParameter
  PROVE  EditorInv'
<1>1. PICK ks : Pipes(ks) /\ Follows(ks)
  BY DEF EditorInv
<1>2. EditorTypes /\ shell = "parameters" /\ ShownAt \in Nat /\ ks \in Seq(Keys)
  BY <1>1, EditorFacts DEF EditorInv, ReadParameter, Follows
<1>3. PICK s \in Seq(Chars), b \in Seq(Chars) :
             /\ input = s \o (<<"R">> \o b)
             /\ Run("parameter", reply, s, AtColumn(ShownAt)) /\ Keyed(b, ks)
  BY <1>1, <1>2, Answering DEF Holds
<1>4. UNCHANGED <<term, output, typed, key, buffer, dropped, line, caret, commands, unseen>>
  BY DEF ReadParameter
<1>5. input' = Unread
  BY DEF ReadParameter
<1> DEFINE r == <<"R">>
           y == r \o b
<1>6. r \in Seq(Chars) /\ y \in Seq(Chars) /\ input = s \o y
  BY <1>3, MarkSeqs, ConcatProperties
<1>7. shell' \in Querying /\ Holds(shell', input', reply', ks, ShownAt)
  <2>1. CASE s = <<>>
    <3>1. input = <<"R">> \o b
      <4> HIDE DEF y
      <4>1. input = y
        BY <1>6, <2>1, ConcatEmptySeq
      <4> QED BY <4>1 DEF y
    <3>2. "R" \in Chars /\ "R" # "sub"
      BY MarkSeqs
    <3>3. Received = "R" /\ Unread = b
      BY <3>1, <3>2, ReceiveChar
    <3>4. "R" \notin Digits \cup {";"}
      BY DigitSet
    <3>5. shell' = "position" /\ reply' = reply
      BY <3>3, <3>4 DEF ReadParameter
    <3>6. reply = AtColumn(ShownAt)
      BY <1>3, <2>1, RunEmpty
    <3>7. Holds("position", b, reply, ks, ShownAt)
      BY <1>2, <1>3, <3>6 DEF Holds
    <3> QED BY <1>5, <3>3, <3>5, <3>7 DEF Querying
  <2>2. CASE s # <<>>
    <3> DEFINE c == Head(s)
               z == Tail(s)
    <3>1. c \in Chars /\ z \in Seq(Chars) /\ s = <<c>> \o z
      BY <2>2, HeadTailConcat
    <3>2. PICK q : Step("parameter", reply, c, q) /\ Run("parameter", q, z, AtColumn(ShownAt))
      BY <1>3, <2>2, RunHead
    <3> HIDE DEF c, z, r, y
    <3>3. c \in Digits \cup {";"} /\ q = ReadDigit(reply, c)
      BY <3>2 DEF Step
    <3>4. c # "sub"
      BY <3>3, DigitSet
    <3>5. input = <<c>> \o (z \o y) /\ z \o y \in Seq(Chars)
      <4> DEFINE e == <<c>>
      <4>1. e \in Seq(Chars) /\ z \in Seq(Chars) /\ y \in Seq(Chars)
        BY <1>6, <3>1, OneSeq
      <4>2. input = (e \o z) \o y
        BY <1>6, <3>1
      <4> HIDE DEF e
      <4>3. (e \o z) \o y = e \o (z \o y) /\ z \o y \in Seq(Chars)
        BY <4>1, Assoc, SMTT(40)
      <4> QED BY <4>2, <4>3 DEF e
    <3> DEFINE rest == z \o y
    <3>6. input = <<c>> \o rest /\ rest \in Seq(Chars)
      BY <3>5
    <3> HIDE DEF rest
    <3>7. Received = c /\ Unread = rest
      BY <3>1, <3>4, <3>6, ReceiveChar
    <3>8. shell' = shell /\ reply' = q
      <4>1. CASE c \in Digits
        <5>1. c # ";"
          BY <4>1, DigitSet DEF Marks
        <5>2. /\ shell' = shell
              /\ LET n == IF reply.count = 0 THEN 1 ELSE reply.count IN
                 reply' = IF n > MaxParameters THEN reply
                          ELSE [count |-> n, parameters |->
                                [reply.parameters EXCEPT ![n] = @ * 10 + DigitValue(c)]]
          BY <3>7, <4>1, <5>1 DEF ReadParameter
        <5> QED BY <3>3, <4>1, <5>2 DEF ReadDigit
      <4>2. CASE c \notin Digits
        <5>1. c = ";"
          BY <3>3, <4>2
        <5>2. shell' = shell /\ reply' = [reply EXCEPT !.count = @ + 1]
          BY <3>7, <4>2, <5>1 DEF ReadParameter
        <5> QED BY <3>3, <4>2, <5>2 DEF ReadDigit
      <4> QED BY <4>1, <4>2
    <3>9. Holds("parameters", rest, q, ks, ShownAt)
      BY <1>2, <1>3, <3>1, <3>2 DEF Holds, rest, y, r
    <3> QED BY <1>2, <1>5, <3>7, <3>8, <3>9 DEF Querying
  <2> QED BY <2>1, <2>2
<1>8. shell # "seek" /\ shell \in Querying
  BY <1>2 DEF Querying
<1> QED BY <1>1, <1>2, <1>4, <1>7, <1>8, EditorReadAnswer

\* Nothing but the prompt.
LEMMA EmptyLine ==
  /\ SubSeq(<<>>, 1, 0) = <<>> /\ SubSeq(<<>>, 0 + 1, Len(<<>>)) = <<>>
  /\ Prompt \o <<>> = Prompt /\ Len(<<>>) = 0 /\ \A S : <<>> \in Seq(S)
<1>1. SubSeq(<<>>, 1, 0) = <<>> /\ SubSeq(<<>>, 0 + 1, Len(<<>>)) = <<>>
  BY SubSeqEmpty
<1>2. Prompt \o <<>> = Prompt
  BY PromptType, ConcatEmptySeq
<1> QED BY <1>1, <1>2, EmptySeq

\* The prompt is shown.
LEMMA EditorShowPrompt ==
  ASSUME CompletionsAreNames, EditorInv, ShowPrompt
  PROVE  EditorInv'
<1>1. PICK ks : Pipes(ks) /\ Follows(ks)
  BY DEF EditorInv
<1>2. EditorTypes /\ shell = "prompt"
  BY DEF EditorInv, ShowPrompt
<1>3. /\ output' = output \o Command(<<"[", "3", "8", "m">>) \o Prompt
                     \o Command(<<"[", "0", "m">>) \o QueryCursor
      /\ shell' = "seek" /\ key' = "none" /\ line' = <<>> /\ caret' = 0
  BY DEF ShowPrompt
<1>4. UNCHANGED <<term, input, typed, reply, buffer, dropped, commands, unseen>>
  BY DEF ShowPrompt
<1>5. Reach(term, output, Seen(<<>>), 0) /\ Keyed(input, ks)
  <2>1. ShownLine = Seen(<<>>) /\ ShownAt = 0
    BY <1>2 DEF ShownLine, ShownAt
  <2>2. Reach(term, output, ShownLine, ShownAt) /\ Holds(shell, input, reply, ks, ShownAt)
    BY <1>1, <1>2, Answering
  <2>3. Keyed(input, ks)
    BY <1>2, <2>2 DEF Holds
  <2> QED BY <2>1, <2>2, <2>3
<1>6. Waiting(term', output', Seen(Prompt), 2)
  <2> DEFINE o == output \o Command(<<"[", "3", "8", "m">>) \o Prompt \o Command(<<"[", "0", "m">>)
  <2>1. Reach(term, o, Seen(Prompt), 2)
    <3>1. CASE unseen
      BY <1>5, <3>1, LostPrompt DEF Seen
    <3>2. CASE ~unseen
      BY <1>5, <3>2, ScreenPrompt DEF Seen
    <3> QED BY <3>1, <3>2
  <2> QED BY <1>3, <1>4, <2>1, ReachQuery
<1>7. Before' = <<>> /\ After' = <<>>
  BY <1>3, EmptyLine DEF Before, After
<1>8. ShownLine' = Seen(Prompt)
  BY <1>3, <1>4, EmptyLine DEF ShownLine, Seen
<1>9. ShownAt' = 2
  BY <1>3 DEF ShownAt, Back
<1>10. Pipes(ks)'
  BY <1>3, <1>4, <1>5, <1>6, <1>8, <1>9 DEF Pipes
<1>11. Target' = Target /\ Reference' = Reference
  BY <1>2, <1>3, <1>4, <1>7 DEF Target, Now, Querying, Reference
<1>12. Follows(ks)'
  BY <1>1, <1>4, <1>11 DEF Follows
<1>13. EditorTypes'
  <2>1. line' \in Seq(Texts) /\ line' \in Seq(Plain) /\ caret' \in 0 .. Len(line')
    BY <1>3, EmptyLine
  <2> QED BY <1>2, <1>3, <1>4, <2>1 DEF EditorTypes, Querying
<1> QED BY <1>10, <1>12, <1>13 DEF EditorInv

\* The answer to a query is where the cursor is.
LEMMA PositionIs ==
  ASSUME EditorTypes, NEW ks, Pipes(ks), HasPosition
  PROVE  /\ shell = "position" /\ shell \in Querying
         /\ Position.x = ShownAt /\ Position.y = 0
         /\ Reach(term, output, ShownLine, ShownAt) /\ Keyed(input, ks)
<1>1. shell = "position" /\ shell \in Querying
  BY DEF EditorTypes, HasPosition, Querying
<1>2. Reach(term, output, ShownLine, ShownAt) /\ Holds(shell, input, reply, ks, ShownAt)
  BY <1>1, Answering
<1>3. reply = AtColumn(ShownAt) /\ Keyed(input, ks)
  BY <1>1, <1>2 DEF Holds
<1>4. AtColumn(ShownAt).parameters[1] = 0 /\ AtColumn(ShownAt).parameters[2] = ShownAt
  <2>1. ShownAt \in Nat
    BY EditorFacts
  <2> QED BY <2>1, ColumnRead
<1>5. Position.x = ShownAt /\ Position.y = 0
  BY <1>1, <1>3, <1>4 DEF Position
<1> QED BY <1>1, <1>2, <1>3, <1>5

\* The editor continues with the answer: the keys stay where they are.
LEMMA EditorContinues ==
  ASSUME EditorTypes, NEW ks, Pipes(ks), Follows(ks), HasPosition,
         UNCHANGED <<term, input, typed, buffer, dropped, commands>>, shell' = "edit",
         line' \in Seq(Texts), caret' \in 0 .. Len(line'),
         ~unseen' => line' \in Seq(Plain),
         Reach(term', output', Seen(Prompt \o line)', 2 + caret'),
         Editing(commands, Before', After') = Target
  PROVE  EditorInv'
<1>1. Keyed(input, ks) /\ ks \in Seq(Keys)
  BY PositionIs DEF Follows
<1>2. ShownLine' = Seen(Prompt \o line)'
  BY DEF ShownLine, Seen
<1>3. ShownAt' = 2 + caret'
  <2>1. Back' = 0
    BY DEF Back, Querying
  <2>2. caret' \in Int
    OBVIOUS
  <2> QED BY <2>1, <2>2 DEF ShownAt
<1>4. Holds(shell', input', reply', ks, ShownAt')
  BY <1>1 DEF Holds
<1>5. Pipes(ks)'
  BY <1>2, <1>3, <1>4 DEF Pipes
<1>6. Target' = Target /\ Reference' = Reference
  BY DEF Target, Now, Querying, Reference
<1>7. Follows(ks)'
  BY <1>6 DEF Follows
<1>8. EditorTypes'
  BY DEF EditorTypes, Querying
<1> QED BY <1>5, <1>7, <1>8 DEF EditorInv

\* The first answer: editing begins.
LEMMA EditorStartLine ==
  ASSUME EditorInv, StartLine
  PROVE  EditorInv'
<1>1. PICK ks : Pipes(ks) /\ Follows(ks)
  BY DEF EditorInv
<1>2. EditorTypes /\ HasPosition /\ key = "none"
  BY DEF EditorInv, StartLine
<1>3. /\ output' = output \o SetCursor(Position.x, Position.y) \o SetMode(1) \o SetEcho(0)
      /\ shell' = "edit"
  BY DEF StartLine
<1>4. UNCHANGED <<term, input, typed, buffer, dropped, commands, line, caret, unseen>>
  BY DEF StartLine
<1>5. /\ shell = "position" /\ Position.x = ShownAt /\ Position.y = 0
      /\ Reach(term, output, ShownLine, ShownAt)
  BY <1>1, <1>2, PositionIs
<1>6. ShownLine = Seen(Prompt \o line) /\ ShownAt = 2 + caret /\ 2 + caret \in Nat /\ 2 + caret \in Int
  <2>1. caret \in Nat
    BY <1>2, EditorFacts
  <2>2. Back = 0
    BY <1>2 DEF Back
  <2> QED BY <1>5, <2>1, <2>2 DEF ShownLine, ShownAt
<1> DEFINE n == 2 + caret
           l == Seen(Prompt \o line)
<1>7. n \in Nat /\ n \in Int /\ Reach(term, output, l, n)
      /\ output' = output \o SetCursor(n, 0) \o SetMode(1) \o SetEcho(0)
  BY <1>3, <1>5, <1>6
<1> HIDE DEF n, l
<1>8. Reach(term, output \o SetCursor(n, 0), l, n)
  BY <1>7, DoesSetCursor, ReachDoes
<1>9. Does(SetMode(1), l, n, l, n) /\ Does(SetEcho(0), l, n, l, n)
  BY <1>7, DoesSetMode
<1>10. Reach(term, output \o SetCursor(n, 0) \o SetMode(1), l, n)
  BY <1>8, <1>9, ReachDoes
<1>11. Reach(term, output \o SetCursor(n, 0) \o SetMode(1) \o SetEcho(0), l, n)
  BY <1>9, <1>10, ReachDoes
<1>12. Reach(term', output', Seen(Prompt \o line)', 2 + caret')
  BY <1>4, <1>7, <1>11 DEF l, n, Seen
<1>13. Editing(commands, Before', After') = Target
  BY <1>2, <1>4, <1>5 DEF Target, Now, Before, After
<1>14. line' \in Seq(Texts) /\ caret' \in 0 .. Len(line') /\ (~unseen' => line' \in Seq(Plain))
  BY <1>2, <1>4 DEF EditorTypes
<1>15. UNCHANGED <<term, input, typed, buffer, dropped, commands>>
  BY <1>4
<1> QED BY <1>1, <1>2, <1>3, <1>12, <1>13, <1>14, <1>15, EditorContinues

\* The part of the line before the caret is printed behind the prompt.
LEMMA ShownParts ==
  ASSUME NEW x \in Seq(Plain), NEW y \in Seq(Plain)
  PROVE  /\ Prompt \o (x \o y) = (Prompt \o x) \o y
         /\ Prompt \o x \in Seq(Printed) /\ Len(Prompt \o x) = 2 + Len(x)
         /\ x \in Seq(Printed) /\ y \in Seq(Printed)
<1> DEFINE p == Prompt
<1>1. x \in Seq(Printed) /\ y \in Seq(Printed)
  <2>1. Plain \subseteq Printed
    BY DEF Printed
  <2> QED BY <2>1
<1>2. p \in Seq(Printed) /\ Len(p) = 2
  BY PromptType
<1> HIDE DEF p
<1>3. p \in Seq(Printed) /\ x \in Seq(Printed) /\ y \in Seq(Printed)
  BY <1>1, <1>2
<1>4. (p \o x) \o y = p \o (x \o y) /\ p \o x \in Seq(Printed)
  BY <1>3, Assoc
<1>5. Len(p \o x) = 2 + Len(x)
  <2>1. Len(p \o x) = Len(p) + Len(x)
    BY <1>3, ConcatProperties
  <2> QED BY <1>2, <2>1
<1> QED BY <1>1, <1>4, <1>5 DEF p

\* A line that the terminal shows is not lost.
LEMMA NotLost ==
  ASSUME EditorTypes, ~unseen
  PROVE  Prompt \o line # Lost /\ ShownLine # Lost
<1>1. line \in Seq(Plain)
  BY DEF EditorTypes
<1>2. Len(Prompt \o line) = 2 + Len(line) /\ Len(line) \in Nat
  BY <1>1, ShownParts, LenProperties
<1>3. Len(Lost) = 1 /\ Lost # <<>>
  BY DEF Lost
<1>4. Prompt \o line # Lost
  <2>1. 2 + Len(line) # 1
    BY <1>2
  <2> QED BY <1>2, <1>3, <2>1
<1> QED BY <1>3, <1>4 DEF ShownLine, Seen

\* A line made of two parts, with the caret between them.
LEMMA LineOfParts ==
  ASSUME NEW x \in Seq(Texts), NEW y \in Seq(Texts), line' = x \o y, caret' = Len(x)
  PROVE  /\ line' \in Seq(Texts) /\ caret' \in 0 .. Len(line')
         /\ Before' = x /\ After' = y
<1>1. x \o y \in Seq(Texts) /\ Len(x \o y) = Len(x) + Len(y) /\ Len(x) \in Nat /\ Len(y) \in Nat
  BY ConcatProperties, LenProperties
<1>2. SubSeq(x \o y, 1, Len(x)) = x /\ SubSeq(x \o y, Len(x) + 1, Len(x \o y)) = y
  BY SplitConcat
<1>3. Before' = x /\ After' = y
  BY <1>2 DEF Before, After
<1>4. caret' \in 0 .. Len(line')
  BY <1>1
<1> QED BY <1>1, <1>3, <1>4

\* A character is inserted.
LEMMA EditorInsert ==
  ASSUME CompletionsAreNames, EditorInv, Insert
  PROVE  EditorInv'
<1>1. PICK ks : Pipes(ks) /\ Follows(ks)
  BY DEF EditorInv
<1>2. EditorTypes /\ HasPosition /\ key \in Letters
  BY DEF EditorInv, Insert
<1> DEFINE b == Before
           a == After
           c == key
           e == <<c>>
           x == b \o e
           q == Prompt \o b
           n == ShownAt + 1
<1>3. /\ line' = x \o a /\ caret' = caret + 1
      /\ output' = output \o e \o SetCursor(Position.x + 1, Position.y) \o a
                     \o SetCursor(Position.x + 1, Position.y)
      /\ shell' = "edit" /\ UNCHANGED <<term, input, typed, buffer, dropped, commands>>
      /\ unseen' = (unseen \/ c \in Ignored)
  BY DEF Insert
<1>4. /\ shell = "position" /\ Position.x = ShownAt /\ Position.y = 0
      /\ Reach(term, output, ShownLine, ShownAt)
  BY <1>1, <1>2, PositionIs
<1>5. /\ b \in Seq(Texts) /\ a \in Seq(Texts) /\ line = b \o a /\ Len(b) = caret /\ caret \in Nat
  BY <1>2, EditorFacts
<1>6. c \in Texts
  BY <1>2, PrintedNames
<1>7. e \in Seq(Texts) /\ Len(e) = 1
  BY <1>6, OneSeq
<1>8. ShownLine = Seen(Prompt \o line) /\ ShownAt = 2 + caret
  <2>1. key # "STAB"
    BY <1>2, NotLetters
  <2>2. Back = 0
    BY <2>1 DEF Back
  <2> QED BY <1>4, <1>5, <2>2 DEF ShownLine, ShownAt
<1> HIDE DEF b, a, c
<1>10. Append(b, c) = x /\ x \in Seq(Texts) /\ Len(x) = caret + 1
  <2>1. Append(b, c) = b \o e
    BY <1>5, <1>6, AppendIsConcat
  <2> HIDE DEF e
  <2>2. b \o e \in Seq(Texts) /\ Len(b \o e) = Len(b) + Len(e)
    BY <1>5, <1>7, ConcatProperties
  <2> QED BY <1>5, <1>7, <2>1, <2>2
<1>9. n = 2 + caret' /\ n \in Nat /\ ShownAt \in Int
  BY <1>3, <1>5, <1>8
<1>11. output' = output \o e \o SetCursor(n, 0) \o a \o SetCursor(n, 0)
  BY <1>3, <1>4
<1>12. ASSUME unseen'
       PROVE  Reach(term', output', Seen(Prompt \o line)', 2 + caret') /\ (~unseen' => line' \in Seq(Plain))
  <2>1. Reach(term, output, Lost, ShownAt)
    BY <1>4, LostReach
  <2> HIDE DEF n
  <2>2. Reach(term, output \o <<c>> \o SetCursor(n, 0) \o a \o SetCursor(n, 0), Lost, n)
    BY <1>5, <1>6, <1>9, <2>1, LostInsert
  <2>3. Reach(term', output', Seen(Prompt \o line)', n)
    BY <1>3, <1>11, <1>12, <2>2 DEF Seen
  <2> QED BY <1>9, <1>12, <2>3
<1>13. ASSUME ~unseen'
       PROVE  Reach(term', output', Seen(Prompt \o line)', 2 + caret') /\ (~unseen' => line' \in Seq(Plain))
  <2>0. ~unseen /\ c \in Plain
    BY <1>3, <1>6, <1>13 DEF Plain
  <2>1. b \in Seq(Plain) /\ a \in Seq(Plain) /\ e \in Seq(Plain)
    BY <1>2, <2>0, EditorFacts, OneSeq DEF b, a
  <2>2. /\ Prompt \o (b \o a) = q \o a /\ q \in Seq(Printed) /\ Len(q) = 2 + caret
        /\ a \in Seq(Printed) /\ c \in Printed
    BY <1>5, <2>0, <2>1, ShownParts DEF Printed
  <2>3. Prompt \o x = q \o e /\ x \in Seq(Plain)
    <3> HIDE DEF q, e
    <3>1. Prompt \o (b \o e) = (Prompt \o b) \o e /\ b \o e \in Seq(Plain)
      BY <2>1, ShownParts, ConcatProperties
    <3> QED BY <3>1 DEF q
  <2>4. Reach(term, output \o e \o SetCursor(n, 0) \o a \o SetCursor(n, 0), (q \o e) \o a, n)
    <3>1. Reach(term, output, q \o a, Len(q)) /\ n = Len(q) + 1
      BY <1>4, <1>5, <1>8, <2>0, <2>2 DEF Seen
    <3> HIDE DEF q, n
    <3> QED BY <2>2, <3>1, ScreenInsert
  <2>5. Prompt \o (x \o a) = (q \o e) \o a /\ x \o a \in Seq(Plain)
    <3> HIDE DEF q, e, x
    <3>1. Prompt \o (x \o a) = (Prompt \o x) \o a /\ x \o a \in Seq(Plain)
      BY <2>1, <2>3, ShownParts, ConcatProperties
    <3> QED BY <2>3, <3>1
  <2> HIDE DEF n, q, e, x
  <2>6. Reach(term', output', Prompt \o line', n)
    BY <1>3, <1>11, <2>4, <2>5
  <2> QED BY <1>3, <1>9, <1>13, <2>5, <2>6 DEF Seen
<1>14. /\ Reach(term', output', Seen(Prompt \o line)', 2 + caret')
       /\ ~unseen' => line' \in Seq(Plain)
  BY <1>12, <1>13
<1>15. line' \in Seq(Texts) /\ caret' \in 0 .. Len(line') /\ Before' = x /\ After' = a
  <2> HIDE DEF x
  <2> QED BY <1>3, <1>5, <1>10, LineOfParts
<1>16. Editing(commands, Before', After') = Target
  <2>1. Now = Editing(commands, b, a)
    BY <1>4 DEF Now, a, b
  <2>2. Target = RefKey(Now, c)
    BY <1>2, <1>4, NotLetters DEF Target, Querying, c
  <2>3. RefKey(Now, c) = Editing(commands, Append(b, c), a)
    BY <1>2, <2>1, RefKeyLetter DEF c
  <2> QED BY <1>10, <1>15, <2>2, <2>3
<1> QED BY <1>1, <1>2, <1>3, <1>14, <1>15, <1>16, EditorContinues

\* A character is deleted.
LEMMA EditorBackspace ==
  ASSUME CompletionsAreNames, EditorInv, Backspace
  PROVE  EditorInv'
<1>1. PICK ks : Pipes(ks) /\ Follows(ks)
  BY DEF EditorInv
<1>2. EditorTypes /\ HasPosition /\ key = "BACKSPACE"
  BY DEF EditorInv, Backspace
<1> DEFINE a == After
           f == SubSeq(line, 1, caret - 1)
           c == line[caret]
           q == Prompt \o f
           n == ShownAt - 1
<1>3. /\ line' = f \o a /\ caret' = caret - 1
      /\ output' = output \o SetCursor(Position.x - 1, Position.y) \o a \o RemoveChar
                     \o SetCursor(Position.x - 1, Position.y)
      /\ shell' = "edit" /\ UNCHANGED <<term, input, typed, buffer, dropped, commands, unseen>>
  BY DEF Backspace
<1>4. /\ shell = "position" /\ Position.x = ShownAt /\ Position.y = 0 /\ shell \in Querying
      /\ Reach(term, output, ShownLine, ShownAt)
  BY <1>1, <1>2, PositionIs
<1>5. a \in Seq(Texts) /\ line \in Seq(Texts) /\ Len(line) \in Nat /\ caret \in Nat
      /\ caret \in 0 .. Len(line) /\ line = Before \o a
  BY <1>2, EditorFacts DEF EditorTypes
<1>6. caret \in 1 .. Len(line)
  <2>1. caret > 0
    BY <1>2, <1>4, NotLetters DEF EditorTypes
  <2> QED BY <1>5, <2>1
<1>7. /\ Before # <<>> /\ Front(Before) = f /\ c \in Texts
      /\ SubSeq(line, caret, Len(line)) = <<c>> \o a
  BY <1>5, <1>6, StepLeft DEF Before, After
<1>8. f \in Seq(Texts) /\ Len(f) = caret - 1 /\ line = f \o (<<c>> \o a)
  <2>1. caret - 1 \in 0 .. Len(line) /\ caret - 1 + 1 = caret
    BY <1>5, <1>6
  <2>2. /\ f \in Seq(Texts) /\ Len(f) = caret - 1
        /\ line = f \o SubSeq(line, caret - 1 + 1, Len(line))
    BY <1>5, <2>1, SplitSeq, ZenonT(60)
  <2> HIDE DEF f
  <2> QED BY <1>7, <2>1, <2>2
<1>9. ShownLine = Seen(Prompt \o line) /\ ShownAt = 2 + caret
  <2>1. Back = 0
    BY <1>2 DEF Back
  <2> QED BY <1>4, <1>5, <2>1 DEF ShownLine, ShownAt
<1>10. n = 2 + caret' /\ n \in Nat /\ ShownAt \in Int
  BY <1>3, <1>5, <1>6, <1>9
<1>11. output' = output \o SetCursor(n, 0) \o a \o RemoveChar \o SetCursor(n, 0)
  BY <1>3, <1>4
<1>12. ASSUME ~unseen
       PROVE  f \in Seq(Plain) /\ a \in Seq(Plain) /\ c \in Plain
  <2>1. line \in Seq(Plain) /\ a \in Seq(Plain)
    BY <1>2, <1>12, EditorFacts
  <2>2. caret - 1 \in 0 .. Len(line)
    BY <1>5, <1>6
  <2> QED BY <1>6, <2>1, <2>2, SplitSeq, ElementOfSeq
<1> HIDE DEF a, f, c, n
<1>13. ASSUME unseen'
       PROVE  Reach(term', output', Seen(Prompt \o line)', 2 + caret') /\ (~unseen' => line' \in Seq(Plain))
  <2>1. Reach(term, output, Lost, ShownAt)
    BY <1>4, LostReach
  <2>2. Reach(term, output \o SetCursor(n, 0) \o a \o RemoveChar \o SetCursor(n, 0), Lost, n)
    BY <1>5, <1>10, <2>1, LostBackspace
  <2>3. Reach(term', output', Seen(Prompt \o line)', n)
    BY <1>3, <1>11, <1>13, <2>2 DEF Seen
  <2> QED BY <1>10, <1>13, <2>3
<1>14. ASSUME ~unseen'
       PROVE  Reach(term', output', Seen(Prompt \o line)', 2 + caret') /\ (~unseen' => line' \in Seq(Plain))
  <2> DEFINE d == <<c>> \o a
  <2>0. ~unseen /\ f \in Seq(Plain) /\ a \in Seq(Plain) /\ c \in Plain /\ c \in Printed
    BY <1>3, <1>12, <1>14 DEF Printed
  <2>1. d \in Seq(Plain)
    BY <2>0, HeadOfConcat
  <2>2. /\ Prompt \o (f \o d) = q \o d /\ Prompt \o (f \o a) = q \o a
        /\ q \in Seq(Printed) /\ a \in Seq(Printed) /\ Len(q) = 2 + Len(f)
    <3> HIDE DEF d
    <3> QED BY <2>0, <2>1, ShownParts
  <2>3. n = Len(q)
    BY <1>3, <1>5, <1>8, <1>10, <2>2
  <2>4. Reach(term, output, q \o (<<c>> \o a), ShownAt)
    BY <1>4, <1>8, <1>9, <2>0, <2>2 DEF Seen
  <2> HIDE DEF q
  <2>5. Reach(term, output \o SetCursor(n, 0) \o a \o RemoveChar \o SetCursor(n, 0), q \o a, n)
    BY <1>10, <2>0, <2>2, <2>3, <2>4, ScreenBackspace
  <2>6. Reach(term', output', Prompt \o line', n)
    BY <1>3, <1>11, <2>2, <2>5
  <2>7. line' \in Seq(Plain)
    BY <1>3, <2>0, ConcatProperties
  <2> QED BY <1>10, <1>14, <2>6, <2>7 DEF Seen
<1>16. /\ Reach(term', output', Seen(Prompt \o line)', 2 + caret')
       /\ ~unseen' => line' \in Seq(Plain)
  BY <1>13, <1>14
<1>17. line' \in Seq(Texts) /\ caret' \in 0 .. Len(line') /\ Before' = f /\ After' = a
  BY <1>3, <1>5, <1>8, LineOfParts
<1>18. Editing(commands, Before', After') = Target
  <2>1. Now = Editing(commands, Before, a)
    BY <1>4 DEF Now, a
  <2>2. Target = RefKey(Now, "BACKSPACE")
    BY <1>2, <1>4 DEF Target
  <2>3. RefKey(Now, "BACKSPACE") = Editing(commands, Front(Before), a)
    BY <1>7, <2>1, RefKeyBackspace
  <2> QED BY <1>7, <1>17, <2>2, <2>3
<1> QED BY <1>1, <1>2, <1>3, <1>16, <1>17, <1>18, EditorContinues

\* A word is completed.
LEMMA EditorComplete ==
  ASSUME CompletionsAreNames, EditorInv, Complete
  PROVE  EditorInv'
<1>1. PICK ks : Pipes(ks) /\ Follows(ks)
  BY DEF EditorInv
<1>2. EditorTypes /\ HasPosition /\ key = "STAB"
  BY DEF EditorInv, Complete
<1> DEFINE b == Before
           a == After
           w == RefWord(b)
           i == caret - Len(w)
           f == SubSeq(b, 1, i)
           s == Chosen(w)
           x == f \o s
           q == Prompt \o f
           n == ShownAt + Len(s)
<1>3. /\ b \in Seq(Texts) /\ a \in Seq(Texts) /\ line = b \o a /\ Len(b) = caret /\ caret \in Nat
      /\ Word = w /\ line \in Seq(Texts) /\ Len(line) \in Nat /\ caret \in 0 .. Len(line)
  BY <1>2, EditorFacts DEF EditorTypes
<1>4. SoleCompletion = s
  BY <1>3 DEF SoleCompletion, Chosen
<1>5. /\ line' = SubSeq(line, 1, i) \o s \o a /\ caret' = i + Len(s)
      /\ output' = output \o s \o a \o SetCursor(Position.x + Len(s), Position.y)
      /\ shell' = "edit" /\ UNCHANGED <<term, input, typed, buffer, dropped, commands>>
      /\ unseen' = (unseen \/ Range(s) \cap Ignored # {})
  <2> HIDE DEF s, w
  <2> QED BY <1>3, <1>4 DEF Complete
<1>6. /\ shell = "position" /\ Position.x = ShownAt /\ Position.y = 0 /\ shell \in Querying
      /\ Reach(term, output, ShownLine, ShownAt)
  BY <1>1, <1>2, PositionIs
<1>7. /\ w \in Seq(Texts) /\ Len(w) \in 0 .. caret /\ i \in 0 .. caret
      /\ b = f \o w /\ Len(f) = i /\ f \in Seq(Texts)
  BY <1>3, WordFacts
<1>8. Sole(w) /\ IsFiniteSet(Completions(w))
  <2>1. Sole(w)
    BY <1>2, <1>6, NotLetters DEF EditorTypes
  <2>2. Completing(Texts)
    BY PrintedNames
  <2> QED BY <1>7, <2>1, <2>2 DEF Completing
<1>9. s \in Completions(w) /\ s \in Seq(Texts) /\ Len(s) >= Len(w)
  <2>1. s \in Completions(w)
    BY <1>8 DEF Sole, Chosen
  <2>2. Completing(Texts)
    BY PrintedNames
  <2> HIDE DEF s, w
  <2> QED BY <1>7, <2>1, <2>2 DEF Completing
<1>10. ShownLine = Seen(Prompt \o line) /\ ShownAt = 2 + i
  <2>1. Back = Len(w)
    BY <1>2, <1>6 DEF Back
  <2>2. ShownAt = (2 + caret) - Len(w) /\ ShownLine = Seen(Prompt \o line)
    BY <1>6, <2>1 DEF ShownLine, ShownAt
  <2> QED BY <1>3, <1>7, <2>2
<1>11. SubSeq(line, 1, i) = f
  <2>1. line = (f \o w) \o a
    BY <1>3, <1>7
  <2> HIDE DEF f, w, a
  <2>2. (f \o w) \o a = f \o (w \o a) /\ w \o a \in Seq(Texts)
    BY <1>3, <1>7, Assoc, SMTT(40)
  <2>3. SubSeq(f \o (w \o a), 1, Len(f)) = f
    BY <1>7, <2>2, SplitConcat
  <2> QED BY <1>7, <2>1, <2>2, <2>3
<1> HIDE DEF b, a, w, f, s
<1>12. x \in Seq(Texts) /\ Len(x) = i + Len(s) /\ Len(s) \in Nat
  BY <1>7, <1>9, ConcatProperties, LenProperties
<1> HIDE DEF i
<1>13. n = 2 + caret' /\ n \in Nat /\ ShownAt \in Int /\ i \in Nat
  <2>1. i \in Nat
    BY <1>3, <1>7
  <2> QED BY <1>5, <1>10, <1>12, <2>1
<1>14. line' = x \o a /\ caret' = Len(x)
  BY <1>5, <1>11, <1>12
<1>15. output' = output \o s \o a \o SetCursor(n, 0)
  BY <1>5, <1>6
<1> HIDE DEF n
<1>16. ASSUME unseen'
       PROVE  Reach(term', output', Seen(Prompt \o line)', 2 + caret') /\ (~unseen' => line' \in Seq(Plain))
  <2>1. Reach(term, output, Lost, ShownAt)
    BY <1>6, LostReach
  <2>2. Reach(term, output \o s \o a \o SetCursor(n, 0), Lost, n)
    BY <1>3, <1>9, <1>13, <2>1, LostComplete
  <2>3. Reach(term', output', Seen(Prompt \o line)', n)
    BY <1>5, <1>15, <1>16, <2>2 DEF Seen
  <2> QED BY <1>13, <1>16, <2>3
<1>17. ASSUME ~unseen'
       PROVE  Reach(term', output', Seen(Prompt \o line)', 2 + caret') /\ (~unseen' => line' \in Seq(Plain))
  <2>0. ~unseen /\ Range(s) \cap Ignored = {}
    BY <1>5, <1>17
  <2>1. s \in Seq(Plain)
    <3>1. \A k \in 1 .. Len(s) : s[k] \in Plain
      <4> TAKE k \in 1 .. Len(s)
      <4>1. s[k] \in Texts /\ k \in DOMAIN s
        BY <1>9, ElementOfSeq
      <4>2. s[k] \in Range(s)
        BY <4>1 DEF Range
      <4> QED BY <2>0, <4>1, <4>2 DEF Plain
    <3> QED BY <1>9, <3>1
  <2>2. b \in Seq(Plain) /\ a \in Seq(Plain)
    BY <1>2, <2>0, EditorFacts DEF a, b
  <2>3. f \in Seq(Plain) /\ w \in Seq(Plain)
    <3>1. SubSeq(b, 1, Len(f)) = f /\ SubSeq(b, Len(f) + 1, Len(b)) = w
      BY <1>7, SplitConcat
    <3>2. Len(f) \in 0 .. Len(b)
      BY <1>3, <1>7
    <3>3. SubSeq(b, 1, Len(f)) \in Seq(Plain) /\ SubSeq(b, Len(f) + 1, Len(b)) \in Seq(Plain)
      BY <2>2, <3>2, SplitSeq
    <3> QED BY <3>1, <3>3
  <2>4. q \in Seq(Printed) /\ Len(q) = 2 + i
    BY <1>7, <2>3, ShownParts
  <2>5. Prompt \o line = q \o (w \o a)
    <3> DEFINE d == w \o a
    <3>1. line = (f \o w) \o a
      BY <1>3, <1>7
    <3>2. (f \o w) \o a = f \o d /\ d \in Seq(Plain)
      BY <2>2, <2>3, Assoc, SMTT(40)
    <3> HIDE DEF d
    <3>3. Prompt \o (f \o d) = q \o d
      BY <2>3, <3>2, ShownParts
    <3> QED BY <3>1, <3>2, <3>3 DEF d
  <2>6. Prompt \o (x \o a) = (q \o s) \o a /\ x \o a \in Seq(Plain)
    <3>1. Prompt \o (f \o s) = q \o s /\ f \o s \in Seq(Plain)
      BY <2>1, <2>3, ShownParts, ConcatProperties
    <3> HIDE DEF q
    <3>2. Prompt \o x = q \o s /\ x \in Seq(Plain)
      BY <3>1
    <3> HIDE DEF x
    <3>3. Prompt \o (x \o a) = (Prompt \o x) \o a /\ x \o a \in Seq(Plain)
      BY <2>2, <3>2, ShownParts, ConcatProperties
    <3> QED BY <3>2, <3>3
  <2>7. /\ w \in Seq(Printed) /\ a \in Seq(Printed) /\ s \in Seq(Printed) /\ Len(w) <= Len(s)
    <3>1. Len(w) \in Nat /\ Len(w) <= Len(s)
      BY <1>3, <1>7, <1>9, <1>12
    <3> QED BY <2>1, <2>2, <2>3, <3>1, ShownParts
  <2>8. n = Len(q) + Len(s) /\ Reach(term, output, q \o (w \o a), Len(q))
    BY <1>6, <1>10, <1>12, <1>13, <2>0, <2>4, <2>5 DEF Seen, n
  <2> HIDE DEF q, x
  <2>9. Reach(term, output \o s \o a \o SetCursor(n, 0), (q \o s) \o a, n)
    BY <2>4, <2>7, <2>8, ScreenComplete
  <2>10. Reach(term', output', Prompt \o line', n)
    BY <1>5, <1>14, <1>15, <2>6, <2>9
  <2> QED BY <1>13, <1>14, <1>17, <2>6, <2>10 DEF Seen
<1>18. /\ Reach(term', output', Seen(Prompt \o line)', 2 + caret')
       /\ ~unseen' => line' \in Seq(Plain)
  BY <1>16, <1>17
<1> HIDE DEF x
<1>21. line' \in Seq(Texts) /\ caret' \in 0 .. Len(line') /\ Before' = x /\ After' = a
  BY <1>3, <1>12, <1>14, LineOfParts
<1>22. Editing(commands, Before', After') = Target
  <2>1. Now = Editing(commands, b, a)
    BY <1>6 DEF Now, a, b
  <2>2. Target = RefKey(Now, "STAB")
    BY <1>2, <1>6 DEF Target
  <2>3. w = RefWord(b) /\ s = Chosen(w) /\ f = SubSeq(b, 1, Len(b) - Len(w))
    BY <1>3 DEF w, s, f, i
  <2>4. RefKey(Now, "STAB") = Editing(commands, f \o s, a)
    BY <1>8, <2>1, <2>3, RefKeyTab
  <2> QED BY <1>21, <2>2, <2>4 DEF x
<1> QED BY <1>1, <1>2, <1>5, <1>18, <1>21, <1>22, EditorContinues

(***************************************************************************)
(* A key is handled                                                        *)
(***************************************************************************)

\* The line and the output are what they are to be after key k.
Handled(k) ==
  /\ line' \in Seq(Texts) /\ caret' \in 0 .. Len(line') /\ Target' = RefKey(Now, k)
  /\ ~unseen' => line' \in Seq(Plain)
  /\ \/ /\ shell' = "seek" /\ Waiting(term', output', ShownLine', ShownAt')
        /\ \/ key' \in Letters
           \/ key' = "BACKSPACE" /\ caret' > 0
           \/ key' = "STAB" /\ Sole(RefWord(Before'))
     \/ shell' \in {"prompt", "edit"} /\ Reach(term', output', ShownLine', ShownAt')

\* Where the editor is between two keys.
LEMMA EditFacts ==
  ASSUME EditorTypes, shell = "edit"
  PROVE  /\ ShownLine = Seen(Prompt \o line) /\ ShownAt = 2 + caret /\ ShownAt \in Int
         /\ Now = Editing(commands, Before, After)
         /\ line \in Seq(Texts) /\ (~unseen => line \in Seq(Plain)) /\ caret \in 0 .. Len(line) /\ caret \in Nat /\ Len(line) \in Nat
<1>1. line \in Seq(Texts) /\ (~unseen => line \in Seq(Plain)) /\ caret \in 0 .. Len(line) /\ caret \in Nat /\ Len(line) \in Nat
  BY EditorFacts DEF EditorTypes
<1>2. Back = 0
  BY DEF Back, Querying
<1>3. ShownLine = Seen(Prompt \o line) /\ ShownAt = 2 + caret
  BY <1>1, <1>2 DEF ShownLine, ShownAt
<1>4. ShownAt \in Int
  BY <1>1, <1>3
<1> QED BY <1>1, <1>3, <1>4 DEF Now

\* A letter or a backspace: the position is asked for.
LEMMA HandleQuery ==
  ASSUME EditorTypes, shell = "edit", Reach(term, output, ShownLine, ShownAt),
         NEW k, k \in Letters \/ (k = "BACKSPACE" /\ caret > 0),
         key' = k, term' = term, unseen' = unseen, output' = output \o QueryCursor, shell' = "seek",
         UNCHANGED <<line, caret, commands>>
  PROVE  Handled(k)
<1>1. k # "STAB" /\ k # "none"
  BY NotLetters
<1>2. /\ ShownLine = Seen(Prompt \o line) /\ ShownAt = 2 + caret /\ caret \in Nat
      /\ Now = Editing(commands, Before, After)
      /\ line \in Seq(Texts) /\ (~unseen => line \in Seq(Plain)) /\ caret \in 0 .. Len(line)
  BY EditFacts
<1>3. Before' = Before /\ After' = After
  BY DEF Before, After
<1>4. ShownLine' = ShownLine
  BY <1>2 DEF ShownLine, Seen
<1>5. Back' = 0
  BY <1>1 DEF Back
<1>6. ShownAt' = ShownAt
  BY <1>2, <1>5 DEF ShownAt
<1>7. Now' = Now
  BY <1>2, <1>3 DEF Now
<1>8. Target' = RefKey(Now, k)
  BY <1>1, <1>7 DEF Target, Querying
<1>9. Waiting(term', output', ShownLine', ShownAt')
  BY <1>4, <1>6, ReachQuery
<1>10. key' \in Letters \/ (key' = "BACKSPACE" /\ caret' > 0)
  OBVIOUS
<1>11. line' \in Seq(Texts) /\ caret' \in 0 .. Len(line') /\ (~unseen' => line' \in Seq(Plain))
  BY <1>2
<1> QED BY <1>8, <1>9, <1>10, <1>11 DEF Handled

\* A tab with one completion: the cursor moves to the word's beginning, and
\* the position is asked for.
LEMMA HandleTab ==
  ASSUME EditorTypes, shell = "edit", Reach(term, output, ShownLine, ShownAt), Completes,
         key' = "STAB", term' = term, unseen' = unseen, output' = output \o MoveBack(Len(Word)) \o QueryCursor,
         shell' = "seek", UNCHANGED <<line, caret, commands>>
  PROVE  Handled("STAB")
<1>1. /\ ShownLine = Seen(Prompt \o line) /\ ShownAt = 2 + caret /\ caret \in Nat /\ ShownAt \in Int
      /\ Now = Editing(commands, Before, After)
      /\ line \in Seq(Texts) /\ (~unseen => line \in Seq(Plain)) /\ caret \in 0 .. Len(line)
  BY EditFacts
<1>2. Before' = Before /\ After' = After
  BY DEF Before, After
<1>3. Word = RefWord(Before) /\ Len(Word) \in 0 .. caret /\ Sole(RefWord(Before))
  BY EditorFacts
<1> DEFINE n == Len(Word)
<1>4. n \in Nat
  BY <1>1, <1>3
<1>5. ShownLine' = ShownLine
  BY <1>1 DEF ShownLine, Seen
<1>6. Back' = n
  BY <1>2, <1>3 DEF Back, Querying
<1>7. ShownAt' = ShownAt - n
  BY <1>1, <1>6 DEF ShownAt
<1>8. Now' = Now
  BY <1>1, <1>2 DEF Now
<1>9. Target' = RefKey(Now, "STAB")
  BY <1>8 DEF Target, Querying
<1> HIDE DEF n
<1>10. Reach(term, output \o MoveBack(n), ShownLine, ShownAt - n)
  BY <1>1, <1>4, DoesMoveBack, ReachDoes
<1>11. Waiting(term', output', ShownLine', ShownAt')
  BY <1>5, <1>7, <1>10, ReachQuery DEF n
<1>12. Sole(RefWord(Before'))
  BY <1>2, <1>3
<1> QED BY <1>1, <1>9, <1>11, <1>12 DEF Handled

\* Enter: the line is returned and the next prompt begins on a new line.
LEMMA HandleEnter ==
  ASSUME CompletionsAreNames, EditorTypes, shell = "edit", Reach(term, output, ShownLine, ShownAt), term' = term,
         unseen' = unseen, output' = output \o <<Newline>> \o SetMode(0) \o SetEcho(1),
         shell' = "prompt", commands' = Append(commands, line), UNCHANGED <<line, caret>>
  PROVE  Handled("ENTER")
<1>1. /\ ShownAt \in Int /\ Now = Editing(commands, Before, After)
      /\ line \in Seq(Texts) /\ (~unseen => line \in Seq(Plain)) /\ caret \in 0 .. Len(line)
  BY EditFacts
<1>2. ShownLine' = Seen(<<>>) /\ ShownAt' = 0
  BY DEF ShownLine, ShownAt, Seen
<1>3. Target' = Editing(Append(commands, line), <<>>, <<>>)
  BY DEF Target, Now, Querying
<1>4. line = Before \o After
  BY EditorFacts
<1>5. RefKey(Now, "ENTER") = Editing(Append(commands, Before \o After), <<>>, <<>>)
  BY <1>1, RefKeyEnter
<1>6. Target' = RefKey(Now, "ENTER")
  BY <1>3, <1>4, <1>5
<1>7. Does(<<Newline>>, ShownLine, ShownAt, Seen(<<>>), 0)
  <2>1. CASE unseen
    <3>1. Newline \notin Ignored
      BY IgnoredAssumption
    <3>2. Does(<<Newline>>, Lost, ShownAt, Lost, 0)
      BY <1>1, <3>1, LostPrintOne
    <3>3. ShownLine = Lost /\ Seen(<<>>) = Lost
      BY <2>1 DEF ShownLine, Seen
    <3> QED BY <3>2, <3>3
  <2>2. CASE ~unseen
    <3>1. ShownLine # Lost /\ Seen(<<>>) = <<>>
      BY <2>2, NotLost DEF Seen
    <3> QED BY <1>1, <3>1, DoesNewline
  <2> QED BY <2>1, <2>2
<1> DEFINE l == Seen(<<>>)
<1> HIDE DEF l
<1>8. Does(SetMode(0), l, 0, l, 0) /\ Does(SetEcho(1), l, 0, l, 0)
  BY DoesSetMode
<1>9. Reach(term, output \o <<Newline>>, l, 0)
  BY <1>7, ReachDoes DEF l
<1>10. Reach(term, output \o <<Newline>> \o SetMode(0), l, 0)
  BY <1>8, <1>9, ReachDoes
<1>11. Reach(term, output \o <<Newline>> \o SetMode(0) \o SetEcho(1), l, 0)
  BY <1>8, <1>10, ReachDoes
<1>12. Reach(term', output', ShownLine', ShownAt')
  BY <1>2, <1>11 DEF l
<1> QED BY <1>1, <1>6, <1>12 DEF Handled

\* The state of the editor after a key that does not ask for the position.
LEMMA HandleStays ==
  ASSUME EditorTypes, shell = "edit", shell' = shell, UNCHANGED <<line, commands, unseen>>,
         caret' \in 0 .. Len(line), Reach(term', output', Seen(Prompt \o line), 2 + caret'),
         NEW k, RefKey(Now, k) = Editing(commands, Before', After')
  PROVE  Handled(k)
<1>1. line \in Seq(Texts) /\ Len(line) \in Nat
  BY EditFacts
<1>2. ShownLine' = Seen(Prompt \o line)
  BY DEF ShownLine, Seen
<1>6. ~unseen' => line' \in Seq(Plain)
  BY EditFacts
<1>3. Back' = 0
  BY DEF Back, Querying
<1>4. ShownAt' = 2 + caret'
  <2>1. caret' \in Int
    BY <1>1
  <2> QED BY <1>3, <2>1 DEF ShownAt
<1>5. Target' = RefKey(Now, k)
  BY DEF Target, Now, Querying
<1> QED BY <1>1, <1>2, <1>4, <1>5, <1>6 DEF Handled

\* The arrows.
LEMMA HandleLeft ==
  ASSUME EditorTypes, shell = "edit", Reach(term, output, ShownLine, ShownAt), caret > 0,
         caret' = caret - 1, output' = output \o MoveBack(1), term' = term, unseen' = unseen,
         UNCHANGED <<shell, line, commands>>
  PROVE  Handled("LEFT")
<1>1. /\ ShownLine = Seen(Prompt \o line) /\ ShownAt = 2 + caret /\ caret \in Nat /\ ShownAt \in Int
      /\ Now = Editing(commands, Before, After)
      /\ line \in Seq(Texts) /\ (~unseen => line \in Seq(Plain)) /\ caret \in 0 .. Len(line) /\ Len(line) \in Nat
  BY EditFacts
<1>2. caret \in 1 .. Len(line) /\ caret' \in 0 .. Len(line) /\ caret' + 1 = caret
  BY <1>1
<1>3. Does(MoveBack(1), ShownLine, ShownAt, ShownLine, ShownAt - 1)
  BY <1>1, DoesMoveBack
<1>4. Reach(term', output', Seen(Prompt \o line), 2 + caret')
  <2>1. Reach(term, output \o MoveBack(1), ShownLine, ShownAt - 1)
    BY <1>3, ReachDoes
  <2>2. ShownAt - 1 = 2 + caret'
    BY <1>1
  <2> QED BY <1>1, <2>1, <2>2
<1>5. /\ Before # <<>> /\ Front(Before) = Before'
      /\ After' = <<Last(Before)>> \o After
  <2>1. /\ SubSeq(line, 1, caret) # <<>> /\ Front(SubSeq(line, 1, caret)) = SubSeq(line, 1, caret - 1)
        /\ Last(SubSeq(line, 1, caret)) = line[caret]
        /\ SubSeq(line, caret, Len(line)) = <<line[caret]>> \o SubSeq(line, caret + 1, Len(line))
    BY <1>1, <1>2, StepLeft
  <2>2. Before = SubSeq(line, 1, caret) /\ After = SubSeq(line, caret + 1, Len(line))
    BY DEF Before, After
  <2>3. Before' = SubSeq(line, 1, caret - 1) /\ After' = SubSeq(line, caret, Len(line))
    BY <1>2 DEF Before, After
  <2> QED BY <2>1, <2>2, <2>3
<1>6. RefKey(Now, "LEFT") = Editing(commands, Before', After')
  <2>1. RefKey(Now, "LEFT") = Editing(commands, Front(Before), <<Last(Before)>> \o After)
    BY <1>1, <1>5, RefKeyLeft
  <2> QED BY <1>5, <2>1
<1> QED BY <1>2, <1>4, <1>6, HandleStays

\* The other one.
LEMMA HandleRight ==
  ASSUME EditorTypes, shell = "edit", Reach(term, output, ShownLine, ShownAt), caret < Len(line),
         caret' = caret + 1, output' = output \o MoveForward(1), term' = term, unseen' = unseen,
         UNCHANGED <<shell, line, commands>>
  PROVE  Handled("RIGHT")
<1>1. /\ ShownLine = Seen(Prompt \o line) /\ ShownAt = 2 + caret /\ caret \in Nat /\ ShownAt \in Int
      /\ Now = Editing(commands, Before, After)
      /\ line \in Seq(Texts) /\ (~unseen => line \in Seq(Plain)) /\ caret \in 0 .. Len(line) /\ Len(line) \in Nat
  BY EditFacts
<1>2. caret' \in 1 .. Len(line) /\ caret' \in 0 .. Len(line) /\ caret' - 1 = caret
  BY <1>1
<1>3. Does(MoveForward(1), ShownLine, ShownAt, ShownLine, ShownAt + 1)
  BY <1>1, DoesMoveForward
<1>4. Reach(term', output', Seen(Prompt \o line), 2 + caret')
  <2>1. Reach(term, output \o MoveForward(1), ShownLine, ShownAt + 1)
    BY <1>3, ReachDoes
  <2>2. ShownAt + 1 = 2 + caret'
    BY <1>1
  <2> QED BY <1>1, <2>1, <2>2
<1> DEFINE d == line[caret']
<1>5. d \in Texts /\ Before' = Append(Before, d) /\ After = <<d>> \o After' /\ After' \in Seq(Texts)
  <2> DEFINE n == caret'
  <2>1. n \in 1 .. Len(line) /\ n \in 0 .. Len(line)
    BY <1>2
  <2>2. /\ line[n] \in Texts
        /\ SubSeq(line, n, Len(line)) = <<line[n]>> \o SubSeq(line, n + 1, Len(line))
        /\ SubSeq(line, 1, n) = Append(SubSeq(line, 1, n - 1), line[n])
    <3> HIDE DEF n
    <3> QED BY <1>1, <2>1, StepLeft
  <2>3. SubSeq(line, n + 1, Len(line)) \in Seq(Texts)
    <3> HIDE DEF n
    <3> QED BY <1>1, <2>1, SplitSeq
  <2>4. Before = SubSeq(line, 1, n - 1) /\ After = SubSeq(line, n, Len(line))
    BY <1>2 DEF Before, After
  <2>5. Before' = SubSeq(line, 1, n) /\ After' = SubSeq(line, n + 1, Len(line))
    BY DEF Before, After
  <2> QED BY <2>2, <2>3, <2>4, <2>5
<1>6. After # <<>> /\ Head(After) = d /\ Tail(After) = After'
  BY <1>5, HeadOfConcat
<1>7. RefKey(Now, "RIGHT") = Editing(commands, Before', After')
  <2>1. RefKey(Now, "RIGHT") = Editing(commands, Append(Before, Head(After)), Tail(After))
    BY <1>1, <1>6, RefKeyRight
  <2> QED BY <1>5, <1>6, <2>1
<1> QED BY <1>2, <1>4, <1>7, HandleStays

\* A key that changes nothing.
LEMMA HandleIgnored ==
  ASSUME CompletionsAreNames,
         EditorTypes, shell = "edit", Reach(term, output, ShownLine, ShownAt), term' = term,
         unseen' = unseen,
         NEW k, \/ k \in {"BACKSPACE", "LEFT"} /\ caret = 0
                \/ k = "RIGHT" /\ caret = Len(line)
                \/ k = "STAB" /\ ~Completes
                \/ k = "UP",
         UNCHANGED <<output, shell, line, caret, commands>>
  PROVE  Handled(k)
<1>1. /\ ShownLine = Seen(Prompt \o line) /\ ShownAt = 2 + caret
      /\ Now = Editing(commands, Before, After)
      /\ line \in Seq(Texts) /\ (~unseen => line \in Seq(Plain)) /\ caret \in 0 .. Len(line) /\ Len(line) \in Nat
  BY EditFacts
<1>2. Before' = Before /\ After' = After
  BY DEF Before, After
<1>3. Before \in Seq(Texts) /\ After \in Seq(Texts) /\ Len(Before) = caret
      /\ Word = RefWord(Before) /\ (Completes <=> Sole(RefWord(Before)))
  BY EditorFacts
<1>4. RefKey(Now, k) = Now
  <2>1. ASSUME caret = 0, k \in {"BACKSPACE", "LEFT"} PROVE RefKey(Now, k) = Now
    <3>1. Before = <<>>
      BY <1>3, <2>1, EmptySeq
    <3>2. CASE k = "BACKSPACE"
      BY <1>1, <3>1, <3>2, RefKeyNoBackspace
    <3>3. CASE k = "LEFT"
      BY <1>1, <3>1, <3>3, RefKeyNoLeft
    <3> QED BY <2>1, <3>2, <3>3
  <2>2. ASSUME caret = Len(line), k = "RIGHT" PROVE RefKey(Now, k) = Now
    <3>1. Len(After) = Len(line) - caret
      BY <1>1, SplitSeq DEF After
    <3>2. Len(After) = 0
      BY <1>1, <2>2, <3>1
    <3>3. After = <<>>
      BY <1>3, <3>2, EmptySeq
    <3> QED BY <1>1, <2>2, <3>3, RefKeyNoRight
  <2>3. ASSUME ~Completes, k = "STAB" PROVE RefKey(Now, k) = Now
    <3>1. RefWord(Before) \in Seq(Texts)
      BY <1>3, WordFacts
    <3>2. IsFiniteSet(Completions(RefWord(Before)))
      BY <3>1, PrintedNames DEF Completing
    <3> QED BY <1>1, <1>3, <2>3, <3>2, RefKeyTab
  <2>4. ASSUME k = "UP" PROVE RefKey(Now, k) = Now
    BY <1>1, <2>4, RefKeyUp
  <2> QED BY <2>1, <2>2, <2>3, <2>4
<1>5. RefKey(Now, k) = Editing(commands, Before', After')
  BY <1>1, <1>2, <1>4
<1>6. caret' \in 0 .. Len(line) /\ Reach(term', output', Seen(Prompt \o line), 2 + caret')
  BY <1>1
<1> QED BY <1>5, <1>6, HandleStays

\* Every key.
LEMMA HandleKey ==
  ASSUME CompletionsAreNames, EditorTypes, shell = "edit",
         Reach(term, output, ShownLine, ShownAt), NEW k, Handle(k)
  PROVE  Handled(k)
<1>1. key' = k /\ term' = term /\ unseen' = unseen
  BY DEF Handle
<1>2. CASE /\ k \in Letters \/ (k = "BACKSPACE" /\ caret > 0)
           /\ output' = output \o QueryCursor
           /\ shell' = "seek" /\ UNCHANGED <<line, caret, commands>>
  BY <1>1, <1>2, HandleQuery
<1>3. CASE /\ k = "STAB" /\ Completes
           /\ output' = output \o MoveBack(Len(Word)) \o QueryCursor
           /\ shell' = "seek" /\ UNCHANGED <<line, caret, commands>>
  BY <1>1, <1>3, HandleTab
<1>4. CASE /\ k = "ENTER"
           /\ output' = output \o <<Newline>> \o SetMode(0) \o SetEcho(1)
           /\ shell' = "prompt" /\ commands' = Append(commands, line)
           /\ UNCHANGED <<line, caret>>
  BY <1>1, <1>4, HandleEnter
<1>5. CASE /\ k = "LEFT" /\ caret > 0
           /\ caret' = caret - 1 /\ output' = output \o MoveBack(1)
           /\ UNCHANGED <<shell, line, commands>>
  BY <1>1, <1>5, HandleLeft
<1>6. CASE /\ k = "RIGHT" /\ caret < Len(line)
           /\ caret' = caret + 1 /\ output' = output \o MoveForward(1)
           /\ UNCHANGED <<shell, line, commands>>
  BY <1>1, <1>6, HandleRight
<1>7. CASE /\ \/ k \in {"BACKSPACE", "LEFT"} /\ caret = 0
              \/ k = "RIGHT" /\ caret = Len(line)
              \/ k = "STAB" /\ ~Completes
              \/ k = "UP"
           /\ UNCHANGED <<output, shell, line, caret, commands>>
  BY <1>1, <1>7, HandleIgnored
<1> QED BY <1>2, <1>3, <1>4, <1>5, <1>6, <1>7 DEF Handle

\* A key is taken from the buffer or the pipe.
LEMMA EditorGetChar ==
  ASSUME CompletionsAreNames, EditorInv, GetChar
  PROVE  EditorInv'
<1>1. PICK ks : Pipes(ks) /\ Follows(ks)
  BY DEF EditorInv
<1>2. EditorTypes /\ buffer \in Seq(Keys) /\ typed \in Seq(Keys) /\ ks \in Seq(Keys) /\ shell = "edit"
  BY <1>1 DEF EditorInv, EditorTypes, Follows, GetChar
<1>3. Reach(term, output, ShownLine, ShownAt) /\ Keyed(input, ks)
  <2>1. Reach(term, output, ShownLine, ShownAt) /\ Holds(shell, input, reply, ks, ShownAt)
    BY <1>1, <1>2, Answering
  <2> QED BY <1>2, <2>1 DEF Holds
<1>4. Target = Now
  BY <1>2 DEF Target, Querying
<1>5. ASSUME NEW k \in Keys, Handle(k), NEW js \in Seq(Keys), Keyed(input', js),
             buffer' \in Seq(Keys), buffer \o ks = <<k>> \o (buffer' \o js)
      PROVE  EditorInv'
  <2>1. Handled(k)
    BY <1>2, <1>3, <1>5, HandleKey
  <2>2. UNCHANGED <<term, typed, reply, dropped, unseen>>
    BY <1>5 DEF Handle
  <2>3. Pipes(js)'
    <3>1. CASE shell' = "seek" /\ Waiting(term', output', ShownLine', ShownAt')
      BY <1>5, <3>1 DEF Pipes
    <3>2. CASE shell' \in {"prompt", "edit"} /\ Reach(term', output', ShownLine', ShownAt')
      <4>1. Holds(shell', input', reply', js, ShownAt')
        BY <1>5, <3>2 DEF Holds
      <4> QED BY <3>2, <4>1 DEF Pipes
    <3> QED BY <2>1, <3>1, <3>2 DEF Handled
  <2>4. EditorTypes'
    <3>1. typed' \in Seq(Keys) /\ buffer' \in Seq(Keys)
      BY <1>2, <1>5, <2>2
    <3>2. line' \in Seq(Texts) /\ caret' \in 0 .. Len(line') /\ (~unseen' => line' \in Seq(Plain))
      BY <2>1 DEF Handled
    <3>3. shell' \in Querying \cup {"prompt", "edit"}
      BY <2>1 DEF Handled, Querying
    <3>4. shell' \in Querying =>
            \/ key' \in Letters
            \/ key' = "BACKSPACE" /\ caret' > 0
            \/ key' = "STAB" /\ Sole(RefWord(Before'))
      BY <2>1 DEF Handled, Querying
    <3> QED BY <3>1, <3>2, <3>3, <3>4 DEF EditorTypes
  <2>5. Follows(js)'
    <3>1. ASSUME ~dropped' PROVE Run("reference", Target', buffer' \o js, Reference')
      <4> DEFINE q == buffer' \o js
                 o == <<k>> \o q
      <4>1. q \in Seq(Chars)
        <5>1. q \in Seq(Keys)
          BY <1>5, ConcatProperties
        <5> HIDE DEF q
        <5> QED BY <5>1, KeysAreChars
      <4>2. Run("reference", Now, o, Reference)
        BY <1>1, <1>4, <1>5, <2>2, <3>1 DEF Follows
      <4> HIDE DEF q
      <4>3. o \in Seq(Chars) /\ o # <<>> /\ Head(o) = k /\ Tail(o) = q
        <5>1. k \in Chars
          BY SentType
        <5> QED BY <4>1, <5>1, HeadOfConcat
      <4> HIDE DEF o
      <4>4. PICK r : Step("reference", Now, k, r) /\ Run("reference", r, q, Reference)
        BY <4>2, <4>3, RunHead
      <4>5. r = RefKey(Now, k)
        BY <4>4 DEF Step
      <4>6. Target' = RefKey(Now, k) /\ Reference' = Reference
        BY <2>1, <2>2 DEF Handled, Reference
      <4> QED BY <4>4, <4>5, <4>6 DEF q
    <3> QED BY <1>5, <3>1 DEF Follows
  <2> QED BY <2>3, <2>4, <2>5 DEF EditorInv
<1>6. CASE buffer # <<>> /\ Handle(Head(buffer)) /\ buffer' = Tail(buffer) /\ UNCHANGED input
  <2> DEFINE k == Head(buffer)
             b == Tail(buffer)
             e == <<k>>
  <2>1. k \in Keys /\ b \in Seq(Keys) /\ buffer = e \o b
    BY <1>2, <1>6, HeadTailConcat
  <2>2. e \in Seq(Keys) /\ b \in Seq(Keys) /\ ks \in Seq(Keys)
    BY <1>2, <2>1, OneSeq
  <2>3. Handle(k) /\ buffer' = b /\ input' = input
    BY <1>6
  <2> HIDE DEF k, b
  <2>4. buffer \o ks = e \o (b \o ks)
    <3> HIDE DEF e
    <3>1. (e \o b) \o ks = e \o (b \o ks)
      BY <2>2, Assoc
    <3> QED BY <2>1, <3>1
  <2> QED BY <1>2, <1>3, <1>5, <2>1, <2>3, <2>4
<1>7. CASE buffer = <<>> /\ input # <<>> /\ Handle(Received) /\ input' = Unread /\ UNCHANGED buffer
  <2>1. ks # <<>>
    BY <1>3, <1>7, KeyedFacts
  <2>2. PICK rest \in Seq(Chars) :
          Head(ks) \in Keys /\ input = Sent(Head(ks)) \o rest /\ Keyed(rest, Tail(ks))
    BY <1>3, <2>1, KeyedFacts
  <2>3. Received = Head(ks) /\ Unread = rest
    BY <2>2, ReceiveKey
  <2>4. Tail(ks) \in Seq(Keys) /\ ks = <<Head(ks)>> \o Tail(ks)
    BY <1>2, <2>1, HeadTailConcat
  <2> DEFINE k == Head(ks)
             js == Tail(ks)
  <2>5. buffer \o ks = <<k>> \o (buffer' \o js)
    <3> HIDE DEF k, js
    <3>1. buffer \o ks = ks /\ buffer' \o js = js
      BY <1>2, <1>7, <2>4, ConcatEmptySeq DEF js
    <3> QED BY <2>4, <3>1 DEF k, js
  <2>6. k \in Keys /\ Handle(k) /\ js \in Seq(Keys) /\ Keyed(input', js) /\ buffer' \in Seq(Keys)
    BY <1>2, <1>7, <2>2, <2>3, <2>4
  <2> HIDE DEF k, js
  <2> QED BY <1>5, <2>5, <2>6
<1> QED BY <1>6, <1>7 DEF GetChar

\* Every step.
LEMMA EditorStep ==
  ASSUME CompletionsAreNames, EditorInv, [Next]_vars
  PROVE  EditorInv'
<1>1. CASE TerminalReads
  BY <1>1, EditorTerminalReads
<1>2. CASE \E k \in Keys : UserTypes(k)
  BY <1>2, EditorUserTypes
<1>3. CASE ShowPrompt
  BY <1>3, EditorShowPrompt
<1>4. CASE StartLine
  BY <1>4, EditorStartLine
<1>5. CASE GetChar
  BY <1>5, EditorGetChar
<1>6. CASE Backspace
  BY <1>6, EditorBackspace
<1>7. CASE Complete
  BY <1>7, EditorComplete
<1>8. CASE Insert
  BY <1>8, EditorInsert
<1>9. CASE ReadUntilEsc
  BY <1>9, EditorReadUntilEsc
<1>10. CASE ReadBracket
  BY <1>10, EditorReadBracket
<1>11. CASE ReadParameter
  BY <1>11, EditorReadParameter
<1>12. CASE UNCHANGED vars
  <2>1. EditorTypes /\ UNCHANGED <<key, line, caret, commands, unseen>> /\ shell' = shell
        /\ UNCHANGED <<term, output, input, typed, reply, buffer, dropped>>
    BY <1>12 DEF EditorInv, vars
  <2>2. buffer' \in Seq(Keys) /\ typed' \in Seq(Keys)
    BY <2>1 DEF EditorTypes
  <2>3. ShownLine' = ShownLine /\ ShownAt' = ShownAt /\ Target' = Target /\ EditorTypes'
    BY <2>1, <2>2, SameLine
  <2>4. PICK ks : Pipes(ks) /\ Follows(ks)
    BY DEF EditorInv
  <2>5. Pipes(ks)'
    BY <2>1, <2>3, <2>4 DEF Pipes
  <2>6. Follows(ks)'
    BY <2>1, <2>3, <2>4 DEF Follows, Reference
  <2> QED BY <2>3, <2>5, <2>6 DEF EditorInv
<1> QED BY <1>1, <1>2, <1>3, <1>4, <1>5, <1>6, <1>7, <1>8, <1>9, <1>10, <1>11, <1>12
        DEF Next, ShellStep

\* The invariant holds in every reachable state.
LEMMA EditorInvariant ==
  ASSUME CompletionsAreNames
  PROVE  Spec => []EditorInv
<1>1. Init => EditorInv
  BY EditorInit
<1>2. EditorInv /\ [Next]_vars => EditorInv'
  BY EditorStep
<1> QED BY <1>1, <1>2, PTL DEF Spec

\* Everything is handled and shown.
LEMMA QuietFacts ==
  ASSUME EditorInv, Quiet
  PROVE  /\ Shows(term, Seen(Prompt \o line), 2 + caret) /\ Len(Prompt) = 2
         /\ ~dropped => Reference = Editing(commands, Before, After)
<1>1. PICK ks : Pipes(ks) /\ Follows(ks)
  BY DEF EditorInv
<1>2. EditorTypes /\ shell = "edit" /\ buffer = <<>> /\ input = <<>> /\ output = <<>>
  BY DEF EditorInv, Quiet
<1>3. Reach(term, output, ShownLine, ShownAt) /\ Keyed(input, ks)
  <2>1. Reach(term, output, ShownLine, ShownAt) /\ Holds(shell, input, reply, ks, ShownAt)
    BY <1>1, <1>2, Answering
  <2> QED BY <1>2, <2>1 DEF Holds
<1>4. /\ ShownLine = Seen(Prompt \o line) /\ ShownAt = 2 + caret
      /\ Now = Editing(commands, Before, After)
  BY <1>2, EditFacts
<1>5. PICK u : Run("terminal", term, <<>>, u) /\ Shows(u, ShownLine, ShownAt)
  BY <1>2, <1>3 DEF Reach
<1>6. Shows(term, Seen(Prompt \o line), 2 + caret)
  BY <1>4, <1>5, RunEmpty
<1>7. ks = <<>>
  <2> SUFFICES ASSUME ks # <<>> PROVE FALSE
    OBVIOUS
  <2>1. PICK rest \in Seq(Chars) : Head(ks) \in Keys /\ input = Sent(Head(ks)) \o rest
    BY <1>3, KeyedFacts
  <2>2. input # <<>>
    BY <2>1, ReceiveKey
  <2> QED BY <1>2, <2>2
<1>8. ASSUME ~dropped PROVE Reference = Editing(commands, Before, After)
  <2>1. Run("reference", Target, buffer \o ks, Reference)
    BY <1>1, <1>8 DEF Follows
  <2>2. buffer \o ks = <<>>
    BY <1>2, <1>7
  <2>3. Target = Now
    BY <1>2 DEF Target, Querying
  <2>4. Target = Reference
    BY <2>1, <2>2, RunEmpty
  <2> QED BY <1>4, <2>3, <2>4
<1> QED BY <1>6, <1>8, PromptType

\* The lines that the shell returns, the line and the caret are those of
\* the keys that were typed, unless the library's buffer overflowed.
THEOREM EditorTypesAsTyped ==
  ASSUME CompletionsAreNames
  PROVE  Spec => []CommandsAsTyped
<1>1. EditorInv => CommandsAsTyped
  <2> SUFFICES ASSUME EditorInv, Quiet, ~dropped
               PROVE  /\ commands = Reference.commands
                      /\ line = Reference.before \o Reference.after
                      /\ caret = Len(Reference.before)
    BY DEF CommandsAsTyped
  <2>1. Reference = Editing(commands, Before, After)
    BY QuietFacts
  <2>2. Reference.commands = commands /\ Reference.before = Before /\ Reference.after = After
    BY <2>1, EditingFields
  <2>3. line = Before \o After /\ Len(Before) = caret
    BY EditorFacts DEF EditorInv
  <2> QED BY <2>2, <2>3
<1> QED BY <1>1, EditorInvariant, PTL

\* The screen shows the prompt and the line, with the cursor at the caret, as
\* long as no line had a character that the terminal does not show.
THEOREM EditorShowsLine ==
  ASSUME CompletionsAreNames
  PROVE  Spec => []ScreenShowsLine
<1>1. EditorInv => ScreenShowsLine
  <2> SUFFICES ASSUME EditorInv, Quiet, ~unseen
               PROVE  term.doc[1] = Prompt \o line /\ term.x = Len(Prompt) + caret /\ term.y = 0
    BY DEF ScreenShowsLine
  <2>1. Shows(term, Prompt \o line, 2 + caret) /\ Len(Prompt) = 2
    BY QuietFacts DEF Seen
  <2>2. Prompt \o line # Lost
    BY NotLost DEF EditorInv
  <2> QED BY <2>1, <2>2 DEF Shows, Fits
<1> QED BY <1>1, EditorInvariant, PTL

\* A terminal that touched a place outside of its document remembers it.
LEMMA ReachSafe ==
  ASSUME NEW t, NEW o, NEW u, o \in Seq(Chars), Run("terminal", t, o, u), ~u.stray
  PROVE  ~t.stray
<1>1. PICK st : IsRun("terminal", st, t, o, u)
  BY DEF Run
<1> DEFINE T == {n \in 0 .. Len(o) : ~st[n].stray}
<1>2. Len(o) \in Nat
  BY LenProperties
<1>3. Len(o) \in T /\ T \in SUBSET Nat
  BY <1>1, <1>2 DEF IsRun
<1>4. PICK m \in T : \A n \in T : m <= n
  BY <1>3, LeastNumber
<1>5. m = 0
  <2> SUFFICES ASSUME m # 0 PROVE FALSE
    OBVIOUS
  <2>1. m \in 1 .. Len(o) /\ m - 1 \in 0 .. Len(o) /\ m - 1 \notin T
    BY <1>2, <1>4
  <2>2. Step("terminal", st[m - 1], o[m], st[m])
    BY <1>1, <2>1 DEF IsRun
  <2>3. st[m - 1].stray => st[m].stray
    BY <2>2 DEF Step
  <2> QED BY <1>4, <2>1, <2>3
<1> QED BY <1>1, <1>4, <1>5 DEF IsRun

\* A query gets its own answer, and the terminal stays in its document, with
\* the same exception.
THEOREM EditorUnderstands ==
  ASSUME CompletionsAreNames
  PROVE  Spec => []AnswersUnderstood
<1>1. EditorInv => AnswersUnderstood
  <2> SUFFICES ASSUME EditorInv PROVE shell # "invalid" /\ (unseen \/ ~term.stray)
    BY DEF AnswersUnderstood
  <2>1. shell # "invalid"
    BY DEF EditorInv, EditorTypes, Querying
  <2>2. ASSUME ~unseen PROVE ~term.stray
    <3>0. ShownLine # Lost
      BY <2>2, NotLost DEF EditorInv
    <3>1. PICK ks : Pipes(ks)
      BY DEF EditorInv
    <3>2. CASE Reach(term, output, ShownLine, ShownAt)
      <4>1. PICK u : Run("terminal", term, output, u) /\ Shows(u, ShownLine, ShownAt)
        BY <3>2 DEF Reach
      <4>2. output \in Seq(Chars) /\ ~u.stray
        BY <3>0, <3>2, <4>1 DEF Reach, Shows, Fits
      <4> QED BY <4>1, <4>2, ReachSafe
    <3>3. CASE Waiting(term, output, ShownLine, ShownAt)
      <4>1. PICK p, w, u : /\ p \in Seq(Chars) /\ Run("terminal", term, p, w)
                           /\ Asked(w, u) /\ Shows(u, ShownLine, ShownAt)
        BY <3>3 DEF Waiting
      <4>2. ~w.stray
        BY <3>0, <4>1 DEF Asked, Shows, Fits
      <4> QED BY <4>1, <4>2, ReachSafe
    <3> QED BY <3>1, <3>2, <3>3 DEF Pipes
  <2> QED BY <2>1, <2>2
<1> QED BY <1>1, EditorInvariant, PTL
=============================================================================
