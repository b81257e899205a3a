--------------------------- MODULE LibcAlgorithms ---------------------------
(***************************************************************************)
(* Algorithms of the C library: qsort, bsearch, strtol, and setenv with    *)
(* getenv.  A loop is a step operator and the number of times that it is   *)
(* repeated, so that a loop that would not end is told from one that does. *)
(***************************************************************************)
EXTENDS Integers, Sequences, SequencesExt

CONSTANT LongMax           \* LONG_MAX
ASSUME LongAssumption == LongMax \in Nat

Repeat(Step(_), n, x) ==
  FoldLeft(LAMBDA y, i : Step(y), x, [i \in 1..n |-> i])

(***************************************************************************)
(* qsort and bsearch, on arrays of integers; indices count from 0 in the   *)
(* code and from 1 here                                                    *)
(***************************************************************************)

SwapElement(a, i, j) == [a EXCEPT ![i] = a[j], ![j] = a[i]]

\* Mutant: an element that equals the pivot is not moved before it.
PartitionStrict(a, low, high) ==
  FoldLeft(LAMBDA r, s : IF r.a[s] - r.a[high] < 0
                         THEN [g |-> r.g + 1,
                               a |-> SwapElement(r.a, r.g + 1, s)]
                         ELSE r,
           [a |-> a, g |-> low - 1],
           [k \in 1..(high - low) |-> low + k - 1])

\* The loop of qsortr: g is the last element not above the pivot.
Partition(a, low, high) ==
  FoldLeft(LAMBDA r, s : IF r.a[s] - r.a[high] <= 0
                         THEN [g |-> r.g + 1,
                               a |-> SwapElement(r.a, r.g + 1, s)]
                         ELSE r,
           [a |-> a, g |-> low - 1],
           [k \in 1..(high - low) |-> low + k - 1])

\* One call of qsortr; calls is the stack of those to come.  The pivot is
\* part of the second half.
QsortCall(s) ==
  IF s.calls = <<>> THEN s
  ELSE LET low == Head(s.calls)[1]
           high == Head(s.calls)[2]
           r == Partition(s.a, low, high)
       IN IF low >= high THEN [s EXCEPT !.calls = Tail(@)]
          ELSE [a |-> SwapElement(r.a, r.g + 1, high),
                calls |-> << <<low, r.g>>, <<r.g + 1, high>> >>
                            \o Tail(s.calls)]
Qsort(a, n) == Repeat(QsortCall, n, [a |-> a, calls |-> << <<1, Len(a)>> >>])

BsearchStep(s) ==
  LET mid == s.low + (s.high - s.low) \div 2
  IN IF s.low >= s.high \/ s.found # 0 THEN s
     ELSE IF s.value < s.a[mid] THEN [s EXCEPT !.high = mid]
     ELSE IF s.value > s.a[mid] THEN [s EXCEPT !.low = mid + 1]
     ELSE [s EXCEPT !.found = mid]
\* The place of value in a, 0 if the search fails.
Bsearch(value, a) ==
  Repeat(BsearchStep, Len(a) + 1,
         [value |-> value, a |-> a, low |-> 1, high |-> Len(a) + 1,
          found |-> 0]).found

(***************************************************************************)
(* strtol; p counts the characters that were read                          *)
(***************************************************************************)

DigitChars == <<"0", "1", "2", "3", "4", "5", "6", "7", "8", "9",
                "a", "b", "c", "d", "e", "f", "g">>
DigitOf(c) ==
  IF Contains(DigitChars, c)
  THEN (CHOOSE i \in 1..Len(DigitChars) : DigitChars[i] = c) - 1
  ELSE IF c = "x" THEN 33 ELSE 99
CharAt(text, p) == IF p < Len(text) THEN text[p + 1] ELSE "nul"

\* Blanks and the sign.
StrtolSign(text) ==
  LET blanks == CHOOSE n \in 0..Len(text) :
                  /\ \A i \in 1..n : text[i] = " "
                  /\ CharAt(text, n) # " "
  IN [p |-> blanks + (IF CharAt(text, blanks) \in {"+", "-"} THEN 1 ELSE 0),
      sign |-> IF CharAt(text, blanks) = "-" THEN -1 ELSE 1]

\* The base, and the prefix that tells it.
StrtolBase(text, p, base) ==
  LET zero == CharAt(text, p) = "0"
      hex == zero /\ CharAt(text, p + 1) = "x"
  IN CASE base \in {0, 16} /\ hex -> [base |-> 16, p |-> p + 2]
       [] base = 0 /\ zero /\ ~hex -> [base |-> 8, p |-> p + 1]
       [] base = 0 /\ ~zero -> [base |-> 10, p |-> p]
       [] base # 0 /\ ~(base = 16 /\ hex) -> [base |-> base, p |-> p]

\* Mutant: the limit does not take the digit into account.
StrtolDigitLate(text, s) ==
  LET digit == DigitOf(CharAt(text, s.p))
  IN IF s.stop \/ digit >= s.base THEN [s EXCEPT !.stop = TRUE]
     ELSE IF s.result > LongMax \div s.base
          THEN [s EXCEPT !.result = LongMax, !.stop = TRUE]
     ELSE [s EXCEPT !.result = @ * s.base + digit, !.p = @ + 1]

\* The loop over the digits stops at the one that would overflow.
StrtolDigit(text, s) ==
  LET digit == DigitOf(CharAt(text, s.p))
  IN IF s.stop \/ digit >= s.base THEN [s EXCEPT !.stop = TRUE]
     ELSE IF s.result > (LongMax - digit) \div s.base
          THEN [s EXCEPT !.result = LongMax, !.stop = TRUE]
     ELSE [s EXCEPT !.result = @ * s.base + digit, !.p = @ + 1]

Strtol(text, base) ==
  LET sign == StrtolSign(text)
      b == StrtolBase(text, sign.p, base)
      s == Repeat(LAMBDA x : StrtolDigit(text, x), Len(text) + 1,
                  [result |-> 0, p |-> b.p, base |-> b.base, stop |-> FALSE])
  IN [value |-> sign.sign * s.result, end |-> s.p]

(***************************************************************************)
(* The environment: environ is an array of entries "key=value" up to a     *)
(* null pointer, or no array at all                                        *)
(***************************************************************************)

NoEnviron == <<>>
Null == <<"null">>
Undefined == <<"undefined">>  \* a slot that realloc added
Term == <<"T">>               \* stands for TERM, which has a default

First(s) == CHOOSE i \in s : \A j \in s : i <= j

\* env_count: the slots before the null pointer.
EnvCount(environ) ==
  First({i \in DOMAIN environ : environ[i] = Null} \cup {Len(environ) + 1}) - 1

\* Mutant: any key that begins like this one matches.
EnvKeyMatchPrefix(entry, key) ==
  Len(entry) > Len(key) /\ SubSeq(entry, 1, Len(key)) = key

EnvKeyMatch(entry, key) ==
  /\ Len(entry) > Len(key) /\ SubSeq(entry, 1, Len(key)) = key
  /\ entry[Len(key) + 1] = "="

Matching(environ, key) ==
  {i \in 1..EnvCount(environ) : EnvKeyMatch(environ[i], key)}

Getenv(environ, key) ==
  IF key = <<>> THEN Null
  ELSE IF Matching(environ, key) # {}
       THEN LET e == environ[First(Matching(environ, key))]
            IN SubSeq(e, Len(key) + 2, Len(e))
  ELSE IF key = Term THEN <<"vt100">> ELSE Null

\* setenv: the new environment and what is returned.  fails says which
\* memory cannot be had: the first array, the longer one, or the entry, which
\* is asked for after the array has grown.
Setenv(environ, key, val, overwrite, fails) ==
  LET array == IF environ = NoEnviron THEN <<Null>> ELSE environ
      count == EnvCount(array)
      found == Matching(array, key)
      entry == key \o <<"=">> \o val
      resized == [i \in 1..(count + 2) |->
                    IF i <= count + 1 THEN array[i] ELSE Undefined]
  IN IF \/ key = <<>> \/ Contains(key, "=")
        \/ environ = NoEnviron /\ fails = "environ"
     THEN [env |-> environ, rc |-> -1]
     ELSE IF found # {}
     THEN IF ~overwrite THEN [env |-> array, rc |-> 0]
          ELSE IF fails = "entry" THEN [env |-> array, rc |-> -1]
          ELSE [env |-> [array EXCEPT ![First(found)] = entry], rc |-> 0]
     ELSE IF fails = "array" THEN [env |-> array, rc |-> -1]
     ELSE IF fails = "entry" THEN [env |-> resized, rc |-> -1]
     ELSE [env |-> [resized EXCEPT ![count + 1] = entry,
                                   ![count + 2] = Null], rc |-> 0]
=============================================================================
