----------------------------- MODULE Algorithms -----------------------------
(***************************************************************************)
(* What the algorithms of CommandLine and LibcAlgorithms promise, for      *)
(* every input up to a length.  A behaviour picks an algorithm and makes   *)
(* its input longer by one element at a time; every state is an input.     *)
(***************************************************************************)
EXTENDS CommandLine, LibcAlgorithms

CONSTANTS
  Kinds,        \* what the input is for
  Elements,     \* function: the elements of the inputs of each kind
  MaxLength     \* function: bound on the length of the inputs of each kind

VARIABLES kind, input
vars == <<kind, input>>

Init == kind \in Kinds /\ input = <<>>
Extend ==
  /\ Len(input) < MaxLength[kind]
  /\ \E e \in Elements[kind] : input' = Append(input, e)
  /\ UNCHANGED kind
Spec == Init /\ [][Extend]_vars

(***************************************************************************)
(* Command lines.  An input is the text of a list of arguments: "next"     *)
(* begins another argument, and "pipe" another call.                       *)
(***************************************************************************)

\* The calls that an input stands for; each calls the program "a".
Calls ==
  FoldLeft(LAMBDA calls, c :
             LET last == Len(calls) IN
             CASE c = "pipe" ->
                    Append(calls, [program |-> <<"a">>, arguments |-> <<>>])
               [] c = "next" ->
                    [calls EXCEPT ![last].arguments = Append(@, <<>>)]
               [] OTHER ->
                    LET n == Len(calls[last].arguments) IN
                    IF n = 0 THEN calls
                    ELSE [calls EXCEPT ![last].arguments[n] = Append(@, c)],
           << [program |-> <<"a">>, arguments |-> <<>>] >>, input)

\* How a user writes them: each argument in quotation marks, or each
\* character behind a backslash.
Escape(arg, special) ==
  FoldLeft(LAMBDA s, c : s \o (IF c \in special THEN <<Backslash>> ELSE <<>>)
                           \o <<c>>, <<>>, arg)
InQuotes(arg) == <<Quote>> \o Escape(arg, {Quote, Backslash}) \o <<Quote>>
Behind(arg) == Escape(arg, {arg[i] : i \in DOMAIN arg})
WriteCall(call, W(_)) ==
  FoldLeft(LAMBDA s, arg : s \o <<" ">> \o W(arg), call.program,
           call.arguments)
WriteLine(calls, W(_)) ==
  FoldLeft(LAMBDA s, i : s \o (IF i = 1 THEN <<>> ELSE <<" ", "|", " ">>)
                           \o WriteCall(calls[i], W),
           <<>>, [i \in 1..Len(calls) |-> i])

\* Any arguments can be written down for gsh so that its parser reads back
\* exactly these calls: quotation marks and backslashes protect blanks,
\* tabs, pipes and each other (parser_t).
WrittenIsParsed ==
  kind = "line" =>
    /\ PipeExpression(WriteLine(Calls, InQuotes)) = Calls
    /\ (\A i \in DOMAIN Calls : ~Contains(Calls[i].arguments, <<>>)) =>
         PipeExpression(WriteLine(Calls, Behind)) = Calls

\* A program gets the arguments that the parser read, unless they hold
\* quotation marks or backslashes, which parseargs takes out once more and
\* which have to be escaped twice, or the last one is empty.
ArgumentsArrive ==
  kind = "line" =>
    \A i \in DOMAIN Calls :
      LET args == Calls[i].arguments
          twice == [j \in DOMAIN args |-> Escape(args[j], {Quote, Backslash})]
          arrive == PipeExpression(
                      WriteLine(<<[Calls[i] EXCEPT !.arguments = twice]>>,
                                InQuotes))[1].arguments
      IN args # <<>> /\ Last(args) # <<>> =>
           /\ ParseArgs(JoinArguments(arrive)) = args
           /\ (\A j \in DOMAIN args :
                 ~Contains(args[j], Quote) /\ ~Contains(args[j], Backslash))
                => ParseArgs(JoinArguments(args)) = args

(***************************************************************************)
(* Sorting and searching                                                   *)
(***************************************************************************)

Occurrences(a, v) == Cardinality({i \in DOMAIN a : a[i] = v})

\* qsort comes to an end, although the pivot is part of a half it sorts
\* again, and leaves the same elements in order; bsearch finds in the
\* result exactly the values that are there (qsortr, bsearch).
SortAndSearch ==
  kind = "array" =>
    LET s == Qsort(input, 6 * Len(input) + 2)
    IN /\ s.calls = <<>>
       /\ \A v \in Elements["array"] :
            Occurrences(s.a, v) = Occurrences(input, v)
       /\ \A i, j \in DOMAIN input : i <= j => s.a[i] <= s.a[j]
       /\ \A v \in Elements["array"] :
            LET f == Bsearch(v, s.a)
            IN IF Occurrences(input, v) = 0 THEN f = 0 ELSE s.a[f] = v

(***************************************************************************)
(* Numbers                                                                 *)
(***************************************************************************)

\* The value of digits, by their weights.
ValueOf(digits, base) ==
  FoldLeft(LAMBDA n, i : n + DigitOf(digits[i]) * base^(Len(digits) - i),
           0, [i \in DOMAIN digits |-> i])

\* The numerals that a text begins with (N1548-7.22.1.4, which stdlib.h cites):
\* blanks, a sign, 0x in base 16 or if the base is open, and digits of the
\* base; an open base is 16 behind 0x, 8 behind a 0, else 10.
Numerals(text, base) ==
  LET Form(b, s, p, n) ==
        [from |-> b + s, end |-> b + s + p + n,
         sign |-> IF s = 1 /\ text[b + 1] = "-" THEN -1 ELSE 1,
         base |-> CASE base # 0 -> base
                    [] base = 0 /\ p = 2 -> 16
                    [] base = 0 /\ p = 0 ->
                         IF text[b + s + 1] = "0" THEN 8 ELSE 10,
         digits |-> SubSeq(text, b + s + p + 1, b + s + p + n)]
      Shape == {<<b, s, p, n>> \in
                  (0..Len(text)) \X {0, 1} \X {0, 2} \X (1..Len(text)) :
                  /\ b + s + p + n <= Len(text)
                  /\ \A i \in 1..b : text[i] = " "
                  /\ s = 1 => text[b + 1] \in {"+", "-"}
                  /\ p = 2 => /\ base \in {0, 16}
                              /\ text[b + s + 1] = "0" /\ text[b + s + 2] = "x"}
  IN {f \in {Form(q[1], q[2], q[3], q[4]) : q \in Shape} :
        \A i \in DOMAIN f.digits : DigitOf(f.digits[i]) < f.base}
Longest(numerals) == CHOOSE f \in numerals : \A g \in numerals : g.end <= f.end
NumberOf(f) == f.sign * ValueOf(f.digits, f.base)

Smaller(m, n) == IF m < n THEN m ELSE n

\* A 0x that no digit follows: the number is its 0.
BarePrefix(f) == /\ f.base # 10 /\ f.digits = <<"0">>
                 /\ f.end = f.from + 1 /\ CharAt(input, f.end) = "x"

\* strtol returns the number that the text begins with in every base, LONG_MAX
\* if it is larger and 0 if there is none, and says where it ends.  Left open is
\* what the code does against that section: it returns -LONG_MAX for LONG_MIN and
\* all below (here, something that low), does not say where a number out of range
\* ends, and takes an 0x without a digit for a part of the number.
NumberRead ==
  kind = "number" =>
    \A base \in {0, 10, 16} :
      LET fs == Numerals(input, base)
          n == NumberOf(Longest(fs))
          s == Strtol(input, base)
      IN IF fs = {} THEN s.value = 0
         ELSE /\ n >= -LongMax => s.value = Smaller(n, LongMax)
              /\ n < -LongMax => s.value <= -LongMax
              /\ n \in -LongMax..LongMax /\ ~BarePrefix(Longest(fs)) =>
                   s.end = Longest(fs).end

(***************************************************************************)
(* The environment.  An input is a sequence of calls of setenv.            *)
(***************************************************************************)

SetenvCall(r, c) ==
  LET s == Setenv(r.env, c.key, c.val, c.overwrite, c.fails)
  IN [env |-> s.env, rcs |-> Append(r.rcs, s.rc)]
AfterSetenv == FoldLeft(SetenvCall, [env |-> NoEnviron, rcs |-> <<>>], input)

\* Where the value of a key comes from: the last call that set it, given
\* that calls for other keys, failed ones, and ones that may not overwrite
\* change nothing.
Sets(i, key) ==
  /\ input[i].key = key /\ AfterSetenv.rcs[i] = 0
  /\ input[i].overwrite
       \/ \A j \in 1..(i - 1) : input[j].key # key \/ AfterSetenv.rcs[j] # 0
Setters(key) == {i \in DOMAIN input : Sets(i, key)}

\* Whatever was set, in whatever order, overwritten or not, and wherever
\* memory ran out: getenv returns for each key the value that was set last,
\* also for a key that begins like another one (setenv, getenv).
EnvironmentIsMap ==
  kind = "env" =>
    \A key \in {e.key : e \in Elements["env"]} \ {<<>>} :
      LET got == Getenv(AfterSetenv.env, key)
      IN IF Setters(key) # {}
         THEN got = input[CHOOSE i \in Setters(key) :
                            \A j \in Setters(key) : j <= i].val
         ELSE got = IF key = Term THEN <<"vt100">> ELSE Null
=============================================================================
