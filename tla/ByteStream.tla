----------------------------- MODULE ByteStream -----------------------------
(***************************************************************************)
(* What a C stream promises its caller, with no buffer in sight: a file    *)
(* whose content changes at the byte that is put, a position, and the      *)
(* input, the bytes that the next reads will return.  The input is what    *)
(* the content holds from the position on, except after an unget, which    *)
(* puts a byte of the caller's choice in front of it.                      *)
(*                                                                         *)
(* StdioStream implements this specification (its StreamRefinement).       *)
(***************************************************************************)
EXTENDS Integers, Sequences

CONSTANTS Bytes  \* the byte values in use

VARIABLES
  isOpen,   \* whether the stream is open
  content,  \* what the file would hold if nothing were buffered
  pos,      \* the file position indicator; negative after ungets at 0
  input,    \* the bytes future reads return
  result    \* what the last call returned: its kind and its value

vars == <<isOpen, content, pos, input, result>>

Kinds == {"open", "close", "got", "put", "unget", "sync", "seek", "tell",
          "count", "status"}
Results == [kind : Kinds, val : Seq(Int)]

\* The file position never lies before the first byte.
Position(p) == IF p < 0 THEN 0 ELSE p

\* The bytes of sequence f after its first p ones.
From(f, p) == SubSeq(f, p + 1, Len(f))

\* f with the bytes s written over it from position p on.
Overlay(f, p, s) ==
  [i \in 1 .. (IF Len(f) > p + Len(s) THEN Len(f) ELSE p + Len(s)) |->
     IF i > p /\ i <= p + Len(s) THEN s[i - p] ELSE f[i]]

TypeOK ==
  /\ isOpen \in BOOLEAN
  /\ content \in Seq(Bytes)
  /\ pos \in Int
  /\ input \in Seq(Bytes)
  /\ result \in Results

Init ==
  /\ isOpen = FALSE
  /\ content \in Seq(Bytes)
  /\ pos = 0
  /\ input = content
  /\ result = [kind |-> "close", val |-> <<0>>]

\* Opening may truncate the file.
Open ==
  /\ ~isOpen
  /\ isOpen' = TRUE
  /\ content' \in {content, <<>>}
  /\ pos' = 0
  /\ input' = content'
  /\ result'.kind = "open"

Close ==
  /\ isOpen
  /\ isOpen' = FALSE
  /\ pos' = 0
  /\ input' = content
  /\ result'.kind = "close"
  /\ UNCHANGED content

\* A read returns the next bytes of the input ...
Get ==
  /\ isOpen
  /\ \E n \in 1 .. Len(input) :
       /\ result' = [kind |-> "got", val |-> SubSeq(input, 1, n)]
       /\ input' = From(input, n)
       /\ pos' = pos + n
  /\ UNCHANGED <<isOpen, content>>

\* ... and reports the end of the file only when there are none left.
GetEnd ==
  /\ isOpen
  /\ input = <<>>
  /\ result' = [kind |-> "got", val |-> <<>>]
  /\ UNCHANGED <<isOpen, content, pos, input>>

\* Pushing a byte back puts it before the input, or leaves the stream as it is.
Unget ==
  /\ isOpen
  /\ result'.kind = "unget"
  /\ input' = result'.val \o input
  /\ pos' = pos - Len(result'.val)
  /\ UNCHANGED <<isOpen, content>>

\* The bytes put replace those at the position, which drops what was ungot.
Put ==
  /\ isOpen
  /\ result'.kind = "put"
  /\ result'.val # <<>>
  /\ content' = Overlay(content, Position(pos), result'.val)
  /\ pos' = Position(pos) + Len(result'.val)
  /\ input' = From(content', pos')
  /\ UNCHANGED isOpen

\* A flush loses nothing but the bytes that were ungot.
Sync ==
  /\ isOpen
  /\ result'.kind = "sync"
  /\ pos' = Position(pos)
  /\ input' = From(content, pos')
  /\ UNCHANGED <<isOpen, content>>

\* After a seek, reads and writes go on at the new position.
Seek ==
  /\ isOpen
  /\ result'.kind = "seek"
  /\ pos' \in 0 .. Len(content)
  /\ result'.val = <<pos'>>
  /\ input' = From(content, pos')
  /\ UNCHANGED <<isOpen, content>>

\* An offset can be asked for at any time; it is the position when the call
\* before opened the file, flushed it or moved the position.
Tell ==
  /\ isOpen
  /\ result'.kind = "tell"
  /\ result.kind \in {"open", "sync", "seek"} => result'.val = <<Position(pos)>>
  /\ UNCHANGED <<isOpen, content, pos, input>>

\* Everything else only reports something.
Report ==
  /\ result'.kind \in {"status", "count"}
  /\ UNCHANGED <<isOpen, content, pos, input>>

Next == Open \/ Close \/ Get \/ GetEnd \/ Unget \/ Put \/ Sync \/ Seek \/ Tell
        \/ Report

Spec == Init /\ [][Next]_vars
=============================================================================
