----------------------------- MODULE LineEditor -----------------------------
(***************************************************************************)
(* gsh's line editor (gshReadInputLine, main in gosh.cpp), the terminal    *)
(* client library that it uses (libterminal/src/terminal.cpp) and the      *)
(* terminal at the other end of two pipes (TerminalStream).                *)
(*                                                                         *)
(* Keys and the answers to cursor queries reach the shell through the same *)
(* pipe.  While the library looks for an answer it keeps the keys that     *)
(* come first in a buffer; the editor takes them later.  The editor never  *)
(* redraws a line: it keeps the screen in step with the line by cursor     *)
(* movements relative to the position that the terminal reported.          *)
(*                                                                         *)
(* The user types only while the terminal is in raw mode, which is what    *)
(* the editor sets (module Terminal has the other mode), and the pipes are *)
(* large enough.  A file name completion is external.                      *)
(***************************************************************************)
EXTENDS TerminalStream

CONSTANTS
  Letters,          \* characters the user types; " " separates words
  MaxKeys,          \* bound: keys the user types
  BufferSize,       \* stray keys the library keeps (64 in the code)
  Completions(_)    \* file names that complete a word, as character sequences

ASSUME EditorAssumption == {MaxKeys, BufferSize} \subseteq Nat

\* UP is any key that the editor ignores; STAB is also the tab character.
TermKeys == {"LEFT", "RIGHT", "UP", "BACKSPACE", "ENTER", "STAB"}
Keys == Letters \cup TermKeys

\* The tab is a key of the terminal, and the keyboard layouts have no other
\* control character.
ASSUME LettersAssumption ==
  Letters \cap (TermKeys \cup {ESC, Tab, Return, Newline, "sub", "none"}) = {}

VARIABLES
  term,      \* the terminal
  output,    \* pipe: the shell's output, not yet processed
  input,     \* pipe: keys and answers, not yet read by the shell
  typed,     \* history: every key the user typed
  shell,     \* where the shell is
  key,       \* the key being handled
  reply,     \* the answer being read: parameter count and parameters
  buffer,    \* the library's stray keys
  dropped,   \* history: whether the buffer was ever full
  line,
  caret,
  commands,  \* history: the lines the editor returned
  unseen     \* history: whether a line ever had a character that the terminal
             \* does not show

vars == <<term, output, input, typed, shell, key, reply, buffer, dropped,
          line, caret, commands, unseen>>

Command(s) == <<ESC>> \o s
Prompt == <<"p", ">">>
SetCursor(x, y) ==
  Command(<<"[">> \o Decimal(y) \o <<";">> \o Decimal(x) \o <<"f">>)
MoveBack(n) == Command(<<"[">> \o Decimal(n) \o <<"D">>)
MoveForward(n) == Command(<<"[">> \o Decimal(n) \o <<"C">>)
QueryCursor == Command(<<"[", "6", "n">>)
RemoveChar == Command(<<"{", "x">>)
SetMode(m) == Command(<<"{">> \o Decimal(m) \o <<"m">>)
SetEcho(e) == Command(<<"{">> \o Decimal(e) \o <<"e">>)
NoReply == [count |-> 0, parameters |-> NoParameters]

\* main: clear the screen, then the first prompt.
Init ==
  /\ \E garbage \in {0, 7} :
       term = NewTerminal([i \in 1..MaxParameters |-> garbage])
  /\ output = Command(<<"[", "2", "J">>) \o SetCursor(0, 0)
  /\ input = <<>> /\ typed = <<>>
  /\ shell = "prompt" /\ key = "none" /\ reply = NoReply
  /\ buffer = <<>> /\ dropped = FALSE
  /\ line = <<>> /\ caret = 0 /\ commands = <<>> /\ unseen = FALSE

(***************************************************************************)
(* The terminal: the output thread, and the input thread in raw mode       *)
(***************************************************************************)

TerminalReads ==
  /\ output # <<>>
  /\ term' = ProcessOutput(term, Head(output))
  /\ output' = Tail(output)
  /\ input' = input \o Answer(term, Head(output), 80, 25)
  /\ UNCHANGED <<typed, shell, key, reply, buffer, dropped, line, caret,
                 commands, unseen>>

\* terminalWriteTermkeyToShell: SUB, then the two bytes of the key's code.
Sent(k) == IF k \in TermKeys THEN <<"sub", k, "high">> ELSE <<k>>

UserTypes(k) ==
  /\ Len(typed) < MaxKeys
  /\ term.mode = 1
  /\ typed' = Append(typed, k)
  /\ input' = input \o Sent(k)
  /\ UNCHANGED <<term, output, shell, key, reply, buffer, dropped, line,
                 caret, commands, unseen>>

(***************************************************************************)
(* libterminal                                                             *)
(***************************************************************************)

\* readUnbuffered: a key is one character or three.
Received == IF Head(input) = "sub" THEN input[2] ELSE Head(input)
Unread == IF Head(input) = "sub" THEN SubSeq(input, 4, Len(input))
          ELSE Tail(input)

\* Mutant: a stray key is put in front of those that came before it.
ReadUntilEscReversed ==
  /\ shell = "seek" /\ input # <<>>
  /\ input' = Unread
  /\ \/ /\ Received = ESC
        /\ shell' = "bracket"
        /\ UNCHANGED <<buffer, dropped>>
     \/ /\ Received # ESC
        /\ buffer' = IF Len(buffer) < BufferSize
                     THEN <<Received>> \o buffer ELSE buffer
        /\ dropped' = (dropped \/ Len(buffer) >= BufferSize)
        /\ UNCHANGED shell
  /\ UNCHANGED <<term, output, typed, key, reply, line, caret, commands,
                 unseen>>

\* Mutant: the answer is taken to be the next thing in the pipe.
ReadUntilEscAtOnce ==
  /\ shell = "seek" /\ input # <<>>
  /\ input' = Unread /\ shell' = "bracket"
  /\ UNCHANGED <<term, output, typed, key, reply, buffer, dropped, line,
                 caret, commands, unseen>>

\* readAndBufferUntilESC and bufferChar
ReadUntilEsc ==
  /\ shell = "seek" /\ input # <<>>
  /\ input' = Unread
  /\ \/ /\ Received = ESC
        /\ shell' = "bracket"
        /\ UNCHANGED <<buffer, dropped>>
     \/ /\ Received # ESC
        /\ buffer' = IF Len(buffer) < BufferSize
                     THEN Append(buffer, Received) ELSE buffer
        /\ dropped' = (dropped \/ Len(buffer) >= BufferSize)
        /\ UNCHANGED shell
  /\ UNCHANGED <<term, output, typed, key, reply, line, caret, commands,
                 unseen>>

\* The character behind the ESC, then readEscapedParameters.
ReadBracket ==
  /\ shell = "bracket" /\ input # <<>>
  /\ input' = Unread
  /\ shell' = IF Received = "[" THEN "parameters" ELSE "invalid"
  /\ reply' = NoReply
  /\ UNCHANGED <<term, output, typed, key, buffer, dropped, line, caret,
                 commands, unseen>>

ReadParameter ==
  /\ shell = "parameters" /\ input # <<>>
  /\ input' = Unread
  /\ \/ /\ Received \in Digits
        /\ LET n == IF reply.count = 0 THEN 1 ELSE reply.count IN
           reply' = IF n > MaxParameters THEN reply
                    ELSE [count |-> n, parameters |->
                          [reply.parameters EXCEPT
                             ![n] = @ * 10 + DigitValue(Received)]]
        /\ UNCHANGED shell
     \/ /\ Received = ";"
        /\ reply' = [reply EXCEPT !.count = @ + 1]
        /\ UNCHANGED shell
     \/ /\ Received \notin Digits \cup {";"}
        /\ shell' = IF Received = "R" THEN "position" ELSE "invalid"
        /\ UNCHANGED reply
  /\ UNCHANGED <<term, output, typed, key, buffer, dropped, line, caret,
                 commands, unseen>>

\* What getCursor returns, once it does.
HasPosition == shell \in {"position", "invalid"}
Position == IF shell = "invalid" THEN [x |-> -1, y |-> -1]
            ELSE [x |-> reply.parameters[2], y |-> reply.parameters[1]]

(***************************************************************************)
(* gsh                                                                     *)
(***************************************************************************)

Before == SubSeq(line, 1, caret)
After == SubSeq(line, caret + 1, Len(line))

\* The prompt, and the query whose answer the next action uses.
ShowPrompt ==
  /\ shell = "prompt"
  /\ output' = output \o Command(<<"[", "3", "8", "m">>) \o Prompt
                 \o Command(<<"[", "0", "m">>) \o QueryCursor
  /\ shell' = "seek" /\ key' = "none"
  /\ line' = <<>> /\ caret' = 0
  /\ UNCHANGED <<term, input, typed, reply, buffer, dropped, commands, unseen>>

StartLine ==
  /\ HasPosition /\ key = "none"
  /\ output' = output \o SetCursor(Position.x, Position.y) \o SetMode(1)
                 \o SetEcho(0)
  /\ shell' = "edit" /\ reply' = NoReply
  /\ UNCHANGED <<term, input, typed, key, buffer, dropped, line, caret,
                 commands, unseen>>

\* The word before the caret, and what it is completed to: only a single
\* candidate is used.
Word == SubSeq(Before, 1 + SelectLastInSeq(Before, LAMBDA c : c = " "),
               caret)
SoleCompletion == CHOOSE c \in Completions(Word) : TRUE
Completes == \E c \in Completions(Word) : Completions(Word) = {c}

\* What getChar returns goes to the branch of its key.  Those that query
\* the cursor first continue below.
Handle(k) ==
  /\ key' = k
  /\ \/ /\ k = "BACKSPACE" /\ caret > 0
        /\ output' = output \o QueryCursor
        /\ shell' = "seek" /\ UNCHANGED <<line, caret, commands>>
     \/ /\ k = "STAB" /\ Completes
        /\ output' = output \o MoveBack(Len(Word)) \o QueryCursor
        /\ shell' = "seek" /\ UNCHANGED <<line, caret, commands>>
     \/ /\ k = "ENTER"
        /\ output' = output \o <<Newline>> \o SetMode(0) \o SetEcho(1)
        /\ shell' = "prompt" /\ commands' = Append(commands, line)
        /\ UNCHANGED <<line, caret>>
     \/ /\ k = "LEFT" /\ caret > 0
        /\ caret' = caret - 1 /\ output' = output \o MoveBack(1)
        /\ UNCHANGED <<shell, line, commands>>
     \/ /\ k = "RIGHT" /\ caret < Len(line)
        /\ caret' = caret + 1 /\ output' = output \o MoveForward(1)
        /\ UNCHANGED <<shell, line, commands>>
     \/ /\ k \in Letters
        /\ output' = output \o QueryCursor
        /\ shell' = "seek" /\ UNCHANGED <<line, caret, commands>>
     \/ /\ \/ k \in {"BACKSPACE", "LEFT"} /\ caret = 0
           \/ k = "RIGHT" /\ caret = Len(line)
           \/ k = "STAB" /\ ~Completes
           \/ k = "UP"
        /\ UNCHANGED <<output, shell, line, caret, commands>>
  /\ UNCHANGED <<term, typed, reply, dropped, unseen>>

\* Mutant: the key is read from the pipe although keys are buffered.
GetCharUnbuffered ==
  /\ shell = "edit"
  /\ \/ /\ buffer # <<>> /\ input = <<>>
        /\ Handle(Head(buffer))
        /\ buffer' = Tail(buffer) /\ UNCHANGED input
     \/ /\ input # <<>>
        /\ Handle(Received)
        /\ input' = Unread /\ UNCHANGED buffer

\* getChar: a buffered key first.
GetChar ==
  /\ shell = "edit"
  /\ \/ /\ buffer # <<>>
        /\ Handle(Head(buffer))
        /\ buffer' = Tail(buffer) /\ UNCHANGED input
     \/ /\ buffer = <<>> /\ input # <<>>
        /\ Handle(Received)
        /\ input' = Unread /\ UNCHANGED buffer

\* Mutant: the character that was deleted stays at the end of the line.
BackspaceNoRemove ==
  /\ HasPosition /\ key = "BACKSPACE"
  /\ line' = SubSeq(line, 1, caret - 1) \o After /\ caret' = caret - 1
  /\ LET pos == SetCursor(Position.x - 1, Position.y)
     IN output' = output \o pos \o After \o pos
  /\ shell' = "edit" /\ reply' = NoReply
  /\ UNCHANGED <<term, input, typed, key, buffer, dropped, commands, unseen>>

\* The branches after their query.
Backspace ==
  /\ HasPosition /\ key = "BACKSPACE"
  /\ line' = SubSeq(line, 1, caret - 1) \o After /\ caret' = caret - 1
  /\ LET pos == SetCursor(Position.x - 1, Position.y)
     IN output' = output \o pos \o After \o RemoveChar \o pos
  /\ shell' = "edit" /\ reply' = NoReply
  /\ UNCHANGED <<term, input, typed, key, buffer, dropped, commands, unseen>>

\* The word is replaced in the line, and overwritten on the screen from
\* where it began.
Complete ==
  /\ HasPosition /\ key = "STAB"
  /\ LET start == caret - Len(Word)
     IN /\ line' = SubSeq(line, 1, start) \o SoleCompletion \o After
        /\ caret' = start + Len(SoleCompletion)
  /\ output' = output \o SoleCompletion \o After
                 \o SetCursor(Position.x + Len(SoleCompletion), Position.y)
  /\ shell' = "edit" /\ reply' = NoReply
  /\ unseen' = (unseen \/ Range(SoleCompletion) \cap Ignored # {})
  /\ UNCHANGED <<term, input, typed, key, buffer, dropped, commands>>

Insert ==
  /\ HasPosition /\ key \in Letters
  /\ line' = Before \o <<key>> \o After /\ caret' = caret + 1
  /\ LET pos == SetCursor(Position.x + 1, Position.y)
     IN output' = output \o <<key>> \o pos \o After \o pos
  /\ shell' = "edit" /\ reply' = NoReply
  /\ unseen' = (unseen \/ key \in Ignored)
  /\ UNCHANGED <<term, input, typed, key, buffer, dropped, commands>>

ShellStep ==
  \/ ShowPrompt \/ StartLine \/ GetChar \/ Backspace \/ Complete \/ Insert
  \/ ReadUntilEsc \/ ReadBracket \/ ReadParameter

Next == TerminalReads \/ (\E k \in Keys : UserTypes(k)) \/ ShellStep

\* The terminal's output thread and the shell keep running.
Fairness == WF_vars(TerminalReads) /\ WF_vars(ShellStep)
Spec == Init /\ [][Next]_vars /\ Fairness

(***************************************************************************)
(* Properties                                                              *)
(***************************************************************************)

\* What a key does to a line: the reference the editor is measured by, on
\* the lines entered, and the parts of the line before and after the caret.
RefWord(before) ==
  SubSeq(before, 1 + SelectLastInSeq(before, LAMBDA c : c = " "),
         Len(before))
Editing(c, before, after) ==
  [commands |-> c, before |-> before, after |-> after]
RefKey(r, k) ==
  LET c == r.commands
      b == r.before
      a == r.after
      w == RefWord(b)
  IN CASE k = "ENTER" -> Editing(Append(c, b \o a), <<>>, <<>>)
       [] k = "BACKSPACE" /\ b # <<>> -> Editing(c, Front(b), a)
       [] k = "LEFT" /\ b # <<>> -> Editing(c, Front(b), <<Last(b)>> \o a)
       [] k = "RIGHT" /\ a # <<>> ->
            Editing(c, Append(b, Head(a)), Tail(a))
       [] k = "STAB" /\ Cardinality(Completions(w)) = 1 ->
            Editing(c, SubSeq(b, 1, Len(b) - Len(w)) \o
                         (CHOOSE x \in Completions(w) : TRUE), a)
       [] k \in Letters -> Editing(c, Append(b, k), a)
       [] OTHER -> r
RefKeys(ks) ==
  LET after[n \in 0..Len(ks)] ==
        IF n = 0 THEN Editing(<<>>, <<>>, <<>>)
        ELSE RefKey(after[n - 1], ks[n])
  IN after[Len(ks)]
Reference == RefKeys(typed)

\* Every key is handled and everything is on the screen.
Quiet == shell = "edit" /\ buffer = <<>> /\ input = <<>> /\ output = <<>>

\* The commands that the shell runs and the line that it edits are those
\* the user typed, however the keys interleave with the answers to cursor
\* queries: the library keeps stray keys and their order (bufferChar,
\* getChar), unless its buffer was full.
CommandsAsTyped ==
  Quiet /\ ~dropped =>
    /\ commands = Reference.commands
    /\ line = Reference.before \o Reference.after
    /\ caret = Len(Reference.before)

\* The last line of the screen is the prompt and the line being edited,
\* and the cursor stands at the caret, although the editor only ever sends
\* differences (gshReadInputLine), and whatever keys the library dropped.
\* Not once a line had a character that the terminal does not show: the editor
\* counts a column for it, the screen none.
ScreenShowsLine ==
  Quiet /\ ~unseen => /\ term.doc[1] = Prompt \o line
                      /\ term.x = Len(Prompt) + caret /\ term.y = 0

\* A cursor query always gets its own answer, and, with the same exception, no
\* sequence makes the terminal touch a place outside of its document.
AnswersUnderstood == shell # "invalid" /\ (unseen \/ ~term.stray)

\* The editor never waits for ever for the answer to a query: after each
\* burst of keys everything is handled and shown.
SettlesAgain == []<>Quiet
=============================================================================
