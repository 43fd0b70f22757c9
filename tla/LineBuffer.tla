----------------------------- MODULE LineBuffer -----------------------------
(***************************************************************************)
(* What the console promises its readers: a line can be edited until it is *)
(* finished, a finished line is only ever read, in the order it was typed, *)
(* every byte goes to one reader, a read stops after a newline, and an end *)
(* of file is seen by exactly one read that has taken nothing else.        *)
(***************************************************************************)
EXTENDS Sequences, SequencesExt, Naturals

CONSTANTS Reader, Char, NL, EOF, Size

VARIABLES line, queue, out   \* being edited; finished; taken by each reader's call

vars == <<line, queue, out>>

Init ==
  /\ line = <<>>
  /\ queue = <<>>
  /\ out = [p \in Reader |-> <<>>]

Full == Len(line) + Len(queue) = Size

\* A character is added; a newline, an end of file and the last free place
\* finish the line.
Type(c) ==
  LET typed == Append(line, c)
      done == c \in {NL, EOF} \/ Len(typed) + Len(queue) = Size IN
  /\ ~Full
  /\ line'  = IF done THEN <<>> ELSE typed
  /\ queue' = IF done THEN queue \o typed ELSE queue
  /\ UNCHANGED out

\* The last character, or the whole of an unfinished line, is rubbed out.
Erase ==
  /\ line # <<>>
  /\ line' \in {Front(line), <<>>}
  /\ UNCHANGED <<queue, out>>

Call(p) ==
  /\ out' = [out EXCEPT ![p] = <<>>]
  /\ UNCHANGED <<line, queue>>

Take(p) ==
  /\ queue # <<>>
  /\ Head(queue) # EOF
  /\ out[p] # <<>> => Last(out[p]) # NL
  /\ out' = [out EXCEPT ![p] = Append(@, Head(queue))]
  /\ queue' = Tail(queue)
  /\ UNCHANGED line

TakeEof(p) ==
  /\ queue # <<>>
  /\ Head(queue) = EOF
  /\ out[p] = <<>>
  /\ queue' = Tail(queue)
  /\ UNCHANGED <<line, out>>

Next ==
  \/ \E c \in Char : Type(c)
  \/ Erase
  \/ \E p \in Reader : Call(p) \/ Take(p) \/ TakeEof(p)

Spec == Init /\ [][Next]_vars
=============================================================================
