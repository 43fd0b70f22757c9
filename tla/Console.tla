------------------------------- MODULE Console -------------------------------
(***************************************************************************)
(* Console input (console.c): the ring input.buf between the keyboard      *)
(* interrupt handler, which edits the line and commits it, and processes   *)
(* that read it.  cons.lock is explicit and a section under ptable.lock    *)
(* (sleep() up to sched(), wakeup(), kill()) is one action, so that a kill *)
(* may fall between consoleread()'s test of p->killed and its sleep().     *)
(* Printing, the ^P listing, the TAB key and the command history that only *)
(* TAB reads are left out.                                                 *)
(***************************************************************************)
EXTENDS Naturals, Sequences

CONSTANTS
  Reader,       \* processes that read the console
  intr,         \* the interrupt handler, as a holder of cons.lock
  NoProc,       \* cons.lock is free
  INPUT_BUF,
  UintSize,     \* r, w and e are counted modulo this, 2^32
  Letter,       \* ordinary characters
  Counts        \* the counts read is called with

NL  == "\n"
EOF == "^D"
Char == Letter \cup {NL, EOF}
Key  == Char \cup {"^U", "^H"}

ASSUME ConsoleAssumption ==
  /\ INPUT_BUF \in Nat \ {0}
  /\ UintSize \in Nat /\ UintSize > INPUT_BUF /\ UintSize % INPUT_BUF = 0
  /\ Counts \subseteq Nat \ {0}
  /\ Letter \cap {NL, EOF, "^U", "^H"} = {}
  /\ intr \notin Reader /\ NoProc \notin Reader \cup {intr}

VARIABLES
  buf, r, w, e,   \* struct input
  conslock,       \* who holds cons.lock
  pc, n,          \* where each reader is in consoleread(), and its local n
  asleep,         \* readers SLEEPING on &input.r
  killed,
  out             \* the bytes copied to dst by the reader's current call

inputVars == <<buf, r, w, e>>
vars == <<inputVars, conslock, pc, n, asleep, killed, out>>

Plus(x, k)  == (x + k) % UintSize
Minus(x, y) == (x + UintSize - y) % UintSize
Cell(x)     == buf[x % INPUT_BUF]

(* The indexes of struct input stay in order, r then w then e, across the   *)
(* wraparound of the counters, and never span more than the ring: what the  *)
(* readers have yet to read is not overwritten, by any mixture of typing,   *)
(* editing, reading and pushing back an end of file.                        *)
TypeOK ==
  /\ buf \in [0 .. INPUT_BUF - 1 -> Char]
  /\ r \in 0 .. UintSize - 1 /\ w \in 0 .. UintSize - 1 /\ e \in 0 .. UintSize - 1
  /\ Minus(w, r) <= Minus(e, r) /\ Minus(e, r) <= INPUT_BUF
  /\ conslock \in Reader \cup {intr, NoProc}
  /\ pc \in [Reader -> {"idle", "acquire", "loop", "sleep", "woken", "gone"}]
  /\ n \in [Reader -> Nat]
  /\ asleep \subseteq Reader /\ killed \subseteq Reader
  /\ out \in [Reader -> Seq(Char)]

Init ==
  /\ buf = [j \in 0 .. INPUT_BUF - 1 |-> NL]
  /\ r = 0 /\ w = 0 /\ e = 0
  /\ conslock = NoProc
  /\ pc = [p \in Reader |-> "idle"]
  /\ n = [p \in Reader |-> 0]
  /\ asleep = {} /\ killed = {}
  /\ out = [p \in Reader |-> <<>>]

-----------------------------------------------------------------------------
(* consoleintr(): one action per key, between acquire and release. *)

readerVars == <<pc, n, killed, out>>

IntrAcquire ==
  /\ conslock = NoProc
  /\ conslock' = intr
  /\ UNCHANGED <<inputVars, readerVars, asleep>>

\* getc() has no more characters.
IntrRelease ==
  /\ conslock = intr
  /\ conslock' = NoProc
  /\ UNCHANGED <<inputVars, readerVars, asleep>>

\* Mutant: backspace may go back over what has been committed.
Uncommitted_FromRead == e # r

Uncommitted == e # w

\* ^H and DEL: e goes back by one, if the line being edited is not empty.
Backspace ==
  /\ conslock = intr
  /\ Uncommitted
  /\ e' = Minus(e, 1)
  /\ UNCHANGED <<buf, r, w, conslock, readerVars, asleep>>

\* ^U and ^R: e goes back to just after the last newline, at most to w.
KillLine ==
  LET stops == {k \in 0 .. Minus(e, w) : k = Minus(e, w) \/ Cell(Minus(Minus(e, 1), k)) = NL} IN
  /\ conslock = intr
  /\ \E k \in stops : (\A j \in stops : k <= j) /\ e' = Minus(e, k)
  /\ UNCHANGED <<buf, r, w, conslock, readerVars, asleep>>

\* Mutant: one more character is let in than the ring has places.
HasRoom_OffByOne == Minus(e, r) <= INPUT_BUF

HasRoom == Minus(e, r) < INPUT_BUF

\* Mutant: the readers are woken by a newline only.
wakeup_NLOnly(c) == IF c = NL THEN {} ELSE asleep

\* wakeup(&input.r): every reader, whichever character ended the line.
wakeup(c) == {}

\* Any other key is stored; newline, ^D and the last free place commit.
Default(c) ==
  LET commits == c \in {NL, EOF} \/ Plus(e, 1) = Plus(r, INPUT_BUF) IN
  /\ conslock = intr
  /\ HasRoom
  /\ buf' = [buf EXCEPT ![e % INPUT_BUF] = c]
  /\ e' = Plus(e, 1)
  /\ w' = IF commits THEN Plus(e, 1) ELSE w
  /\ asleep' = IF commits THEN wakeup(c) ELSE asleep
  /\ UNCHANGED <<r, conslock, readerVars>>

Press(k) ==
  \/ k = "^H" /\ Backspace
  \/ k = "^U" /\ KillLine
  \/ k \in Char /\ Default(k)

-----------------------------------------------------------------------------
(* consoleread() *)

At(p, l) == pc[p] = l /\ p \notin asleep
Goto(p, l) == pc' = [pc EXCEPT ![p] = l]

Call(p, k) ==
  /\ At(p, "idle")
  /\ n' = [n EXCEPT ![p] = k]
  /\ out' = [out EXCEPT ![p] = <<>>]
  /\ Goto(p, "acquire")
  /\ UNCHANGED <<inputVars, conslock, asleep, killed>>

\* On entry, and at the end of sleep().
Acquire(p) ==
  /\ At(p, "acquire") \/ At(p, "woken")
  /\ conslock = NoProc
  /\ conslock' = p
  /\ Goto(p, "loop")
  /\ UNCHANGED <<inputVars, n, asleep, killed, out>>

Empty == r = w

\* Nothing is committed: a killed process returns -1, another will sleep.
Wait(p) ==
  /\ At(p, "loop")
  /\ n[p] > 0
  /\ Empty
  /\ IF p \in killed
       THEN conslock' = NoProc /\ Goto(p, "gone")
       ELSE Goto(p, "sleep") /\ UNCHANGED conslock
  /\ UNCHANGED <<inputVars, n, asleep, killed, out>>

\* sleep(&input.r, &cons.lock)
Sleep(p) ==
  /\ At(p, "sleep")
  /\ conslock' = NoProc
  /\ asleep' = asleep \cup {p}
  /\ Goto(p, "woken")
  /\ UNCHANGED <<inputVars, n, killed, out>>

\* A byte goes to dst; a newline ends the call.
ReadByte(p) ==
  /\ At(p, "loop")
  /\ n[p] > 0
  /\ ~Empty
  /\ Cell(r) # EOF
  /\ r' = Plus(r, 1)
  /\ out' = [out EXCEPT ![p] = Append(@, Cell(r))]
  /\ n' = [n EXCEPT ![p] = IF Cell(r) = NL THEN 0 ELSE @ - 1]
  /\ UNCHANGED <<buf, w, e, conslock, pc, asleep, killed>>

\* Mutant: ^D is consumed even when the call has bytes to return.
AfterEof_Consumed(p) == Plus(r, 1)

\* input.r--: ^D is left for the next call if this one has taken a byte.
AfterEof(p) == IF out[p] # <<>> THEN r ELSE Plus(r, 1)

ReadEof(p) ==
  /\ At(p, "loop")
  /\ n[p] > 0
  /\ ~Empty
  /\ Cell(r) = EOF
  /\ r' = AfterEof(p)
  /\ n' = [n EXCEPT ![p] = 0]
  /\ UNCHANGED <<buf, w, e, conslock, pc, asleep, killed, out>>

\* release(&cons.lock) and return; a killed process does not come back.
Return(p) ==
  /\ At(p, "loop")
  /\ n[p] = 0
  /\ conslock' = NoProc
  /\ Goto(p, IF p \in killed THEN "gone" ELSE "idle")
  /\ out' = [out EXCEPT ![p] = <<>>]
  /\ UNCHANGED <<inputVars, n, asleep, killed>>

\* kill(): the target is marked and, if asleep, made RUNNABLE.
Kill(p) ==
  /\ pc[p] # "gone"
  /\ killed' = killed \cup {p}
  /\ asleep' = asleep \ {p}
  /\ UNCHANGED <<inputVars, conslock, pc, n, out>>

-----------------------------------------------------------------------------
Read(p) == Acquire(p) \/ Wait(p) \/ Sleep(p) \/ ReadByte(p) \/ ReadEof(p) \/ Return(p)

Next ==
  \/ IntrAcquire
  \/ IntrRelease
  \/ \E k \in Key : Press(k)
  \/ \E p \in Reader :
       \/ \E k \in Counts : Call(p, k)
       \/ Read(p)
       \/ Kill(p)

Spec == Init /\ [][Next]_vars

-----------------------------------------------------------------------------
(* No wakeup is lost: while there is committed input no reader is asleep,   *)
(* whether a newline, a ^D or a full ring committed it, and although the ^D *)
(* one reader pushed back may be what another one is to see.                *)
NoReaderLeftAsleep == asleep # {} => Empty

\* The cells from index x up to index y.
Cells(x, y) == [j \in 1 .. Minus(y, x) |-> Cell(Plus(x, j - 1))]

Lines == INSTANCE LineBuffer WITH
  Size <- INPUT_BUF, line <- Cells(w, e), queue <- Cells(r, w)

(* console.c implements LineBuffer: editing keys reach only characters that *)
(* have not been committed, committed bytes are read once and in order, a   *)
(* read ends with its newline, and a ^D ends exactly one read that has      *)
(* returned nothing, even if it was pushed back in between.                 *)
LineSpec == Lines!Spec
=============================================================================
