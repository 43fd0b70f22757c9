---------------------------- MODULE ConsoleProofs ----------------------------
(***************************************************************************)
(* Console input keeps its indexes in order, leaves no reader asleep when   *)
(* there is something to read, and implements LineBuffer: for all sizes of  *)
(* the ring and of the counters and any number of readers.                  *)
(***************************************************************************)
EXTENDS Console, RingArithmetic, SequenceTheorems

-----------------------------------------------------------------------------
(* The inductive invariant *)

\* cons.lock is held exactly between its acquire and its release.
LockInv == \A p \in Reader : pc[p] \in {"loop", "sleep"} <=> conslock = p

\* Who sleeps, or is about to with the lock held, has nothing to read.
SleepInv ==
  /\ \A p \in asleep : pc[p] = "woken"
  /\ \A p \in Reader : pc[p] = "sleep" => Empty
  /\ NoReaderLeftAsleep

\* The line being edited holds no newline: ^U rubs out all of it.
LineInv == \A j \in 1 .. Minus(e, w) : Cells(w, e)[j] # NL

\* A call that is to go on has not yet read a newline.
OutInv == \A p \in Reader : n[p] > 0 => \A j \in 1 .. Len(out[p]) : out[p][j] # NL

IInv == TypeOK /\ LockInv /\ SleepInv /\ LineInv /\ OutInv

-----------------------------------------------------------------------------
(* The indexes and the ring *)

\* What is committed and not read, what is being edited, and both.
Committed == Minus(w, r)
Typed     == Minus(e, w)
Used      == Minus(e, r)

\* The j-th cell from the one the next read takes.
Ring(j) == buf[Slot(INPUT_BUF, r + j)]

\* The assumptions on the sizes.
LEMMA Sizes ==
  /\ INPUT_BUF \in Nat \ {0} /\ INPUT_BUF \in Nat /\ INPUT_BUF > 0
  /\ UintSize \in Nat \ {0} /\ UintSize \in Nat
  /\ INPUT_BUF \in 1 .. UintSize - 1 /\ INPUT_BUF < UintSize
  BY ConsoleAssumption

\* The model's arithmetic is that of RingArithmetic.
LEMMA MinusPlus ==
  /\ \A x, y : Minus(x, y) = Ahead(UintSize, x, y)
  /\ \A x, k : Plus(x, k) = Advance(UintSize, x, k)
  /\ \A x : Cell(x) = buf[Slot(INPUT_BUF, x)]
  BY DEF Minus, Plus, Cell, Ahead, Advance, Slot

\* A place in the ring does not depend on the wraparound.
LEMMA SlotPlus ==
  ASSUME NEW x \in 0 .. UintSize - 1, NEW d \in 0 .. UintSize - 1, NEW k \in Nat
  PROVE  /\ Slot(INPUT_BUF, Plus(x, d) + k) = Slot(INPUT_BUF, x + d + k)
         /\ Slot(INPUT_BUF, Plus(x, d)) = Slot(INPUT_BUF, x + d)
<1>1. Slot(INPUT_BUF, UintSize) = 0
  BY ConsoleAssumption DEF Slot
<1>2. \A i \in Nat : Slot(INPUT_BUF, Advance(UintSize, x, d) + i) = Slot(INPUT_BUF, x + d + i)
  BY <1>1, SameSlot, Sizes
<1>3. Plus(x, d) = Advance(UintSize, x, d)
  BY MinusPlus
<1>4. Plus(x, d) \in Nat
  BY <1>3, AdvanceIs, Sizes
<1>5. Plus(x, d) + 0 = Plus(x, d) /\ x + d + 0 = x + d
  BY <1>4
<1>6. /\ Slot(INPUT_BUF, Plus(x, d) + k) = Slot(INPUT_BUF, x + d + k)
      /\ Slot(INPUT_BUF, Plus(x, d) + 0) = Slot(INPUT_BUF, x + d + 0)
  BY <1>2, <1>3
<1>. QED
  BY <1>5, <1>6

\* The distance of two indexes and what moving on one of them does to it.
LEMMA Distance ==
  ASSUME NEW x \in 0 .. UintSize - 1, NEW y \in 0 .. UintSize - 1
  PROVE  /\ Minus(y, x) \in 0 .. UintSize - 1
         /\ Minus(y, x) = 0 <=> x = y
         /\ Minus(y, x) = INPUT_BUF <=> y = Plus(x, INPUT_BUF)
         /\ y = Plus(x, Minus(y, x))
         /\ Plus(y, 1) \in 0 .. UintSize - 1
         /\ Minus(y, x) < INPUT_BUF => Minus(Plus(y, 1), x) = Minus(y, x) + 1
         /\ Minus(y, x) > 0 => Minus(y, Plus(x, 1)) = Minus(y, x) - 1
<1>1. /\ INPUT_BUF \in 1 .. UintSize - 1 /\ UintSize \in Nat \ {0}
      /\ Minus(y, x) = Ahead(UintSize, y, x)
      /\ Plus(x, INPUT_BUF) = Advance(UintSize, x, INPUT_BUF)
      /\ Plus(x, Minus(y, x)) = Advance(UintSize, x, Ahead(UintSize, y, x))
      /\ Plus(y, 1) = Advance(UintSize, y, 1)
      /\ Minus(Plus(y, 1), x) = Ahead(UintSize, Advance(UintSize, y, 1), x)
      /\ Minus(y, Plus(x, 1)) = Ahead(UintSize, y, Advance(UintSize, x, 1))
  BY MinusPlus, Sizes
<1>. QED
  BY <1>1, Counters

\* The indexes are in order.
LEMMA Indexes ==
  ASSUME TypeOK
  PROVE  /\ r \in 0 .. UintSize - 1 /\ w \in 0 .. UintSize - 1 /\ e \in 0 .. UintSize - 1
         /\ r \in Nat /\ w \in Nat /\ e \in Nat
         /\ Committed \in Nat /\ Typed \in Nat /\ Used \in Nat
         /\ Used = Committed + Typed /\ Used <= INPUT_BUF
         /\ Committed = 0 <=> r = w
         /\ Typed = 0 <=> e = w
         /\ Used = INPUT_BUF <=> e = Plus(r, INPUT_BUF)
<1>1. /\ r \in 0 .. UintSize - 1 /\ w \in 0 .. UintSize - 1 /\ e \in 0 .. UintSize - 1
      /\ Ahead(UintSize, w, r) <= Ahead(UintSize, e, r)
      /\ Committed <= Used /\ Used <= INPUT_BUF
  BY MinusPlus DEF TypeOK, Committed, Used
<1>2. Used = Committed + Typed
  BY <1>1, ThreeCounters, MinusPlus, Sizes, Zenon DEF Committed, Used, Typed
<1>3. /\ Committed \in 0 .. UintSize - 1 /\ (Committed = 0 <=> r = w)
      /\ Typed \in 0 .. UintSize - 1 /\ (Typed = 0 <=> w = e)
      /\ Used \in 0 .. UintSize - 1 /\ (Used = INPUT_BUF <=> e = Plus(r, INPUT_BUF))
  BY <1>1, Distance DEF Committed, Used, Typed
<1>. QED
  BY <1>1, <1>2, <1>3, Sizes

\* What moving e back by k does.
LEMMA MovedBack ==
  ASSUME TypeOK, NEW k \in 0 .. Typed, e' = Minus(e, k), UNCHANGED <<r, w>>
  PROVE  /\ e' \in 0 .. UintSize - 1
         /\ Committed' = Committed /\ Typed' = Typed - k /\ Used' = Used - k
<1>1. Ahead(UintSize, w, r) <= Ahead(UintSize, e, r)
  BY MinusPlus DEF TypeOK
<1>2. Committed' = Committed
  BY DEF Committed
<1>3. k \in 0 .. Ahead(UintSize, e, w) /\ e' = Ahead(UintSize, e, k)
  BY MinusPlus DEF Typed
<1>4. /\ e' \in 0 .. UintSize - 1
      /\ Ahead(UintSize, e', w) = Ahead(UintSize, e, w) - k
      /\ Ahead(UintSize, e', r) = Ahead(UintSize, e, r) - k
  BY <1>1, <1>3, ThreeCounters, Indexes, Sizes
<1>. QED
  BY <1>2, <1>4, MinusPlus DEF Typed, Used

\* What a key stored in the ring does, committed or not.
LEMMA MovedOn ==
  ASSUME TypeOK, Used < INPUT_BUF, e' = Plus(e, 1), UNCHANGED r, w' = e' \/ w' = w
  PROVE  /\ e' \in 0 .. UintSize - 1 /\ w' \in 0 .. UintSize - 1
         /\ Used' = Used + 1
         /\ w' = e' => Committed' = Used + 1 /\ Typed' = 0
         /\ w' = w => Committed' = Committed /\ Typed' = Typed + 1
<1>1. e' \in 0 .. UintSize - 1 /\ Used' = Used + 1
  BY Distance, Indexes DEF Used
<1>2. w' = e' => Committed' = Used + 1 /\ Typed' = 0
  <2>. HAVE w' = e'
  <2>1. Ahead(UintSize, e', e') = 0
    BY <1>1, Counters, Sizes
  <2>. QED
    BY <1>1, <2>1, MinusPlus DEF Committed, Typed, Used
<1>3. w' = w => Committed' = Committed /\ Typed' = Typed + 1
  <2>. HAVE w' = w
  <2>1. Typed < INPUT_BUF
    BY Indexes, Sizes
  <2>. QED
    BY <2>1, Counters, Indexes, Sizes, MinusPlus DEF Committed, Typed
<1>. QED
  BY <1>1, <1>2, <1>3, Indexes

\* What a read of one cell does.
LEMMA MovedUp ==
  ASSUME TypeOK, ~Empty, r' = Plus(r, 1), UNCHANGED <<w, e>>
  PROVE  /\ r' \in 0 .. UintSize - 1
         /\ Committed > 0 /\ Committed' = Committed - 1
         /\ Typed' = Typed /\ Used' = Used - 1
<1>1. Committed > 0 /\ Used > 0
  BY Indexes DEF Empty
<1>2. Typed' = Typed
  BY DEF Typed
<1>. QED
  BY <1>1, <1>2, Counters, Indexes, Sizes, MinusPlus DEF Committed, Used

\* The two parts of the ring, from r.
LEMMA CellsAre ==
  TypeOK => /\ Cells(r, w) = [j \in 1 .. Committed |-> Ring(j - 1)]
            /\ Cells(w, e) = [j \in 1 .. Typed |-> Ring(Committed + j - 1)]
<1>. SUFFICES ASSUME TypeOK
              PROVE  /\ Cells(r, w) = [j \in 1 .. Committed |-> Ring(j - 1)]
                     /\ Cells(w, e) = [j \in 1 .. Typed |-> Ring(Committed + j - 1)]
  OBVIOUS
<1>1. ASSUME NEW j \in 1 .. Committed PROVE Cell(Plus(r, j - 1)) = Ring(j - 1)
  <2>1. j - 1 \in 0 .. UintSize - 1 /\ j - 1 \in Nat
    BY Indexes, Sizes
  <2>. QED
    BY <2>1, SlotPlus, Indexes, MinusPlus DEF Ring
<1>2. ASSUME NEW j \in 1 .. Typed PROVE Cell(Plus(w, j - 1)) = Ring(Committed + j - 1)
  <2>1. /\ j - 1 \in 0 .. UintSize - 1 /\ j - 1 \in Nat
        /\ Committed \in 0 .. UintSize - 1
        /\ r + Committed + (j - 1) = r + (Committed + j - 1)
    BY Indexes, Sizes
  <2>2. Slot(INPUT_BUF, Plus(w, j - 1)) = Slot(INPUT_BUF, w + (j - 1))
    BY <2>1, SlotPlus, Indexes
  <2>3. w = Plus(r, Committed)
    BY Distance, Indexes DEF Committed
  <2>4. Slot(INPUT_BUF, Plus(r, Committed) + (j - 1)) = Slot(INPUT_BUF, r + Committed + (j - 1))
    BY <2>1, SlotPlus, Indexes
  <2>. QED
    BY <2>1, <2>2, <2>3, <2>4, MinusPlus DEF Ring
<1>. QED
  BY <1>1, <1>2 DEF Cells, Committed, Typed

\* The same after a step.
LEMMA CellsNext ==
  TypeOK' => (/\ Cells(r, w) = [j \in 1 .. Committed |-> Ring(j - 1)]
              /\ Cells(w, e) = [j \in 1 .. Typed |-> Ring(Committed + j - 1)])'
  BY CellsAre, PTL

\* Every cell of the ring holds a character.
LEMMA RingType ==
  ASSUME TypeOK, NEW j \in Nat
  PROVE  Ring(j) \in Char
<1>1. r + j \in Nat
  BY Indexes
<1>2. Slot(INPUT_BUF, r + j) \in 0 .. INPUT_BUF - 1
  BY <1>1, SlotType, Sizes
<1>. QED
  BY <1>2 DEF Ring, TypeOK

\* A key is stored after the others and overwrites none of them.
LEMMA Stored ==
  ASSUME TypeOK, Used < INPUT_BUF, NEW c, buf' = [buf EXCEPT ![e % INPUT_BUF] = c], UNCHANGED r
  PROVE  \A j \in 0 .. Used : Ring(j)' = IF j = Used THEN c ELSE Ring(j)
<1>1. Slot(INPUT_BUF, e) = Slot(INPUT_BUF, r + Used)
  <2>1. e = Plus(r, Used) /\ Used \in 0 .. UintSize - 1
    BY Distance, Indexes DEF Used
  <2>. QED
    BY <2>1, SlotPlus, Indexes
<1>2. ASSUME NEW j \in 0 .. Used - 1 PROVE Slot(INPUT_BUF, r + j) # Slot(INPUT_BUF, r + Used)
  <2>1. r + j \in Nat /\ Used - j \in 1 .. INPUT_BUF - 1 /\ (r + j) + (Used - j) = r + Used
    BY Indexes, Sizes
  <2>2. Slot(INPUT_BUF, (r + j) + (Used - j)) # Slot(INPUT_BUF, r + j)
    BY <2>1, SlotApart, Sizes, Zenon
  <2>. QED
    BY <2>1, <2>2
<1>3. r + Used \in Nat /\ \A j \in 0 .. Used - 1 : r + j \in Nat
  BY Indexes
<1>4. /\ buf \in [0 .. INPUT_BUF - 1 -> Char]
      /\ buf' = [buf EXCEPT ![Slot(INPUT_BUF, r + Used)] = c]
  BY <1>1 DEF TypeOK, Slot
<1>5. /\ Slot(INPUT_BUF, r + Used) \in 0 .. INPUT_BUF - 1
      /\ \A j \in 0 .. Used - 1 : Slot(INPUT_BUF, r + j) \in 0 .. INPUT_BUF - 1
  BY <1>3, SlotType, Sizes
<1>6. buf'[Slot(INPUT_BUF, r + Used)] = c
  BY <1>4, <1>5
<1>7. \A j \in 0 .. Used - 1 : buf'[Slot(INPUT_BUF, r + j)] = buf[Slot(INPUT_BUF, r + j)]
  BY <1>2, <1>4, <1>5
<1>8. \A j : Ring(j)' = buf'[Slot(INPUT_BUF, r + j)]
  BY DEF Ring
<1>9. \A j \in 0 .. Used : j = Used \/ j \in 0 .. Used - 1
  BY Indexes
<1>. QED
  BY <1>6, <1>7, <1>8, <1>9 DEF Ring

\* A read moves every cell up by one.
LEMMA Shifted ==
  ASSUME TypeOK, r' = Plus(r, 1), UNCHANGED buf, NEW j \in Nat
  PROVE  Ring(j)' = Ring(j + 1)
<1>1. 1 \in 0 .. UintSize - 1 /\ r + 1 + j = r + (j + 1)
  BY Indexes, Sizes
<1>2. Slot(INPUT_BUF, Plus(r, 1) + j) = Slot(INPUT_BUF, r + 1 + j)
  BY <1>1, SlotPlus, Indexes
<1>3. Ring(j)' = buf[Slot(INPUT_BUF, r' + j)]
  BY DEF Ring
<1>. QED
  BY <1>1, <1>2, <1>3 DEF Ring

\* The assumptions on the names.
LEMMA Names ==
  /\ intr \notin Reader /\ NoProc \notin Reader /\ intr # NoProc
  /\ Counts \subseteq Nat \ {0} /\ NL \in Char /\ EOF \in Char /\ NL # EOF
  BY ConsoleAssumption DEF Char, NL, EOF

\* Steps that leave struct input alone.
LEMMA InputSame ==
  ASSUME LineInv, UNCHANGED inputVars
  PROVE  LineInv'
  BY DEF LineInv, Cells, Cell, inputVars

\* ... or only move e back.
LEMMA Shortened ==
  ASSUME TypeOK, TypeOK', LineInv, Committed' = Committed, Typed' \in 0 .. Typed,
         UNCHANGED <<buf, r>>
  PROVE  LineInv'
<1>1. \A j \in 1 .. Typed : Ring(Committed + j - 1) # NL
  BY CellsAre DEF LineInv, Typed
<1>2. \A j \in 1 .. Typed' : j \in 1 .. Typed
  BY Indexes
<1>3. Cells(w, e)' = [j \in 1 .. Typed' |-> buf[Slot(INPUT_BUF, r + (Committed + j - 1))]]
  BY CellsNext DEF Ring
<1>. QED
  BY <1>1, <1>2, <1>3 DEF LineInv, Typed, Ring

-----------------------------------------------------------------------------
(* The steps *)

\* The step IntrAcquire preserves the invariant.
LEMMA IntrAcquire_Inv ==
  ASSUME IInv, IntrAcquire
  PROVE  IInv'
<1>1. TypeOK'
  BY Names DEF IntrAcquire, IInv, TypeOK, At, Goto, inputVars, readerVars
<1>2. LockInv'
  BY Names DEF IntrAcquire, IInv, LockInv, TypeOK, At, Goto, inputVars, readerVars
<1>3. SleepInv'
  BY Names
     DEF IntrAcquire, IInv, LockInv, SleepInv, NoReaderLeftAsleep, Empty, TypeOK, At, Goto,
         inputVars, readerVars, wakeup
<1>4. LineInv'
  BY InputSame DEF IntrAcquire, IInv
<1>5. OutInv'
  BY Names DEF IntrAcquire, IInv, OutInv, TypeOK, At, Goto, readerVars
<1>. QED
  BY <1>1, <1>2, <1>3, <1>4, <1>5 DEF IInv

\* The step IntrRelease preserves the invariant.
LEMMA IntrRelease_Inv ==
  ASSUME IInv, IntrRelease
  PROVE  IInv'
<1>1. TypeOK'
  BY Names DEF IntrRelease, IInv, TypeOK, At, Goto, inputVars, readerVars
<1>2. LockInv'
  BY Names DEF IntrRelease, IInv, LockInv, TypeOK, At, Goto, inputVars, readerVars
<1>3. SleepInv'
  BY Names
     DEF IntrRelease, IInv, LockInv, SleepInv, NoReaderLeftAsleep, Empty, TypeOK, At, Goto,
         inputVars, readerVars, wakeup
<1>4. LineInv'
  BY InputSame DEF IntrRelease, IInv
<1>5. OutInv'
  BY Names DEF IntrRelease, IInv, OutInv, TypeOK, At, Goto, readerVars
<1>. QED
  BY <1>1, <1>2, <1>3, <1>4, <1>5 DEF IInv

\* The step Backspace preserves the invariant.
LEMMA Backspace_Inv ==
  ASSUME IInv, Backspace
  PROVE  IInv'
<1>. TypeOK /\ LineInv /\ OutInv
  BY DEF IInv
<1>. e # w /\ e' = Minus(e, 1) /\ conslock = intr
     /\ UNCHANGED <<buf, r, w, conslock, pc, n, killed, out, asleep>>
  BY DEF Backspace, Uncommitted, readerVars
<1>. /\ e' \in 0 .. UintSize - 1
     /\ Committed' = Committed /\ Typed' \in 0 .. Typed /\ Used' <= INPUT_BUF /\ Committed <= Used'
  <2>1. 1 \in 0 .. Typed
    BY Indexes
  <2>. QED
    BY <2>1, MovedBack, Indexes, Sizes
<1>1. TypeOK'
  BY DEF TypeOK, Committed, Used
<1>2. LockInv'
  BY DEF IInv, LockInv
<1>3. SleepInv'
  BY DEF IInv, SleepInv, NoReaderLeftAsleep, Empty
<1>4. LineInv'
  BY <1>1, Shortened
<1>5. OutInv'
  BY DEF IInv, OutInv
<1>. QED
  BY <1>1, <1>2, <1>3, <1>4, <1>5 DEF IInv

\* The step KillLine preserves the invariant.
LEMMA KillLine_Inv ==
  ASSUME IInv, KillLine
  PROVE  IInv'
<1>. TypeOK /\ LineInv /\ OutInv
  BY DEF IInv
<1>. PICK k \in 0 .. Typed : e' = Minus(e, k)
  BY DEF KillLine, Typed
<1>. conslock = intr /\ UNCHANGED <<buf, r, w, conslock, pc, n, killed, out, asleep>>
  BY DEF KillLine, readerVars
<1>. /\ e' \in 0 .. UintSize - 1
     /\ Committed' = Committed /\ Typed' \in 0 .. Typed /\ Used' <= INPUT_BUF /\ Committed <= Used'
  BY MovedBack, Indexes, Sizes
<1>1. TypeOK'
  BY DEF TypeOK, Committed, Used
<1>2. LockInv'
  BY DEF IInv, LockInv
<1>3. SleepInv'
  BY DEF IInv, SleepInv, NoReaderLeftAsleep, Empty
<1>4. LineInv'
  BY <1>1, Shortened
<1>5. OutInv'
  BY DEF IInv, OutInv
<1>. QED
  BY <1>1, <1>2, <1>3, <1>4, <1>5 DEF IInv

\* The step Default preserves the invariant.
LEMMA Default_Inv ==
  ASSUME IInv, NEW c \in Char, Default(c)
  PROVE  IInv'
<1>. TypeOK /\ LineInv /\ OutInv
  BY DEF IInv
<1>. PICK commits \in BOOLEAN :
        /\ commits <=> c \in {NL, EOF} \/ Plus(e, 1) = Plus(r, INPUT_BUF)
        /\ w' = IF commits THEN Plus(e, 1) ELSE w
        /\ asleep' = IF commits THEN {} ELSE asleep
  BY DEF Default, wakeup
<1>. /\ conslock = intr /\ Used < INPUT_BUF /\ e' = Plus(e, 1)
     /\ buf' = [buf EXCEPT ![e % INPUT_BUF] = c]
     /\ UNCHANGED <<r, conslock, pc, n, killed, out>>
  BY DEF Default, HasRoom, Used, readerVars
<1>. /\ e' \in 0 .. UintSize - 1 /\ w' \in 0 .. UintSize - 1
     /\ Used' = Used + 1
     /\ commits => Committed' = Used + 1 /\ Typed' = 0
     /\ ~commits => Committed' = Committed /\ Typed' = Typed + 1
  <2>1. /\ Used' = Used + 1 /\ e' \in 0 .. UintSize - 1 /\ w' \in 0 .. UintSize - 1
        /\ w' = e' => Committed' = Used + 1 /\ Typed' = 0
        /\ w' = w => Committed' = Committed /\ Typed' = Typed + 1
    BY MovedOn
  <2>. QED
    BY <2>1
<1>1. TypeOK'
  <2>1. buf' \in [0 .. INPUT_BUF - 1 -> Char]
    BY DEF TypeOK
  <2>2. Committed' <= Used' /\ Used' <= INPUT_BUF
    BY Indexes, Sizes
  <2>3. asleep' \subseteq Reader
    BY DEF TypeOK
  <2>. QED
    BY <2>1, <2>2, <2>3 DEF TypeOK, Committed, Used
<1>2. LockInv'
  BY DEF IInv, LockInv
<1>3. SleepInv'
  <2>1. \A q \in Reader : pc[q] # "sleep"
    BY Names DEF IInv, LockInv
  <2>2. \A q \in asleep' : pc'[q] = "woken"
    BY DEF IInv, SleepInv
  <2>3. NoReaderLeftAsleep'
    BY DEF IInv, SleepInv, NoReaderLeftAsleep, Empty
  <2>. QED
    BY <2>1, <2>2, <2>3 DEF SleepInv
<1>4. LineInv'
  <2>1. CASE commits
    BY <2>1 DEF LineInv, Typed
  <2>2. CASE ~commits
    <3>1. \A j \in 0 .. Used : Ring(j)' = IF j = Used THEN c ELSE Ring(j)
      BY Stored
    <3>2. ASSUME NEW j \in 1 .. Typed + 1 PROVE Cells(w, e)'[j] # NL
      <4>1. Committed + j - 1 \in 0 .. Used /\ (Committed + j - 1 = Used <=> j = Typed + 1)
        BY Indexes
      <4>2. Cells(w, e)'[j] = buf'[Slot(INPUT_BUF, r + (Committed + j - 1))]
        BY <1>1, <2>2, CellsNext DEF Ring
      <4>3. Cells(w, e)'[j] = IF j = Typed + 1 THEN c ELSE Ring(Committed + j - 1)
        BY <3>1, <4>1, <4>2 DEF Ring
      <4>4. j # Typed + 1 => Ring(Committed + j - 1) # NL
        <5>1. j # Typed + 1 => j \in 1 .. Typed
          BY Indexes
        <5>2. \A i \in 1 .. Typed : Ring(Committed + i - 1) # NL
          BY CellsAre DEF LineInv, Typed
        <5>. QED
          BY <5>1, <5>2
      <4>. QED
        BY <2>2, <4>3, <4>4
    <3>. QED
      BY <2>2, <3>2 DEF LineInv, Typed
  <2>. QED
    BY <2>1, <2>2
<1>5. OutInv'
  BY DEF IInv, OutInv
<1>. QED
  BY <1>1, <1>2, <1>3, <1>4, <1>5 DEF IInv

\* The step Call preserves the invariant.
LEMMA Call_Inv ==
  ASSUME IInv, NEW p \in Reader, NEW k \in Counts, Call(p, k)
  PROVE  IInv'
<1>1. TypeOK'
  BY Names DEF Call, IInv, TypeOK, At, Goto, inputVars, readerVars
<1>2. LockInv'
  BY Names DEF Call, IInv, LockInv, TypeOK, At, Goto, inputVars, readerVars
<1>3. SleepInv'
  BY Names
     DEF Call, IInv, LockInv, SleepInv, NoReaderLeftAsleep, Empty, TypeOK, At, Goto,
         inputVars, readerVars, wakeup
<1>4. LineInv'
  BY InputSame DEF Call, IInv
<1>5. OutInv'
  BY Names DEF Call, IInv, OutInv, TypeOK, At, Goto, readerVars
<1>. QED
  BY <1>1, <1>2, <1>3, <1>4, <1>5 DEF IInv

\* The step Acquire preserves the invariant.
LEMMA Acquire_Inv ==
  ASSUME IInv, NEW p \in Reader, Acquire(p)
  PROVE  IInv'
<1>1. TypeOK'
  BY Names DEF Acquire, IInv, TypeOK, At, Goto, inputVars, readerVars
<1>2. LockInv'
  BY Names DEF Acquire, IInv, LockInv, TypeOK, At, Goto, inputVars, readerVars
<1>3. SleepInv'
  BY Names
     DEF Acquire, IInv, LockInv, SleepInv, NoReaderLeftAsleep, Empty, TypeOK, At, Goto,
         inputVars, readerVars, wakeup
<1>4. LineInv'
  BY InputSame DEF Acquire, IInv
<1>5. OutInv'
  BY Names DEF Acquire, IInv, OutInv, TypeOK, At, Goto, readerVars
<1>. QED
  BY <1>1, <1>2, <1>3, <1>4, <1>5 DEF IInv

\* The step Wait preserves the invariant.
LEMMA Wait_Inv ==
  ASSUME IInv, NEW p \in Reader, Wait(p)
  PROVE  IInv'
<1>1. TypeOK'
  BY Names DEF Wait, IInv, TypeOK, At, Goto, inputVars, readerVars
<1>2. LockInv'
  BY Names DEF Wait, IInv, LockInv, TypeOK, At, Goto, inputVars, readerVars
<1>3. SleepInv'
  BY Names
     DEF Wait, IInv, LockInv, SleepInv, NoReaderLeftAsleep, Empty, TypeOK, At, Goto,
         inputVars, readerVars, wakeup
<1>4. LineInv'
  BY InputSame DEF Wait, IInv
<1>5. OutInv'
  BY Names DEF Wait, IInv, OutInv, TypeOK, At, Goto, readerVars
<1>. QED
  BY <1>1, <1>2, <1>3, <1>4, <1>5 DEF IInv

\* The step Sleep preserves the invariant.
LEMMA Sleep_Inv ==
  ASSUME IInv, NEW p \in Reader, Sleep(p)
  PROVE  IInv'
<1>1. TypeOK'
  BY Names DEF Sleep, IInv, TypeOK, At, Goto, inputVars, readerVars
<1>2. LockInv'
  BY Names DEF Sleep, IInv, LockInv, TypeOK, At, Goto, inputVars, readerVars
<1>3. SleepInv'
  BY Names
     DEF Sleep, IInv, LockInv, SleepInv, NoReaderLeftAsleep, Empty, TypeOK, At, Goto,
         inputVars, readerVars, wakeup
<1>4. LineInv'
  BY InputSame DEF Sleep, IInv
<1>5. OutInv'
  BY Names DEF Sleep, IInv, OutInv, TypeOK, At, Goto, readerVars
<1>. QED
  BY <1>1, <1>2, <1>3, <1>4, <1>5 DEF IInv

\* The step ReadByte preserves the invariant.
LEMMA ReadByte_Inv ==
  ASSUME IInv, NEW p \in Reader, ReadByte(p)
  PROVE  IInv'
<1>. TypeOK /\ LineInv /\ OutInv
  BY DEF IInv
<1>. /\ pc[p] = "loop" /\ n[p] > 0 /\ ~Empty
     /\ r' = Plus(r, 1)
     /\ out' = [out EXCEPT ![p] = Append(@, Cell(r))]
     /\ n' = [n EXCEPT ![p] = IF Cell(r) = NL THEN 0 ELSE @ - 1]
     /\ UNCHANGED <<buf, w, e, conslock, pc, asleep, killed>>
  BY DEF ReadByte, At
<1>. /\ r' \in 0 .. UintSize - 1
     /\ Committed > 0 /\ Committed' = Committed - 1 /\ Typed' = Typed /\ Used' = Used - 1
  BY MovedUp
<1>. Cell(r) \in Char
  <2>1. Slot(INPUT_BUF, r) \in 0 .. INPUT_BUF - 1
    BY SlotType, Indexes, Sizes
  <2>. QED
    BY <2>1, MinusPlus DEF TypeOK
<1>1. TypeOK'
  <2>1. Committed' <= Used' /\ Used' <= INPUT_BUF
    BY Indexes, Sizes
  <2>2. n' \in [Reader -> Nat]
    BY DEF TypeOK
  <2>3. out' \in [Reader -> Seq(Char)]
    BY DEF TypeOK
  <2>. QED
    BY <2>1, <2>2, <2>3 DEF TypeOK, Committed, Used
<1>2. LockInv'
  BY DEF IInv, LockInv
<1>3. SleepInv'
  <2>1. asleep = {}
    BY DEF IInv, SleepInv, NoReaderLeftAsleep
  <2>2. \A q \in Reader : pc[q] # "sleep"
    BY DEF IInv, SleepInv
  <2>. QED
    BY <2>1, <2>2 DEF SleepInv, NoReaderLeftAsleep
<1>4. LineInv'
  BY DEF LineInv, Cells, Cell
<1>5. OutInv'
  BY Names DEF ReadByte, IInv, OutInv, TypeOK, At, Goto, readerVars
<1>. QED
  BY <1>1, <1>2, <1>3, <1>4, <1>5 DEF IInv

\* The step ReadEof preserves the invariant.
LEMMA ReadEof_Inv ==
  ASSUME IInv, NEW p \in Reader, ReadEof(p)
  PROVE  IInv'
<1>. TypeOK /\ LineInv /\ OutInv
  BY DEF IInv
<1>. /\ pc[p] = "loop" /\ n[p] > 0 /\ ~Empty
     /\ r' = r \/ r' = Plus(r, 1)
     /\ n' = [n EXCEPT ![p] = 0]
     /\ UNCHANGED <<buf, w, e, conslock, pc, asleep, killed, out>>
  BY DEF ReadEof, AfterEof, At
<1>1. TypeOK'
  <2>1. n' \in [Reader -> Nat]
    BY DEF TypeOK
  <2>2. CASE r' = r
    BY <2>1, <2>2 DEF TypeOK
  <2>3. CASE r' = Plus(r, 1)
    <3>1. /\ r' \in 0 .. UintSize - 1
          /\ Committed > 0 /\ Committed' = Committed - 1 /\ Used' = Used - 1
      BY <2>3, MovedUp
    <3>2. Committed' <= Used' /\ Used' <= INPUT_BUF
      BY <3>1, Indexes, Sizes
    <3>. QED
      BY <2>1, <3>1, <3>2 DEF TypeOK, Committed, Used
  <2>. QED
    BY <2>2, <2>3
<1>2. LockInv'
  BY DEF IInv, LockInv
<1>3. SleepInv'
  <2>1. asleep = {}
    BY DEF IInv, SleepInv, NoReaderLeftAsleep
  <2>2. \A q \in Reader : pc[q] # "sleep"
    BY DEF IInv, SleepInv
  <2>. QED
    BY <2>1, <2>2 DEF SleepInv, NoReaderLeftAsleep
<1>4. LineInv'
  BY DEF LineInv, Cells, Cell
<1>5. OutInv'
  BY Names DEF ReadEof, IInv, OutInv, TypeOK, At, Goto, readerVars
<1>. QED
  BY <1>1, <1>2, <1>3, <1>4, <1>5 DEF IInv

\* The step Return preserves the invariant.
LEMMA Return_Inv ==
  ASSUME IInv, NEW p \in Reader, Return(p)
  PROVE  IInv'
<1>1. TypeOK'
  BY Names DEF Return, IInv, TypeOK, At, Goto, inputVars, readerVars
<1>2. LockInv'
  BY Names DEF Return, IInv, LockInv, TypeOK, At, Goto, inputVars, readerVars
<1>3. SleepInv'
  BY Names
     DEF Return, IInv, LockInv, SleepInv, NoReaderLeftAsleep, Empty, TypeOK, At, Goto,
         inputVars, readerVars, wakeup
<1>4. LineInv'
  BY InputSame DEF Return, IInv
<1>5. OutInv'
  BY Names DEF Return, IInv, OutInv, TypeOK, At, Goto, readerVars
<1>. QED
  BY <1>1, <1>2, <1>3, <1>4, <1>5 DEF IInv

\* The step Kill preserves the invariant.
LEMMA Kill_Inv ==
  ASSUME IInv, NEW p \in Reader, Kill(p)
  PROVE  IInv'
<1>1. TypeOK'
  BY Names DEF Kill, IInv, TypeOK, At, Goto, inputVars, readerVars
<1>2. LockInv'
  BY Names DEF Kill, IInv, LockInv, TypeOK, At, Goto, inputVars, readerVars
<1>3. SleepInv'
  BY Names
     DEF Kill, IInv, LockInv, SleepInv, NoReaderLeftAsleep, Empty, TypeOK, At, Goto,
         inputVars, readerVars, wakeup
<1>4. LineInv'
  BY InputSame DEF Kill, IInv
<1>5. OutInv'
  BY Names DEF Kill, IInv, OutInv, TypeOK, At, Goto, readerVars
<1>. QED
  BY <1>1, <1>2, <1>3, <1>4, <1>5 DEF IInv

-----------------------------------------------------------------------------
(* The invariant holds *)

\* It holds initially.
LEMMA Init_Inv == Init => IInv
<1>. SUFFICES ASSUME Init PROVE IInv
  OBVIOUS
<1>1. Minus(0, 0) = 0 /\ 0 \in 0 .. UintSize - 1
  <2>1. 0 \in 0 .. UintSize - 1
    BY Sizes
  <2>. QED
    BY <2>1, Distance
<1>2. TypeOK
  BY <1>1, Sizes, Names DEF Init, TypeOK
<1>3. LockInv /\ SleepInv /\ OutInv
  BY Names DEF Init, LockInv, SleepInv, OutInv, NoReaderLeftAsleep
<1>4. LineInv
  BY <1>1 DEF Init, LineInv
<1>. QED
  BY <1>2, <1>3, <1>4 DEF IInv

\* Every step preserves it.
LEMMA Next_Inv == IInv /\ [Next]_vars => IInv'
<1>. SUFFICES ASSUME IInv, [Next]_vars PROVE IInv'
  OBVIOUS
<1>1. CASE IntrAcquire \/ IntrRelease
  BY <1>1, IntrAcquire_Inv, IntrRelease_Inv
<1>2. ASSUME NEW k \in Key, Press(k) PROVE IInv'
  BY <1>2, Backspace_Inv, KillLine_Inv, Default_Inv DEF Press
<1>3. ASSUME NEW p \in Reader, (\E k \in Counts : Call(p, k)) \/ Read(p) \/ Kill(p) PROVE IInv'
  BY <1>3, Call_Inv, Acquire_Inv, Wait_Inv, Sleep_Inv, ReadByte_Inv, ReadEof_Inv,
     Return_Inv,
     Kill_Inv DEF Read
<1>4. CASE UNCHANGED vars
  <2>1. TypeOK' /\ LockInv' /\ SleepInv' /\ OutInv'
    BY <1>4
       DEF vars, inputVars, IInv, TypeOK, LockInv, SleepInv, OutInv, NoReaderLeftAsleep,
           Empty
  <2>2. LineInv'
    BY <1>4, InputSame DEF vars, IInv
  <2>. QED
    BY <2>1, <2>2 DEF IInv
<1>. QED
  BY <1>1, <1>2, <1>3, <1>4 DEF Next

\* The inductive invariant is one: every reachable state satisfies it.
THEOREM Invariance == Spec => []IInv
  BY Init_Inv, Next_Inv, PTL DEF Spec

\* The indexes r, w and e stay in order across the wraparound of the counters
\* and never span more than the ring, so that nothing committed is overwritten.
THEOREM TypeCorrect == Spec => []TypeOK
<1>1. IInv => TypeOK
  BY DEF IInv
<1>. QED
  BY <1>1, Invariance, PTL

\* consoleintr() wakes the readers for every committed line and consoleread()
\* goes to sleep only with cons.lock held: no reader sleeps beside input.
THEOREM ReadersAwake == Spec => []NoReaderLeftAsleep
<1>1. IInv => NoReaderLeftAsleep
  BY DEF IInv, SleepInv
<1>. QED
  BY <1>1, Invariance, PTL

-----------------------------------------------------------------------------
(* The console implements LineBuffer *)

\* What is committed and what is being edited, as sequences.
Parts ==
  /\ Cells(r, w) \in Seq(Char) /\ Len(Cells(r, w)) = Committed
  /\ Cells(w, e) \in Seq(Char) /\ Len(Cells(w, e)) = Typed

\* They are sequences of characters.
LEMMA PartsAre == TypeOK => Parts
<1>. SUFFICES ASSUME TypeOK PROVE Parts
  OBVIOUS
<1>1. Committed \in Nat /\ Typed \in Nat
  BY Indexes
<1>2. /\ \A j \in 1 .. Committed : Ring(j - 1) \in Char
      /\ \A j \in 1 .. Typed : Ring(Committed + j - 1) \in Char
  BY <1>1, RingType
<1>3. Cells(r, w) \in [1 .. Committed -> Char] /\ Cells(w, e) \in [1 .. Typed -> Char]
  BY <1>2, CellsAre
<1>. QED
  BY <1>1, <1>3 DEF Parts

\* The same after a step.
LEMMA PartsNext == TypeOK' => Parts'
  BY PartsAre, PTL

\* A key is typed: it is appended to the line, which it may finish.
LEMMA Type_Step ==
  ASSUME IInv, IInv', NEW c \in Char, Default(c)
  PROVE  Lines!Type(c)
<1>. PICK commits \in BOOLEAN :
        /\ commits <=> c \in {NL, EOF} \/ Plus(e, 1) = Plus(r, INPUT_BUF)
        /\ w' = IF commits THEN Plus(e, 1) ELSE w
  BY DEF Default
<1>. /\ Used < INPUT_BUF /\ e' = Plus(e, 1) /\ buf' = [buf EXCEPT ![e % INPUT_BUF] = c]
     /\ UNCHANGED <<r, out>>
  BY DEF Default, HasRoom, Used, readerVars
<1>. TypeOK /\ TypeOK' /\ Parts /\ Parts'
  BY PartsAre, PartsNext DEF IInv
<1>. DEFINE line == Cells(w, e)
            queue == Cells(r, w)
            typed == Append(line, c)
<1>1. /\ Used' = Used + 1
      /\ commits => Committed' = Used + 1 /\ Typed' = 0
      /\ ~commits => Committed' = Committed /\ Typed' = Typed + 1
  BY MovedOn
<1>2. commits <=> c \in {NL, EOF} \/ Used + 1 = INPUT_BUF
  <2>1. e' \in 0 .. UintSize - 1 /\ Minus(e', r) = Used + 1
    BY <1>1, Indexes, Distance DEF Used
  <2>2. Minus(e', r) = INPUT_BUF <=> e' = Plus(r, INPUT_BUF)
    BY <2>1, Indexes, Distance
  <2>. QED
    BY <2>1, <2>2
<1>3. \A j \in 0 .. Used : Ring(j)' = IF j = Used THEN c ELSE Ring(j)
  BY Stored
<1>4. /\ typed \in Seq(Char) /\ Len(typed) = Typed + 1
      /\ \A j \in 1 .. Typed : typed[j] = line[j]
      /\ typed[Typed + 1] = c
  BY AppendProperties DEF Parts
<1>5. ASSUME NEW j \in 1 .. Typed + 1
      PROVE  typed[j] = buf'[Slot(INPUT_BUF, r + (Committed + j - 1))]
  <2>1. Committed + j - 1 \in 0 .. Used /\ (Committed + j - 1 = Used <=> j = Typed + 1)
    BY Indexes
  <2>2. buf'[Slot(INPUT_BUF, r + (Committed + j - 1))] =
          IF j = Typed + 1 THEN c ELSE Ring(Committed + j - 1)
    BY <1>3, <2>1 DEF Ring
  <2>3. j # Typed + 1 => j \in 1 .. Typed /\ line[j] = Ring(Committed + j - 1)
    BY CellsAre, Indexes
  <2>. QED
    BY <1>4, <2>2, <2>3
<1>6. ASSUME NEW j \in 1 .. Committed
      PROVE  queue[j] = buf'[Slot(INPUT_BUF, r + (j - 1))]
  <2>1. j - 1 \in 0 .. Used /\ j - 1 # Used
    BY Indexes
  <2>2. queue[j] = Ring(j - 1)
    BY CellsAre
  <2>. QED
    BY <1>3, <2>1, <2>2 DEF Ring
<1>7. Len(typed) + Len(queue) = Used + 1 /\ Len(line) + Len(queue) = Used
  BY <1>4, Indexes DEF Parts
<1>8. /\ Len(line) + Len(queue) # INPUT_BUF
      /\ commits <=> c \in {NL, EOF} \/ Len(typed) + Len(queue) = INPUT_BUF
  BY <1>2, <1>7, Indexes, Sizes
<1>9. CASE ~commits
  <2>1. Cells(w, e)' = typed
    <3>1. ASSUME NEW j \in 1 .. Typed + 1 PROVE Cells(w, e)'[j] = typed[j]
      <4>1. Cells(w, e)'[j] = buf'[Slot(INPUT_BUF, r + (Committed + j - 1))]
        BY <1>1, <1>9, CellsNext DEF Ring
      <4>. QED
        BY <1>5, <4>1
    <3>2. Cells(w, e)' \in Seq(Char) /\ Len(Cells(w, e)') = Typed + 1
      BY <1>1, <1>9 DEF Parts
    <3>. QED
      BY <1>4, <3>1, <3>2, SeqEqual
  <2>2. Cells(r, w)' = queue
    <3>1. ASSUME NEW j \in 1 .. Committed PROVE Cells(r, w)'[j] = queue[j]
      <4>1. Cells(r, w)'[j] = buf'[Slot(INPUT_BUF, r + (j - 1))]
        BY <1>1, <1>9, CellsNext DEF Ring
      <4>. QED
        BY <1>6, <4>1
    <3>2. /\ Cells(r, w)' \in Seq(Char) /\ Len(Cells(r, w)') = Committed
          /\ queue \in Seq(Char) /\ Len(queue) = Committed
      BY <1>1, <1>9 DEF Parts
    <3>. QED
      BY <3>1, <3>2, SeqEqual
  <2>. QED
    BY <1>8, <1>9, <2>1, <2>2 DEF Lines!Type, Lines!Full
<1>10. CASE commits
  <2>1. Cells(w, e)' = <<>>
    BY <1>1, <1>10 DEF Parts
  <2>2. Cells(r, w)' = queue \o typed
    <3>1. /\ queue \o typed \in Seq(Char) /\ Len(queue \o typed) = Used + 1
          /\ \A j \in 1 .. Used + 1 :
               (queue \o typed)[j] = IF j <= Committed THEN queue[j] ELSE typed[j - Committed]
      <4>1. queue \in Seq(Char) /\ Len(queue) = Committed /\ Used + 1 = Committed + (Typed + 1)
        BY Indexes DEF Parts
      <4>. HIDE DEF queue, typed
      <4>2. /\ queue \o typed \in Seq(Char) /\ Len(queue \o typed) = Len(queue) + Len(typed)
            /\ \A j \in 1 .. Len(queue) + Len(typed) :
                 (queue \o typed)[j] =
                   IF j <= Len(queue) THEN queue[j] ELSE typed[j - Len(queue)]
        <5>1. queue \in Seq(Char) /\ typed \in Seq(Char)
          BY <1>4, <4>1
        <5>. QED
          BY <5>1, ConcatProperties, Zenon
      <4>. QED
        BY <1>4, <4>1, <4>2
    <3>2. ASSUME NEW j \in 1 .. Used + 1 PROVE Cells(r, w)'[j] = (queue \o typed)[j]
      <4>1. Cells(r, w)'[j] = buf'[Slot(INPUT_BUF, r + (j - 1))]
        BY <1>1, <1>10, CellsNext DEF Ring
      <4>. HIDE DEF queue, typed
      <4>2. CASE j <= Committed
        <5>1. j \in 1 .. Committed
          BY <4>2, Indexes
        <5>. QED
          BY <1>6, <3>1, <4>1, <4>2, <5>1
      <4>3. CASE j > Committed
        <5>1. /\ j - Committed \in 1 .. Typed + 1 /\ Committed + (j - Committed) - 1 = j - 1
              /\ ~(j <= Committed)
          BY <4>3, Indexes
        <5>2. typed[j - Committed] = buf'[Slot(INPUT_BUF, r + (Committed + (j - Committed) - 1))]
          BY <1>5, <5>1
        <5>. QED
          BY <3>1, <4>1, <5>1, <5>2
      <4>. QED
        <5>1. j <= Committed \/ j > Committed
          BY Indexes
        <5>. QED
          BY <4>2, <4>3, <5>1
    <3>3. Cells(r, w)' \in Seq(Char) /\ Len(Cells(r, w)') = Used + 1
      BY <1>1, <1>10 DEF Parts
    <3>. QED
      BY <3>1, <3>2, <3>3, SeqEqual
  <2>. QED
    BY <1>8, <1>10, <2>1, <2>2 DEF Lines!Type, Lines!Full
<1>. QED
  BY <1>9, <1>10

\* ^H rubs out the last character of the line.
LEMMA Backspace_Step ==
  ASSUME IInv, IInv', Backspace
  PROVE  Lines!Erase
<1>. e # w /\ e' = Minus(e, 1) /\ UNCHANGED <<buf, r, w, out>>
  BY DEF Backspace, Uncommitted, readerVars
<1>. TypeOK /\ TypeOK' /\ Parts /\ Parts'
  BY PartsAre, PartsNext DEF IInv
<1>. DEFINE line == Cells(w, e)
<1>1. 1 \in 0 .. Typed /\ Typed > 0 /\ Typed - 1 \in Nat
  BY Indexes
<1>2. Committed' = Committed /\ Typed' = Typed - 1
  BY <1>1, MovedBack
<1>3. line \in Seq(Char) /\ Len(line) = Typed
  BY DEF Parts
<1>4. /\ SubSeq(line, 1, Typed - 1) \in Seq(Char) /\ Len(SubSeq(line, 1, Typed - 1)) = Typed - 1
      /\ \A j \in 1 .. Typed - 1 : SubSeq(line, 1, Typed - 1)[j] = line[j]
  <2>. HIDE DEF line
  <2>. QED
    BY <1>1, <1>3
<1>5. ASSUME NEW j \in 1 .. Typed - 1 PROVE line'[j] = line[j]
  <2>1. j \in 1 .. Typed
    BY Indexes
  <2>2. line'[j] = buf[Slot(INPUT_BUF, r + (Committed + j - 1))]
    BY <1>2, CellsNext DEF Ring
  <2>3. line[j] = Ring(Committed + j - 1)
    BY <2>1, CellsAre
  <2>. QED
    BY <2>2, <2>3 DEF Ring
<1>6. line' = SubSeq(line, 1, Typed - 1)
  <2>1. line' \in Seq(Char) /\ Len(line') = Typed - 1
    BY <1>2 DEF Parts
  <2>. QED
    BY <1>4, <1>5, <2>1, SeqEqual
<1>7. Cells(r, w)' = Cells(r, w)
  BY DEF Cells, Cell
<1>8. line # <<>>
  BY <1>1, <1>3
<1>. QED
  BY <1>3, <1>6, <1>7, <1>8 DEF Lines!Erase, Lines!Front

\* The cell k places back from the last one typed, if it has not been committed.
LEMMA TypedBack ==
  ASSUME TypeOK, NEW k \in 0 .. Typed - 1
  PROVE  Typed - k \in 1 .. Typed /\ Cell(Minus(Minus(e, 1), k)) = Cells(w, e)[Typed - k]
<1>. DEFINE x == Ahead(UintSize, e, 1)
<1>1. /\ Ahead(UintSize, w, r) = Committed /\ Ahead(UintSize, e, r) = Used
      /\ Ahead(UintSize, e, w) = Typed
      /\ Minus(Minus(e, 1), k) = Ahead(UintSize, x, k)
      /\ \A d : Plus(w, d) = Advance(UintSize, w, d)
  BY MinusPlus DEF Committed, Used, Typed
<1>2. 1 \in 0 .. Typed /\ Committed <= Used /\ Committed <= Used - 1
  BY Indexes
<1>3. /\ x \in 0 .. UintSize - 1 /\ Ahead(UintSize, x, w) = Typed - 1
      /\ Ahead(UintSize, x, r) = Used - 1
  BY <1>1, <1>2, ThreeCounters, Indexes, Sizes
<1>4. Ahead(UintSize, x, k) = Advance(UintSize, w, (Typed - 1) - k)
  <2>. HIDE DEF x
  <2>1. Ahead(UintSize, w, r) <= Ahead(UintSize, x, r) /\ k \in 0 .. Ahead(UintSize, x, w)
    BY <1>1, <1>2, <1>3
  <2>. QED
    BY <1>3, <2>1, ThreeCounters, Indexes, Sizes
<1>5. Typed - k \in 1 .. Typed /\ (Typed - 1) - k = (Typed - k) - 1
  BY Indexes
<1>6. Cells(w, e)[Typed - k] = Cell(Plus(w, (Typed - k) - 1))
  BY <1>5 DEF Cells, Typed
<1>. QED
  BY <1>1, <1>4, <1>5, <1>6

\* ^U rubs out the whole line, which holds no newline to stop at.
LEMMA KillLine_Step ==
  ASSUME IInv, IInv', KillLine
  PROVE  Lines!Erase \/ UNCHANGED Lines!vars
<1>. TypeOK /\ TypeOK' /\ Parts /\ Parts' /\ LineInv
  BY PartsAre, PartsNext DEF IInv
<1>. UNCHANGED <<buf, r, w, out>>
  BY DEF KillLine, readerVars
<1>. PICK k \in 0 .. Typed :
       /\ e' = Minus(e, k)
       /\ k = Typed \/ Cell(Minus(Minus(e, 1), k)) = NL
  BY DEF KillLine, Typed
<1>1. k = Typed
  <2>. SUFFICES ASSUME k # Typed PROVE FALSE
    OBVIOUS
  <2>1. k \in 0 .. Typed - 1
    BY Indexes
  <2>2. Cells(w, e)[Typed - k] # NL
    BY <2>1, TypedBack DEF LineInv, Typed
  <2>. QED
    BY <2>1, <2>2, TypedBack
<1>2. Typed' = 0
  BY <1>1, MovedBack, Indexes
<1>3. Cells(w, e)' = <<>>
  BY <1>2 DEF Parts
<1>4. Cells(r, w)' = Cells(r, w)
  BY DEF Cells, Cell
<1>5. CASE Cells(w, e) = <<>>
  BY <1>3, <1>4, <1>5 DEF Lines!vars
<1>6. CASE Cells(w, e) # <<>>
  BY <1>3, <1>4, <1>6 DEF Lines!Erase
<1>. QED
  BY <1>5, <1>6

\* A cell is read: it was the head of what is committed.
LEMMA Taken ==
  ASSUME IInv, IInv', ~Empty, r' = Plus(r, 1), UNCHANGED <<buf, w, e>>
  PROVE  /\ Cells(r, w) # <<>> /\ Head(Cells(r, w)) = Cell(r)
         /\ Cells(r, w)' = Tail(Cells(r, w)) /\ Cells(w, e)' = Cells(w, e)
<1>. TypeOK /\ TypeOK' /\ Parts /\ Parts'
  BY PartsAre, PartsNext DEF IInv
<1>. DEFINE queue == Cells(r, w)
<1>1. Committed > 0 /\ Committed' = Committed - 1
  BY MovedUp
<1>2. queue \in Seq(Char) /\ Len(queue) = Committed /\ Committed \in Nat
  BY Indexes DEF Parts
<1>3. queue # <<>>
  BY <1>1, <1>2
<1>4. queue[1] = Cell(r)
  <2>1. 1 \in 1 .. Committed /\ r + (1 - 1) = r
    BY <1>1, Indexes
  <2>. QED
    BY <2>1, CellsAre, MinusPlus DEF Ring
<1>5. ASSUME NEW j \in 1 .. Committed - 1 PROVE queue'[j] = queue[j + 1]
  <2>1. j + 1 \in 1 .. Committed /\ (j - 1) + 1 = (j + 1) - 1 /\ j - 1 \in Nat
    BY <1>2
  <2>2. Ring(j - 1)' = Ring((j - 1) + 1)
    <3>1. \A i \in Nat : Ring(i)' = Ring(i + 1)
      BY Shifted
    <3>. QED
      BY <2>1, <3>1
  <2>3. queue'[j] = Ring(j - 1)'
    BY <1>1, CellsNext
  <2>4. queue[j + 1] = Ring((j + 1) - 1)
    BY <2>1, CellsAre
  <2>. QED
    BY <2>1, <2>2, <2>3, <2>4
<1>6. /\ Tail(queue) \in Seq(Char) /\ Len(Tail(queue)) = Committed - 1
      /\ \A j \in 1 .. Committed - 1 : Tail(queue)[j] = queue[j + 1]
      /\ Head(queue) = queue[1]
  <2>. HIDE DEF queue
  <2>. QED
    BY <1>1, <1>2, <1>3
<1>7. queue' = Tail(queue)
  <2>1. queue' \in Seq(Char) /\ Len(queue') = Committed - 1
    BY <1>1 DEF Parts
  <2>. QED
    BY <1>5, <1>6, <2>1, SeqEqual
<1>8. Cells(w, e)' = Cells(w, e)
  BY DEF Cells, Cell
<1>. QED
  BY <1>3, <1>4, <1>6, <1>7, <1>8

\* consoleread() copies a byte.
LEMMA ReadByte_Step ==
  ASSUME IInv, IInv', NEW p \in Reader, ReadByte(p)
  PROVE  Lines!Take(p)
<1>. /\ n[p] > 0 /\ ~Empty /\ Cell(r) # EOF /\ r' = Plus(r, 1)
     /\ out' = [out EXCEPT ![p] = Append(@, Cell(r))]
     /\ UNCHANGED <<buf, w, e>>
  BY DEF ReadByte
<1>1. /\ Cells(r, w) # <<>> /\ Head(Cells(r, w)) = Cell(r)
      /\ Cells(r, w)' = Tail(Cells(r, w)) /\ Cells(w, e)' = Cells(w, e)
  BY Taken
<1>2. out[p] # <<>> => out[p][Len(out[p])] # NL
  <2>1. out[p] \in Seq(Char)
    BY DEF IInv, TypeOK
  <2>2. out[p] # <<>> => Len(out[p]) \in 1 .. Len(out[p])
    BY <2>1, EmptySeq
  <2>. QED
    BY <2>2 DEF IInv, OutInv
<1>. QED
  BY <1>1, <1>2 DEF Lines!Take, Lines!Last

\* consoleread() meets an end of file, and takes it or leaves it to another.
LEMMA ReadEof_Step ==
  ASSUME IInv, IInv', NEW p \in Reader, ReadEof(p)
  PROVE  Lines!TakeEof(p) \/ UNCHANGED Lines!vars
<1>. ~Empty /\ Cell(r) = EOF /\ r' = AfterEof(p) /\ UNCHANGED <<buf, w, e, out>>
  BY DEF ReadEof
<1>1. CASE out[p] = <<>>
  <2>1. r' = Plus(r, 1)
    BY <1>1 DEF AfterEof
  <2>2. /\ Cells(r, w) # <<>> /\ Head(Cells(r, w)) = Cell(r)
        /\ Cells(r, w)' = Tail(Cells(r, w)) /\ Cells(w, e)' = Cells(w, e)
    BY <2>1, Taken
  <2>. QED
    BY <1>1, <2>2 DEF Lines!TakeEof
<1>2. CASE out[p] # <<>>
  <2>1. r' = r
    BY <1>2 DEF AfterEof
  <2>. QED
    BY <2>1 DEF Lines!vars, Cells, Cell
<1>. QED
  BY <1>1, <1>2

\* Every step of the console is a step of LineBuffer, or none.
LEMMA Step_Refines == IInv /\ IInv' /\ [Next]_vars => [Lines!Next]_(Lines!vars)
<1>. SUFFICES ASSUME IInv, IInv', [Next]_vars PROVE Lines!Next \/ UNCHANGED Lines!vars
  OBVIOUS
<1>1. ASSUME UNCHANGED <<buf, r, w, e, out>> PROVE UNCHANGED Lines!vars
  BY <1>1 DEF Lines!vars, Cells, Cell
<1>2. CASE IntrAcquire \/ IntrRelease \/ UNCHANGED vars
  BY <1>1, <1>2 DEF IntrAcquire, IntrRelease, vars, inputVars, readerVars
<1>3. ASSUME NEW k \in Key, Press(k) PROVE Lines!Next \/ UNCHANGED Lines!vars
  BY <1>3, Backspace_Step, KillLine_Step, Type_Step DEF Press, Lines!Next
<1>4. ASSUME NEW p \in Reader, (\E k \in Counts : Call(p, k)) \/ Return(p)
      PROVE  Lines!Next
  <2>1. out' = [out EXCEPT ![p] = <<>>] /\ UNCHANGED <<buf, r, w, e>>
    BY <1>4 DEF Call, Return, inputVars
  <2>2. Lines!Call(p)
    BY <2>1 DEF Lines!Call, Cells, Cell
  <2>. QED
    BY <2>2 DEF Lines!Next
<1>5. ASSUME NEW p \in Reader, Acquire(p) \/ Wait(p) \/ Sleep(p) \/ Kill(p)
      PROVE  UNCHANGED Lines!vars
  BY <1>1, <1>5 DEF Acquire, Wait, Sleep, Kill, inputVars
<1>6. ASSUME NEW p \in Reader, ReadByte(p) \/ ReadEof(p)
      PROVE  Lines!Next \/ UNCHANGED Lines!vars
  BY <1>6, ReadByte_Step, ReadEof_Step DEF Lines!Next
<1>. QED
  BY <1>2, <1>3, <1>4, <1>5, <1>6 DEF Next, Read

\* console.c implements LineBuffer: only what is not committed can be edited,
\* and what is committed is read once, in order, up to a newline or a ^D.
THEOREM Refinement == Spec => LineSpec
<1>1. Init => Lines!Init
  <2>. SUFFICES ASSUME Init PROVE Lines!Init
    OBVIOUS
  <2>1. TypeOK /\ Parts
    BY Init_Inv, PartsAre DEF IInv
  <2>2. Committed = 0 /\ Typed = 0
    BY <2>1, Indexes DEF Init
  <2>3. Cells(r, w) = <<>> /\ Cells(w, e) = <<>>
    BY <2>1, <2>2 DEF Parts
  <2>. QED
    BY <2>3 DEF Lines!Init, Init
<1>. QED
  BY <1>1, Invariance, Step_Refines, PTL DEF Spec, LineSpec, Lines!Spec
=============================================================================
