----------------------------- MODULE PipeProofs -----------------------------
(***************************************************************************)
(* A pipe loses no wakeup, is not used after it has been freed, and carries *)
(* its bytes once each and in order, also when the counters wrap around:    *)
(* for all sizes of the ring and of the counters and any number of readers  *)
(* and writers.                                                             *)
(***************************************************************************)
EXTENDS Pipe, RingArithmetic, SequenceTheorems

-----------------------------------------------------------------------------
(* The inductive invariant *)

\* pipe.lock is held exactly between its acquire and its release.
LockInv == \A p \in Proc : pc[p] \in {"loop", "sleep", "copy"} <=> plock = p

\* What a process's place in the code says of it.
PlaceInv ==
  /\ \A p \in asleep : pc[p] = "woken"
  /\ \A p \in Proc : pc[p] = "copy" => p \in Reader
  /\ \A p \in Proc : p \in open <=> pc[p] \notin {"close", "gone"}
  /\ \A p \in Proc : pc[p] = "idle" \/ (p \in Reader /\ pc[p] # "copy") => i[p] = 0

\* An end is closed by the last process that has it, alone.
EndInv(End, isopen) ==
  /\ ~isopen => \A p \in End : pc[p] = "gone"
  /\ \A p, q \in End : pc[p] = "close" /\ p # q => pc[q] = "gone"

\* A writer that sleeps, or is about to, faces a full ring until a reader has
\* the lock to copy from it.
WriterInv ==
  /\ asleep \cap Writer # {} =>
       readopen /\ (Full \/ \E r \in Reader : pc[r] = "copy")
  /\ \A w \in Writer : pc[w] = "sleep" => Full /\ readopen /\ asleep \cap Reader = {}

\* A reader that sleeps, or is about to, has nothing to read until a writer
\* has the lock, or a killed writer has left bytes behind.
ReaderInv ==
  /\ asleep \cap Reader # {} =>
       /\ writeopen
       /\ Empty \/ killed \cap Writer # {} \/ \E w \in Writer : pc[w] = "loop"
  /\ \A r \in Reader : pc[r] = "sleep" => Empty /\ writeopen
  /\ \A r \in Reader : pc[r] = "copy" /\ i[r] = 0 => ~(Empty /\ writeopen)

IInv ==
  /\ TypeOK
  /\ LockInv /\ PlaceInv
  /\ EndInv(Reader, readopen) /\ EndInv(Writer, writeopen)
  /\ WriterInv /\ ReaderInv
  /\ FreedUnused

-----------------------------------------------------------------------------
(* Arithmetic of the ring *)

\* The sizes, without the modulo.
LEMMA Sizes ==
  /\ PIPESIZE \in Nat \ {0} /\ PIPESIZE \in Nat /\ PIPESIZE > 0
  /\ UintSize \in Nat \ {0} /\ UintSize \in Nat /\ PIPESIZE < UintSize
  /\ PIPESIZE \in 1 .. UintSize - 1
  BY PipeAssumption

\* A counter moved on, how far counter w is ahead of r, and the place of the
\* ring a counter stands for.
Plus(r, d) == Advance(UintSize, r, d)
Gap(w, r)  == Ahead(UintSize, w, r)
Cell(x)    == Slot(PIPESIZE, x)

\* Bytes less than PIPESIZE apart have cells of their own.
LEMMA Cells ==
  ASSUME NEW x \in Nat
  PROVE  /\ Cell(x) \in 0 .. PIPESIZE - 1
         /\ \A d \in 1 .. PIPESIZE - 1 : Cell(x + d) # Cell(x)
  BY SlotType, SlotApart, Sizes DEF Cell

\* The counters wrap around at a multiple of PIPESIZE: the cell of a byte does
\* not depend on whether its counter has.
LEMMA SameCell ==
  ASSUME NEW r \in 0 .. UintSize - 1, NEW d \in 0 .. UintSize - 1, NEW k \in Nat
  PROVE  Cell(Plus(r, d) + k) = Cell(r + d + k)
<1>1. Slot(PIPESIZE, UintSize) = 0
  BY PipeAssumption DEF Slot
<1>. QED
  BY <1>1, SameSlot, Sizes DEF Cell, Plus

\* What a byte written, or read, does to the number of bytes in the ring.
LEMMA Count ==
  ASSUME NEW r \in 0 .. UintSize - 1, NEW w \in 0 .. UintSize - 1
  PROVE  /\ Gap(w, r) \in 0 .. UintSize - 1
         /\ Gap(w, r) = 0 <=> r = w
         /\ Gap(w, r) = PIPESIZE <=> w = Plus(r, PIPESIZE)
         /\ w = Plus(r, Gap(w, r))
         /\ Plus(w, 1) \in 0 .. UintSize - 1
         /\ Gap(w, r) < PIPESIZE => Gap(Plus(w, 1), r) = Gap(w, r) + 1
         /\ Plus(r, 1) \in 0 .. UintSize - 1
         /\ Gap(w, r) > 0 => Gap(w, Plus(r, 1)) = Gap(w, r) - 1
<1>1. \A x \in 0 .. UintSize - 1 : Advance(UintSize, x, 1) \in 0 .. UintSize - 1
  BY Counters, Sizes
<1>2. /\ PIPESIZE \in 1 .. UintSize - 1 /\ UintSize \in Nat \ {0}
      /\ Gap(w, r) = Ahead(UintSize, w, r)
      /\ Plus(r, PIPESIZE) = Advance(UintSize, r, PIPESIZE)
      /\ Plus(r, Gap(w, r)) = Advance(UintSize, r, Ahead(UintSize, w, r))
      /\ Plus(w, 1) = Advance(UintSize, w, 1) /\ Plus(r, 1) = Advance(UintSize, r, 1)
      /\ Gap(Plus(w, 1), r) = Ahead(UintSize, Advance(UintSize, w, 1), r)
      /\ Gap(w, Plus(r, 1)) = Ahead(UintSize, w, Advance(UintSize, r, 1))
  BY Sizes DEF Gap, Plus
<1>. QED
  BY <1>1, <1>2, Counters

\* The ring in these terms.
LEMMA RingIs ==
  /\ InFlight = Gap(nwrite, nread) /\ InFlight' = Gap(nwrite', nread')
  /\ Full <=> nwrite = Plus(nread, PIPESIZE)
  /\ InRing = [j \in 1 .. InFlight |-> data[Cell(nread + j - 1)]]
  /\ InRing' = [j \in 1 .. InFlight' |-> data'[Cell(nread' + j - 1)]]
  BY DEF InFlight, Gap, Ahead, Full, Plus, Advance, InRing, Cell, Slot

\* The bytes in the ring are a sequence of at most PIPESIZE bytes.
LEMMA RingFacts ==
  ASSUME TypeOK
  PROVE  /\ nread \in 0 .. UintSize - 1 /\ nwrite \in 0 .. UintSize - 1
         /\ nread \in Nat /\ data \in [0 .. PIPESIZE - 1 -> Byte]
         /\ InRing \in Seq(Byte)
         /\ Len(InRing) = InFlight
         /\ InFlight \in 0 .. UintSize - 1 /\ InFlight \in Nat /\ InFlight <= PIPESIZE
         /\ InFlight = 0 <=> Empty
         /\ InFlight = PIPESIZE <=> Full
<1>1. /\ nread \in 0 .. UintSize - 1 /\ nwrite \in 0 .. UintSize - 1
      /\ nread \in Nat /\ data \in [0 .. PIPESIZE - 1 -> Byte]
      /\ InFlight <= PIPESIZE
  BY DEF TypeOK
<1>2. /\ InFlight \in 0 .. UintSize - 1
      /\ InFlight = 0 <=> nread = nwrite
      /\ InFlight = PIPESIZE <=> Full
  BY <1>1, Count, RingIs
<1>3. InFlight \in Nat
  BY <1>2
<1>4. ASSUME NEW j \in 1 .. InFlight PROVE data[Cell(nread + j - 1)] \in Byte
  <2>1. nread + j - 1 \in Nat
    BY <1>1
  <2>. QED
    BY <1>1, <2>1, Cells
<1>5. InRing \in [1 .. InFlight -> Byte]
  BY <1>4, RingIs
<1>6. InRing \in Seq(Byte) /\ Len(InRing) = InFlight
  BY <1>3, <1>5
<1>. QED
  BY <1>1, <1>2, <1>6 DEF Empty

\* The number of bytes in the ring after one more has come, or gone.
LEMMA OneMore ==
  ASSUME TypeOK, ~Full, nread' = nread, nwrite' = Plus(nwrite, 1)
  PROVE  /\ nwrite' \in 0 .. UintSize - 1
         /\ InFlight < PIPESIZE /\ InFlight' = InFlight + 1
<1>1. InFlight < PIPESIZE
  BY RingFacts, Sizes
<1>. QED
  BY <1>1, RingFacts, RingIs, Count

\* piperead() takes a byte.
LEMMA OneLess ==
  ASSUME TypeOK, ~Empty, nwrite' = nwrite, nread' = Plus(nread, 1)
  PROVE  /\ nread' \in 0 .. UintSize - 1
         /\ InFlight > 0 /\ InFlight' = InFlight - 1
<1>1. InFlight > 0
  BY RingFacts
<1>. QED
  BY <1>1, RingFacts, RingIs, Count

-----------------------------------------------------------------------------
(* Steps *)

\* The step Call preserves the invariant.
LEMMA Call_Inv ==
  ASSUME NEW p \in Proc, NEW k \in Counts[p], IInv, Call(p, k)
  PROVE  IInv'
<1>1. TypeOK'
  <2>1. k \in 0 .. Len(addr)
    BY PipeAssumption DEF Proc
  <2>2. i[p] = 0
    BY DEF Call, At, IInv, PlaceInv, Proc
  <2>. QED
    BY <2>1, <2>2 DEF Call, IInv, TypeOK, InFlight, pipeVars, Goto
<1>2. LockInv'
  BY DEF Call, IInv, LockInv, At, Goto
<1>3. PlaceInv'
  BY DEF Call, IInv, PlaceInv, At, Goto
<1>4. EndInv(Reader, readopen)' /\ EndInv(Writer, writeopen)'
  BY DEF Call, IInv, EndInv, pipeVars, At, Goto
<1>5. WriterInv'
  BY DEF Call, IInv, WriterInv, Full, pipeVars, At, Goto
<1>6. ReaderInv'
  BY PipeAssumption
     DEF Call, IInv, ReaderInv, WriterInv, EndInv, PlaceInv, LockInv, TypeOK, Empty,
         pipeVars, procVars, At, Goto, Return, WakeReaders, WakeWriters, WriteWakeup,
         CloseWakeup, BothClosed, MustWait, Proc
<1>7. FreedUnused'
  BY DEF Call, IInv, FreedUnused, At
<1>. QED
  BY <1>1, <1>2, <1>3, <1>4, <1>5, <1>6, <1>7 DEF IInv

\* The step Acquire preserves the invariant.
LEMMA Acquire_Inv ==
  ASSUME NEW p \in Proc, IInv, Acquire(p)
  PROVE  IInv'
<1>1. TypeOK'
  BY DEF Acquire, IInv, TypeOK, InFlight, pipeVars, procVars, Goto
<1>2. LockInv'
  BY PipeAssumption DEF Acquire, IInv, LockInv, TypeOK, Goto, Proc
<1>3. PlaceInv'
  BY DEF Acquire, IInv, PlaceInv, procVars, At, Goto
<1>4. EndInv(Reader, readopen)' /\ EndInv(Writer, writeopen)'
  BY DEF Acquire, IInv, EndInv, pipeVars, At, Goto
<1>5. WriterInv'
  BY DEF Acquire, IInv, WriterInv, Full, pipeVars, At, Goto
<1>6. ReaderInv'
  BY DEF Acquire, IInv, ReaderInv, Empty, pipeVars, procVars, Goto
<1>7. FreedUnused'
  BY DEF Acquire, IInv, FreedUnused, At
<1>. QED
  BY <1>1, <1>2, <1>3, <1>4, <1>5, <1>6, <1>7 DEF IInv

\* The step Sleep preserves the invariant.
LEMMA Sleep_Inv ==
  ASSUME NEW p \in Proc, IInv, Sleep(p)
  PROVE  IInv'
<1>1. TypeOK'
  BY DEF Sleep, IInv, TypeOK, InFlight, pipeVars, procVars, Goto
<1>2. LockInv'
  BY PipeAssumption DEF Sleep, IInv, LockInv, TypeOK, At, Goto, Proc
<1>3. PlaceInv'
  BY DEF Sleep, IInv, PlaceInv, TypeOK, procVars, At, Goto
<1>4. EndInv(Reader, readopen)' /\ EndInv(Writer, writeopen)'
  BY DEF Sleep, IInv, EndInv, pipeVars, At, Goto
<1>5. WriterInv'
  BY PipeAssumption DEF Sleep, IInv, WriterInv, LockInv, Full, pipeVars, At, Goto, Proc
<1>6. ReaderInv'
  BY DEF Sleep, IInv, ReaderInv, Empty, pipeVars, procVars, At, Goto
<1>7. FreedUnused'
  BY DEF Sleep, IInv, FreedUnused, At
<1>. QED
  BY <1>1, <1>2, <1>3, <1>4, <1>5, <1>6, <1>7 DEF IInv

\* The step WriteByte preserves the invariant.
LEMMA WriteByte_Inv ==
  ASSUME NEW p \in Proc, IInv, WriteByte(p)
  PROVE  IInv'
<1>1. TypeOK'
  <2>1. nwrite' = Plus(nwrite, 1) /\ nread' = nread
    BY DEF WriteByte, Plus, Advance
  <2>2. TypeOK /\ ~Full
    BY DEF WriteByte, IInv
  <2>3. nwrite' \in 0 .. UintSize - 1 /\ InFlight' <= PIPESIZE
    BY <2>1, <2>2, OneMore, RingFacts, Sizes
  <2>4. addr[i[p] + 1] \in Byte /\ i[p] + 1 \in Nat /\ i[p] + 1 <= n[p]
    BY PipeAssumption DEF WriteByte, IInv, TypeOK
  <2>5. data' \in [0 .. PIPESIZE - 1 -> Byte]
    BY <2>4 DEF WriteByte, IInv, TypeOK
  <2>6. i' \in [Proc -> Nat] /\ \A q \in Proc : i'[q] <= n'[q]
    BY DEF WriteByte, IInv, TypeOK
  <2>. QED
    BY <2>3, <2>5 DEF WriteByte, IInv, TypeOK
<1>2. LockInv'
  BY DEF WriteByte, IInv, LockInv
<1>3. PlaceInv'
  BY PipeAssumption DEF WriteByte, IInv, PlaceInv, At
<1>4. EndInv(Reader, readopen)' /\ EndInv(Writer, writeopen)'
  BY DEF WriteByte, IInv, EndInv
<1>5. WriterInv'
  BY DEF WriteByte, IInv, WriterInv
<1>6. ReaderInv'
  BY DEF WriteByte, IInv, ReaderInv, LockInv, At, Proc
<1>7. FreedUnused'
  BY DEF WriteByte, IInv, FreedUnused
<1>. QED
  BY <1>1, <1>2, <1>3, <1>4, <1>5, <1>6, <1>7 DEF IInv

\* The step WriteFail preserves the invariant.
LEMMA WriteFail_Inv ==
  ASSUME NEW p \in Proc, IInv, WriteFail(p)
  PROVE  IInv'
<1>1. TypeOK'
  BY DEF WriteFail, IInv, TypeOK, InFlight, pipeVars, Goto, Return
<1>2. LockInv'
  BY PipeAssumption DEF WriteFail, IInv, LockInv, TypeOK, At, Goto, Return, Proc
<1>3. PlaceInv'
  BY DEF WriteFail, IInv, PlaceInv, TypeOK, At, Goto, Return
<1>4. EndInv(Reader, readopen)' /\ EndInv(Writer, writeopen)'
  BY DEF WriteFail, IInv, EndInv, pipeVars, At, Goto, Return
<1>5. WriterInv'
  BY DEF WriteFail, IInv, WriterInv, Full, pipeVars, Goto, Return
<1>6. ReaderInv'
  BY PipeAssumption
     DEF WriteFail, IInv, ReaderInv, EndInv, PlaceInv, Empty, pipeVars, Goto, Return
<1>7. FreedUnused'
  BY DEF WriteFail, IInv, FreedUnused, At
<1>. QED
  BY <1>1, <1>2, <1>3, <1>4, <1>5, <1>6, <1>7 DEF IInv

\* The step WriteWait preserves the invariant.
LEMMA WriteWait_Inv ==
  ASSUME NEW p \in Proc, IInv, WriteWait(p)
  PROVE  IInv'
<1>1. TypeOK'
  BY DEF WriteWait, IInv, TypeOK, InFlight, pipeVars, procVars, Goto, WakeReaders
<1>2. LockInv'
  BY DEF WriteWait, IInv, LockInv, At, Goto
<1>3. PlaceInv'
  BY DEF WriteWait, IInv, PlaceInv, procVars, At, Goto, WakeReaders
<1>4. EndInv(Reader, readopen)' /\ EndInv(Writer, writeopen)'
  BY DEF WriteWait, IInv, EndInv, pipeVars, At, Goto
<1>5. WriterInv'
  BY DEF WriteWait, WriterInv, Full, pipeVars, WakeReaders
<1>6. ReaderInv'
  BY PipeAssumption
     DEF WriteWait, IInv, ReaderInv, Empty, pipeVars, procVars, Goto, WakeReaders
<1>7. FreedUnused'
  BY DEF WriteWait, IInv, FreedUnused
<1>. QED
  BY <1>1, <1>2, <1>3, <1>4, <1>5, <1>6, <1>7 DEF IInv

\* The step WriteDone preserves the invariant.
LEMMA WriteDone_Inv ==
  ASSUME NEW p \in Proc, IInv, WriteDone(p)
  PROVE  IInv'
<1>1. TypeOK'
  BY DEF WriteDone, IInv, TypeOK, InFlight, pipeVars, Goto, Return, WakeReaders, WriteWakeup
<1>2. LockInv'
  BY PipeAssumption DEF WriteDone, IInv, LockInv, TypeOK, At, Goto, Return, Proc
<1>3. PlaceInv'
  BY DEF WriteDone, IInv, PlaceInv, TypeOK, At, Goto, Return, WakeReaders, WriteWakeup
<1>4. EndInv(Reader, readopen)' /\ EndInv(Writer, writeopen)'
  BY DEF WriteDone, IInv, EndInv, pipeVars, At, Goto, Return
<1>5. WriterInv'
  BY PipeAssumption
     DEF WriteDone, IInv, WriterInv, Full, pipeVars, Goto, Return, WakeReaders, WriteWakeup
<1>6. ReaderInv'
  BY PipeAssumption
     DEF WriteDone, IInv, ReaderInv, Empty, pipeVars, Goto, Return, WakeReaders, WriteWakeup
<1>7. FreedUnused'
  BY DEF WriteDone, IInv, FreedUnused, At
<1>. QED
  BY <1>1, <1>2, <1>3, <1>4, <1>5, <1>6, <1>7 DEF IInv

\* The step ReadFail preserves the invariant.
LEMMA ReadFail_Inv ==
  ASSUME NEW p \in Proc, IInv, ReadFail(p)
  PROVE  IInv'
<1>1. TypeOK'
  BY DEF ReadFail, IInv, TypeOK, InFlight, pipeVars, Goto, Return
<1>2. LockInv'
  BY PipeAssumption DEF ReadFail, IInv, LockInv, TypeOK, At, Goto, Return, Proc
<1>3. PlaceInv'
  BY DEF ReadFail, IInv, PlaceInv, At, Goto, Return
<1>4. EndInv(Reader, readopen)' /\ EndInv(Writer, writeopen)'
  BY DEF ReadFail, IInv, EndInv, pipeVars, At, Goto, Return
<1>5. WriterInv'
  BY DEF ReadFail, IInv, WriterInv, Full, pipeVars, At, Goto, Return
<1>6. ReaderInv'
  BY DEF ReadFail, IInv, ReaderInv, Empty, pipeVars, At, Goto, Return
<1>7. FreedUnused'
  BY DEF ReadFail, IInv, FreedUnused, MustWait
<1>. QED
  BY <1>1, <1>2, <1>3, <1>4, <1>5, <1>6, <1>7 DEF IInv

\* The step ReadWait preserves the invariant.
LEMMA ReadWait_Inv ==
  ASSUME NEW p \in Proc, IInv, ReadWait(p)
  PROVE  IInv'
<1>1. TypeOK'
  BY DEF ReadWait, IInv, TypeOK, InFlight, pipeVars, procVars, Goto
<1>2. LockInv'
  BY DEF ReadWait, IInv, LockInv, At, Goto
<1>3. PlaceInv'
  BY DEF ReadWait, IInv, PlaceInv, procVars, At, Goto
<1>4. EndInv(Reader, readopen)' /\ EndInv(Writer, writeopen)'
  BY DEF ReadWait, IInv, EndInv, pipeVars, At, Goto
<1>5. WriterInv'
  BY PipeAssumption DEF ReadWait, IInv, WriterInv, Full, pipeVars, At, Goto
<1>6. ReaderInv'
  BY DEF ReadWait, IInv, ReaderInv, Empty, pipeVars, procVars, Goto, MustWait
<1>7. FreedUnused'
  BY DEF ReadWait, IInv, FreedUnused, MustWait
<1>. QED
  BY <1>1, <1>2, <1>3, <1>4, <1>5, <1>6, <1>7 DEF IInv

\* The step ReadStart preserves the invariant.
LEMMA ReadStart_Inv ==
  ASSUME NEW p \in Proc, IInv, ReadStart(p)
  PROVE  IInv'
<1>1. TypeOK'
  BY DEF ReadStart, IInv, TypeOK, InFlight, pipeVars, procVars, Goto
<1>2. LockInv'
  BY DEF ReadStart, IInv, LockInv, At, Goto
<1>3. PlaceInv'
  BY DEF ReadStart, IInv, PlaceInv, procVars, At, Goto
<1>4. EndInv(Reader, readopen)' /\ EndInv(Writer, writeopen)'
  BY DEF ReadStart, IInv, EndInv, pipeVars, At, Goto
<1>5. WriterInv'
  BY DEF ReadStart, IInv, WriterInv, Full, pipeVars, Goto
<1>6. ReaderInv'
  BY PipeAssumption
     DEF ReadStart, IInv, ReaderInv, Empty, pipeVars, procVars, Goto, MustWait
<1>7. FreedUnused'
  BY DEF ReadStart, IInv, FreedUnused, At
<1>. QED
  BY <1>1, <1>2, <1>3, <1>4, <1>5, <1>6, <1>7 DEF IInv

\* The step ReadByte preserves the invariant.
LEMMA ReadByte_Inv ==
  ASSUME NEW p \in Proc, IInv, ReadByte(p)
  PROVE  IInv'
<1>1. TypeOK'
  <2>1. nread' = Plus(nread, 1) /\ nwrite' = nwrite /\ out' = data[Cell(nread)]
    BY DEF ReadByte, Plus, Advance, Cell, Slot
  <2>2. TypeOK /\ ~Empty
    BY DEF ReadByte, IInv
  <2>3. nread' \in 0 .. UintSize - 1 /\ InFlight' <= PIPESIZE
    BY <2>2, RingFacts, Sizes
  <2>4. out' \in Byte
    BY <2>1, Cells DEF IInv, TypeOK
  <2>5. i[p] + 1 \in Nat /\ i[p] + 1 <= n[p]
    BY DEF ReadByte, IInv, TypeOK
  <2>6. i' \in [Proc -> Nat] /\ \A q \in Proc : i'[q] <= n'[q]
    BY DEF ReadByte, IInv, TypeOK
  <2>. QED
    BY <2>3, <2>4 DEF ReadByte, IInv, TypeOK
<1>2. LockInv'
  BY DEF ReadByte, IInv, LockInv
<1>3. PlaceInv'
  BY DEF ReadByte, IInv, PlaceInv, At
<1>4. EndInv(Reader, readopen)' /\ EndInv(Writer, writeopen)'
  BY DEF ReadByte, IInv, EndInv
<1>5. WriterInv'
  BY DEF ReadByte, IInv, WriterInv, PlaceInv, LockInv, At, Proc
<1>6. ReaderInv'
  BY DEF ReadByte, IInv, ReaderInv, LockInv, TypeOK, At, Proc
<1>7. FreedUnused'
  BY DEF ReadByte, IInv, FreedUnused
<1>. QED
  BY <1>1, <1>2, <1>3, <1>4, <1>5, <1>6, <1>7 DEF IInv

\* The step ReadDone preserves the invariant.
LEMMA ReadDone_Inv ==
  ASSUME NEW p \in Proc, IInv, ReadDone(p)
  PROVE  IInv'
<1>1. TypeOK'
  BY DEF ReadDone, IInv, TypeOK, InFlight, pipeVars, Goto, Return, WakeWriters
<1>2. LockInv'
  BY PipeAssumption DEF ReadDone, IInv, LockInv, TypeOK, At, Goto, Return, Proc
<1>3. PlaceInv'
  BY DEF ReadDone, IInv, PlaceInv, TypeOK, At, Goto, Return, WakeWriters
<1>4. EndInv(Reader, readopen)' /\ EndInv(Writer, writeopen)'
  BY DEF ReadDone, IInv, EndInv, pipeVars, At, Goto, Return
<1>5. WriterInv'
  BY DEF ReadDone, IInv, WriterInv, Full, pipeVars, Goto, Return, WakeWriters
<1>6. ReaderInv'
  BY DEF ReadDone, IInv, ReaderInv, TypeOK, Empty, pipeVars, At, Goto, Return, WakeWriters
<1>7. FreedUnused'
  BY DEF ReadDone, IInv, FreedUnused, At
<1>. QED
  BY <1>1, <1>2, <1>3, <1>4, <1>5, <1>6, <1>7 DEF IInv

\* The step Close preserves the invariant.
LEMMA Close_Inv ==
  ASSUME NEW p \in Proc, IInv, Close(p)
  PROVE  IInv'
<1>1. TypeOK'
  BY DEF Close, IInv, TypeOK, InFlight, pipeVars, Goto
<1>2. LockInv'
  BY DEF Close, IInv, LockInv, At, Goto
<1>3. PlaceInv'
  BY DEF Close, IInv, PlaceInv, TypeOK, At, Goto
<1>4. EndInv(Reader, readopen)' /\ EndInv(Writer, writeopen)'
  BY PipeAssumption DEF Close, IInv, EndInv, PlaceInv, pipeVars, Goto, Proc
<1>5. WriterInv'
  BY DEF Close, IInv, WriterInv, Full, pipeVars, At, Goto
<1>6. ReaderInv'
  BY DEF Close, IInv, ReaderInv, Empty, pipeVars, At, Goto
<1>7. FreedUnused'
  BY DEF Close, IInv, FreedUnused, At
<1>. QED
  BY <1>1, <1>2, <1>3, <1>4, <1>5, <1>6, <1>7 DEF IInv

\* The step pipeclose preserves the invariant.
LEMMA pipeclose_Inv ==
  ASSUME NEW p \in Proc, IInv, pipeclose(p)
  PROVE  IInv'
<1>1. TypeOK'
  BY DEF pipeclose, IInv, TypeOK, InFlight, procVars, Goto, WakeReaders, WakeWriters,
         CloseWakeup
<1>2. LockInv'
  BY PipeAssumption DEF pipeclose, IInv, LockInv, Goto, Proc
<1>3. PlaceInv'
  BY DEF pipeclose, IInv, PlaceInv, procVars, At, Goto, WakeReaders, WakeWriters,
         CloseWakeup
<1>4. EndInv(Reader, readopen)' /\ EndInv(Writer, writeopen)'
  BY DEF pipeclose, IInv, EndInv, TypeOK, At, Goto
<1>5. WriterInv'
  BY PipeAssumption
     DEF pipeclose, IInv, WriterInv, LockInv, TypeOK, Full, Goto, WakeReaders, WakeWriters,
         CloseWakeup, Proc
<1>6. ReaderInv'
  BY PipeAssumption
     DEF pipeclose, IInv, ReaderInv, LockInv, TypeOK, Empty, procVars, Goto, WakeReaders,
         WakeWriters, CloseWakeup, Proc
<1>7. FreedUnused'
  BY DEF pipeclose, IInv, FreedUnused, EndInv, TypeOK, At, Goto, BothClosed, Proc
<1>. QED
  BY <1>1, <1>2, <1>3, <1>4, <1>5, <1>6, <1>7 DEF IInv

\* The step Kill preserves the invariant.
LEMMA Kill_Inv ==
  ASSUME NEW p \in Proc, IInv, Kill(p)
  PROVE  IInv'
<1>1. TypeOK'
  BY DEF Kill, IInv, TypeOK, InFlight, pipeVars
<1>2. LockInv'
  BY DEF Kill, IInv, LockInv
<1>3. PlaceInv'
  BY DEF Kill, IInv, PlaceInv
<1>4. EndInv(Reader, readopen)' /\ EndInv(Writer, writeopen)'
  BY DEF Kill, IInv, EndInv, pipeVars
<1>5. WriterInv'
  BY DEF Kill, IInv, WriterInv, Full, pipeVars
<1>6. ReaderInv'
  BY DEF Kill, IInv, ReaderInv, Empty, pipeVars
<1>7. FreedUnused'
  BY DEF Kill, IInv, FreedUnused, pipeVars
<1>. QED
  BY <1>1, <1>2, <1>3, <1>4, <1>5, <1>6, <1>7 DEF IInv

-----------------------------------------------------------------------------
(* The invariant holds *)

\* pipealloc() establishes the invariant.
LEMMA Init_Inv == Init => IInv
<1>. SUFFICES ASSUME Init PROVE IInv
  OBVIOUS
<1>1. TypeOK
  <2>1. InFlight = 0
    BY Count, RingIs, Sizes DEF Init
  <2>2. /\ (CHOOSE v \in Byte : TRUE) \in Byte /\ 0 \in 0 .. PIPESIZE - 1
        /\ 0 \in 0 .. UintSize - 1 /\ 0 \in 0 .. Len(addr)
    BY PipeAssumption
  <2>3. data \in [0 .. PIPESIZE - 1 -> Byte] /\ out \in Byte
    BY <2>2 DEF Init
  <2>4. /\ pc \in [Proc -> {"idle", "acquire", "loop", "sleep", "woken", "copy", "close", "gone"}]
        /\ n \in [Proc -> 0 .. Len(addr)] /\ i \in [Proc -> Nat]
        /\ \A p \in Proc : i[p] <= n[p]
    BY <2>2 DEF Init
  <2>5. /\ nread \in 0 .. UintSize - 1 /\ nwrite \in 0 .. UintSize - 1
        /\ InFlight <= PIPESIZE
    BY <2>1, Sizes DEF Init
  <2>. QED
    BY <2>3, <2>4, <2>5 DEF Init, TypeOK
<1>2. LockInv /\ PlaceInv /\ EndInv(Reader, readopen) /\ EndInv(Writer, writeopen)
  BY PipeAssumption DEF Init, LockInv, PlaceInv, EndInv, Proc
<1>3. WriterInv /\ ReaderInv /\ FreedUnused
  BY DEF Init, WriterInv, ReaderInv, FreedUnused, Proc
<1>. QED
  BY <1>1, <1>2, <1>3 DEF IInv

\* Every step preserves it.
LEMMA Next_Inv == IInv /\ [Next]_vars => IInv'
<1>. SUFFICES ASSUME IInv, [Next]_vars PROVE IInv'
  OBVIOUS
<1>1. CASE UNCHANGED vars
  BY <1>1
     DEF IInv, TypeOK, InFlight, LockInv, PlaceInv, EndInv, WriterInv, ReaderInv,
         FreedUnused,
              Full, Empty, vars, pipeVars, procVars
<1>2. ASSUME NEW p \in Proc,
             \/ \E k \in Counts[p] : Call(p, k)
             \/ Acquire(p) \/ Sleep(p)
             \/ WriteByte(p) \/ WriteFail(p) \/ WriteWait(p) \/ WriteDone(p)
             \/ ReadFail(p) \/ ReadWait(p) \/ ReadStart(p) \/ ReadByte(p) \/ ReadDone(p)
             \/ Close(p) \/ pipeclose(p) \/ Kill(p)
      PROVE  IInv'
  BY <1>2, Call_Inv, Acquire_Inv, Sleep_Inv, WriteByte_Inv, WriteFail_Inv, WriteWait_Inv,
     WriteDone_Inv, ReadFail_Inv, ReadWait_Inv, ReadStart_Inv, ReadByte_Inv, ReadDone_Inv,
     Close_Inv, pipeclose_Inv, Kill_Inv
<1>. QED
  BY <1>1, <1>2 DEF Next, Finished

\* The invariant holds in every reachable state.
THEOREM Invariance == Spec => []IInv
  BY Init_Inv, Next_Inv, PTL DEF Spec

\* The types of the variables: the ring never holds more than PIPESIZE bytes,
\* also when nwrite has wrapped around and nread has not.
THEOREM TypeCorrect == Spec => []TypeOK
<1>1. IInv => TypeOK
  BY DEF IInv
<1>. QED
  BY <1>1, Invariance, PTL

\* pipewrite() and piperead() against each other, close() and kill(): while nobody is
\* inside the pipe a writer asleep faces a full ring and a reader, and a reader asleep
\* has nothing to read and a writer to wait for, unless a killed writer left the bytes.
THEOREM WakeupsKept == Spec => []NoLostWakeup
<1>1. IInv => NoLostWakeup
  BY PipeAssumption DEF IInv, TypeOK, LockInv, WriterInv, ReaderInv, NoLostWakeup, Proc
<1>. QED
  BY <1>1, Invariance, PTL

\* pipeclose() frees the pipe only when no process has an end of it open or is
\* in its code.
THEOREM FreedSafely == Spec => []FreedUnused
<1>1. IInv => FreedUnused
  BY DEF IInv
<1>. QED
  BY <1>1, Invariance, PTL

-----------------------------------------------------------------------------
(* The ring implements ByteStream *)

\* A byte pipewrite() stores is put at the end of the stream.
LEMMA Put_Step ==
  ASSUME NEW p \in Proc, IInv, WriteByte(p)
  PROVE  Stream!Put(addr[i[p] + 1])
<1>. DEFINE v == addr[i[p] + 1]
<1>1. v \in Byte
  BY PipeAssumption DEF WriteByte, IInv, TypeOK
<1>2. nread' = nread /\ nwrite' = Plus(nwrite, 1) /\ data' = [data EXCEPT ![Cell(nwrite)] = v]
  BY DEF WriteByte, Plus, Advance, Cell, Slot
<1>. HIDE DEF v
<1>3. TypeOK
  BY DEF IInv
<1>4. InFlight < PIPESIZE /\ InFlight' = InFlight + 1
  <2>1. ~Full
    BY DEF WriteByte
  <2>. QED
    BY <1>2, <1>3, <2>1, OneMore
<1>5. Cell(nwrite) = Cell(nread + InFlight)
  <2>1. nwrite = Plus(nread, InFlight)
    BY <1>3, Count, RingIs, RingFacts, Zenon
  <2>2. Cell(Plus(nread, InFlight) + 0) = Cell(nread + InFlight + 0)
    BY <1>3, SameCell, RingFacts
  <2>. QED
    BY <1>3, <2>1, <2>2, RingFacts
<1>6. ASSUME NEW j \in 1 .. InFlight
      PROVE  data'[Cell(nread + j - 1)] = data[Cell(nread + j - 1)]
  <2>1. /\ InFlight - j + 1 \in 1 .. PIPESIZE - 1 /\ nread + j - 1 \in Nat
        /\ (nread + j - 1) + (InFlight - j + 1) = nread + InFlight
    BY <1>3, <1>4, RingFacts, Sizes
  <2>2. Cell((nread + j - 1) + (InFlight - j + 1)) # Cell(nread + j - 1)
    BY <2>1, Cells, Zenon
  <2>. QED
    BY <1>2, <1>3, <1>5, <2>1, <2>2, Cells, RingFacts
<1>7. data'[Cell(nread + InFlight)] = v
  <2>1. Cell(nread + InFlight) \in 0 .. PIPESIZE - 1
    <3>1. nread + InFlight \in Nat
      BY <1>3, RingFacts
    <3>. QED
      BY <3>1, Cells
  <2>. QED
    BY <1>2, <1>3, <1>5, <2>1, RingFacts
<1>8. InRing' = Append(InRing, v)
  <2>1. InRing' = [j \in 1 .. InFlight + 1 |-> data'[Cell(nread + j - 1)]]
    BY <1>2, <1>4, RingIs
  <2>2. /\ Append(InRing, v) \in Seq(Byte) /\ Len(Append(InRing, v)) = InFlight + 1
        /\ \A j \in 1 .. InFlight : Append(InRing, v)[j] = InRing[j]
        /\ Append(InRing, v)[InFlight + 1] = v
    BY <1>1, <1>3, RingFacts, AppendProperties
  <2>3. Append(InRing, v) = [j \in 1 .. InFlight + 1 |-> Append(InRing, v)[j]]
    BY <2>2, LenProperties
  <2>4. ASSUME NEW j \in 1 .. InFlight + 1
        PROVE  data'[Cell(nread + j - 1)] = Append(InRing, v)[j]
    <3>1. CASE j = InFlight + 1
      <4>1. nread + j - 1 = nread + InFlight
        BY <1>3, <3>1, RingFacts
      <4>. QED
        BY <1>7, <2>2, <3>1, <4>1
    <3>2. CASE j # InFlight + 1
      <4>1. j \in 1 .. InFlight
        BY <1>3, <3>2, RingFacts
      <4>. QED
        BY <1>6, <2>2, <4>1, RingIs
    <3>. QED
      BY <3>1, <3>2
  <2>. QED
    BY <2>1, <2>3, <2>4
<1>9. writeopen
  BY DEF WriteByte, At, IInv, EndInv, Proc
<1>. QED
  BY <1>3, <1>4, <1>8, <1>9, RingFacts DEF WriteByte, Stream!Put, v

\* A byte piperead() returns is the first of the stream.
LEMMA Get_Step ==
  ASSUME NEW p \in Proc, IInv, ReadByte(p)
  PROVE  Stream!Get
<1>1. nread' = Plus(nread, 1) /\ nwrite' = nwrite /\ data' = data /\ out' = data[Cell(nread)]
  BY DEF ReadByte, Plus, Advance, Cell, Slot
<1>2. TypeOK
  BY DEF IInv
<1>3. InFlight > 0 /\ InFlight' = InFlight - 1
  <2>1. ~Empty
    BY DEF ReadByte
  <2>. QED
    BY <1>1, <1>2, <2>1, OneLess
<1>4. InRing # <<>> /\ Head(InRing) = data[Cell(nread)]
  <2>1. InRing[1] = data[Cell(nread + 1 - 1)] /\ nread + 1 - 1 = nread
    BY <1>2, <1>3, RingFacts, RingIs
  <2>. QED
    BY <1>2, <1>3, <2>1, RingFacts
<1>5. ASSUME NEW j \in 1 .. InFlight - 1
      PROVE  data'[Cell(nread' + j - 1)] = InRing[j + 1]
  <2>1. Cell(Plus(nread, 1) + (j - 1)) = Cell(nread + 1 + (j - 1))
    <3>1. 1 \in 0 .. UintSize - 1 /\ j - 1 \in Nat
      BY Sizes
    <3>. QED
      BY <1>2, <3>1, SameCell, RingFacts, Zenon
  <2>2. InRing[j + 1] = data[Cell(nread + (j + 1) - 1)]
    BY <1>2, RingFacts, RingIs
  <2>3. /\ nread + (j + 1) - 1 = nread + 1 + (j - 1)
        /\ Plus(nread, 1) + j - 1 = Plus(nread, 1) + (j - 1)
    BY <1>2, Count, RingFacts
  <2>. QED
    BY <1>1, <2>1, <2>2, <2>3
<1>6. InRing' = Tail(InRing)
  <2>1. /\ Tail(InRing) \in Seq(Byte) /\ Len(Tail(InRing)) = InFlight - 1
        /\ \A j \in 1 .. InFlight - 1 : Tail(InRing)[j] = InRing[j + 1]
    BY <1>2, <1>4, RingFacts, HeadTailProperties
  <2>2. Tail(InRing) = [j \in 1 .. InFlight - 1 |-> Tail(InRing)[j]]
    BY <2>1, LenProperties
  <2>. QED
    BY <1>3, <1>5, <2>1, <2>2, RingIs
<1>. QED
  BY <1>1, <1>4, <1>6 DEF ReadByte, Stream!Get

\* Every step of the pipe is a step of ByteStream or changes nothing in it.
LEMMA Refinement_Step ==
  ASSUME IInv, [Next]_vars
  PROVE  [Stream!Next]_(Stream!vars)
<1>1. ASSUME NEW p \in Proc, WriteByte(p) PROVE Stream!Next
  <2>1. addr[i[p] + 1] \in Byte
    BY <1>1, PipeAssumption DEF WriteByte, IInv, TypeOK
  <2>. QED
    BY <1>1, <2>1, Put_Step DEF Stream!Next
<1>2. ASSUME NEW p \in Proc, ReadByte(p) PROVE Stream!Next
  BY <1>2, Get_Step DEF Stream!Next
<1>3. ASSUME NEW p \in Proc, ReadDone(p) PROVE [Stream!Next]_(Stream!vars)
  <2>1. InRing' = InRing /\ out' = out /\ writeopen' = writeopen
    BY <1>3 DEF ReadDone, InRing, InFlight, pipeVars
  <2>2. CASE i[p] = 0 /\ n[p] > 0
    <3>1. Empty /\ ~writeopen
      BY <1>3, <2>2 DEF ReadDone, At, IInv, PlaceInv, ReaderInv
    <3>2. InRing = <<>>
      BY <3>1, RingFacts DEF IInv
    <3>. QED
      BY <1>3, <2>1, <2>2, <3>1, <3>2 DEF ReadDone, Stream!Next, Stream!Eof
  <2>3. CASE ~(i[p] = 0 /\ n[p] > 0)
    BY <1>3, <2>1, <2>3 DEF ReadDone, Stream!vars, IInv, TypeOK
  <2>. QED
    BY <2>2, <2>3
<1>4. ASSUME NEW p \in Proc, pipeclose(p) PROVE [Stream!Next]_(Stream!vars)
  <2>1. InRing' = InRing /\ out' = out /\ eof' = eof
    BY <1>4 DEF pipeclose, InRing, InFlight
  <2>2. writeopen' = FALSE \/ writeopen' = writeopen
    BY <1>4 DEF pipeclose, IInv, TypeOK
  <2>. QED
    BY <2>1, <2>2 DEF Stream!Next, Stream!Close, Stream!vars
<1>5. ASSUME NEW p \in Proc,
             \/ \E k \in Counts[p] : Call(p, k)
             \/ Acquire(p) \/ Sleep(p)
             \/ WriteFail(p) \/ WriteWait(p) \/ WriteDone(p)
             \/ ReadFail(p) \/ ReadWait(p) \/ ReadStart(p)
             \/ Close(p) \/ Kill(p)
      PROVE  UNCHANGED Stream!vars
  <2>1. UNCHANGED <<pipeVars, out, eof>>
    BY <1>5
       DEF Call, Acquire, Sleep, WriteFail, WriteWait, WriteDone, ReadFail, ReadWait,
           ReadStart,
                Close, Kill
  <2>. QED
    BY <2>1 DEF pipeVars, InRing, InFlight, Stream!vars
<1>6. CASE UNCHANGED vars
  BY <1>6 DEF vars, pipeVars, InRing, InFlight, Stream!vars
<1>. QED
  BY <1>1, <1>2, <1>3, <1>4, <1>5, <1>6 DEF Next, Finished

\* pipewrite(), piperead() and pipeclose(): the ring is a queue of bounded
\* length, from which the bytes come once each and in the order they were put,
\* and whose end is seen only when it is empty and closed for writing.
THEOREM Refinement == Spec => StreamSpec
<1>1. Init => Stream!Init
  <2>. SUFFICES ASSUME Init PROVE Stream!Init
    OBVIOUS
  <2>1. InRing = <<>>
    BY Init_Inv, RingFacts DEF Init, Empty, IInv
  <2>. QED
    BY <2>1, Init_Inv DEF Init, Stream!Init, IInv, TypeOK
<1>. QED
  BY <1>1, Invariance, Refinement_Step, PTL DEF Spec, StreamSpec, Stream!Spec
=============================================================================
