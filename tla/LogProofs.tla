------------------------------ MODULE LogProofs ------------------------------
(***************************************************************************)
(* The log reserves enough space, forgets no sleeper, keeps what it has not *)
(* installed, and implements AtomicDisk through crashes at any disk write,  *)
(* for every number of processes, blocks, contents and blocks per operation. *)
(***************************************************************************)
EXTENDS Log, FiniteSetTheorems, TLAPS

-----------------------------------------------------------------------------
(* The inductive invariant *)

\* Processes between begin_op() and end_op().
InOp == {p \in Proc : pc[p] \in {"op", "modified", "checked"}}

\* log.outstanding counts them, and only they have space reserved.
CountInv ==
  /\ IsFiniteSet(InOp)
  /\ outstanding = Cardinality(InOp)
  /\ \A p \in Proc : Owes(p) <= MAXOPBLOCKS
  /\ \A p \in Proc : p \notin InOp => left[p] = 0

\* A process has a buffer locked from its change to the end of log_write().
HeldInv ==
  /\ \A p \in Proc : held[p] # None <=> pc[p] \in {"modified", "checked"}
  /\ \A p, q \in Proc : held[p] = held[q] /\ held[p] # None => p = q

\* One process commits, alone; the steps of a commit and of recovery.
CommitInv ==
  /\ committing <=> \E p \in Proc : pc[p] = "commit"
  /\ \A p, q \in Proc : pc[p] = "commit" /\ pc[q] = "commit" => p = q
  /\ committing => outstanding = 0
  /\ committing /\ step = None => lh = <<>>
  /\ mode = "run" /\ step # None => committing
  /\ mode = "panic" => step = None /\ ~committing
  /\ mode # "boot" => hdr = IF step \in {"install", "clear"} THEN lh ELSE <<>>
  /\ step \in {"write_log", "install"} => tail \in 1 .. Len(lh)
  /\ step = "write_head" => lh # <<>> /\ tail = 1
  /\ Len(hdr) <= LOGSIZE

\* A machine that boots has nothing in memory but what recovery read.
BootInv ==
  mode = "boot" =>
    /\ \A p \in Proc : pc[p] = "idle"
    /\ cache = home
    /\ step \in {None, "install", "clear"}
    /\ lh = IF step = None THEN <<>> ELSE hdr

\* What is dirty is in the log and not installed; the rest is as on disk.
DirtyInv ==
  /\ \A b \in Block : dirty[b] => b \in Range(lh) /\ mode # "boot" /\ step # "clear"
  /\ step = "install" => \A k \in 1 .. tail - 1 : ~dirty[lh[k]]

\* Nothing is left in the log when nobody is inside and nobody commits.
QuietInv == mode = "run" /\ outstanding = 0 /\ ~committing => lh = <<>>

\* The types, but for the contents of blocks: what the machine reads past the
\* end of the log is no business of these invariants.
Shape ==
  /\ home = [b \in Block |-> home[b]]
  /\ cache = [b \in Block |-> cache[b]]
  /\ logblk = [k \in 1 .. nlog - 1 |-> logblk[k]]
  /\ ControlOK

IInv ==
  /\ Shape
  /\ CountInv /\ HeldInv /\ CommitInv /\ BootInv
  /\ DirtyInv /\ QuietInv
  /\ Pinned /\ SpaceReserved /\ SleepersWoken

-----------------------------------------------------------------------------
(* Facts the steps share *)

\* The assumptions on the constants.
LEMMA Sizes ==
  /\ MAXOPBLOCKS \in Nat /\ MAXOPBLOCKS > 0
  /\ LOGSIZE \in Nat /\ LOGSIZE >= MAXOPBLOCKS
  /\ None \notin Block
  BY LogAssumption DEF LOGSIZE

\* Appending adds one element.
LEMMA RangeAppend ==
  ASSUME NEW S, NEW s \in Seq(S), NEW x \in S
  PROVE  Range(Append(s, x)) = Range(s) \cup {x}
<1>1. /\ DOMAIN Append(s, x) = 1 .. Len(s) + 1
      /\ \A k \in 1 .. Len(s) : Append(s, x)[k] = s[k]
      /\ Append(s, x)[Len(s) + 1] = x
      /\ DOMAIN s = 1 .. Len(s) /\ Len(s) \in Nat
  OBVIOUS
<1>2. \A k : k \in 1 .. Len(s) + 1 <=> k \in 1 .. Len(s) \/ k = Len(s) + 1
  BY <1>1
<1>. QED
  BY <1>2 DEF Range

\* outstanding is 0 exactly when nobody is inside an operation.
LEMMA OutstandingFacts ==
  ASSUME IInv
  PROVE  /\ outstanding \in Nat
         /\ outstanding = 0 <=> InOp = {}
         /\ outstanding = 1 => \A p, q \in InOp : p = q
<1>1. outstanding \in Nat /\ (outstanding = 0 <=> InOp = {})
  BY FS_EmptySet DEF IInv, Shape, ControlOK, CountInv
<1>2. ASSUME outstanding = 1 PROVE \A p, q \in InOp : p = q
  <2>1. \E x : InOp = {x}
    BY <1>2, FS_Singleton DEF IInv, CountInv
  <2>. QED
    BY <2>1
<1>. QED
  BY <1>1, <1>2

\* Each operation has at most MAXOPBLOCKS blocks reserved.
LEMMA OwedFacts ==
  ASSUME IInv
  PROVE  /\ IsFiniteSet(Owed)
         /\ Cardinality(Owed) \in Nat
         /\ Cardinality(Owed) <= outstanding * MAXOPBLOCKS
         /\ Len(lh) \in Nat /\ Len(lh) <= LOGSIZE
<1>1. Owed \in SUBSET (InOp \X (1 .. MAXOPBLOCKS))
  BY DEF Owed, Owes, InOp, IInv, CountInv
<1>2. IsFiniteSet(1 .. MAXOPBLOCKS) /\ Cardinality(1 .. MAXOPBLOCKS) = MAXOPBLOCKS
  BY FS_Interval, Sizes
<1>3. /\ IsFiniteSet(InOp \X (1 .. MAXOPBLOCKS))
      /\ Cardinality(InOp \X (1 .. MAXOPBLOCKS)) = outstanding * MAXOPBLOCKS
  BY <1>2, FS_Product DEF IInv, CountInv
<1>4. IsFiniteSet(Owed) /\ Cardinality(Owed) <= outstanding * MAXOPBLOCKS
  BY <1>1, <1>3, FS_Subset
<1>5. Cardinality(Owed) \in Nat
  BY <1>4, FS_CardinalityType
<1>6. Len(lh) \in Nat
  BY DEF IInv
<1>. QED
  BY <1>4, <1>5, Sizes DEF IInv, SpaceReserved

-----------------------------------------------------------------------------
(* Steps *)

\* The step begin_op preserves the invariant.
LEMMA begin_op_Inv ==
  ASSUME NEW p \in Proc, IInv, begin_op(p)
  PROVE  IInv'
<1>1. Shape'
  BY Sizes DEF begin_op, IInv, Shape, ControlOK, diskVars
<1>2. CountInv'
  <2>1. InOp' = InOp \cup {p} /\ p \notin InOp
    BY DEF begin_op, InOp, IInv, Shape, ControlOK
  <2>2. IsFiniteSet(InOp') /\ Cardinality(InOp') = Cardinality(InOp) + 1
    BY <2>1, FS_AddElement DEF IInv, CountInv
  <2>3. \A q \in Proc : Owes(q)' <= MAXOPBLOCKS
    BY Sizes DEF begin_op, IInv, CountInv, Owes
  <2>4. \A q \in Proc : q \notin InOp' => left'[q] = 0
    BY <2>1 DEF begin_op, IInv, CountInv
  <2>. QED
    BY <2>2, <2>3, <2>4 DEF begin_op, IInv, CountInv
<1>3. HeldInv'
  BY DEF begin_op, IInv, Shape, ControlOK, HeldInv
<1>4. CommitInv'
  BY DEF begin_op, IInv, Shape, ControlOK, CommitInv, diskVars, Admits
<1>5. BootInv'
  BY DEF begin_op, BootInv
<1>6. DirtyInv'
  BY DEF begin_op, IInv, DirtyInv
<1>7. Pinned'
  BY DEF begin_op, IInv, Pinned, diskVars
<1>8. SpaceReserved'
  <2>1. Owed' \subseteq Owed \cup ({p} \X (1 .. MAXOPBLOCKS))
    BY DEF begin_op, Owed, Owes
  <2>2. IsFiniteSet({p}) /\ Cardinality({p}) = 1
    BY FS_Singleton
  <2>3. IsFiniteSet(1 .. MAXOPBLOCKS) /\ Cardinality(1 .. MAXOPBLOCKS) = MAXOPBLOCKS
    BY FS_Interval, Sizes
  <2>4. /\ IsFiniteSet({p} \X (1 .. MAXOPBLOCKS))
        /\ Cardinality({p} \X (1 .. MAXOPBLOCKS)) = Cardinality({p}) * Cardinality(1 .. MAXOPBLOCKS)
    BY <2>2, <2>3, FS_Product
  <2> DEFINE A == {p} \X (1 .. MAXOPBLOCKS)
  <2>5. /\ IsFiniteSet(Owed \cup A)
        /\ Cardinality(Owed \cup A) = Cardinality(Owed) + Cardinality(A) - Cardinality(Owed \cap A)
    BY <2>4, OwedFacts, FS_Union
  <2>6. Cardinality(Owed \cap A) \in Nat
    BY OwedFacts, FS_Intersection, FS_CardinalityType
  <2>7. Cardinality(Owed') <= Cardinality(Owed \cup A)
    BY <2>1, <2>5, FS_Subset
  <2>8. Cardinality(Owed') \in Nat
    BY <2>1, <2>5, FS_Subset, FS_CardinalityType
  <2>9. Cardinality(Owed \cup A) \in Nat
    BY <2>5, FS_CardinalityType
  <2>10. Cardinality(Owed') <= (outstanding + 1) * MAXOPBLOCKS
    BY <2>2, <2>3, <2>4, <2>5, <2>6, <2>7, <2>8, OwedFacts, OutstandingFacts, Sizes
  <2>11. Len(lh) + (outstanding + 1) * MAXOPBLOCKS <= LOGSIZE
    BY DEF begin_op, Admits
  <2>12. (outstanding + 1) * MAXOPBLOCKS \in Nat
    BY OutstandingFacts, Sizes
  <2>. QED
    BY <2>8, <2>10, <2>11, Sizes DEF begin_op, SpaceReserved
<1>9. QuietInv'
  BY OutstandingFacts DEF begin_op, QuietInv
<1>10. SleepersWoken'
  BY OutstandingFacts DEF begin_op, SleepersWoken
<1>. QED
  BY <1>1, <1>2, <1>3, <1>4, <1>5, <1>6, <1>7, <1>8, <1>9, <1>10 DEF IInv

\* The step begin_op_sleep preserves the invariant.
LEMMA begin_op_sleep_Inv ==
  ASSUME NEW p \in Proc, IInv, begin_op_sleep(p)
  PROVE  IInv'
<1>1. Shape'
  BY DEF begin_op_sleep, IInv, Shape, ControlOK, diskVars, logVars
<1>2. CountInv'
  <2>1. InOp' = InOp
    BY DEF begin_op_sleep, InOp
  <2>2. \A q \in Proc : Owes(q)' <= MAXOPBLOCKS
    BY DEF begin_op_sleep, IInv, CountInv, Owes
  <2>. QED
    BY <2>1, <2>2 DEF begin_op_sleep, IInv, CountInv, logVars
<1>3. HeldInv'
  BY DEF begin_op_sleep, IInv, HeldInv
<1>4. CommitInv'
  BY DEF begin_op_sleep, IInv, CommitInv, diskVars, logVars
<1>5. BootInv'
  BY DEF begin_op_sleep, BootInv
<1>6. DirtyInv'
  BY DEF begin_op_sleep, IInv, DirtyInv, logVars
<1>7. Pinned'
  BY DEF begin_op_sleep, IInv, Pinned, diskVars, logVars
<1>8. SpaceReserved'
  <2>1. Owed' = Owed
    BY DEF begin_op_sleep, Owed, Owes
  <2>. QED
    BY <2>1 DEF begin_op_sleep, IInv, SpaceReserved, logVars
<1>9. QuietInv'
  BY DEF begin_op_sleep, IInv, QuietInv, logVars
<1>10. SleepersWoken'
  BY Sizes, OutstandingFacts
     DEF begin_op_sleep, IInv, SleepersWoken, QuietInv, logVars, Admits
<1>. QED
  BY <1>1, <1>2, <1>3, <1>4, <1>5, <1>6, <1>7, <1>8, <1>9, <1>10 DEF IInv

\* The step Modify preserves the invariant.
LEMMA Modify_Inv ==
  ASSUME NEW p \in Proc, NEW b \in Block, NEW v \in Val, IInv, Modify(p, b, v)
  PROVE  IInv'
<1>1. Shape'
  <2>1. left[p] - 1 \in 0 .. MAXOPBLOCKS
    BY Sizes DEF Modify, IInv, Shape, ControlOK
  <2>2. ControlOK'
    BY <2>1 DEF Modify, IInv, Shape, ControlOK, diskVars, logVars
  <2>3. cache' = [c \in Block |-> cache'[c]]
    BY DEF Modify, IInv, Shape
  <2>. QED
    BY <2>2 DEF Modify, IInv, Shape, diskVars
<1>2. CountInv'
  <2>1. InOp' = InOp
    BY DEF Modify, InOp
  <2>2. \A q \in Proc : Owes(q)' <= MAXOPBLOCKS
    BY DEF Modify, IInv, CountInv, Owes, Shape, ControlOK
  <2>. QED
    BY <2>1, <2>2 DEF Modify, IInv, CountInv, logVars
<1>3. HeldInv'
  BY DEF Modify, IInv, Shape, ControlOK, HeldInv
<1>4. CommitInv'
  BY DEF Modify, IInv, CommitInv, diskVars, logVars
<1>5. BootInv'
  BY DEF Modify, BootInv
<1>6. DirtyInv'
  BY Sizes, OutstandingFacts, OwedFacts
     DEF Modify, IInv, DirtyInv, Shape, ControlOK, Range, CommitInv, HeldInv, BootInv,
         diskVars, logVars, procVars, WakeAll, WakeDone, Logged, LastEntry, LastOut,
         Recyclable, TooBig, None
<1>7. Pinned'
  <2>1. held[p] = None /\ held' = [held EXCEPT ![p] = b] /\ b # None
    BY DEF Modify, IInv, HeldInv
  <2>2. \A c \in Block : c # b => cache'[c] = cache[c]
    BY DEF Modify
  <2>3. ASSUME NEW c \in Block, \A q \in Proc : held'[q] # c
        PROVE  c # b /\ \A q \in Proc : held[q] # c
    BY <2>1, <2>3, Sizes DEF IInv, Shape, ControlOK
  <2>. QED
    BY <2>3 DEF Modify, IInv, Pinned, diskVars, logVars
<1>8. SpaceReserved'
  <2>1. Owed' = Owed
    BY DEF Modify, Owed, Owes, IInv, Shape, ControlOK, CountInv
  <2>. QED
    BY <2>1 DEF Modify, IInv, SpaceReserved, logVars
<1>9. QuietInv'
  BY OutstandingFacts DEF Modify, QuietInv, InOp, logVars
<1>10. SleepersWoken'
  BY OutstandingFacts DEF Modify, SleepersWoken, InOp, logVars
<1>. QED
  BY <1>1, <1>2, <1>3, <1>4, <1>5, <1>6, <1>7, <1>8, <1>9, <1>10 DEF IInv

\* The step log_write_check preserves the invariant.
LEMMA log_write_check_Inv ==
  ASSUME NEW p \in Proc, IInv, log_write_check(p)
  PROVE  IInv'
<1>1. Shape'
  BY DEF log_write_check, IInv, Shape, ControlOK, diskVars, logVars
<1>2. CountInv'
  <2>1. InOp' = InOp
    BY DEF log_write_check, InOp
  <2>2. \A q \in Proc : Owes(q)' <= MAXOPBLOCKS
    BY DEF log_write_check, IInv, CountInv, Owes
  <2>. QED
    BY <2>1, <2>2 DEF log_write_check, IInv, CountInv, logVars
<1>3. HeldInv'
  BY DEF log_write_check, IInv, HeldInv
<1>4. CommitInv'
  BY DEF log_write_check, IInv, CommitInv, diskVars, logVars
<1>5. BootInv'
  BY DEF log_write_check, BootInv
<1>6. DirtyInv'
  BY DEF log_write_check, IInv, DirtyInv, logVars
<1>7. Pinned'
  BY DEF log_write_check, IInv, Pinned, diskVars, logVars
<1>8. SpaceReserved'
  <2>1. Owed' = Owed
    BY DEF log_write_check, Owed, Owes
  <2>. QED
    BY <2>1 DEF log_write_check, IInv, SpaceReserved, logVars
<1>9. QuietInv'
  BY DEF log_write_check, QuietInv, logVars
<1>10. SleepersWoken'
  BY OutstandingFacts DEF log_write_check, SleepersWoken, logVars
<1>. QED
  BY <1>1, <1>2, <1>3, <1>4, <1>5, <1>6, <1>7, <1>8, <1>9, <1>10 DEF IInv

\* The step log_write_panic preserves the invariant.
LEMMA log_write_panic_Inv ==
  ASSUME NEW p \in Proc, IInv, log_write_panic(p)
  PROVE  IInv'
<1>1. Shape'
  BY DEF log_write_panic, IInv, Shape, ControlOK, diskVars, logVars, procVars
<1>2. CountInv'
  BY DEF log_write_panic, IInv, CountInv, InOp, Owes, logVars, procVars
<1>3. HeldInv'
  BY DEF log_write_panic, IInv, HeldInv, procVars
<1>4. CommitInv'
  <2>1. outstanding # 0
    BY OutstandingFacts DEF log_write_panic, InOp
  <2>2. ~committing /\ step = None
    BY <2>1 DEF log_write_panic, IInv, CommitInv
  <2>. QED
    BY <2>2 DEF log_write_panic, IInv, CommitInv, diskVars, logVars, procVars
<1>5. BootInv'
  BY DEF log_write_panic, BootInv
<1>6. DirtyInv'
  BY Sizes, OutstandingFacts, OwedFacts
     DEF log_write_panic, IInv, DirtyInv, Shape, ControlOK, Range, CommitInv, HeldInv,
         BootInv, diskVars, logVars, procVars, WakeAll, WakeDone, Logged, LastEntry,
         LastOut, Recyclable, TooBig, None
<1>7. Pinned'
  BY DEF log_write_panic, IInv, Pinned, diskVars, procVars
<1>8. SpaceReserved'
  BY Sizes, OutstandingFacts, OwedFacts
     DEF log_write_panic, IInv, SpaceReserved, Owed, Owes, CommitInv, HeldInv, BootInv,
         diskVars, logVars, procVars, WakeAll, WakeDone, Logged, LastEntry, LastOut,
         Recyclable, Admits, None
<1>9. QuietInv'
  BY DEF log_write_panic, QuietInv
<1>10. SleepersWoken'
  BY OutstandingFacts DEF log_write_panic, SleepersWoken, InOp, logVars
<1>. QED
  BY <1>1, <1>2, <1>3, <1>4, <1>5, <1>6, <1>7, <1>8, <1>9, <1>10 DEF IInv

\* The step log_write preserves the invariant.
LEMMA log_write_Inv ==
  ASSUME NEW p \in Proc, IInv, log_write(p)
  PROVE  IInv'
<1>1. Shape'
  <2>1. held[p] \in Block
    BY DEF log_write, IInv, Shape, ControlOK, HeldInv
  <2>2. lh' \in Seq(Block) /\ IsInjective(lh')
    BY <2>1 DEF log_write, Logged, IInv, Shape, ControlOK, IsInjective, Range
  <2>. QED
    BY <2>2 DEF log_write, IInv, Shape, ControlOK, diskVars
<1>2. CountInv'
  <2>1. InOp' = InOp
    BY DEF log_write, InOp
  <2>2. \A q \in Proc : Owes(q)' <= MAXOPBLOCKS
    BY DEF log_write, IInv, CountInv, Owes, Shape, ControlOK
  <2>. QED
    BY <2>1, <2>2 DEF log_write, IInv, CountInv
<1>3. HeldInv'
  BY DEF log_write, IInv, Shape, ControlOK, HeldInv
<1>4. CommitInv'
  <2>1. outstanding # 0
    BY OutstandingFacts DEF log_write, InOp
  <2>2. ~committing /\ step = None
    BY <2>1 DEF log_write, IInv, CommitInv
  <2>3. ~committing' /\ \A q \in Proc : pc'[q] # "commit"
    BY <2>2 DEF log_write, IInv, CommitInv
  <2>. QED
    BY <2>3 DEF log_write, IInv, CommitInv, diskVars, None
<1>5. BootInv'
  BY DEF log_write, BootInv
<1>6. DirtyInv'
  <2>1. held[p] \in Block
    BY DEF log_write, IInv, Shape, ControlOK, HeldInv
  <2>2. Range(lh') = Range(lh) \cup {held[p]}
    BY <2>1, RangeAppend DEF log_write, Logged, IInv, Shape, ControlOK
  <2>3. step = None
    BY OutstandingFacts DEF log_write, InOp, IInv, CommitInv
  <2>. QED
    BY <2>2, <2>3 DEF log_write, IInv, DirtyInv, None
<1>7. Pinned'
  <2>1. held[p] \in Block
    BY DEF log_write, IInv, Shape, ControlOK, HeldInv
  <2>2. Range(lh') = Range(lh) \cup {held[p]}
    BY <2>1, RangeAppend DEF log_write, Logged, IInv, Shape, ControlOK
  <2>3. \A c \in Block : dirty'[c] <=> dirty[c] \/ c = held[p]
    BY DEF log_write, IInv, Shape, ControlOK
  <2>4. Range(lh) \subseteq Block
    BY DEF IInv, Shape, ControlOK, Range
  <2>5. ASSUME NEW c \in Block, \A q \in Proc : held'[q] # c, ~dirty'[c]
        PROVE  \A q \in Proc : held[q] # c
    BY <2>3, <2>5 DEF log_write
  <2>6. \A c \in Block : (\A q \in Proc : held'[q] # c) /\ ~dirty'[c] => cache[c] = home[c]
    BY <2>3, <2>5 DEF IInv, Pinned
  <2>7. mode = "run" /\ step # "install" /\ step # "clear" => \A c \in Range(lh') : dirty'[c]
    BY <2>1, <2>2, <2>3, <2>4 DEF IInv, Pinned
  <2>. QED
    BY <2>6, <2>7 DEF log_write, Pinned, diskVars
<1>8. SpaceReserved'
  <2>1. Owes(p) \in 1 .. MAXOPBLOCKS
    BY DEF log_write, Owes, IInv, Shape, ControlOK, CountInv
  <2>2. Owed' = Owed \ {<<p, Owes(p)>>} /\ <<p, Owes(p)>> \in Owed
    BY <2>1 DEF log_write, Owed, Owes, IInv, Shape, ControlOK
  <2>3. Cardinality(Owed') = Cardinality(Owed) - 1
    BY <2>2, OwedFacts, FS_RemoveElement
  <2>4. Len(lh') <= Len(lh) + 1 /\ Len(lh') \in Nat
    BY DEF log_write, Logged
  <2>. QED
    BY <2>3, <2>4, OwedFacts, Sizes DEF IInv, SpaceReserved
<1>9. QuietInv'
  BY OutstandingFacts DEF log_write, QuietInv, InOp
<1>10. SleepersWoken'
  BY OutstandingFacts DEF log_write, SleepersWoken, InOp
<1>. QED
  BY <1>1, <1>2, <1>3, <1>4, <1>5, <1>6, <1>7, <1>8, <1>9, <1>10 DEF IInv

\* The step end_op preserves the invariant.
LEMMA end_op_Inv ==
  ASSUME NEW p \in Proc, IInv, end_op(p)
  PROVE  IInv'
<1>1. Shape'
  <2>1. outstanding - 1 \in Nat
    BY OutstandingFacts DEF end_op, InOp
  <2>. QED
    BY <2>1, Sizes DEF end_op, IInv, Shape, ControlOK, WakeAll, diskVars
<1>2. CountInv'
  <2>1. InOp' = InOp \ {p} /\ p \in InOp
    BY DEF end_op, InOp, WakeAll
  <2>2. IsFiniteSet(InOp') /\ Cardinality(InOp') = Cardinality(InOp) - 1
    BY <2>1, FS_RemoveElement DEF IInv, CountInv
  <2>3. \A q \in Proc : Owes(q)' <= MAXOPBLOCKS
    BY Sizes DEF end_op, IInv, CountInv, Owes, WakeAll
  <2>4. \A q \in Proc : q \notin InOp' => left'[q] = 0
    BY <2>1 DEF end_op, IInv, CountInv, Shape, ControlOK
  <2>. QED
    BY <2>2, <2>3, <2>4 DEF end_op, IInv, CountInv
<1>3. HeldInv'
  BY DEF end_op, IInv, HeldInv, WakeAll
<1>4. CommitInv'
  <2>1. outstanding # 0
    BY OutstandingFacts DEF end_op, InOp
  <2>2. ~committing /\ step = None
    BY <2>1 DEF end_op, IInv, CommitInv
  <2>3. ~committing' /\ \A q \in Proc : pc'[q] # "commit"
    BY <2>2 DEF end_op, IInv, CommitInv, WakeAll
  <2>. QED
    BY <2>3 DEF end_op, IInv, CommitInv, diskVars
<1>5. BootInv'
  BY DEF end_op, BootInv
<1>6. DirtyInv'
  BY DEF end_op, IInv, DirtyInv
<1>7. Pinned'
  BY DEF end_op, IInv, Pinned, diskVars
<1>8. SpaceReserved'
  <2>1. Owed' \in SUBSET Owed
    BY DEF end_op, Owed, Owes, WakeAll
  <2>2. Cardinality(Owed') <= Cardinality(Owed) /\ Cardinality(Owed') \in Nat
    BY <2>1, OwedFacts, FS_Subset, FS_CardinalityType
  <2>. QED
    BY <2>2, OwedFacts, Sizes DEF end_op, IInv, SpaceReserved
<1>9. QuietInv'
  BY OutstandingFacts DEF end_op, QuietInv, LastOut
<1>10. SleepersWoken'
  BY DEF end_op, SleepersWoken, WakeAll
<1>. QED
  BY <1>1, <1>2, <1>3, <1>4, <1>5, <1>6, <1>7, <1>8, <1>9, <1>10 DEF IInv

\* The step end_op_commit preserves the invariant.
LEMMA end_op_commit_Inv ==
  ASSUME NEW p \in Proc, IInv, end_op_commit(p)
  PROVE  IInv'
<1>1. Shape'
  BY Sizes DEF end_op_commit, IInv, Shape, ControlOK, diskVars, LastOut
<1>2. CountInv'
  <2>1. InOp' = InOp \ {p} /\ p \in InOp
    BY DEF end_op_commit, InOp, IInv, Shape, ControlOK
  <2>2. IsFiniteSet(InOp') /\ Cardinality(InOp') = Cardinality(InOp) - 1
    BY <2>1, FS_RemoveElement DEF IInv, CountInv
  <2>3. \A q \in Proc : Owes(q)' <= MAXOPBLOCKS
    BY Sizes DEF end_op_commit, IInv, CountInv, Owes
  <2>4. \A q \in Proc : q \notin InOp' => left'[q] = 0
    BY <2>1 DEF end_op_commit, IInv, CountInv, Shape, ControlOK
  <2>. QED
    BY <2>2, <2>3, <2>4 DEF end_op_commit, IInv, CountInv
<1>3. HeldInv'
  BY DEF end_op_commit, IInv, HeldInv, None
<1>4. CommitInv'
  BY DEF end_op_commit, IInv, Shape, ControlOK, CommitInv, diskVars, LastOut, None
<1>5. BootInv'
  BY DEF end_op_commit, BootInv
<1>6. DirtyInv'
  BY DEF end_op_commit, IInv, DirtyInv, None
<1>7. Pinned'
  BY DEF end_op_commit, IInv, Pinned, CommitInv, diskVars, LastOut, None
<1>8. SpaceReserved'
  <2>1. Owed' \in SUBSET Owed
    BY DEF end_op_commit, Owed, Owes
  <2>2. Cardinality(Owed') <= Cardinality(Owed) /\ Cardinality(Owed') \in Nat
    BY <2>1, OwedFacts, FS_Subset, FS_CardinalityType
  <2>. QED
    BY <2>2, OwedFacts, Sizes DEF end_op_commit, IInv, SpaceReserved
<1>9. QuietInv'
  BY DEF end_op_commit, QuietInv
<1>10. SleepersWoken'
  BY DEF end_op_commit, SleepersWoken
<1>. QED
  BY <1>1, <1>2, <1>3, <1>4, <1>5, <1>6, <1>7, <1>8, <1>9, <1>10 DEF IInv

\* The step commit_done preserves the invariant.
LEMMA commit_done_Inv ==
  ASSUME NEW p \in Proc, IInv, commit_done(p)
  PROVE  IInv'
<1>1. Shape'
  BY DEF commit_done, IInv, Shape, ControlOK, diskVars, WakeAll, WakeDone
<1>2. CountInv'
  BY DEF commit_done, IInv, CountInv, InOp, Owes, WakeAll, WakeDone
<1>3. HeldInv'
  BY DEF commit_done, IInv, HeldInv, WakeAll, WakeDone
<1>4. CommitInv'
  BY DEF commit_done, IInv, CommitInv, diskVars, WakeAll, WakeDone
<1>5. BootInv'
  BY DEF commit_done, BootInv
<1>6. DirtyInv'
  BY DEF commit_done, IInv, DirtyInv
<1>7. Pinned'
  BY DEF commit_done, IInv, Pinned, diskVars
<1>8. SpaceReserved'
  BY DEF commit_done, IInv, SpaceReserved, Owed, Owes, WakeAll, WakeDone
<1>9. QuietInv'
  BY DEF commit_done, IInv, QuietInv, CommitInv
<1>10. SleepersWoken'
  BY DEF commit_done, SleepersWoken, WakeAll, WakeDone
<1>. QED
  BY <1>1, <1>2, <1>3, <1>4, <1>5, <1>6, <1>7, <1>8, <1>9, <1>10 DEF IInv

\* The step write_log preserves the invariant.
LEMMA write_log_Inv ==
  ASSUME IInv, write_log
  PROVE  IInv'
<1>1. Shape'
  <2>2. tail' \in 1 .. LOGSIZE + 1
    BY OwedFacts, Sizes DEF write_log, IInv, CommitInv
  <2>. QED
    BY <2>2 DEF write_log, IInv, Shape, ControlOK, logVars, procVars
<1>2. CountInv'
  BY DEF write_log, IInv, CountInv, InOp, Owes, logVars, procVars
<1>3. HeldInv'
  BY DEF write_log, IInv, HeldInv, procVars
<1>4. CommitInv'
  BY DEF write_log, IInv, CommitInv, logVars, procVars, LastEntry, None
<1>5. BootInv'
  BY DEF write_log, BootInv
<1>6. DirtyInv'
  BY DEF write_log, IInv, DirtyInv, logVars
<1>7. Pinned'
  BY DEF write_log, IInv, Pinned, logVars, procVars
<1>8. SpaceReserved'
  BY DEF write_log, IInv, SpaceReserved, Owed, Owes, logVars, procVars
<1>9. QuietInv'
  BY DEF write_log, IInv, QuietInv, logVars
<1>10. SleepersWoken'
  BY DEF write_log, IInv, SleepersWoken, logVars, procVars
<1>. QED
  BY <1>1, <1>2, <1>3, <1>4, <1>5, <1>6, <1>7, <1>8, <1>9, <1>10 DEF IInv

\* The step write_head preserves the invariant.
LEMMA write_head_Inv ==
  ASSUME IInv, write_head
  PROVE  IInv'
<1>1. Shape'
  BY DEF write_head, IInv, Shape, ControlOK, logVars, procVars
<1>2. CountInv'
  BY DEF write_head, IInv, CountInv, InOp, Owes, logVars, procVars
<1>3. HeldInv'
  BY DEF write_head, IInv, HeldInv, procVars
<1>4. CommitInv'
  BY OwedFacts DEF write_head, IInv, CommitInv, logVars, procVars, None
<1>5. BootInv'
  BY DEF write_head, BootInv
<1>6. DirtyInv'
  BY DEF write_head, IInv, DirtyInv, CommitInv, logVars
<1>7. Pinned'
  BY DEF write_head, IInv, Pinned, procVars
<1>8. SpaceReserved'
  BY DEF write_head, IInv, SpaceReserved, Owed, Owes, logVars, procVars
<1>9. QuietInv'
  BY DEF write_head, IInv, QuietInv, logVars
<1>10. SleepersWoken'
  BY DEF write_head, IInv, SleepersWoken, logVars, procVars
<1>. QED
  BY <1>1, <1>2, <1>3, <1>4, <1>5, <1>6, <1>7, <1>8, <1>9, <1>10 DEF IInv

\* The step install_trans preserves the invariant.
LEMMA install_trans_Inv ==
  ASSUME IInv, install_trans
  PROVE  IInv'
<1>1. Shape'
  <2>1. lh[tail] \in Block
    BY DEF install_trans, IInv, Shape, ControlOK, CommitInv
  <2>2. tail' \in 1 .. LOGSIZE + 1
    BY OwedFacts, Sizes DEF install_trans, IInv, CommitInv
  <2>. QED
    BY <2>2 DEF install_trans, IInv, Shape, ControlOK, logVars, procVars
<1>2. CountInv'
  BY DEF install_trans, IInv, CountInv, InOp, Owes, logVars, procVars
<1>3. HeldInv'
  BY DEF install_trans, IInv, HeldInv, procVars
<1>4. CommitInv'
  BY DEF install_trans, IInv, CommitInv, logVars, procVars, LastEntry, None
<1>5. BootInv'
  BY DEF install_trans, IInv, BootInv, logVars, procVars, None
<1>6. DirtyInv'
  <2>1. lh[tail] \in Block /\ tail \in 1 .. Len(lh) /\ Len(lh) \in Nat /\ lh' = lh
    BY DEF install_trans, IInv, Shape, ControlOK, CommitInv, logVars
  <2>2. \A b \in Block : dirty'[b] => dirty[b] /\ b # lh[tail]
    BY DEF install_trans, IInv, Shape, ControlOK
  <2>3. \A b \in Block : dirty'[b] => b \in Range(lh') /\ mode' # "boot"
    BY <2>1 DEF install_trans, IInv, DirtyInv
  <2>4. \A k \in 1 .. tail : ~dirty'[lh[k]]
    BY <2>1, <2>2 DEF install_trans, IInv, DirtyInv
  <2>5. CASE LastEntry
    <3>1. \A b \in Block : ~dirty'[b]
      BY <2>1, <2>3, <2>4, <2>5 DEF LastEntry, Range
    <3>. QED
      BY <3>1, <2>5 DEF install_trans, DirtyInv
  <2>6. CASE ~LastEntry
    <3>1. step' = "install" /\ tail' = tail + 1
      BY <2>6 DEF install_trans
    <3>. QED
      BY <2>1, <2>3, <2>4, <3>1 DEF DirtyInv
  <2>. QED
    BY <2>5, <2>6
<1>7. Pinned'
  BY DEF install_trans, IInv, Pinned, Shape, procVars
<1>8. SpaceReserved'
  BY DEF install_trans, IInv, SpaceReserved, Owed, Owes, logVars, procVars
<1>9. QuietInv'
  BY DEF install_trans, IInv, QuietInv, logVars
<1>10. SleepersWoken'
  BY DEF install_trans, IInv, SleepersWoken, logVars, procVars
<1>. QED
  BY <1>1, <1>2, <1>3, <1>4, <1>5, <1>6, <1>7, <1>8, <1>9, <1>10 DEF IInv

\* The step clear_head preserves the invariant.
LEMMA clear_head_Inv ==
  ASSUME IInv, clear_head
  PROVE  IInv'
<1>1. Shape'
  <2>1. IsInjective(<<>>) /\ <<>> \in Seq(Block)
    BY DEF IsInjective
  <2>. QED
    BY <2>1 DEF clear_head, IInv, Shape, ControlOK, procVars
<1>2. CountInv'
  BY DEF clear_head, IInv, CountInv, InOp, Owes, procVars
<1>3. HeldInv'
  BY DEF clear_head, IInv, HeldInv, procVars
<1>4. CommitInv'
  BY Sizes DEF clear_head, IInv, CommitInv, procVars, None
<1>5. BootInv'
  BY DEF clear_head, BootInv
<1>6. DirtyInv'
  BY DEF clear_head, IInv, DirtyInv, None
<1>7. Pinned'
  BY DEF clear_head, IInv, Pinned, Range, procVars
<1>8. SpaceReserved'
  <2>1. Owed' = Owed /\ Len(lh') = 0
    BY DEF clear_head, Owed, Owes, procVars
  <2>. QED
    BY <2>1, OwedFacts, Sizes DEF IInv, SpaceReserved
<1>9. QuietInv'
  BY DEF clear_head, QuietInv
<1>10. SleepersWoken'
  BY DEF clear_head, IInv, SleepersWoken, procVars
<1>. QED
  BY <1>1, <1>2, <1>3, <1>4, <1>5, <1>6, <1>7, <1>8, <1>9, <1>10 DEF IInv

\* The step recover preserves the invariant.
LEMMA recover_Inv ==
  ASSUME IInv, recover(hdr)
  PROVE  IInv'
<1>1. Shape'
  BY Sizes DEF recover, IInv, Shape, ControlOK, diskVars, procVars
<1>2. CountInv'
  BY DEF recover, IInv, CountInv, InOp, Owes, procVars
<1>3. HeldInv'
  BY DEF recover, IInv, HeldInv, procVars
<1>4. CommitInv'
  BY DEF recover, IInv, CommitInv, diskVars, procVars
<1>5. BootInv'
  BY DEF recover, IInv, BootInv, diskVars, procVars, None
<1>6. DirtyInv'
  BY DEF recover, IInv, DirtyInv
<1>7. Pinned'
  BY DEF recover, IInv, Pinned, diskVars, procVars
<1>8. SpaceReserved'
  <2>1. Owed' = {}
    BY DEF recover, Owed, Owes, IInv, BootInv, CountInv, InOp, procVars
  <2>2. Len(lh') \in Nat /\ Len(lh') <= LOGSIZE
    BY DEF recover, IInv, CommitInv
  <2>. QED
    BY <2>1, <2>2, FS_EmptySet DEF SpaceReserved
<1>9. QuietInv'
  BY DEF recover, QuietInv
<1>10. SleepersWoken'
  BY DEF recover, IInv, SleepersWoken, procVars
<1>. QED
  BY <1>1, <1>2, <1>3, <1>4, <1>5, <1>6, <1>7, <1>8, <1>9, <1>10 DEF IInv

\* The step Recycle preserves the invariant.
LEMMA Recycle_Inv ==
  ASSUME NEW b \in Block, IInv, Recycle(b)
  PROVE  IInv'
<1>1. Shape'
  BY DEF Recycle, IInv, Shape, ControlOK, diskVars, logVars, procVars
<1>2. CountInv'
  BY DEF Recycle, IInv, CountInv, InOp, Owes, logVars, procVars
<1>3. HeldInv'
  BY DEF Recycle, IInv, HeldInv, procVars
<1>4. CommitInv'
  BY DEF Recycle, IInv, CommitInv, diskVars, logVars, procVars
<1>5. BootInv'
  BY DEF Recycle, IInv, Shape, BootInv, diskVars, logVars, procVars
<1>6. DirtyInv'
  BY DEF Recycle, IInv, DirtyInv, logVars
<1>7. Pinned'
  BY DEF Recycle, IInv, Pinned, diskVars, logVars, procVars, Recyclable
<1>8. SpaceReserved'
  BY DEF Recycle, IInv, SpaceReserved, Owed, Owes, logVars, procVars
<1>9. QuietInv'
  BY DEF Recycle, IInv, QuietInv, logVars
<1>10. SleepersWoken'
  BY DEF Recycle, IInv, SleepersWoken, logVars, procVars
<1>. QED
  BY <1>1, <1>2, <1>3, <1>4, <1>5, <1>6, <1>7, <1>8, <1>9, <1>10 DEF IInv

\* The step Crash preserves the invariant.
LEMMA Crash_Inv ==
  ASSUME IInv, Crash
  PROVE  IInv'
<1>1. Shape'
  <2>1. IsInjective(<<>>) /\ <<>> \in Seq(Block)
    BY DEF IsInjective
  <2>2. hdr' = hdr /\ lh' = <<>> /\ outstanding' = 0 /\ committing' = FALSE
        /\ step' = None /\ tail' = 1 /\ mode' = "boot"
    BY DEF Crash, diskVars
  <2>3. /\ pc' = [q \in Proc |-> "idle"]
        /\ held' = [q \in Proc |-> None]
        /\ left' = [q \in Proc |-> 0]
        /\ dirty' = [c \in Block |-> FALSE]
    BY DEF Crash
  <2>4. 0 \in 0 .. MAXOPBLOCKS /\ 1 \in 1 .. LOGSIZE + 1
    BY Sizes
  <2>5. /\ pc' \in [Proc -> {"idle", "asleep", "op", "modified", "checked", "commit"}]
        /\ held' \in [Proc -> Block \cup {None}]
        /\ left' \in [Proc -> 0 .. MAXOPBLOCKS]
        /\ dirty' \in [Block -> BOOLEAN]
    BY <2>3, <2>4
  <2>6. ControlOK'
    BY <2>1, <2>2, <2>4, <2>5 DEF IInv, Shape, ControlOK
  <2>. QED
    BY <2>6 DEF Crash, IInv, Shape, diskVars
<1>2. CountInv'
  <2>1. InOp' = {}
    BY DEF Crash, InOp
  <2>2. \A q \in Proc : Owes(q)' = 0 /\ left'[q] = 0
    BY DEF Crash, Owes
  <2>. QED
    BY <2>1, <2>2, FS_EmptySet, Sizes DEF Crash, CountInv
<1>3. HeldInv'
  BY DEF Crash, HeldInv
<1>4. CommitInv'
  BY DEF Crash, IInv, CommitInv, diskVars, None
<1>5. BootInv'
  BY DEF Crash, BootInv, diskVars
<1>6. DirtyInv'
  BY DEF Crash, DirtyInv
<1>7. Pinned'
  BY DEF Crash, Pinned, diskVars
<1>8. SpaceReserved'
  <2>1. Owed' = {} /\ Len(lh') = 0
    BY DEF Crash, Owed, Owes
  <2>. QED
    BY <2>1, FS_EmptySet, Sizes DEF SpaceReserved
<1>9. QuietInv'
  BY DEF Crash, QuietInv
<1>10. SleepersWoken'
  BY DEF Crash, SleepersWoken
<1>. QED
  BY <1>1, <1>2, <1>3, <1>4, <1>5, <1>6, <1>7, <1>8, <1>9, <1>10 DEF IInv

-----------------------------------------------------------------------------
(* The invariant holds *)

\* It holds of a freshly formatted disk and a machine that has just booted.
LEMMA Init_Inv == Init => IInv
<1>. SUFFICES ASSUME Init PROVE IInv
  OBVIOUS
<1>1. IsInjective(<<>>) /\ <<>> \in Seq(Block) /\ Range(<<>>) = {} /\ Len(<<>>) = 0
  BY DEF IsInjective, Range
<1>2. 0 \in 0 .. MAXOPBLOCKS /\ 1 \in 1 .. LOGSIZE + 1
  BY Sizes
<1>3. Shape
  BY <1>1, <1>2, Sizes DEF Init, Shape, ControlOK
<1>4. InOp = {} /\ Owed = {}
  BY Sizes DEF Init, InOp, Owed, Owes
<1>5. CountInv /\ SpaceReserved
  BY <1>1, <1>4, FS_EmptySet, Sizes DEF Init, CountInv, SpaceReserved, Owes
<1>6. HeldInv /\ CommitInv /\ BootInv
  BY <1>1, Sizes DEF Init, HeldInv, CommitInv, BootInv, None
<1>7. DirtyInv /\ Pinned /\ QuietInv /\ SleepersWoken
  BY <1>1 DEF Init, DirtyInv, Pinned, QuietInv, SleepersWoken, None
<1>. QED
  BY <1>3, <1>5, <1>6, <1>7 DEF IInv

\* Every step preserves the invariant.
LEMMA Next_Inv == IInv /\ [Next]_vars => IInv'
<1>. SUFFICES ASSUME IInv, [Next]_vars PROVE IInv'
  OBVIOUS
<1>1. CASE UNCHANGED vars
  <2>1. /\ Shape' = Shape /\ CountInv' = CountInv /\ HeldInv' = HeldInv
        /\ CommitInv' = CommitInv
    BY <1>1 DEF vars, diskVars, logVars, procVars, Shape, ControlOK, CountInv, HeldInv,
                CommitInv, InOp, Owes
  <2>2. /\ BootInv' = BootInv /\ DirtyInv' = DirtyInv /\ QuietInv' = QuietInv
        /\ Pinned' = Pinned
    BY <1>1 DEF vars, diskVars, logVars, procVars, BootInv, DirtyInv, QuietInv, Pinned
  <2>3. SpaceReserved' = SpaceReserved /\ SleepersWoken' = SleepersWoken
    BY <1>1 DEF vars, diskVars, logVars, procVars, SpaceReserved, Owed, Owes, SleepersWoken
  <2>. QED
    BY <2>1, <2>2, <2>3 DEF IInv
<1>2. ASSUME NEW p \in Proc,
             \/ begin_op(p) \/ begin_op_sleep(p)
             \/ \E b \in Block, v \in Val : Modify(p, b, v)
             \/ log_write_check(p) \/ log_write_panic(p) \/ log_write(p)
             \/ end_op(p) \/ end_op_commit(p) \/ commit_done(p)
      PROVE  IInv'
  BY <1>2, begin_op_Inv, begin_op_sleep_Inv, Modify_Inv, log_write_check_Inv,
     log_write_panic_Inv, log_write_Inv, end_op_Inv, end_op_commit_Inv, commit_done_Inv
<1>3. CASE write_log \/ write_head \/ install_trans \/ clear_head \/ recover(hdr)
  BY <1>3, write_log_Inv, write_head_Inv, install_trans_Inv, clear_head_Inv, recover_Inv
<1>4. CASE \E b \in Block : Recycle(b)
  BY <1>4, Recycle_Inv
<1>5. CASE Crash
  BY <1>5, Crash_Inv
<1>. QED
  BY <1>1, <1>2, <1>3, <1>4, <1>5 DEF Next

\* The inductive invariant is one: every reachable state satisfies it.
THEOREM Invariance == Spec => []IInv
<1>. QED
  BY Init_Inv, Next_Inv, PTL DEF Spec

\* begin_op() admits an operation only if what is in the log and what the
\* operations inside may still add fit in LOGSIZE blocks.
THEOREM SpaceIsReserved == Spec => []SpaceReserved
<1>1. IInv => SpaceReserved
  BY DEF IInv
<1>. QED
  BY <1>1, Invariance, PTL

\* A block that log_write() recorded and commit() has not installed is dirty or
\* locked, so that bget() cannot recycle its buffer.
THEOREM DirtyStaysCached == Spec => []Pinned
<1>1. IInv => Pinned
  BY DEF IInv
<1>. QED
  BY <1>1, Invariance, PTL

\* A process asleep in begin_op() always has somebody to wake it: end_op() and
\* commit() forget none.
THEOREM SleepersAreWoken == Spec => []SleepersWoken
<1>1. IInv => SleepersWoken
  BY DEF IInv
<1>. QED
  BY <1>1, Invariance, PTL

-----------------------------------------------------------------------------
(* The log implements AtomicDisk *)

\* The log holds what the cache holds of the blocks written to it so far, and
\* the homes hold what has been installed.
LogInv ==
  /\ step = "write_log" => \A k \in 1 .. tail - 1 : logblk[k] = cache[lh[k]]
  /\ mode = "run" /\ step \in {"write_head", "install", "clear"} =>
       \A k \in 1 .. Len(lh) : logblk[k] = cache[lh[k]]
  /\ step = "install" => \A k \in 1 .. tail - 1 : home[lh[k]] = logblk[k]
  /\ step = "clear" => \A k \in 1 .. Len(lh) : home[lh[k]] = logblk[k]

\* Recovery takes the k-th block of the header from the k-th block of the log.
LEMMA RecoveryIs ==
  ASSUME NEW h \in Seq(Block), IsInjective(h), NEW l, NEW d
  PROVE  /\ \A k \in 1 .. Len(h) : Recovery(h, l, d)[h[k]] = l[k]
         /\ \A b \in Block \ Range(h) : Recovery(h, l, d)[b] = d[b]
<1>1. ASSUME NEW k \in 1 .. Len(h)
      PROVE  Recovery(h, l, d)[h[k]] = l[k]
  <2>1. h[k] \in Block /\ h[k] \in Range(h)
    BY DEF Range
  <2>2. (CHOOSE i \in 1 .. Len(h) : h[i] = h[k]) = k
    BY DEF IsInjective
  <2>. QED
    BY <2>1, <2>2 DEF Recovery
<1>2. \A b \in Block \ Range(h) : Recovery(h, l, d)[b] = d[b]
  BY DEF Recovery
<1>. QED
  BY <1>1, <1>2

\* A function that agrees with the log on the header and with the homes
\* elsewhere is what recovery makes.
LEMMA RecoveryUnique ==
  ASSUME NEW h \in Seq(Block), IsInjective(h), NEW l, NEW d, NEW f,
         f = [b \in Block |-> f[b]],
         \A k \in 1 .. Len(h) : f[h[k]] = l[k],
         \A b \in Block \ Range(h) : f[b] = d[b]
  PROVE  Recovery(h, l, d) = f
<1>1. ASSUME NEW b \in Block
      PROVE  Recovery(h, l, d)[b] = f[b]
  <2>1. CASE b \in Range(h)
    <3>1. PICK k \in 1 .. Len(h) : h[k] = b
      BY <2>1 DEF Range
    <3>. QED
      BY <3>1, RecoveryIs
  <2>2. CASE b \notin Range(h)
    BY <2>2, RecoveryIs
  <2>. QED
    BY <2>1, <2>2
<1>. QED
  BY <1>1 DEF Recovery

\* While a commit runs nobody has a buffer locked, so that no buffer changes
\* but those commit() itself writes.
LEMMA CommitAlone ==
  ASSUME IInv, mode = "run", step # None
  PROVE  /\ committing /\ outstanding = 0
         /\ \A p \in Proc : held[p] = None /\ pc[p] \notin {"op", "modified", "checked"}
<1>1. committing /\ outstanding = 0
  BY DEF IInv, CommitInv
<1>. QED
  BY <1>1, OutstandingFacts DEF InOp, IInv, HeldInv

\* Every step keeps LogInv, as long as the transaction fits in the log on disk.
LEMMA LogInv_Step ==
  ASSUME IInv, LogInv, LogFits, Next
  PROVE  LogInv'
<1>1. ASSUME NEW p \in Proc,
             \/ begin_op(p) \/ begin_op_sleep(p) \/ log_write_check(p) \/ log_write_panic(p)
             \/ log_write(p) \/ end_op(p) \/ commit_done(p)
             \/ \E b \in Block, v \in Val : Modify(p, b, v)
      PROVE  LogInv'
  <2>1. CASE step = None
    BY <1>1, <2>1 DEF LogInv, begin_op, begin_op_sleep, log_write_check, log_write_panic,
                      log_write, end_op, commit_done, Modify, None
  <2>2. CASE step # None
    <3>1. begin_op_sleep(p)
      BY <1>1, <2>2, CommitAlone DEF begin_op, log_write_check, log_write_panic, log_write,
                      end_op, commit_done, Modify, Admits
    <3>. QED
      BY <3>1 DEF LogInv, begin_op_sleep, diskVars, logVars
  <2>. QED
    BY <2>1, <2>2
<1>2. ASSUME NEW p \in Proc, end_op_commit(p)
      PROVE  LogInv'
  BY <1>2 DEF LogInv, end_op_commit, None
<1>3. CASE write_log
  <2>1. tail \in 1 .. Len(lh) /\ Len(lh) <= nlog - 1 /\ Len(lh) \in Nat /\ nlog \in Nat
    BY <1>3, LogAssumption, OwedFacts DEF write_log, IInv, CommitInv, LogFits
  <2>2. \A k \in 1 .. tail : logblk'[k] = cache[lh[k]]
    <3>1. DOMAIN logblk = 1 .. nlog - 1
      BY DEF IInv, Shape
    <3>2. logblk' = [logblk EXCEPT ![tail] = cache[lh[tail]]]
      BY <1>3 DEF write_log
    <3>3. \A k \in 1 .. tail - 1 : logblk[k] = cache[lh[k]]
      BY <1>3 DEF write_log, LogInv
    <3>. QED
      BY <2>1, <3>1, <3>2, <3>3
  <2>. QED
    BY <1>3, <2>1, <2>2 DEF write_log, LogInv, LastEntry, logVars
<1>4. CASE write_head
  <2>1. tail = 1
    BY <1>4 DEF write_head, IInv, CommitInv
  <2>. QED
    BY <1>4, <2>1 DEF write_head, LogInv, logVars
<1>5. CASE install_trans
  <2>1. /\ tail \in 1 .. Len(lh) /\ Len(lh) \in Nat /\ lh \in Seq(Block)
        /\ \A j, k \in 1 .. Len(lh) : lh[j] = lh[k] => j = k
        /\ lh' = lh /\ logblk' = logblk /\ mode' = mode
    BY <1>5 DEF install_trans, IInv, CommitInv, Shape, ControlOK, IsInjective, logVars
  <2>2. \A k \in 1 .. Len(lh) : lh[k] \in DOMAIN home /\ lh[k] \in DOMAIN cache
    BY <2>1 DEF IInv, Shape
  <2>3. \A k \in 1 .. tail : home'[lh[k]] = logblk[k]
    <3>1. /\ home' = [home EXCEPT ![lh[tail]] = logblk[tail]]
          /\ \A k \in 1 .. tail - 1 : home[lh[k]] = logblk[k]
      BY <1>5 DEF install_trans, LogInv
    <3>. QED
      BY <2>1, <2>2, <3>1
  <2>4. mode = "run" => \A k \in 1 .. Len(lh) : cache'[lh[k]] = logblk[k]
    <3>1. /\ cache' = [cache EXCEPT ![lh[tail]] = logblk[tail]]
          /\ mode = "run" => \A k \in 1 .. Len(lh) : cache[lh[k]] = logblk[k]
      BY <1>5 DEF install_trans, LogInv
    <3>. QED
      BY <2>1, <2>2, <3>1
  <2>. QED
    BY <1>5, <2>1, <2>3, <2>4 DEF install_trans, LogInv, LastEntry
<1>6. CASE clear_head \/ Crash
  BY <1>6 DEF clear_head, Crash, LogInv, None
<1>7. CASE recover(hdr)
  BY <1>7 DEF recover, LogInv, IInv, Shape, ControlOK, None
<1>8. ASSUME NEW b \in Block, Recycle(b)
      PROVE  LogInv'
  <2>1. cache' = cache
    BY <1>8 DEF Recycle, Recyclable, IInv, Pinned, Shape
  <2>. QED
    BY <1>8, <2>1 DEF Recycle, LogInv, diskVars, logVars
<1>. QED
  BY <1>1, <1>2, <1>3, <1>4, <1>5, <1>6, <1>7, <1>8 DEF Next

\* ... and so does a stutter.
LEMMA LogInv_Next == IInv /\ LogInv /\ LogFits /\ [Next]_vars => LogInv'
<1>1. CASE UNCHANGED vars
  BY <1>1 DEF vars, diskVars, logVars, LogInv
<1>. QED
  BY <1>1, LogInv_Step

\* The steps that change neither what is read nor what a crash brings back.
LEMMA Stutter_Step ==
  ASSUME IInv, LogInv,
         \/ \E p \in Proc : \/ begin_op_sleep(p) \/ log_write_check(p) \/ log_write_panic(p)
                            \/ log_write(p) \/ commit_done(p)
         \/ write_log \/ install_trans \/ clear_head \/ recover(hdr)
         \/ \E b \in Block : Recycle(b)
  PROVE  UNCHANGED <<Current, Recovered, outstanding>>
<1>1. ASSUME NEW p \in Proc,
             \/ begin_op_sleep(p) \/ log_write_check(p) \/ log_write_panic(p)
             \/ log_write(p) \/ commit_done(p)
      PROVE  UNCHANGED <<Current, Recovered, outstanding>>
  BY <1>1 DEF begin_op_sleep, log_write_check, log_write_panic, log_write, commit_done,
              Current, Recovered, diskVars, logVars
<1>2. CASE write_log
  <2>1. hdr = <<>> /\ mode = "run"
    BY <1>2 DEF write_log, IInv, CommitInv
  <2>2. Range(<<>>) = {}
    BY DEF Range
  <2>3. Recovered' = Recovered
    BY <1>2, <2>1, <2>2 DEF write_log, Recovered, Recovery
  <2>. QED
    BY <1>2, <2>1, <2>3 DEF write_log, Current, logVars
<1>3. CASE install_trans
  <2>1. /\ tail \in 1 .. Len(lh) /\ lh \in Seq(Block) /\ hdr = lh
        /\ UNCHANGED <<logblk, hdr, outstanding, mode>>
    BY <1>3 DEF install_trans, IInv, CommitInv, BootInv, Shape, ControlOK, logVars, None
  <2>2. lh[tail] \in Block /\ lh[tail] \in Range(hdr)
    BY <2>1 DEF Range
  <2>3. \A b \in Block \ Range(hdr) : home'[b] = home[b]
    BY <1>3, <2>2 DEF install_trans, IInv, Shape
  <2>4. Recovered' = Recovered
    BY <2>1, <2>3 DEF Recovered, Recovery
  <2>5. mode = "run" => cache' = cache
    BY <1>3, <2>1, <2>2 DEF install_trans, LogInv, IInv, Shape
  <2>. QED
    BY <1>3, <2>1, <2>4, <2>5 DEF install_trans, Current, IInv, Shape, ControlOK
<1>4. CASE clear_head
  <2>1. hdr = lh /\ hdr \in Seq(Block) /\ IsInjective(hdr) /\ home = [b \in Block |-> home[b]]
    BY <1>4 DEF clear_head, IInv, CommitInv, BootInv, Shape, ControlOK, None
  <2>2. Recovered = home
    <3>1. \A k \in 1 .. Len(hdr) : home[hdr[k]] = logblk[k]
      BY <1>4, <2>1 DEF clear_head, LogInv
    <3>. QED
      BY <2>1, <3>1, RecoveryUnique DEF Recovered
  <2>3. Recovered' = home
    <3>1. hdr' = <<>> /\ home' = home /\ logblk' = logblk
      BY <1>4 DEF clear_head
    <3>2. Range(<<>>) = {}
      BY DEF Range
    <3>. QED
      BY <2>1, <3>1, <3>2 DEF Recovered, Recovery
  <2>4. mode = "boot" => cache = home
    BY DEF IInv, BootInv
  <2>. QED
    BY <1>4, <2>2, <2>3, <2>4 DEF clear_head, Current
<1>5. CASE recover(hdr)
  BY <1>5 DEF recover, Current, Recovered, diskVars
<1>6. ASSUME NEW b \in Block, Recycle(b)
      PROVE  UNCHANGED <<Current, Recovered, outstanding>>
  <2>1. cache' = cache
    BY <1>6 DEF Recycle, Recyclable, IInv, Pinned, Shape
  <2>. QED
    BY <1>6, <2>1 DEF Recycle, Current, Recovered, diskVars, logVars
<1>. QED
  BY <1>1, <1>2, <1>3, <1>4, <1>5, <1>6

\* The write of the header makes durable what the system reads, when nobody
\* is inside an operation.
LEMMA Commit_Step ==
  ASSUME IInv, LogInv, write_head
  PROVE  Disk!Commit
<1>1. outstanding = 0 /\ \A p \in Proc : held[p] = None
  BY CommitAlone DEF write_head, None
<1>2. \A b \in Block \ Range(lh) : cache[b] = home[b]
  BY <1>1, Sizes DEF IInv, Pinned, DirtyInv
<1>3. \A k \in 1 .. Len(lh) : cache[lh[k]] = logblk[k]
  BY DEF write_head, LogInv
<1>4. lh \in Seq(Block) /\ IsInjective(lh) /\ cache = [b \in Block |-> cache[b]]
  BY DEF IInv, Shape, ControlOK
<1>5. Recovery(lh, logblk, home) = cache
  BY <1>2, <1>3, <1>4, RecoveryUnique
<1>6. Recovered' = cache
  BY <1>5 DEF write_head, Recovered
<1>. QED
  BY <1>1, <1>6 DEF write_head, Disk!Commit, Current, logVars

\* Every step of the log is a step of AtomicDisk or none.
LEMMA Refinement_Step ==
  ASSUME IInv, LogInv, [Next]_vars
  PROVE  [Disk!Next]_<<Current, Recovered, outstanding>>
<1>1. CASE UNCHANGED vars
  BY <1>1 DEF vars, diskVars, logVars, Current, Recovered
<1>2. ASSUME NEW p \in Proc, begin_op(p)
      PROVE  Disk!Begin
  <2>1. (outstanding + 1) * MAXOPBLOCKS <= MAXOPBLOCKS * 3
    BY <1>2, OwedFacts, OutstandingFacts, Sizes DEF begin_op, Admits, LOGSIZE
  <2>2. outstanding < 3
    BY <2>1, OutstandingFacts, Sizes
  <2>. QED
    BY <1>2, <2>2 DEF begin_op, Disk!Begin, Current, Recovered, diskVars
<1>3. ASSUME NEW p \in Proc, NEW b \in Block, NEW v \in Val, Modify(p, b, v)
      PROVE  Disk!Write(b, v)
  <2>1. outstanding > 0
    BY <1>3, OutstandingFacts DEF Modify, InOp
  <2>. QED
    BY <1>3, <2>1 DEF Modify, Disk!Write, Current, Recovered, diskVars, logVars
<1>4. ASSUME NEW p \in Proc, end_op(p) \/ end_op_commit(p)
      PROVE  Disk!End
  <2>1. outstanding > 0
    BY <1>4, OutstandingFacts DEF end_op, end_op_commit, InOp
  <2>. QED
    BY <1>4, <2>1 DEF end_op, end_op_commit, Disk!End, Current, Recovered, diskVars
<1>5. CASE Crash
  <2>1. Recovered' = Recovered /\ mode' = "boot" /\ outstanding' = 0
    BY <1>5 DEF Crash, Recovered, diskVars
  <2>2. Disk!Crash
    BY <2>1 DEF Disk!Crash, Current
  <2>. QED
    BY <2>2 DEF Disk!Next
<1>. QED
  BY <1>1, <1>2, <1>3, <1>4, <1>5, Commit_Step, Stutter_Step DEF Next, Disk!Next

\* log.c implements AtomicDisk: whatever disk write a crash follows, recovery
\* brings back a state in which every committed operation is complete and no
\* other has left a trace.  The hypothesis is what log_write()'s test without
\* log.lock does not ensure when the log on disk is shorter than LOGSIZE.
THEOREM Refinement == Spec /\ []LogFits => DiskSpec
<1>1. Init => Disk!Init
  <2>. SUFFICES ASSUME Init PROVE Disk!Init
    OBVIOUS
  <2>1. Range(<<>>) = {}
    BY DEF Range
  <2>2. Recovered = home
    BY <2>1 DEF Init, Recovered, Recovery
  <2>. QED
    BY <2>2 DEF Init, Disk!Init, Current
<1>2. Init => LogInv
  BY DEF Init, LogInv, None
<1>3. IInv /\ LogInv /\ [Next]_vars => [Disk!Next]_<<Current, Recovered, outstanding>>
  BY Refinement_Step
<1>. QED
  BY <1>1, <1>2, <1>3, Invariance, LogInv_Next, PTL DEF Spec, DiskSpec, Disk!Spec

\* With a log on disk of more than LOGSIZE blocks the reservation is enough, and
\* the log implements AtomicDisk without further hypothesis.
THEOREM RoomyLog ==
  ASSUME nlog > LOGSIZE
  PROVE  Spec => DiskSpec
<1>1. IInv => LogFits
  <2>. SUFFICES ASSUME IInv PROVE Len(lh) <= nlog - 1
    BY DEF LogFits
  <2>1. Len(lh) \in Nat /\ Len(lh) <= LOGSIZE
    BY OwedFacts
  <2>. QED
    BY <2>1, Sizes, LogAssumption
<1>. QED
  BY <1>1, Invariance, Refinement, PTL
=============================================================================
