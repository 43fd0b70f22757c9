--------------------------- MODULE BufCacheProofs ---------------------------
(***************************************************************************)
(* Proofs about BufCache: its inductive invariant, the two properties it   *)
(* implies, and that the cache implements BlockStore.                      *)
(***************************************************************************)
EXTENDS BufCache, FiniteSetTheorems, SequenceTheorems, TLAPS

-----------------------------------------------------------------------------
(* The inductive invariant. *)

\* The points at which a process has its buffer's sleep lock.
Holding == {"have", "iderw", "iowait", "iowoken"}

\* The block is in the buffer, or the buffer's change is on the disk.
InSync(b) == valid[b] /\ ~dirty[b]

\* refcnt counts the processes between bget() and brelse().
RefInv ==
  /\ \A b \in Buf : refcnt[b] = Cardinality(Users(b))
  /\ \A p \in Proc : pc[p] = "idle" <=> bp[p] = 0

\* A block has at most one buffer, and a buffer in use has a block.
BlockInv ==
  /\ \A b, c \in Buf : blockno[b] = blockno[c] => b = c \/ blockno[b] = NoBlock
  /\ \A p \in Proc : bp[p] # 0 => blockno[bp[p]] \in Block

\* The holder of a sleep lock is where the code has it, and who waits for the
\* lock finds it held.
LockInv ==
  /\ \A p \in Proc, b \in Buf : locked[b] = p <=> bp[p] = b /\ pc[p] \in Holding
  /\ \A p \in Proc : pc[p] = "lockwait" => locked[bp[p]] # NoProc

\* The disk works while there is something to do, and on buffers whose holder
\* waits for it.
QueueInv ==
  /\ active <=> idequeue # <<>>
  /\ \A b \in Range(idequeue) : locked[b] # NoProc /\ ~InSync(b)
  /\ \A p \in Proc :
       /\ pc[p] = "have" => bp[p] \notin Range(idequeue)
       /\ pc[p] = "iderw" => bp[p] \notin Range(idequeue) /\ ~InSync(bp[p])
       /\ pc[p] = "iowait" => bp[p] \in Range(idequeue)
       /\ pc[p] = "iowoken" => bp[p] \in Range(idequeue) \/ InSync(bp[p])

\* A buffer that is not dirty can be recycled: the disk has what it has.
DataInv ==
  /\ \A b \in Buf : dirty[b] => valid[b]
  /\ \A b \in Buf : valid[b] => blockno[b] \in Block
  /\ \A b \in Buf : InSync(b) => data[b] = disk[blockno[b]]
  /\ \A p \in Proc : pc[p] = "have" => valid[bp[p]]

IInv == TypeOK /\ RefInv /\ BlockInv /\ LockInv /\ QueueInv /\ DataInv

-----------------------------------------------------------------------------
(* Facts the steps share. *)

\* The assumptions about the constants.
LEMMA Consts ==
  /\ NBUF \in Nat /\ NBUF > 0 /\ IsFiniteSet(Proc) /\ NoProc \notin Proc
  /\ Val # {} /\ NoVal \notin Val /\ NoBlock \notin Block
  BY BufCacheAssumption

\* A process in the cache's code has a buffer, and a lock's holder is a process.
LEMMA InUse ==
  ASSUME IInv
  PROVE  /\ \A p \in Proc : pc[p] # "idle" => bp[p] \in Buf
         /\ \A b \in Buf : locked[b] # NoProc => locked[b] \in Proc
         /\ Range(idequeue) \subseteq Buf
<1>1. Range(idequeue) \subseteq Buf
  BY DEF IInv, TypeOK, Range
<1>. QED
  BY <1>1 DEF IInv, TypeOK, RefInv

\* The types of the variables.
LEMMA Fields ==
  ASSUME IInv
  PROVE  /\ blockno \in [Buf -> Block \cup {NoBlock}]
         /\ valid \in [Buf -> BOOLEAN] /\ dirty \in [Buf -> BOOLEAN]
         /\ refcnt \in [Buf -> Nat] /\ data \in [Buf -> Val] /\ disk \in [Block -> Val]
         /\ locked \in [Buf -> Proc \cup {NoProc}]
         /\ pc \in [Proc -> {"idle", "lock", "lockwait", "have", "relse",
                             "iderw", "iowait", "iowoken"}]
         /\ bp \in [Proc -> Buf \cup {0}]
  BY DEF IInv, TypeOK

\* iderw() puts a buffer at the end of idequeue.
LEMMA RangeAppend ==
  ASSUME NEW s \in Seq(Buf), NEW b \in Buf
  PROVE  /\ Append(s, b) \in Seq(Buf) /\ Append(s, b) # <<>>
         /\ Range(Append(s, b)) = Range(s) \cup {b}
         /\ IsInjective(s) /\ b \notin Range(s) => IsInjective(Append(s, b))
<1>1. /\ Append(s, b) \in Seq(Buf) /\ Append(s, b) # <<>>
      /\ DOMAIN Append(s, b) = 1 .. Len(s) + 1
      /\ \A k \in 1 .. Len(s) : Append(s, b)[k] = s[k]
      /\ Append(s, b)[Len(s) + 1] = b
      /\ DOMAIN s = 1 .. Len(s) /\ Len(s) \in Nat
  OBVIOUS
<1>2. \A k : k \in 1 .. Len(s) + 1 <=> k \in 1 .. Len(s) \/ k = Len(s) + 1
  BY <1>1
<1>3. Range(Append(s, b)) = Range(s) \cup {b}
  BY <1>2 DEF Range
<1>4. ASSUME IsInjective(s), b \notin Range(s) PROVE IsInjective(Append(s, b))
  BY <1>4 DEF Range, IsInjective
<1>. QED
  BY <1>3, <1>4

\* ideintr() takes the first buffer of idequeue.
LEMMA RangeTail ==
  ASSUME NEW s \in Seq(Buf), s # <<>>, IsInjective(s)
  PROVE  /\ Head(s) \in Buf /\ Head(s) \in Range(s)
         /\ Tail(s) \in Seq(Buf) /\ IsInjective(Tail(s))
         /\ Range(Tail(s)) = Range(s) \ {Head(s)}
         /\ Tail(s) # <<>> <=> Len(s) > 1
<1>1. /\ Head(s) = s[1] /\ Head(s) \in Buf /\ Tail(s) \in Seq(Buf)
      /\ Len(s) \in Nat /\ Len(s) > 0 /\ Len(Tail(s)) = Len(s) - 1
      /\ DOMAIN s = 1 .. Len(s) /\ DOMAIN Tail(s) = 1 .. Len(s) - 1
      /\ \A k \in 1 .. Len(s) - 1 : Tail(s)[k] = s[k + 1]
  OBVIOUS
<1>2. \A k \in 1 .. Len(s) : k = 1 \/ k - 1 \in 1 .. Len(s) - 1
  BY <1>1
<1>3. \A k \in 1 .. Len(s) - 1 : k + 1 \in 1 .. Len(s) /\ k + 1 # 1
  BY <1>1
<1>4. Head(s) \in Range(s)
  BY DEF Range
<1>5. IsInjective(Tail(s))
  <2>. SUFFICES ASSUME NEW i \in DOMAIN Tail(s), NEW j \in DOMAIN Tail(s), Tail(s)[i] = Tail(s)[j]
                PROVE  i = j
    BY DEF IsInjective
  <2>1. i + 1 = j + 1
    BY DEF IsInjective
  <2>. QED
    BY <2>1
<1>6. Range(Tail(s)) \subseteq Range(s) \ {Head(s)}
  <2>. SUFFICES ASSUME NEW k \in 1 .. Len(s) - 1
                PROVE  Tail(s)[k] \in Range(s) /\ Tail(s)[k] # Head(s)
    BY DEF Range
  <2>. QED
    BY DEF Range, IsInjective
<1>7. Range(s) \ {Head(s)} \subseteq Range(Tail(s))
  <2>. SUFFICES ASSUME NEW k \in 1 .. Len(s), s[k] # Head(s)
                PROVE  s[k] \in Range(Tail(s))
    BY DEF Range
  <2>1. k - 1 \in 1 .. Len(s) - 1 /\ Tail(s)[k - 1] = s[k]
    BY <1>2
  <2>. QED
    BY <1>1, <2>1 DEF Range
<1>8. Tail(s) # <<>> <=> Len(s) > 1
  BY <1>1
<1>. QED
  BY <1>4, <1>5, <1>6, <1>7

\* The users of a buffer can be counted.
LEMMA UsersFinite ==
  ASSUME NEW b
  PROVE  IsFiniteSet(Users(b)) /\ Cardinality(Users(b)) \in Nat
  BY Consts, FS_Subset, FS_CardinalityType DEF Users

\* They are the processes whose local b is the buffer.
LEMMA UsersSame ==
  ASSUME UNCHANGED bp
  PROVE  \A b : Users(b)' = Users(b)
  BY DEF Users

\* bget() adds the process to the users of the buffer.
LEMMA UsersGain ==
  ASSUME TypeOK, NEW p \in Proc, NEW b \in Buf, bp[p] = 0, bp' = [bp EXCEPT ![p] = b]
  PROVE  /\ Cardinality(Users(b)') = Cardinality(Users(b)) + 1
         /\ \A c \in Buf \ {b} : Users(c)' = Users(c)
<1>1. 0 \notin Buf
  BY DEF Buf
<1>2. Users(b)' = Users(b) \cup {p} /\ p \notin Users(b)
  BY <1>1 DEF Users, TypeOK
<1>3. \A c \in Buf \ {b} : Users(c)' = Users(c)
  BY <1>1 DEF Users
<1>. QED
  BY <1>2, <1>3, UsersFinite, FS_AddElement

\* brelse() takes it away.
LEMMA UsersLose ==
  ASSUME TypeOK, NEW p \in Proc, bp[p] \in Buf, bp' = [bp EXCEPT ![p] = 0]
  PROVE  /\ Cardinality(Users(bp[p])) > 0
         /\ Cardinality({q \in Proc : bp'[q] = bp[p]}) = Cardinality(Users(bp[p])) - 1
         /\ \A c \in Buf \ {bp[p]} : Users(c)' = Users(c)
<1>. DEFINE b == bp[p]
            rest == {q \in Proc : bp'[q] = b}
<1>1. 0 \notin Buf
  BY DEF Buf
<1>2. rest = Users(b) \ {p} /\ p \in Users(b)
  BY <1>1 DEF Users, TypeOK
<1>3. \A c \in Buf \ {b} : Users(c)' = Users(c)
  BY <1>1 DEF Users
<1>4. Cardinality(rest) = Cardinality(Users(b)) - 1
  BY <1>2, UsersFinite, FS_RemoveElement
<1>5. Cardinality(rest) \in Nat
  BY <1>2, UsersFinite, FS_Subset, FS_CardinalityType
<1>. QED
  BY <1>3, <1>4, <1>5, UsersFinite

\* What a buffer without users is not.
LEMMA Unused ==
  ASSUME IInv, NEW b \in Buf, refcnt[b] = 0
  PROVE  /\ \A p \in Proc : bp[p] # b
         /\ locked[b] = NoProc
         /\ b \notin Range(idequeue)
<1>1. Users(b) = {}
  BY UsersFinite, FS_EmptySet DEF IInv, RefInv
<1>2. \A p \in Proc : bp[p] # b
  BY <1>1 DEF Users
<1>3. locked[b] = NoProc
  BY <1>2, InUse DEF IInv, LockInv
<1>. QED
  BY <1>2, <1>3 DEF IInv, QueueInv

\* The list still holds every buffer.
LEMMA MovedToFront ==
  ASSUME TypeOK, NEW b \in Buf
  PROVE  /\ MoveToFront(b) \in [Buf -> Buf]
         /\ \A c \in Buf : \E i \in Buf : MoveToFront(b)[i] = c
<1>1. Place(b) \in Buf /\ lru[Place(b)] = b
  BY DEF Place, TypeOK
<1>2. MoveToFront(b) \in [Buf -> Buf]
  <2>1. \A i \in Buf : i # 1 => i - 1 \in Buf
    BY Consts DEF Buf
  <2>2. lru \in [Buf -> Buf]
    BY DEF TypeOK
  <2>. QED
    BY <2>1, <2>2 DEF MoveToFront
<1>3. ASSUME NEW c \in Buf PROVE \E i \in Buf : MoveToFront(b)[i] = c
  <2>1. PICK i \in Buf : lru[i] = c
    BY DEF TypeOK
  <2>2. CASE i = Place(b)
    BY <1>1, <2>1, Consts DEF MoveToFront, Buf
  <2>3. CASE i < Place(b)
    <3>1. i + 1 \in Buf /\ i + 1 # 1 /\ i + 1 <= Place(b) /\ (i + 1) - 1 = i
      BY <1>1, <2>3, Consts DEF Buf
    <3>. QED
      BY <2>1, <3>1 DEF MoveToFront
  <2>4. CASE i > Place(b)
    <3>1. i # 1 /\ ~(i <= Place(b))
      BY <1>1, <2>4 DEF Buf
    <3>. QED
      BY <2>1, <3>1 DEF MoveToFront
  <2>. QED
    BY <1>1, <2>2, <2>3, <2>4 DEF Buf
<1>. QED
  BY <1>2, <1>3

-----------------------------------------------------------------------------
(* The steps. *)

\* The step BgetHit preserves the invariant.
LEMMA BgetHit_Inv ==
  ASSUME IInv, NEW p \in Proc, NEW k \in Block, BgetHit(p, k)
  PROVE  IInv'
<1>. PICK b \in Buf : /\ pc[p] = "idle" /\ blockno[b] = k
                     /\ refcnt' = [refcnt EXCEPT ![b] = @ + 1]
                     /\ bp' = [bp EXCEPT ![p] = b]
                     /\ pc' = [pc EXCEPT ![p] = "lock"]
                     /\ UNCHANGED <<blockno, valid, dirty, data, locked, lru, idequeue, active, disk>>
  BY DEF BgetHit, Goto, ideVars
<1>1. TypeOK'
  BY InUse, Consts DEF IInv, TypeOK
<1>2. RefInv'
  <2>1. bp[p] = 0 /\ 0 \notin Buf
    BY DEF IInv, RefInv, Buf
  <2>2. /\ Cardinality(Users(b)') = Cardinality(Users(b)) + 1
        /\ \A c \in Buf \ {b} : Users(c)' = Users(c)
    BY <2>1, UsersGain DEF IInv
  <2>3. \A c \in Buf : refcnt'[c] = Cardinality(Users(c)')
    BY <2>2 DEF IInv, RefInv, TypeOK
  <2>. QED
    BY <2>1, <2>3 DEF IInv, RefInv, TypeOK
<1>3. BlockInv'
  BY DEF BlockInv, IInv
<1>4. LockInv'
  <2>1. \A q \in Proc, c \in Buf : locked'[c] = q <=> bp'[q] = c /\ pc'[q] \in Holding
    BY DEF LockInv, Holding, IInv
  <2>2. \A q \in Proc : pc'[q] = "lockwait" => locked'[bp'[q]] # NoProc
    BY DEF LockInv, IInv
  <2>. QED
    BY <2>1, <2>2 DEF LockInv
<1>5. QueueInv'
  BY DEF QueueInv, InSync, IInv
<1>6. DataInv'
  <2>1. \A c \in Buf : (dirty'[c] => valid'[c]) /\ (valid'[c] => blockno'[c] \in Block)
    BY DEF DataInv, IInv
  <2>2. \A c \in Buf : InSync(c)' => data'[c] = disk'[blockno'[c]]
    BY DEF DataInv, InSync, IInv
  <2>3. \A q \in Proc : pc'[q] = "have" => valid'[bp'[q]]
    BY DEF DataInv, IInv
  <2>. QED
    BY <2>1, <2>2, <2>3 DEF DataInv
<1>. QED
  BY <1>1, <1>2, <1>3, <1>4, <1>5, <1>6 DEF IInv

\* The step BgetRecycle preserves the invariant.
LEMMA BgetRecycle_Inv ==
  ASSUME IInv, NEW p \in Proc, NEW k \in Block, BgetRecycle(p, k)
  PROVE  IInv'
<1>. PICK b \in Buf : /\ refcnt[b] = 0 /\ ~dirty[b]
                     /\ blockno' = [blockno EXCEPT ![b] = k]
                     /\ valid' = [valid EXCEPT ![b] = FALSE]
                     /\ dirty' = [dirty EXCEPT ![b] = FALSE]
                     /\ refcnt' = [refcnt EXCEPT ![b] = 1]
                     /\ bp' = [bp EXCEPT ![p] = b]
  BY DEF BgetRecycle, Recyclable, IInv, TypeOK
<1>. /\ pc[p] = "idle" /\ \A c \in Buf : blockno[c] # k
     /\ pc' = [pc EXCEPT ![p] = "lock"]
     /\ UNCHANGED <<data, locked, lru, idequeue, active, disk>>
  BY DEF BgetRecycle, Goto, ideVars
<1>. /\ \A q \in Proc : bp[q] # b
     /\ locked[b] = NoProc
     /\ b \notin Range(idequeue)
  BY Unused
<1>1. TypeOK'
  BY DEF IInv, TypeOK
<1>2. RefInv'
  <2>1. bp[p] = 0 /\ 0 \notin Buf
    BY DEF IInv, RefInv, Buf
  <2>2. /\ Cardinality(Users(b)') = Cardinality(Users(b)) + 1
        /\ \A c \in Buf \ {b} : Users(c)' = Users(c)
    BY <2>1, UsersGain DEF IInv
  <2>3. \A c \in Buf : refcnt'[c] = Cardinality(Users(c)')
    BY <2>2 DEF IInv, RefInv, TypeOK
  <2>. QED
    BY <2>3 DEF IInv, RefInv, TypeOK
<1>3. BlockInv'
  BY DEF BlockInv, TypeOK, IInv
<1>4. LockInv'
  <2>1. \A q \in Proc, c \in Buf : locked'[c] = q <=> bp'[q] = c /\ pc'[q] \in Holding
    BY DEF LockInv, Holding, IInv
  <2>2. \A q \in Proc : pc'[q] = "lockwait" => locked'[bp'[q]] # NoProc
    BY DEF LockInv, IInv
  <2>. QED
    BY <2>1, <2>2 DEF LockInv
<1>5. QueueInv'
  BY DEF QueueInv, InSync, IInv
<1>6. DataInv'
  BY DEF DataInv, InSync, BlockInv, TypeOK, LockInv, IInv
<1>. QED
  BY <1>1, <1>2, <1>3, <1>4, <1>5, <1>6 DEF IInv

\* The step Acquiresleep preserves the invariant.
LEMMA Acquiresleep_Inv ==
  ASSUME IInv, NEW p \in Proc, Acquiresleep(p)
  PROVE  IInv'
<1>. PICK b \in Buf : bp[p] = b
  BY InUse DEF Acquiresleep
<1>. /\ pc[p] = "lock"
     /\ \/ /\ locked[b] # NoProc /\ UNCHANGED locked
           /\ pc' = [pc EXCEPT ![p] = "lockwait"]
        \/ /\ locked[b] = NoProc /\ locked' = [locked EXCEPT ![b] = p]
           /\ pc' = [pc EXCEPT ![p] = IF valid[b] THEN "have" ELSE "iderw"]
     /\ UNCHANGED <<blockno, valid, dirty, refcnt, data, lru, idequeue, active, disk, bp>>
  BY DEF Acquiresleep, Goto, bufVars, ideVars
<1>1. TypeOK'
  <2>1. locked' \in [Buf -> Proc \cup {NoProc}]
    BY Fields
  <2>2. pc' \in [Proc -> {"idle", "lock", "lockwait", "have", "relse",
                        "iderw", "iowait", "iowoken"}]
    BY Fields
  <2>. QED
    BY <2>1 DEF IInv, TypeOK
<1>2. RefInv'
  <2>1. \A q \in Proc : pc'[q] = "idle" <=> pc[q] = "idle"
    BY DEF Acquiresleep, IInv, TypeOK
  <2>2. UNCHANGED <<refcnt, bp>>
    BY DEF Acquiresleep
  <2>. QED
    BY <2>1, UsersSame DEF IInv, RefInv
<1>3. BlockInv'
  BY DEF BlockInv, IInv
<1>4. LockInv'
  <2>1. \A q \in Proc, c \in Buf : locked'[c] = q <=> bp'[q] = c /\ pc'[q] \in Holding
    BY InUse, Consts DEF LockInv, Holding, TypeOK, IInv
  <2>2. \A q \in Proc : pc'[q] = "lockwait" => locked'[bp'[q]] # NoProc
    BY Fields, InUse DEF LockInv, IInv
  <2>. QED
    BY <2>1, <2>2 DEF LockInv
<1>5. QueueInv'
  <2>1. active' <=> idequeue' # <<>>
    BY DEF QueueInv, IInv
  <2>2. \A c \in Range(idequeue') : locked'[c] # NoProc /\ ~InSync(c)'
    BY InUse, Consts DEF QueueInv, InSync, LockInv, Holding, TypeOK, IInv
  <2>3. \A q \in Proc : pc'[q] = "have" => bp'[q] \notin Range(idequeue')
    BY DEF QueueInv, Holding, TypeOK, IInv
  <2>4. \A q \in Proc : pc'[q] = "iderw" => bp'[q] \notin Range(idequeue') /\ ~InSync(bp[q])'
    BY DEF QueueInv, InSync, LockInv, Holding, TypeOK, IInv
  <2>5. \A q \in Proc : pc'[q] = "iowait" => bp'[q] \in Range(idequeue')
    BY DEF QueueInv, InSync, LockInv, Holding, TypeOK, IInv
  <2>6. \A q \in Proc : pc'[q] = "iowoken" => bp'[q] \in Range(idequeue') \/ InSync(bp[q])'
    BY Fields DEF QueueInv, InSync, LockInv, Holding, IInv
  <2>. QED
    BY <2>1, <2>2, <2>3, <2>4, <2>5, <2>6 DEF QueueInv
<1>6. DataInv'
  BY DEF DataInv, InSync, TypeOK, LockInv, IInv
<1>. QED
  BY <1>1, <1>2, <1>3, <1>4, <1>5, <1>6 DEF IInv

\* The step Releasesleep preserves the invariant.
LEMMA Releasesleep_Inv ==
  ASSUME IInv, NEW p \in Proc, Releasesleep(p)
  PROVE  IInv'
<1>. PICK b \in Buf : bp[p] = b
  BY InUse DEF Releasesleep
<1>. /\ pc[p] = "have"
     /\ locked' = [locked EXCEPT ![b] = NoProc]
     /\ pc' = [q \in Proc |-> IF q = p THEN "relse"
                              ELSE IF pc[q] = "lockwait" /\ bp[q] = b THEN "lock" ELSE pc[q]]
     /\ UNCHANGED <<blockno, valid, dirty, refcnt, data, lru, idequeue, active, disk, bp>>
  BY DEF Releasesleep, wakeup, bufVars, ideVars
<1>1. TypeOK'
  BY DEF IInv, TypeOK
<1>2. RefInv'
  <2>1. \A q \in Proc : pc'[q] = "idle" <=> pc[q] = "idle"
    BY DEF Releasesleep
  <2>2. UNCHANGED <<refcnt, bp>>
    BY DEF Releasesleep
  <2>. QED
    BY UsersSame DEF IInv, RefInv
<1>3. BlockInv'
  BY DEF BlockInv, IInv
<1>4. LockInv'
  <2>1. \A q \in Proc, c \in Buf : locked'[c] = q <=> bp'[q] = c /\ pc'[q] \in Holding
    BY InUse, Consts DEF LockInv, Holding, TypeOK, IInv
  <2>2. \A q \in Proc : pc'[q] = "lockwait" => locked'[bp'[q]] # NoProc
    BY DEF LockInv, IInv
  <2>. QED
    BY <2>1, <2>2 DEF LockInv
<1>5. QueueInv'
  <2>1. active' <=> idequeue' # <<>>
    BY DEF QueueInv, IInv
  <2>2. \A c \in Range(idequeue') : locked'[c] # NoProc /\ ~InSync(c)'
    BY DEF QueueInv, InSync, IInv
  <2>3. \A q \in Proc : pc'[q] = "have" => bp'[q] \notin Range(idequeue')
    BY DEF QueueInv, IInv
  <2>4. \A q \in Proc : pc'[q] = "iderw" => bp'[q] \notin Range(idequeue') /\ ~InSync(bp[q])'
    BY DEF QueueInv, InSync, IInv
  <2>5. \A q \in Proc : pc'[q] = "iowait" => bp'[q] \in Range(idequeue')
    BY DEF QueueInv, IInv
  <2>6. \A q \in Proc : pc'[q] = "iowoken" => bp'[q] \in Range(idequeue') \/ InSync(bp[q])'
    BY DEF QueueInv, InSync, IInv
  <2>. QED
    BY <2>1, <2>2, <2>3, <2>4, <2>5, <2>6 DEF QueueInv
<1>6. DataInv'
  BY DEF DataInv, InSync, IInv
<1>. QED
  BY <1>1, <1>2, <1>3, <1>4, <1>5, <1>6 DEF IInv

\* The step Brelse preserves the invariant.
LEMMA Brelse_Inv ==
  ASSUME IInv, NEW p \in Proc, Brelse(p)
  PROVE  IInv'
<1>. PICK b \in Buf : bp[p] = b
  BY InUse DEF Brelse
<1>. /\ pc[p] = "relse"
     /\ refcnt' = [refcnt EXCEPT ![b] = @ - 1]
     /\ lru' = IF refcnt[b] = 1 THEN MoveToFront(b) ELSE lru
     /\ bp' = [bp EXCEPT ![p] = 0]
     /\ pc' = [pc EXCEPT ![p] = "idle"]
     /\ UNCHANGED <<blockno, valid, dirty, data, locked, idequeue, active, disk>>
  BY DEF Brelse, Goto, ideVars
<1>1. TypeOK'
  <2>1. lru' \in [Buf -> Buf] /\ \A c \in Buf : \E i \in Buf : lru'[i] = c
    BY MovedToFront DEF IInv, TypeOK
  <2>2. refcnt[b] > 0
    BY UsersLose DEF IInv, RefInv
  <2>. QED
    <3>1. refcnt' \in [Buf -> Nat] /\ bp' \in [Proc -> Buf \cup {0}]
      BY <2>2, Fields
    <3>2. pc' \in [Proc -> {"idle", "lock", "lockwait", "have", "relse",
                          "iderw", "iowait", "iowoken"}]
      BY Fields
    <3>. QED
      BY <2>1, <3>1 DEF IInv, TypeOK
<1>2. RefInv'
  <2>1. 0 \notin Buf
    BY DEF Buf
  <2>2. /\ Cardinality({q \in Proc : bp'[q] = b}) = Cardinality(Users(b)) - 1
        /\ \A c \in Buf \ {b} : Users(c)' = Users(c)
    BY UsersLose DEF IInv
  <2>3. Users(b)' = {q \in Proc : bp'[q] = b}
    BY DEF Users
  <2>4. \A c \in Buf : refcnt'[c] = Cardinality(Users(c)')
    BY <2>2, <2>3, Fields DEF IInv, RefInv
  <2>. QED
    BY <2>4 DEF IInv, RefInv, TypeOK
<1>3. BlockInv'
  BY DEF BlockInv, IInv
<1>4. LockInv'
  <2>1. \A q \in Proc, c \in Buf : locked'[c] = q <=> bp'[q] = c /\ pc'[q] \in Holding
    BY DEF LockInv, Holding, IInv
  <2>2. \A q \in Proc : pc'[q] = "lockwait" => locked'[bp'[q]] # NoProc
    BY DEF LockInv, IInv
  <2>. QED
    BY <2>1, <2>2 DEF LockInv
<1>5. QueueInv'
  BY DEF QueueInv, InSync, IInv
<1>6. DataInv'
  BY DEF DataInv, InSync, BlockInv, IInv
<1>. QED
  BY <1>1, <1>2, <1>3, <1>4, <1>5, <1>6 DEF IInv

\* The step Kill preserves the invariant.
LEMMA Kill_Inv ==
  ASSUME IInv, NEW p \in Proc, Kill(p)
  PROVE  IInv'
<1>. PICK b \in Buf : bp[p] = b
  BY InUse DEF Kill
<1>. /\ \/ pc[p] = "lockwait" /\ pc' = [pc EXCEPT ![p] = "lock"]
        \/ pc[p] = "iowait" /\ pc' = [pc EXCEPT ![p] = "iowoken"]
     /\ UNCHANGED <<blockno, valid, dirty, refcnt, data, locked, lru, idequeue, active, disk, bp>>
  BY DEF Kill, Goto, bufVars, ideVars
<1>1. TypeOK'
  BY DEF IInv, TypeOK
<1>2. RefInv'
  <2>1. \A q \in Proc : pc'[q] = "idle" <=> pc[q] = "idle"
    BY DEF Kill, IInv, TypeOK
  <2>2. UNCHANGED <<refcnt, bp>>
    BY DEF Kill
  <2>. QED
    BY <2>1, UsersSame DEF IInv, RefInv
<1>3. BlockInv'
  BY DEF BlockInv, IInv
<1>4. LockInv'
  <2>1. \A q \in Proc, c \in Buf : locked'[c] = q <=> bp'[q] = c /\ pc'[q] \in Holding
    BY InUse, Consts DEF LockInv, Holding, TypeOK, IInv
  <2>2. \A q \in Proc : pc'[q] = "lockwait" => locked'[bp'[q]] # NoProc
    BY DEF LockInv, TypeOK, IInv
  <2>. QED
    BY <2>1, <2>2 DEF LockInv
<1>5. QueueInv'
  <2>1. active' <=> idequeue' # <<>>
    BY DEF QueueInv, IInv
  <2>2. \A c \in Range(idequeue') : locked'[c] # NoProc /\ ~InSync(c)'
    BY DEF QueueInv, InSync, IInv
  <2>3. \A q \in Proc : pc'[q] = "have" => bp'[q] \notin Range(idequeue')
    BY DEF QueueInv, TypeOK, IInv
  <2>4. \A q \in Proc : pc'[q] = "iderw" => bp'[q] \notin Range(idequeue') /\ ~InSync(bp[q])'
    BY Fields DEF QueueInv, InSync, IInv
  <2>5. \A q \in Proc : pc'[q] = "iowait" => bp'[q] \in Range(idequeue')
    BY DEF QueueInv, TypeOK, IInv
  <2>6. \A q \in Proc : pc'[q] = "iowoken" => bp'[q] \in Range(idequeue') \/ InSync(bp[q])'
    BY Fields DEF QueueInv, InSync, IInv
  <2>. QED
    BY <2>1, <2>2, <2>3, <2>4, <2>5, <2>6 DEF QueueInv
<1>6. DataInv'
  BY DEF DataInv, InSync, BlockInv, TypeOK, QueueInv, IInv
<1>. QED
  BY <1>1, <1>2, <1>3, <1>4, <1>5, <1>6 DEF IInv

\* The step LogWrite preserves the invariant.
LEMMA LogWrite_Inv ==
  ASSUME IInv, NEW p \in Proc, LogWrite(p)
  PROVE  IInv'
<1>. PICK b \in Buf : bp[p] = b
  BY InUse DEF LogWrite
<1>. PICK v \in Val : data' = [data EXCEPT ![b] = v]
  BY DEF LogWrite
<1>. /\ pc[p] = "have"
     /\ dirty' = [dirty EXCEPT ![b] = TRUE]
     /\ UNCHANGED <<blockno, valid, refcnt, locked, lru, idequeue, active, disk, pc, bp>>
  BY DEF LogWrite, ideVars
<1>1. TypeOK'
  BY DEF IInv, TypeOK
<1>2. RefInv'
  <2>1. \A q \in Proc : pc'[q] = "idle" <=> pc[q] = "idle"
    BY DEF LogWrite
  <2>2. UNCHANGED <<refcnt, bp>>
    BY DEF LogWrite
  <2>. QED
    BY UsersSame DEF IInv, RefInv
<1>3. BlockInv'
  BY DEF BlockInv, IInv
<1>4. LockInv'
  <2>1. \A q \in Proc, c \in Buf : locked'[c] = q <=> bp'[q] = c /\ pc'[q] \in Holding
    BY DEF LockInv, IInv
  <2>2. \A q \in Proc : pc'[q] = "lockwait" => locked'[bp'[q]] # NoProc
    BY DEF LockInv, IInv
  <2>. QED
    BY <2>1, <2>2 DEF LockInv
<1>5. QueueInv'
  <2>1. active' <=> idequeue' # <<>>
    BY DEF QueueInv, IInv
  <2>2. \A c \in Range(idequeue') : locked'[c] # NoProc /\ ~InSync(c)'
    BY DEF QueueInv, InSync, IInv
  <2>3. \A q \in Proc : pc'[q] = "have" => bp'[q] \notin Range(idequeue')
    BY DEF QueueInv, IInv
  <2>4. \A q \in Proc : pc'[q] = "iderw" => bp'[q] \notin Range(idequeue') /\ ~InSync(bp[q])'
    BY DEF QueueInv, InSync, IInv
  <2>5. \A q \in Proc : pc'[q] = "iowait" => bp'[q] \in Range(idequeue')
    BY DEF QueueInv, IInv
  <2>6. \A q \in Proc : pc'[q] = "iowoken" => bp'[q] \in Range(idequeue') \/ InSync(bp[q])'
    BY DEF QueueInv, InSync, LockInv, Holding, IInv
  <2>. QED
    BY <2>1, <2>2, <2>3, <2>4, <2>5, <2>6 DEF QueueInv
<1>6. DataInv'
  <2>1. \A c \in Buf : (dirty'[c] => valid'[c]) /\ (valid'[c] => blockno'[c] \in Block)
    BY DEF DataInv, IInv
  <2>2. \A c \in Buf : InSync(c)' => data'[c] = disk'[blockno'[c]]
    BY DEF DataInv, InSync, TypeOK, IInv
  <2>3. \A q \in Proc : pc'[q] = "have" => valid'[bp'[q]]
    BY DEF DataInv, IInv
  <2>. QED
    BY <2>1, <2>2, <2>3 DEF DataInv
<1>. QED
  BY <1>1, <1>2, <1>3, <1>4, <1>5, <1>6 DEF IInv

\* The step Bwrite preserves the invariant.
LEMMA Bwrite_Inv ==
  ASSUME IInv, NEW p \in Proc, Bwrite(p)
  PROVE  IInv'
<1>. PICK b \in Buf : bp[p] = b
  BY InUse DEF Bwrite
<1>. /\ pc[p] = "have"
     /\ dirty' = [dirty EXCEPT ![b] = TRUE]
     /\ pc' = [pc EXCEPT ![p] = "iderw"]
     /\ UNCHANGED <<blockno, valid, refcnt, data, locked, lru, idequeue, active, disk, bp>>
  BY DEF Bwrite, Goto, ideVars
<1>1. TypeOK'
  BY DEF IInv, TypeOK
<1>2. RefInv'
  <2>1. \A q \in Proc : pc'[q] = "idle" <=> pc[q] = "idle"
    BY DEF Bwrite
  <2>2. UNCHANGED <<refcnt, bp>>
    BY DEF Bwrite
  <2>. QED
    BY UsersSame DEF IInv, RefInv
<1>3. BlockInv'
  BY DEF BlockInv, IInv
<1>4. LockInv'
  BY DEF LockInv, Holding, IInv
<1>5. QueueInv'
  <2>1. active' <=> idequeue' # <<>>
    BY DEF QueueInv, IInv
  <2>2. \A c \in Range(idequeue') : locked'[c] # NoProc /\ ~InSync(c)'
    BY DEF QueueInv, InSync, IInv
  <2>3. \A q \in Proc : pc'[q] = "have" => bp'[q] \notin Range(idequeue')
    BY DEF QueueInv, IInv
  <2>4. \A q \in Proc : pc'[q] = "iderw" => bp'[q] \notin Range(idequeue') /\ ~InSync(bp[q])'
    BY DEF QueueInv, InSync, TypeOK, IInv
  <2>5. \A q \in Proc : pc'[q] = "iowait" => bp'[q] \in Range(idequeue')
    BY DEF QueueInv, IInv
  <2>6. \A q \in Proc : pc'[q] = "iowoken" => bp'[q] \in Range(idequeue') \/ InSync(bp[q])'
    BY DEF QueueInv, InSync, LockInv, Holding, IInv
  <2>. QED
    BY <2>1, <2>2, <2>3, <2>4, <2>5, <2>6 DEF QueueInv
<1>6. DataInv'
  <2>1. \A c \in Buf : (dirty'[c] => valid'[c]) /\ (valid'[c] => blockno'[c] \in Block)
    BY DEF DataInv, InSync, BlockInv, IInv
  <2>2. \A c \in Buf : InSync(c)' => data'[c] = disk'[blockno'[c]]
    BY DEF DataInv, InSync, IInv
  <2>3. \A q \in Proc : pc'[q] = "have" => valid'[bp'[q]]
    BY DEF DataInv, IInv
  <2>. QED
    BY <2>1, <2>2, <2>3 DEF DataInv
<1>. QED
  BY <1>1, <1>2, <1>3, <1>4, <1>5, <1>6 DEF IInv

\* The step Iderw preserves the invariant.
LEMMA Iderw_Inv ==
  ASSUME IInv, NEW p \in Proc, Iderw(p)
  PROVE  IInv'
<1>. PICK b \in Buf : bp[p] = b
  BY InUse DEF Iderw
<1>. /\ pc[p] = "iderw"
     /\ active' = (active \/ idequeue = <<>>)
     /\ pc' = [pc EXCEPT ![p] = "iowait"]
     /\ UNCHANGED <<blockno, valid, dirty, refcnt, data, locked, lru, disk, bp>>
  BY DEF Iderw, Goto, bufVars
<1>. /\ idequeue' \in Seq(Buf) /\ idequeue' # <<>> /\ IsInjective(idequeue')
     /\ Range(idequeue') = Range(idequeue) \cup {b}
  BY RangeAppend DEF Iderw, IInv, TypeOK, QueueInv
<1>1. TypeOK'
  BY DEF IInv, TypeOK
<1>2. RefInv'
  <2>1. \A q \in Proc : pc'[q] = "idle" <=> pc[q] = "idle"
    BY DEF Iderw
  <2>2. UNCHANGED <<refcnt, bp>>
    BY DEF Iderw
  <2>. QED
    BY UsersSame DEF IInv, RefInv
<1>3. BlockInv'
  BY DEF BlockInv, IInv
<1>4. LockInv'
  <2>1. \A q \in Proc, c \in Buf : locked'[c] = q <=> bp'[q] = c /\ pc'[q] \in Holding
    BY DEF LockInv, Holding, IInv
  <2>2. \A q \in Proc : pc'[q] = "lockwait" => locked'[bp'[q]] # NoProc
    BY DEF LockInv, IInv
  <2>. QED
    BY <2>1, <2>2 DEF LockInv
<1>5. QueueInv'
  <2>1. active' <=> idequeue' # <<>>
    BY DEF QueueInv, IInv
  <2>2. \A c \in Range(idequeue') : locked'[c] # NoProc /\ ~InSync(c)'
    <3>1. locked[b] = p /\ ~InSync(b)
      BY DEF IInv, LockInv, QueueInv, Holding
    <3>2. \A c : InSync(c)' <=> InSync(c)
      BY DEF InSync
    <3>. QED
      BY <3>1, <3>2, Consts DEF IInv, QueueInv
  <2>3. \A q \in Proc : pc'[q] = "have" => bp'[q] \notin Range(idequeue')
    BY DEF QueueInv, LockInv, Holding, IInv
  <2>4. \A q \in Proc : pc'[q] = "iderw" => bp'[q] \notin Range(idequeue') /\ ~InSync(bp[q])'
    BY DEF QueueInv, InSync, LockInv, Holding, TypeOK, IInv
  <2>5. \A q \in Proc : pc'[q] = "iowait" => bp'[q] \in Range(idequeue')
    BY DEF QueueInv, IInv
  <2>6. \A q \in Proc : pc'[q] = "iowoken" => bp'[q] \in Range(idequeue') \/ InSync(bp[q])'
    BY DEF QueueInv, InSync, IInv
  <2>. QED
    BY <2>1, <2>2, <2>3, <2>4, <2>5, <2>6 DEF QueueInv
<1>6. DataInv'
  <2>1. \A c \in Buf : (dirty'[c] => valid'[c]) /\ (valid'[c] => blockno'[c] \in Block)
    BY DEF DataInv, IInv
  <2>2. \A c \in Buf : InSync(c)' => data'[c] = disk'[blockno'[c]]
    BY DEF DataInv, InSync, IInv
  <2>3. \A q \in Proc : pc'[q] = "have" => valid'[bp'[q]]
    BY DEF DataInv, IInv
  <2>. QED
    BY <2>1, <2>2, <2>3 DEF DataInv
<1>. QED
  BY <1>1, <1>2, <1>3, <1>4, <1>5, <1>6 DEF IInv

\* The step IderwWoken preserves the invariant.
LEMMA IderwWoken_Inv ==
  ASSUME IInv, NEW p \in Proc, IderwWoken(p)
  PROVE  IInv'
<1>. PICK b \in Buf : bp[p] = b
  BY InUse DEF IderwWoken
<1>. /\ pc[p] = "iowoken"
     /\ pc' = [pc EXCEPT ![p] = IF InSync(b) THEN "have" ELSE "iowait"]
     /\ UNCHANGED <<blockno, valid, dirty, refcnt, data, locked, lru, idequeue, active, disk, bp>>
  BY DEF IderwWoken, Goto, InSync, bufVars, ideVars
<1>1. TypeOK'
  BY DEF IInv, TypeOK
<1>2. RefInv'
  <2>1. \A q \in Proc : pc'[q] = "idle" <=> pc[q] = "idle"
    BY DEF IderwWoken
  <2>2. UNCHANGED <<refcnt, bp>>
    BY DEF IderwWoken
  <2>. QED
    BY UsersSame DEF IInv, RefInv
<1>3. BlockInv'
  BY DEF BlockInv, IInv
<1>4. LockInv'
  <2>1. \A q \in Proc, c \in Buf : locked'[c] = q <=> bp'[q] = c /\ pc'[q] \in Holding
    BY DEF LockInv, Holding, IInv
  <2>2. \A q \in Proc : pc'[q] = "lockwait" => locked'[bp'[q]] # NoProc
    BY DEF LockInv, IInv
  <2>. QED
    BY <2>1, <2>2 DEF LockInv
<1>5. QueueInv'
  <2>1. active' <=> idequeue' # <<>>
    BY DEF QueueInv, IInv
  <2>2. \A c \in Range(idequeue') : locked'[c] # NoProc /\ ~InSync(c)'
    BY DEF QueueInv, InSync, IInv
  <2>3. \A q \in Proc : pc'[q] = "have" => bp'[q] \notin Range(idequeue')
    BY DEF QueueInv, IInv
  <2>4. \A q \in Proc : pc'[q] = "iderw" => bp'[q] \notin Range(idequeue') /\ ~InSync(bp[q])'
    BY DEF QueueInv, InSync, IInv
  <2>5. \A q \in Proc : pc'[q] = "iowait" => bp'[q] \in Range(idequeue')
    BY DEF QueueInv, IInv
  <2>6. \A q \in Proc : pc'[q] = "iowoken" => bp'[q] \in Range(idequeue') \/ InSync(bp[q])'
    BY DEF QueueInv, InSync, IInv
  <2>. QED
    BY <2>1, <2>2, <2>3, <2>4, <2>5, <2>6 DEF QueueInv
<1>6. DataInv'
  BY DEF DataInv, InSync, BlockInv, IInv
<1>. QED
  BY <1>1, <1>2, <1>3, <1>4, <1>5, <1>6 DEF IInv

\* The step Ideintr preserves the invariant.
LEMMA Ideintr_Inv ==
  ASSUME IInv, Ideintr
  PROVE  IInv'
<1>. PICK b \in Buf : b = Head(idequeue)
  BY DEF Ideintr, IInv, TypeOK, QueueInv
<1>. /\ IF dirty[b] THEN disk' = [disk EXCEPT ![blockno[b]] = data[b]] /\ UNCHANGED data
                    ELSE data' = [data EXCEPT ![b] = disk[blockno[b]]] /\ UNCHANGED disk
     /\ valid' = [valid EXCEPT ![b] = TRUE] /\ dirty' = [dirty EXCEPT ![b] = FALSE]
     /\ pc' = [q \in Proc |-> IF pc[q] = "iowait" /\ bp[q] = b THEN "iowoken" ELSE pc[q]]
     /\ UNCHANGED <<blockno, refcnt, locked, lru, bp>>
  BY DEF Ideintr, wakeup
<1>. /\ b \in Range(idequeue)
     /\ idequeue' \in Seq(Buf) /\ IsInjective(idequeue')
     /\ Range(idequeue') = Range(idequeue) \ {b}
     /\ active' \in BOOLEAN /\ (active' <=> idequeue' # <<>>)
  <2>1. idequeue \in Seq(Buf) /\ idequeue # <<>> /\ IsInjective(idequeue)
    BY DEF Ideintr, IInv, TypeOK, QueueInv
  <2>2. idequeue' = Tail(idequeue) /\ active' = (Len(idequeue) > 1)
    BY DEF Ideintr, StartNext
  <2>3. /\ Head(idequeue) \in Range(idequeue)
        /\ Tail(idequeue) \in Seq(Buf) /\ IsInjective(Tail(idequeue))
        /\ Range(Tail(idequeue)) = Range(idequeue) \ {Head(idequeue)}
        /\ Tail(idequeue) # <<>> <=> Len(idequeue) > 1
    BY <2>1, RangeTail
  <2>4. active' \in BOOLEAN
    BY <2>2
  <2>. QED
    BY <2>2, <2>3, <2>4
<1>. PICK h \in Proc : locked[b] = h /\ bp[h] = b
  BY InUse DEF IInv, QueueInv, LockInv
<1>. blockno[b] \in Block
  BY DEF IInv, BlockInv, Buf
<1>1. TypeOK'
  <2>1. data' \in [Buf -> Val] /\ disk' \in [Block -> Val]
    <3>1. CASE dirty[b]
      BY <3>1, Fields
    <3>2. CASE ~dirty[b]
      BY <3>2, Fields
    <3>. QED
      BY <3>1, <3>2
  <2>2. valid' \in [Buf -> BOOLEAN] /\ dirty' \in [Buf -> BOOLEAN]
    BY Fields
  <2>3. pc' \in [Proc -> {"idle", "lock", "lockwait", "have", "relse",
                        "iderw", "iowait", "iowoken"}]
    BY Fields
  <2>. QED
    BY <2>1 DEF IInv, TypeOK
<1>2. RefInv'
  <2>1. \A q \in Proc : pc'[q] = "idle" <=> pc[q] = "idle"
    BY DEF Ideintr
  <2>2. UNCHANGED <<refcnt, bp>>
    BY DEF Ideintr
  <2>. QED
    BY UsersSame DEF IInv, RefInv
<1>3. BlockInv'
  BY DEF BlockInv, IInv
<1>4. LockInv'
  <2>1. \A q \in Proc, c \in Buf : locked'[c] = q <=> bp'[q] = c /\ pc'[q] \in Holding
    BY DEF LockInv, Holding, IInv
  <2>2. \A q \in Proc : pc'[q] = "lockwait" => locked'[bp'[q]] # NoProc
    BY DEF LockInv, IInv
  <2>. QED
    BY <2>1, <2>2 DEF LockInv
<1>5. QueueInv'
  <2>1. active' <=> idequeue' # <<>>
    BY Consts
  <2>2. \A c \in Range(idequeue') : locked'[c] # NoProc /\ ~InSync(c)'
    BY DEF QueueInv, InSync, IInv
  <2>3. \A q \in Proc : pc'[q] = "have" => bp'[q] \notin Range(idequeue')
    BY DEF QueueInv, IInv
  <2>4. \A q \in Proc : pc'[q] = "iderw" => bp'[q] \notin Range(idequeue') /\ ~InSync(bp[q])'
    <3>1. \A q \in Proc : pc'[q] = "iderw" => pc[q] = "iderw"
      BY Fields
    <3>2. \A q \in Proc : pc[q] = "iderw" => bp[q] # b
      BY DEF IInv, QueueInv
    <3>. QED
      BY <3>2 DEF IInv, QueueInv, InSync
  <2>5. \A q \in Proc : pc'[q] = "iowait" => bp'[q] \in Range(idequeue')
    BY DEF QueueInv, IInv
  <2>6. \A q \in Proc : pc'[q] = "iowoken" => bp'[q] \in Range(idequeue') \/ InSync(bp[q])'
    BY InUse, Consts DEF QueueInv, InSync, LockInv, Holding, TypeOK, IInv
  <2>. QED
    BY <2>2, <2>3, <2>4, <2>5, <2>6 DEF QueueInv
<1>6. DataInv'
  <2>1. \A c \in Buf : (dirty'[c] => valid'[c]) /\ (valid'[c] => blockno'[c] \in Block)
    BY DEF DataInv, IInv
  <2>2. \A c \in Buf : InSync(c)' => data'[c] = disk'[blockno'[c]]
    BY Fields, Consts DEF DataInv, InSync, BlockInv, IInv
  <2>3. \A q \in Proc : pc'[q] = "have" => valid'[bp'[q]]
    BY DEF DataInv, IInv
  <2>. QED
    BY <2>1, <2>2, <2>3 DEF DataInv
<1>. QED
  BY <1>1, <1>2, <1>3, <1>4, <1>5, <1>6 DEF IInv

-----------------------------------------------------------------------------
(* The invariant holds. *)

\* binit() establishes the invariant.
LEMMA Init_Inv == Init => IInv
<1>. SUFFICES ASSUME Init PROVE IInv
  OBVIOUS
<1>. /\ NBUF \in Nat /\ NBUF > 0 /\ Buf = 1 .. NBUF /\ 0 \notin Buf
     /\ (CHOOSE v \in Val : TRUE) \in Val
  BY Consts DEF Buf
<1>1. TypeOK
  <2>1. lru \in [Buf -> Buf] /\ \A b \in Buf : \E i \in Buf : lru[i] = b
    <3>1. \A b \in Buf : NBUF + 1 - b \in Buf /\ NBUF + 1 - (NBUF + 1 - b) = b
      OBVIOUS
    <3>. QED
      BY <3>1 DEF Init
  <2>2. idequeue \in Seq(Buf) /\ IsInjective(idequeue)
    BY DEF Init, IsInjective
  <2>. QED
    BY <2>1, <2>2 DEF Init, TypeOK
<1>2. RefInv
  <2>1. \A b \in Buf : Users(b) = {}
    BY DEF Users, Init
  <2>2. \A b \in Buf : refcnt[b] = Cardinality(Users(b))
    BY <2>1, FS_EmptySet DEF Init
  <2>. QED
    BY <2>2 DEF RefInv, Init
<1>3. BlockInv
  BY DEF BlockInv, Init
<1>4. LockInv
  BY Consts DEF LockInv, Holding, Init
<1>5. QueueInv
  <2>1. Range(idequeue) = {}
    BY DEF Range, Init
  <2>. QED
    BY <2>1 DEF QueueInv, Init
<1>6. DataInv
  BY DEF DataInv, InSync, Init
<1>. QED
  BY <1>1, <1>2, <1>3, <1>4, <1>5, <1>6 DEF IInv

\* Every step preserves it.
LEMMA Next_Inv == IInv /\ [Next]_vars => IInv'
<1>. SUFFICES ASSUME IInv, [Next]_vars PROVE IInv'
  OBVIOUS
<1>1. CASE Ideintr
  BY <1>1, Ideintr_Inv
<1>2. ASSUME NEW p \in Proc, Step(p) PROVE IInv'
  <2>1. ASSUME NEW k \in Block, BgetHit(p, k) \/ BgetRecycle(p, k) PROVE IInv'
    BY <2>1, BgetHit_Inv, BgetRecycle_Inv
  <2>. QED
    BY <1>2, <2>1, Acquiresleep_Inv, Releasesleep_Inv, Brelse_Inv, LogWrite_Inv, Bwrite_Inv,
       Iderw_Inv, IderwWoken_Inv, Kill_Inv DEF Step
<1>3. CASE UNCHANGED vars
  BY <1>3
     DEF vars, bufVars, ideVars, IInv, TypeOK, RefInv, BlockInv, LockInv, QueueInv, DataInv,
              InSync, Users
<1>. QED
  BY <1>1, <1>2, <1>3 DEF Next

\* The invariant holds in every reachable state.
THEOREM Invariance == Spec => []IInv
  BY Init_Inv, Next_Inv, PTL DEF Spec

\* bget() and brelse() in any number of processes: a block has at most one buffer,
\* refcnt counts the processes that hold or wait for it, and a lock's holder, or
\* the disk, never finds its buffer given to another block.
THEOREM CacheIsSound == Spec => []CacheSound
<1>1. IInv => CacheSound
  <2>. SUFFICES ASSUME IInv, NEW b \in Buf
                PROVE  /\ \A c \in Buf \ {b} : blockno[b] = blockno[c] => blockno[b] = NoBlock
                       /\ refcnt[b] = Cardinality(Users(b))
                       /\ locked[b] # NoProc => bp[locked[b]] = b
                       /\ b \in Range(idequeue) => locked[b] # NoProc
    BY DEF CacheSound
  <2>1. \A c \in Buf \ {b} : blockno[b] = blockno[c] => blockno[b] = NoBlock
    BY DEF IInv, BlockInv
  <2>2. refcnt[b] = Cardinality(Users(b))
    BY DEF IInv, RefInv
  <2>3. locked[b] # NoProc => bp[locked[b]] = b
    BY InUse DEF IInv, LockInv
  <2>4. b \in Range(idequeue) => locked[b] # NoProc
    BY DEF IInv, QueueInv
  <2>. QED
    BY <2>1, <2>2, <2>3, <2>4
<1>. QED
  BY <1>1, Invariance, PTL

\* acquiresleep() and iderw(): who sleeps waits for a lock that is held, or for
\* a buffer that is in the disk's queue while the disk works, so that its
\* wakeup is still to come.
THEOREM SleepersAreWaited == Spec => []SleepersWaited
<1>1. IInv => SleepersWaited
  <2>. SUFFICES ASSUME IInv, NEW p \in Proc
                PROVE  /\ pc[p] = "lockwait" => locked[bp[p]] # NoProc
                       /\ pc[p] = "iowait" => bp[p] \in Range(idequeue) /\ active
    BY DEF SleepersWaited
  <2>1. pc[p] = "lockwait" => locked[bp[p]] # NoProc
    BY DEF IInv, LockInv
  <2>2. pc[p] = "iowait" => bp[p] \in Range(idequeue)
    BY DEF IInv, QueueInv
  <2>3. bp[p] \in Range(idequeue) => idequeue # <<>>
    BY DEF Range
  <2>. QED
    BY <2>1, <2>2, <2>3 DEF IInv, QueueInv
<1>. QED
  BY <1>1, Invariance, PTL

-----------------------------------------------------------------------------
(* The cache implements BlockStore. *)

\* A process owns the contents of a block while it has the sleep lock of a
\* buffer whose contents are valid.
LEMMA OwnsIs == IInv => \A p \in Proc : Owns(p) <=> pc[p] \in Holding /\ valid[bp[p]]
<1>. SUFFICES ASSUME IInv, NEW p \in Proc
              PROVE  Owns(p) <=> pc[p] \in Holding /\ valid[bp[p]]
  OBVIOUS
<1>1. CASE bp[p] = 0
  BY <1>1 DEF Owns, IInv, RefInv, Holding
<1>2. CASE bp[p] # 0
  BY <1>2, Fields DEF Owns, IInv, LockInv
<1>. QED
  BY <1>1, <1>2

\* What the mapping is, without CHOOSE: a block has one valid buffer at most
\* and one owner at most.
Mapping ==
  /\ Contents \in [Block -> Val]
  /\ \A k \in Block, b \in Buf : Caches(b, k) => Contents[k] = data[b]
  /\ \A k \in Block : (\A b \in Buf : ~Caches(b, k)) => Contents[k] = disk[k]
  /\ Holder \in [Block -> Proc \cup {NoProc}]
  /\ \A k \in Block, p \in Proc : HasBlock(p, k) => Holder[k] = p
  /\ \A k \in Block : (\A p \in Proc : ~HasBlock(p, k)) => Holder[k] = NoProc
  /\ Seen \in [Proc -> Val \cup {NoVal}]
  /\ \A p \in Proc : Seen[p] = IF Owns(p) THEN data[bp[p]] ELSE NoVal

\* The invariant makes the choices in Contents and Holder unique.
LEMMA MappingIs == IInv => Mapping
<1>. SUFFICES ASSUME IInv PROVE Mapping
  OBVIOUS
<1>1. \A k \in Block, b, c \in Buf : Caches(b, k) /\ Caches(c, k) => b = c
  BY Consts DEF Caches, IInv, BlockInv
<1>2. \A p \in Proc : Owns(p) => bp[p] \in Buf
  BY Fields DEF Owns
<1>3. \A k \in Block, p, q \in Proc : HasBlock(p, k) /\ HasBlock(q, k) => p = q
  <2>. SUFFICES ASSUME NEW k \in Block, NEW p \in Proc, NEW q \in Proc,
                       HasBlock(p, k), HasBlock(q, k)
                PROVE  p = q
    OBVIOUS
  <2>1. bp[p] = bp[q]
    BY <1>1, <1>2 DEF HasBlock, Owns, Caches
  <2>. QED
    BY <2>1 DEF HasBlock, Owns
<1>4. ASSUME NEW k \in Block
      PROVE  /\ Contents[k] \in Val
             /\ \A b \in Buf : Caches(b, k) => Contents[k] = data[b]
             /\ (\A b \in Buf : ~Caches(b, k)) => Contents[k] = disk[k]
  <2>1. CASE \E b \in Buf : Caches(b, k)
    <3>. DEFINE c == CHOOSE b \in Buf : Caches(b, k)
    <3>1. c \in Buf /\ Caches(c, k)
      BY <2>1
    <3>2. Contents[k] = data[c]
      BY <2>1 DEF Contents
    <3>. HIDE DEF c
    <3>. QED
      BY <1>1, <2>1, <3>1, <3>2, Fields
  <2>2. CASE \A b \in Buf : ~Caches(b, k)
    BY <2>2, Fields DEF Contents
  <2>. QED
    BY <2>1, <2>2
<1>5. ASSUME NEW k \in Block
      PROVE  /\ Holder[k] \in Proc \cup {NoProc}
             /\ \A p \in Proc : HasBlock(p, k) => Holder[k] = p
             /\ (\A p \in Proc : ~HasBlock(p, k)) => Holder[k] = NoProc
  <2>1. CASE \E p \in Proc : HasBlock(p, k)
    <3>. DEFINE o == CHOOSE p \in Proc : HasBlock(p, k)
    <3>1. o \in Proc /\ HasBlock(o, k)
      BY <2>1
    <3>2. Holder[k] = o
      BY <2>1 DEF Holder
    <3>. HIDE DEF o
    <3>. QED
      BY <1>3, <2>1, <3>1, <3>2
  <2>2. CASE \A p \in Proc : ~HasBlock(p, k)
    BY <2>2 DEF Holder
  <2>. QED
    BY <2>1, <2>2
<1>6. \A p \in Proc : /\ Seen[p] = IF Owns(p) THEN data[bp[p]] ELSE NoVal
                      /\ Seen[p] \in Val \cup {NoVal}
  BY <1>2, Fields DEF Seen
<1>7. Contents \in [Block -> Val]
  <2>1. Contents = [k \in Block |-> Contents[k]]
    BY DEF Contents
  <2>. QED
    BY <1>4, <2>1
<1>8. Holder \in [Block -> Proc \cup {NoProc}]
  <2>1. Holder = [k \in Block |-> Holder[k]]
    BY DEF Holder
  <2>. QED
    BY <1>5, <2>1
<1>9. Seen \in [Proc -> Val \cup {NoVal}]
  <2>1. Seen = [p \in Proc |-> Seen[p]]
    BY DEF Seen
  <2>. QED
    BY <1>6, <2>1
<1>. QED
  BY <1>4, <1>5, <1>6, <1>7, <1>8, <1>9 DEF Mapping

\* The same after a step.
LEMMA OwnsNext == IInv' => (\A p \in Proc : Owns(p) <=> pc[p] \in Holding /\ valid[bp[p]])'
  BY OwnsIs, PTL

\* The same after a step.
LEMMA MappingNext == IInv' => Mapping'
  BY MappingIs, PTL

\* A step that leaves alone what the owners have leaves the owners alone.
LEMMA OwnersSame ==
  ASSUME IInv, IInv',
         \A q \in Proc : Owns(q)' <=> Owns(q),
         \A q \in Proc : Owns(q) => /\ bp'[q] = bp[q]
                                    /\ blockno'[bp[q]] = blockno[bp[q]]
                                    /\ data'[bp[q]] = data[bp[q]]
  PROVE  Holder' = Holder /\ Seen' = Seen
<1>1. Mapping /\ Mapping'
  BY MappingIs, MappingNext
<1>2. \A q \in Proc, k \in Block : HasBlock(q, k)' <=> HasBlock(q, k)
  BY DEF HasBlock
<1>3. \A k \in Block : Holder'[k] = Holder[k]
  BY <1>1, <1>2 DEF Mapping
<1>4. \A q \in Proc : Seen'[q] = Seen[q]
  BY <1>1 DEF Mapping
<1>. QED
  BY <1>1, <1>3, <1>4 DEF Mapping

\* The contents of the blocks do not change with the locks.
LEMMA ContentsSame ==
  ASSUME UNCHANGED <<blockno, valid, data, disk>>
  PROVE  Contents' = Contents
  BY DEF Contents, Caches

\* Steps that only move processes and locks about.
LEMMA Quiet_Step ==
  ASSUME IInv, IInv', NEW p \in Proc, UNCHANGED <<blockno, valid, data, disk>>,
         Brelse(p) \/ Kill(p) \/ Bwrite(p) \/ Iderw(p) \/ IderwWoken(p)
         \/ \E k \in Block : BgetHit(p, k)
  PROVE  UNCHANGED <<Contents, Holder, Seen>>
<1>1. \A q \in Proc : /\ pc'[q] \in Holding <=> pc[q] \in Holding
                      /\ pc[q] \in Holding => bp'[q] = bp[q]
  <2>1. CASE Brelse(p)
    BY <2>1, Fields DEF Brelse, Goto, Holding
  <2>2. CASE Kill(p)
    BY <2>2, Fields DEF Kill, Goto, Holding
  <2>3. CASE Bwrite(p)
    BY <2>3, Fields DEF Bwrite, Goto, Holding
  <2>4. CASE Iderw(p)
    BY <2>4, Fields DEF Iderw, Goto, Holding
  <2>5. CASE IderwWoken(p)
    BY <2>5, Fields DEF IderwWoken, Goto, Holding
  <2>6. CASE \E k \in Block : BgetHit(p, k)
    BY <2>6, Fields DEF BgetHit, Goto, Holding
  <2>. QED
    BY <2>1, <2>2, <2>3, <2>4, <2>5, <2>6
<1>2. \A q \in Proc : Owns(q)' <=> Owns(q)
  BY <1>1, OwnsIs, OwnsNext
<1>3. Holder' = Holder /\ Seen' = Seen
  BY <1>1, <1>2, OwnsIs, OwnersSame
<1>. QED
  BY <1>3, ContentsSame

\* A clean buffer is given another block: the disk has what the cache had.
LEMMA Recycle_Step ==
  ASSUME IInv, IInv', NEW p \in Proc, NEW k \in Block, BgetRecycle(p, k)
  PROVE  UNCHANGED <<Contents, Holder, Seen>>
<1>. PICK b \in Buf : /\ refcnt[b] = 0 /\ ~dirty[b]
                     /\ blockno' = [blockno EXCEPT ![b] = k]
                     /\ valid' = [valid EXCEPT ![b] = FALSE]
                     /\ bp' = [bp EXCEPT ![p] = b]
  BY DEF BgetRecycle, Recyclable, IInv, TypeOK
<1>. /\ pc[p] = "idle" /\ \A c \in Buf : blockno[c] # k
     /\ pc' = [pc EXCEPT ![p] = "lock"]
     /\ UNCHANGED <<data, disk>>
  BY DEF BgetRecycle, Goto, ideVars
<1>1. \A q \in Proc : bp[q] # b
  BY Unused
<1>2. Mapping /\ Mapping'
  BY MappingIs, MappingNext
<1>3. ASSUME NEW j \in Block PROVE Contents'[j] = Contents[j]
  <2>1. CASE blockno[b] = j /\ valid[b]
    <3>1. Contents[j] = disk[j]
      BY <2>1, <1>2, Fields DEF Mapping, Caches, IInv, DataInv, InSync
    <3>2. \A c \in Buf : ~Caches(c, j)'
      BY <2>1, Fields, Consts DEF Caches, IInv, BlockInv
    <3>. QED
      BY <3>1, <3>2, <1>2 DEF Mapping
  <2>2. CASE ~(blockno[b] = j /\ valid[b])
    <3>1. \A c \in Buf : Caches(c, j)' <=> Caches(c, j)
      BY <2>2, Fields DEF Caches
    <3>. QED
      BY <3>1, <1>2 DEF Mapping
  <2>. QED
    BY <2>1, <2>2
<1>4. Contents' = Contents
  BY <1>2, <1>3 DEF Mapping
<1>5. \A q \in Proc : Owns(q)' <=> Owns(q)
  BY <1>1, OwnsIs, OwnsNext, Fields, InUse DEF Holding
<1>6. \A q \in Proc : Owns(q) => /\ bp'[q] = bp[q] /\ blockno'[bp[q]] = blockno[bp[q]]
                                 /\ data'[bp[q]] = data[bp[q]]
  BY <1>1, OwnsIs, Fields, InUse DEF Holding
<1>. QED
  BY <1>4, <1>5, <1>6, OwnersSame

\* One process comes to own block k and sees it; the other owners keep theirs.
LEMMA Take_Step ==
  ASSUME IInv, IInv', NEW p \in Proc, NEW b \in Buf,
         bp[p] = b, ~Owns(p), Owns(p)', Contents' = Contents,
         UNCHANGED <<blockno, bp>>,
         \A q \in Proc \ {p} : Owns(q)' <=> Owns(q),
         \A c \in Buf \ {b} : data'[c] = data[c]
  PROVE  Store!Take(p, blockno[b])
<1>. DEFINE k == blockno[b]
<1>1. Mapping /\ Mapping'
  BY MappingIs, MappingNext
<1>2. k \in Block /\ \A q \in Proc : Owns(q) => bp[q] \in Buf
  BY Fields, Consts DEF IInv, BlockInv, Owns, Buf
<1>3. HasBlock(p, k)' /\ valid'[b]
  BY DEF HasBlock, Owns
<1>4. \A q \in Proc \ {p} : Owns(q) => bp[q] # b
  BY DEF Owns
<1>5. \A q \in Proc : ~HasBlock(q, k)
  BY <1>2, <1>4, Consts DEF HasBlock, IInv, BlockInv
<1>6. Holder[k] = NoProc /\ Seen[p] = NoVal
  BY <1>1, <1>2, <1>5 DEF Mapping
<1>7. Holder'[k] = p /\ \A j \in Block \ {k} : Holder'[j] = Holder[j]
  <2>1. \A q \in Proc, j \in Block \ {k} : HasBlock(q, j)' <=> HasBlock(q, j)
    BY DEF HasBlock
  <2>. QED
    BY <1>1, <1>2, <1>3, <2>1 DEF Mapping
<1>8. Seen'[p] = Contents[k] /\ \A q \in Proc \ {p} : Seen'[q] = Seen[q]
  <2>1. Contents'[k] = data'[b] /\ Seen'[p] = data'[b]
    BY <1>1, <1>2, <1>3 DEF Mapping, Caches
  <2>. QED
    BY <1>1, <1>2, <1>4, <2>1 DEF Mapping
<1>9. Holder' = [Holder EXCEPT ![k] = p] /\ Seen' = [Seen EXCEPT ![p] = Contents[k]]
  BY <1>1, <1>2, <1>7, <1>8 DEF Mapping
<1>. QED
  BY <1>6, <1>9 DEF Store!Take

\* acquiresleep() of a buffer that is valid takes its block.
LEMMA Acquire_Step ==
  ASSUME IInv, IInv', NEW p \in Proc, Acquiresleep(p)
  PROVE  (\E k \in Block : Store!Take(p, k)) \/ UNCHANGED <<Contents, Holder, Seen>>
<1>. PICK b \in Buf : bp[p] = b
  BY InUse DEF Acquiresleep
<1>. /\ pc[p] = "lock" /\ UNCHANGED <<blockno, valid, data, disk, bp>>
     /\ pc' = [pc EXCEPT ![p] = pc'[p]]
  BY Fields DEF Acquiresleep, Goto, bufVars, ideVars
<1>1. Contents' = Contents
  BY ContentsSame
<1>2. \A q \in Proc \ {p} : Owns(q)' <=> Owns(q)
  BY OwnsIs, OwnsNext, Fields
<1>3. ~Owns(p)
  BY OwnsIs DEF Holding
<1>4. CASE Owns(p)'
  <2>1. blockno[b] \in Block
    BY Consts DEF IInv, BlockInv, Buf
  <2>. QED
    BY <1>1, <1>2, <1>3, <1>4, <2>1, Take_Step
<1>5. CASE ~Owns(p)'
  <2>1. \A q \in Proc : Owns(q)' <=> Owns(q)
    BY <1>2, <1>3, <1>5
  <2>. QED
    BY <1>1, <2>1, OwnersSame
<1>. QED
  BY <1>4, <1>5

\* releasesleep() gives the block up.
LEMMA Release_Step ==
  ASSUME IInv, IInv', NEW p \in Proc, Releasesleep(p)
  PROVE  \E k \in Block : Store!Give(p, k)
<1>. PICK b \in Buf : bp[p] = b
  BY InUse DEF Releasesleep
<1>. PICK k \in Block : k = blockno[b]
  BY Consts DEF IInv, BlockInv, Buf
<1>. /\ pc[p] = "have" /\ UNCHANGED <<blockno, valid, data, disk, bp>>
     /\ \A q \in Proc \ {p} : pc'[q] \in Holding <=> pc[q] \in Holding
     /\ pc'[p] = "relse"
  BY Fields DEF Releasesleep, wakeup, bufVars, ideVars, Holding
<1>1. Contents' = Contents
  BY ContentsSame
<1>2. Mapping /\ Mapping'
  BY MappingIs, MappingNext
<1>3. /\ \A q \in Proc \ {p} : Owns(q)' <=> Owns(q)
      /\ Owns(p) /\ ~Owns(p)'
  BY OwnsIs, OwnsNext, Fields DEF Holding, IInv, DataInv
<1>4. HasBlock(p, k) /\ \A q \in Proc : ~HasBlock(q, k)'
  <2>1. HasBlock(p, k)
    BY <1>3 DEF HasBlock
  <2>2. \A q \in Proc \ {p} : ~HasBlock(q, k)
    BY <1>2, <2>1 DEF Mapping
  <2>. QED
    BY <1>3, <2>1, <2>2 DEF HasBlock
<1>5. \A q \in Proc, j \in Block \ {k} : HasBlock(q, j)' <=> HasBlock(q, j)
  BY <1>3 DEF HasBlock
<1>6. Holder[k] = p /\ Holder' = [Holder EXCEPT ![k] = NoProc]
  BY <1>2, <1>4, <1>5 DEF Mapping
<1>7. Seen' = [Seen EXCEPT ![p] = NoVal]
  BY <1>2, <1>3 DEF Mapping
<1>. QED
  BY <1>1, <1>6, <1>7 DEF Store!Give

\* log_write() after a change of the buffer changes the block.
LEMMA Change_Step ==
  ASSUME IInv, IInv', NEW p \in Proc, LogWrite(p)
  PROVE  \E k \in Block : Store!Change(p, k)
<1>. PICK b \in Buf : bp[p] = b
  BY InUse DEF LogWrite
<1>. PICK k \in Block : k = blockno[b]
  BY Consts DEF IInv, BlockInv, Buf
<1>. PICK v \in Val : data' = [data EXCEPT ![b] = v]
  BY DEF LogWrite
<1>. pc[p] = "have" /\ UNCHANGED <<blockno, valid, disk, pc, locked, bp>>
  BY DEF LogWrite, ideVars
<1>1. Mapping /\ Mapping'
  BY MappingIs, MappingNext
<1>2. Owns(p) /\ HasBlock(p, k) /\ Caches(b, k)
  BY OwnsIs DEF HasBlock, Caches, Holding, IInv, DataInv
<1>3. \A q \in Proc, c \in Buf, j \in Block :
        /\ Owns(q)' <=> Owns(q)
        /\ HasBlock(q, j)' <=> HasBlock(q, j)
        /\ Caches(c, j)' <=> Caches(c, j)
  BY DEF HasBlock, Caches, Owns
<1>4. Holder[k] = p /\ Holder' = Holder
  BY <1>1, <1>2, <1>3 DEF Mapping
<1>5. Contents' = [Contents EXCEPT ![k] = v]
  <2>1. Contents'[k] = v
    BY <1>1, <1>2, <1>3, Fields DEF Mapping
  <2>2. ASSUME NEW j \in Block \ {k} PROVE Contents'[j] = Contents[j]
    <3>1. \A c \in Buf : Caches(c, j) => c # b
      BY DEF Caches
    <3>. QED
      BY <1>1, <1>3, <3>1, Fields DEF Mapping
  <2>. QED
    BY <1>1, <2>1, <2>2 DEF Mapping
<1>6. Seen' = [Seen EXCEPT ![p] = v]
  <2>1. \A q \in Proc \ {p} : Owns(q) => bp[q] # b
    BY <1>2 DEF Owns
  <2>. QED
    BY <1>1, <1>2, <1>3, <2>1, Fields DEF Mapping
<1>. QED
  BY <1>4, <1>5, <1>6 DEF Store!Change

\* A write makes the disk agree with the cache; a read gives the block to the
\* process that waits for it.
LEMMA Ideintr_Step ==
  ASSUME IInv, IInv', Ideintr
  PROVE  \/ \E p \in Proc, k \in Block : Store!Take(p, k)
         \/ UNCHANGED <<Contents, Holder, Seen>>
<1>. PICK b \in Buf : b = Head(idequeue)
  BY RangeTail DEF Ideintr, IInv, TypeOK, QueueInv
<1>. /\ IF dirty[b] THEN disk' = [disk EXCEPT ![blockno[b]] = data[b]] /\ UNCHANGED data
                    ELSE data' = [data EXCEPT ![b] = disk[blockno[b]]] /\ UNCHANGED disk
     /\ valid' = [valid EXCEPT ![b] = TRUE]
     /\ \A q \in Proc : pc'[q] \in Holding <=> pc[q] \in Holding
     /\ UNCHANGED <<blockno, bp>>
  BY Fields DEF Ideintr, wakeup, Holding
<1>. b \in Range(idequeue) /\ ~InSync(b) /\ locked[b] # NoProc
  BY RangeTail DEF Ideintr, IInv, TypeOK, QueueInv
<1>. PICK h \in Proc : locked[b] = h /\ bp[h] = b /\ pc[h] \in Holding
  BY InUse DEF IInv, LockInv
<1>. PICK k \in Block : k = blockno[b]
  BY Consts DEF IInv, BlockInv, Buf
<1>1. Mapping /\ Mapping'
  BY MappingIs, MappingNext
<1>2. CASE dirty[b]
  <2>1. valid[b] /\ UNCHANGED <<data, valid>>
    BY <1>2, Fields DEF IInv, DataInv
  <2>2. \A c \in Buf, j \in Block : Caches(c, j)' <=> Caches(c, j)
    BY <2>1 DEF Caches
  <2>3. ASSUME NEW j \in Block PROVE Contents'[j] = Contents[j]
    <3>1. j = k => Caches(b, j)
      BY <2>1 DEF Caches
    <3>2. j # k => disk'[j] = disk[j]
      BY <1>2, Fields
    <3>. QED
      BY <1>1, <2>1, <2>2, <3>1, <3>2 DEF Mapping
  <2>4. Contents' = Contents
    BY <1>1, <2>3 DEF Mapping
  <2>5. \A q \in Proc : Owns(q)' <=> Owns(q)
    BY <2>1, OwnsIs, OwnsNext
  <2>. QED
    BY <2>1, <2>4, <2>5, OwnersSame
<1>3. CASE ~dirty[b]
  <2>1. ~valid[b]
    BY <1>3 DEF InSync
  <2>2. \A c \in Buf : ~Caches(c, k)
    BY <2>1, Consts DEF Caches, IInv, BlockInv
  <2>3. ASSUME NEW j \in Block PROVE Contents'[j] = Contents[j]
    <3>1. CASE j = k
      <4>1. Caches(b, k)' /\ data'[b] = disk[k]
        BY <1>3, Fields DEF Caches
      <4>. QED
        BY <1>1, <2>2, <3>1, <4>1 DEF Mapping
    <3>2. CASE j # k
      <4>1. \A c \in Buf : Caches(c, j) => c # b
        BY <3>2 DEF Caches
      <4>2. \A c \in Buf : Caches(c, j)' <=> Caches(c, j)
        BY <3>2, Fields DEF Caches
      <4>. QED
        BY <1>1, <1>3, <4>1, <4>2, Fields DEF Mapping
    <3>. QED
      BY <3>1, <3>2
  <2>4. Contents' = Contents
    BY <1>1, <2>3 DEF Mapping
  <2>5. ~Owns(h) /\ Owns(h)'
    BY <2>1, OwnsIs, OwnsNext, Fields
  <2>6. \A q \in Proc \ {h} : pc[q] \in Holding => bp[q] # b
    BY DEF IInv, LockInv
  <2>7. \A q \in Proc \ {h} : Owns(q)' <=> Owns(q)
    BY <2>6, OwnsIs, OwnsNext, Fields, InUse DEF Holding
  <2>8. \A c \in Buf \ {b} : data'[c] = data[c]
    BY <1>3, Fields
  <2>. QED
    BY <2>4, <2>5, <2>7, <2>8, Take_Step
<1>. QED
  BY <1>2, <1>3

\* Every step of the cache is a step of BlockStore or changes nothing in it.
LEMMA Refinement_Step ==
  ASSUME IInv, IInv', [Next]_vars
  PROVE  [Store!Next]_<<Contents, Holder, Seen>>
<1>1. CASE Ideintr
  BY <1>1, Ideintr_Step DEF Store!Next
<1>2. ASSUME NEW p \in Proc, Step(p) PROVE [Store!Next]_<<Contents, Holder, Seen>>
  <2>1. CASE Acquiresleep(p)
    BY <2>1, Acquire_Step DEF Store!Next
  <2>2. CASE Releasesleep(p)
    BY <2>2, Release_Step DEF Store!Next
  <2>3. CASE LogWrite(p)
    BY <2>3, Change_Step DEF Store!Next
  <2>4. CASE Brelse(p) \/ Kill(p) \/ Bwrite(p) \/ Iderw(p) \/ IderwWoken(p)
             \/ \E k \in Block : BgetHit(p, k)
    <3>1. UNCHANGED <<blockno, valid, data, disk>>
      BY <2>4 DEF Brelse, Kill, Bwrite, Iderw, IderwWoken, BgetHit, bufVars, ideVars
    <3>. QED
      BY <2>4, <3>1, Quiet_Step
  <2>5. CASE \E k \in Block : BgetRecycle(p, k)
    BY <2>5, Recycle_Step
  <2>. QED
    BY <1>2, <2>1, <2>2, <2>3, <2>4, <2>5 DEF Step
<1>3. CASE UNCHANGED vars
  <2>1. UNCHANGED <<blockno, valid, data, disk, locked, bp, pc>>
    BY <1>3 DEF vars, bufVars, ideVars
  <2>2. \A q \in Proc : Owns(q)' <=> Owns(q)
    BY <2>1 DEF Owns
  <2>. QED
    BY <2>1, <2>2, OwnersSame, ContentsSame
<1>. QED
  BY <1>1, <1>2, <1>3 DEF Next

\* bread(), log_write() and brelse() against ideintr(), bget() and everybody
\* else: the cache is a store in which a block has one holder at a time and
\* keeps what was last put in it.
THEOREM Refinement == Spec => StoreSpec
<1>1. Init => Store!Init
  <2>. SUFFICES ASSUME Init PROVE Store!Init
    OBVIOUS
  <2>1. Mapping
    BY Init_Inv, MappingIs
  <2>2. \A p \in Proc : ~Owns(p)
    BY DEF Owns, Init
  <2>3. Holder = [k \in Block |-> NoProc] /\ Seen = [p \in Proc |-> NoVal]
    BY <2>1, <2>2 DEF Mapping, HasBlock
  <2>. QED
    BY <2>1, <2>3 DEF Mapping, Store!Init
<1>2. IInv /\ IInv' /\ [Next]_vars => [Store!Next]_<<Contents, Holder, Seen>>
  BY Refinement_Step
<1>. QED
  BY <1>1, <1>2, Invariance, PTL DEF Spec, StoreSpec, Store!Spec
=============================================================================
