------------------------------ MODULE BufCache ------------------------------
(***************************************************************************)
(* The buffer cache (bio.c) with its sleep locks (sleeplock.c) and the disk *)
(* queue (ide.c).  A section under bcache.lock, a sleep lock's spin lock or *)
(* idelock is one action; sleep() is entered with that lock held, so the    *)
(* test before it and the sleep are one.  kill() may wake any sleeper.      *)
(*                                                                         *)
(* A process has one buffer at a time.  It changes the block and pins it    *)
(* (log_write) or writes it out (bwrite).  "bget: no buffers" and the other *)
(* panics are steps that are not taken.                                     *)
(***************************************************************************)
EXTENDS Naturals, Sequences, FiniteSets, Functions

CONSTANTS
  Proc, NoProc,
  NBUF,
  Block,       \* block numbers
  Val, NoVal,  \* contents of a block
  MaxPin       \* most blocks log_write() pins at a time

NoBlock == 0
Buf == 1 .. NBUF

ASSUME BufCacheAssumption ==
  /\ NBUF \in Nat \ {0} /\ MaxPin \in Nat
  /\ IsFiniteSet(Proc) /\ NoProc \notin Proc
  /\ Val # {} /\ NoVal \notin Val /\ NoBlock \notin Block

VARIABLES
  blockno, valid, dirty, refcnt, data,   \* struct buf
  locked,      \* the process that holds b->lock, or NoProc
  lru,         \* the buffers, most recently used first
  idequeue,    \* buffers that wait for the disk
  active,      \* the disk has been started on the first of them
  disk,
  pc, bp       \* where each process is, and its buffer (0 if none)

bufVars == <<blockno, valid, dirty, refcnt, data>>
ideVars == <<idequeue, active, disk>>
vars == <<bufVars, locked, lru, ideVars, pc, bp>>

\* binit(): no buffer holds a block.
Init ==
  /\ blockno = [b \in Buf |-> NoBlock]
  /\ valid = [b \in Buf |-> FALSE] /\ dirty = [b \in Buf |-> FALSE]
  /\ refcnt = [b \in Buf |-> 0]
  /\ data = [b \in Buf |-> CHOOSE v \in Val : TRUE]
  /\ locked = [b \in Buf |-> NoProc]
  /\ lru = [i \in Buf |-> NBUF + 1 - i]
  /\ idequeue = <<>> /\ active = FALSE
  /\ disk = [k \in Block |-> CHOOSE v \in Val : TRUE]
  /\ pc = [p \in Proc |-> "idle"] /\ bp = [p \in Proc |-> 0]

Goto(p, to) == pc' = [pc EXCEPT ![p] = to]

-----------------------------------------------------------------------------
(* bget: look the block up, or recycle the least recently used buffer. *)

BgetHit(p, k) ==
  \E b \in Buf :
    /\ pc[p] = "idle" /\ blockno[b] = k
    /\ refcnt' = [refcnt EXCEPT ![b] = @ + 1]
    /\ bp' = [bp EXCEPT ![p] = b]
    /\ Goto(p, "lock")
    /\ UNCHANGED <<blockno, valid, dirty, data, locked, lru, ideVars>>

\* Mutant: a pinned buffer is recycled.
Recyclable_Dirty(b) == refcnt[b] = 0

\* Mutant: a buffer that a process has a reference to is recycled.
Recyclable_InUse(b) == ~dirty[b]

Recyclable(b) == refcnt[b] = 0 /\ ~dirty[b]

BgetRecycle(p, k) ==
  /\ pc[p] = "idle" /\ \A b \in Buf : blockno[b] # k
  /\ \E i \in Buf :
       LET b == lru[i] IN
       /\ Recyclable(b) /\ \A j \in i + 1 .. NBUF : ~Recyclable(lru[j])
       /\ blockno' = [blockno EXCEPT ![b] = k]
       /\ valid' = [valid EXCEPT ![b] = FALSE] /\ dirty' = [dirty EXCEPT ![b] = FALSE]
       /\ refcnt' = [refcnt EXCEPT ![b] = 1]
       /\ bp' = [bp EXCEPT ![p] = b]
  /\ Goto(p, "lock")
  /\ UNCHANGED <<data, locked, lru, ideVars>>

-----------------------------------------------------------------------------
(* Sleep locks. *)

\* acquiresleep(), one turn of its loop; bread() then looks at B_VALID.
Acquiresleep(p) ==
  LET b == bp[p] IN
  /\ pc[p] = "lock"
  /\ \/ /\ locked[b] # NoProc
        /\ Goto(p, "lockwait") /\ UNCHANGED locked
     \/ /\ locked[b] = NoProc
        /\ locked' = [locked EXCEPT ![b] = p]
        /\ Goto(p, IF valid[b] THEN "have" ELSE "iderw")
  /\ UNCHANGED <<bufVars, lru, ideVars, bp>>

\* Mutant: wakeup() makes no process RUNNABLE.
wakeup_None(from, to, b) == pc

\* wakeup() on b->lock or on b.
wakeup(from, to, b) == [q \in Proc |-> IF pc[q] = from /\ bp[q] = b THEN to ELSE pc[q]]

Place(b) == CHOOSE i \in Buf : lru[i] = b

\* b is taken out of the list and put in at its head.
MoveToFront(b) ==
  [i \in Buf |-> IF i = 1 THEN b ELSE IF i <= Place(b) THEN lru[i - 1] ELSE lru[i]]

\* brelse(): releasesleep(), then the reference and the place in the list.
Releasesleep(p) ==
  LET b == bp[p] IN
  /\ pc[p] = "have"
  /\ locked' = [locked EXCEPT ![b] = NoProc]
  /\ pc' = [wakeup("lockwait", "lock", b) EXCEPT ![p] = "relse"]
  /\ UNCHANGED <<bufVars, lru, ideVars, bp>>

Brelse(p) ==
  LET b == bp[p] IN
  /\ pc[p] = "relse"
  /\ refcnt' = [refcnt EXCEPT ![b] = @ - 1]
  /\ lru' = IF refcnt[b] = 1 THEN MoveToFront(b) ELSE lru
  /\ bp' = [bp EXCEPT ![p] = 0]
  /\ Goto(p, "idle")
  /\ UNCHANGED <<blockno, valid, dirty, data, locked, ideVars>>

\* kill() makes a sleeping process RUNNABLE; both loops test and sleep again.
Kill(p) ==
  /\ \/ pc[p] = "lockwait" /\ Goto(p, "lock")
     \/ pc[p] = "iowait" /\ Goto(p, "iowoken")
  /\ UNCHANGED <<bufVars, locked, lru, ideVars, bp>>

-----------------------------------------------------------------------------
(* What the holder of a buffer does with it. *)

Pinned == {b \in Buf : dirty[b]}

\* A change of the block, then log_write().
LogWrite(p) ==
  LET b == bp[p] IN
  /\ pc[p] = "have" /\ (dirty[b] \/ Cardinality(Pinned) < MaxPin)
  /\ \E v \in Val : data' = [data EXCEPT ![b] = v]
  /\ dirty' = [dirty EXCEPT ![b] = TRUE]
  /\ UNCHANGED <<blockno, valid, refcnt, locked, lru, ideVars, pc, bp>>

Bwrite(p) ==
  /\ pc[p] = "have"
  /\ dirty' = [dirty EXCEPT ![bp[p]] = TRUE]
  /\ Goto(p, "iderw")
  /\ UNCHANGED <<blockno, valid, refcnt, data, locked, lru, ideVars, bp>>

-----------------------------------------------------------------------------
(* The disk. *)

\* iderw(): append to the queue, start the disk if it is idle, sleep.
Iderw(p) ==
  LET b == bp[p] IN
  /\ pc[p] = "iderw"
  /\ idequeue' = Append(idequeue, b)
  /\ active' = (active \/ idequeue = <<>>)
  /\ Goto(p, "iowait")
  /\ UNCHANGED <<bufVars, locked, lru, disk, bp>>

\* ... the loop's test after a wakeup.
IderwWoken(p) ==
  LET b == bp[p] IN
  /\ pc[p] = "iowoken"
  /\ Goto(p, IF valid[b] /\ ~dirty[b] THEN "have" ELSE "iowait")
  /\ UNCHANGED <<bufVars, locked, lru, ideVars, bp>>

\* Mutant: the next request is not started.
StartNext_Not == FALSE

StartNext == Len(idequeue) > 1

\* ideintr(): the transfer of the first buffer is done, and the next is started.
Ideintr ==
  LET b == Head(idequeue) IN
  /\ active
  /\ IF dirty[b] THEN disk' = [disk EXCEPT ![blockno[b]] = data[b]] /\ UNCHANGED data
                 ELSE data' = [data EXCEPT ![b] = disk[blockno[b]]] /\ UNCHANGED disk
  /\ valid' = [valid EXCEPT ![b] = TRUE] /\ dirty' = [dirty EXCEPT ![b] = FALSE]
  /\ idequeue' = Tail(idequeue)
  /\ active' = StartNext
  /\ pc' = wakeup("iowait", "iowoken", b)
  /\ UNCHANGED <<blockno, refcnt, locked, lru, bp>>

-----------------------------------------------------------------------------
Step(p) ==
  \/ Acquiresleep(p) \/ Releasesleep(p) \/ Brelse(p) \/ LogWrite(p) \/ Bwrite(p)
  \/ Iderw(p) \/ IderwWoken(p) \/ Kill(p)
  \/ \E k \in Block : BgetHit(p, k) \/ BgetRecycle(p, k)

Next == Ideintr \/ \E p \in Proc : Step(p)

\* The disk answers, and a RUNNABLE process in iderw() runs.
Fairness == WF_vars(Ideintr) /\ \A p \in Proc : WF_vars(Iderw(p)) /\ WF_vars(IderwWoken(p))

Spec == Init /\ [][Next]_vars /\ Fairness

-----------------------------------------------------------------------------
(* Properties. *)

(* Type invariant; no buffer is lost from the list and none is queued twice. *)
TypeOK ==
  /\ blockno \in [Buf -> Block \cup {NoBlock}]
  /\ valid \in [Buf -> BOOLEAN] /\ dirty \in [Buf -> BOOLEAN]
  /\ refcnt \in [Buf -> Nat] /\ data \in [Buf -> Val]
  /\ locked \in [Buf -> Proc \cup {NoProc}]
  /\ lru \in [Buf -> Buf] /\ \A b \in Buf : \E i \in Buf : lru[i] = b
  /\ idequeue \in Seq(Buf) /\ IsInjective(idequeue) /\ active \in BOOLEAN
  /\ disk \in [Block -> Val]
  /\ pc \in [Proc -> {"idle", "lock", "lockwait", "have", "relse", "iderw", "iowait", "iowoken"}]
  /\ bp \in [Proc -> Buf \cup {0}]

Users(b) == {p \in Proc : bp[p] = b}

\* bget and brelse: a block has at most one buffer, b->refcnt is the number of
\* processes that hold or wait for it, and the buffer of a block that is
\* queued for the disk, locked or pinned is not given to another block.
CacheSound ==
  \A b \in Buf :
    /\ \A c \in Buf \ {b} : blockno[b] = blockno[c] => blockno[b] = NoBlock
    /\ refcnt[b] = Cardinality(Users(b))
    /\ locked[b] # NoProc => bp[locked[b]] = b
    /\ b \in Range(idequeue) => locked[b] # NoProc

\* acquiresleep/releasesleep and iderw/ideintr: who sleeps on a lock waits for a
\* process that holds it, and who sleeps on a buffer waits for a transfer that
\* is under way or queued behind one.
SleepersWaited ==
  \A p \in Proc :
    /\ pc[p] = "lockwait" => locked[bp[p]] # NoProc
    /\ pc[p] = "iowait" => bp[p] \in Range(idequeue) /\ active

Owns(p) == bp[p] # 0 /\ locked[bp[p]] = p /\ valid[bp[p]]

Caches(b, k) == blockno[b] = k /\ valid[b]
HasBlock(p, k) == Owns(p) /\ blockno[bp[p]] = k

\* The store behind the cache: a valid buffer stands for its block.
Contents == [k \in Block |-> IF \E b \in Buf : Caches(b, k)
                            THEN data[CHOOSE b \in Buf : Caches(b, k)] ELSE disk[k]]
Holder   == [k \in Block |-> IF \E p \in Proc : HasBlock(p, k)
                            THEN CHOOSE p \in Proc : HasBlock(p, k) ELSE NoProc]
Seen     == [p \in Proc |-> IF Owns(p) THEN data[bp[p]] ELSE NoVal]

Store == INSTANCE BlockStore WITH store <- Contents, owner <- Holder, view <- Seen

\* The cache, its locks and the disk implement BlockStore: no change is lost
\* when a buffer is recycled, read again or written out.
StoreSpec == Store!Spec

\* A process asleep in iderw() comes back with its buffer.
IoReturns == \A p \in Proc : pc[p] = "iowait" ~> pc[p] = "have"
=============================================================================
