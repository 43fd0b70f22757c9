-------------------------------- MODULE Log --------------------------------
(***************************************************************************)
(* The redo log of log.c over the buffer cache of bio.c: begin_op, end_op, *)
(* log_write, commit, and recovery after a crash at any disk write.        *)
(*                                                                         *)
(* A disk write of one block (iderw) is atomic and synchronous, as bwrite  *)
(* waits for it.  Sections under log.lock are one action.  A panic stops   *)
(* the machine; like a power failure it can only be followed by a boot.    *)
(***************************************************************************)
EXTENDS Naturals, Sequences, FiniteSets, Functions

CONSTANTS
  Proc,          \* processes that execute FS system calls
  Block,         \* blocks outside the log
  Val,           \* contents of a block
  MAXOPBLOCKS,   \* most blocks an operation writes
  nlog           \* sb.nlog, the header included

LOGSIZE == MAXOPBLOCKS * 3
None == "none"

ASSUME LogAssumption ==
  /\ MAXOPBLOCKS \in Nat \ {0}
  /\ nlog \in Nat \ {0, 1}
  /\ Val # {}
  /\ None \notin Block

VARIABLES
  home,          \* on disk: the home location of each block
  logblk,        \* on disk: the blocks of the log after the header.  A write
                 \* past them is outside the modelled state (see LogFits).
  hdr,           \* on disk: the header, as the sequence of its n block numbers
  cache,         \* the data of each block's buffer
  dirty,         \* its B_DIRTY flag
  lh,            \* log.lh
  outstanding,   \* log.outstanding
  committing,    \* log.committing
  pc,            \* where a process is in its operation
  held,          \* the buffer a process has locked, or None
  left,          \* blocks it may still write
  step,          \* where commit() or recover_from_log() is, or None
  tail,          \* index of the loop of write_log and install_trans
  mode           \* "boot", "run" or "panic"

diskVars == <<home, logblk, hdr>>
logVars  == <<lh, outstanding, committing>>
procVars == <<pc, held, left>>
vars == <<diskVars, cache, dirty, logVars, procVars, step, tail, mode>>

ControlOK ==
  /\ hdr \in Seq(Block) /\ lh \in Seq(Block)
  /\ IsInjective(hdr) /\ IsInjective(lh)
  /\ dirty \in [Block -> BOOLEAN]
  /\ outstanding \in Nat
  /\ committing \in BOOLEAN
  /\ pc \in [Proc -> {"idle", "asleep", "op", "modified", "checked", "commit"}]
  /\ held \in [Proc -> Block \cup {None}]
  /\ left \in [Proc -> 0 .. MAXOPBLOCKS]
  /\ step \in {None, "write_log", "write_head", "install", "clear"}
  /\ tail \in 1 .. LOGSIZE + 1
  /\ mode \in {"boot", "run", "panic"}

TypeOK ==
  /\ home \in [Block -> Val]
  /\ logblk \in [1 .. nlog - 1 -> Val]
  /\ cache \in [Block -> Val]
  /\ ControlOK

\* A machine about to boot from the image mkfs made: the log is empty.
Init ==
  /\ home \in [Block -> Val]
  /\ cache = home
  /\ logblk = [i \in 1 .. nlog - 1 |-> CHOOSE v \in Val : TRUE]
  /\ hdr = <<>> /\ lh = <<>>
  /\ dirty = [b \in Block |-> FALSE]
  /\ outstanding = 0
  /\ committing = FALSE
  /\ pc = [p \in Proc |-> "idle"]
  /\ held = [p \in Proc |-> None]
  /\ left = [p \in Proc |-> 0]
  /\ step = None
  /\ tail = 1
  /\ mode = "boot"

-----------------------------------------------------------------------------
(* Operations *)

\* Processes asleep on &log that a wakeup makes runnable; each then repeats
\* the test of begin_op().
WakeAll == [p \in Proc |-> IF pc[p] = "asleep" THEN "idle" ELSE pc[p]]

\* Mutant: the space of the operation that enters is not counted.
Admits_OffByOne ==
  /\ ~committing
  /\ Len(lh) + outstanding * MAXOPBLOCKS <= LOGSIZE

\* begin_op() may enter now: no commit is running and the space an operation
\* may need is left beside that of the outstanding ones.
Admits ==
  /\ ~committing
  /\ Len(lh) + (outstanding + 1) * MAXOPBLOCKS <= LOGSIZE

begin_op(p) ==
  /\ mode = "run"
  /\ pc[p] = "idle"
  /\ Admits
  /\ outstanding' = outstanding + 1
  /\ pc' = [pc EXCEPT ![p] = "op"]
  /\ left' = [left EXCEPT ![p] = MAXOPBLOCKS]
  /\ UNCHANGED <<diskVars, cache, dirty, lh, committing, held, step, tail, mode>>

begin_op_sleep(p) ==
  /\ mode = "run"
  /\ pc[p] = "idle"
  /\ ~Admits
  /\ pc' = [pc EXCEPT ![p] = "asleep"]
  /\ UNCHANGED <<diskVars, cache, dirty, logVars, held, left, step, tail, mode>>

\* bp = bread(b); modify bp->data.  The buffer stays locked until brelse().
Modify(p, b, v) ==
  /\ mode = "run"
  /\ pc[p] = "op"
  /\ left[p] > 0
  /\ \A q \in Proc : held[q] # b
  /\ held' = [held EXCEPT ![p] = b]
  /\ cache' = [cache EXCEPT ![b] = v]
  /\ pc' = [pc EXCEPT ![p] = "modified"]
  /\ left' = [left EXCEPT ![p] = @ - 1]
  /\ UNCHANGED <<diskVars, dirty, logVars, step, tail, mode>>

TooBig == Len(lh) >= LOGSIZE \/ Len(lh) >= nlog - 1

\* The tests at the head of log_write(), made without log.lock.
log_write_check(p) ==
  /\ mode = "run"
  /\ pc[p] = "modified"
  /\ ~TooBig /\ outstanding >= 1
  /\ pc' = [pc EXCEPT ![p] = "checked"]
  /\ UNCHANGED <<diskVars, cache, dirty, logVars, held, left, step, tail, mode>>

log_write_panic(p) ==
  /\ mode = "run"
  /\ pc[p] = "modified"
  /\ TooBig \/ outstanding < 1
  /\ mode' = "panic"
  /\ UNCHANGED <<diskVars, cache, dirty, logVars, procVars, step, tail>>

\* log.lh with b in it: log absorption, or a new entry.
Logged(b) == IF b \in Range(lh) THEN lh ELSE Append(lh, b)

\* The locked part of log_write(), and brelse().
log_write(p) ==
  /\ mode = "run"
  /\ pc[p] = "checked"
  /\ lh' = Logged(held[p])
  /\ dirty' = [dirty EXCEPT ![held[p]] = TRUE]
  /\ held' = [held EXCEPT ![p] = None]
  /\ pc' = [pc EXCEPT ![p] = "op"]
  /\ UNCHANGED <<diskVars, cache, outstanding, committing, left, step, tail, mode>>

\* Mutant: the operation that leaves commits whoever else is outstanding.
LastOut_Always == TRUE

LastOut == outstanding = 1

\* end_op() while others are outstanding: it wakes those waiting for space.
end_op(p) ==
  /\ mode = "run"
  /\ pc[p] = "op"
  /\ ~LastOut
  /\ outstanding' = outstanding - 1
  /\ pc' = [WakeAll EXCEPT ![p] = "idle"]
  /\ left' = [left EXCEPT ![p] = 0]
  /\ UNCHANGED <<diskVars, cache, dirty, lh, committing, held, step, tail, mode>>

\* end_op() of the last one: it commits what has been logged, if anything.
end_op_commit(p) ==
  /\ mode = "run"
  /\ pc[p] = "op"
  /\ LastOut
  /\ outstanding' = outstanding - 1
  /\ committing' = TRUE
  /\ pc' = [pc EXCEPT ![p] = "commit"]
  /\ left' = [left EXCEPT ![p] = 0]
  /\ step' = IF lh = <<>> THEN None ELSE "write_log"
  /\ tail' = 1
  /\ UNCHANGED <<diskVars, cache, dirty, lh, held, mode>>

-----------------------------------------------------------------------------
(* commit() and recover_from_log(), one disk write at a time *)

LastEntry == tail = Len(lh)

\* write_log(): the next block of the transaction goes from the cache to the log.
write_log ==
  /\ mode = "run"
  /\ step = "write_log"
  /\ logblk' = [logblk EXCEPT ![tail] = cache[lh[tail]]]
  /\ step' = IF LastEntry THEN "write_head" ELSE step
  /\ tail' = IF LastEntry THEN 1 ELSE tail + 1
  /\ UNCHANGED <<home, hdr, cache, dirty, logVars, procVars, mode>>

\* write_head(): the commit point.
write_head ==
  /\ mode = "run"
  /\ step = "write_head"
  /\ hdr' = lh
  /\ step' = "install"
  /\ UNCHANGED <<home, logblk, cache, dirty, logVars, procVars, tail, mode>>

\* install_trans(): the next logged block goes home; iderw() clears B_DIRTY.
install_trans ==
  /\ mode # "panic"
  /\ step = "install"
  /\ home' = [home EXCEPT ![lh[tail]] = logblk[tail]]
  /\ cache' = [cache EXCEPT ![lh[tail]] = logblk[tail]]
  /\ dirty' = [dirty EXCEPT ![lh[tail]] = FALSE]
  /\ step' = IF LastEntry THEN "clear" ELSE step
  /\ tail' = IF LastEntry THEN 1 ELSE tail + 1
  /\ UNCHANGED <<logblk, hdr, logVars, procVars, mode>>

\* log.lh.n = 0; write_head().  After recovery the file system is open.
clear_head ==
  /\ mode # "panic"
  /\ step = "clear"
  /\ lh' = <<>>
  /\ hdr' = <<>>
  /\ step' = None
  /\ mode' = "run"
  /\ UNCHANGED <<home, logblk, cache, dirty, outstanding, committing, procVars, tail>>

\* Mutant: commit() ends without waking the processes asleep in begin_op().
WakeDone_None(p) == [pc EXCEPT ![p] = "idle"]

WakeDone(p) == [WakeAll EXCEPT ![p] = "idle"]

\* The end of end_op(), under log.lock again.
commit_done(p) ==
  /\ mode = "run"
  /\ pc[p] = "commit"
  /\ step = None
  /\ committing' = FALSE
  /\ pc' = WakeDone(p)
  /\ UNCHANGED <<diskVars, cache, dirty, lh, outstanding, held, left, step, tail, mode>>

\* recover_from_log() reads the header and installs what it names.
recover(h) ==
  /\ mode = "boot"
  /\ step = None
  /\ h = hdr
  /\ lh' = h
  /\ tail' = 1
  /\ step' = IF h = <<>> THEN "clear" ELSE "install"
  /\ UNCHANGED <<diskVars, cache, dirty, outstanding, committing, procVars, mode>>

\* Mutant: a buffer is recycled although log.c has pinned it with B_DIRTY.
Recyclable_Dirty(b) == \A p \in Proc : held[p] # b

\* bget() may recycle a buffer nobody holds and that is not dirty.
Recyclable(b) ==
  /\ \A p \in Proc : held[p] # b
  /\ ~dirty[b]

\* The buffer of b is recycled; the next bread() of b reads the disk.
Recycle(b) ==
  /\ mode # "panic"
  /\ Recyclable(b)
  /\ cache' = [cache EXCEPT ![b] = home[b]]
  /\ dirty' = [dirty EXCEPT ![b] = FALSE]
  /\ UNCHANGED <<diskVars, logVars, procVars, step, tail, mode>>

\* Power is lost, or the machine is reset after a panic: the disk remains.
Crash ==
  /\ mode' = "boot"
  /\ cache' = home
  /\ dirty' = [b \in Block |-> FALSE]
  /\ lh' = <<>>
  /\ outstanding' = 0
  /\ committing' = FALSE
  /\ pc' = [p \in Proc |-> "idle"]
  /\ held' = [p \in Proc |-> None]
  /\ left' = [p \in Proc |-> 0]
  /\ step' = None
  /\ tail' = 1
  /\ UNCHANGED diskVars

Next ==
  \/ \E p \in Proc :
       \/ begin_op(p) \/ begin_op_sleep(p)
       \/ \E b \in Block, v \in Val : Modify(p, b, v)
       \/ log_write_check(p) \/ log_write_panic(p) \/ log_write(p)
       \/ end_op(p) \/ end_op_commit(p) \/ commit_done(p)
  \/ write_log \/ write_head \/ install_trans \/ clear_head \/ recover(hdr)
  \/ \E b \in Block : Recycle(b)
  \/ Crash

Spec == Init /\ [][Next]_vars

-----------------------------------------------------------------------------
(* What recovery makes of a disk with header h, log blocks l and homes d; of *)
(* the disk as it is now; and what the system reads, or will once it is up.  *)
Recovery(h, l, d) ==
  [b \in Block |-> IF b \in Range(h) THEN l[CHOOSE i \in 1 .. Len(h) : h[i] = b]
                                      ELSE d[b]]
Recovered == Recovery(hdr, logblk, home)
Current   == IF mode = "boot" THEN Recovered ELSE cache

Disk == INSTANCE AtomicDisk WITH
  current <- Current,
  durable <- Recovered,
  open    <- outstanding,
  MaxOps  <- 3

(* The log implements AtomicDisk: through a crash at any point, also during  *)
(* commit() and during recovery, the disk holds all or nothing of a group of *)
(* operations, and never the writes of one that has not called end_op().     *)
DiskSpec == Disk!Spec

\* The blocks p may still add to the log, numbered from 1, for every p.
Owes(p) == left[p] + (IF pc[p] \in {"modified", "checked"} THEN 1 ELSE 0)
Owed == {o \in Proc \X (1 .. MAXOPBLOCKS) : o[2] <= Owes(o[1])}

(* The space begin_op() reserves suffices: the log, and the blocks that the   *)
(* outstanding operations may still add to it, fit in LOGSIZE.                *)
SpaceReserved == Len(lh) + Cardinality(Owed) <= LOGSIZE

(* What the test at the head of log_write() is for: the transaction fits in  *)
(* the log on disk.  The test is made without log.lock, so that two          *)
(* operations may pass it for the last block.                                *)
LogFits == Len(lh) <= nlog - 1

(* No sleeper in begin_op() is forgotten: somebody is outstanding or         *)
(* committing, and will wake it.                                             *)
SleepersWoken ==
  (\E p \in Proc : pc[p] = "asleep") => committing \/ outstanding > 0

(* A block changed but not yet installed stays in the cache: what is logged  *)
(* in memory is dirty, and an unlocked clean buffer agrees with the disk.    *)
Pinned ==
  /\ mode = "run" /\ step # "install" /\ step # "clear" => \A b \in Range(lh) : dirty[b]
  /\ \A b \in Block : (\A p \in Proc : held[p] # b) /\ ~dirty[b] => cache[b] = home[b]
=============================================================================
