-------------------------------- MODULE Pipe --------------------------------
(***************************************************************************)
(* A pipe (pipe.c) between processes that share its two ends, down to the  *)
(* locks: pipe.lock is explicit, and every section under ptable.lock       *)
(* (sleep() up to sched(), wakeup(), kill()) is one action.  Between a test *)
(* made under pipe.lock and the sleep() that follows it kill() may strike. *)
(*                                                                         *)
(* An end is open as long as some process has a descriptor for it; the     *)
(* fileclose() of the last one calls pipeclose().  A process that is       *)
(* inside piperead() or pipewrite() still has the descriptor it came with. *)
(***************************************************************************)
EXTENDS Naturals, Sequences

CONSTANTS
  Reader, Writer,   \* processes with a descriptor for the read, write end
  PIPESIZE,
  UintSize,         \* nread and nwrite are counted modulo this, 2^32
  Byte,
  addr,             \* what a writer's buffer holds
  Counts,           \* the counts each process calls read or write with
  NoProc            \* pipe.lock is free

ASSUME PipeAssumption ==
  /\ PIPESIZE \in Nat \ {0}
  /\ UintSize \in Nat /\ UintSize > PIPESIZE /\ UintSize % PIPESIZE = 0
  /\ Byte # {} /\ addr \in Seq(Byte)
  /\ Reader \cap Writer = {}
  /\ Counts \in [Reader \cup Writer -> SUBSET (0 .. Len(addr))]
  /\ NoProc \notin Reader \cup Writer

Proc == Reader \cup Writer

VARIABLES
  data, nread, nwrite, readopen, writeopen,  \* struct pipe
  plock,        \* the process that holds pipe.lock
  freed,        \* the page of struct pipe has been given back
  open,         \* the processes that have a descriptor for their end
  pc,
  i, n,         \* locals of piperead() and pipewrite()
  asleep,       \* SLEEPING on &nread (a reader) or &nwrite (a writer)
  killed,
  out, eof      \* last byte copied to a reader; some read has returned 0

pipeVars == <<data, nread, nwrite, readopen, writeopen>>
procVars == <<open, i, n, killed>>
vars == <<pipeVars, plock, freed, procVars, pc, asleep, out, eof>>

\* How many bytes the ring holds, and these bytes in the order of their arrival.
InFlight == (nwrite + UintSize - nread) % UintSize
InRing   == [j \in 1 .. InFlight |-> data[(nread + j - 1) % PIPESIZE]]

TypeOK ==
  /\ data \in [0 .. PIPESIZE - 1 -> Byte]
  /\ nread \in 0 .. UintSize - 1 /\ nwrite \in 0 .. UintSize - 1
  /\ InFlight <= PIPESIZE
  /\ readopen \in BOOLEAN /\ writeopen \in BOOLEAN /\ freed \in BOOLEAN
  /\ plock \in Proc \cup {NoProc}
  /\ open \subseteq Proc /\ asleep \subseteq Proc /\ killed \subseteq Proc
  /\ pc \in [Proc -> {"idle", "acquire", "loop", "sleep", "woken", "copy", "close", "gone"}]
  /\ n \in [Proc -> 0 .. Len(addr)]
  /\ i \in [Proc -> Nat] /\ \A p \in Proc : i[p] <= n[p]
  /\ out \in Byte /\ eof \in BOOLEAN

\* pipealloc() has succeeded and fork() has shared the descriptors.
Init ==
  /\ data = [j \in 0 .. PIPESIZE - 1 |-> CHOOSE v \in Byte : TRUE]
  /\ out = data[0]
  /\ nread = 0 /\ nwrite = 0
  /\ readopen = TRUE /\ writeopen = TRUE
  /\ plock = NoProc
  /\ freed = FALSE
  /\ open = Proc
  /\ pc = [p \in Proc |-> "idle"]
  /\ i = [p \in Proc |-> 0] /\ n = [p \in Proc |-> 0]
  /\ asleep = {} /\ killed = {}
  /\ eof = FALSE

-----------------------------------------------------------------------------
\* Mutant: the sum is not reduced to the width of the counters.
Full_NoWrap == nwrite = nread + PIPESIZE

Full  == nwrite = (nread + PIPESIZE) % UintSize
Empty == nread = nwrite
Goto(p, l) == pc' = [pc EXCEPT ![p] = l]

\* A process in the kernel that is not SLEEPING.
At(p, l) == pc[p] = l /\ p \notin asleep

\* wakeup(&p->nread) and wakeup(&p->nwrite).
WakeReaders == asleep' = asleep \ Reader
WakeWriters == asleep' = asleep \ Writer

\* A read or write system call with a count of k.
Call(p, k) ==
  /\ At(p, "idle")
  /\ p \in open
  /\ p \notin killed
  /\ n' = [n EXCEPT ![p] = k]
  /\ Goto(p, "acquire")
  /\ UNCHANGED <<pipeVars, plock, freed, open, i, killed, asleep, out, eof>>

\* acquire(&p->lock), on entry and at the end of sleep().
Acquire(p) ==
  /\ At(p, "acquire") \/ At(p, "woken")
  /\ plock = NoProc
  /\ plock' = p
  /\ Goto(p, "loop")
  /\ UNCHANGED <<pipeVars, freed, procVars, asleep, out, eof>>

\* sleep(chan, &p->lock): under ptable.lock the pipe is released and the
\* process is SLEEPING.
Sleep(p) ==
  /\ At(p, "sleep")
  /\ plock' = NoProc
  /\ asleep' = asleep \cup {p}
  /\ Goto(p, "woken")
  /\ UNCHANGED <<pipeVars, freed, procVars, out, eof>>

\* release(&p->lock) and return to the caller; the locals are gone.
Return(p) ==
  /\ plock' = NoProc
  /\ i' = [i EXCEPT ![p] = 0]
  /\ n' = [n EXCEPT ![p] = 0]
  /\ Goto(p, "idle")

-----------------------------------------------------------------------------
(* pipewrite() *)

WriteByte(p) ==
  /\ At(p, "loop") /\ p \in Writer
  /\ i[p] < n[p]
  /\ ~Full
  /\ data' = [data EXCEPT ![nwrite % PIPESIZE] = addr[i[p] + 1]]
  /\ nwrite' = (nwrite + 1) % UintSize
  /\ i' = [i EXCEPT ![p] = @ + 1]
  /\ UNCHANGED <<nread, readopen, writeopen, plock, freed, open, n, killed, pc, asleep, out, eof>>

\* The pipe is full: return -1, or wake the readers and go to sleep.
WriteFail(p) ==
  /\ At(p, "loop") /\ p \in Writer
  /\ i[p] < n[p]
  /\ Full
  /\ ~readopen \/ p \in killed
  /\ Return(p)
  /\ UNCHANGED <<pipeVars, freed, open, killed, asleep, out, eof>>

WriteWait(p) ==
  /\ At(p, "loop") /\ p \in Writer
  /\ i[p] < n[p]
  /\ Full
  /\ readopen /\ p \notin killed
  /\ WakeReaders
  /\ Goto(p, "sleep")
  /\ UNCHANGED <<pipeVars, plock, freed, procVars, out, eof>>

\* Mutant: the readers are not woken when the whole buffer has been written.
WriteWakeup_None == UNCHANGED asleep

WriteWakeup == WakeReaders

WriteDone(p) ==
  /\ At(p, "loop") /\ p \in Writer
  /\ i[p] = n[p]
  /\ WriteWakeup
  /\ Return(p)
  /\ UNCHANGED <<pipeVars, freed, open, killed, out, eof>>

-----------------------------------------------------------------------------
(* piperead() *)

\* Mutant: a read of an empty pipe returns 0 at once.
MustWait_Never(p) == FALSE

MustWait(p) == Empty /\ writeopen

ReadFail(p) ==
  /\ At(p, "loop") /\ p \in Reader
  /\ MustWait(p)
  /\ p \in killed
  /\ Return(p)
  /\ UNCHANGED <<pipeVars, freed, open, killed, asleep, out, eof>>

ReadWait(p) ==
  /\ At(p, "loop") /\ p \in Reader
  /\ MustWait(p)
  /\ p \notin killed
  /\ Goto(p, "sleep")
  /\ UNCHANGED <<pipeVars, plock, freed, procVars, asleep, out, eof>>

ReadStart(p) ==
  /\ At(p, "loop") /\ p \in Reader
  /\ ~MustWait(p)
  /\ Goto(p, "copy")
  /\ UNCHANGED <<pipeVars, plock, freed, procVars, asleep, out, eof>>

ReadByte(p) ==
  /\ At(p, "copy")
  /\ i[p] < n[p]
  /\ ~Empty
  /\ out' = data[nread % PIPESIZE]
  /\ nread' = (nread + 1) % UintSize
  /\ i' = [i EXCEPT ![p] = @ + 1]
  /\ UNCHANGED <<data, nwrite, readopen, writeopen, plock, freed, open, n, killed, pc, asleep, eof>>

\* The end of the loop; a count of 0 for a positive n is the end of file.
ReadDone(p) ==
  /\ At(p, "copy")
  /\ i[p] = n[p] \/ Empty
  /\ eof' = (eof \/ (i[p] = 0 /\ n[p] > 0))
  /\ WakeWriters
  /\ Return(p)
  /\ UNCHANGED <<pipeVars, freed, open, killed, out>>

-----------------------------------------------------------------------------
(* fileclose(), pipeclose() and kill() *)

\* fileclose(): the last descriptor of an end leads to pipeclose().
Close(p) ==
  /\ At(p, "idle")
  /\ p \in open
  /\ open' = open \ {p}
  /\ Goto(p, IF (p \in Reader /\ open \cap Reader = {p}) \/ (p \in Writer /\ open \cap Writer = {p})
             THEN "close" ELSE "gone")
  /\ UNCHANGED <<pipeVars, plock, freed, i, n, killed, asleep, out, eof>>

\* Mutant: the closing of the last write end wakes nobody.
CloseWakeup_None(p) == UNCHANGED asleep

CloseWakeup(p) == IF p \in Writer THEN WakeReaders ELSE WakeWriters

\* Mutant: the page is freed when either end has been closed.
BothClosed_Either(p) == TRUE

BothClosed(p) == IF p \in Writer THEN ~readopen ELSE ~writeopen

pipeclose(p) ==
  /\ At(p, "close")
  /\ plock = NoProc
  /\ writeopen' = (writeopen /\ p \notin Writer)
  /\ readopen' = (readopen /\ p \notin Reader)
  /\ CloseWakeup(p)
  /\ freed' = (freed \/ BothClosed(p))
  /\ Goto(p, "gone")
  /\ UNCHANGED <<data, nread, nwrite, plock, procVars, out, eof>>

Kill(p) ==
  /\ p \in open
  /\ killed' = killed \cup {p}
  /\ asleep' = asleep \ {p}
  /\ UNCHANGED <<pipeVars, plock, freed, open, i, n, pc, out, eof>>

\* Everybody has closed its descriptor.
Finished ==
  /\ open = {} /\ \A p \in Proc : pc[p] = "gone"
  /\ UNCHANGED vars

Next ==
  \/ \E p \in Proc :
       \/ \E k \in Counts[p] : Call(p, k)
       \/ Acquire(p) \/ Sleep(p)
       \/ WriteByte(p) \/ WriteFail(p) \/ WriteWait(p) \/ WriteDone(p)
       \/ ReadFail(p) \/ ReadWait(p) \/ ReadStart(p) \/ ReadByte(p) \/ ReadDone(p)
       \/ Close(p) \/ pipeclose(p) \/ Kill(p)
  \/ Finished

\* A process that has entered the kernel carries on while it is not asleep, and
\* whoever spins for pipe.lock, to enter or to close, gets it in the end.
Running(p) ==
  \/ Sleep(p) \/ WriteFail(p) \/ WriteWait(p) \/ WriteDone(p) \/ WriteByte(p)
  \/ ReadFail(p) \/ ReadWait(p) \/ ReadStart(p) \/ ReadByte(p) \/ ReadDone(p)

Fairness ==
  \A p \in Proc : WF_vars(Running(p)) /\ SF_vars(Acquire(p)) /\ SF_vars(pipeclose(p))

Spec == Init /\ [][Next]_vars /\ Fairness

-----------------------------------------------------------------------------
(* No wakeup is lost between the pipe's lock and the process table's: while  *)
(* nobody is inside the pipe a writer asleep faces a full pipe and a reader, *)
(* and a reader asleep has nothing to read and a writer to wait for, unless  *)
(* a killed writer has abandoned its call on a full pipe.                    *)
NoLostWakeup ==
  plock = NoProc =>
    /\ asleep \cap Writer # {} => Full /\ readopen
    /\ asleep \cap Reader # {} => writeopen /\ (Empty \/ killed \cap Writer # {})

(* The page of the pipe is freed once both ends are closed, and nobody is    *)
(* using it then or comes back to it.                                        *)
FreedUnused ==
  freed => ~readopen /\ ~writeopen /\ plock = NoProc /\ \A p \in Proc : pc[p] = "gone"

Stream == INSTANCE ByteStream WITH
  Capacity <- PIPESIZE,
  queue    <- InRing,
  writable <- writeopen

(* The ring of PIPESIZE bytes implements a FIFO stream, also when nread and  *)
(* nwrite wrap around, and a read that returns 0 is the end of it.           *)
StreamSpec == Stream!Spec

(* When one end has been closed everybody blocked on the other gets out.     *)
ClosedEndFrees ==
  \A p \in Proc :
    (~writeopen \/ ~readopen) /\ pc[p] # "idle" ~> pc[p] \in {"idle", "gone"}
=============================================================================
