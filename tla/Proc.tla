-------------------------------- MODULE Proc --------------------------------
(***************************************************************************)
(* The process table of proc.c: fork, exit, wait, sleep, wakeup, kill, the *)
(* per-CPU scheduler loop and the handoff of ptable.lock through swtch.    *)
(*                                                                         *)
(* A section of code that runs under ptable.lock and does not call sched() *)
(* is one action, guarded by the lock being free.  A section that ends in  *)
(* sched() leaves the lock held by its CPU; SchedReturn is the scheduler's *)
(* side of that switch.  Code that runs without the lock (the middle of    *)
(* fork, the failure paths of allocproc) is split at its shared accesses.  *)
(*                                                                         *)
(* Which RUNNABLE process the scheduler prefers, and the fields that serve *)
(* only that choice, are in module Sched; the system call records written  *)
(* by exit and kill are in module SyscallTrace.                            *)
(***************************************************************************)
EXTENDS Naturals

CONSTANTS
  NPROC,      \* number of slots of ptable.proc
  CPU,        \* the processors
  NoCPU,      \* "no processor": ptable.lock is free
  Chan,       \* sleep channels other than the proc slots themselves
  MaxPid      \* bound on the pids a behaviour hands out

Slots == 1 .. NPROC

ASSUME ProcAssumption ==
  /\ NPROC \in Nat \ {0}
  /\ MaxPid \in Nat \ {0}
  /\ NoCPU \notin CPU
  /\ Chan \cap (0 .. NPROC) = {}

VARIABLES
  state, pid, parent, chan, killed,  \* fields of ptable.proc[s]; parent, chan 0 if null
  kstack,     \* proc[s] owns an allocated kernel stack
  pgdir,      \* "none", "mapped", or "freed": left dangling by wait
  nextpid,
  ptlock,     \* the CPU that holds ptable.lock, or NoCPU
  curproc,    \* cpus[c].proc, 0 in the scheduler
  pc,         \* where the kernel thread of proc[s] is
  ctx,        \* which call of sched() its saved context returns to, or "none"
  np          \* fork's local np

tableVars == <<state, pid, parent, chan, killed, kstack, pgdir, nextpid>>
vars == <<tableVars, ptlock, curproc, pc, ctx, np>>

InitProc == 1

ProcState == {"UNUSED", "EMBRYO", "SLEEPING", "RUNNABLE", "RUNNING", "ZOMBIE"}
Location  == {"none", "user", "kernel", "alloc", "copy", "publish", "wait",
              "exit", "dead", "panic"}
Context   == {"none", "forkret", "yield", "sleep", "wait", "exit"}
Alive     == {"SLEEPING", "RUNNABLE", "RUNNING"}

TypeOK ==
  /\ state   \in [Slots -> ProcState]
  /\ pid     \in [Slots -> 0 .. nextpid - 1]
  /\ parent  \in [Slots -> 0 .. NPROC]
  /\ chan    \in [Slots -> (0 .. NPROC) \cup Chan]
  /\ killed  \in [Slots -> BOOLEAN]
  /\ kstack  \in [Slots -> BOOLEAN]
  /\ pgdir   \in [Slots -> {"none", "mapped", "freed"}]
  /\ nextpid \in 2 .. MaxPid + 1
  /\ ptlock  \in CPU \cup {NoCPU}
  /\ curproc \in [CPU -> 0 .. NPROC]
  /\ pc      \in [Slots -> Location]
  /\ ctx     \in [Slots -> Context]
  /\ np      \in [Slots -> 0 .. NPROC]

(* The state userinit() leaves: slot 1 holds initcode, all else is free. *)
Init ==
  /\ state   = [s \in Slots |-> IF s = InitProc THEN "RUNNABLE" ELSE "UNUSED"]
  /\ pid     = [s \in Slots |-> IF s = InitProc THEN 1 ELSE 0]
  /\ parent  = [s \in Slots |-> 0]
  /\ chan    = [s \in Slots |-> 0]
  /\ killed  = [s \in Slots |-> FALSE]
  /\ kstack  = [s \in Slots |-> s = InitProc]
  /\ pgdir   = [s \in Slots |-> IF s = InitProc THEN "mapped" ELSE "none"]
  /\ nextpid = 2
  /\ ptlock  = NoCPU
  /\ curproc = [c \in CPU |-> 0]
  /\ pc      = [s \in Slots |-> IF s = InitProc THEN "user" ELSE "none"]
  /\ ctx     = [s \in Slots |-> IF s = InitProc THEN "forkret" ELSE "none"]
  /\ np      = [s \in Slots |-> 0]

-----------------------------------------------------------------------------
(* The scheduler loop and the switch. *)

\* CPU c executes the code of its process p at location l, outside sched().
At(c, p, l) ==
  /\ curproc[c] = p
  /\ state[p] = "RUNNING"
  /\ ctx[p] = "none"
  /\ pc[p] = l

Goto(p, l) == pc' = [pc EXCEPT ![p] = l]

\* acquire(&ptable.lock), when the section releases it again itself.
LockFree == ptlock = NoCPU

\* Mutant: the lock is released before swtch instead of after it.
HoldForSched_Released(c) == ptlock' = NoCPU

\* sched() leaves with the lock held: it passes through swtch to run_proc().
HoldForSched(c) == ptlock' = c

\* scheduler() acquires the lock, finds a process and run_proc()s it.
Schedule(c, p) ==
  /\ LockFree
  /\ curproc[c] = 0
  /\ state[p] = "RUNNABLE"
  /\ ptlock' = c
  /\ curproc' = [curproc EXCEPT ![c] = p]
  /\ state' = [state EXCEPT ![p] = "RUNNING"]
  /\ UNCHANGED <<pid, parent, chan, killed, kstack, pgdir, nextpid, pc, ctx, np>>

\* The process continues after its sched(): forkret and yield release the
\* lock, sleep also clears p->chan, and wait's sleep keeps the lock.  trap()
\* tests p->killed again after a yield() on the way back to user space.
Resume(c, p) ==
  /\ ptlock = c
  /\ curproc[c] = p
  /\ state[p] = "RUNNING"
  /\ ctx[p] \in {"forkret", "yield", "sleep", "wait"}
  /\ chan' = IF ctx[p] \in {"sleep", "wait"} THEN [chan EXCEPT ![p] = 0] ELSE chan
  /\ ptlock' = IF ctx[p] = "wait" THEN c ELSE NoCPU
  /\ ctx' = [ctx EXCEPT ![p] = "none"]
  /\ Goto(p, IF ctx[p] = "yield" /\ pc[p] = "user" /\ killed[p] THEN "exit" ELSE pc[p])
  /\ UNCHANGED <<state, pid, parent, killed, kstack, pgdir, nextpid, curproc, np>>

\* run_proc() continues after its swtch: c->proc = 0 and the lock is released.
SchedReturn(c, p) ==
  /\ ptlock = c
  /\ curproc[c] = p
  /\ state[p] # "RUNNING"
  /\ curproc' = [curproc EXCEPT ![c] = 0]
  /\ ptlock' = NoCPU
  /\ UNCHANGED <<tableVars, pc, ctx, np>>

\* The state-changing half of yield(), called on a clock tick.  A process in
\* user space that has been killed exits instead of yielding.
Yield(c, p) ==
  /\ \E l \in {"user", "kernel", "alloc", "copy", "publish", "exit"} : At(c, p, l)
  /\ pc[p] = "user" => ~killed[p]
  /\ LockFree
  /\ HoldForSched(c)
  /\ state' = [state EXCEPT ![p] = "RUNNABLE"]
  /\ ctx' = [ctx EXCEPT ![p] = "yield"]
  /\ UNCHANGED <<pid, parent, chan, killed, kstack, pgdir, nextpid, curproc, pc, np>>

\* sleep(chan, lk) for a lock lk other than ptable.lock, by a process in a
\* system call or in the file-closing part of exit().
Sleep(c, p, ch) ==
  /\ At(c, p, "kernel") \/ (At(c, p, "exit") /\ p # InitProc)
  /\ LockFree
  /\ HoldForSched(c)
  /\ chan' = [chan EXCEPT ![p] = ch]
  /\ state' = [state EXCEPT ![p] = "SLEEPING"]
  /\ ctx' = [ctx EXCEPT ![p] = "sleep"]
  /\ UNCHANGED <<pid, parent, killed, kstack, pgdir, nextpid, curproc, pc, np>>

\* Mutant: nobody is woken.
wakeup1_None(st, ch) == st

\* The process states wakeup1(ch) leaves, given the states st it starts from.
wakeup1(st, ch) ==
  [s \in Slots |-> IF st[s] = "SLEEPING" /\ chan[s] = ch THEN "RUNNABLE" ELSE st[s]]

\* wakeup(ch), from a system call or an interrupt handler of any CPU.
Wakeup(ch) ==
  /\ LockFree
  /\ \E s \in Slots : state[s] = "SLEEPING" /\ chan[s] = ch
  /\ state' = wakeup1(state, ch)
  /\ UNCHANGED <<pid, parent, chan, killed, kstack, pgdir, nextpid, ptlock, curproc, pc, ctx, np>>

-----------------------------------------------------------------------------
(* Traps: the tests of p->killed on the way into and out of the kernel. *)

TrapEnter(c, p) ==
  /\ At(c, p, "user")
  /\ Goto(p, IF killed[p] THEN "exit" ELSE "kernel")
  /\ UNCHANGED <<tableVars, ptlock, curproc, ctx, np>>

TrapReturn(c, p) ==
  /\ At(c, p, "kernel")
  /\ Goto(p, IF killed[p] THEN "exit" ELSE "user")
  /\ UNCHANGED <<tableVars, ptlock, curproc, ctx, np>>

\* A fault in user space: the process is marked killed and exits.
Fault(c, p) ==
  /\ At(c, p, "user")
  /\ killed' = [killed EXCEPT ![p] = TRUE]
  /\ Goto(p, "exit")
  /\ UNCHANGED <<state, pid, parent, chan, kstack, pgdir, nextpid, ptlock, curproc, ctx, np>>

-----------------------------------------------------------------------------
(* fork() *)

\* The table scan of allocproc(), kill() and wait() stops at the first match.
First(s, matches) ==
  /\ s \in matches
  /\ \A t \in matches : s <= t

Unused == {s \in Slots : state[s] = "UNUSED"}

\* Mutant: the counter is incremented before its use.
AllocPid_PreIncrement(s) ==
  /\ pid' = [pid EXCEPT ![s] = nextpid + 1]
  /\ nextpid' = nextpid + 1

\* p->pid = nextpid++
AllocPid(s) ==
  /\ pid' = [pid EXCEPT ![s] = nextpid]
  /\ nextpid' = nextpid + 1

\* allocproc() under the lock.  With no UNUSED slot fork() returns -1.
AllocProc(c, p, s) ==
  /\ At(c, p, "kernel")
  /\ LockFree
  /\ First(s, Unused)
  /\ nextpid <= MaxPid
  /\ state' = [state EXCEPT ![s] = "EMBRYO"]
  /\ AllocPid(s)
  /\ np' = [np EXCEPT ![p] = s]
  /\ Goto(p, "alloc")
  /\ UNCHANGED <<parent, chan, killed, kstack, pgdir, ptlock, curproc, ctx>>

\* allocproc() after release: kalloc() gives the stack that holds the first context.
Kstack(c, p, s) ==
  /\ At(c, p, "alloc")
  /\ s = np[p]
  /\ kstack' = [kstack EXCEPT ![s] = TRUE]
  /\ ctx' = [ctx EXCEPT ![s] = "forkret"]
  /\ Goto(p, "copy")
  /\ UNCHANGED <<state, pid, parent, chan, killed, pgdir, nextpid, ptlock, curproc, np>>

\* ... or fails: the slot is given back without the lock, its pid still set.
KstackFail(c, p, s) ==
  /\ At(c, p, "alloc")
  /\ s = np[p]
  /\ state' = [state EXCEPT ![s] = "UNUSED"]
  /\ np' = [np EXCEPT ![p] = 0]
  /\ Goto(p, "kernel")
  /\ UNCHANGED <<pid, parent, chan, killed, kstack, pgdir, nextpid, ptlock, curproc, ctx>>

\* copyuvm() succeeds and fork() fills in the child, without the lock.
CopyUvm(c, p, s) ==
  /\ At(c, p, "copy")
  /\ s = np[p]
  /\ pgdir' = [pgdir EXCEPT ![s] = "mapped"]
  /\ parent' = [parent EXCEPT ![s] = p]
  /\ Goto(p, "publish")
  /\ UNCHANGED <<state, pid, chan, killed, kstack, nextpid, ptlock, curproc, ctx, np>>

\* copyuvm() fails: the stack is freed, pgdir is the null it returned.
CopyFail(c, p, s) ==
  /\ At(c, p, "copy")
  /\ s = np[p]
  /\ kstack' = [kstack EXCEPT ![s] = FALSE]
  /\ pgdir' = [pgdir EXCEPT ![s] = "none"]
  /\ ctx' = [ctx EXCEPT ![s] = "none"]
  /\ state' = [state EXCEPT ![s] = "UNUSED"]
  /\ np' = [np EXCEPT ![p] = 0]
  /\ Goto(p, "kernel")
  /\ UNCHANGED <<pid, parent, chan, killed, nextpid, ptlock, curproc>>

\* The child becomes RUNNABLE under the lock and fork() returns its pid.
Publish(c, p, s) ==
  /\ At(c, p, "publish")
  /\ s = np[p]
  /\ LockFree
  /\ state' = [state EXCEPT ![s] = "RUNNABLE"]
  /\ pc' = [pc EXCEPT ![s] = "user", ![p] = "kernel"]
  /\ np' = [np EXCEPT ![p] = 0]
  /\ UNCHANGED <<pid, parent, chan, killed, kstack, pgdir, nextpid, ptlock, curproc, ctx>>

-----------------------------------------------------------------------------
(* exit(), wait() and kill() *)

SysExit(c, p) ==
  /\ At(c, p, "kernel")
  /\ Goto(p, "exit")
  /\ UNCHANGED <<tableVars, ptlock, curproc, ctx, np>>

\* exit() of init panics: its CPU spins for ever with interrupts off.
ExitInit(c, p) ==
  /\ At(c, p, "exit")
  /\ p = InitProc
  /\ Goto(p, "panic")
  /\ UNCHANGED <<tableVars, ptlock, curproc, ctx, np>>

Panicked(c, p) ==
  /\ At(c, p, "panic")
  /\ UNCHANGED vars

\* The states exit() of p leaves: the parent is woken, init too if it inherits
\* a zombie, and p becomes one.
ExitStates(p) ==
  LET st == wakeup1(state, parent[p])
      orphan == \E s \in Slots : parent[s] = p /\ state[s] = "ZOMBIE"
  IN [(IF orphan THEN wakeup1(st, InitProc) ELSE st) EXCEPT ![p] = "ZOMBIE"]

\* Mutant: children that have already exited are not passed on.
Reparent_LiveOnly(p) ==
  [s \in Slots |-> IF parent[s] = p /\ state[s] # "ZOMBIE" THEN InitProc ELSE parent[s]]

\* Abandoned children go to init.
Reparent(p) == [s \in Slots |-> IF parent[s] = p THEN InitProc ELSE parent[s]]

Exit(c, p) ==
  /\ At(c, p, "exit")
  /\ p # InitProc
  /\ LockFree
  /\ HoldForSched(c)
  /\ state' = ExitStates(p)
  /\ parent' = Reparent(p)
  /\ ctx' = [ctx EXCEPT ![p] = "exit"]
  /\ Goto(p, "dead")
  /\ UNCHANGED <<pid, chan, killed, kstack, pgdir, nextpid, curproc, np>>

\* Top of wait()'s loop: on entry the lock is taken, after sleep it is held.
InWait(c, p) ==
  \/ At(c, p, "kernel") /\ LockFree
  \/ At(c, p, "wait") /\ ptlock = c

\* Mutant: wait() reaps any zombie.
IsZombieChild_Any(p, s) == state[s] = "ZOMBIE"

IsZombieChild(p, s) == parent[s] = p /\ state[s] = "ZOMBIE"
HasKids(p) == \E s \in Slots : parent[s] = p
HasZombie(p) == \E s \in Slots : IsZombieChild(p, s)

WaitReap(c, p, s) ==
  /\ InWait(c, p)
  /\ First(s, {t \in Slots : IsZombieChild(p, t)})
  /\ kstack' = [kstack EXCEPT ![s] = FALSE]
  /\ ctx' = [ctx EXCEPT ![s] = "none"]
  /\ pgdir' = [pgdir EXCEPT ![s] = "freed"]
  /\ pid' = [pid EXCEPT ![s] = 0]
  /\ parent' = [parent EXCEPT ![s] = 0]
  /\ killed' = [killed EXCEPT ![s] = FALSE]
  /\ state' = [state EXCEPT ![s] = "UNUSED"]
  /\ ptlock' = NoCPU
  /\ pc' = [pc EXCEPT ![p] = "kernel", ![s] = "none"]
  /\ UNCHANGED <<chan, nextpid, curproc, np>>

\* wait() returns -1: no children, or the caller has been killed.
WaitFail(c, p) ==
  /\ InWait(c, p)
  /\ ~HasZombie(p)
  /\ ~HasKids(p) \/ killed[p]
  /\ ptlock' = NoCPU
  /\ Goto(p, "kernel")
  /\ UNCHANGED <<tableVars, curproc, ctx, np>>

\* sleep(curproc, &ptable.lock): the lock is not released in between.
WaitSleep(c, p) ==
  /\ InWait(c, p)
  /\ ~HasZombie(p)
  /\ HasKids(p)
  /\ ~killed[p]
  /\ HoldForSched(c)
  /\ chan' = [chan EXCEPT ![p] = p]
  /\ state' = [state EXCEPT ![p] = "SLEEPING"]
  /\ ctx' = [ctx EXCEPT ![p] = "wait"]
  /\ Goto(p, "wait")
  /\ UNCHANGED <<pid, parent, killed, kstack, pgdir, nextpid, curproc, np>>

\* Mutant: kill() makes its target RUNNABLE unless it is RUNNING.
KillStates_Any(s) == IF state[s] # "RUNNING" THEN [state EXCEPT ![s] = "RUNNABLE"] ELSE state

\* kill() wakes its target, and changes no state but SLEEPING.
KillStates(s) == IF state[s] = "SLEEPING" THEN [state EXCEPT ![s] = "RUNNABLE"] ELSE state

\* kill(k) finds the first slot whose pid is k, whatever state it is in.
Kill(c, p, k, s) ==
  /\ At(c, p, "kernel")
  /\ LockFree
  /\ First(s, {t \in Slots : pid[t] = k})
  /\ killed' = [killed EXCEPT ![s] = TRUE]
  /\ state' = KillStates(s)
  /\ UNCHANGED <<pid, parent, chan, kstack, pgdir, nextpid, ptlock, curproc, pc, ctx, np>>

-----------------------------------------------------------------------------
Switch(c, p)    == Schedule(c, p) \/ Resume(c, p) \/ SchedReturn(c, p) \/ Yield(c, p)
Trap(c, p)      == TrapEnter(c, p) \/ TrapReturn(c, p) \/ Fault(c, p)
Fork(c, p, s)   == \/ AllocProc(c, p, s) \/ Kstack(c, p, s) \/ KstackFail(c, p, s)
                   \/ CopyUvm(c, p, s) \/ CopyFail(c, p, s) \/ Publish(c, p, s)
ExitStep(c, p)  == SysExit(c, p) \/ ExitInit(c, p) \/ Panicked(c, p) \/ Exit(c, p)
WaitStep(c, p)  == (\E s \in Slots : WaitReap(c, p, s)) \/ WaitFail(c, p) \/ WaitSleep(c, p)

CpuStep(c, p) ==
  \/ Switch(c, p)
  \/ Trap(c, p)
  \/ \E s \in Slots : Fork(c, p, s)
  \/ ExitStep(c, p)
  \/ WaitStep(c, p)
  \/ \E ch \in Chan : Sleep(c, p, ch)
  \/ \E k \in 0 .. MaxPid, s \in Slots : Kill(c, p, k, s)

Next ==
  \/ \E c \in CPU, p \in Slots : CpuStep(c, p)
  \/ \E ch \in Chan : Wakeup(ch)

Spec == Init /\ [][Next]_vars

-----------------------------------------------------------------------------
(* What the table promises. *)

(* No two slots ever carry the same pid, whatever states they are in: kill() *)
(* stops at the first match, so a duplicate would shield the second process. *)
PidsDistinct ==
  \A s, t \in Slots : pid[s] = pid[t] /\ pid[s] # 0 => s = t

(* The handoff of ptable.lock through sched() and run_proc(): a process is on *)
(* at most one CPU, a RUNNING one is on a CPU, and a CPU whose process is not *)
(* RUNNING (it is between sched() and the scheduler) still holds the lock.    *)
RunsOnOneCpu ==
  /\ \A c, d \in CPU : curproc[c] = curproc[d] /\ curproc[c] # 0 => c = d
  /\ \A s \in Slots : state[s] = "RUNNING" => \E c \in CPU : curproc[c] = s
  /\ \A c \in CPU : curproc[c] # 0 /\ state[curproc[c]] # "RUNNING" => ptlock = c

(* wait() frees a zombie's stack and page table only when no CPU executes on *)
(* them any more, and fork() publishes a child only with both in place.      *)
StackInUse ==
  /\ \A c \in CPU : curproc[c] # 0 => kstack[curproc[c]] /\ pgdir[curproc[c]] = "mapped"
  /\ \A s \in Slots : state[s] \in Alive \cup {"ZOMBIE"} => kstack[s] /\ pgdir[s] = "mapped"

(* A process that is to be reaped has somebody who can: the parent of every *)
(* process but init is a live slot, through any order of exits.             *)
ParentAlive ==
  \A s \in Slots \ {InitProc} : state[s] \in Alive \cup {"ZOMBIE"} =>
    parent[s] \in Slots /\ state[parent[s]] \in Alive

(* No wakeup is lost in wait(): a process asleep there has a child left to  *)
(* wait for, none that has already exited, and has not been killed.         *)
NoLostWait ==
  \A p \in Slots : state[p] = "SLEEPING" /\ pc[p] = "wait" =>
    HasKids(p) /\ ~HasZombie(p) /\ ~killed[p]

(* The slot an unlocked part of fork() is filling in is an EMBRYO that no    *)
(* other fork, kill or wakeup has touched, and every EMBRYO has such an owner: *)
(* no failure path leaks a slot.                                             *)
EmbryoOwned ==
  /\ \A p, q \in Slots : np[p] = np[q] /\ np[p] # 0 => p = q
  /\ \A s \in Slots : state[s] = "EMBRYO" <=> \E p \in Slots : np[p] = s

-----------------------------------------------------------------------------
(* The inductive strengthening: what holds of pc, ctx and np besides.      *)

Forking == {"alloc", "copy", "publish"}

\* A thread that is not RUNNING is inside sched(), at a call its pc allows.
CtxInv ==
  \A s \in Slots :
    /\ pc[s] = "none" <=> state[s] \in {"UNUSED", "EMBRYO"}
    /\ state[s] \in {"RUNNABLE", "SLEEPING"} => ctx[s] \notin {"none", "exit"}
    /\ state[s] = "SLEEPING" => ctx[s] \in {"sleep", "wait"}
    /\ state[s] = "RUNNING" => ctx[s] # "exit"
    /\ state[s] = "ZOMBIE" <=> pc[s] = "dead"
    /\ state[s] = "ZOMBIE" => ctx[s] = "exit"
    /\ ctx[s] = "wait" => pc[s] = "wait"
    /\ ctx[s] = "sleep" => pc[s] \in {"kernel", "exit"}
    /\ ctx[s] = "forkret" => pc[s] \in {"none", "user"}
    /\ ctx[s] = "yield" => pc[s] \in {"user", "kernel", "exit"} \cup Forking

\* A CPU whose process is inside sched(), or in the loop of wait(), has the lock.
CpuInv ==
  /\ RunsOnOneCpu
  /\ \A c \in CPU : curproc[c] # 0 =>
       /\ state[curproc[c]] \in Alive \cup {"ZOMBIE"}
       /\ ctx[curproc[c]] # "none" \/ pc[curproc[c]] = "wait" => ptlock = c
  /\ \A c \in CPU : ptlock = c => curproc[c] # 0

\* The local np of fork(), and how far the child it points to has come.
ForkInv ==
  /\ EmbryoOwned
  /\ \A p \in Slots :
       /\ np[p] # 0 <=> pc[p] \in Forking
       /\ pc[p] \in {"copy", "publish"} => kstack[np[p]] /\ ctx[np[p]] = "forkret"
       /\ pc[p] = "publish" => pgdir[np[p]] = "mapped" /\ parent[np[p]] = p
       /\ pc[p] \in {"alloc", "copy"} => parent[np[p]] = 0

TreeInv ==
  /\ ParentAlive
  /\ state[InitProc] \in Alive
  /\ parent[InitProc] = 0
  /\ \A s \in Slots : state[s] = "UNUSED" => parent[s] = 0
  /\ \A s \in Slots : parent[s] # s

MemInv ==
  \A s \in Slots : state[s] \in Alive \cup {"ZOMBIE"} => kstack[s] /\ pgdir[s] = "mapped"

WaitInv ==
  /\ NoLostWait
  /\ \A s \in Slots : state[s] = "SLEEPING" /\ pc[s] = "wait" => chan[s] = s

(* Everything the proofs carry through a step of any CPU: the promises above, *)
(* and where each thread is in fork(), wait() and sched() when it is.         *)
IInv ==
  /\ TypeOK
  /\ PidsDistinct
  /\ CtxInv
  /\ CpuInv
  /\ ForkInv
  /\ TreeInv
  /\ MemInv
  /\ WaitInv

-----------------------------------------------------------------------------
(* The life of each pid that the table implements. *)

Holders(i) == {s \in Slots : pid[s] = i /\ state[s] # "UNUSED"}

StatusOf(i) ==
  LET holders == Holders(i)
      s == CHOOSE t \in holders : TRUE
  IN IF i >= nextpid THEN "fresh"
     ELSE IF holders = {} THEN "gone"
     ELSE CASE state[s] = "EMBRYO" -> "embryo"
            [] state[s] = "ZOMBIE" -> "zombie"
            [] state[s] \in Alive  -> IF pc[s] = "wait" THEN "waiting" ELSE "alive"

ParentOf(i) ==
  IF \E s \in Holders(i) : state[s] # "EMBRYO" /\ parent[s] # 0
  THEN LET s == CHOOSE t \in Holders(i) : TRUE IN pid[parent[s]]
  ELSE 0

Status == [i \in 1 .. MaxPid |-> StatusOf(i)]
Par    == [i \in 1 .. MaxPid |-> ParentOf(i)]

Life == INSTANCE ProcLife WITH
  status <- Status,
  par    <- Par

(* The table implements ProcLife: pids are handed out in order and once, and *)
(* an exited process is reaped exactly once, by the process that is its      *)
(* parent at that time; nobody starts to wait, or gives up, with a child to  *)
(* reap.                                                                     *)
LifeSpec == Life!Spec
=============================================================================
