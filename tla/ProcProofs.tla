----------------------------- MODULE ProcProofs -----------------------------
(***************************************************************************)
(* The invariants of the process table hold for every number of slots,     *)
(* CPUs, channels and pids.  IInv (module Proc) is inductive: one lemma    *)
(* per action, one step per part of IInv.  With it every step of the table *)
(* is shown to be a step of ProcLife, or to stutter.                       *)
(***************************************************************************)
EXTENDS Proc, TLAPS

\* Slots are positive numbers, told apart from null and from the channels.
LEMMA SlotFacts ==
  /\ InitProc \in Slots
  /\ 0 \notin Slots
  /\ 0 .. NPROC = Slots \cup {0}
  /\ \A s \in Slots : s \notin Chan
  /\ 0 \notin Chan
  BY ProcAssumption DEF Slots, InitProc

-----------------------------------------------------------------------------
(* The scheduler, sleep() and wakeup() *)

\* scheduler() finds p and switches to it, holding the lock.
LEMMA ScheduleInv ==
  ASSUME NEW c \in CPU, NEW p \in Slots, IInv, Schedule(c, p)
  PROVE  IInv'
<1>1. TypeOK'
  BY SlotFacts DEF Schedule, IInv, TypeOK, ProcState
<1>2. PidsDistinct'
  BY DEF Schedule, IInv, PidsDistinct
<1>3. CtxInv'
  BY DEF Schedule, IInv, CtxInv
<1>4. CpuInv'
  BY SlotFacts, ProcAssumption
     DEF Schedule, IInv, CpuInv, TypeOK, RunsOnOneCpu, LockFree, Alive
<1>5. ForkInv'
  BY DEF Schedule, IInv, ForkInv, EmbryoOwned
<1>6. TreeInv'
  BY DEF Schedule, IInv, TreeInv, ParentAlive, Alive
<1>7. MemInv'
  BY DEF Schedule, IInv, MemInv, Alive
<1>8. WaitInv'
  BY SlotFacts, ProcAssumption
     DEF Schedule, IInv, WaitInv, TypeOK, CtxInv, NoLostWait, ForkInv,
         EmbryoOwned, TreeInv, ParentAlive, CpuInv, RunsOnOneCpu, LockFree,
         ProcState, Location, Context, Forking, HasKids, HasZombie,
         IsZombieChild, Alive
<1>. QED
  BY <1>1, <1>2, <1>3, <1>4, <1>5, <1>6, <1>7, <1>8 DEF IInv

\* The other side of the switch: p leaves sched() and releases the lock.
LEMMA ResumeInv ==
  ASSUME NEW c \in CPU, NEW p \in Slots, IInv, Resume(c, p)
  PROVE  IInv'
<1>1. TypeOK'
  BY ProcAssumption DEF Resume, IInv, TypeOK, Goto, Location, Context
<1>2. PidsDistinct'
  BY DEF Resume, IInv, PidsDistinct
<1>3. CtxInv'
  BY DEF Resume, IInv, CtxInv, Goto
<1>4. CpuInv'
  BY ProcAssumption
     DEF Resume, IInv, CpuInv, TypeOK, CtxInv, RunsOnOneCpu, Goto, Forking
<1>5. ForkInv'
  BY DEF Resume, IInv, ForkInv, EmbryoOwned, Goto, Forking
<1>6. TreeInv'
  BY DEF Resume, IInv, TreeInv, ParentAlive
<1>7. MemInv'
  BY DEF Resume, IInv, MemInv
<1>8. WaitInv'
  BY DEF Resume, IInv, WaitInv, NoLostWait, Goto, HasKids, HasZombie,
         IsZombieChild
<1>. QED
  BY <1>1, <1>2, <1>3, <1>4, <1>5, <1>6, <1>7, <1>8 DEF IInv

\* The scheduler takes the lock over from a process that has left its CPU.
LEMMA SchedReturnInv ==
  ASSUME NEW c \in CPU, NEW p \in Slots, IInv, SchedReturn(c, p)
  PROVE  IInv'
<1>1. TypeOK'
  BY ProcAssumption DEF SchedReturn, IInv, TypeOK, tableVars
<1>2. PidsDistinct'
  BY DEF SchedReturn, IInv, PidsDistinct, tableVars
<1>3. CtxInv'
  BY DEF SchedReturn, IInv, CtxInv, tableVars
<1>4. CpuInv'
  BY ProcAssumption
     DEF SchedReturn, IInv, CpuInv, TypeOK, RunsOnOneCpu, tableVars
<1>5. ForkInv'
  BY DEF SchedReturn, IInv, ForkInv, EmbryoOwned, tableVars
<1>6. TreeInv'
  BY DEF SchedReturn, IInv, TreeInv, ParentAlive, tableVars
<1>7. MemInv'
  BY DEF SchedReturn, IInv, MemInv, tableVars
<1>8. WaitInv'
  BY DEF SchedReturn, IInv, WaitInv, NoLostWait, tableVars, HasKids, HasZombie,
         IsZombieChild
<1>. QED
  BY <1>1, <1>2, <1>3, <1>4, <1>5, <1>6, <1>7, <1>8 DEF IInv

\* yield() up to its sched().
LEMMA YieldInv ==
  ASSUME NEW c \in CPU, NEW p \in Slots, IInv, Yield(c, p)
  PROVE  IInv'
<1>1. TypeOK'
  BY DEF Yield, IInv, TypeOK, HoldForSched, ProcState, Context
<1>2. PidsDistinct'
  BY DEF Yield, IInv, PidsDistinct
<1>3. CtxInv'
  BY DEF Yield, IInv, CtxInv, TypeOK, At, Forking
<1>4. CpuInv'
  BY SlotFacts, ProcAssumption
     DEF Yield, IInv, CpuInv, RunsOnOneCpu, At, LockFree, HoldForSched, Alive
<1>5. ForkInv'
  BY DEF Yield, IInv, ForkInv, EmbryoOwned, At
<1>6. TreeInv'
  BY DEF Yield, IInv, TreeInv, ParentAlive, At, Alive
<1>7. MemInv'
  BY DEF Yield, IInv, MemInv, At, Alive
<1>8. WaitInv'
  BY DEF Yield, IInv, WaitInv, NoLostWait, HasKids, HasZombie, IsZombieChild
<1>. QED
  BY <1>1, <1>2, <1>3, <1>4, <1>5, <1>6, <1>7, <1>8 DEF IInv

\* sleep() up to its sched().
LEMMA SleepInv ==
  ASSUME NEW c \in CPU, NEW p \in Slots, NEW ch \in Chan, IInv, Sleep(c, p, ch)
  PROVE  IInv'
<1>1. TypeOK'
  BY DEF Sleep, IInv, TypeOK, HoldForSched, ProcState, Context
<1>2. PidsDistinct'
  BY DEF Sleep, IInv, PidsDistinct
<1>3. CtxInv'
  BY DEF Sleep, IInv, CtxInv, TypeOK, At
<1>4. CpuInv'
  BY SlotFacts, ProcAssumption
     DEF Sleep, IInv, CpuInv, RunsOnOneCpu, At, LockFree, HoldForSched, Alive
<1>5. ForkInv'
  BY DEF Sleep, IInv, ForkInv, EmbryoOwned, At
<1>6. TreeInv'
  BY DEF Sleep, IInv, TreeInv, ParentAlive, At, Alive
<1>7. MemInv'
  BY DEF Sleep, IInv, MemInv, At, Alive
<1>8. WaitInv'
  BY DEF Sleep, IInv, WaitInv, NoLostWait, At, HasKids, HasZombie,
         IsZombieChild
<1>. QED
  BY <1>1, <1>2, <1>3, <1>4, <1>5, <1>6, <1>7, <1>8 DEF IInv

\* wakeup() on a channel that is not a slot never reaches a process in wait().
LEMMA WakeupInv ==
  ASSUME NEW ch \in Chan, IInv, Wakeup(ch)
  PROVE  IInv'
<1>1. TypeOK'
  BY DEF Wakeup, IInv, TypeOK, wakeup1, ProcState
<1>2. PidsDistinct'
  BY DEF Wakeup, IInv, PidsDistinct
<1>3. CtxInv'
  BY DEF Wakeup, IInv, CtxInv, wakeup1
<1>4. CpuInv'
  BY SlotFacts, ProcAssumption
     DEF Wakeup, IInv, CpuInv, TypeOK, RunsOnOneCpu, LockFree, wakeup1
<1>5. ForkInv'
  BY DEF Wakeup, IInv, ForkInv, EmbryoOwned, wakeup1
<1>6. TreeInv'
  BY SlotFacts DEF Wakeup, IInv, TreeInv, ParentAlive, wakeup1, Alive
<1>7. MemInv'
  BY DEF Wakeup, IInv, MemInv, wakeup1, Alive
<1>8. WaitInv'
  BY DEF Wakeup, IInv, WaitInv, NoLostWait, wakeup1, HasKids, HasZombie,
         IsZombieChild
<1>. QED
  BY <1>1, <1>2, <1>3, <1>4, <1>5, <1>6, <1>7, <1>8 DEF IInv

-----------------------------------------------------------------------------
(* Traps *)

\* Traps move one thread between user space, the kernel and exit().
LEMMA TrapEnterInv ==
  ASSUME NEW c \in CPU, NEW p \in Slots, IInv, TrapEnter(c, p)
  PROVE  IInv'
<1>1. TypeOK'
  BY DEF TrapEnter, IInv, TypeOK, Goto, tableVars, Location
<1>2. PidsDistinct'
  BY DEF TrapEnter, IInv, PidsDistinct, tableVars
<1>3. CtxInv'
  BY DEF TrapEnter, IInv, CtxInv, At, Goto, tableVars
<1>4. CpuInv'
  BY DEF TrapEnter, IInv, CpuInv, RunsOnOneCpu, Goto, tableVars
<1>5. ForkInv'
  BY DEF TrapEnter, IInv, ForkInv, EmbryoOwned, At, Goto, tableVars, Forking
<1>6. TreeInv'
  BY DEF TrapEnter, IInv, TreeInv, ParentAlive, tableVars
<1>7. MemInv'
  BY DEF TrapEnter, IInv, MemInv, tableVars
<1>8. WaitInv'
  BY DEF TrapEnter, IInv, WaitInv, NoLostWait, Goto, tableVars, HasKids,
         HasZombie, IsZombieChild
<1>. QED
  BY <1>1, <1>2, <1>3, <1>4, <1>5, <1>6, <1>7, <1>8 DEF IInv

\* TrapReturn leaves IInv true, as the step before it.
LEMMA TrapReturnInv ==
  ASSUME NEW c \in CPU, NEW p \in Slots, IInv, TrapReturn(c, p)
  PROVE  IInv'
<1>1. TypeOK'
  BY DEF TrapReturn, IInv, TypeOK, Goto, tableVars, Location
<1>2. PidsDistinct'
  BY DEF TrapReturn, IInv, PidsDistinct, tableVars
<1>3. CtxInv'
  BY DEF TrapReturn, IInv, CtxInv, At, Goto, tableVars
<1>4. CpuInv'
  BY DEF TrapReturn, IInv, CpuInv, RunsOnOneCpu, Goto, tableVars
<1>5. ForkInv'
  BY DEF TrapReturn, IInv, ForkInv, EmbryoOwned, At, Goto, tableVars, Forking
<1>6. TreeInv'
  BY DEF TrapReturn, IInv, TreeInv, ParentAlive, tableVars
<1>7. MemInv'
  BY DEF TrapReturn, IInv, MemInv, tableVars
<1>8. WaitInv'
  BY DEF TrapReturn, IInv, WaitInv, NoLostWait, Goto, tableVars, HasKids,
         HasZombie, IsZombieChild
<1>. QED
  BY <1>1, <1>2, <1>3, <1>4, <1>5, <1>6, <1>7, <1>8 DEF IInv

\* Fault leaves IInv true, as the step before it.
LEMMA FaultInv ==
  ASSUME NEW c \in CPU, NEW p \in Slots, IInv, Fault(c, p)
  PROVE  IInv'
<1>1. TypeOK'
  BY DEF Fault, IInv, TypeOK, Goto, Location
<1>2. PidsDistinct'
  BY DEF Fault, IInv, PidsDistinct
<1>3. CtxInv'
  BY DEF Fault, IInv, CtxInv, At, Goto
<1>4. CpuInv'
  BY DEF Fault, IInv, CpuInv, RunsOnOneCpu, Goto
<1>5. ForkInv'
  BY DEF Fault, IInv, ForkInv, EmbryoOwned, At, Goto, Forking
<1>6. TreeInv'
  BY DEF Fault, IInv, TreeInv, ParentAlive
<1>7. MemInv'
  BY DEF Fault, IInv, MemInv
<1>8. WaitInv'
  BY DEF Fault, IInv, WaitInv, TypeOK, NoLostWait, Goto, HasKids, HasZombie,
         IsZombieChild
<1>. QED
  BY <1>1, <1>2, <1>3, <1>4, <1>5, <1>6, <1>7, <1>8 DEF IInv

-----------------------------------------------------------------------------
(* fork() *)

\* allocproc() claims a free slot: nobody's np, nobody's parent, a new pid.
LEMMA AllocProcInv ==
  ASSUME NEW c \in CPU, NEW p \in Slots, NEW s \in Slots, IInv, AllocProc(c, p, s)
  PROVE  IInv'
<1>1. TypeOK'
  BY SlotFacts, ProcAssumption
     DEF AllocProc, IInv, TypeOK, Goto, AllocPid, ProcState, Location
<1>2. PidsDistinct'
  BY DEF AllocProc, IInv, PidsDistinct, TypeOK, AllocPid
<1>3. CtxInv'
  BY DEF AllocProc, IInv, CtxInv, At, Goto, First, Unused
<1>4. CpuInv'
  BY ProcAssumption
     DEF AllocProc, IInv, CpuInv, RunsOnOneCpu, LockFree, Goto, First, Unused
<1>5. ForkInv'
  BY SlotFacts
     DEF AllocProc, IInv, ForkInv, TypeOK, EmbryoOwned, TreeInv, At, Goto,
         First, Unused, Forking
<1>6. TreeInv'
  BY DEF AllocProc, IInv, TreeInv, ParentAlive, First, Unused, Alive
<1>7. MemInv'
  BY DEF AllocProc, IInv, MemInv, Alive
<1>8. WaitInv'
  BY DEF AllocProc, IInv, WaitInv, NoLostWait, Goto, HasKids, HasZombie,
         IsZombieChild
<1>. QED
  BY <1>1, <1>2, <1>3, <1>4, <1>5, <1>6, <1>7, <1>8 DEF IInv

\* The unlocked steps of fork() touch only the EMBRYO that np points to.
LEMMA KstackInv ==
  ASSUME NEW c \in CPU, NEW p \in Slots, NEW s \in Slots, IInv, Kstack(c, p, s)
  PROVE  IInv'
<1>1. TypeOK'
  BY DEF Kstack, IInv, TypeOK, Goto, Location, Context
<1>2. PidsDistinct'
  BY DEF Kstack, IInv, PidsDistinct
<1>3. CtxInv'
  BY DEF Kstack, IInv, CtxInv, ForkInv, EmbryoOwned, At, Goto
<1>4. CpuInv'
  BY DEF Kstack, IInv, CpuInv, ForkInv, RunsOnOneCpu, EmbryoOwned, Goto
<1>5. ForkInv'
  BY DEF Kstack, IInv, ForkInv, TypeOK, EmbryoOwned, At, Goto, Forking
<1>6. TreeInv'
  BY DEF Kstack, IInv, TreeInv, ParentAlive
<1>7. MemInv'
  BY DEF Kstack, IInv, MemInv
<1>8. WaitInv'
  BY DEF Kstack, IInv, WaitInv, NoLostWait, Goto, HasKids, HasZombie,
         IsZombieChild
<1>. QED
  BY <1>1, <1>2, <1>3, <1>4, <1>5, <1>6, <1>7, <1>8 DEF IInv

\* KstackFail leaves IInv true, as the step before it.
LEMMA KstackFailInv ==
  ASSUME NEW c \in CPU, NEW p \in Slots, NEW s \in Slots, IInv, KstackFail(c, p, s)
  PROVE  IInv'
<1>1. TypeOK'
  BY SlotFacts, ProcAssumption
     DEF KstackFail, IInv, TypeOK, At, Goto, ProcState, Location, Context
<1>2. PidsDistinct'
  BY DEF KstackFail, IInv, PidsDistinct
<1>3. CtxInv'
  BY DEF KstackFail, IInv, CtxInv, ForkInv, EmbryoOwned, At, Goto
<1>4. CpuInv'
  BY DEF KstackFail, IInv, CpuInv, ForkInv, RunsOnOneCpu, EmbryoOwned, Goto,
         Alive
<1>5. ForkInv'
  BY SlotFacts
     DEF KstackFail, IInv, ForkInv, TypeOK, EmbryoOwned, Goto, Forking
<1>6. TreeInv'
  BY DEF KstackFail, IInv, TreeInv, ForkInv, EmbryoOwned, ParentAlive, At,
         Alive
<1>7. MemInv'
  BY DEF KstackFail, IInv, MemInv, Alive
<1>8. WaitInv'
  BY DEF KstackFail, IInv, WaitInv, NoLostWait, Goto, HasKids, HasZombie,
         IsZombieChild
<1>. QED
  BY <1>1, <1>2, <1>3, <1>4, <1>5, <1>6, <1>7, <1>8 DEF IInv

\* CopyUvm leaves IInv true, as the step before it.
LEMMA CopyUvmInv ==
  ASSUME NEW c \in CPU, NEW p \in Slots, NEW s \in Slots, IInv, CopyUvm(c, p, s)
  PROVE  IInv'
<1>1. TypeOK'
  BY SlotFacts DEF CopyUvm, IInv, TypeOK, Goto, Location
<1>2. PidsDistinct'
  BY DEF CopyUvm, IInv, PidsDistinct
<1>3. CtxInv'
  BY DEF CopyUvm, IInv, CtxInv, At, Goto
<1>4. CpuInv'
  BY DEF CopyUvm, IInv, CpuInv, RunsOnOneCpu, Goto
<1>5. ForkInv'
  BY DEF CopyUvm, IInv, ForkInv, TypeOK, EmbryoOwned, At, Goto, Forking
<1>6. TreeInv'
  BY SlotFacts
     DEF CopyUvm, IInv, TypeOK, TreeInv, ForkInv, EmbryoOwned, ParentAlive,
         Alive, At, Forking
<1>7. MemInv'
  BY DEF CopyUvm, IInv, MemInv
<1>8. WaitInv'
  BY SlotFacts
     DEF CopyUvm, IInv, WaitInv, NoLostWait, ForkInv, At, Goto, HasKids,
         HasZombie, IsZombieChild
<1>. QED
  BY <1>1, <1>2, <1>3, <1>4, <1>5, <1>6, <1>7, <1>8 DEF IInv

\* CopyFail leaves IInv true, as the step before it.
LEMMA CopyFailInv ==
  ASSUME NEW c \in CPU, NEW p \in Slots, NEW s \in Slots, IInv, CopyFail(c, p, s)
  PROVE  IInv'
<1>1. TypeOK'
  BY ProcAssumption DEF CopyFail, IInv, TypeOK, At, Goto, ProcState, Location
<1>2. PidsDistinct'
  BY DEF CopyFail, IInv, PidsDistinct
<1>3. CtxInv'
  BY DEF CopyFail, IInv, CtxInv, ForkInv, EmbryoOwned, At, Goto
<1>4. CpuInv'
  BY DEF CopyFail, IInv, CpuInv, ForkInv, RunsOnOneCpu, EmbryoOwned, Goto,
         Alive
<1>5. ForkInv'
  BY SlotFacts DEF CopyFail, IInv, ForkInv, TypeOK, EmbryoOwned, Goto, Forking
<1>6. TreeInv'
  BY DEF CopyFail, IInv, TreeInv, ForkInv, EmbryoOwned, ParentAlive, At, Alive
<1>7. MemInv'
  BY DEF CopyFail, IInv, MemInv, TypeOK, Alive
<1>8. WaitInv'
  BY DEF CopyFail, IInv, WaitInv, NoLostWait, Goto, HasKids, HasZombie,
         IsZombieChild
<1>. QED
  BY <1>1, <1>2, <1>3, <1>4, <1>5, <1>6, <1>7, <1>8 DEF IInv

\* The child is complete when it becomes RUNNABLE.
LEMMA PublishInv ==
  ASSUME NEW c \in CPU, NEW p \in Slots, NEW s \in Slots, IInv, Publish(c, p, s)
  PROVE  IInv'
<1>1. TypeOK'
  BY ProcAssumption DEF Publish, IInv, TypeOK, ProcState, Location
<1>2. PidsDistinct'
  BY DEF Publish, IInv, PidsDistinct
<1>3. CtxInv'
  BY DEF Publish, IInv, CtxInv, TypeOK, ForkInv, At
<1>4. CpuInv'
  BY SlotFacts, ProcAssumption
     DEF Publish, IInv, CpuInv, TypeOK, ForkInv, RunsOnOneCpu, EmbryoOwned,
         LockFree
<1>5. ForkInv'
  BY DEF Publish, IInv, ForkInv, TypeOK, CtxInv, EmbryoOwned, At, Forking
<1>6. TreeInv'
  BY SlotFacts, ProcAssumption
     DEF Publish, IInv, TreeInv, TypeOK, CtxInv, ForkInv, EmbryoOwned,
         ParentAlive, At, LockFree, Alive, ProcState, Location, Context,
         Forking
<1>7. MemInv'
  BY SlotFacts, ProcAssumption
     DEF Publish, IInv, MemInv, TypeOK, CtxInv, ForkInv, EmbryoOwned, At,
         LockFree, Alive, ProcState, Location, Context, Forking
<1>8. WaitInv'
  BY DEF Publish, IInv, WaitInv, TypeOK, NoLostWait, HasKids, HasZombie,
         IsZombieChild
<1>. QED
  BY <1>1, <1>2, <1>3, <1>4, <1>5, <1>6, <1>7, <1>8 DEF IInv

-----------------------------------------------------------------------------
(* exit(), wait() and kill() *)

\* exit() up to acquire(&ptable.lock).
LEMMA SysExitInv ==
  ASSUME NEW c \in CPU, NEW p \in Slots, IInv, SysExit(c, p)
  PROVE  IInv'
<1>1. TypeOK'
  BY DEF SysExit, IInv, TypeOK, Goto, tableVars, Location
<1>2. PidsDistinct'
  BY SlotFacts, ProcAssumption
     DEF SysExit, IInv, PidsDistinct, TypeOK, At, Goto, tableVars, ProcState,
         Location, Context
<1>3. CtxInv'
  BY DEF SysExit, IInv, CtxInv, At, Goto, tableVars
<1>4. CpuInv'
  BY DEF SysExit, IInv, CpuInv, RunsOnOneCpu, Goto, tableVars
<1>5. ForkInv'
  BY DEF SysExit, IInv, ForkInv, EmbryoOwned, At, Goto, tableVars, Forking
<1>6. TreeInv'
  BY DEF SysExit, IInv, TreeInv, ParentAlive, tableVars
<1>7. MemInv'
  BY DEF SysExit, IInv, MemInv, tableVars
<1>8. WaitInv'
  BY DEF SysExit, IInv, WaitInv, NoLostWait, Goto, tableVars, HasKids,
         HasZombie, IsZombieChild
<1>. QED
  BY <1>1, <1>2, <1>3, <1>4, <1>5, <1>6, <1>7, <1>8 DEF IInv

\* ExitInit leaves IInv true, as the step before it.
LEMMA ExitInitInv ==
  ASSUME NEW c \in CPU, NEW p \in Slots, IInv, ExitInit(c, p)
  PROVE  IInv'
<1>1. TypeOK'
  BY DEF ExitInit, IInv, TypeOK, Goto, tableVars, Location
<1>2. PidsDistinct'
  BY DEF ExitInit, IInv, PidsDistinct, tableVars
<1>3. CtxInv'
  BY DEF ExitInit, IInv, CtxInv, At, Goto, tableVars
<1>4. CpuInv'
  BY DEF ExitInit, IInv, CpuInv, RunsOnOneCpu, Goto, tableVars
<1>5. ForkInv'
  BY DEF ExitInit, IInv, ForkInv, EmbryoOwned, At, Goto, tableVars, Forking
<1>6. TreeInv'
  BY DEF ExitInit, IInv, TreeInv, ParentAlive, tableVars
<1>7. MemInv'
  BY DEF ExitInit, IInv, MemInv, tableVars
<1>8. WaitInv'
  BY DEF ExitInit, IInv, WaitInv, NoLostWait, Goto, tableVars, HasKids,
         HasZombie, IsZombieChild
<1>. QED
  BY <1>1, <1>2, <1>3, <1>4, <1>5, <1>6, <1>7, <1>8 DEF IInv

\* Panicked leaves IInv true, as the step before it.
LEMMA PanickedInv ==
  ASSUME NEW c \in CPU, NEW p \in Slots, IInv, Panicked(c, p)
  PROVE  IInv'
<1>1. TypeOK'
  BY DEF Panicked, IInv, TypeOK, vars, tableVars
<1>2. PidsDistinct'
  BY DEF Panicked, IInv, PidsDistinct, vars, tableVars
<1>3. CtxInv'
  BY DEF Panicked, IInv, CtxInv, vars, tableVars
<1>4. CpuInv'
  BY DEF Panicked, IInv, CpuInv, RunsOnOneCpu, vars, tableVars
<1>5. ForkInv'
  BY DEF Panicked, IInv, ForkInv, EmbryoOwned, vars, tableVars
<1>6. TreeInv'
  BY DEF Panicked, IInv, TreeInv, ParentAlive, vars, tableVars
<1>7. MemInv'
  BY DEF Panicked, IInv, MemInv, vars, tableVars
<1>8. WaitInv'
  BY DEF Panicked, IInv, WaitInv, NoLostWait, vars, tableVars, HasKids,
         HasZombie, IsZombieChild
<1>. QED
  BY <1>1, <1>2, <1>3, <1>4, <1>5, <1>6, <1>7, <1>8 DEF IInv

\* exit() wakes a process only by making it RUNNABLE, and wakes its parent, and
\* init when init inherits a zombie.
LEMMA ExitStatesFacts ==
  ASSUME TypeOK, NEW p \in Slots, state[p] = "RUNNING"
  PROVE  /\ ExitStates(p)[p] = "ZOMBIE"
         /\ \A s \in Slots : s # p =>
              \/ ExitStates(p)[s] = state[s]
              \/ state[s] = "SLEEPING" /\ ExitStates(p)[s] = "RUNNABLE"
         /\ \A s \in Slots : state[s] = "SLEEPING" /\ chan[s] = parent[p] => ExitStates(p)[s] # "SLEEPING"
         /\ HasZombie(p) =>
              \A s \in Slots : state[s] = "SLEEPING" /\ chan[s] = InitProc => ExitStates(p)[s] # "SLEEPING"
  BY DEF TypeOK, ExitStates, wakeup1, HasZombie, IsZombieChild

LEMMA ExitWaitInv ==
  ASSUME NEW c \in CPU, NEW p \in Slots, IInv, Exit(c, p)
  PROVE  WaitInv'
<1>1. state[p] = "RUNNING" /\ state' = ExitStates(p) /\ parent' = Reparent(p)
      /\ chan' = chan /\ killed' = killed /\ pc' = [pc EXCEPT ![p] = "dead"]
  BY DEF Exit, At, Goto
<1>2. SUFFICES ASSUME NEW q \in Slots, state'[q] = "SLEEPING", pc'[q] = "wait"
               PROVE  HasKids(q)' /\ ~HasZombie(q)' /\ ~killed'[q] /\ chan'[q] = q
  BY DEF WaitInv, NoLostWait
<1>3. q # p /\ state[q] = "SLEEPING" /\ pc[q] = "wait"
  BY <1>1, <1>2, ExitStatesFacts DEF IInv, TypeOK
<1>4. chan[q] = q /\ HasKids(q) /\ ~HasZombie(q) /\ ~killed[q]
  BY <1>3 DEF IInv, WaitInv, NoLostWait
<1>5. q # parent[p] /\ (HasZombie(p) => q # InitProc)
  BY <1>1, <1>2, <1>3, <1>4, ExitStatesFacts, SlotFacts DEF IInv
<1>6. HasKids(q)'
  BY <1>1, <1>3, <1>4 DEF HasKids, Reparent, IInv, TypeOK
<1>7. ~HasZombie(q)'
  <2>1. SUFFICES ASSUME NEW s \in Slots, parent'[s] = q, state'[s] = "ZOMBIE"
                 PROVE  FALSE
    BY DEF HasZombie, IsZombieChild
  <2>2. CASE s = p
    BY <2>1, <2>2, <1>1, <1>5 DEF Reparent, IInv, TreeInv
  <2>3. CASE s # p
    <3>1. state[s] = "ZOMBIE"
      BY <2>1, <2>3, <1>1, ExitStatesFacts DEF IInv
    <3>2. parent[s] # q
      BY <3>1, <1>4 DEF HasZombie, IsZombieChild
    <3>3. parent[s] = p /\ q = InitProc
      BY <3>2, <2>1, <1>1 DEF Reparent
    <3>. QED
      BY <3>1, <3>3, <1>5 DEF HasZombie, IsZombieChild
  <2>. QED
    BY <2>2, <2>3
<1>. QED
  BY <1>1, <1>4, <1>6, <1>7

\* exit() under the lock.
LEMMA ExitInv ==
  ASSUME NEW c \in CPU, NEW p \in Slots, IInv, Exit(c, p)
  PROVE  IInv'
<1>1. TypeOK'
  BY SlotFacts
     DEF Exit, IInv, TypeOK, HoldForSched, Goto, ExitStates, wakeup1, Reparent,
         ProcState, Location, Context
<1>2. PidsDistinct'
  BY DEF Exit, IInv, PidsDistinct
<1>3. CtxInv'
  BY DEF Exit, IInv, CtxInv, TypeOK, Goto, ExitStates, wakeup1
<1>4. CpuInv'
  BY SlotFacts, ProcAssumption
     DEF Exit, IInv, CpuInv, TypeOK, CtxInv, ForkInv, RunsOnOneCpu, At,
         LockFree, HoldForSched, Goto, ExitStates, wakeup1
<1>5. ForkInv'
  BY SlotFacts
     DEF Exit, IInv, ForkInv, TypeOK, EmbryoOwned, RunsOnOneCpu, At, LockFree,
         Goto, ExitStates, wakeup1, Reparent, Forking, ProcState, Location,
         Context, Alive
<1>6. TreeInv'
  BY SlotFacts
     DEF Exit, IInv, TreeInv, ParentAlive, At, ExitStates, wakeup1, Reparent,
         Alive
<1>7. MemInv'
  BY DEF Exit, IInv, MemInv, At, ExitStates, wakeup1, Alive
<1>8. WaitInv'
  BY ExitWaitInv
<1>. QED
  BY <1>1, <1>2, <1>3, <1>4, <1>5, <1>6, <1>7, <1>8 DEF IInv

\* wait() frees a zombie: by CpuInv no CPU is on it, by TreeInv it has no child.
LEMMA WaitReapInv ==
  ASSUME NEW c \in CPU, NEW p \in Slots, NEW s \in Slots, IInv, WaitReap(c, p, s)
  PROVE  IInv'
<1>1. TypeOK'
  BY ProcAssumption DEF WaitReap, IInv, TypeOK, InWait, At, ProcState, Location
<1>2. PidsDistinct'
  BY DEF WaitReap, IInv, PidsDistinct
<1>3. CtxInv'
  BY DEF WaitReap, IInv, CtxInv, TypeOK, InWait, At
<1>4. CpuInv'
  BY SlotFacts, ProcAssumption
     DEF WaitReap, IInv, CpuInv, TypeOK, RunsOnOneCpu, First, InWait, At,
         LockFree, IsZombieChild
<1>5. ForkInv'
  BY DEF WaitReap, IInv, ForkInv, TypeOK, CtxInv, EmbryoOwned, First, InWait,
         At, IsZombieChild, Forking
<1>6. TreeInv'
  BY SlotFacts
     DEF WaitReap, IInv, TreeInv, TypeOK, ParentAlive, First, IsZombieChild,
         Alive
<1>7. MemInv'
  BY DEF WaitReap, IInv, MemInv, TypeOK, Alive
<1>8. WaitInv'
  BY DEF WaitReap, IInv, WaitInv, TypeOK, NoLostWait, First, IsZombieChild,
         HasKids, HasZombie
<1>. QED
  BY <1>1, <1>2, <1>3, <1>4, <1>5, <1>6, <1>7, <1>8 DEF IInv

\* wait() returns -1.
LEMMA WaitFailInv ==
  ASSUME NEW c \in CPU, NEW p \in Slots, IInv, WaitFail(c, p)
  PROVE  IInv'
<1>1. TypeOK'
  BY DEF WaitFail, IInv, TypeOK, Goto, tableVars, Location
<1>2. PidsDistinct'
  BY DEF WaitFail, IInv, PidsDistinct, tableVars
<1>3. CtxInv'
  BY DEF WaitFail, IInv, CtxInv, Goto, tableVars, InWait, At
<1>4. CpuInv'
  BY ProcAssumption
     DEF WaitFail, IInv, CpuInv, TypeOK, RunsOnOneCpu, Goto, tableVars, InWait,
         At, LockFree
<1>5. ForkInv'
  BY DEF WaitFail, IInv, ForkInv, EmbryoOwned, Goto, tableVars, InWait, At,
         Forking
<1>6. TreeInv'
  BY DEF WaitFail, IInv, TreeInv, ParentAlive, tableVars
<1>7. MemInv'
  BY DEF WaitFail, IInv, MemInv, tableVars
<1>8. WaitInv'
  BY DEF WaitFail, IInv, WaitInv, NoLostWait, Goto, tableVars, HasKids,
         HasZombie, IsZombieChild
<1>. QED
  BY <1>1, <1>2, <1>3, <1>4, <1>5, <1>6, <1>7, <1>8 DEF IInv

\* wait() goes to sleep with the lock held since its scan.
LEMMA WaitSleepInv ==
  ASSUME NEW c \in CPU, NEW p \in Slots, IInv, WaitSleep(c, p)
  PROVE  IInv'
<1>1. TypeOK'
  BY SlotFacts
     DEF WaitSleep, IInv, TypeOK, HoldForSched, Goto, ProcState, Location,
         Context
<1>2. PidsDistinct'
  BY DEF WaitSleep, IInv, PidsDistinct
<1>3. CtxInv'
  BY DEF WaitSleep, IInv, CtxInv, TypeOK, Goto
<1>4. CpuInv'
  BY SlotFacts, ProcAssumption
     DEF WaitSleep, IInv, CpuInv, RunsOnOneCpu, HoldForSched, Goto, InWait, At,
         LockFree, Alive
<1>5. ForkInv'
  BY DEF WaitSleep, IInv, ForkInv, EmbryoOwned, Goto, InWait, At, Forking
<1>6. TreeInv'
  BY DEF WaitSleep, IInv, TreeInv, ParentAlive, InWait, At, Alive
<1>7. MemInv'
  BY DEF WaitSleep, IInv, MemInv, InWait, At, Alive
<1>8. WaitInv'
  BY DEF WaitSleep, IInv, WaitInv, TypeOK, NoLostWait, Goto, HasKids,
         HasZombie, IsZombieChild
<1>. QED
  BY <1>1, <1>2, <1>3, <1>4, <1>5, <1>6, <1>7, <1>8 DEF IInv

\* kill() changes a state only from SLEEPING to RUNNABLE.
LEMMA KillInv ==
  ASSUME NEW c \in CPU, NEW p \in Slots, NEW k \in Nat, NEW s \in Slots, IInv, Kill(c, p, k, s)
  PROVE  IInv'
<1>1. TypeOK'
  BY DEF Kill, IInv, TypeOK, KillStates, ProcState
<1>2. PidsDistinct'
  BY DEF Kill, IInv, PidsDistinct
<1>3. CtxInv'
  BY DEF Kill, IInv, CtxInv, KillStates
<1>4. CpuInv'
  BY ProcAssumption DEF Kill, IInv, CpuInv, RunsOnOneCpu, LockFree, KillStates
<1>5. ForkInv'
  BY DEF Kill, IInv, ForkInv, EmbryoOwned, KillStates
<1>6. TreeInv'
  BY DEF Kill, IInv, TreeInv, ParentAlive, KillStates, Alive
<1>7. MemInv'
  BY DEF Kill, IInv, MemInv, KillStates, Alive
<1>8. WaitInv'
  BY DEF Kill, IInv, WaitInv, TypeOK, NoLostWait, KillStates, HasKids,
         HasZombie, IsZombieChild
<1>. QED
  BY <1>1, <1>2, <1>3, <1>4, <1>5, <1>6, <1>7, <1>8 DEF IInv

-----------------------------------------------------------------------------
(* The theorems *)

\* userinit() establishes the inductive invariant.
LEMMA InitInv == Init => IInv
<1>. SUFFICES ASSUME Init PROVE IInv
  OBVIOUS
<1>1. TypeOK
  BY SlotFacts, ProcAssumption DEF Init, TypeOK, ProcState, Location, Context
<1>2. PidsDistinct
  BY DEF Init, PidsDistinct
<1>3. CtxInv
  BY DEF Init, CtxInv
<1>4. CpuInv
  BY ProcAssumption DEF Init, CpuInv, RunsOnOneCpu
<1>5. ForkInv
  BY SlotFacts DEF Init, ForkInv, EmbryoOwned, Forking
<1>6. TreeInv
  BY SlotFacts DEF Init, TreeInv, ParentAlive, Alive
<1>7. MemInv
  BY DEF Init, MemInv, Alive
<1>8. WaitInv
  BY DEF Init, WaitInv, NoLostWait
<1>. QED
  BY <1>1, <1>2, <1>3, <1>4, <1>5, <1>6, <1>7, <1>8 DEF IInv

\* A step that changes nothing keeps it.
LEMMA StutterInv == IInv /\ UNCHANGED vars => IInv'
  BY DEF vars, tableVars, IInv, TypeOK, PidsDistinct, CtxInv, CpuInv, RunsOnOneCpu,
         ForkInv, EmbryoOwned, TreeInv, ParentAlive, MemInv, WaitInv, NoLostWait,
         HasKids, HasZombie, IsZombieChild

\* Every step of a CPU, and every wakeup, keeps it.
LEMMA NextInv == IInv /\ [Next]_vars => IInv'
<1>. SUFFICES ASSUME IInv, [Next]_vars PROVE IInv'
  OBVIOUS
<1>1. ASSUME NEW c \in CPU, NEW p \in Slots, CpuStep(c, p) PROVE IInv'
  <2>1. CASE Switch(c, p)
    BY <2>1, ScheduleInv, ResumeInv, SchedReturnInv, YieldInv DEF Switch
  <2>2. CASE Trap(c, p)
    BY <2>2, TrapEnterInv, TrapReturnInv, FaultInv DEF Trap
  <2>3. ASSUME NEW s \in Slots, Fork(c, p, s) PROVE IInv'
    BY <2>3, AllocProcInv, KstackInv, KstackFailInv, CopyUvmInv, CopyFailInv,
       PublishInv DEF Fork
  <2>4. CASE ExitStep(c, p)
    BY <2>4, SysExitInv, ExitInitInv, PanickedInv, ExitInv DEF ExitStep
  <2>5. CASE WaitStep(c, p)
    BY <2>5, WaitReapInv, WaitFailInv, WaitSleepInv DEF WaitStep
  <2>6. ASSUME NEW ch \in Chan, Sleep(c, p, ch) PROVE IInv'
    BY <2>6, SleepInv
  <2>7. ASSUME NEW k \in 0 .. MaxPid, NEW s \in Slots, Kill(c, p, k, s) PROVE IInv'
    BY <2>7, KillInv
  <2>. QED
    BY <1>1, <2>1, <2>2, <2>3, <2>4, <2>5, <2>6, <2>7 DEF CpuStep
<1>2. ASSUME NEW ch \in Chan, Wakeup(ch) PROVE IInv'
  BY <1>2, WakeupInv
<1>. QED
  BY <1>1, <1>2, StutterInv DEF Next

(* The invariant the proofs carry holds in every reachable state of the    *)
(* process table, with any number of CPUs and slots.                       *)
THEOREM Inductive == Spec => []IInv
  BY InitInv, NextInv, PTL DEF Spec

(* The fields of ptable, the CPUs and the locals of fork() keep their types. *)
THEOREM TypeCorrect == Spec => []TypeOK
<1>1. IInv => TypeOK
  BY DEF IInv
<1>. QED
  BY <1>1, Inductive, PTL

(* nextpid++ under ptable.lock never gives two slots the same pid.         *)
THEOREM UniquePids == Spec => []PidsDistinct
<1>1. IInv => PidsDistinct
  BY DEF IInv
<1>. QED
  BY <1>1, Inductive, PTL

(* The lock handed through swtch keeps a process on at most one CPU.       *)
THEOREM LockHandoff == Spec => []RunsOnOneCpu
<1>1. IInv => RunsOnOneCpu
  BY DEF IInv, CpuInv
<1>. QED
  BY <1>1, Inductive, PTL

(* wait() never frees the stack or page table that a CPU executes on.      *)
THEOREM StacksInUse == Spec => []StackInUse
<1>1. IInv => StackInUse
  BY SlotFacts DEF IInv, TypeOK, CpuInv, MemInv, StackInUse
<1>. QED
  BY <1>1, Inductive, PTL

(* Every process but init has a live parent: exit() passes its children on. *)
THEOREM OrphansAdopted == Spec => []ParentAlive
<1>1. IInv => ParentAlive
  BY DEF IInv, TreeInv
<1>. QED
  BY <1>1, Inductive, PTL

(* A process asleep in wait() has something to wait for and nothing to      *)
(* collect: neither exit() nor kill() is ever missed.                       *)
THEOREM WaitLosesNoWakeup == Spec => []NoLostWait
<1>1. IInv => NoLostWait
  BY DEF IInv, WaitInv
<1>. QED
  BY <1>1, Inductive, PTL

(* Each EMBRYO belongs to one fork() in progress, through all its failures. *)
THEOREM EmbryosOwned == Spec => []EmbryoOwned
<1>1. IInv => EmbryoOwned
  BY DEF IInv, ForkInv
<1>. QED
  BY <1>1, Inductive, PTL

-----------------------------------------------------------------------------
(* The table implements ProcLife *)

\* Every process has a pid, and init has pid 1.
PidInv ==
  /\ pid[InitProc] = 1
  /\ \A s \in Slots : state[s] # "UNUSED" => pid[s] # 0

\* Where a slot is in the life of its process.
Kind(s) ==
  CASE state[s] = "UNUSED" -> "none"
    [] state[s] = "EMBRYO" -> "embryo"
    [] state[s] = "ZOMBIE" -> "zombie"
    [] OTHER -> IF pc[s] = "wait" THEN "waiting" ELSE "alive"

\* The status and the parent of a pid are those of the slot that has it.
View ==
  /\ \A s \in Slots : Kind(s) # "none" =>
       /\ pid[s] \in 1 .. MaxPid /\ pid[s] < nextpid
       /\ Status[pid[s]] = Kind(s)
       /\ Par[pid[s]] = IF Kind(s) # "embryo" /\ parent[s] # 0 THEN pid[parent[s]] ELSE 0
  /\ \A i \in 1 .. MaxPid : i >= nextpid => Status[i] = "fresh"
  /\ \A i \in 1 .. MaxPid :
       (\A s \in Slots : Kind(s) # "none" => pid[s] # i) =>
         /\ i < nextpid => Status[i] = "gone"
         /\ Par[i] = 0
  /\ \A s, t \in Slots : Kind(s) # "none" /\ Kind(t) # "none" /\ pid[s] = pid[t] => s = t
  /\ nextpid \in Nat

\* Pids are distinct, so that the slot that has a pid is the one CHOOSE finds.
LEMMA ViewHolds == IInv /\ PidInv => View
<1>. SUFFICES ASSUME IInv, PidInv PROVE View
  OBVIOUS
<1>1. \A s \in Slots : Kind(s) # "none" <=> state[s] # "UNUSED"
  BY DEF Kind, IInv, TypeOK, ProcState
<1>2. \A s \in Slots : Kind(s) # "none" => pid[s] \in 1 .. MaxPid /\ pid[s] < nextpid
  BY <1>1, ProcAssumption DEF PidInv, IInv, TypeOK
<1>3. \A s, t \in Slots : Kind(s) # "none" /\ Kind(t) # "none" /\ pid[s] = pid[t] => s = t
  BY <1>1 DEF PidInv, IInv, PidsDistinct
<1>4. ASSUME NEW s \in Slots, Kind(s) # "none" PROVE Holders(pid[s]) = {s}
  BY <1>1, <1>3, <1>4 DEF Holders
<1>5. ASSUME NEW s \in Slots, Kind(s) # "none" PROVE StatusOf(pid[s]) = Kind(s)
  <2>1. (CHOOSE t \in Holders(pid[s]) : TRUE) = s /\ Holders(pid[s]) # {}
    BY <1>4, <1>5
  <2>2. ~(pid[s] >= nextpid)
    BY <1>2, <1>5 DEF IInv, TypeOK
  <2>. QED
    BY <1>1, <1>5, <2>1, <2>2 DEF StatusOf, Kind, Alive, IInv, TypeOK, ProcState
<1>6. ASSUME NEW s \in Slots, Kind(s) # "none"
      PROVE  ParentOf(pid[s]) = IF Kind(s) # "embryo" /\ parent[s] # 0 THEN pid[parent[s]] ELSE 0
  <2>1. (CHOOSE t \in Holders(pid[s]) : TRUE) = s
    BY <1>4, <1>6
  <2>2. Kind(s) # "embryo" <=> state[s] # "EMBRYO"
    BY DEF Kind, IInv, TypeOK, ProcState
  <2>. QED
    BY <1>4, <1>6, <2>1, <2>2 DEF ParentOf
<1>7. ASSUME NEW i \in 1 .. MaxPid, \A s \in Slots : Kind(s) # "none" => pid[s] # i
      PROVE  (i < nextpid => StatusOf(i) = "gone") /\ ParentOf(i) = 0
  <2>1. Holders(i) = {}
    BY <1>1, <1>7 DEF Holders
  <2>. QED
    BY <2>1 DEF StatusOf, ParentOf, IInv, TypeOK
<1>8. \A i \in 1 .. MaxPid : i >= nextpid => StatusOf(i) = "fresh"
  BY DEF StatusOf
<1>9. nextpid \in Nat
  BY DEF IInv, TypeOK
<1>. QED
  BY <1>2, <1>3, <1>5, <1>6, <1>7, <1>8, <1>9 DEF View, Status, Par

\* The same of the state a step leads to.
LEMMA ViewHoldsNext == IInv' /\ PidInv' => View'
  BY ViewHolds, PTL

\* Only allocproc() sets a pid and only wait() clears one, of a zombie.
LEMMA PidInv_Step == IInv /\ PidInv /\ [Next]_vars => PidInv'
<1>. SUFFICES ASSUME IInv, PidInv, [Next]_vars PROVE PidInv'
  OBVIOUS
<1>1. ASSUME NEW c \in CPU, NEW p \in Slots, Switch(c, p) \/ Trap(c, p) \/ ExitStep(c, p)
      PROVE  PidInv'
  <2>1. pid' = pid /\ \A s \in Slots : state[s] = "UNUSED" => state'[s] = "UNUSED"
    BY <1>1, ExitStatesFacts
       DEF Switch, Schedule, Resume, SchedReturn, Yield, Trap, TrapEnter, TrapReturn, Fault,
           ExitStep, SysExit, ExitInit, Panicked, Exit, At, tableVars, vars, IInv, TypeOK
  <2>. QED
    BY <2>1 DEF PidInv
<1>2. ASSUME NEW c \in CPU, NEW p \in Slots, NEW s \in Slots, Fork(c, p, s)
      PROVE  PidInv'
  <2>1. CASE AllocProc(c, p, s)
    BY <2>1, SlotFacts DEF AllocProc, AllocPid, First, Unused, PidInv, IInv, TypeOK, TreeInv, Alive
  <2>2. CASE ~AllocProc(c, p, s)
    <3>1. s = np[p] /\ np[p] # 0 /\ state[s] = "EMBRYO"
      BY <1>2, <2>2, SlotFacts DEF Fork, Kstack, KstackFail, CopyUvm, CopyFail, Publish, At,
                        IInv, ForkInv, EmbryoOwned, Forking
    <3>2. pid' = pid /\ \A t \in Slots : state[t] = "UNUSED" => state'[t] = "UNUSED"
      BY <1>2, <2>2, <3>1 DEF Fork, Kstack, KstackFail, CopyUvm, CopyFail, Publish, IInv, TypeOK
    <3>. QED
      BY <3>2 DEF PidInv
  <2>. QED
    BY <2>1, <2>2
<1>3. ASSUME NEW c \in CPU, NEW p \in Slots, WaitStep(c, p)
      PROVE  PidInv'
  BY <1>3, SlotFacts DEF WaitStep, WaitReap, WaitFail, WaitSleep, InWait, At, First, IsZombieChild,
                         PidInv, IInv, TypeOK, TreeInv, Alive, tableVars
<1>4. ASSUME NEW c \in CPU, NEW p \in Slots, NEW ch \in Chan, Sleep(c, p, ch)
      PROVE  PidInv'
  BY <1>4 DEF Sleep, At, PidInv, IInv, TypeOK
<1>5. ASSUME NEW c \in CPU, NEW p \in Slots, NEW k \in 0 .. MaxPid, NEW s \in Slots, Kill(c, p, k, s)
      PROVE  PidInv'
  BY <1>5 DEF Kill, KillStates, PidInv, IInv, TypeOK
<1>6. ASSUME NEW ch \in Chan, Wakeup(ch)
      PROVE  PidInv'
  BY <1>6 DEF Wakeup, wakeup1, PidInv
<1>7. CASE UNCHANGED vars
  BY <1>7 DEF vars, tableVars, PidInv
<1>. QED
  BY <1>1, <1>2, <1>3, <1>4, <1>5, <1>6, <1>7 DEF Next, CpuStep

\* A step that hands out no pid changes the status only of the pids whose slots
\* change their kind, and gives none to a slot that had none.
LEMMA StatusStep ==
  ASSUME View, View', nextpid' = nextpid,
         \A t \in Slots : Kind(t)' # "none" => Kind(t) # "none" /\ pid'[t] = pid[t]
  PROVE  /\ \A i \in 1 .. MaxPid :
              (\A t \in Slots : Kind(t) # "none" /\ pid[t] = i => Kind(t)' = Kind(t))
                => Status'[i] = Status[i]
         /\ \A t \in Slots : Kind(t) # "none" =>
              Status'[pid[t]] = IF Kind(t)' = "none" THEN "gone" ELSE Kind(t)'
<1>1. ASSUME NEW t \in Slots, Kind(t) # "none"
      PROVE  Status'[pid[t]] = IF Kind(t)' = "none" THEN "gone" ELSE Kind(t)'
  <2>1. CASE Kind(t)' # "none"
    BY <2>1 DEF View
  <2>2. CASE Kind(t)' = "none"
    <3>1. \A u \in Slots : Kind(u)' # "none" => pid'[u] # pid[t]
      BY <1>1, <2>2 DEF View
    <3>. QED
      BY <1>1, <2>2, <3>1 DEF View
  <2>. QED
    BY <2>1, <2>2
<1>2. ASSUME NEW i \in 1 .. MaxPid,
             \A t \in Slots : Kind(t) # "none" /\ pid[t] = i => Kind(t)' = Kind(t)
      PROVE  Status'[i] = Status[i]
  <2>1. CASE \E t \in Slots : Kind(t) # "none" /\ pid[t] = i
    BY <1>1, <1>2, <2>1 DEF View
  <2>2. CASE \A t \in Slots : Kind(t) # "none" => pid[t] # i
    <3>1. \A t \in Slots : Kind(t)' # "none" => pid'[t] # i
      BY <2>2
    <3>. QED
      BY <2>2, <3>1 DEF View
  <2>. QED
    BY <2>1, <2>2
<1>. QED
  BY <1>1, <1>2

\* The parents likewise; the pid of a parent does not change.
LEMMA ParStep ==
  ASSUME IInv, View, View', nextpid' = nextpid,
         \A t \in Slots : Kind(t)' # "none" => Kind(t) # "none" /\ pid'[t] = pid[t],
         \A t \in Slots : Kind(t) \in {"alive", "waiting"} => pid'[t] = pid[t],
         \A t \in Slots : Kind(t) # "none" =>
           \/ Kind(t)' = "embryo" /\ Kind(t) = "embryo"
           \/ Kind(t)' # "embryo" /\ Kind(t)' # "none" /\ Kind(t) # "embryo" /\ parent'[t] = parent[t]
           \/ Kind(t)' = "none" /\ (Kind(t) = "embryo" \/ parent[t] = 0)
  PROVE  Par' = Par
<1>1. ASSUME NEW t \in Slots, Kind(t) # "none" PROVE Par'[pid[t]] = Par[pid[t]]
  <2>1. CASE Kind(t)' # "none"
    <3>1. Kind(t) # "embryo" /\ parent[t] # 0 => pid'[parent[t]] = pid[parent[t]]
      BY <1>1, SlotFacts DEF Kind, IInv, TypeOK, TreeInv, ParentAlive, Alive, ProcState
    <3>. QED
      BY <1>1, <2>1, <3>1 DEF View
  <2>2. CASE Kind(t)' = "none"
    <3>1. \A u \in Slots : Kind(u)' # "none" => pid'[u] # pid[t]
      BY <1>1, <2>2 DEF View
    <3>. QED
      BY <1>1, <2>2, <3>1 DEF View
  <2>. QED
    BY <2>1, <2>2
<1>2. ASSUME NEW i \in 1 .. MaxPid PROVE Par'[i] = Par[i]
  <2>1. CASE \E t \in Slots : Kind(t) # "none" /\ pid[t] = i
    BY <1>1, <2>1
  <2>2. CASE \A t \in Slots : Kind(t) # "none" => pid[t] # i
    <3>1. \A t \in Slots : Kind(t)' # "none" => pid'[t] # i
      BY <2>2
    <3>. QED
      BY <2>2, <3>1 DEF View
  <2>. QED
    BY <2>1, <2>2
<1>. QED
  BY <1>2 DEF Par

\* What leaves the kind, the pid and the parent of every slot alone stutters.
LEMMA Stutter ==
  ASSUME IInv, View, View', nextpid' = nextpid,
         \A t \in Slots : Kind(t)' = Kind(t) /\ (Kind(t) # "none" => pid'[t] = pid[t]),
         \A t \in Slots : Kind(t) \notin {"none", "embryo"} => parent'[t] = parent[t]
  PROVE  Status' = Status /\ Par' = Par
<1>1. \A i \in 1 .. MaxPid : Status'[i] = Status[i]
  BY StatusStep
<1>2. Par' = Par
  BY ParStep
<1>. QED
  BY <1>1, <1>2 DEF Status

\* The kind of a slot, by its state.
LEMMA KindIs ==
  ASSUME IInv
  PROVE  \A s \in Slots :
           /\ Kind(s) = "none" <=> state[s] = "UNUSED"
           /\ Kind(s) = "embryo" <=> state[s] = "EMBRYO"
           /\ Kind(s) = "zombie" <=> state[s] = "ZOMBIE"
           /\ Kind(s) = "waiting" <=> state[s] \in Alive /\ pc[s] = "wait"
           /\ Kind(s) = "alive" <=> state[s] \in Alive /\ pc[s] # "wait"
  BY DEF Kind, IInv, TypeOK, ProcState, Alive

\* Scheduling, traps, sleep(), kill() and the middle of fork() change no life.
LEMMA Quiet_Step ==
  ASSUME IInv, View, View', NEW c \in CPU, NEW p \in Slots,
         \/ Switch(c, p) \/ Trap(c, p)
         \/ \E s \in Slots : Kstack(c, p, s) \/ CopyUvm(c, p, s)
         \/ SysExit(c, p) \/ ExitInit(c, p) \/ Panicked(c, p)
         \/ \E ch \in Chan : Sleep(c, p, ch)
         \/ \E k \in 0 .. MaxPid, s \in Slots : Kill(c, p, k, s)
  PROVE  Status' = Status /\ Par' = Par
<1>1. CASE Switch(c, p) \/ Trap(c, p) \/ SysExit(c, p) \/ ExitInit(c, p) \/ Panicked(c, p)
  <2>1. nextpid' = nextpid /\ pid' = pid /\ parent' = parent
    BY <1>1 DEF Switch, Schedule, Resume, SchedReturn, Yield, Trap, TrapEnter, TrapReturn, Fault,
           SysExit, ExitInit, Panicked, tableVars, vars
  <2>2. \A t \in Slots : Kind(t)' = Kind(t)
    BY <1>1 DEF Switch, Schedule, Resume, SchedReturn, Yield, Trap, TrapEnter, TrapReturn, Fault,
           SysExit, ExitInit, Panicked, At, Goto, tableVars, vars, Kind, IInv, TypeOK
  <2>. QED
    BY <2>1, <2>2, Stutter
<1>2. ASSUME NEW s \in Slots, Kstack(c, p, s) \/ CopyUvm(c, p, s)
      PROVE  Status' = Status /\ Par' = Par
  <2>1. nextpid' = nextpid /\ pid' = pid /\ state' = state /\ \A t \in Slots \ {s} : parent'[t] = parent[t]
    BY <1>2 DEF Kstack, CopyUvm, IInv, TypeOK
  <2>2. state[s] = "EMBRYO"
    BY <1>2, SlotFacts DEF Kstack, CopyUvm, At, IInv, ForkInv, EmbryoOwned, Forking
  <2>3. \A t \in Slots : Kind(t)' = Kind(t)
    BY <1>2 DEF Kstack, CopyUvm, At, Goto, Kind, IInv, TypeOK
  <2>4. \A t \in Slots : Kind(t) \notin {"none", "embryo"} => parent'[t] = parent[t]
    BY <2>1, <2>2, KindIs
  <2>. QED
    BY <2>1, <2>3, <2>4, Stutter
<1>3. ASSUME NEW ch \in Chan, Sleep(c, p, ch)
      PROVE  Status' = Status /\ Par' = Par
  <2>1. nextpid' = nextpid /\ pid' = pid /\ parent' = parent /\ \A t \in Slots : Kind(t)' = Kind(t)
    BY <1>3 DEF Sleep, At, Kind, IInv, TypeOK
  <2>. QED
    BY <2>1, Stutter
<1>4. ASSUME NEW k \in 0 .. MaxPid, NEW s \in Slots, Kill(c, p, k, s)
      PROVE  Status' = Status /\ Par' = Par
  <2>1. nextpid' = nextpid /\ pid' = pid /\ parent' = parent /\ \A t \in Slots : Kind(t)' = Kind(t)
    BY <1>4 DEF Kill, KillStates, Kind, IInv, TypeOK
  <2>. QED
    BY <2>1, Stutter
<1>. QED
  BY <1>1, <1>2, <1>3, <1>4

\* allocproc() takes the next pid, once.
LEMMA Create_Step ==
  ASSUME IInv, View, View', NEW c \in CPU, NEW p \in Slots, NEW s \in Slots, AllocProc(c, p, s)
  PROVE  Life!Create(nextpid) /\ nextpid \in 1 .. MaxPid
<1>1. /\ nextpid \in 1 .. MaxPid /\ nextpid' = nextpid + 1 /\ nextpid \in Nat
      /\ state[s] = "UNUSED" /\ pid'[s] = nextpid
      /\ \A t \in Slots \ {s} : pid'[t] = pid[t] /\ state'[t] = state[t]
      /\ state'[s] = "EMBRYO" /\ parent' = parent
      /\ \A t \in Slots : pc[t] = "wait" <=> pc'[t] = "wait"
  BY DEF AllocProc, AllocPid, First, Unused, At, Goto, IInv, TypeOK
<1>2. \A t \in Slots : Kind(t)' = IF t = s THEN "embryo" ELSE Kind(t)
  BY <1>1 DEF Kind, IInv, TypeOK
<1>3. Kind(s) = "none"
  BY <1>1 DEF Kind
<1>4. ASSUME NEW i \in 1 .. MaxPid
      PROVE  Status'[i] = IF i = nextpid THEN "embryo" ELSE Status[i]
  <2>1. CASE i = nextpid
    BY <1>1, <1>2, <2>1 DEF View
  <2>2. CASE i # nextpid /\ \E t \in Slots : Kind(t) # "none" /\ pid[t] = i
    <3>1. PICK t \in Slots : Kind(t) # "none" /\ pid[t] = i
      BY <2>2
    <3>. QED
      BY <1>1, <1>2, <1>3, <2>2, <3>1 DEF View
  <2>3. CASE i # nextpid /\ \A t \in Slots : Kind(t) # "none" => pid[t] # i
    <3>1. \A t \in Slots : Kind(t)' # "none" => pid'[t] # i
      BY <1>1, <1>2, <2>3
    <3>. QED
      BY <1>1, <2>3, <3>1 DEF View
  <2>. QED
    BY <2>1, <2>2, <2>3
<1>5. ASSUME NEW i \in 1 .. MaxPid
      PROVE  Par'[i] = Par[i]
  <2>1. CASE i = nextpid
    <3>1. \A t \in Slots : Kind(t) # "none" => pid[t] # i
      BY <1>1, <2>1 DEF View
    <3>. QED
      BY <1>1, <1>2, <2>1, <3>1 DEF View
  <2>2. CASE i # nextpid /\ \E t \in Slots : Kind(t) # "none" /\ pid[t] = i
    <3>1. PICK t \in Slots : Kind(t) # "none" /\ pid[t] = i
      BY <2>2
    <3>2. t # s /\ pid'[t] = i /\ Kind(t)' = Kind(t) /\ parent'[t] = parent[t]
      BY <1>1, <1>2, <1>3, <3>1
    <3>3. Kind(t) # "embryo" /\ parent[t] # 0 => pid'[parent[t]] = pid[parent[t]]
      BY <1>1, <3>1, KindIs, SlotFacts DEF IInv, TypeOK, TreeInv, ParentAlive, Alive, ProcState
    <3>. QED
      BY <3>1, <3>2, <3>3 DEF View
  <2>3. CASE i # nextpid /\ \A t \in Slots : Kind(t) # "none" => pid[t] # i
    <3>1. \A t \in Slots : Kind(t)' # "none" => pid'[t] # i
      BY <1>1, <1>2, <2>3
    <3>. QED
      BY <1>1, <2>3, <3>1 DEF View
  <2>. QED
    BY <2>1, <2>2, <2>3
<1>6. /\ Status[nextpid] = "fresh"
      /\ \A j \in 1 .. MaxPid : j < nextpid => Status[j] # "fresh"
  <2>1. Status[nextpid] = "fresh"
    BY <1>1 DEF View
  <2>2. ASSUME NEW j \in 1 .. MaxPid, j < nextpid PROVE Status[j] # "fresh"
    <3>1. CASE \E t \in Slots : Kind(t) # "none" /\ pid[t] = j
      BY <3>1 DEF View, Kind
    <3>2. CASE \A t \in Slots : Kind(t) # "none" => pid[t] # j
      BY <2>2, <3>2 DEF View
    <3>. QED
      BY <3>1, <3>2
  <2>. QED
    BY <2>1, <2>2
<1>7. Status' = [Status EXCEPT ![nextpid] = "embryo"] /\ Par' = Par
  BY <1>1, <1>4, <1>5 DEF Status, Par
<1>. QED
  BY <1>1, <1>6, <1>7 DEF Life!Create, Life!Pids

\* The failure paths of fork() give the pid up for ever.
LEMMA Abort_Step ==
  ASSUME IInv, View, View', NEW c \in CPU, NEW p \in Slots, NEW s \in Slots,
         KstackFail(c, p, s) \/ CopyFail(c, p, s)
  PROVE  Life!Abort(pid[s]) /\ pid[s] \in 1 .. MaxPid
<1>1. /\ nextpid' = nextpid /\ pid' = pid /\ parent' = parent
      /\ state' = [state EXCEPT ![s] = "UNUSED"]
      /\ \A t \in Slots : pc[t] = "wait" <=> pc'[t] = "wait"
  BY DEF KstackFail, CopyFail, At, Goto, IInv, TypeOK
<1>2. state[s] = "EMBRYO"
  BY SlotFacts DEF KstackFail, CopyFail, At, IInv, ForkInv, EmbryoOwned, Forking
<1>3. /\ Kind(s) = "embryo" /\ Kind(s)' = "none"
      /\ \A t \in Slots \ {s} : Kind(t)' = Kind(t)
  BY <1>1, <1>2 DEF Kind, IInv, TypeOK
<1>4. pid[s] \in 1 .. MaxPid /\ Status[pid[s]] = "embryo"
  BY <1>3 DEF View
<1>5. \A i \in 1 .. MaxPid : Status'[i] = IF i = pid[s] THEN "gone" ELSE Status[i]
  BY <1>1, <1>3, StatusStep DEF View
<1>6. Par' = Par
  BY <1>1, <1>3, ParStep
<1>7. Status' = [Status EXCEPT ![pid[s]] = "gone"]
  BY <1>4, <1>5 DEF Status
<1>. QED
  BY <1>4, <1>6, <1>7 DEF Life!Abort

\* fork() publishes a child of the process that called it.
LEMMA Start_Step ==
  ASSUME IInv, View, View', NEW c \in CPU, NEW p \in Slots, NEW s \in Slots, Publish(c, p, s)
  PROVE  Life!Start(pid[s]) /\ pid[s] \in 1 .. MaxPid
<1>1. /\ nextpid' = nextpid /\ pid' = pid /\ parent' = parent
      /\ state' = [state EXCEPT ![s] = "RUNNABLE"]
      /\ s = np[p] /\ pc[p] = "publish" /\ state[p] = "RUNNING"
  BY DEF Publish, At
<1>2. state[s] = "EMBRYO" /\ parent[s] = p /\ s # p /\ p # 0
  BY <1>1, SlotFacts DEF IInv, ForkInv, EmbryoOwned, Forking
<1>3. /\ Kind(s) = "embryo" /\ Kind(s)' = "alive" /\ Kind(p) = "alive"
      /\ \A t \in Slots \ {s} : Kind(t)' = Kind(t)
  <2>1. pc' = [pc EXCEPT ![s] = "user", ![p] = "kernel"]
    BY DEF Publish
  <2>. QED
    BY <1>1, <1>2, <2>1 DEF Kind, IInv, TypeOK
<1>4. /\ pid[s] \in 1 .. MaxPid /\ Status[pid[s]] = "embryo"
      /\ pid[p] \in 1 .. MaxPid /\ Status[pid[p]] = "alive"
  BY <1>3 DEF View
<1>5. \A i \in 1 .. MaxPid : Status'[i] = IF i = pid[s] THEN "alive" ELSE Status[i]
  BY <1>1, <1>3, StatusStep DEF View
<1>6. ASSUME NEW i \in 1 .. MaxPid
      PROVE  Par'[i] = IF i = pid[s] THEN pid[p] ELSE Par[i]
  <2>1. CASE i = pid[s]
    BY <1>1, <1>2, <1>3, <2>1 DEF View
  <2>2. CASE i # pid[s] /\ \E t \in Slots : Kind(t) # "none" /\ pid[t] = i
    BY <1>1, <1>3, <2>2 DEF View
  <2>3. CASE i # pid[s] /\ \A t \in Slots : Kind(t) # "none" => pid[t] # i
    <3>1. \A t \in Slots : Kind(t)' # "none" => pid'[t] # i
      BY <1>1, <1>3, <2>3
    <3>. QED
      BY <2>3, <3>1 DEF View
  <2>. QED
    BY <2>1, <2>2, <2>3
<1>7. /\ Status' = [Status EXCEPT ![pid[s]] = "alive"]
      /\ Par' = [Par EXCEPT ![pid[s]] = pid[p]]
  BY <1>4, <1>5, <1>6 DEF Status, Par
<1>. QED
  BY <1>4, <1>7 DEF Life!Start, Life!Pids

\* exit() leaves a zombie, and its children to init.
LEMMA Exit_Step ==
  ASSUME IInv, PidInv, View, View', NEW c \in CPU, NEW p \in Slots, Exit(c, p)
  PROVE  Life!Exit(pid[p]) /\ pid[p] \in 1 .. MaxPid
<1>1. /\ nextpid' = nextpid /\ pid' = pid /\ p # InitProc
      /\ parent' = Reparent(p) /\ state' = ExitStates(p)
      /\ state[p] = "RUNNING" /\ pc[p] = "exit"
      /\ \A t \in Slots \ {p} : pc'[t] = pc[t]
  BY DEF Exit, At, Goto, IInv, TypeOK
<1>2. TypeOK
  BY DEF IInv
<1>3. /\ Kind(p) = "alive" /\ Kind(p)' = "zombie"
      /\ \A t \in Slots \ {p} : Kind(t)' = Kind(t)
  BY <1>1, <1>2, ExitStatesFacts DEF Kind
<1>4. pid[p] \in 1 .. MaxPid /\ Status[pid[p]] = "alive" /\ pid[p] # 0
  BY <1>3 DEF View
<1>5. pid[p] # 1
  BY <1>1, <1>4, SlotFacts DEF PidInv, IInv, PidsDistinct
<1>6. \A i \in 1 .. MaxPid : Status'[i] = IF i = pid[p] THEN "zombie" ELSE Status[i]
  BY <1>1, <1>3, StatusStep DEF View
<1>7. ASSUME NEW i \in 1 .. MaxPid
      PROVE  Par'[i] = IF Par[i] = pid[p] THEN 1 ELSE Par[i]
  <2>1. CASE \E t \in Slots : Kind(t) # "none" /\ pid[t] = i
    <3>1. PICK t \in Slots : Kind(t) # "none" /\ pid[t] = i
      BY <2>1
    <3>2. /\ Par[i] = IF Kind(t) # "embryo" /\ parent[t] # 0 THEN pid[parent[t]] ELSE 0
          /\ Par'[i] = IF Kind(t) # "embryo" /\ parent'[t] # 0 THEN pid[parent'[t]] ELSE 0
      BY <1>1, <1>3, <3>1 DEF View
    <3>3. parent'[t] = IF parent[t] = p THEN InitProc ELSE parent[t]
      BY <1>1 DEF Reparent
    <3>4. Kind(t) # "embryo" /\ parent[t] # 0 => parent[t] \in Slots /\ Kind(parent[t]) # "none"
      BY <3>1, KindIs, SlotFacts DEF IInv, TypeOK, TreeInv, ParentAlive, Alive, ProcState
    <3>5. Kind(t) # "embryo" /\ parent[t] # 0 /\ pid[parent[t]] = pid[p] => parent[t] = p
      BY <1>3, <3>4 DEF View
    <3>. QED
      BY <1>4, <3>2, <3>3, <3>5, SlotFacts DEF PidInv
  <2>2. CASE \A t \in Slots : Kind(t) # "none" => pid[t] # i
    <3>1. \A t \in Slots : Kind(t)' # "none" => pid'[t] # i
      BY <1>1, <1>3, <2>2
    <3>. QED
      BY <1>4, <2>2, <3>1 DEF View
  <2>. QED
    BY <2>1, <2>2
<1>8. /\ Status' = [Status EXCEPT ![pid[p]] = "zombie"]
      /\ Par' = [j \in 1 .. MaxPid |-> IF Par[j] = pid[p] THEN 1 ELSE Par[j]]
  BY <1>4, <1>6, <1>7 DEF Status, Par
<1>. QED
  BY <1>4, <1>5, <1>8 DEF Life!Exit, Life!Pids

\* The children of a process, by slot and by pid.
LEMMA ChildIs ==
  ASSUME IInv, View, NEW p \in Slots, Kind(p) # "none", NEW t \in Slots, Kind(t) \notin {"none", "embryo"}
  PROVE  Par[pid[t]] = pid[p] <=> parent[t] = p
<1>1. parent[t] # 0 => parent[t] \in Slots /\ Kind(parent[t]) # "none"
  BY KindIs, SlotFacts DEF IInv, TypeOK, TreeInv, ParentAlive, Alive, ProcState
<1>2. Par[pid[t]] = (IF parent[t] # 0 THEN pid[parent[t]] ELSE 0) /\ pid[p] # 0
  BY DEF View
<1>. QED
  BY <1>1, <1>2, SlotFacts DEF View

\* A scan of wait() that finds no zombie of p has missed none.
LEMMA NoZombieChild ==
  ASSUME IInv, View, NEW p \in Slots, Kind(p) # "none", ~HasZombie(p)
  PROVE  ~Life!HasChild(pid[p], {"zombie"})
<1>. SUFFICES ASSUME NEW k \in 1 .. MaxPid, Status[k] = "zombie", Par[k] = pid[p]
              PROVE  FALSE
  BY DEF Life!HasChild, Life!Pids
<1>1. PICK t \in Slots : Kind(t) # "none" /\ pid[t] = k
  BY DEF View
<1>2. Kind(t) = "zombie"
  BY <1>1 DEF View
<1>. QED
  BY <1>1, <1>2, ChildIs, KindIs DEF HasZombie, IsZombieChild

\* Who executes the loop of wait().
LEMMA WaitPlace ==
  ASSUME IInv, View, NEW c \in CPU, NEW p \in Slots, InWait(c, p)
  PROVE  /\ state[p] = "RUNNING" /\ pc[p] \in {"kernel", "wait"}
         /\ Kind(p) = IF pc[p] = "wait" THEN "waiting" ELSE "alive"
         /\ pid[p] \in 1 .. MaxPid /\ Status[pid[p]] = Kind(p)
<1>1. state[p] = "RUNNING" /\ pc[p] \in {"kernel", "wait"}
  BY DEF InWait, At
<1>2. Kind(p) = IF pc[p] = "wait" THEN "waiting" ELSE "alive"
  BY <1>1 DEF Kind
<1>. QED
  BY <1>1, <1>2 DEF View

\* wait() returns -1 only with no zombie to reap.
LEMMA GiveUp_Step ==
  ASSUME IInv, View, View', NEW c \in CPU, NEW p \in Slots, WaitFail(c, p)
  PROVE  \/ Status' = Status /\ Par' = Par
         \/ Life!GiveUp(pid[p]) /\ pid[p] \in 1 .. MaxPid
<1>1. /\ nextpid' = nextpid /\ pid' = pid /\ parent' = parent /\ state' = state
      /\ pc' = [pc EXCEPT ![p] = "kernel"]
      /\ InWait(c, p) /\ ~HasZombie(p)
  BY DEF WaitFail, Goto, tableVars
<1>2. /\ Kind(p)' = "alive"
      /\ \A t \in Slots \ {p} : Kind(t)' = Kind(t)
  BY <1>1, WaitPlace DEF Kind, IInv, TypeOK
<1>3. Par' = Par
  BY <1>1, <1>2, WaitPlace, ParStep
<1>4. \A i \in 1 .. MaxPid : Status'[i] = IF i = pid[p] THEN "alive" ELSE Status[i]
  BY <1>1, <1>2, WaitPlace, StatusStep DEF View
<1>5. Status' = [Status EXCEPT ![pid[p]] = "alive"]
  BY <1>1, <1>4, WaitPlace DEF Status
<1>6. CASE pc[p] = "wait"
  BY <1>1, <1>3, <1>5, <1>6, WaitPlace, NoZombieChild DEF Life!GiveUp
<1>7. CASE pc[p] # "wait"
  <2>1. \A i \in 1 .. MaxPid : Status'[i] = Status[i]
    BY <1>1, <1>4, <1>7, WaitPlace
  <2>. QED
    BY <1>3, <2>1 DEF Status
<1>. QED
  BY <1>6, <1>7

\* wait() sleeps only with a live child and no zombie to reap.
LEMMA Wait_Step ==
  ASSUME IInv, View, View', NEW c \in CPU, NEW p \in Slots, WaitSleep(c, p)
  PROVE  \/ Status' = Status /\ Par' = Par
         \/ Life!Wait(pid[p]) /\ pid[p] \in 1 .. MaxPid
<1>1. /\ nextpid' = nextpid /\ pid' = pid /\ parent' = parent
      /\ state' = [state EXCEPT ![p] = "SLEEPING"] /\ pc' = [pc EXCEPT ![p] = "wait"]
      /\ InWait(c, p) /\ ~HasZombie(p) /\ HasKids(p)
  BY DEF WaitSleep, Goto
<1>2. /\ Kind(p)' = "waiting"
      /\ \A t \in Slots \ {p} : Kind(t)' = Kind(t)
  BY <1>1, WaitPlace DEF Kind, IInv, TypeOK
<1>3. Par' = Par
  BY <1>1, <1>2, WaitPlace, ParStep
<1>4. \A i \in 1 .. MaxPid : Status'[i] = IF i = pid[p] THEN "waiting" ELSE Status[i]
  BY <1>1, <1>2, WaitPlace, StatusStep DEF View
<1>5. Status' = [Status EXCEPT ![pid[p]] = "waiting"]
  BY <1>1, <1>4, WaitPlace DEF Status
<1>6. Life!HasChild(pid[p], {"alive", "waiting"})
  <2>1. PICK t \in Slots : parent[t] = p
    BY <1>1 DEF HasKids
  <2>2. state[t] # "UNUSED"
    BY <2>1, SlotFacts DEF IInv, TreeInv
  <2>3. state[t] # "EMBRYO"
    <3>1. ASSUME state[t] = "EMBRYO" PROVE FALSE
      <4>1. PICK q \in Slots : np[q] = t
        BY <3>1 DEF IInv, ForkInv, EmbryoOwned
      <4>2. pc[q] \in Forking
        BY <4>1, SlotFacts DEF IInv, ForkInv
      <4>3. parent[t] = q \/ parent[t] = 0
        BY <4>1, <4>2 DEF IInv, ForkInv, Forking
      <4>. QED
        BY <1>1, <2>1, <4>2, <4>3, WaitPlace, SlotFacts DEF Forking
    <3>. QED
      BY <3>1
  <2>4. state[t] # "ZOMBIE"
    BY <1>1, <2>1 DEF HasZombie, IsZombieChild
  <2>5. Kind(t) \in {"alive", "waiting"}
    BY <2>2, <2>3, <2>4 DEF Kind, IInv, TypeOK
  <2>6. pid[t] \in 1 .. MaxPid /\ Status[pid[t]] = Kind(t) /\ Par[pid[t]] = pid[p]
    BY <1>1, <2>1, <2>5, WaitPlace, ChildIs DEF View
  <2>. QED
    BY <2>5, <2>6 DEF Life!HasChild, Life!Pids
<1>7. CASE pc[p] = "wait"
  <2>1. \A i \in 1 .. MaxPid : Status'[i] = Status[i]
    BY <1>1, <1>4, <1>7, WaitPlace
  <2>. QED
    BY <1>3, <2>1 DEF Status
<1>8. CASE pc[p] # "wait"
  BY <1>1, <1>3, <1>5, <1>6, <1>8, WaitPlace, NoZombieChild DEF Life!Wait
<1>. QED
  BY <1>7, <1>8

\* wait() reaps a zombie of the caller, and leaves its parent running.
LEMMA Reap_Step ==
  ASSUME IInv, View, View', NEW c \in CPU, NEW p \in Slots, NEW s \in Slots, WaitReap(c, p, s)
  PROVE  Life!Reap(pid[s]) /\ pid[s] \in 1 .. MaxPid
<1>1. /\ nextpid' = nextpid /\ pid' = [pid EXCEPT ![s] = 0]
      /\ parent' = [parent EXCEPT ![s] = 0]
      /\ state' = [state EXCEPT ![s] = "UNUSED"]
      /\ pc' = [pc EXCEPT ![p] = "kernel", ![s] = "none"]
      /\ InWait(c, p) /\ state[s] = "ZOMBIE" /\ parent[s] = p
  BY DEF WaitReap, First, IsZombieChild
<1>2. s # p
  BY <1>1, WaitPlace
<1>3. /\ Kind(s) = "zombie" /\ Kind(s)' = "none" /\ Kind(p)' = "alive"
      /\ \A t \in Slots \ {p, s} : Kind(t)' = Kind(t)
  BY <1>1, <1>2, WaitPlace DEF Kind, IInv, TypeOK
<1>4. pid[s] \in 1 .. MaxPid /\ Status[pid[s]] = "zombie"
  BY <1>3 DEF View
<1>5. Par[pid[s]] = pid[p] /\ pid[p] # pid[s]
  BY <1>1, <1>2, <1>3, WaitPlace, ChildIs DEF View
<1>6. \A i \in 1 .. MaxPid :
        Status'[i] = IF i = pid[p] THEN "alive" ELSE IF i = pid[s] THEN "gone" ELSE Status[i]
  <2>1. \A t \in Slots : Kind(t)' # "none" => Kind(t) # "none" /\ pid'[t] = pid[t]
    BY <1>1, <1>3, WaitPlace DEF IInv, TypeOK
  <2>2. Kind(p) # "none"
    BY <1>1, WaitPlace
  <2>. QED
    BY <1>1, <1>3, <2>1, <2>2, StatusStep
<1>7. ASSUME NEW i \in 1 .. MaxPid
      PROVE  Par'[i] = IF i = pid[s] THEN 0 ELSE Par[i]
  <2>1. CASE i # pid[s] /\ \E t \in Slots : Kind(t) # "none" /\ pid[t] = i
    <3>1. PICK t \in Slots : Kind(t) # "none" /\ pid[t] = i
      BY <2>1
    <3>2. t # s /\ pid'[t] = i /\ parent'[t] = parent[t] /\ Kind(t)' # "none"
          /\ (Kind(t)' = "embryo" <=> Kind(t) = "embryo")
      BY <1>1, <1>3, <2>1, <3>1, WaitPlace DEF IInv, TypeOK
    <3>3. Kind(t) # "embryo" /\ parent[t] # 0 => pid'[parent[t]] = pid[parent[t]]
      BY <1>1, <3>1, KindIs, SlotFacts DEF IInv, TypeOK, TreeInv, ParentAlive, Alive, ProcState
    <3>. QED
      BY <2>1, <3>1, <3>2, <3>3 DEF View
  <2>2. CASE i = pid[s] \/ \A t \in Slots : Kind(t) # "none" => pid[t] # i
    <3>1. \A t \in Slots : Kind(t)' # "none" => pid'[t] # i
      BY <1>1, <1>3, <2>2, WaitPlace DEF View, IInv, TypeOK
    <3>2. Par'[i] = 0
      BY <3>1 DEF View
    <3>3. i = pid[s] \/ Par[i] = 0
      BY <2>2 DEF View
    <3>. QED
      BY <3>2, <3>3
  <2>. QED
    BY <2>1, <2>2
<1>8. pid[p] \in 1 .. MaxPid /\ Status[pid[p]] \in {"alive", "waiting"}
  BY <1>1, WaitPlace
<1>9. Status' = [Status EXCEPT ![pid[s]] = "gone", ![pid[p]] = "alive"]
  BY <1>4, <1>5, <1>6, <1>8 DEF Status
<1>10. Par' = [Par EXCEPT ![pid[s]] = 0]
  BY <1>4, <1>7 DEF Par
<1>. QED
  BY <1>4, <1>5, <1>8, <1>9, <1>10 DEF Life!Reap, Life!Pids

\* Every step of the table is a step of ProcLife or changes no life.
LEMMA Life_Step ==
  ASSUME IInv, PidInv, IInv', PidInv', [Next]_vars
  PROVE  [Life!Next]_<<Status, Par>>
<1>1. View /\ View'
  BY ViewHolds, ViewHoldsNext
<1>2. ASSUME NEW c \in CPU, NEW p \in Slots, CpuStep(c, p)
      PROVE  [Life!Next]_<<Status, Par>>
  <2>1. ASSUME NEW s \in Slots, Fork(c, p, s)
        PROVE  [Life!Next]_<<Status, Par>>
    BY <1>1, <2>1, Quiet_Step, Create_Step, Abort_Step, Start_Step DEF Fork, Life!Next, Life!Pids
  <2>2. CASE ExitStep(c, p)
    BY <1>1, <2>2, Quiet_Step, Exit_Step DEF ExitStep, Life!Next, Life!Pids
  <2>3. CASE WaitStep(c, p)
    BY <1>1, <2>3, Reap_Step, GiveUp_Step, Wait_Step DEF WaitStep, Life!Next, Life!Pids
  <2>4. CASE \/ Switch(c, p) \/ Trap(c, p) \/ \E ch \in Chan : Sleep(c, p, ch)
             \/ \E k \in 0 .. MaxPid, s \in Slots : Kill(c, p, k, s)
    BY <1>1, <2>4, Quiet_Step
  <2>. QED
    BY <1>2, <2>1, <2>2, <2>3, <2>4 DEF CpuStep
<1>3. ASSUME NEW ch \in Chan, Wakeup(ch)
      PROVE  Status' = Status /\ Par' = Par
  <2>1. nextpid' = nextpid /\ pid' = pid /\ parent' = parent /\ \A t \in Slots : Kind(t)' = Kind(t)
    BY <1>3 DEF Wakeup, wakeup1, Kind, IInv, TypeOK
  <2>. QED
    BY <1>1, <2>1, Stutter
<1>4. CASE UNCHANGED vars
  BY <1>4 DEF vars, tableVars, Status, Par, StatusOf, ParentOf, Holders
<1>. QED
  BY <1>2, <1>3, <1>4 DEF Next

(* The process table implements ProcLife: each pid is handed out once and in *)
(* order, and its process is reaped at most once, by its parent of that     *)
(* time, whatever the interleaving of fork(), exit(), wait() and kill().    *)
THEOREM LifeRefined == Spec => LifeSpec
<1>1. Init => PidInv
  BY SlotFacts DEF Init, PidInv
<1>2. Init => Life!Init
  <2>. SUFFICES ASSUME Init PROVE Life!Init
    OBVIOUS
  <2>1. View
    BY <1>1, InitInv, ViewHolds
  <2>2. \A s \in Slots : Kind(s) = IF s = InitProc THEN "alive" ELSE "none"
    BY SlotFacts DEF Init, Kind
  <2>3. \A i \in 1 .. MaxPid : Status[i] = IF i = 1 THEN "alive" ELSE "fresh"
    BY <2>1, <2>2, SlotFacts DEF Init, View
  <2>4. \A i \in 1 .. MaxPid : Par[i] = 0
    BY <2>1, <2>2, SlotFacts DEF Init, View
  <2>. QED
    BY <2>3, <2>4 DEF Life!Init, Life!Pids, Status, Par
<1>. QED
  BY <1>1, <1>2, Inductive, PidInv_Step, Life_Step, PTL DEF Spec, LifeSpec, Life!Spec
=============================================================================
