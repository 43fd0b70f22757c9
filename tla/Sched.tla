------------------------------- MODULE Sched -------------------------------
(***************************************************************************)
(* Which process the scheduler of proc.c runs next: the lottery over the   *)
(* first queue, the round-robin scan, HRRN, aging, and the system calls    *)
(* that move a process between queues.                                     *)
(*                                                                         *)
(* A pass of scheduler() runs under ptable.lock and is one action; the     *)
(* handoff of the lock is the subject of module Proc.  Times are relative: *)
(* waited[s] is ticks - proc[s].last_run, saturating just past AgeLimit,   *)
(* the 2500 ticks apply_aging() compares it with.                          *)
(***************************************************************************)
EXTENDS Naturals, FiniteSetsExt, Functions

CONSTANTS
  NPROC,           \* number of slots of ptable.proc
  CPU,             \* the processors
  AgeLimit,        \* ticks of waiting that apply_aging() tolerates
  DefaultTickets,  \* tickets allocproc() gives a new process
  Tickets          \* the values set_tickets() is called with

ASSUME SchedAssumption ==
  /\ NPROC \in Nat \ {0}
  /\ AgeLimit \in Nat
  /\ Tickets \cup {DefaultTickets} \subseteq Nat \ {0}

Slots == 1 .. NPROC

PL1 == 0
PL2 == 1
PL3 == 2
Queues == {PL1, PL2, PL3}

VARIABLES
  state, priority, tickets,   \* fields of ptable.proc[s]
  waited,                     \* min(ticks - last_run, AgeLimit + 1)
  curproc                     \* cpus[c].proc, 0 in the scheduler

vars == <<state, priority, tickets, waited, curproc>>

TypeOK ==
  /\ state \in [Slots -> {"UNUSED", "EMBRYO", "SLEEPING", "RUNNABLE", "RUNNING", "ZOMBIE"}]
  /\ priority \in [Slots -> Queues]
  /\ tickets \in [Slots -> Tickets \cup {DefaultTickets, 0}]
  /\ \A s \in Slots : tickets[s] = 0 => state[s] = "UNUSED"
  /\ waited \in [Slots -> 0 .. AgeLimit + 1]
  /\ curproc \in [CPU -> Slots \cup {0}]
  /\ \A s \in Slots : (state[s] = "RUNNING") = (\E c \in CPU : curproc[c] = s)

\* init has been started by userinit(); the table is otherwise zero.
Init ==
  /\ state    = [s \in Slots |-> IF s = 1 THEN "RUNNABLE" ELSE "UNUSED"]
  /\ priority = [s \in Slots |-> IF s = 1 THEN PL3 ELSE PL1]
  /\ tickets  = [s \in Slots |-> IF s = 1 THEN DefaultTickets ELSE 0]
  /\ waited   = [s \in Slots |-> 0]
  /\ curproc  = [c \in CPU |-> 0]

-----------------------------------------------------------------------------
(* The three queue schedulers.  A result of 0 is "not found". *)

Runnable == {s \in Slots : state[s] = "RUNNABLE"}
Lottery  == {s \in Runnable : priority[s] = PL1}

TicketsSum(S) == SumFunctionOnSet(tickets, S)

\* Mutant: a draw below the sum, as [0, max) would give.
Draws_HalfOpen == 0 .. (IF Lottery = {} THEN 0 ELSE TicketsSum(Lottery) - 1)

\* random_at_most(tickets_sum) returns any number in [0, tickets_sum].
Draws == 0 .. TicketsSum(Lottery)

\* Mutant: the running sum must exceed the draw.
sched_lottery_Strict(winner) ==
  LET reached == {s \in Lottery : TicketsSum({t \in Lottery : t <= s}) > winner}
  IN IF reached = {} THEN 0 ELSE Min(reached)

\* The first process at which the running sum reaches the winning ticket.
sched_lottery(winner) ==
  LET reached == {s \in Lottery : TicketsSum({t \in Lottery : t <= s}) >= winner}
  IN IF reached = {} THEN 0 ELSE Min(reached)

\* Mutant: the scan stops one slot early.
sched_rr_StopsEarly ==
  LET scanned == {s \in Runnable : s < NPROC} IN IF scanned = {} THEN 0 ELSE Min(scanned)

\* The first RUNNABLE slot: the test on the queue is disabled by "|| 1".
sched_rr == IF Runnable = {} THEN 0 ELSE Min(Runnable)

\* The slots sched_rr scans, and so ages, before it returns.
Scanned == IF Runnable = {} THEN Slots ELSE 1 .. Min(Runnable)

\* Some process of the third queue; which one the response ratio decides.
sched_hrrn(s) ==
  LET third == {t \in Runnable : priority[t] = PL3}
  IN IF third = {} THEN s = 0 ELSE s \in third

\* scheduler() tries the queues in order and stops at the first that finds s.
Chosen(winner, s) ==
  \/ sched_lottery(winner) # 0 /\ s = sched_lottery(winner)
  \/ sched_lottery(winner) = 0 /\ sched_rr # 0 /\ s = sched_rr
  \/ sched_lottery(winner) = 0 /\ sched_rr = 0 /\ sched_hrrn(s)

\* apply_aging() on the scanned slots, in whatever state they are.
Aged(winner) ==
  IF sched_lottery(winner) # 0 THEN {} ELSE {s \in Scanned : waited[s] > AgeLimit}

-----------------------------------------------------------------------------
(* A pass of scheduler() on CPU c, run_proc() included. *)

Dispatch(c, winner, s) ==
  /\ curproc[c] = 0
  /\ Chosen(winner, s)
  /\ s # 0
  /\ priority' = [t \in Slots |-> IF t \in Aged(winner) THEN PL1 ELSE priority[t]]
  /\ waited' = [t \in Slots |-> IF t \in Aged(winner) \cup {s} THEN 0 ELSE waited[t]]
  /\ state' = [state EXCEPT ![s] = "RUNNING"]
  /\ curproc' = [curproc EXCEPT ![c] = s]
  /\ UNCHANGED tickets

\* A pass that finds nobody still ages the table.
Idle(c, winner) ==
  /\ curproc[c] = 0
  /\ Chosen(winner, 0)
  /\ priority' = [t \in Slots |-> IF t \in Aged(winner) THEN PL1 ELSE priority[t]]
  /\ waited' = [t \in Slots |-> IF t \in Aged(winner) THEN 0 ELSE waited[t]]
  /\ UNCHANGED <<state, tickets, curproc>>

\* Interrupt of the clock: everybody's last_run recedes.
Tick ==
  /\ waited' = [s \in Slots |-> IF waited[s] > AgeLimit THEN waited[s] ELSE waited[s] + 1]
  /\ UNCHANGED <<state, priority, tickets, curproc>>

\* yield(), sleep() and exit(): the process leaves its CPU in state st.
Leave(c, s, st) ==
  /\ curproc[c] = s
  /\ state' = [state EXCEPT ![s] = st]
  /\ curproc' = [curproc EXCEPT ![c] = 0]
  /\ UNCHANGED <<priority, tickets, waited>>

Yield(c, s) == Leave(c, s, "RUNNABLE")
Sleep(c, s) == Leave(c, s, "SLEEPING")
Exit(c, s)  == s # 1 /\ Leave(c, s, "ZOMBIE")

Move(s, from, to) ==
  /\ state[s] = from
  /\ state' = [state EXCEPT ![s] = to]
  /\ UNCHANGED <<priority, tickets, waited, curproc>>

Wakeup(s) == Move(s, "SLEEPING", "RUNNABLE")

\* A process in wait() frees the slot; priority and tickets keep their values.
Reap(s) ==
  /\ \E c \in CPU : curproc[c] # 0
  /\ Move(s, "ZOMBIE", "UNUSED")

\* p->tickets = 10
NewTickets(s) == tickets' = [tickets EXCEPT ![s] = DefaultTickets]

\* allocproc() takes the first free slot and resets the scheduling fields.
AllocProc(s) ==
  /\ \E c \in CPU : curproc[c] # 0
  /\ state[s] = "UNUSED"
  /\ \A t \in Slots : t < s => state[t] # "UNUSED"
  /\ state' = [state EXCEPT ![s] = "EMBRYO"]
  /\ priority' = [priority EXCEPT ![s] = PL3]
  /\ NewTickets(s)
  /\ waited' = [waited EXCEPT ![s] = 0]
  /\ UNCHANGED curproc

\* fork() publishes the child or gives the slot back.
Publish(s) == Move(s, "EMBRYO", "RUNNABLE")
ForkFail(s) == Move(s, "EMBRYO", "UNUSED")

set_queue(c, s, q) ==
  /\ curproc[c] = s
  /\ s # 0
  /\ priority' = [priority EXCEPT ![s] = q]
  /\ UNCHANGED <<state, tickets, waited, curproc>>

\* exec() ends with curproc->priority = PL2.
Exec(c, s) == set_queue(c, s, PL2)

set_tickets(c, s, n) ==
  /\ curproc[c] = s
  /\ s # 0
  /\ tickets' = [tickets EXCEPT ![s] = n]
  /\ UNCHANGED <<state, priority, waited, curproc>>

-----------------------------------------------------------------------------
Next ==
  \/ Tick
  \/ \E c \in CPU, w \in Draws : Idle(c, w)
  \/ \E s \in Slots :
       \/ Wakeup(s) \/ Reap(s) \/ AllocProc(s) \/ Publish(s) \/ ForkFail(s)
       \/ \E c \in CPU :
            \/ \E w \in Draws : Dispatch(c, w, s)
            \/ Yield(c, s) \/ Sleep(c, s) \/ Exit(c, s) \/ Exec(c, s)
            \/ \E q \in Queues : set_queue(c, s, q)
            \/ \E n \in Tickets : set_tickets(c, s, n)

\* The clock ticks and preempts whoever runs; the CPUs keep passing through
\* scheduler(); genrand() comes round to every draw.
Fairness ==
  /\ WF_vars(Tick)
  /\ \A c \in CPU, s \in Slots : WF_vars(Yield(c, s))
  /\ \A c \in CPU : WF_vars(\E s \in Slots, w \in Draws : Dispatch(c, w, s))
  /\ \A s \in Slots : SF_vars(\E c \in CPU, w \in Draws : s \in Lottery /\ Dispatch(c, w, s))

Spec == Init /\ [][Next]_vars /\ Fairness

-----------------------------------------------------------------------------
(* Work conservation: whatever the draw, a pass finds nobody only if nobody *)
(* is RUNNABLE, and what it finds is RUNNABLE.                              *)
PassFindsWork ==
  \A w \in Draws, s \in Slots \cup {0} :
    Chosen(w, s) => IF Runnable = {} THEN s = 0 ELSE s \in Runnable

(* The lottery is proportional: of the draws in [0, tickets_sum] a contender *)
(* wins as many as it has tickets, and the first in the table one more, the  *)
(* draw 0.                                                                   *)
LotteryProportional ==
  \A s \in Lottery :
    Cardinality({w \in Draws : sched_lottery(w) = s}) =
      tickets[s] + (IF s = Min(Lottery) THEN 1 ELSE 0)

(* Nobody in the lottery starves: a RUNNABLE process of the first queue runs, *)
(* however the others fork, change queues and buy tickets.                    *)
LotteryServes ==
  \A s \in Slots : s \in Lottery ~> state[s] = "RUNNING"

(* "Round-Robin scheduler", with "apply aging" (proc.c): while the lottery is *)
(* empty every RUNNABLE process gets its turn, or is aged into the lottery.   *)
RoundRobinServes ==
  \A s \in Slots :
    state[s] = "RUNNABLE" /\ Lottery = {} ~> state[s] = "RUNNING" \/ Lottery # {}
=============================================================================
