------------------------------ MODULE ProcLife ------------------------------
(***************************************************************************)
(* What the process table promises about processes, by pid: each is        *)
(* created at most once, runs, exits at most once, and is reaped once, by  *)
(* its parent.  The children of a process that exits pass to init, pid 1.  *)
(* A process waits only for children, and never past one that has exited.  *)
(***************************************************************************)
EXTENDS Naturals

CONSTANT MaxPid

VARIABLES
  status,   \* status[i]: "fresh", "embryo", "alive", "waiting", "zombie" or "gone"
  par       \* par[i]: the pid of the parent, 0 if there is none

Pids == 1 .. MaxPid

Init ==
  /\ status = [i \in Pids |-> IF i = 1 THEN "alive" ELSE "fresh"]
  /\ par = [i \in Pids |-> 0]

Create(i) ==
  /\ status[i] = "fresh"
  /\ \A j \in Pids : j < i => status[j] # "fresh"
  /\ status' = [status EXCEPT ![i] = "embryo"]
  /\ UNCHANGED par

Abort(i) ==
  /\ status[i] = "embryo"
  /\ status' = [status EXCEPT ![i] = "gone"]
  /\ UNCHANGED par

Start(i) ==
  /\ status[i] = "embryo"
  /\ status' = [status EXCEPT ![i] = "alive"]
  /\ \E j \in Pids : status[j] = "alive" /\ par' = [par EXCEPT ![i] = j]

Exit(i) ==
  /\ i # 1
  /\ status[i] = "alive"
  /\ status' = [status EXCEPT ![i] = "zombie"]
  /\ par' = [j \in Pids |-> IF par[j] = i THEN 1 ELSE par[j]]

HasChild(i, st) == \E k \in Pids : status[k] \in st /\ par[k] = i

Wait(i) ==
  /\ status[i] = "alive"
  /\ status' = [status EXCEPT ![i] = "waiting"]
  /\ HasChild(i, {"alive", "waiting"})
  /\ ~HasChild(i, {"zombie"})
  /\ UNCHANGED par

\* The wait of i is over without a child: i has been killed, or has none.
GiveUp(i) ==
  /\ status[i] = "waiting"
  /\ status' = [status EXCEPT ![i] = "alive"]
  /\ ~HasChild(i, {"zombie"})
  /\ UNCHANGED par

\* The parent of i, on its first try or after waiting, reaps it.
Reap(i) ==
  /\ status[i] = "zombie"
  /\ par[i] \in Pids
  /\ status[par[i]] \in {"alive", "waiting"}
  /\ status' = [status EXCEPT ![i] = "gone", ![par[i]] = "alive"]
  /\ par' = [par EXCEPT ![i] = 0]

Next ==
  \E i \in Pids :
    \/ Create(i) \/ Abort(i) \/ Start(i) \/ Exit(i)
    \/ Wait(i) \/ GiveUp(i) \/ Reap(i)

Spec == Init /\ [][Next]_<<status, par>>
=============================================================================
