----------------------------- MODULE AtomicDisk -----------------------------
(***************************************************************************)
(* What the log promises its callers: a disk on which a group of system    *)
(* calls takes effect as a whole.  "current" is what the running system    *)
(* reads; "durable" is what a restart brings back.  Durable only ever      *)
(* becomes a current that no open operation is still changing.             *)
(***************************************************************************)
EXTENDS Naturals

CONSTANTS Block, Val, MaxOps

VARIABLES current, durable, open

Init ==
  /\ current \in [Block -> Val]
  /\ durable = current
  /\ open = 0

Begin ==
  /\ open < MaxOps
  /\ open' = open + 1
  /\ UNCHANGED <<current, durable>>

Write(b, v) ==
  /\ open > 0
  /\ current' = [current EXCEPT ![b] = v]
  /\ UNCHANGED <<durable, open>>

End ==
  /\ open > 0
  /\ open' = open - 1
  /\ UNCHANGED <<current, durable>>

Commit ==
  /\ open = 0
  /\ durable' = current
  /\ UNCHANGED <<current, open>>

Crash ==
  /\ current' = durable
  /\ open' = 0
  /\ UNCHANGED durable

Next ==
  \/ Begin \/ End \/ Commit \/ Crash
  \/ \E b \in Block, v \in Val : Write(b, v)

Spec == Init /\ [][Next]_<<current, durable, open>>
=============================================================================
