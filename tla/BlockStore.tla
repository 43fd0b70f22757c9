----------------------------- MODULE BlockStore -----------------------------
(***************************************************************************)
(* What the buffer cache promises (bio.c:6-14): between bread() and brelse() *)
(* one process at a time has a block, and sees what was last written to it. *)
(***************************************************************************)
CONSTANTS Proc, Block, Val, NoProc, NoVal

VARIABLES
  store,   \* the contents of each block
  owner,   \* the process that has it, or NoProc
  view     \* what each process sees of the block it has

Init ==
  /\ store \in [Block -> Val]
  /\ owner = [k \in Block |-> NoProc]
  /\ view = [p \in Proc |-> NoVal]

Take(p, k) ==
  /\ owner[k] = NoProc /\ view[p] = NoVal
  /\ owner' = [owner EXCEPT ![k] = p]
  /\ view' = [view EXCEPT ![p] = store[k]]
  /\ UNCHANGED store

Change(p, k) ==
  /\ owner[k] = p
  /\ \E v \in Val : store' = [store EXCEPT ![k] = v] /\ view' = [view EXCEPT ![p] = v]
  /\ UNCHANGED owner

Give(p, k) ==
  /\ owner[k] = p
  /\ owner' = [owner EXCEPT ![k] = NoProc]
  /\ view' = [view EXCEPT ![p] = NoVal]
  /\ UNCHANGED store

Next == \E p \in Proc, k \in Block : Take(p, k) \/ Change(p, k) \/ Give(p, k)

Spec == Init /\ [][Next]_<<store, owner, view>>
=============================================================================
