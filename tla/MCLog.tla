------------------------------- MODULE MCLog -------------------------------
(* Instances of Log for TLC.  Processes, blocks and contents are            *)
(* interchangeable (Init leaves the disk's contents open).                  *)
EXTENDS Log, TLC

LogSymmetry == Permutations(Proc) \cup Permutations(Block)
=============================================================================
