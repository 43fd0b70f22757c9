----------------------------- MODULE MCConsole -----------------------------
(* The instance of Console for TLC. *)
EXTENDS Console, TLC

ReaderSymmetry == Permutations(Reader)
=============================================================================
