----------------------------- MODULE MCBufCache -----------------------------
(* The instance of BufCache for TLC. *)
EXTENDS BufCache
=============================================================================
