------------------------------- MODULE MCMem -------------------------------
(* The instance of Mem for TLC. *)
EXTENDS Mem

\* Steps of more than a page.  No sequence of them brings a process from a size it
\* starts with, 3 or 9, down to 0.
MCDeltas == {4, -4}
=============================================================================
