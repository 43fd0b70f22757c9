------------------------------- MODULE MCPipe -------------------------------
(* The instance of Pipe for TLC: one reader asks for more than the ring     *)
(* holds, the other for a byte at a time.                                   *)
EXTENDS Pipe, TLC

CONSTANTS r1, r2, w1

MCReader == {r1, r2}
MCWriter == {w1}
MCAddr   == <<0, 1, 1>>
MCCounts == r1 :> {3} @@ r2 :> {1} @@ w1 :> {3}
=============================================================================
