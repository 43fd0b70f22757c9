----------------------------- MODULE ByteStream -----------------------------
(***************************************************************************)
(* What a pipe promises: bytes come out once each, in the order they went  *)
(* in, at most Capacity of them are in flight, and a reader is told "end   *)
(* of file" only when nothing is in flight and nobody can write any more.  *)
(***************************************************************************)
EXTENDS Naturals, Sequences

CONSTANTS Byte, Capacity

VARIABLES
  queue,     \* the bytes in flight
  out,       \* the last byte delivered to a reader
  writable,  \* some process may still write
  eof        \* a reader has been told that the stream has ended

vars == <<queue, out, writable, eof>>

Init ==
  /\ queue = <<>>
  /\ out \in Byte
  /\ writable = TRUE
  /\ eof = FALSE

Put(v) ==
  /\ writable
  /\ Len(queue) < Capacity
  /\ queue' = Append(queue, v)
  /\ UNCHANGED <<out, writable, eof>>

Get ==
  /\ queue # <<>>
  /\ out' = Head(queue)
  /\ queue' = Tail(queue)
  /\ UNCHANGED <<writable, eof>>

Close ==
  /\ writable' = FALSE
  /\ UNCHANGED <<queue, out, eof>>

Eof ==
  /\ queue = <<>>
  /\ ~writable
  /\ eof' = TRUE
  /\ UNCHANGED <<queue, out, writable>>

Next == Get \/ Close \/ Eof \/ \E v \in Byte : Put(v)

Spec == Init /\ [][Next]_vars
=============================================================================
