-------------------------------- MODULE MCFs --------------------------------
(* Instances of Fs for TLC: the calls that processes make. *)
EXTENDS Fs, TLC

A(e) == [abs |-> TRUE, elems |-> e]
R(e) == [abs |-> FALSE, elems |-> e]
Call(op, path) == [op |-> op, path |-> path, new |-> A(<<>>)]

CONSTANTS p1, p2

\* p1 makes a directory, links /a to /b, over it if it is there, and
\* opens a path through "..".  p2 creates a file in its current directory, and
\* removes /a, which may be that directory.
MCCalls ==
  p1 :> { Call("mkdir", A(<<"a">>)), Call("openw", A(<<"a", "..", "b">>)),
          [op |-> "link", path |-> A(<<"a">>), new |-> A(<<"b">>)] } @@
  p2 :> { Call("chdir", A(<<"a">>)), Call("creat", R(<<"a">>)), Call("unlink", R(<<"..", "a">>)) }
=============================================================================
