------------------------------ MODULE MCShell ------------------------------
(* The instance of Shell for TLC: every line of at most four tokens, and    *)
(* pipelines with redirections and blocks.                                  *)
EXTENDS Shell

MCLines ==
  UNION {[1 .. n -> Token] : n \in 0 .. 4} \cup
  { <<"a", "|", "a", "|", "a">>,
    <<"a", "|", "a", "|", "a", "|", "a">>,
    <<"(", "a", "|", "a", ")", "|", "a">>,
    <<"a", "|", "(", "a", "&", ")", "|", "a">>,
    <<"a", "<", "a", "a", "|", "a", ">", "a">>,
    <<"(", "a", ";", "a", ")", ">", "a", "|", "a">> }
=============================================================================
