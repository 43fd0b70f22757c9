--------------------------- MODULE MCSyscallTrace ---------------------------
(* The instance of SyscallTrace for TLC: init forks, its child forks, waits *)
(* and kills, and a grandchild prints.                                      *)
EXTENDS SyscallTrace

MCCalls ==
  << {"fork"},
     {"fork", "wait", "kill", "exit"},
     {"print_syscalls", "ps", "exit"} >>
=============================================================================
