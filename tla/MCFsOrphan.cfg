CONSTANTS
  p1 = p1
  p2 = p2
  Proc = {p1, p2}
  initproc = p1
  NoProc = NoProc
  ninodes = 4
  Block = {1, 2, 3, 4}
  NDIRECT = 1
  NINDIRECT = 1
  NFILE = 1
  NOFILE = 2
  Name = {"a", "b"}
  Calls <- MCCalls
SPECIFICATION Spec
CHECK_DEADLOCK FALSE
INVARIANT NoOrphan
