\* Three slots and three records.
CONSTANTS
  NPROC = 3
  NLOGPAIR = 4
  Kbd = Kbd
  NoOne = NoOne
  Calls <- MCCalls
  MaxCalls = 2
  MaxPid = 4
  MaxRecords = 3
SPECIFICATION Spec
CHECK_DEADLOCK FALSE
INVARIANTS
  OwnLog
  ExitRecorded
  
