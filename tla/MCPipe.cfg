\* A ring of two and writes of three bytes: the ring fills, drains and wraps,
\* and so do the counters.
CONSTANTS
  r1 = r1
  r2 = r2
  w1 = w1
  Reader <- MCReader
  Writer <- MCWriter
  PIPESIZE = 2
  UintSize = 4
  Byte = {0, 1}
  addr <- MCAddr
  Counts <- MCCounts
  NoProc = NoProc
SPECIFICATION Spec
INVARIANTS
  TypeOK
  NoLostWakeup
  FreedUnused
PROPERTIES
  StreamSpec
  
