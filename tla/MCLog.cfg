\* Three processes and three blocks: an operation has to wait for space, a
\* block is absorbed, and the log is short enough for log_write() to panic.
CONSTANTS
  Proc = {p1, p2, p3}
  Block = {b1, b2, b3}
  Val = {0, 1}
  MAXOPBLOCKS = 2
  nlog = 4
SPECIFICATION Spec
SYMMETRY LogSymmetry
INVARIANTS
  SpaceReserved
  SleepersWoken
  Pinned
PROPERTY DiskSpec
