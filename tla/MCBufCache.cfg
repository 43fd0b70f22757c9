\* Fewer buffers than blocks, so that they are recycled, and one of them may be
\* pinned.
CONSTANTS
  Proc = {p1, p2}
  NoProc = NoProc
  NBUF = 2
  Block = {1, 2, 3}
  Val = {0, 1}
  NoVal = NoVal
  MaxPin = 1
SPECIFICATION Spec
INVARIANTS
  CacheSound
  SleepersWaited
PROPERTIES
  StoreSpec
  
