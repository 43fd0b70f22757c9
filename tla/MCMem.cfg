CONSTANTS
  NPAGE = 13
  Proc = {p1, p2}
  initproc = p1
  PGSIZE = 3
  NPTENTRIES = 2
  NVPAGE = 5
  NKTAB = 1
  Deltas <- MCDeltas
  Images = {1}
SPECIFICATION Spec
INVARIANTS
  PagesOwned
  SizeMapped
