\* A ring of three places whose counters wrap at six, and two readers.
CONSTANTS
  Reader = {r1, r2}
  intr = intr
  NoProc = NoProc
  INPUT_BUF = 3
  UintSize = 6
  Letter = {"a", "b"}
  Counts = {2}
SPECIFICATION Spec
SYMMETRY ReaderSymmetry
INVARIANTS
  TypeOK
  NoReaderLeftAsleep
PROPERTY LineSpec
