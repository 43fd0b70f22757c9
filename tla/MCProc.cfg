\* Three slots, two CPUs, one sleep channel, pids 1..4: a slot can be reused,
\* a fork can fail, and a child can be orphaned by a parent that is not init.
CONSTANTS
  NPROC = 3
  CPU = {c1, c2}
  NoCPU = NoCPU
  Chan = {ch1}
  MaxPid = 4
SPECIFICATION Spec
SYMMETRY CpuSymmetry
INVARIANTS
  TypeOK
  ParentAlive
  RunsOnOneCpu
  StackInUse
  NoLostWait
  EmbryoOwned
PROPERTY LifeSpec
