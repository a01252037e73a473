CONSTANTS
  Procs = {p1, p2}
  NoProc = NoProc
  k1 = k1
  Blocks = {k1, k2, k3}
  OnDisk = {k1, k2, k3}
  Nested <- NestedInK1
  NoBlock = NoBlock
  Values = {v0, v1}
  NoData = NoData
  NBUF = 2
  MaxPinned = 1
  havedisk1 = TRUE
  DiskErrors = {FALSE}
SPECIFICATION Spec
INVARIANTS OneBufferPerBlock CleanIsOnDisk SleeperHasWaker NoPanic
PROPERTY IsBlockStore
SYMMETRY Symmetry
\* bget may panic with two buffers for two processes, and then nothing runs.
CHECK_DEADLOCK FALSE
