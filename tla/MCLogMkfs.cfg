\* nlog = LOGSIZE, as mkfs.c makes the disk.
CONSTANTS
  Ops = {o1, o2}
  NoOp = NoOp
  Blocks = {b1, b2, b3}
  Values = {v0, v1}
  NoBlock = NoBlock
  NotCached = NotCached
  MAXOPBLOCKS = 2
  OpBlocks = 2
  LOGSIZE = 4
  NLOG = 4
SPECIFICATION Spec
INVARIANTS LogFits
SYMMETRY Symmetry
