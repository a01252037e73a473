\* Two processes, calls of at most two blocks, room for four in the log.
CONSTANTS
  Ops = {o1, o2}
  NoOp = NoOp
  Blocks = {b1, b2, b3, b4}
  Values = {v0, v1}
  NoBlock = NoBlock
  NotCached = NotCached
  MAXOPBLOCKS = 2
  OpBlocks = 2
  LOGSIZE = 4
  NLOG = 5
SPECIFICATION Spec
INVARIANTS CommitsAlone LogFits SleeperHasWaker
PROPERTY IsAtomicStore
SYMMETRY Symmetry
