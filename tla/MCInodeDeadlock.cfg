CONSTANTS
  Procs = {p1, p2}
  Nobody = Nobody
  Names = {"a", "b", "d"}
  Calls <- FileCalls
  Tree <- SmallTree
  NINODE = 4
  NInodes = 4
  NBlocks = 1
SPECIFICATION Spec
INVARIANT NoDeadlock
SYMMETRY Symmetry
CHECK_DEADLOCK FALSE
