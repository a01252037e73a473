CONSTANTS
  NPROC = 2
  NAPS = 2
  NLow = 9
  NHigh = 5
  PGSIZE = 2
  PTPAGES = 2
  MaxPages = 3
  StackPages = 1
  ShrinkSizes = {0, 3}
SPECIFICATION Spec
INVARIANTS OneOwner SizeIsMapped Cr3Live
CHECK_DEADLOCK FALSE
