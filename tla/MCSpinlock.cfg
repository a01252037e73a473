\* Two CPUs, two locks, the outer one taken by handlers too, and interrupts up to two deep.
CONSTANTS
  CPUs = {c1, c2}
  NoCpu = NoCpu
  NLocks = 2
  IrqLocks = {1}
  MaxLevel = 2
SPECIFICATION FairSpec
INVARIANTS TypeOK MutualExclusion NoPanic InterruptedHoldsNothing FlagRestored
PROPERTY InnermostReleased
