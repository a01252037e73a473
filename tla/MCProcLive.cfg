\* Progress on one CPU: every lock is free whenever the CPU asks for it.
CONSTANTS
  CPUs = {c1}
  NoCpu = NoCpu
  TickCpu = c1
  NPROC = 3
  Calls = {"fork", "exit", "wait", "kill"}
  KillPids = {2}
  SleepTicks = 0
  TickMod = 1
  MaxPid = 3
SPECIFICATION FairSpec
PROPERTIES OrphanReaped RunnableRuns KilledExits
