\* fork, exit, wait, kill and sys_sleep on two CPUs, with ticks wrapping around.
CONSTANTS
  CPUs = {c1, c2}
  NoCpu = NoCpu
  TickCpu = c1
  NPROC = 3
  Calls = {"fork", "exit", "wait", "kill", "sleep"}
  KillPids = {2}
  SleepTicks = 1
  TickMod = 2
  MaxPid = 3
SPECIFICATION Spec
INVARIANTS OneCpuPerStack StackAndPageTableLive NoPanic WaiterHasReason ParentCanReap SleeperNotDue
