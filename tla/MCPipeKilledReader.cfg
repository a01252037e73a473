\* Two processes share a pipe of one byte; a reader is killed just before it sleeps.
CONSTANTS
  Procs = {u1, u2}
  NoProc = NoProc
  Bytes = {0}
  NoByte = NoByte
  PIPESIZE = 1
  UintMod = 2
  Killable = {u2}
  MaxN = 2
SPECIFICATION FairSpec
\* A process that reads its own empty pipe, or has closed everything, stops.
CHECK_DEADLOCK FALSE
PROPERTY KilledLeaves
