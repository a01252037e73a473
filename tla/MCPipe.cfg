\* Two processes, both of which may be killed, share a pipe of two bytes whose counters wrap at four.
CONSTANTS
  Procs = {u1, u2}
  NoProc = NoProc
  Bytes = {0, 1}
  NoByte = NoByte
  PIPESIZE = 2
  UintMod = 4
  Killable = {u1, u2}
  MaxN = 3
SPECIFICATION Spec
\* A process that reads its own empty pipe, or has closed everything, stops.
CHECK_DEADLOCK FALSE
INVARIANTS NoUseAfterFree NoLostWakeup
PROPERTY IsByteStream
