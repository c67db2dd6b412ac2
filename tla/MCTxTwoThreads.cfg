CONSTANTS
  Procs = {p1, p2}
  Syncers = {p2}
  NoProc = NoProc
  NonBlock = {TRUE, FALSE}
  BufSize = 16
  FrameBytes = 8
  Threshold = 8
  FifoSize = 2
  AfVal = 1
  AutoTx = TRUE
  Counts = {4, 8}
  MaxWords = 5
  MaxRuns = 0
SPECIFICATION Spec
INVARIANTS NothingLostOrReordered NoLostWakeup EveryWordAccounted
CHECK_DEADLOCK FALSE
