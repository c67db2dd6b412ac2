CONSTANTS
  Procs = {p1}
  Syncers = {p1}
  NoProc = NoProc
  NonBlock = {TRUE, FALSE}
  BufSize = 16
  FrameBytes = 8
  Threshold = 8
  FifoSize = 2
  AfVal = 1
  AutoTx = TRUE
  Counts = {0, 4, 8}
  MaxWords = 7
  MaxRuns = 1
SPECIFICATION Spec
INVARIANTS TypeOK QueueIntact NothingLostOrReordered QueuedDataHasATransfer NoLostWakeup EveryWordAccounted
 
CHECK_DEADLOCK FALSE
