SPECIFICATION Spec
CONSTANTS
  Procs = {p1}
  Syncers = {p1}
  Clearers = {p1}
  NoProc = NoProc
  NonBlock = {TRUE, FALSE}
  SinkSize = 32
  FlowControl = TRUE
  Threshold = 8
  FrameBytes = 8
  FifoSize = 1
  Counts = {4}
  RunsModulus = 2
INVARIANTS NoBug
