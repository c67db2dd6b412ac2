CONSTANTS
  BufSize = 16
  FrameBytes = 8
  Counts <- MCCounts
  MaxWords = 9
SPECIFICATION Spec
INVARIANTS TypeOK Accounting SnapshotsValid
PROPERTY IsStream
CHECK_DEADLOCK FALSE
