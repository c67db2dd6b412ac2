SPECIFICATION FairSpec
CONSTANTS
  Depth = 2
  Interp = 4
  ClearTicks = 6
  WriteAdj = 2
  MaxWords = 4
INVARIANT TypeOK
PROPERTIES StopMeansSent StopCompletes ClearCompletes
