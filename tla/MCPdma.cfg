CONSTANTS
  Channels = {1, 2}
  PingPong = {0, 1}
SPECIFICATION FairSpec
INVARIANTS TypeOK FreeMeansStartable BookkeepingAgrees InStepWithHardware
PROPERTY TransfersEnd
