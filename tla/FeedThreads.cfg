SPECIFICATION FairSpec
CONSTANTS
  Limit = 3
  QueueSize = 1
  MaxStrategies = 3
  MaxPackets = 2
INVARIANTS TypeOK SignalsKept CrashNeedsUnstored
PROPERTIES StopEnds SignalsServed
