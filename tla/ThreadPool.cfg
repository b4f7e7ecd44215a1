SPECIFICATION FairSpec
CONSTANTS
  Workers = {w1, w2, w3}
  NoWorker = NoWorker
  MaxTasks = 4
  QueueSize = 1
  MaxSpurious = 1
INVARIANTS TypeOK EachTaskOnce NothingDropped
PROPERTIES TasksStart StopEnds
