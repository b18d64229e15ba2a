SPECIFICATION FairSpec
CONSTANTS
  Threads = {"a", "b", "c"}
  Boots <- ThreeThreads
  Null = Null
  Queues = 4
  Allotment = 2
  Boost = 11
INVARIANTS RunnerAgreed
PROPERTIES ExitedGone LinesUp EverybodyRuns
CHECK_DEADLOCK FALSE
