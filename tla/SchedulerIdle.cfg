SPECIFICATION FairSpec
CONSTANTS
  Threads = {"idle", "shell"}
  Boots <- IdleAndShell
  Null = Null
  Queues = 10
  Allotment = 25
  Boost = 500
PROPERTY KernelJobsRun
CHECK_DEADLOCK FALSE
