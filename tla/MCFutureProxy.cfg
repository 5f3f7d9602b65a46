SPECIFICATION FairSpec
CONSTANTS
  N = 3
  Executors = {x}
  Inner = Inner
  None = None
INVARIANTS
  MemorySafe
  RunsOnceAtChainEnd
PROPERTIES
  AllFreed
  CallbackRuns
CHECK_DEADLOCK FALSE
