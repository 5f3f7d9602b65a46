SPECIFICATION FairSpec
CONSTANTS
  Nested = {d1}
  Root = root
  K = 2
  Executors = {pool, inline}
  InlineExecutors = {inline}
  None = None
INVARIANTS
  MemorySafe
  FunctionFate
PROPERTIES
  EverythingResolved
CHECK_DEADLOCK FALSE
