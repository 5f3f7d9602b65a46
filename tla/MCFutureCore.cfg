SPECIFICATION FairSpec
CONSTANTS
  pool = pool
  inline = inline
  deferredPool = deferredPool
  deferredInline = deferredInline
  Executors <- MCExecutors
  InlineExecutors = {inline}
  Deferred <- MCDeferred
  Given <- MCGiven
  None = None
INVARIANTS
  IInv
  FreedExactlyWhenUnreferenced
  CallbackExactlyOnce
PROPERTIES
  CallbackIsReset
CHECK_DEADLOCK FALSE
