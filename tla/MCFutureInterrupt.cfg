SPECIFICATION Spec
CONSTANT N = 3
INVARIANTS
  HandlerAndObjectOwned
  HandledOnce
  ContinuationInherits
CHECK_DEADLOCK FALSE
