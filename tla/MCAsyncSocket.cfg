SPECIFICATION FairSpec
CONSTANTS
  EventBases = {"e1", "e2"}
  Readers = {1}
  Ops = {"connect", "fastOpen", "cancelConnect", "write", "close", "closeNow",
         "setReadCB", "shutdownWrite", "setSendTimeout", "attachEventBase",
         "detachNetworkSocket", "destroy"}
  MaxCalls = 5
  MaxConnects = 2
  MaxWrites = 2
  WriteSize = 2
  MaxReads = 2
  MaxFaults = 1
  MaxDepth = 2
  Liberties = {}
INVARIANTS
  AssertionsHold
  CallbackExactlyOnce
  WireInOrder
  WaitsForWhatItNeeds
  NoUseAfterFree
PROPERTIES
  EverythingAnswered
CHECK_DEADLOCK FALSE
