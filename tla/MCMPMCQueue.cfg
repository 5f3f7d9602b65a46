SPECIFICATION FairSpec
CONSTANTS
  Threads = {t1, t2}
  Data = {t1, t2}
  NoData = NoData
  Payload <- MCPayload
  capacity = 2
  stride = 1
  MaxTicket = 3
  MaxCapacity = 100
  Ops = {"blockingWrite", "blockingRead", "write", "read", "writeIfNotFull", "tryWriteUntil", "readIfNotEmpty", "tryReadUntil", "size"}
INVARIANTS
  IInv
  FailsOnlyIfUnable
  SizeIsExact
  BuiltWithBestStride
PROPERTIES
  ImplementsFifo
CHECK_DEADLOCK FALSE
