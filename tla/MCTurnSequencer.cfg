SPECIFICATION FairSpec
CONSTANTS
  Threads = {t1, t2, t3}
  Modulus = 12
  kWaitersMask = 2
  Channels = 2
  firstTurn = 10
  MaxTurn = 13
INVARIANTS
  OneAtATime
  SleepersRecorded
PROPERTIES
  ImplementsTurns
CHECK_DEADLOCK FALSE
