SPECIFICATION FairSpec
CONSTANTS
  Threads = {t1, t2, t3}
  NoThread = NoThread
  Tokens = {k1}
  Sources = {s1, s2}
  Callbacks = {c1, c2}
  NoCallback = NoCallback
  kSource = 64
INVARIANTS
  DestructorWaits
  NotifiedOnce
  FreedWithLast
PROPERTIES
  DeadIsUntouched
  NeverLater
  EverythingReturns
CHECK_DEADLOCK FALSE
