SPECIFICATION Spec
CONSTANTS
  t1 = t1
  t2 = t2
  t3 = t3
  t4 = t4
  Threads = {t1, t2, t3, t4}
  NumSlots = 2
  Programs <- MCPrograms
  Contexts = {"timed"}
  Liberties = {}
SYMMETRY Symmetry
INVARIANTS
  Exclusion
  SleepersAreBlocked
  DestroyedIsUntouched
CHECK_DEADLOCK FALSE
