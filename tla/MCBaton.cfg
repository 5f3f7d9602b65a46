SPECIFICATION FairSpec
CONSTANTS
  Posters = {p1, p2, p3}
  NoPoster = NoPoster
INVARIANTS
  IInv
PROPERTIES
  WaitEnds
  HandoffSpec
