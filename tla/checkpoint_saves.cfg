SPECIFICATION Spec
CONSTANTS
  save1 = save1
  save2 = save2
  Calls = {save1, save2}
  Earlier = {0, 8}
  MaxMore = 4
  MaxListed = 4
INVARIANTS
  LoadFindsSaved
  ListComplete
PROPERTY
  OwnCheckpointsStay
CHECK_DEADLOCK FALSE
