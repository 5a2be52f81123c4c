SPECIFICATION FairSpec
CONSTANTS
  MaxDataSize = 3
  NumSources = 2
  Plans <- MCPlans
  XorPlans <- MCXorPlans
  Lengths = {0, 1, 4, 5}
  MaxWrite = 3
  Pieces = {2, 7}
  BlockSizes = {5, 6, 7, 8, 10}
  Mismatch = {0, 1}
INVARIANTS
  OutputIsPrefix
  ChecksumTellsWhole
PROPERTIES
  XorOfAll
  EventuallyWhole
CHECK_DEADLOCK FALSE
