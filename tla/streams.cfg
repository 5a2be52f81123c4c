SPECIFICATION FairSpec
CONSTANTS
  Lengths = {0, 1, 4, 5, 7}
  Pieces = {0, 1, 3}
  ChunkSize = 2
  MaxPiece = 3
  MayAbort = TRUE
  MaxFaults = 2
INVARIANTS
  GivenIsPrefix
  LastMeansWhole
PROPERTIES
  AbortStops
  EventuallyWhole
  ImplementsDelivery
CHECK_DEADLOCK FALSE
