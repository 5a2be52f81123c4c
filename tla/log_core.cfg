SPECIFICATION FairSpec
CONSTANTS
  precinct1 = precinct1
  precinct2 = precinct2
  log0 = log0
  log1 = log1
  log2 = log2
  Jurisdictions = {precinct1}
  BufferIds = {precinct1}
  Paths = {log1, log0}
  SharedPath = log0
  PathOfId <- MCPathOfId
  Votes <- NarrowVotes
  ChunkSizes = {4, 20}
  MaxAppends = 3
  MaxCrashes = 1
  MaxOpens = 2
INVARIANTS
  ReplayFaithful
  ReplayComplete
PROPERTIES
  ReadableVotesStay
  CloseReturns
  ReplayEnds
  ImplementsJournal
CHECK_DEADLOCK FALSE
