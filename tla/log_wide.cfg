SPECIFICATION Spec
CONSTANTS
  precinct1 = precinct1
  precinct2 = precinct2
  log0 = log0
  log1 = log1
  log2 = log2
  Jurisdictions = {precinct1}
  BufferIds = {precinct1}
  Paths = {log1, log0}
  SharedPath = log0
  PathOfId <- MCPathOfId
  Votes <- WideVotes
  ChunkSizes = {4, 20}
  MaxAppends = 2
  MaxCrashes = 0
  MaxOpens = 2
INVARIANT
  RecoveredVotesAreTheOnesAppended
CHECK_DEADLOCK FALSE
