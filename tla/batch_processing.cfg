SPECIFICATION Spec
CONSTANTS
  v1 = v1
  v2 = v2
  v3 = v3
  call1 = call1
  call2 = call2
  Votes = {v1, v2, v3}
  Calls = {call1, call2}
  MayFail = TRUE
  MaxLogged = 4
INVARIANTS
  CountedVotesAreLogged
  NoVoteLostOrRepeated
CHECK_DEADLOCK FALSE
