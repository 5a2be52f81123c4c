SPECIFICATION Spec
CONSTANTS
  NumChoices = 3
  Modulus = 11
  m1 = m1
  m2 = m2
  m3 = m3
  alice = alice
  bob = bob
  Members = {m1, m2, m3}
  Ids = {alice, bob}
  IdOf <- MCIdOf
  Weights = {0, 5, 9}
  ReceiptsMayFail = FALSE
  DirectReceipts = FALSE
  MaxReceipts = 3
  MaxBallots = 2
INVARIANTS
  OneBallotPerId
  VotersAreCounted
  ReportsAgree
PROPERTIES
  ImplementsBallotBox
CHECK_DEADLOCK FALSE
