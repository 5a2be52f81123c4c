SPECIFICATION Spec
CONSTANTS
  NumChoices = 2
  Modulus = 5
  m1 = m1
  m2 = m2
  m3 = m3
  alice = alice
  bob = bob
  Members = {m1, m2, m3}
  Ids = {alice, bob}
  IdOf <- MCIdOf
  Weights = {0, 3}
  ReceiptsMayFail = TRUE
  DirectReceipts = FALSE
  MaxReceipts = 3
  MaxBallots = 2
INVARIANT
  OneBallotPerId
CHECK_DEADLOCK FALSE
