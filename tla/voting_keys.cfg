SPECIFICATION KeySpec
CONSTANTS
  KeyBits = 10
  MinKeyBits = 10
  TestRounds = 12
  MaxAttempts = 4
  PrivateLength = 2
  TestPlaintext = 42
  Identities <- MCIdentities
  Draws <- MCDraws
  Messages = {300}
  MaxKeys = 2
  MaxCiphertexts = 3
  MaxInstances = 3
INVARIANTS
  PrimesComeFromFreshDraws
  DecryptsWhatWasEncrypted
  StoredKeysAreWhole
PROPERTY
  RevocationIsFinal
CHECK_DEADLOCK FALSE
