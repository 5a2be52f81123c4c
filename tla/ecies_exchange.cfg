SPECIFICATION Spec
CONSTANTS
  Id <- MCId
  MaxDataSize = 6
  MaxRecipients = 2
  ChunkSize = 2
  Members = {"ann", "bob"}
  Recipients <- MCRecipients
  Messages <- MCMessages
  Preambles <- MCPreambles
  Signers = {"nobody", "ann"}
  Contents <- MCContents
  IdSize = 1
  MaxSent = 2
  MaxChanges = 1
INVARIANTS
  OpenedWasSent
  WholeMessagesOpen
  FileComesBack
CHECK_DEADLOCK FALSE
