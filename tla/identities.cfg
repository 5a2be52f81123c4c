SPECIFICATION Spec
CONSTANTS
  Providers = {"ObjectId", "Buffer", "GUIDv4", "Broken"}
  IdLength <- MCIdLength
  Broken = {"Broken"}
  Reads <- MCReads
  DefaultProvider = "ObjectId"
  InvariantNames = {"custom"}
  MaxConfigurations = 1
  MaxServices = 1
  MaxInvariants = 1
  MaxMembers = 2
  MaxMnemonics = 2
  MaxMade = 1
  MaxStreams = 1
  MaxGuids = 2
  Given = {"nil", "v4"}
  Data = {"data"}
  MaxBuffers = 2
  PasswordSet = {"secret", "guess"}
  ProfileNames = {"login"}
  Pbkdf2Configs <- MCPbkdf2Configs
  DefaultConfig <- MCDefaultConfig
  AesServices <- MCAesServices
  MaxDerivations = 2
  MaxSealed = 2
INVARIANTS
  MembersCanReceive
  JsonComesBack
  KeysBelongToMember
  BuffersHold
  SealedComesBack
CHECK_DEADLOCK FALSE
