SPECIFICATION PartsSpec
CONSTANTS
  Shards = {i1, i2, i3}
  MaxConcurrency = 2
  Window = 3
  MaxTime = 7
  GatewayShards = {s1}
  MaxRejections = 2
  Refusals = {"op9"}
  FatalCodes = TRUE
  TokenErrors = {"denied"}
  MaxSeq = 3
  MaxFaults = 3
  Requests = {1,2,3}
  MaxTokens = 2
  Attachments = {1, 2}
  Chats = {"g", "p"}
  FileName <- OwnName
  FileCalls = {1, 2}
  FileSize = 2
  Blocks <- OneOrTwo
  StateSize = 1
  MaxCrashes = 1
INVARIANTS EventsAreHandedOnce WindowIsKept TokensAreSpared FilesAreWhole
PROPERTIES ReceiverSettles
CHECK_DEADLOCK FALSE
