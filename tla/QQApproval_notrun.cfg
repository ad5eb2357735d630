SPECIFICATION ApprovalSpec
CONSTANTS
  Approvals = {1, 2}
  NoApproval = NoApproval
  Keys <- OneCall
  Admins <- Ann
  Clicks = {1, 2}
  TTL = 1
  MaxTime = 2
  MaxPending = 2
  MaxTokens = 1
  Kept = 2
  Events = {1, 2}
  Deliveries = {1, 2, 3}
  Chats = {"g", "p"}
  DedupeSize = 1
  StateSize = 1
  MaxRestarts = 1
  PrivateIds = {"c2c:ann"}
  GroupIds = {"group:ann"}
  Codes = {1, 2, 3}
  BootstrapTTL = 1
  GroupTTL = 1
  Lockout = 1
  MaxFailures = 2
  AdminsTime = 2
  Groups = {"g"}
  Privates = {"p"}
  People = {"ann"}
  Unknown = "?"
  Turns = {1, 2}
  Resources = {"shell", "fs_write", "fs_read", "subagent", "fetch", "safe", "reply", "code"}
  Configs <- Settings
  MaxCalls = 1
  Window = 1
  MaxKeys = 1
  MaxWaiting = 2
  TurnsTime = 1
CHECK_DEADLOCK FALSE
INVARIANTS NotRunIsTrue
