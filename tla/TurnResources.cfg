SPECIFICATION PartsSpec
CONSTANTS
  e1 = e1  e2 = e2  e3 = e3  a = a 
  Envs = {e1, e2, e3}
  KeyOf <- SharedKey
  Slots = {s1}
  Overlap = FALSE
  MaxCrashes = 1
  None = None
  Stale = Stale
  configured = configured  plugins = plugins  session = session
  tool1 = tool1  tool2 = tool2
  Turns = {t1, t2}
  Own = Own
  Order <- AllManagers
  SessionBound = {session}
  Servers = {tool1, tool2}
  Config <- AllServers
  OwnNames = {tool1}
  Hosted = TRUE
  CodeCalls = {1, 2, 3}
  MaxPools = 3
  MaxCalls = 3
  Commands = {"x", "y"}
  Rounds <- AskedRounds
  MaxTurns = 2
  MaxCancels = 2
  SubTasks = {1, 2, 3}
  Watchers = {"v", "w"}
  SubSessions = {"s"}
  MaxFinished = 1
  MaxOpens = 2
  MaxTokens = 8
  Reserve = 3
  Models = {"m", "n"}
  Toolsets = {"few", "all"}
  ToolTokens <- FewAndAll
  Sizes = {1, 4}
  MaxMessages = 5
SYMMETRY TurnSymmetry
INVARIANTS ContainersAreKept McpIsSound StreamsAreTrue ClientToolsAreSound SubagentsAreKnown HandoffIsTimely
CHECK_DEADLOCK FALSE
