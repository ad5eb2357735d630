SPECIFICATION PartsSpec
CONSTANTS
  Ids = {s1}
  Conns = {k1}
  Values = {v1}
  Prompts = {}
  Options = {o1}
  News = {n1}
  Loads = {}
  Lists = {i1}
  Ends = {}
  Default = Default
  McpIds = {t1}
  McpNews = {}
  McpLoads = {}
  McpPrompts = {}
  McpEnds = {}
  None = None
INVARIANTS OptionsPersisted
