SPECIFICATION PartsSpec
CONSTANTS
  Ids = {s1}
  Conns = {k1}
  Values = {v1}
  Prompts = {p1,p2}
  Options = {o1}
  News = {n1}
  Loads = {l1}
  Lists = {i1}
  Ends = {e1,e2}
  Default = Default
  McpIds = {t1,t2}
  McpNews = {m1}
  McpLoads = {m2,m3}
  McpPrompts = {q1}
  McpEnds = {f1}
  None = None
SYMMETRY RequestSymmetry
INVARIANTS ReloadLosesNothing EndsHold TitledOnce ChannelsAccountedFor
