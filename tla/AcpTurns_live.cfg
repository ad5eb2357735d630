SPECIFICATION FairSpec
CONSTANTS
  Sessions = {s1,s2}
  Prompts = {p1}
  Steers = {x1}
  WithSteerId = {x1}
  Ends = {e1}
  NoRun = NoRun
  NoSession = NoSession
  CancelBeforeFirstStep = FALSE
PROPERTIES RequestsEnd
