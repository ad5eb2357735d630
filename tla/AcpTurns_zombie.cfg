SPECIFICATION FairSpec
CONSTANTS
  Sessions = {s1}
  Prompts = {}
  Steers = {x1}
  WithSteerId = {}
  Ends = {}
  NoRun = NoRun
  NoSession = NoSession
  CancelBeforeFirstStep = TRUE
\* The steering request that waits for the lost turn is the violation.
CHECK_DEADLOCK FALSE
PROPERTIES SteersAnswered
