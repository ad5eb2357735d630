SPECIFICATION Spec
CONSTANTS
  Sessions = {s1}
  Prompts = {p1}
  Steers = {x1,x2}
  WithSteerId = {x2}
  Ends = {e1}
  NoRun = NoRun
  NoSession = NoSession
  CancelBeforeFirstStep = TRUE
SYMMETRY RequestSymmetry
CHECK_DEADLOCK FALSE
INVARIANTS TeardownIsQuiet SteeringExactlyOnce CancelIsAnswered SteeringKeepsArrivalOrder
PROPERTIES ImplementsSteeringDelivery
