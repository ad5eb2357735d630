SPECIFICATION PartsSpec
CONSTANTS
  Writers = {1,2,3}
  Readers = {r1}
  Resets = {c1}
  Names = {x}
  Plain = Plain
  HasEval = TRUE
  Failing = {1}
  FWriters = {1,2,3}
  SCalls = {1,2,3}
  STapes = {t1,t2}
  SNames = {x}
  NoCall = 0
  SLimit = 1
  SMaxCrashes = 1
  AAppends = {1,2}
  AResets = {3,4}
  ASearches = {5}
  AProcesses = {p1,p2}
  ADialects = {"sqlite","server"}
  OCallers = {1,2,3}
  OResets = {4}
  OKinds = {"message","call","result","run","step","last"}
  DOrder <- TwoTapes
  DKinds = {"anchor","other"}
  DFilters <- AllOrNoAnchors
  DMaxEntries = 3
  DMaxExports = 2
INVARIANTS IdsArePlaces AnswersAreSlices FallbackIsExact SqlStoresAreSound ExportsAreTrue
PROPERTIES StoresAreLogs
CHECK_DEADLOCK FALSE
