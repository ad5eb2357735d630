SPECIFICATION PartsSpec
CONSTANTS
  Chats = {c1}
  Groups = {g1}
  DMs = {d1}
  Messages = {1,2,3}
  Sends = {r1, r2}
  DMessages = {1,2,3}
  DSends = {1}
  Limit = 2
  MaxLength = 4
  Senders = {u1}
  Media = {"sticker"}
  WMessages = {1,2,3}
  Once = {o1}
  Repeated = {p1}
  MaxCrashes = 1
  HRuns = {1,2}
  HKeys = {"k","l"}
  HSessions = {"s"}
  MaxSaid = 2
  ARuns = {1,2,3}
  ASessions = {"s","t"}
  Skills = {k1, k2}
  Intervals = {0,1}
  DefaultInterval = 2
  SlowDown = 2
  Lifetimes = {5}
  MaxLogins = 2
  MaxTime = 6
SYMMETRY Symmetry
INVARIANTS RepliesFindTheirMessages JobsAreKept RunsAreTheirOwn
PROPERTIES MessagesArriveInOrder
CHECK_DEADLOCK FALSE
