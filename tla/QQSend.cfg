SPECIFICATION Spec
CONSTANTS
  Sessions = {s1,s2}
  Msgs = {m1,m2}
  Stamped = {m1}
  Sends = {q1,q2,q3}
  Contents = {c1,c2}
  ActiveMsgId = ActiveMsgId
  None = None
  ActiveMessages = TRUE
  RepliesPerMsg = 2
  MaxEntries = 1
SYMMETRY SendSymmetry
INVARIANTS SeqNeverReused ReportedWasSent PassiveCapKept
PROPERTIES RetryIsRecognised
CHECK_DEADLOCK FALSE
