CONSTANTS
  Server = {n0, n1, n2}
  Bootstrap = n0
  a = n1
  b = n2
  Value = {v}
  NoVote = NoVote
  Campaigner = {n1}
  SkipNoOps = TRUE
  MaxTerm = 2
  MaxIndex = 1
  MaxEvents <- LateWaiterEvents
  LateReplies = FALSE
  LateWakeups = TRUE
SPECIFICATION Spec
INVARIANTS
  AckedWritesSurvive
CHECK_DEADLOCK FALSE
