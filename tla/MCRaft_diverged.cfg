CONSTANTS
  Server = {n0, n1, n2}
  Bootstrap = n0
  a = n1
  b = n2
  Value = {v}
  NoVote = NoVote
  Campaigner = {n0, n1}
  SkipNoOps = TRUE
  MaxTerm = 5
  MaxIndex = 2
  MaxEvents <- TransferEvents
  LateReplies = FALSE
  LateWakeups = FALSE
SPECIFICATION DivergedSpec
INVARIANTS
  LogMatching
  LeaderCompleteness
  TransferTargetHoldsLog
CHECK_DEADLOCK FALSE
