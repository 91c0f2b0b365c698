CONSTANTS
  Server = {n0, n1, n2}
  Bootstrap = n0
  a = n1
  b = n2
  Value = {v}
  NoVote = NoVote
  Campaigner = {n1}
  SkipNoOps = TRUE
  MaxTerm = 2
  MaxIndex = 2
  MaxEvents <- ReplicationEvents
  LateReplies = FALSE
  LateWakeups = FALSE
SPECIFICATION Spec
INVARIANTS
  CommitWithinLog
  MatchIndexIsHeld
  CommitIsCovered
  StateMachineSafety
  AckedWritesSurvive
PROPERTIES
  CommittedNeverRewritten
CHECK_DEADLOCK FALSE
