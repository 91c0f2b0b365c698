CONSTANTS
  Server = {n0, n1, n2}
  Bootstrap = n0
  a = n1
  b = n2
  Value = {v}
  NoVote = NoVote
  Campaigner = {n1, n2}
  SkipNoOps = TRUE
  MaxTerm = 3
  MaxIndex = 0
  MaxEvents <- ElectionEvents
  LateReplies = FALSE
  LateWakeups = FALSE
SYMMETRY Followers
SPECIFICATION Spec
INVARIANTS
  TypeOK
  ElectionSafety
  VotesSurviveRestart
  CountedVotesAreDistinct
  ElectionInv
CHECK_DEADLOCK FALSE
