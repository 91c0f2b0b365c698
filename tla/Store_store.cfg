CONSTANTS
  Key = {1, 2}
  WriteSets = {{1, 2}}
  Session = {s}
  NoSession = NoSession
  Kinds = {TRUE, FALSE}
  MaxIndex = 3
  MaxCommits = 4
  MaxSeq = 1
  MaxCrashes = 2
  MaxFaults = 1
SPECIFICATION Spec
INVARIANTS
  KeptUntilError
  AckedIsReadable
  CommitsAreAtomic
  NothingIsSkipped
  ExactUnlessCutOff
  OnceUnlessCutOff
  ReplaysUnlessCutOff
PROPERTIES
  ImplementsAppliedLog
CHECK_DEADLOCK FALSE
