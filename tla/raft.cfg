SPECIFICATION ScenarioSpec
CONSTANTS
  s1 = s1
  s2 = s2
  s3 = s3
  v = v
  Server = {s1, s2, s3}
  Value = {v}
  Nil = Nil
  SnapshotThreshold = 0
  MaxTerm = 4
  MaxIndex = 2
  MaxFlight = 3
  MaxReads = 1
  MaxTimeouts = 2
  MaxFaults = 1
  FewInFlight = 3
  MaxInFlight = 4
CONSTRAINT Bound
SYMMETRY Symmetry
VIEW View
CHECK_DEADLOCK FALSE
INVARIANTS
  TypeOK
  ElectionSafety
  LogMatching
  MatchIndexSound
  CommittedOnMajority
  LeaderCompleteness
  ReadIndexFresh
PROPERTIES
  StepsImplementReplicatedLog
