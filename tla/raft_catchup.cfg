SPECIFICATION StableLeaderSpec
CONSTANTS
  Server = {s1, s2, s3}
  Value = {v}
  Nil = Nil
  SnapshotThreshold = 1
  MaxTerm = 3
  MaxIndex = 2
  MaxFlight = 3
  MaxReads = 0
  MaxTimeouts = 0
  MaxFaults = 1
  FewInFlight = 3
  MaxInFlight = 3
CHECK_DEADLOCK FALSE
PROPERTIES
  CatchUp
