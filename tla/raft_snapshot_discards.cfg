SPECIFICATION ElectedSpec
CONSTANTS
  Server = {s1, s2, s3}
  Value = {v}
  Nil = Nil
  SnapshotThreshold = 1
  MaxTerm = 2
  MaxIndex = 2
  MaxFlight = 2
  MaxReads = 0
  MaxTimeouts = 0
  MaxFaults = 0
  FewInFlight = 6
  MaxInFlight = 6
SYMMETRY Symmetry
VIEW View
CONSTRAINT Bound
CHECK_DEADLOCK FALSE
INVARIANTS
  CommittedOnMajority
