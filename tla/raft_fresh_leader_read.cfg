SPECIFICATION SettledSpec
CONSTANTS
  Server = {s1, s2, s3}
  Value = {v}
  Nil = Nil
  SnapshotThreshold = 0
  MaxTerm = 2
  MaxIndex = 1
  MaxFlight = 3
  MaxReads = 1
  MaxTimeouts = 1
  MaxFaults = 0
  FewInFlight = 4
  MaxInFlight = 4
SYMMETRY Symmetry
VIEW View
CONSTRAINT Bound
CHECK_DEADLOCK FALSE
INVARIANTS
  ReadIndexCurrent
