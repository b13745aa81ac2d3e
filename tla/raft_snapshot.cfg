SPECIFICATION CompactedSpec
CONSTANTS
  Server = {s1, s2, s3}
  Value = {v}
  Nil = Nil
  SnapshotThreshold = 2
  MaxTerm = 2
  MaxIndex = 3
  MaxFlight = 3
  MaxReads = 0
  MaxTimeouts = 1
  MaxFaults = 2
  FewInFlight = 3
  MaxInFlight = 3
SYMMETRY Symmetry
VIEW View
CONSTRAINT Bound
CHECK_DEADLOCK FALSE
INVARIANTS
  VotesDurable
  SnapshotsCommitted
