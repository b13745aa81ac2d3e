SPECIFICATION Spec
CONSTANTS
  Server = {s1}
  Value = {v, w}
  Nil = Nil
  SnapshotThreshold = 2
  MaxTerm = 3
  MaxIndex = 3
  MaxFlight = 1
  MaxReads = 2
  MaxTimeouts = 3
  MaxFaults = 2
  FewInFlight = 3
  MaxInFlight = 3
SYMMETRY Symmetry
VIEW View
CHECK_DEADLOCK FALSE
PROPERTIES
  ImplementsReplicatedLog
