SPECIFICATION ScenarioSpec
CONSTANTS
    Key = {k1, k2}
    Value = {v1}
    Tombstone = Tombstone
    Absent = Absent
    Torn = Torn
    NoTable = NoTable
    MaxBatch = 1
    MaxWrites = 2
    MaxRestores = 1
    MaxStops = 2
    MaxFailures = 1
INVARIANTS
    Durable
    OnlyRefusedAdded
    LoggedExactly
    NumbersFresh
    ReadsLatest
    SnapshotExact
PROPERTIES
    CallsReturn
CHECK_DEADLOCK FALSE
