SPECIFICATION Spec
CONSTANTS
    Key = {k1, k2}
    Value = {v1}
    Tombstone = Tombstone
    Absent = Absent
    Torn = Torn
    NoTable = NoTable
    MaxBatch = 1
    MaxWrites = 0
    MaxRestores = 1
    MaxStops = 1
    MaxFailures = 0
PROPERTY
    CrashRecovers
CHECK_DEADLOCK FALSE
