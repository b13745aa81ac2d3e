SPECIFICATION Spec
CONSTANTS
    s1 = s1
    Server <- MCServer
    Nil = Nil
    MaxTerm = 2
    MaxIndex = 2
    MaxSteps = 4
    MaxCrashes = 1
    MaxErrors = 1
    RenameIsDurable = TRUE
INVARIANTS
    RecoveredIsLog
    NothingUnsavedMeansSaved
    SentIsRecoverable
CHECK_DEADLOCK FALSE
