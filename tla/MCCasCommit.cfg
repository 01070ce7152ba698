SPECIFICATION FairSpec
CONSTANTS
    r1 = r1
    r2 = r2
    NoFile = NoFile
    Runs <- MCRuns
    Max = 2
    Window = 1
    MaxAttempts = 2
    MaxTime = 4
    Faults = {"get", "refused", "lost", "cancel"}
INVARIANTS
    TypeOK
    WithinLimit
    NothingUncounted
PROPERTIES
    ImplementsLimit
    CallsEnd
