SPECIFICATION Spec
CONSTANTS
    Nobody = Nobody
    r1 = r1
    r2 = r2
    r3 = r3
    Runs <- MCRuns
    Faults = {"artifact", "job", "lost"}
    MaxClock = 1
    MaxFaults = 2
    MaxReruns = 2
SYMMETRY MCSymmetry
INVARIANTS
    TypeOK
    PrsAreCounted
    OnlySurvivorsProposed
    PrShowsItsRun
    SomeoneGetsThrough
CHECK_DEADLOCK FALSE
