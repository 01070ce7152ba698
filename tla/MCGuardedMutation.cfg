SPECIFICATION FairSpec
CONSTANTS
    c1 = c1
    c2 = c2
    c3 = c3
    p1 = p1
    p2 = p2
    h1 = h1
    None = None
    Callers <- MCCallers
    Processes <- MCProcesses
    Hosts <- MCHosts
    ProcOf <- MCProcOf
    HostOf <- MCHostOf
    Mutations = {m1, m2}
    Faults = {"open", "fork", "waitpid", "crash"}
INVARIANTS
    TypeOK
    SupervisedExclusion
    InProcessCheckNeverFires
    DeadHoldersLetGo
    ConvictedNeverRunsAgain
PROPERTIES
    WaitersAreServed
