SPECIFICATION FairSpec
CONSTANTS
    c1 = c1
    c2 = c2
    p1 = p1
    p2 = p2
    h1 = h1
    m1 = m1
    m2 = m2
    u1 = u1
    None = None
    Callers <- MCCallers
    Processes <- MCProcesses
    Hosts <- MCHosts
    ProcOf <- MCProcOf
    HostOf <- MCHostOf
    Mutations <- MCMutations
    Tries <- MCTries
    Unsafe = {u1}
    MaxTicks = 1
    Prompt = TRUE
    Faults = {"exdev", "copy", "fork", "open", "crash"}
INVARIANTS
    TypeOK
    OneVerdict
    RunsWholeBinary
    BannedLeavesNoSource
PROPERTIES
    RunsAtMostOnce
    NeverRunsBanned
    CallsReturn
