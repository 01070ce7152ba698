SPECIFICATION Spec
CONSTANTS
    t1 = t1
    t2 = t2
    t3 = t3
    p1 = p1
    p2 = p2
    h1 = h1
    h2 = h2
    NoFile = NoFile
    None = None
    Threads <- MCThreads
    Processes <- MCProcesses
    Does <- MCDoes
    ProcOf <- MCProcOf
    Hashes <- MCHashes
    MaxLines = 3
    Orderly = TRUE
    Faults = {"diskfull"}
INVARIANTS
    LogNeverPartial
