SPECIFICATION FairSpec
CONSTANTS
    None = None
    d1 = d1
    d2 = d2
    m1 = m1
    m2 = m2
    m3 = m3
    Daemons <- MCDaemons
    Mutations <- MCMutations
    Forge <- MCForge
    Payload = 2
    Retries = 2
    Faults = {"lockfile", "vault", "throw", "git", "hive", "signal", "hangup", "crash"}
INVARIANTS
    TypeOK
    OnlySurvivorsPushed
    HiveOnlyPublished
PROPERTIES
    LedgersOnlyGrow
    PublishedStays
    EveryRunEnds
CHECK_DEADLOCK FALSE
