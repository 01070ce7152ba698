SPECIFICATION Spec
CONSTANTS
    None = None
    d1 = d1
    d2 = d2
    m1 = m1
    m2 = m2
    m3 = m3
    Daemons <- MCDaemons
    Mutations <- MCMutations
    Forge <- MCForge
    Payload = 2
    Retries = 2
    Faults = {}
INVARIANT SurvivorsReachOrigin
CHECK_DEADLOCK FALSE
