SPECIFICATION FairSpec
CONSTANTS
    n1 = n1
    n2 = n2
    h1 = h1
    h2 = h2
    h3 = h3
    Nodes <- MCNodes
    Hashes <- MCHashes
    Catches <- MCCatches
    MaxLines = 3
    PerPeer = 1
    PerSession = 2
    MaxRestarts <- MCMaxRestarts
PROPERTY
    EventuallyConsistent
