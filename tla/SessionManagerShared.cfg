SPECIFICATION FairSpec
CONSTANTS
    k1 = k1
    c1 = c1
    c2 = c2
    n1 = n1
    n2 = n2
    None = None
    NoKey = NoKey
    Keys <- OneKey
    Callers <- TwoCallers
    Nodes <- TwoNodes
    TTLs = {0, 1, 2}
    MaxTime = 2
    MaxRotation = 1
    MaxSessions = 2
INVARIANTS
    TypeOK
    ProxyMatchesSeed
    UniqueIds
PROPERTIES
    LiveSessionKept
    StickyForClients
    ExpiredSessionsLeave
