SPECIFICATION FairSpec
CONSTANTS
    c1 = c1
    c2 = c2
    c3 = c3
    h1 = h1
    h2 = h2
    None = None
    Callers <- ThreeCallers
    Hosts <- TwoHosts
INVARIANTS
    TypeOK
    MapMade
    OneCertPerHost
PROPERTIES
    GetsEnd
