SPECIFICATION Spec
CONSTANTS
    c1 = c1
    c2 = c2
    None = None
    PortTokens <- Ports
    Configs <- SomeConfigs
    Lists <- SomeLists
    RawUsernames <- SomeUsernames
    Encodings = {"std", "url", "percent"}
    Callers <- TwoCallers
    SOCKS5Callers <- OneSOCKS5Caller
    Hash <- SeedHash
    Minute = 1
    Width = 3
    MaxItems = 3
    MaxTime = 1
    MaxRotation = 1
    MaxSessions = 2
INVARIANTS
    TypeOK
    NamedSetServed
    ListedFetchable
    AskedDuration
    SeedDecidesCountry
PROPERTIES
    LoadedAsWritten
