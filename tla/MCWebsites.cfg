SPECIFICATION FairSpec
CONSTANTS
    site1 = site1
    site2 = site2
    p1 = p1
    Websites <- MCWebsites
    Peers <- MCPeers
    MaxProbes = 2
    MaxSites = 2
    SiteLists <- MCSiteLists
    MaxRounds = 2
    MaxRepeats = 2
    LookupProviders = TRUE
INVARIANTS
    TypeOK
    EveryResultIsRecorded
    
    SendsAreReceived
    WarmHasAReason
PROPERTIES
    CancelStops
