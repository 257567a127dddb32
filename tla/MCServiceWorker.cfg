SPECIFICATION FairSpec
CONSTANTS
    p1 = p1
    MaxDocuments = 2
    MaxRouters = 2
    MaxFetches = 2
    Peers <- MCPeers
    TTFBs <- MCTTFBs
    Headers <- MCHeaders
    Gateways = 1
    MaxIter = 0
    MaxRequests = 3
    LateCalls <- MCLateCalls
INVARIANTS
    TypeOK
    TimingsMatchHeader
    RouterStatusPrecedence
    FastestFetchKept
    ProvidersCounted
    
PROPERTIES
    QuietResultIsFinal
    CycleSpec
    ProbeEnds
    CancelStops
