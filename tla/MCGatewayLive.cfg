SPECIFICATION FairSpec
CONSTANTS
    w1 = w1
    w2 = w2
    g1 = g1
    g2 = g2
    Workers <- MCWorkers
    Callers <- MCWorkers
    Gateways <- MCOneGateway
    GatewaysFromFlag = FALSE
    Provider = "sniffer"
    SnifferAnswers <- MCNoCID
    SnifferCIDs <- MCOneCID
    ControlledShare = "none"
    MaxIter = 0
    MayCancel = TRUE
    StaticLen = 2
    ControlledLen = 2
PROPERTIES
    FailureStopsRun
