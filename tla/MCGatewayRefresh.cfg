SPECIFICATION Spec
CONSTANTS
    w1 = w1
    w2 = w2
    g1 = g1
    g2 = g2
    Workers <- MCWorkers
    Callers <- MCWorkers
    Gateways <- MCGateways
    GatewaysFromFlag = FALSE
    Provider = "sniffer"
    SnifferAnswers <- MCNoError
    SnifferCIDs <- MCOneCID
    ControlledShare = "none"
    MaxIter = 1
    MayCancel = TRUE
    StaticLen = 2
    ControlledLen = 2
SYMMETRY Symmetry
INVARIANTS
    GatewaysProbedInFull
PROPERTIES
    WorkersCycle
