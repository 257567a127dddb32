SPECIFICATION Spec
CONSTANTS
    w1 = w1
    w2 = w2
    g1 = g1
    g2 = g2
    Workers <- MCWorkers
    Callers <- MCWorkers
    Gateways <- MCOneGateway
    GatewaysFromFlag = TRUE
    Provider = "static"
    SnifferAnswers <- MCAnswers
    SnifferCIDs <- MCOneCID
    ControlledShare = "some"
    MaxIter = 2
    MayCancel = TRUE
    StaticLen = 2
    ControlledLen = 2
INVARIANTS
    StaticReturnsACID
