SPECIFICATION Spec
CONSTANTS
    w1 = w1
    w2 = w2
    g1 = g1
    g2 = g2
    Workers <- MCWorkers
    Callers <- MCWorkers
    Gateways <- MCOneGateway
    GatewaysFromFlag = TRUE
    Provider = "static"
    SnifferAnswers <- MCAnswers
    SnifferCIDs <- MCOneCID
    ControlledShare = "some"
    MaxIter = 2
    MayCancel = FALSE
    StaticLen = 2
    ControlledLen = 2
SYMMETRY SymmetricWorkers
INVARIANTS
    TypeOK
    OneCIDPerIteration
    RunProbedInFull
    StaticIndexSettles
    ControlledIsEven
