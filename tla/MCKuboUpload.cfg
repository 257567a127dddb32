SPECIFICATION Spec
CONSTANTS
    h1 = h1
    h2 = h2
    c1 = c1
    c2 = c2
    Exports <- MCExports
    Requests <- UploadBatches
    CIDs <- MCNoCIDs
    FreshCID = FreshCID
    NoCID = NoCID
    Mode = "upload"
    MaxIter = 2
INVARIANTS
    QuietOutsideMeasurements
    ProvideIsOwn
    SuccessIsComplete
    OneRowPerMeasurement
PROPERTIES
    RecvSpec
    CycleSpec
