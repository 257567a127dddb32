SPECIFICATION Spec
CONSTANTS
    h1 = h1
    h2 = h2
    c1 = c1
    c2 = c2
    Exports <- MCExports
    Requests <- DownloadBatches
    CIDs <- MCCIDs
    FreshCID = FreshCID
    NoCID = NoCID
    Mode = "download"
    MaxIter = 1
INVARIANTS
    FoundIsOwn
