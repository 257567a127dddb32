SPECIFICATION FairSpec
CONSTANTS
    h1 = h1
    h2 = h2
    c1 = c1
    c2 = c2
    Exports <- MCExports
    Requests <- OneUpload
    CIDs <- MCNoCIDs
    FreshCID = FreshCID
    NoCID = NoCID
    Mode = "upload"
    MaxIter = 1
PROPERTIES
    FailedAddContinues
