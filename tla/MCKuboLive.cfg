SPECIFICATION FairSpec
CONSTANTS
    h1 = h1
    h2 = h2
    c1 = c1
    c2 = c2
    Exports <- MCExports
    Requests <- LookupBatches
    CIDs <- MCCIDs
    FreshCID = FreshCID
    NoCID = NoCID
    Mode = "both"
    MaxIter = 1
INVARIANTS
    RunsAsPlanned
    FoundOfSameCID
PROPERTIES
    ExportReturns
    CancelStops
    DownloadEnds
