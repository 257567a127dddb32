SPECIFICATION Spec
CONSTANTS
    h1 = h1
    h2 = h2
    c1 = c1
    c2 = c2
    Exports <- MCExports2
    Requests <- MixedBatches
    CIDs <- MCCIDs2
    FreshCID = FreshCID
    NoCID = NoCID
    Mode = "both"
    MaxIter = 1
SYMMETRY Symmetry
INVARIANTS
    TypeOK
    ColdDownload
    PanicsOnlyInShutdown
PROPERTIES
    NoMissedTrace
    BlockedExportSurvivesShutdown
