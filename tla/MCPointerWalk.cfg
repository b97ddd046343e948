CONSTANTS
    Top = 3
    Maps <- MCMaps
    Entries <- MCEntries
    Reaches <- MCReaches
    Depths <- MCDepths

SPECIFICATION FairSpec
CHECK_DEADLOCK FALSE

INVARIANTS
    ChainsResolve
    WithinBounds
    AllChains

PROPERTIES
    WalkEnds
