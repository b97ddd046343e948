CONSTANTS
    Byte = {0, 1}
    Wild = Wild
    Chunk = 2
    Sizes <- MCSizes
    Patterns <- MCPatterns
    MaxWrites = 1

SPECIFICATION FairSpec
CHECK_DEADLOCK FALSE

INVARIANTS
    TypeOK
    Ascending
    NothingMissed
    NothingInvented
    ReadsBounded

PROPERTIES
    Terminates
