CONSTANTS
    Call = {c1, c2, c3}
    Tools <- AllTools
    SessionId = {s1, s2}
    NoCall = NoCall
    Versions = 2
    Threads = 2

SPECIFICATION Spec
SYMMETRY Symmetry
CHECK_DEADLOCK FALSE

INVARIANTS
    LocksConsistent

PROPERTIES
    Implements
