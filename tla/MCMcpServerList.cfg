CONSTANTS
    Call = {c1, c2}
    Tools <- AllTools
    SessionId = {s1, s2}
    NoCall = NoCall
    Versions = 2
    Threads = 1

SPECIFICATION Spec
CHECK_DEADLOCK FALSE

INVARIANTS
    ListIsAnswered
