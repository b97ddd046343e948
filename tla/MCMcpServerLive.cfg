CONSTANTS
    Call = {c1, c2, c3}
    Tools <- SomeTools
    SessionId = {s1}
    NoCall = NoCall
    Versions = 2
    Threads = 2

SPECIFICATION FairSpec
CHECK_DEADLOCK FALSE

PROPERTIES
    EveryCallEnds
