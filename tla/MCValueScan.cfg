CONSTANTS
    Addr <- MCAddr
    Mapped <- MCMapped
    Byte <- MCByte
    Zero = 0
    Page = 2
    ScanRanges <- MCScanRanges
    SigRanges <- MCScanRanges
    Worker = {w1, w2}
    Idle = Idle
    Data <- MCData
    Batch = 2
    Start <- MCStart
    MaxCalls = 2
    MaxWrites = 1

SPECIFICATION FairSpec
CHECK_DEADLOCK FALSE

PROPERTIES
    QuietScanIsAtomic
    NothingMissed
    NothingInvented
    OrderKept
    CallEnds
