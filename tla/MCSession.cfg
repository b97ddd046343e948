CONSTANTS
    Addr <- MCAddr
    Mapped <- MCAddr
    Byte <- MCByte
    Zero = 0
    Page = 2
    ScanRanges <- MCScanRanges
    SigRanges <- MCSigRanges
    IsProcess = FALSE
    Sized <- MCSized
    Unsized <- MCUnsized
    TypeName <- MCTypeName
    Size <- MCSize
    Value <- MCValue
    Parse <- MCParse
    Pattern <- MCPattern
    Compiled <- MCCompiled
    Malformed = Malformed
    Wild = Wild
    NoType = NoType
    NoLen = NoLen
    Lens <- MCLens
    AnyModule = AnyModule
    Module = {}
    GlobalsOf <- MCGlobalsOf
    AllMatches = AllMatches
    MaxMatches = 3

SPECIFICATION HSpec
VIEW Unanswered

INVARIANTS
    TypeOK
    BufferFitsType
    NoMatchLost
    EveryMatchExplained
    NoAddressTwice

PROPERTIES
    FailureChangesNothing
    WriteReachesMatches
