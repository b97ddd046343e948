CONSTANTS
    Addr <- MCAddr
    Mapped <- MCMapped
    Byte <- MCByte
    Zero = 0
    Page = 2
    ScanRanges <- MCScanRanges
    SigRanges <- MCSigRanges
    IsProcess = TRUE
    Sized <- MCSized
    Unsized = {}
    TypeName <- MCSized
    Size <- MCSize
    Value = {"1"}
    Parse <- MCParse
    Pattern = {"01"}
    Compiled <- MCCompiled
    Malformed = Malformed
    Wild = Wild
    NoType = NoType
    NoLen = NoLen
    Lens = {}
    AnyModule = AnyModule
    Module <- MCModule
    GlobalsOf <- MCGlobalsOf
    AllMatches = AllMatches
    MaxMatches = 2

SPECIFICATION HSpec
VIEW Unanswered

INVARIANTS
    CleanMapIsExact
    GlobalsNeverMixed
