CONSTANTS
    Addr <- MCAddr
    Mapped <- MCMapped
    Byte <- MCByte
    Zero = 0
    Page = 2
    ScanRanges <- MCScanRanges
    SigRanges <- MCScanRanges
    IsProcess = TRUE
    Sized <- MCSized
    Unsized = {}
    TypeName <- MCTypeName
    Size <- MCSize
    Value = {"1", "x"}
    Parse <- MCParse
    Pattern = {"01"}
    Compiled <- MCCompiled
    Malformed = Malformed
    Wild = Wild
    NoType = NoType
    NoLen = NoLen
    Lens = {}
    AnyModule = AnyModule
    Module = {exe}
    GlobalsOf <- MCGlobalsOf
    AllMatches = AllMatches
    MaxMatches = 2
    Pid = {1, 2, 3}
    NameOf <- MCNameOf
    NoPid = NoPid
    NoProgram = NoProgram
    Nobody = Nobody
    View = View
    Args <- MCArgs

SPECIFICATION CliSpec

INVARIANTS
    NoWriterLeft

PROPERTIES
    Frozen
    PromptComesBack
    FirstScanIsWhole
    AttachedAsAsked
