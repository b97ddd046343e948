CONSTANTS
    Byte = {0, 1, 2, 3, 4, 5}
    Zero = 0
    Wild = Wild
    AnyModule = AnyModule
    Chunk = 2
    SigLen = 5
    SigChunk = 2
    Instr <- MCInstr
    Disp <- MCDisp
    Modules <- MCModules
    Codes <- MCCodes
    Names <- MCNames
    Asked <- MCAsked
    MaxWrites = 0

SPECIFICATION Spec

INVARIANTS
    WildcardsFollowCode
