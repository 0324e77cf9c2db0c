SPECIFICATION Spec
CONSTANTS
    P = 257
    Slots = 2
    StrWidth = 16
    MaxNesting = 3
    MaxChar = 3
    ClientParams = "bfv-257-depth12"
    Databases <- OneDatabase
    Statements <- NameAndAge
    ChunkSizes <- OneRow
    ParamSets <- SameParams
INVARIANTS
    DepthAsDocumented
