SPECIFICATION Spec
CONSTANTS
    P = 7
    Slots = 2
    StrWidth = 2
    MaxNesting = 3
    MaxChar = 3
    ClientParams = "bfv-257-depth12"
    Databases <- OneDatabase
    Statements <- UnknownColumn
    ChunkSizes <- OneRow
    ParamSets <- SameParams
INVARIANTS
    AnalyzerThrowsSemanticError
