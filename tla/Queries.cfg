SPECIFICATION Spec
CONSTANTS
    P = 7
    Slots = 2
    StrWidth = 2
    MaxNesting = 3
    MaxChar = 3
    ClientParams = "bfv-257-depth12"
    Databases <- MCDatabases
    Statements <- MCStatements
    ChunkSizes <- BothSizes
    ParamSets <- TwoParamSets
INVARIANTS
    TypeOK
    AnswersAreSql
    OthersAreNarrowed
    AnsweredIsServed
    RefusedIsNotServed
    PackageIsOneTree
    BuildingInv
    MasksSelectRows
    RowsAreStored
    ComparatorOrders
