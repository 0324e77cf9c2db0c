SPECIFICATION Spec
CONSTANTS
    StrWidth = 2
    MaxLines = 4
    Lines <- MCLines
INVARIANTS
    TypeOK
    StatementsAsTyped
    ParserFollowsGrammar
    PrintedParsesBack
