CONSTANTS
    Literals <- MCLiterals
    Tokens <- MCTokens
    Begins <- MCBegins
    V4 <- MCV4
    V6 <- MCV6
    Prefix4 <- MCPrefix4
    Prefix6 <- MCPrefix6
    Completions <- MCCompletions
    Declarations <- MCDeclarations
    Lines <- MCLines
    MaxDeclarations = 1
SPECIFICATION Spec
INVARIANT MatchIsDocumented
CHECK_DEADLOCK FALSE
