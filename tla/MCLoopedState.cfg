SPECIFICATION Spec
CONSTANTS
    Symbol = {"a", "b"}
    LineFeed = "lf"
    WordSymbol = {"a"}
    Ordinal = {0, 1}
    PatternIds = {first}
    Expressions <- LoopedStates
    Companions = {}
    MaxCalls = 1
    Texts <- MCTexts
INVARIANTS
    EveryPatternAcceptsDenotation
CHECK_DEADLOCK FALSE
