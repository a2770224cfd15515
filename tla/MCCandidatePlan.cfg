SPECIFICATION PlanSpec
CONSTANTS
    Symbol = {"a", "b", "u"}
    LineFeed = "lf"
    WordSymbol = {"a", "b"}
    Ordinal = {0, 1}
    Ascii = {"a", "b"}
    MinLiteral = 1
    HashIndex <- MCHashIndex
    PatternSets <- MCPatternSets
    Texts <- MCTexts
    DatabaseOf <- Compile
    HasAssertions <- UsesAssertions
    HintOf <- MCHintOf
    MinPatternCount = 2
    MinInput = 2
    DensitySample = 3
INVARIANTS
    NoMatchSkipped
    HintsAreNecessary
CHECK_DEADLOCK FALSE
