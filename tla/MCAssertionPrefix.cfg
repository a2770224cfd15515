SPECIFICATION PrefixSpec
CONSTANTS
    Symbol = {"a", "b", "u"}
    LineFeed = "lf"
    WordSymbol = {"a", "b"}
    Ordinal = {0, 1, 2}
    PatternSets <- MCPatternSets
    Texts <- MCTexts
    HasAssertions <- UsesAssertions
    CompileOf <- CompilePattern
    PrefixSymbol = {"a", "b"}
    PrefixLength = 2
    MinPatternCount = 2
    MinInput = 3
    SampleLength = 4
INVARIANTS
    EventsAreTheOrdinaryOnes
    RefusedBeforeScanning
CHECK_DEADLOCK FALSE
