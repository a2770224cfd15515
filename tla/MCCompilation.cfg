SPECIFICATION Spec
CONSTANTS
    Symbol = {"a", "b"}
    LineFeed = "lf"
    WordSymbol = {"a"}
    Ordinal = {0, 1}
    PatternIds = {first, second}
    Expressions <- TwoLevels
    Companions <- CoreLevel
    MaxCalls = 2
    Texts <- MCTexts
SYMMETRY IdSymmetry
INVARIANTS
    CompiledAcceptsDenotation
    FactsAreSound
    PatternsAreDisjoint
    NormalizationKeepsMeaning
CHECK_DEADLOCK FALSE
