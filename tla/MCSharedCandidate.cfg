SPECIFICATION Spec
CONSTANTS
    Ascii = {"a", "b", "c"}
    MinLiteral = 1
    HashIndex <- MCHashIndex
    Calls <- MCCalls
    MinPartitions = 2
    MinUnits = 5
    SampleLength = 4
    MaxShards = 3
    WordBits = 2
INVARIANTS
    PlanIsExact
    PrivateStartsKept
    PlanResultIsDetermined
    NoShardOutlivesThePlan
