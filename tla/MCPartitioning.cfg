SPECIFICATION Spec
CONSTANTS
    Configurations <- MCConfigurations
INVARIANTS
    SlicesTileTheLists
    EveryPatternOnce
    BudgetIsDealtOut
    AllocationIsBalanced
CHECK_DEADLOCK FALSE
