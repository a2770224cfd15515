SPECIFICATION FairSpec
CONSTANT Layouts <- MCLayouts
INVARIANTS
    ResultIsDetermined
    CallbacksComeLast
    NoThreadOutlivesTheCall
    WithinRequestedWorkers
PROPERTIES
    ImplementsDelivery
    Termination
CHECK_DEADLOCK FALSE
