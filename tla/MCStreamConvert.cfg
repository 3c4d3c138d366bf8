SPECIFICATION Spec
CONSTANTS
    Sources <- MCSources
    MaxEvents = 5
    SplitEvents = 2
    BreakWithin = FALSE
INVARIANTS
    TypeOK
    Delivered
    Lifecycle
    EndsOnce
    OutcomeRight
