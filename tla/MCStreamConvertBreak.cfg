SPECIFICATION Spec
CONSTANTS
    Sources <- MCSources
    MaxEvents = 2
    SplitEvents = 2
    BreakWithin = TRUE
INVARIANT
    FailuresArrive
