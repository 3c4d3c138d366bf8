SPECIFICATION FairService
CONSTANTS
    p1 = p1
    p2 = p2
    Providers <- MCProviders
    Requests = {r1}
    Routes <- MCRoutes
    ResponsesMode <- MCResponsesMode
    Threshold = 1
    FailCap = 1
    Cooldown = 1
    BreakerSettings = {TRUE}
    FailoverSettings = {TRUE, FALSE}
    RetryCount = 1
    Faults = {"restart", "log_error"}
    Interval = 2
    Retains = {1, 2}
    RowCap = 4
INVARIANTS
    ServiceTypeOK
    OneVerdictPerAttempt
    ContentIsFinal
    LoopsInRange
    GivesUpOnlyWhenExhausted
PROPERTIES
    EveryRequestEnds
    ProbeDecided
    KeepsContract
    StaysTrimmed
    
