SPECIFICATION Spec
CONSTANTS
    p1 = p1
    p2 = p2
    Providers <- MCProviders
    Requests = {r1, r2}
    Routes <- MCRoutes
    ResponsesMode = {}
    Threshold = 1
    FailCap = 1
    Cooldown = 1
    BreakerSettings = {TRUE, FALSE}
    FailoverSettings = {FALSE}
    RetryCount = 0
    Faults = {"disconnect", "convert_error", "converter_error", "stats_error", "log_error", "restart"}
SYMMETRY Alike
INVARIANTS
    OneVerdictPerAttempt
    LoggedOnce
PROPERTIES
    ImplementsBreaker
