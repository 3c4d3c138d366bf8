SPECIFICATION FairSpec
CONSTANTS
    p1 = p1
    p2 = p2
    Providers <- MCProviders
    Requests = {r1}
    Routes <- SharedRoute
    ResponsesMode = {}
    Threshold = 2
    FailCap = 2
    Cooldown = 1
    BreakerSettings = {TRUE}
    FailoverSettings = {TRUE}
    RetryCount = 0
    Faults = {}
PROPERTY
    ProbeDecided
