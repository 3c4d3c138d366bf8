SPECIFICATION Spec
CONSTANTS
    MaxTurns = 6
    MaxCalls = 1
INVARIANT ThinkingKept
CHECK_DEADLOCK FALSE
