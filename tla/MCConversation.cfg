SPECIFICATION Spec
CONSTANTS
    MaxTurns = 6
    MaxCalls = 2
INVARIANTS
    TypeOK
    AnswersArrive
    Faithful
    Alternates
    CallsAnswered
    EndTold
CHECK_DEADLOCK FALSE
