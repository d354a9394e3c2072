\* Two callers, three calls, answers late, twice and unasked for.
CONSTANTS
    Callers = {k1, k2}
    MaxCalls = 3
    MaxInbound = 0
    MaxAnswers = 3
    MaxNoise = 0
    SendBuffer = 1
    CallBuffer = 1
    WireBuffer = 1
SPECIFICATION Spec
INVARIANTS
    PendingIsExact
    AnswersMatch
CHECK_DEADLOCK FALSE
