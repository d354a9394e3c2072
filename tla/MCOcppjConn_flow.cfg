\* One caller, inbound CALLs and a malformed frame against channels that hold
\* one frame: order, capacity, and everything ends.
CONSTANTS
    Callers = {k1}
    MaxCalls = 1
    MaxInbound = 2
    MaxAnswers = 1
    MaxNoise = 1
    SendBuffer = 1
    CallBuffer = 1
    WireBuffer = 1
SPECIFICATION FairSpec
INVARIANTS
    HandledInOrder
PROPERTIES
    CallReturns
    CloseEndsRun
CHECK_DEADLOCK FALSE
