\* Two connections of one station, patient or not, and two commands, with a
\* calls channel that holds nothing beyond the CALL in the handler.
SPECIFICATION Spec
CONSTANTS
    s1 = s1
    NoConn = NoConn
    ConnectorOf <- MCConnectorOf
    Stations = {s1}
    Accepts = {s1}
    Station = s1
    Conns = {1, 2}
    Serves <- MCServes
    Speaks = {1, 2}
    Patience = {{}, {s1}}
    MaxCommands = 2
    Requests <- MCRequests
    Bodies <- MCBodies
    CallBuffer = 0
    MaxTraffic = 3
CHECK_DEADLOCK FALSE
INVARIANT
    AnswerIsOwn
PROPERTIES
    StatusNotReverted
    StatusOnlyWhileOnline
