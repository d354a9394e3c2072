\* Shutdown racing a handshake.
CONSTANTS
    c1 = c1  c2 = c2  c3 = c3  s1 = s1
    NoConn = NoConn
    Stations = {s1}
    Accepts = {s1}
    Conns = {c1, c2}
    Serves <- OneStation
    Speaks = {c1, c2}
    Patience = {{}}
SPECIFICATION Spec
INVARIANT
    ShutdownLeavesNothing
CHECK_DEADLOCK FALSE
