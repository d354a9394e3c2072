\* One station and three dials: a station that redials at any time, and one
\* that waits until its old connection has ended.
CONSTANTS
    c1 = c1  c2 = c2  c3 = c3  s1 = s1
    NoConn = NoConn
    Stations = {s1}
    Accepts = {s1}
    Conns = {c1, c2, c3}
    Serves <- OneStation
    Speaks = {c1, c2, c3}
    Patience = {{}, {s1}}
SPECIFICATION FairSpec
INVARIANTS
    SupersededIsClosed
    RegistryIsServed
    NoGhostStation
    PatientStationOnline
PROPERTIES
    ClosedEnds
    LossIsNoticed
    ShutdownReturns
CHECK_DEADLOCK FALSE
