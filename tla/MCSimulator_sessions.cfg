\* Two connectors: sessions on both, commands that name the second one.
CONSTANTS
    N = 2
    Scenario = "normal"
    Jobs = {j1, j2}
    Starter = j1
    ReservationIDs = {1}
    Targets = {2}
    Availabilities = {"Unavailable"}
    LocalStatuses = {"Faulted"}
    MaxTx = 2
SPECIFICATION Spec
INVARIANTS
    HeldIsRunning
    NoOrphan
    SessionConsumesReservation
VIEW SessionsView
CHECK_DEADLOCK FALSE
