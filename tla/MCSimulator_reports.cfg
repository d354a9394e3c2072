\* One connector: what the CSMS is told of it, and the end of all goroutines.
CONSTANTS
    N = 1
    Scenario = "normal"
    Jobs = {j1, j2}
    Starter = j1
    ReservationIDs = {1}
    Targets = {1}
    Availabilities = {}
    LocalStatuses = {}
    MaxTx = 1
SPECIFICATION FairSpec
INVARIANTS
    ToldIsCurrent
PROPERTIES
    WaitReturns
CHECK_DEADLOCK FALSE
