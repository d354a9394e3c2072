\* The configured station on two connections, or on one beside a stranger; two
\* transactions, and restarts.
CONSTANTS
    ChargePoints = {"chg", "oth"}
    Charger = "chg"
    Connectors = {0, 1}
    EVSEs <- TwoStationUIDs
    ConfigEVSEs = {"e1"}
    ConfigConnector <- MCConfigConnector
    Synthetic <- MCSynthetic
    Reports = {"Available", "Faulted"}
    Conns = {"c1", "c2"}
    Dials <- MCDials
    MaxTxID = 2
SPECIFICATION Spec
INVARIANTS
    EffectiveIsDerived
    UsableOnlyIfReachable
    ChangesAddUp
    StaleOnlyAfterRace
PROPERTIES
    TransactionsAppendOnly
VIEW CoreView
CHECK_DEADLOCK FALSE
