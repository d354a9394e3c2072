------------------------------- MODULE MCCore -------------------------------
(***************************************************************************)
(* Instances of Core for TLC.  The charger is configured with the EVSE e1  *)
(* on connector 1; every other connector gets a synthetic uid.             *)
(***************************************************************************)
EXTENDS Core, Sequences

MCConfigConnector == [u \in {"e1"} |-> 1]

\* fmt.Sprintf("%s-%d", cpID, connectorID) for the ids of the instances.
MCSynthetic ==
    [id \in ChargePoints |-> [n \in Connectors |->
        IF id = "chg" THEN (<<"chg-0", "chg-1">>)[n + 1]
                      ELSE (<<"oth-0", "oth-1">>)[n + 1]]]

TwoStationUIDs == {"e1", "chg-0", "chg-1", "oth-0", "oth-1"}

\* Two connections of the configured station, or one of each station.
MCDials ==
    {[c \in Conns |-> "chg"], [c \in Conns |-> IF c = "c1" THEN "chg" ELSE "oth"]}

\* What the properties and the later steps depend on.  No action reads which
\* event goes out first, only whether one is left; none reads known.
CoreView ==
    <<cps, nextTxID, serves, seen, told, raced,
      [c \in Conns |-> <<outbox[c].first = NoEvent, outbox[c].changes>>]>>
=============================================================================
