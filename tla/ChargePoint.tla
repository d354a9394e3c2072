---------------------------- MODULE ChargePoint ----------------------------
(***************************************************************************)
(* The OCPP 1.6 command adapter (internal/ocpp/v16: chargepoint.go,        *)
(* commands.go, status.go; internal/ocpp: chargepoint.go): what a method   *)
(* of ocpp.ChargePoint puts on the wire, and what it makes of the answer.  *)
(*                                                                         *)
(* A request is a method and its target: an EVSE uid, or an id.  The body  *)
(* of an answer is a set of words: one status, or the profiles a station   *)
(* lists.  Tokens and expiry dates are passed through and left out.        *)
(***************************************************************************)
EXTENDS Integers

CONSTANT ConnectorOf    \* config: the connector of every configured EVSE uid

ASSUME ConnectorOfAssumption ==
    /\ ConnectorOf \in [DOMAIN ConnectorOf -> Nat \ {0}]
    /\ \A u, v \in DOMAIN ConnectorOf : ConnectorOf[u] = ConnectorOf[v] => u = v

ActionOf ==
    [ReserveNow        |-> "ReserveNow",
     CancelReservation |-> "CancelReservation",
     RemoteStart       |-> "RemoteStartTransaction",
     RemoteStop        |-> "RemoteStopTransaction",
     UnlockConnector   |-> "UnlockConnector",
     TriggerStatus     |-> "TriggerMessage",
     Capabilities      |-> "GetConfiguration"]

\* The methods that name an EVSE.
ForEVSE == {"ReserveNow", "RemoteStart", "UnlockConnector", "TriggerStatus"}

\* The statuses each action's .conf defines; each keeps its name.
commandStatusMap ==
    [ReserveNow             |-> {"Accepted", "Faulted", "Occupied", "Rejected", "Unavailable"},
     CancelReservation      |-> {"Accepted", "Rejected"},
     RemoteStartTransaction |-> {"Accepted", "Rejected"},
     RemoteStopTransaction  |-> {"Accepted", "Rejected"},
     UnlockConnector        |-> {"Unlocked", "UnlockFailed", "NotSupported"},
     TriggerMessage         |-> {"Accepted", "Rejected", "NotImplemented"}]

MapCommandStatus(action, status) ==
    IF status \in commandStatusMap[action] THEN status ELSE "Unknown"

-----------------------------------------------------------------------------
\* Why a method fails before anything is sent: an EVSE that is not configured,
\* a transaction id that is no integer.  "none" if it does not.
Refusal(request) ==
    IF request.method \in ForEVSE /\ request.target \notin DOMAIN ConnectorOf
      THEN "ErrUnknownEVSE"
    ELSE IF request.method = "RemoteStop" /\ request.target = "not an integer"
      THEN "not an integer"
      ELSE "none"

\* connectorID; an id stands in for itself.
Address(request) ==
    IF request.method \in ForEVSE THEN ConnectorOf[request.target] ELSE 0

Failed(err) == [err |-> err, says |-> {}]

\* Capabilities: of the profiles listed, the ones it knows; a station that does
\* not have the key lists none.
Advertised(profiles) == profiles \cap {"Reservation", "RemoteTrigger"}

\* What command, or Capabilities, returns for an answer; one that is a
\* CALLERROR, or whose payload does not decode, is an error.
Interpret(request, body) ==
    IF body.kind # "CALLRESULT" THEN Failed(body.kind)
    ELSE IF request.method = "Capabilities"
      THEN [err |-> "none", says |-> Advertised(body.words)]
      ELSE [err |-> "none",
            says |-> {MapCommandStatus(ActionOf[request.method], w) : w \in body.words}]
=============================================================================
