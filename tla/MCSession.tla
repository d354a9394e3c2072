----------------------------- MODULE MCSession -----------------------------
(***************************************************************************)
(* Two EVSEs, of which commands name the second one and one that is not    *)
(* configured, and a station whose answers may not fit the action.         *)
(***************************************************************************)
EXTENDS Session, TLC

CONSTANT s1

MCConnectorOf == [u1 |-> 1, u2 |-> 2]
MCServes == [c \in Conns |-> s1]

Body(kind, words) == [kind |-> kind, words |-> words]

Request(method, target) == [method |-> method, target |-> target]

MCRequests ==
    <<{Request("ReserveNow", "u2")},
      {Request("Capabilities", "none"), Request("UnlockConnector", "u9")}>>

MCBodies ==
    [ReserveNow       |-> {Body("CALLRESULT", {"Accepted"}), Body("CALLRESULT", {"Unlocked"})},
     GetConfiguration |-> {Body("CALLRESULT", {"Core", "Reservation"}), Body("undecodable", {}),
                          Body("CALLERROR", {})}]
    @@ [a \in {ActionOf[m] : m \in DOMAIN ActionOf} |-> {}]
=============================================================================
