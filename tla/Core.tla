-------------------------------- MODULE Core --------------------------------
(***************************************************************************)
(* The domain state of cpms (internal/core) as the OCPP 1.6 handler        *)
(* (internal/ocpp/v16) drives it.                                          *)
(*                                                                         *)
(* Every inbound CALL of a station is handled by the goroutine of the      *)
(* connection it came in on.  A handler takes Service.mu, changes the      *)
(* state of one charge point, collects the events the change produced,     *)
(* releases the mutex and only then hands the events to the bus, one by    *)
(* one.  An action below is one critical section; the events it produced   *)
(* wait in outbox[conn] until Publish takes them: first the event that     *)
(* names the message, if there is one, then the status changes recompute   *)
(* found.  Those concern different EVSEs; the code publishes them in the   *)
(* order of cp.order, the model in any order, and so cp.order is a set.    *)
(* Two connections of the same station may be served at once, the newer    *)
(* one superseding the older, so two outboxes may hold events of one       *)
(* charge point, and nothing says whose reach the bus first.               *)
(*                                                                         *)
(* Abstracted: timestamps, lastSeen, meter values, error codes and the     *)
(* texts of the BootNotification, which no decision of the code reads.     *)
(***************************************************************************)
EXTENDS Integers, FiniteSets

CONSTANTS
    ChargePoints,   \* the identities that can dial in
    Charger,        \* cfg.Charger.ID, the configured one
    Connectors,     \* the OCPP connector ids stations mention, 0 included
    EVSEs,          \* the EVSE uids that can come up
    ConfigEVSEs,    \* the uids of cfg.Location.EVSEs
    ConfigConnector,\* their ocpp_connector_id
    Synthetic,      \* the uid made up for a charge point's connector
    Reports,        \* the OCPP statuses stations report in this instance
    Conns,          \* the connections' goroutines
    Dials,          \* the charge points the connections may belong to
    MaxTxID         \* bound on the transaction ids handed out

ASSUME ConfigAssumption ==
    /\ Charger \in ChargePoints
    /\ Connectors \subseteq Int /\ 0 \in Connectors
    /\ ConfigEVSEs \subseteq EVSEs
    /\ ConfigConnector \in [ConfigEVSEs -> Connectors]
    /\ \A u \in ConfigEVSEs : ConfigConnector[u] >= 1
    /\ \A u, v \in ConfigEVSEs : ConfigConnector[u] = ConfigConnector[v] => u = v
    /\ Synthetic \in [ChargePoints -> [Connectors -> EVSEs]]

ASSUME InstanceAssumption ==
    /\ IsFiniteSet(Conns)
    /\ Dials \subseteq [Conns -> ChargePoints]
    /\ MaxTxID \in Nat

(***************************************************************************)
(* Statuses.  OCPI statuses are what cpms advertises; OCPP statuses are    *)
(* what a station sends; validate refuses any other text, so that the      *)
(* fallback of MapStatus is never reached.  None is Go's empty string.     *)
(***************************************************************************)
None == ""

EVSEStatuses ==
    {"AVAILABLE", "CHARGING", "RESERVED", "INOPERATIVE", "OUTOFORDER", "UNKNOWN"}

OCPPStatuses ==
    {"Available", "Preparing", "Finishing", "Charging", "SuspendedEV",
     "SuspendedEVSE", "Reserved", "Unavailable", "Faulted"}

statusMap ==
    [s \in OCPPStatuses |->
        IF s \in {"Available", "Preparing", "Finishing"} THEN "AVAILABLE"
        ELSE IF s \in {"Charging", "SuspendedEV", "SuspendedEVSE"} THEN "CHARGING"
        ELSE IF s = "Reserved" THEN "RESERVED"
        ELSE IF s = "Unavailable" THEN "INOPERATIVE"
        ELSE "OUTOFORDER"]

ASSUME ReportsAssumption == Reports \subseteq OCPPStatuses

StationDown == {"OUTOFORDER", "INOPERATIVE"}

\* Mutant of effectiveStatus: what was last seen survives the connection.
effectiveStatusSticky(online, station, connector) ==
    IF station \in StationDown THEN station
    ELSE IF connector = None THEN "UNKNOWN"
    ELSE connector

effectiveStatus(online, station, connector) ==
    IF ~online THEN "UNKNOWN"
    ELSE IF station \in StationDown THEN station
    ELSE IF connector = None THEN "UNKNOWN"
    ELSE connector

-----------------------------------------------------------------------------
(***************************************************************************)
(* The state of one charge point.                                          *)
(***************************************************************************)
TxIDs == 1 .. MaxTxID
NoTx  == [evse |-> None, connector |-> 0, active |-> FALSE]
Tx    == [evse : EVSEs, connector : Connectors, active : BOOLEAN]

ChargePointStates ==
    [online       : BOOLEAN,
     station      : EVSEStatuses,
     order        : SUBSET EVSEs,
     connectorIDs : [EVSEs -> Connectors],
     reported     : [EVSEs -> EVSEStatuses \cup {None}],
     effective    : [EVSEs -> EVSEStatuses \cup {None}],
     transactions : [TxIDs -> Tx \cup {NoTx}]]

newChargePoint ==
    [online       |-> FALSE,
     station      |-> "AVAILABLE",
     order        |-> {},
     connectorIDs |-> [u \in EVSEs |-> 0],
     reported     |-> [u \in EVSEs |-> None],
     effective    |-> [u \in EVSEs |-> None],
     transactions |-> [i \in TxIDs |-> NoTx]]

addEVSE(cp, uid, connector) ==
    IF cp.effective[uid] # None
      THEN cp
      ELSE [cp EXCEPT !.order = @ \cup {uid},
                      !.connectorIDs = [@ EXCEPT ![uid] = connector],
                      !.effective = [@ EXCEPT ![uid] = "UNKNOWN"]]

recompute(cp) ==
    [cp EXCEPT !.effective =
        [u \in EVSEs |->
            IF u \in cp.order
              THEN effectiveStatus(cp.online, cp.station, cp.reported[u])
              ELSE cp.effective[u]]]

\* The configured charge point, its EVSEs added by New.
configuredChargePoint ==
    [newChargePoint EXCEPT
        !.order = ConfigEVSEs,
        !.connectorIDs = [u \in EVSEs |->
            IF u \in ConfigEVSEs THEN ConfigConnector[u] ELSE 0],
        !.effective = [u \in EVSEs |->
            IF u \in ConfigEVSEs THEN "UNKNOWN" ELSE None]]

\* cfg.EVSEByConnectorID, or the synthetic uid.
evseUID(id, connector) ==
    IF id = Charger /\ \E u \in ConfigEVSEs : ConfigConnector[u] = connector
      THEN CHOOSE u \in ConfigEVSEs : ConfigConnector[u] = connector
      ELSE Synthetic[id][connector]

Event(kind, id, uid, from, to) ==
    [kind |-> kind, cp |-> id, uid |-> uid, from |-> from, to |-> to]

NoEvent == Event(None, None, None, None, None)

EmptyOutbox == [first |-> NoEvent, changes |-> {}]

-----------------------------------------------------------------------------
VARIABLES
    cps,        \* Service.cps; an identity not in known has the zero state
    known,      \* the keys of Service.cps
    nextTxID,   \* Service.nextTxID
    outbox,     \* per connection: events collected but not yet published
    serves,     \* the charge point each connection belongs to
    seen,       \* what a subscriber has been told: last To per EVSE
    told,       \* history: per EVSE and status, how often a subscriber was
                \* told that it was entered, less how often that it was left
    raced       \* history: the EVSEs whose last change was made while another
                \* connection had yet to publish one

history == <<told, raced>>
vars    == <<cps, known, nextTxID, outbox, serves, seen, history>>

Untold == [id \in ChargePoints |-> [u \in EVSEs |-> [s \in EVSEStatuses |-> 0]]]

Init ==
    /\ cps = [id \in ChargePoints |->
                IF id = Charger THEN configuredChargePoint ELSE newChargePoint]
    /\ known = {Charger}
    /\ nextTxID = 1
    /\ outbox = [c \in Conns |-> EmptyOutbox]
    /\ serves \in Dials
    /\ seen = [id \in ChargePoints |-> [u \in EVSEs |-> "UNKNOWN"]]
    /\ told = Untold
    /\ raced = [id \in ChargePoints |-> {}]

\* Mutant of statusEvents: From is what the connector reported, not what was
\* advertised.
statusEventsFromReported(id, before, after) ==
    {Event("evse_status_changed", id, u, before.reported[u], after.effective[u]) :
        u \in {v \in after.order : before.effective[v] # after.effective[v]}}

\* The events of a recompute: one per EVSE whose effective status moved.
statusEvents(id, before, after) ==
    {Event("evse_status_changed", id, u, before.effective[u], after.effective[u]) :
        u \in {v \in after.order : before.effective[v] # after.effective[v]}}

\* The goroutine of connection c may take up its next CALL.
Idle(c) == outbox[c] = EmptyOutbox

\* Connection c has yet to publish a change of EVSE u of charge point id.
Pending(c, id, u) == \E e \in outbox[c].changes : e.cp = id /\ e.uid = u

\* The EVSEs of id whose last change, once changes are made by c, met an
\* unpublished one.
RacedBy(c, id, changes) ==
    LET moved == {e.uid : e \in changes}
    IN  (raced[id] \ moved)
          \cup {u \in moved : \E d \in Conns \ {c} : Pending(d, id, u)}

\* One critical section: id's state becomes cp, events are left to publish.
Commit(c, id, cp, first, changes) ==
    /\ cps' = [cps EXCEPT ![id] = cp]
    /\ known' = known \cup {id}
    /\ outbox' = [outbox EXCEPT ![c] = [first |-> first, changes |-> changes]]
    /\ raced' = [raced EXCEPT ![id] = RacedBy(c, id, changes)]
    /\ UNCHANGED <<serves, seen, told>>

-----------------------------------------------------------------------------
(***************************************************************************)
(* Connection up and down, called by csms.serveConn.                       *)
(***************************************************************************)
Connected(c) ==
    LET id == serves[c]
        on == [cps[id] EXCEPT !.online = TRUE]
        cp == recompute(on)
    IN  /\ Idle(c)
        /\ Commit(c, id, cp,
                  Event("charge_point_connected", id, None, None, None),
                  statusEvents(id, on, cp))
        /\ UNCHANGED nextTxID

Disconnected(c) ==
    LET id  == serves[c]
        off == [cps[id] EXCEPT !.online = FALSE]
        cp  == recompute(off)
    IN  /\ Idle(c)
        /\ cps[id].online
        /\ Commit(c, id, cp,
                  Event("charge_point_disconnected", id, None, None, None),
                  statusEvents(id, off, cp))
        /\ UNCHANGED nextTxID

\* A station that is already offline: only ensure has an effect.
DisconnectedAgain(c) ==
    /\ Idle(c)
    /\ ~cps[serves[c]].online
    /\ Commit(c, serves[c], cps[serves[c]], NoEvent, {})
    /\ UNCHANGED nextTxID

-----------------------------------------------------------------------------
(***************************************************************************)
(* Inbound CALLs.                                                          *)
(***************************************************************************)
\* BootNotification and Heartbeat: no state but timestamps, one event.
Alive(c, kind) ==
    /\ Idle(c)
    /\ Commit(c, serves[c], cps[serves[c]],
              Event(kind, serves[c], None, None, None), {})
    /\ UNCHANGED nextTxID

\* Authorize, DataTransfer, FirmwareStatusNotification,
\* DiagnosticsStatusNotification and the refused StartTransaction.
Seen(c) ==
    /\ Idle(c)
    /\ Commit(c, serves[c], cps[serves[c]], NoEvent, {})
    /\ UNCHANGED nextTxID

\* Mutant of SetStationStatus: the EVSEs are not recomputed.
SetStationStatusOnly(c, ocppStatus) ==
    LET id   == serves[c]
        to   == statusMap[ocppStatus]
        from == cps[id].station
    IN  /\ Idle(c)
        /\ Commit(c, id, [cps[id] EXCEPT !.station = to],
                  IF from # to
                    THEN Event("station_status_changed", id, None, from, to)
                    ELSE NoEvent, {})
        /\ UNCHANGED nextTxID

\* StatusNotification for connector 0: the station as a whole.
SetStationStatus(c, ocppStatus) ==
    LET id   == serves[c]
        to   == statusMap[ocppStatus]
        from == cps[id].station
        set  == [cps[id] EXCEPT !.station = to]
        cp   == recompute(set)
    IN  /\ Idle(c)
        /\ Commit(c, id, cp,
                  IF from # to
                    THEN Event("station_status_changed", id, None, from, to)
                    ELSE NoEvent,
                  statusEvents(id, set, cp))
        /\ UNCHANGED nextTxID

\* Mutant of SetConnectorStatus: the event announces the reported status even
\* where the station's status overrides it.
SetConnectorStatusAnnounced(c, connector, ocppStatus) ==
    LET id    == serves[c]
        uid   == evseUID(id, connector)
        added == addEVSE(cps[id], uid, connector)
        set   == [added EXCEPT !.reported = [@ EXCEPT ![uid] = statusMap[ocppStatus]]]
    IN  /\ Idle(c)
        /\ connector >= 1
        /\ Commit(c, id, recompute(set),
                  NoEvent,
                  {Event("evse_status_changed", id, uid, set.effective[uid],
                         statusMap[ocppStatus])})
        /\ UNCHANGED nextTxID

\* StatusNotification for one connector.
SetConnectorStatus(c, connector, ocppStatus) ==
    LET id    == serves[c]
        uid   == evseUID(id, connector)
        added == addEVSE(cps[id], uid, connector)
        set   == [added EXCEPT !.reported = [@ EXCEPT ![uid] = statusMap[ocppStatus]]]
        cp    == recompute(set)
    IN  /\ Idle(c)
        /\ connector >= 1
        /\ Commit(c, id, cp, NoEvent, statusEvents(id, set, cp))
        /\ UNCHANGED nextTxID

\* StartTransaction with the accepted tag.
StartTransaction(c, connector) ==
    LET id    == serves[c]
        uid   == evseUID(id, connector)
        added == addEVSE(cps[id], uid, connector)
        tx    == [evse |-> uid, connector |-> connector, active |-> TRUE]
    IN  /\ Idle(c)
        /\ connector >= 1
        /\ nextTxID \in TxIDs
        /\ nextTxID' = nextTxID + 1
        /\ Commit(c, id, [added EXCEPT !.transactions = [@ EXCEPT ![nextTxID] = tx]],
                  Event("transaction_started", id, uid, None, None), {})

\* Mutant of StopTransaction: the transaction is forgotten.
StopTransactionForgets(c, txID) ==
    LET id == serves[c]
        tx == cps[id].transactions[txID]
    IN  /\ Idle(c)
        /\ tx # NoTx
        /\ tx.active
        /\ Commit(c, id, [cps[id] EXCEPT !.transactions = [@ EXCEPT ![txID] = NoTx]],
                  Event("transaction_stopped", id, tx.evse, None, None), {})
        /\ UNCHANGED nextTxID

\* StopTransaction of a running transaction of this station.
StopTransaction(c, txID) ==
    LET id == serves[c]
        tx == cps[id].transactions[txID]
        stopped == [tx EXCEPT !.active = FALSE]
    IN  /\ Idle(c)
        /\ tx # NoTx
        /\ tx.active
        /\ Commit(c, id, [cps[id] EXCEPT !.transactions = [@ EXCEPT ![txID] = stopped]],
                  Event("transaction_stopped", id, tx.evse, None, None), {})
        /\ UNCHANGED nextTxID

\* StopTransaction of any other id: accepted, and only ensure has an effect.
StopUnknown(c, txID) ==
    LET id == serves[c]
    IN  /\ Idle(c)
        /\ ~cps[id].transactions[txID].active
        /\ Commit(c, id, cps[id], NoEvent, {})
        /\ UNCHANGED nextTxID

\* MeterValues: the request is not validated, so connector may be 0.
RecordMeterValues(c, connector) ==
    LET id  == serves[c]
        uid == evseUID(id, connector)
    IN  /\ Idle(c)
        /\ Commit(c, id, addEVSE(cps[id], uid, connector),
                  Event("meter_values", id, uid, None, None), {})
        /\ UNCHANGED nextTxID

-----------------------------------------------------------------------------
\* publishAll, after the unlock: the event that names the message goes first.
PublishFirst(c) ==
    /\ outbox[c].first # NoEvent
    /\ outbox' = [outbox EXCEPT ![c].first = NoEvent]
    /\ UNCHANGED <<cps, known, nextTxID, serves, seen, history>>

Is(status, s) == IF status = s THEN 1 ELSE 0

\* publishAll: a status change reaches the bus.
PublishChange(c, e) ==
    /\ outbox[c].first = NoEvent
    /\ outbox' = [outbox EXCEPT ![c].changes = @ \ {e}]
    /\ seen' = [seen EXCEPT ![e.cp][e.uid] = e.to]
    /\ told' = [told EXCEPT ![e.cp][e.uid] =
                  [s \in EVSEStatuses |-> @[s] + Is(e.to, s) - Is(e.from, s)]]
    /\ UNCHANGED <<cps, known, nextTxID, serves, raced>>

\* The process ends and is started again: run() builds a new Service, and
\* nothing of the old one was saved.
Restart ==
    /\ cps' = [id \in ChargePoints |->
                IF id = Charger THEN configuredChargePoint ELSE newChargePoint]
    /\ known' = {Charger}
    /\ nextTxID' = 1
    /\ outbox' = [c \in Conns |-> EmptyOutbox]
    /\ seen' = [id \in ChargePoints |-> [u \in EVSEs |-> "UNKNOWN"]]
    /\ told' = Untold
    /\ raced' = [id \in ChargePoints |-> {}]
    /\ UNCHANGED serves

HandleCall(c) ==
    \/ \E kind \in {"boot_notified", "heartbeat"} : Alive(c, kind)
    \/ Seen(c)
    \/ \E s \in Reports : SetStationStatus(c, s)
    \/ \E n \in Connectors, s \in Reports : SetConnectorStatus(c, n, s)
    \/ \E n \in Connectors : StartTransaction(c, n)
    \/ \E i \in TxIDs : StopTransaction(c, i)
    \/ \E i \in TxIDs : StopUnknown(c, i)
    \/ \E n \in Connectors : RecordMeterValues(c, n)

Next ==
    \/ \E c \in Conns :
          \/ Connected(c)
          \/ Disconnected(c)
          \/ DisconnectedAgain(c)
          \/ HandleCall(c)
          \/ PublishFirst(c)
          \/ \E e \in outbox[c].changes : PublishChange(c, e)
    \/ Restart

Spec == Init /\ [][Next]_vars
-----------------------------------------------------------------------------
(***************************************************************************)
(* Properties.                                                             *)
(***************************************************************************)
Events ==
    [kind : {"charge_point_connected", "charge_point_disconnected",
             "boot_notified", "heartbeat", "station_status_changed",
             "transaction_started", "transaction_stopped", "meter_values"},
     cp : ChargePoints, uid : EVSEs \cup {None},
     from : EVSEStatuses \cup {None}, to : EVSEStatuses \cup {None}]

StatusChanges ==
    [kind : {"evse_status_changed"}, cp : ChargePoints, uid : EVSEs,
     from : EVSEStatuses, to : EVSEStatuses]

\* Type invariant: the shape of Service, of the events in flight and of what a
\* subscriber knows.
TypeOK ==
    /\ cps \in [ChargePoints -> ChargePointStates]
    /\ known \subseteq ChargePoints
    /\ nextTxID \in 1 .. MaxTxID + 1
    /\ outbox \in [Conns -> [first : Events \cup {NoEvent},
                            changes : SUBSET StatusChanges]]
    /\ serves \in [Conns -> ChargePoints]
    /\ seen \in [ChargePoints -> [EVSEs -> EVSEStatuses]]
    /\ told \in [ChargePoints -> [EVSEs -> [EVSEStatuses -> Int]]]
    /\ raced \in [ChargePoints -> SUBSET EVSEs]

ConfiguredUIDs(id) ==
    IF id = Charger THEN ConfigEVSEs ELSE {}

Derived(cp, u) == effectiveStatus(cp.online, cp.station, cp.reported[u])

RegistryOK(id, cp) ==
    /\ cp.order = {u \in EVSEs : cp.effective[u] # None}
    /\ {u \in EVSEs : cp.reported[u] # None} \subseteq cp.order
    /\ ConfiguredUIDs(id) \subseteq cp.order

DerivedOK(id, cp) ==
    \A u \in cp.order :
        \/ cp.effective[u] = Derived(cp, u)
        \/ /\ cp.effective[u] = "UNKNOWN"
           /\ cp.reported[u] = None
           /\ u \notin ConfiguredUIDs(id)

\* The EVSEs recompute visits (order) are exactly those addEVSE takes to be
\* known (effective), the reported ones are among them and the configured ones
\* never leave.  Were an EVSE in effective but not in order, no later recompute
\* would ever touch it.
OrderIsRegistry == \A id \in ChargePoints : RegistryOK(id, cps[id])

\* The cached effective status never goes stale: for every configured EVSE and
\* every EVSE the station has reported on, it is what effectiveStatus yields
\* for the current connection, station and connector status, whatever order
\* connects, disconnects and reports came in.  An EVSE known only from a meter
\* reading or a transaction may also still read UNKNOWN.
EffectiveIsDerived == \A id \in ChargePoints : DerivedOK(id, cps[id])

\* The purpose status.go gives effectiveStatus: a connector is advertised as
\* AVAILABLE, CHARGING or RESERVED only while the station is connected, is not
\* reporting itself down, and has said so about that very connector.
UsableOnlyIfReachable ==
    \A id \in ChargePoints, u \in EVSEs :
        cps[id].effective[u] \in {"AVAILABLE", "CHARGING", "RESERVED"} =>
            /\ cps[id].online
            /\ cps[id].station \notin StationDown
            /\ cps[id].reported[u] = cps[id].effective[u]

\* While the process lives, a transaction id names one transaction: ids of two
\* stations never meet, and the next id to hand out is unused everywhere, so
\* StartTransaction overwrites nothing and a station cannot stop a
\* transaction of another one.
TransactionIDsUnique ==
    \A id \in ChargePoints, i \in TxIDs :
        cps[id].transactions[i] # NoTx =>
            /\ i < nextTxID
            /\ \A other \in ChargePoints \ {id} : cps[other].transactions[i] = NoTx

\* A recorded transaction keeps its EVSE and connector, and once stopped stays
\* stopped, until the process restarts: a repeated or late StopTransaction or
\* a retried StartTransaction never rewrites one.
TransactionsAppendOnly ==
    [][~Restart =>
        \A id \in ChargePoints, i \in TxIDs :
            LET old == cps[id].transactions[i]
                new == cps'[id].transactions[i]
            IN  old # NoTx => \/ new = old
                              \/ old.active /\ new = [old EXCEPT !.active = FALSE]]_vars

\* The status a subscriber that missed nothing takes EVSE u of cp to have.
Shown(cp, u) == IF u \in cp.order THEN cp.effective[u] ELSE "UNKNOWN"

\* The connections that have yet to publish that EVSE u entered status s, and
\* those that have yet to publish that it left it.
Entering(id, u, s) ==
    {c \in Conns : \E e \in outbox[c].changes : e.cp = id /\ e.uid = u /\ e.to = s}

Leaving(id, u, s) ==
    {c \in Conns : \E e \in outbox[c].changes : e.cp = id /\ e.uid = u /\ e.from = s}

\* No change is lost, doubled or invented between the critical section that
\* makes it and the bus, whichever connections publish at the same time and in
\* whatever order: for every EVSE, the changes handed out and those yet to be
\* handed out lead, taken together, from UNKNOWN to what Snapshot shows.
ChangesAddUp ==
    \A id \in ChargePoints, u \in EVSEs, s \in EVSEStatuses :
        told[id][u][s] + Cardinality(Entering(id, u, s)) - Cardinality(Leaving(id, u, s))
            = Is(Shown(cps[id], u), s) - Is("UNKNOWN", s)

\* Events are published after the unlock, so that two connections of one
\* station can publish in the order opposite to the one their changes were made
\* in, and a subscriber that goes by the last event ends with an old status.
\* That takes two changes of one EVSE that are unpublished at the same time,
\* and the next change repairs it: wherever the last change met none, the
\* subscriber that has been given every event knows what Snapshot shows.
StaleOnlyAfterRace ==
    \A id \in ChargePoints : \A u \in cps[id].order \ raced[id] :
        (\A c \in Conns : ~Pending(c, id, u)) => seen[id][u] = cps[id].effective[u]

\* Why it holds: a connection's unpublished changes are about its own station,
\* one per EVSE.  If the last change of an EVSE met no other, it is the only
\* one pending and leads to what is advertised, or it has been published and
\* the subscriber shows it.
ViewInv ==
    /\ \A c \in Conns : \A e \in outbox[c].changes :
          /\ e.cp = serves[c]
          /\ \A f \in outbox[c].changes : f.uid = e.uid => f = e
    /\ \A id \in ChargePoints, u \in EVSEs : u \notin raced[id] =>
          \/ /\ \A c \in Conns : ~Pending(c, id, u)
             /\ seen[id][u] = Shown(cps[id], u)
          \/ \E c \in Conns :
                /\ \A d \in Conns \ {c} : ~Pending(d, id, u)
                /\ \E e \in outbox[c].changes :
                      e.cp = id /\ e.uid = u /\ e.to = Shown(cps[id], u)

\* The inductive invariant the proofs of all of the above rest on.
IInv ==
    /\ TypeOK
    /\ OrderIsRegistry
    /\ EffectiveIsDerived
    /\ TransactionIDsUnique
    /\ ViewInv
    /\ ChangesAddUp
=============================================================================
