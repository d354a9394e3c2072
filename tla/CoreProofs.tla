----------------------------- MODULE CoreProofs -----------------------------
(***************************************************************************)
(* Proofs about Core, for any configuration, any set of stations, any      *)
(* finite set of connections, which station each belongs to, and any bound *)
(* on transaction ids.                                                     *)
(***************************************************************************)
EXTENDS Core, FiniteSetTheorems, TLAPS

\* A state of charge point id that satisfies every per-station invariant.
Good(id, cp) ==
    /\ cp \in ChargePointStates
    /\ RegistryOK(id, cp)
    /\ DerivedOK(id, cp)

-----------------------------------------------------------------------------
(***************************************************************************)
(* Lemmas about the operators on charge point states.                      *)
(***************************************************************************)
\* effectiveStatus yields an OCPI status, never the empty string.
LEMMA EffectiveStatusType ==
    ASSUME NEW online \in BOOLEAN, NEW station \in EVSEStatuses,
           NEW connector \in EVSEStatuses \cup {None}
    PROVE  effectiveStatus(online, station, connector) \in EVSEStatuses
BY DEF effectiveStatus, EVSEStatuses, StationDown, None

\* statusMap yields an OCPI status for every OCPP status it knows.
LEMMA StatusMapType ==
    ASSUME NEW s \in Reports PROVE statusMap[s] \in EVSEStatuses
BY ReportsAssumption DEF statusMap, EVSEStatuses, OCPPStatuses

\* Every connector of every station has a uid.
LEMMA UIDType ==
    ASSUME NEW id \in ChargePoints, NEW n \in Connectors
    PROVE  evseUID(id, n) \in EVSEs
BY ConfigAssumption DEF evseUID

\* addEVSE keeps a good state good and leaves the EVSE registered; a
\* subscriber has nothing to be told, because the EVSE reads UNKNOWN.
LEMMA AddEVSE ==
    ASSUME NEW id \in ChargePoints, NEW cp, Good(id, cp),
           NEW u \in EVSEs, NEW n \in Connectors
    PROVE  /\ Good(id, addEVSE(cp, u, n))
           /\ u \in addEVSE(cp, u, n).order
           /\ addEVSE(cp, u, n).transactions = cp.transactions
           /\ \A v \in EVSEs : Shown(cp, v) = Shown(addEVSE(cp, u, n), v)
<1> DEFINE new == addEVSE(cp, u, n)
<1> USE DEF Good
<1>1. CASE cp.effective[u] # None
  <2>1. new = cp
    BY <1>1 DEF addEVSE
  <2>2. u \in cp.order
    BY <1>1 DEF RegistryOK
  <2>3. QED
    BY <2>1, <2>2
<1>2. CASE cp.effective[u] = None
  <2> DEFINE a == [cp EXCEPT !.order = cp.order \cup {u}]
             b == [a EXCEPT !.connectorIDs = [cp.connectorIDs EXCEPT ![u] = n]]
  <2>1. new = [b EXCEPT !.effective = [cp.effective EXCEPT ![u] = "UNKNOWN"]]
    BY <1>2 DEF addEVSE
  <2>2. /\ new \in ChargePointStates
        /\ new.online = cp.online /\ new.station = cp.station
        /\ new.order = cp.order \cup {u}
        /\ new.reported = cp.reported
        /\ new.effective = [cp.effective EXCEPT ![u] = "UNKNOWN"]
        /\ new.transactions = cp.transactions
    <3>1. /\ a \in ChargePointStates
          /\ a.online = cp.online /\ a.station = cp.station
          /\ a.order = cp.order \cup {u}
          /\ a.connectorIDs = cp.connectorIDs /\ a.reported = cp.reported
          /\ a.effective = cp.effective /\ a.transactions = cp.transactions
      BY DEF ChargePointStates
    <3> HIDE DEF a
    <3>2. /\ b \in ChargePointStates
          /\ b.online = a.online /\ b.station = a.station /\ b.order = a.order
          /\ b.reported = a.reported
          /\ b.effective = a.effective /\ b.transactions = a.transactions
      BY <3>1 DEF ChargePointStates
    <3> HIDE DEF b, new
    <3>3. QED
      BY <2>1, <3>1, <3>2 DEF ChargePointStates, EVSEStatuses
  <2> HIDE DEF new
  <2>3. u \notin cp.order /\ cp.reported[u] = None /\ u \notin ConfiguredUIDs(id)
    <3>1. u \notin cp.order
      BY <1>2 DEF RegistryOK
    <3>2. QED
      BY <3>1 DEF RegistryOK
  <2>4. RegistryOK(id, new)
    <3>1. new.order = {v \in EVSEs : new.effective[v] # None}
      BY <2>2 DEF RegistryOK, ChargePointStates, None
    <3>2. QED
      BY <2>2, <3>1 DEF RegistryOK
  <2>5. DerivedOK(id, new)
    BY <2>2, <2>3 DEF DerivedOK, Derived, ChargePointStates
  <2>6. \A v \in EVSEs : Shown(cp, v) = Shown(new, v)
    BY <2>2, <2>3 DEF Shown, ChargePointStates
  <2>7. QED
    BY <2>2, <2>4, <2>5, <2>6 DEF new
<1>3. QED
  BY <1>1, <1>2

\* recompute makes any well-registered state good, whatever was cached.
LEMMA Recompute ==
    ASSUME NEW id \in ChargePoints, NEW cp \in ChargePointStates, RegistryOK(id, cp)
    PROVE  /\ Good(id, recompute(cp))
           /\ recompute(cp).order = cp.order
           /\ recompute(cp).transactions = cp.transactions
<1> DEFINE new == recompute(cp)
<1>1. /\ new.online = cp.online /\ new.station = cp.station
      /\ new.order = cp.order /\ new.connectorIDs = cp.connectorIDs
      /\ new.reported = cp.reported /\ new.transactions = cp.transactions
      /\ new.effective = [v \in EVSEs |->
            IF v \in cp.order THEN Derived(cp, v) ELSE cp.effective[v]]
  BY DEF recompute, Derived, ChargePointStates
<1>2. \A v \in EVSEs : Derived(cp, v) \in EVSEStatuses
  BY EffectiveStatusType DEF Derived, ChargePointStates
<1>3. new \in ChargePointStates
  BY <1>1, <1>2 DEF recompute, Derived, ChargePointStates
<1>4. cp.order \subseteq EVSEs
  BY DEF ChargePointStates
<1>5. RegistryOK(id, new)
  BY ZenonT(60), <1>1, <1>2, <1>4 DEF RegistryOK, EVSEStatuses, None
<1>6. DerivedOK(id, new)
  BY <1>1, <1>4 DEF DerivedOK, Derived
<1>7. QED
  BY <1>1, <1>3, <1>5, <1>6 DEF Good

\* A step that writes only transactions keeps a good state good.
LEMMA SetTransactions ==
    ASSUME NEW id \in ChargePoints, NEW cp, Good(id, cp),
           NEW txs \in [TxIDs -> Tx \cup {NoTx}]
    PROVE  Good(id, [cp EXCEPT !.transactions = txs])
<1> DEFINE new == [cp EXCEPT !.transactions = txs]
<1>1. /\ new \in ChargePointStates
      /\ new.online = cp.online /\ new.station = cp.station
      /\ new.order = cp.order /\ new.connectorIDs = cp.connectorIDs
      /\ new.reported = cp.reported /\ new.effective = cp.effective
  BY DEF Good, ChargePointStates
<1>2. QED
  BY <1>1 DEF Good, RegistryOK, DerivedOK, Derived

\* The states New builds are good, and have no transaction.
LEMMA NewGood ==
    /\ Good(Charger, configuredChargePoint)
    /\ \A id \in ChargePoints \ {Charger} : Good(id, newChargePoint)
    /\ \A i \in TxIDs : /\ configuredChargePoint.transactions[i] = NoTx
                        /\ newChargePoint.transactions[i] = NoTx
<1>1. newChargePoint \in ChargePointStates
  BY ConfigAssumption DEF newChargePoint, ChargePointStates, EVSEStatuses
<1>2. configuredChargePoint \in ChargePointStates
  <2>1. [u \in EVSEs |-> IF u \in ConfigEVSEs THEN ConfigConnector[u] ELSE 0]
            \in [EVSEs -> Connectors]
    BY ConfigAssumption
  <2>2. [u \in EVSEs |-> IF u \in ConfigEVSEs THEN "UNKNOWN" ELSE None]
            \in [EVSEs -> EVSEStatuses \cup {None}]
    BY DEF EVSEStatuses
  <2>3. QED
    BY <1>1, <2>1, <2>2, ConfigAssumption DEF configuredChargePoint, ChargePointStates
<1>3. /\ configuredChargePoint.online = FALSE
      /\ configuredChargePoint.order = ConfigEVSEs
      /\ configuredChargePoint.reported = [u \in EVSEs |-> None]
      /\ configuredChargePoint.effective =
            [u \in EVSEs |-> IF u \in ConfigEVSEs THEN "UNKNOWN" ELSE None]
      /\ configuredChargePoint.transactions = [i \in TxIDs |-> NoTx]
  BY DEF configuredChargePoint, newChargePoint
<1>4. Good(Charger, configuredChargePoint)
  BY ZenonT(60), <1>2, <1>3, ConfigAssumption
  DEF Good, RegistryOK, DerivedOK, Derived, ConfiguredUIDs, effectiveStatus, None
<1>5. ASSUME NEW id \in ChargePoints \ {Charger} PROVE Good(id, newChargePoint)
  BY <1>1 DEF Good, RegistryOK, DerivedOK, newChargePoint, ConfiguredUIDs
<1>6. QED
  BY <1>3, <1>4, <1>5 DEF newChargePoint

-----------------------------------------------------------------------------
(***************************************************************************)
(* What a subscriber must be told when a charge point's state changes.     *)
(***************************************************************************)
\* changes takes a subscriber from before to after: one event per EVSE that
\* moved, none for the others.
Links(id, before, after, changes) ==
    /\ \A e \in changes :
          /\ e.cp = id
          /\ e.uid \in after.order
          /\ e.from = Shown(before, e.uid)
          /\ e.to = after.effective[e.uid]
          /\ \A f \in changes : f.uid = e.uid => f = e
    /\ \A u \in EVSEs :
          \/ \E e \in changes : e.uid = u
          \/ Shown(before, u) = Shown(after, u)

\* The events statusEvents builds for a recompute are well formed and complete.
LEMMA EventsLink ==
    ASSUME NEW id \in ChargePoints, NEW mid \in ChargePointStates, RegistryOK(id, mid),
           NEW before, \A u \in EVSEs : Shown(before, u) = Shown(mid, u)
    PROVE  LET after == recompute(mid) IN
           /\ statusEvents(id, mid, after) \subseteq StatusChanges
           /\ Links(id, before, after, statusEvents(id, mid, after))
<1> DEFINE after == recompute(mid)
           evs == statusEvents(id, mid, after)
           moved == {v \in after.order : mid.effective[v] # after.effective[v]}
<1>1. Good(id, after) /\ after.order = mid.order
  BY Recompute
<1> HIDE DEF after
<1>2. mid.order \subseteq EVSEs
  BY DEF ChargePointStates
<1>3. \A u \in mid.order : mid.effective[u] \in EVSEStatuses /\ after.effective[u] \in EVSEStatuses
  BY <1>1, <1>2 DEF Good, RegistryOK, ChargePointStates
<1>4. evs = {Event("evse_status_changed", id, u, mid.effective[u], after.effective[u]) : u \in moved}
  BY DEF statusEvents
<1>5. moved \subseteq mid.order
  BY <1>1
<1> HIDE DEF evs
<1>6. evs \subseteq StatusChanges
  <2> SUFFICES ASSUME NEW e \in evs PROVE e \in StatusChanges
    OBVIOUS
  <2>1. PICK u \in moved :
            e = Event("evse_status_changed", id, u, mid.effective[u], after.effective[u])
    BY <1>4
  <2>2. QED
    BY <1>2, <1>3, <1>5, <2>1 DEF Event, StatusChanges
<1>7. ASSUME NEW e \in evs
      PROVE  /\ e.cp = id
             /\ e.uid \in moved
             /\ e.from = mid.effective[e.uid]
             /\ e.to = after.effective[e.uid]
             /\ \A f \in evs : f.uid = e.uid => f = e
  <2>1. PICK u \in moved :
            e = Event("evse_status_changed", id, u, mid.effective[u], after.effective[u])
    BY <1>4
  <2>2. e.cp = id /\ e.uid = u /\ e.from = mid.effective[u] /\ e.to = after.effective[u]
    BY <2>1 DEF Event
  <2>3. ASSUME NEW f \in evs, f.uid = e.uid PROVE f = e
    <3>1. PICK v \in moved :
              f = Event("evse_status_changed", id, v, mid.effective[v], after.effective[v])
      BY <1>4
    <3>2. f.uid = v
      BY <3>1 DEF Event
    <3>3. QED
      BY <2>1, <2>2, <2>3, <3>1, <3>2
  <2>4. QED
    BY <2>2, <2>3
<1>8. ASSUME NEW u \in EVSEs
      PROVE  (\E e \in evs : e.uid = u) \/ Shown(before, u) = Shown(after, u)
  <2>1. CASE u \in moved
    <3> DEFINE e == Event("evse_status_changed", id, u, mid.effective[u], after.effective[u])
    <3>1. e \in evs
      BY <1>4, <2>1
    <3>2. e.uid = u
      BY DEF Event
    <3>3. QED
      BY <3>1, <3>2
  <2>2. CASE u \notin moved
    BY <1>1, <2>2 DEF Shown
  <2>3. QED
    BY <2>1, <2>2
<1>9. Links(id, before, after, evs)
  <2>1. \A e \in evs : e.from = Shown(before, e.uid)
    BY <1>2, <1>5, <1>7 DEF Shown
  <2>2. \A e \in evs : e.uid \in after.order
    BY <1>7
  <2> HIDE DEF moved
  <2>3. QED
    BY <1>7, <1>8, <2>1, <2>2 DEF Links
<1>10. QED
  BY <1>6, <1>9 DEF after, evs

-----------------------------------------------------------------------------
(***************************************************************************)
(* One critical section.                                                   *)
(***************************************************************************)
\* Every connection belongs to a station.
LEMMA ServesType ==
    ASSUME IInv, NEW c \in Conns PROVE serves[c] \in ChargePoints
BY DEF IInv, TypeOK

\* A critical section keeps what ViewInv says of the changes in flight.
LEMMA CommitView ==
    ASSUME TypeOK, ViewInv, NEW c \in Conns, Idle(c), NEW id \in ChargePoints,
           id = serves[c], NEW cp, NEW first, NEW changes \in SUBSET StatusChanges,
           Links(id, cps[id], cp, changes), Commit(c, id, cp, first, changes)
    PROVE  ViewInv'
<1> DEFINE box == [first |-> first, changes |-> changes]
           moved == {e.uid : e \in changes}
<1>1. /\ cps'[id] = cp /\ \A i \in ChargePoints \ {id} : cps'[i] = cps[i]
      /\ raced'[id] = RacedBy(c, id, changes)
      /\ \A i \in ChargePoints \ {id} : raced'[i] = raced[i]
      /\ seen' = seen /\ serves' = serves
  BY DEF Commit, TypeOK
<1>2. outbox' = [outbox EXCEPT ![c] = box]
  BY DEF Commit
<1>3. /\ outbox'[c].changes = changes
      /\ \A d \in Conns \ {c} : outbox'[d] = outbox[d]
  BY <1>2 DEF TypeOK
<1> HIDE DEF box
<1>4. outbox[c].changes = {}
  BY DEF Idle, EmptyOutbox
<1>5. \A d \in Conns \ {c}, i \in ChargePoints, u \in EVSEs : Pending(d, i, u)' <=> Pending(d, i, u)
  BY <1>3 DEF Pending
<1>6. \A i \in ChargePoints, u \in EVSEs : ~Pending(c, i, u)
  BY <1>4 DEF Pending
<1>7. \A i \in ChargePoints, u \in EVSEs : Pending(c, i, u)' => i = id /\ u \in moved
  BY <1>3 DEF Pending, Links
<1>8. ASSUME NEW d \in Conns, NEW e \in outbox'[d].changes
      PROVE  /\ e.cp = serves'[d]
             /\ \A f \in outbox'[d].changes : f.uid = e.uid => f = e
  <2>1. CASE d = c
    BY <1>1, <1>3, <1>8, <2>1 DEF Links
  <2>2. CASE d # c
    BY <1>1, <1>3, <1>8, <2>2 DEF ViewInv
  <2>3. QED
    BY <2>1, <2>2
<1>9. ASSUME NEW i \in ChargePoints, NEW u \in EVSEs, u \notin raced'[i]
      PROVE  \/ /\ \A d \in Conns : ~Pending(d, i, u)'
                /\ seen'[i][u] = Shown(cps'[i], u)
             \/ \E d \in Conns :
                   /\ \A k \in Conns \ {d} : ~Pending(k, i, u)'
                   /\ \E e \in outbox'[d].changes :
                         e.cp = i /\ e.uid = u /\ e.to = Shown(cps'[i], u)
  <2>1. CASE i = id /\ u \in moved
    <3>1. \A d \in Conns \ {c} : ~Pending(d, i, u)'
      BY <1>1, <1>5, <1>9, <2>1 DEF RacedBy
    <3>2. PICK e \in changes : e.uid = u
      BY <2>1
    <3>3. e.cp = i /\ e.to = Shown(cps'[i], u)
      BY <1>1, <2>1, <3>2 DEF Links, Shown
    <3>4. QED
      BY <1>3, <3>1, <3>2, <3>3
  <2>2. CASE ~(i = id /\ u \in moved)
    <3>1. u \notin raced[i]
      BY <1>1, <1>9, <2>2 DEF RacedBy
    <3>2. Shown(cps'[i], u) = Shown(cps[i], u)
      <4>1. CASE i # id
        BY <1>1, <4>1
      <4>2. CASE i = id
        <5>1. ~ \E e \in changes : e.uid = u
          BY <2>2, <4>2
        <5>2. QED
          BY <1>1, <4>2, <5>1 DEF Links
      <4>3. QED
        BY <4>1, <4>2
    <3>3. \A d \in Conns : Pending(d, i, u)' <=> Pending(d, i, u)
      BY <1>5, <1>6, <1>7, <2>2
    <3>4. CASE \A d \in Conns : ~Pending(d, i, u)
      <4>1. seen[i][u] = Shown(cps[i], u)
        BY <3>1, <3>4 DEF ViewInv, Pending
      <4>2. QED
        BY <1>1, <3>2, <3>3, <3>4, <4>1
    <3>5. CASE ~ \A d \in Conns : ~Pending(d, i, u)
      <4>1. PICK d \in Conns :
                /\ \A k \in Conns \ {d} : ~Pending(k, i, u)
                /\ \E e \in outbox[d].changes :
                      e.cp = i /\ e.uid = u /\ e.to = Shown(cps[i], u)
        BY <3>1, <3>5 DEF ViewInv
      <4>2. outbox'[d] = outbox[d]
        BY <1>3, <1>4, <4>1
      <4>3. QED
        BY <3>2, <3>3, <4>1, <4>2
    <3>6. QED
      BY <3>4, <3>5
  <2>3. QED
    BY <2>1, <2>2
<1>10. QED
  BY <1>8, <1>9 DEF ViewInv

\* Adding or removing one connection moves a count by one.
LEMMA OneMore ==
    ASSUME NEW c \in Conns, NEW S \in SUBSET Conns, c \notin S
    PROVE  /\ Cardinality(S) \in Nat
           /\ Cardinality(S \cup {c}) = Cardinality(S) + 1
BY InstanceAssumption, FS_Subset, FS_AddElement, FS_CardinalityType

LEMMA OneLess ==
    ASSUME NEW c \in Conns, NEW S \in SUBSET Conns, c \in S
    PROVE  /\ Cardinality(S) \in Nat
           /\ Cardinality(S \ {c}) = Cardinality(S) - 1
BY InstanceAssumption, FS_Subset, FS_RemoveElement, FS_CardinalityType

\* Two sets of connections that agree on every connection are one.
LEMMA SameConns ==
    ASSUME NEW S \in SUBSET Conns, NEW T \in SUBSET Conns, NEW c \in Conns,
           \A d \in Conns \ {c} : d \in T <=> d \in S, c \in T <=> c \in S
    PROVE  T = S
<1>1. \A d : d \in T <=> d \in S
  OBVIOUS
<1>2. QED
  BY <1>1

\* Entering and Leaving only depend on the outboxes.
LEMMA CountType ==
    ASSUME NEW i, NEW u, NEW s
    PROVE  /\ Entering(i, u, s) \in SUBSET Conns /\ Leaving(i, u, s) \in SUBSET Conns
           /\ Cardinality(Entering(i, u, s)) \in Nat
           /\ Cardinality(Leaving(i, u, s)) \in Nat
<1>1. Entering(i, u, s) \in SUBSET Conns /\ Leaving(i, u, s) \in SUBSET Conns
  BY DEF Entering, Leaving
<1>2. QED
  BY <1>1, InstanceAssumption, FS_Subset, FS_CardinalityType

\* A critical section adds to what is to be published exactly what it changed.
LEMMA CommitAddUp ==
    ASSUME TypeOK, ViewInv, ChangesAddUp, NEW c \in Conns, Idle(c),
           NEW id \in ChargePoints, NEW cp, NEW first,
           NEW changes \in SUBSET StatusChanges,
           Links(id, cps[id], cp, changes), Commit(c, id, cp, first, changes)
    PROVE  ChangesAddUp'
<1> SUFFICES ASSUME NEW i \in ChargePoints, NEW u \in EVSEs, NEW s \in EVSEStatuses
             PROVE  told'[i][u][s] + Cardinality(Entering(i, u, s)')
                        - Cardinality(Leaving(i, u, s)')
                      = Is(Shown(cps'[i], u), s) - Is("UNKNOWN", s)
  BY DEF ChangesAddUp
<1> DEFINE box == [first |-> first, changes |-> changes]
           in == Entering(i, u, s)
           out == Leaving(i, u, s)
<1>1. /\ cps'[id] = cp /\ \A k \in ChargePoints \ {id} : cps'[k] = cps[k]
      /\ told' = told
      /\ outbox' = [outbox EXCEPT ![c] = box]
  BY DEF Commit, TypeOK
<1>2. /\ outbox'[c].changes = changes
      /\ \A d \in Conns \ {c} : outbox'[d] = outbox[d]
  BY <1>1 DEF TypeOK
<1> HIDE DEF box
<1>3. outbox[c].changes = {}
  BY DEF Idle, EmptyOutbox
<1>4. c \notin in /\ c \notin out
  BY <1>3 DEF Entering, Leaving
<1>5. /\ told[i][u][s] \in Int
      /\ in \in SUBSET Conns /\ out \in SUBSET Conns
      /\ Cardinality(in) \in Nat /\ Cardinality(out) \in Nat
      /\ told[i][u][s] + Cardinality(in) - Cardinality(out)
           = Is(Shown(cps[i], u), s) - Is("UNKNOWN", s)
  BY CountType DEF TypeOK, ChangesAddUp
<1>6. \A d \in Conns \ {c} : /\ d \in in' <=> d \in in
                             /\ d \in out' <=> d \in out
  BY <1>2 DEF Entering, Leaving
<1>7. in' \in SUBSET Conns /\ out' \in SUBSET Conns
  BY DEF Entering, Leaving
<1>8. CASE i = id /\ \E e \in changes : e.uid = u
  <2>1. PICK e \in changes : e.uid = u
    BY <1>8
  <2>2. /\ e.cp = id /\ \A f \in changes : f.uid = u => f = e
        /\ e.from = Shown(cps[i], u) /\ e.to = Shown(cps'[i], u)
    BY <1>1, <1>8, <2>1 DEF Links, Shown
  <2>3. (c \in in' <=> e.to = s) /\ (c \in out' <=> e.from = s)
    BY <1>2, <1>8, <2>1, <2>2 DEF Entering, Leaving
  <2> HIDE DEF in, out
  <2>4. Cardinality(in') = Cardinality(in) + Is(e.to, s)
    <3>1. CASE e.to = s
      <4>1. in' = in \cup {c}
        BY <1>5, <1>6, <1>7, <2>3, <3>1
      <4>2. QED
        BY <1>4, <1>5, <3>1, <4>1, OneMore DEF Is
    <3>2. CASE e.to # s
      <4>1. in' = in
        BY <1>4, <1>5, <1>6, <1>7, <2>3, <3>2, SameConns
      <4>2. QED
        BY <1>5, <3>2, <4>1 DEF Is
    <3>3. QED
      BY <3>1, <3>2
  <2>5. Cardinality(out') = Cardinality(out) + Is(e.from, s)
    <3>1. CASE e.from = s
      <4>1. out' = out \cup {c}
        BY <1>5, <1>6, <1>7, <2>3, <3>1
      <4>2. QED
        BY <1>4, <1>5, <3>1, <4>1, OneMore DEF Is
    <3>2. CASE e.from # s
      <4>1. out' = out
        BY <1>4, <1>5, <1>6, <1>7, <2>3, <3>2, SameConns
      <4>2. QED
        BY <1>5, <3>2, <4>1 DEF Is
    <3>3. QED
      BY <3>1, <3>2
  <2>6. QED
    BY <1>1, <1>5, <2>2, <2>4, <2>5 DEF Is, in, out
<1>9. CASE ~(i = id /\ \E e \in changes : e.uid = u)
  <2>1. Shown(cps'[i], u) = Shown(cps[i], u)
    BY <1>1, <1>9 DEF Links
  <2>2. c \notin in' /\ c \notin out'
    BY <1>2, <1>9 DEF Entering, Leaving, Links
  <2> HIDE DEF in, out
  <2>3. in' = in /\ out' = out
    BY <1>4, <1>5, <1>6, <1>7, <2>2, SameConns
  <2>4. QED
    BY <1>1, <1>5, <2>1, <2>3 DEF in, out
<1>10. QED
  BY <1>8, <1>9

\* A critical section that leaves a good state, announces what moved and keeps
\* the transaction ids unique preserves the inductive invariant.
LEMMA CommitStep ==
    ASSUME IInv, NEW c \in Conns, Idle(c),
           NEW cp, Good(serves[c], cp),
           NEW first \in Events \cup {NoEvent}, NEW changes \in SUBSET StatusChanges,
           Links(serves[c], cps[serves[c]], cp, changes),
           Commit(c, serves[c], cp, first, changes),
           nextTxID' \in 1 .. MaxTxID + 1,
           TransactionIDsUnique'
    PROVE  IInv'
<1> DEFINE id == serves[c]
           box == [first |-> first, changes |-> changes]
<1>1. id \in ChargePoints
  BY ServesType
<1>2. /\ cps' = [cps EXCEPT ![serves[c]] = cp]
      /\ known' = known \cup {serves[c]}
      /\ outbox' = [outbox EXCEPT ![c] = box]
      /\ raced' = [raced EXCEPT ![serves[c]] = RacedBy(c, serves[c], changes)]
      /\ seen' = seen /\ told' = told /\ serves' = serves
  BY DEF Commit
<1>3. /\ box \in [first : Events \cup {NoEvent}, changes : SUBSET StatusChanges]
      /\ box.changes = changes
  OBVIOUS
<1> HIDE DEF box
<1>4. /\ cps'[id] = cp
      /\ \A i \in ChargePoints \ {id} : cps'[i] = cps[i]
      /\ \A i \in ChargePoints : Good(i, cps'[i])
      /\ cps' \in [ChargePoints -> ChargePointStates]
  BY <1>1, <1>2 DEF IInv, TypeOK, Good, OrderIsRegistry, EffectiveIsDerived
<1>5. TypeOK'
  <2>1. RacedBy(c, id, changes) \in SUBSET EVSEs
    BY <1>1 DEF RacedBy, StatusChanges, IInv, TypeOK
  <2>2. raced' \in [ChargePoints -> SUBSET EVSEs]
    BY <1>1, <1>2, <2>1 DEF IInv, TypeOK
  <2>3. outbox' \in [Conns -> [first : Events \cup {NoEvent}, changes : SUBSET StatusChanges]]
    BY <1>2, <1>3 DEF IInv, TypeOK
  <2>4. QED
    BY <1>1, <1>2, <1>4, <2>2, <2>3 DEF IInv, TypeOK
<1>6. OrderIsRegistry'
  <2>1. \A i \in ChargePoints : RegistryOK(i, cps'[i])
    BY <1>4 DEF Good
  <2>2. QED
    BY <2>1 DEF OrderIsRegistry, RegistryOK, ConfiguredUIDs
<1>7. EffectiveIsDerived'
  <2>1. \A i \in ChargePoints : DerivedOK(i, cps'[i])
    BY <1>4 DEF Good
  <2>2. QED
    BY <2>1 DEF EffectiveIsDerived, DerivedOK, ConfiguredUIDs, Derived, effectiveStatus
<1>8. ViewInv'
  BY <1>1, CommitView DEF IInv
<1>9. ChangesAddUp'
  BY <1>1, CommitAddUp DEF IInv
<1>10. QED
  BY <1>5, <1>6, <1>7, <1>8, <1>9 DEF IInv

\* As long as ids and transactions stay put, uniqueness stays.
LEMMA SameTransactions ==
    ASSUME IInv, NEW id \in ChargePoints, NEW cp,
           cps' = [cps EXCEPT ![id] = cp],
           cp.transactions = cps[id].transactions,
           nextTxID' = nextTxID
    PROVE  TransactionIDsUnique'
<1>1. \A i \in ChargePoints : cps'[i].transactions = cps[i].transactions
  BY DEF IInv, TypeOK
<1>2. QED
  BY <1>1 DEF IInv, TransactionIDsUnique

\* A handler that changes a flag or a reported status and then recomputes.
LEMMA RecomputeStep ==
    ASSUME IInv, NEW c \in Conns, Idle(c),
           NEW mid \in ChargePointStates, RegistryOK(serves[c], mid),
           mid.transactions = cps[serves[c]].transactions,
           \A u \in EVSEs : Shown(cps[serves[c]], u) = Shown(mid, u),
           NEW first \in Events \cup {NoEvent},
           Commit(c, serves[c], recompute(mid), first,
                  statusEvents(serves[c], mid, recompute(mid))),
           UNCHANGED nextTxID
    PROVE  IInv'
<1>1. serves[c] \in ChargePoints
  BY ServesType
<1>2. /\ Good(serves[c], recompute(mid))
      /\ recompute(mid).transactions = cps[serves[c]].transactions
  BY <1>1, Recompute
<1>3. /\ statusEvents(serves[c], mid, recompute(mid)) \in SUBSET StatusChanges
      /\ Links(serves[c], cps[serves[c]], recompute(mid),
               statusEvents(serves[c], mid, recompute(mid)))
  BY <1>1, EventsLink
<1>4. TransactionIDsUnique'
  BY <1>1, <1>2, SameTransactions DEF Commit
<1>5. nextTxID' \in 1 .. MaxTxID + 1
  BY DEF IInv, TypeOK
<1>6. QED
  BY <1>2, <1>3, <1>4, <1>5, CommitStep

\* A handler after which a subscriber has nothing to be told about statuses.
LEMMA QuietStep ==
    ASSUME IInv, NEW c \in Conns, Idle(c),
           NEW cp, Good(serves[c], cp),
           \A u \in EVSEs : Shown(cps[serves[c]], u) = Shown(cp, u),
           NEW first \in Events \cup {NoEvent},
           Commit(c, serves[c], cp, first, {}),
           nextTxID' \in 1 .. MaxTxID + 1,
           TransactionIDsUnique'
    PROVE  IInv'
<1>1. Links(serves[c], cps[serves[c]], cp, {})
  BY DEF Links
<1>2. QED
  BY <1>1, CommitStep

-----------------------------------------------------------------------------
(***************************************************************************)
(* The actions.                                                            *)
(***************************************************************************)
\* A station's state is good whenever the invariant holds.
LEMMA IsGood ==
    ASSUME IInv, NEW id \in ChargePoints
    PROVE  Good(id, cps[id])
BY DEF IInv, TypeOK, OrderIsRegistry, EffectiveIsDerived, Good

\* The events that name a message are well formed.
LEMMA EventType ==
    ASSUME NEW id \in ChargePoints, NEW uid \in EVSEs \cup {None},
           NEW from \in EVSEStatuses \cup {None}, NEW to \in EVSEStatuses \cup {None},
           NEW kind \in {"charge_point_connected", "charge_point_disconnected",
                         "boot_notified", "heartbeat", "station_status_changed",
                         "transaction_started", "transaction_stopped", "meter_values"}
    PROVE  Event(kind, id, uid, from, to) \in Events
BY DEF Event, Events

\* Connection up, connection down.
LEMMA ConnectedStep ==
    ASSUME IInv, NEW c \in Conns, Connected(c) \/ Disconnected(c)
    PROVE  IInv'
<1> DEFINE id == serves[c]
<1>1. id \in ChargePoints
  BY ServesType
<1>2. Good(id, cps[id])
  BY <1>1, IsGood
<1>3. ASSUME NEW b \in BOOLEAN
      PROVE  LET mid == [cps[id] EXCEPT !.online = b] IN
             /\ mid \in ChargePointStates
             /\ RegistryOK(id, mid)
             /\ mid.transactions = cps[id].transactions
             /\ \A u \in EVSEs : Shown(cps[id], u) = Shown(mid, u)
  <2> DEFINE mid == [cps[id] EXCEPT !.online = b]
  <2>1. /\ mid \in ChargePointStates
        /\ mid.order = cps[id].order /\ mid.reported = cps[id].reported
        /\ mid.effective = cps[id].effective /\ mid.transactions = cps[id].transactions
    BY <1>2 DEF Good, ChargePointStates
  <2> HIDE DEF mid
  <2>2. RegistryOK(id, mid) /\ \A u \in EVSEs : Shown(cps[id], u) = Shown(mid, u)
    BY <1>2, <2>1 DEF Good, RegistryOK, Shown
  <2>3. QED
    BY <2>1, <2>2 DEF mid
<1>4. /\ Event("charge_point_connected", id, None, None, None) \in Events
      /\ Event("charge_point_disconnected", id, None, None, None) \in Events
  BY <1>1, EventType
<1>5. CASE Connected(c)
  BY <1>3, <1>4, <1>5, RecomputeStep DEF Connected
<1>6. CASE Disconnected(c)
  BY <1>3, <1>4, <1>6, RecomputeStep DEF Disconnected
<1>7. QED
  BY <1>5, <1>6

\* Messages that change nothing but timestamps, and StopTransaction of an id
\* that is not running.
LEMMA NoChangeStep ==
    ASSUME IInv, NEW c \in Conns,
           NEW first \in Events \cup {NoEvent}, Idle(c),
           Commit(c, serves[c], cps[serves[c]], first, {}),
           UNCHANGED nextTxID
    PROVE  IInv'
<1>1. serves[c] \in ChargePoints
  BY ServesType
<1>2. Good(serves[c], cps[serves[c]])
  BY <1>1, IsGood
<1>3. TransactionIDsUnique'
  BY <1>1, SameTransactions DEF Commit
<1>4. nextTxID' \in 1 .. MaxTxID + 1
  BY DEF IInv, TypeOK
<1>5. QED
  BY <1>2, <1>3, <1>4, QuietStep

\* StatusNotification for connector 0.
LEMMA StationStatusStep ==
    ASSUME IInv, NEW c \in Conns, NEW s \in Reports, SetStationStatus(c, s)
    PROVE  IInv'
<1> DEFINE id == serves[c]
           to == statusMap[s]
           mid == [cps[id] EXCEPT !.station = to]
           first == IF cps[id].station # to
                      THEN Event("station_status_changed", id, None, cps[id].station, to)
                      ELSE NoEvent
<1>1. id \in ChargePoints /\ to \in EVSEStatuses
  BY ServesType, StatusMapType
<1>2. Good(id, cps[id]) /\ cps[id].station \in EVSEStatuses
  BY <1>1, IsGood DEF Good, ChargePointStates
<1>3. first \in Events \cup {NoEvent}
  BY <1>1, <1>2, EventType
<1>4. /\ Idle(c)
      /\ Commit(c, id, recompute(mid), first, statusEvents(id, mid, recompute(mid)))
      /\ UNCHANGED nextTxID
  BY DEF SetStationStatus
<1> HIDE DEF to, first
<1>5. /\ mid \in ChargePointStates
      /\ mid.order = cps[id].order /\ mid.reported = cps[id].reported
      /\ mid.effective = cps[id].effective /\ mid.transactions = cps[id].transactions
  BY <1>1, <1>2 DEF Good, ChargePointStates
<1> HIDE DEF mid
<1>6. RegistryOK(id, mid) /\ \A u \in EVSEs : Shown(cps[id], u) = Shown(mid, u)
  BY <1>2, <1>5 DEF Good, RegistryOK, Shown
<1>7. QED
  BY <1>3, <1>4, <1>5, <1>6, RecomputeStep

\* StatusNotification for one connector.
LEMMA ConnectorStatusStep ==
    ASSUME IInv, NEW c \in Conns, NEW n \in Connectors, NEW s \in Reports,
           SetConnectorStatus(c, n, s)
    PROVE  IInv'
<1> DEFINE id == serves[c]
           uid == evseUID(id, n)
           to == statusMap[s]
           added == addEVSE(cps[id], uid, n)
           mid == [added EXCEPT !.reported = [added.reported EXCEPT ![uid] = to]]
<1>1. id \in ChargePoints /\ to \in EVSEStatuses
  BY ServesType, StatusMapType
<1>2. uid \in EVSEs
  BY <1>1, UIDType
<1>3. Good(id, cps[id])
  BY <1>1, IsGood
<1>4. /\ Idle(c)
      /\ Commit(c, id, recompute(mid), NoEvent, statusEvents(id, mid, recompute(mid)))
      /\ UNCHANGED nextTxID
  BY DEF SetConnectorStatus
<1> HIDE DEF uid, to
<1>5. /\ Good(id, added) /\ uid \in added.order
      /\ added.transactions = cps[id].transactions
      /\ \A u \in EVSEs : Shown(cps[id], u) = Shown(added, u)
  <2>1. /\ Good(id, added) /\ uid \in added.order
        /\ added.transactions = cps[id].transactions
    BY <1>1, <1>2, <1>3, AddEVSE
  <2>2. \A u \in EVSEs : Shown(cps[id], u) = Shown(added, u)
    BY <1>1, <1>2, <1>3, AddEVSE
  <2>3. QED
    BY <2>1, <2>2
<1> HIDE DEF added
<1>6. /\ mid \in ChargePointStates
      /\ mid.order = added.order
      /\ mid.reported = [added.reported EXCEPT ![uid] = to]
      /\ mid.effective = added.effective /\ mid.transactions = added.transactions
  <2>1. added \in ChargePointStates
    BY <1>5 DEF Good
  <2>2. [added.reported EXCEPT ![uid] = to] \in [EVSEs -> EVSEStatuses \cup {None}]
    BY <1>1, <2>1 DEF ChargePointStates
  <2>3. QED
    BY <2>1, <2>2 DEF ChargePointStates
<1> HIDE DEF mid
<1>7. RegistryOK(id, mid)
  <2>1. added.reported \in [EVSEs -> EVSEStatuses \cup {None}]
    BY <1>5 DEF Good, ChargePointStates
  <2>2. \A u \in EVSEs : mid.reported[u] # None => u \in added.order
    BY <1>5, <1>6, <2>1 DEF Good, RegistryOK
  <2>3. QED
    BY <1>5, <1>6, <2>2 DEF Good, RegistryOK
<1>8. \A u \in EVSEs : Shown(cps[id], u) = Shown(mid, u)
  BY <1>5, <1>6 DEF Shown
<1>9. mid.transactions = cps[id].transactions
  BY <1>5, <1>6
<1>10. QED
  BY <1>4, <1>6, <1>7, <1>8, <1>9, RecomputeStep

\* StartTransaction: a fresh id, and perhaps a new EVSE.
LEMMA StartStep ==
    ASSUME IInv, NEW c \in Conns, NEW n \in Connectors, StartTransaction(c, n)
    PROVE  IInv'
<1> DEFINE id == serves[c]
           uid == evseUID(id, n)
           added == addEVSE(cps[id], uid, n)
           tx == [evse |-> uid, connector |-> n, active |-> TRUE]
           txs == [added.transactions EXCEPT ![nextTxID] = tx]
           cp == [added EXCEPT !.transactions = txs]
           first == Event("transaction_started", id, uid, None, None)
<1>1. id \in ChargePoints
  BY ServesType
<1>2. uid \in EVSEs
  BY <1>1, UIDType
<1>3. Good(id, cps[id])
  BY <1>1, IsGood
<1>4. /\ Idle(c)
      /\ nextTxID \in TxIDs
      /\ nextTxID' = nextTxID + 1
      /\ Commit(c, id, cp, first, {})
  BY DEF StartTransaction
<1>5. first \in Events
  BY <1>1, <1>2, EventType
<1>6. tx \in Tx /\ tx # NoTx
  BY <1>2 DEF Tx, NoTx
<1> HIDE DEF uid, tx, first
<1>7. Good(id, added) /\ added.transactions = cps[id].transactions
  BY <1>1, <1>2, <1>3, AddEVSE
<1>8. \A u \in EVSEs : Shown(cps[id], u) = Shown(added, u)
  BY <1>1, <1>2, <1>3, AddEVSE
<1> HIDE DEF added
<1>9. txs \in [TxIDs -> Tx \cup {NoTx}]
  BY <1>6, <1>7 DEF Good, ChargePointStates
<1>10. Good(id, cp)
  BY <1>1, <1>7, <1>9, SetTransactions
<1>11. cp.order = added.order /\ cp.effective = added.effective /\ cp.transactions = txs
  BY <1>7 DEF Good, ChargePointStates
<1> HIDE DEF cp
<1>12. \A u \in EVSEs : Shown(cps[id], u) = Shown(cp, u)
  BY <1>8, <1>11 DEF Shown
<1>13. TransactionIDsUnique'
  <2>1. /\ cps'[id] = cp
        /\ \A i \in ChargePoints \ {id} : cps'[i] = cps[i]
    BY <1>1, <1>4 DEF Commit, IInv, TypeOK
  <2>2. /\ cp.transactions[nextTxID] = tx
        /\ \A j \in TxIDs \ {nextTxID} : cp.transactions[j] = cps[id].transactions[j]
    BY <1>3, <1>4, <1>7, <1>11 DEF Good, ChargePointStates
  <2>3. nextTxID \in Nat
    BY DEF IInv, TypeOK
  <2>4. \A i \in ChargePoints : cps[i].transactions[nextTxID] = NoTx
    BY <1>4, <2>3 DEF IInv, TransactionIDsUnique
  <2>5. ASSUME NEW i \in ChargePoints, NEW j \in TxIDs, cps'[i].transactions[j] # NoTx
        PROVE  /\ j < nextTxID'
               /\ \A k \in ChargePoints \ {i} : cps'[k].transactions[j] = NoTx
    <3>1. CASE j = nextTxID
      <4>1. i = id
        BY <2>1, <2>4, <2>5, <3>1
      <4>2. \A k \in ChargePoints \ {i} : cps'[k].transactions[j] = NoTx
        BY <2>1, <2>4, <3>1, <4>1
      <4>3. QED
        BY <1>4, <2>3, <3>1, <4>2
    <3>2. CASE j # nextTxID
      <4>1. \A k \in ChargePoints : cps'[k].transactions[j] = cps[k].transactions[j]
        BY <2>1, <2>2, <3>2
      <4>2. j < nextTxID /\ \A k \in ChargePoints \ {i} : cps[k].transactions[j] = NoTx
        BY <2>5, <4>1 DEF IInv, TransactionIDsUnique
      <4>3. j \in Nat
        BY InstanceAssumption DEF TxIDs
      <4>4. QED
        BY <1>4, <2>3, <4>1, <4>2, <4>3
    <3>3. QED
      BY <3>1, <3>2
  <2>6. QED
    BY <2>5 DEF TransactionIDsUnique
<1>14. nextTxID' \in 1 .. MaxTxID + 1
  BY <1>4, InstanceAssumption DEF TxIDs
<1>15. QED
  BY <1>4, <1>5, <1>10, <1>12, <1>13, <1>14, QuietStep

\* StopTransaction of a running transaction.
LEMMA StopStep ==
    ASSUME IInv, NEW c \in Conns, NEW i \in TxIDs, StopTransaction(c, i)
    PROVE  IInv'
<1> DEFINE id == serves[c]
           old == cps[id].transactions[i]
           new == [old EXCEPT !.active = FALSE]
           txs == [cps[id].transactions EXCEPT ![i] = new]
           cp == [cps[id] EXCEPT !.transactions = txs]
           first == Event("transaction_stopped", id, old.evse, None, None)
<1>1. id \in ChargePoints
  BY ServesType
<1>2. Good(id, cps[id]) /\ cps[id].transactions \in [TxIDs -> Tx \cup {NoTx}]
  BY <1>1, IsGood DEF Good, ChargePointStates
<1>3. /\ Idle(c) /\ old # NoTx /\ old.active
      /\ Commit(c, id, cp, first, {})
      /\ UNCHANGED nextTxID
  BY DEF StopTransaction
<1>4. old \in Tx
  BY <1>2, <1>3
<1>5. old.evse \in EVSEs /\ new \in Tx
  BY <1>4 DEF Tx
<1>6. first \in Events
  BY <1>1, <1>5, EventType
<1> HIDE DEF first, new
<1>7. txs \in [TxIDs -> Tx \cup {NoTx}]
  BY <1>2, <1>5
<1>8. Good(id, cp)
  BY <1>1, <1>2, <1>7, SetTransactions
<1>9. cp.order = cps[id].order /\ cp.effective = cps[id].effective /\ cp.transactions = txs
  BY <1>2 DEF Good, ChargePointStates
<1> HIDE DEF cp
<1>10. \A u \in EVSEs : Shown(cps[id], u) = Shown(cp, u)
  BY <1>9 DEF Shown
<1>11. TransactionIDsUnique'
  <2>1. /\ cps'[id] = cp
        /\ \A k \in ChargePoints \ {id} : cps'[k] = cps[k]
    BY <1>1, <1>3 DEF Commit, IInv, TypeOK
  <2>2. \A j \in TxIDs \ {i} : cp.transactions[j] = cps[id].transactions[j]
    BY <1>2, <1>9
  <2>3. \A k \in ChargePoints, j \in TxIDs :
            cps'[k].transactions[j] # NoTx => cps[k].transactions[j] # NoTx
    BY <1>3, <2>1, <2>2
  <2>4. QED
    BY <1>3, <2>3 DEF IInv, TransactionIDsUnique
<1>12. nextTxID' \in 1 .. MaxTxID + 1
  BY <1>3 DEF IInv, TypeOK
<1>13. QED
  BY <1>3, <1>6, <1>8, <1>10, <1>11, <1>12, QuietStep

\* MeterValues: perhaps a new EVSE, nothing else.
LEMMA MeterStep ==
    ASSUME IInv, NEW c \in Conns, NEW n \in Connectors, RecordMeterValues(c, n)
    PROVE  IInv'
<1> DEFINE id == serves[c]
           uid == evseUID(id, n)
           added == addEVSE(cps[id], uid, n)
           first == Event("meter_values", id, uid, None, None)
<1>1. id \in ChargePoints
  BY ServesType
<1>2. uid \in EVSEs
  BY <1>1, UIDType
<1>3. Good(id, cps[id])
  BY <1>1, IsGood
<1>4. /\ Idle(c) /\ Commit(c, id, added, first, {})
      /\ UNCHANGED nextTxID
  BY DEF RecordMeterValues
<1>5. first \in Events
  BY <1>1, <1>2, EventType
<1> HIDE DEF uid, first
<1>6. Good(id, added) /\ added.transactions = cps[id].transactions
  BY <1>1, <1>2, <1>3, AddEVSE
<1>7. \A u \in EVSEs : Shown(cps[id], u) = Shown(added, u)
  BY <1>1, <1>2, <1>3, AddEVSE
<1> HIDE DEF added
<1>8. TransactionIDsUnique'
  BY <1>1, <1>4, <1>6, SameTransactions DEF Commit
<1>9. nextTxID' \in 1 .. MaxTxID + 1
  BY <1>4 DEF IInv, TypeOK
<1>10. QED
  BY <1>4, <1>5, <1>6, <1>7, <1>8, <1>9, QuietStep

\* The event that names the message is handed to the bus.
LEMMA PublishFirstStep ==
    ASSUME IInv, NEW c \in Conns, PublishFirst(c)
    PROVE  IInv'
<1>1. /\ outbox' \in [Conns -> [first : Events \cup {NoEvent}, changes : SUBSET StatusChanges]]
      /\ \A d \in Conns : outbox'[d].changes = outbox[d].changes
  BY DEF PublishFirst, IInv, TypeOK
<1>2. UNCHANGED <<cps, known, nextTxID, serves, seen, told, raced>>
  BY DEF PublishFirst, history
<1>3. TypeOK'
  BY <1>1, <1>2 DEF IInv, TypeOK
<1>4. (OrderIsRegistry /\ EffectiveIsDerived /\ TransactionIDsUnique)'
  BY <1>2 DEF IInv, OrderIsRegistry, EffectiveIsDerived, TransactionIDsUnique,
              RegistryOK, DerivedOK, Derived, ConfiguredUIDs
<1>5. ViewInv'
  BY <1>1, <1>2 DEF IInv, ViewInv, Pending
<1>6. ChangesAddUp'
  <2>1. \A i, u, s : /\ Entering(i, u, s)' = Entering(i, u, s)
                     /\ Leaving(i, u, s)' = Leaving(i, u, s)
    BY <1>1 DEF Entering, Leaving
  <2>2. QED
    BY <1>2, <2>1 DEF IInv, ChangesAddUp
<1>7. QED
  BY <1>3, <1>4, <1>5, <1>6 DEF IInv

\* A status change reaches the bus: what else was to be published still is.
LEMMA PublishView ==
    ASSUME TypeOK, ViewInv, NEW c \in Conns, NEW e \in outbox[c].changes, PublishChange(c, e)
    PROVE  /\ e \in StatusChanges
           /\ outbox' \in [Conns -> [first : Events \cup {NoEvent}, changes : SUBSET StatusChanges]]
           /\ outbox'[c].changes = outbox[c].changes \ {e}
           /\ \A d \in Conns \ {c} : outbox'[d].changes = outbox[d].changes
           /\ ViewInv'
<1>1. /\ e \in StatusChanges
      /\ outbox' \in [Conns -> [first : Events \cup {NoEvent}, changes : SUBSET StatusChanges]]
      /\ outbox'[c].changes = outbox[c].changes \ {e}
      /\ \A d \in Conns \ {c} : outbox'[d].changes = outbox[d].changes
  BY DEF PublishChange, TypeOK
<1>2. e.cp \in ChargePoints /\ e.uid \in EVSEs
  BY <1>1 DEF StatusChanges
<1>3. /\ cps' = cps /\ raced' = raced /\ serves' = serves
      /\ seen' = [seen EXCEPT ![e.cp] = [seen[e.cp] EXCEPT ![e.uid] = e.to]]
  BY DEF PublishChange
<1>4. /\ seen'[e.cp][e.uid] = e.to
      /\ \A i \in ChargePoints, u \in EVSEs :
            i # e.cp \/ u # e.uid => seen'[i][u] = seen[i][u]
  BY <1>2, <1>3 DEF TypeOK
<1>5. \A d \in Conns : \A f \in outbox'[d].changes :
          /\ f.cp = serves'[d]
          /\ \A g \in outbox'[d].changes : g.uid = f.uid => g = f
  BY <1>1, <1>3 DEF ViewInv
<1>6. ASSUME NEW i \in ChargePoints, NEW u \in EVSEs, u \notin raced'[i]
      PROVE  \/ /\ \A d \in Conns : ~Pending(d, i, u)'
                /\ seen'[i][u] = Shown(cps'[i], u)
             \/ \E d \in Conns :
                   /\ \A k \in Conns \ {d} : ~Pending(k, i, u)'
                   /\ \E f \in outbox'[d].changes :
                         f.cp = i /\ f.uid = u /\ f.to = Shown(cps'[i], u)
  <2>1. CASE i = e.cp /\ u = e.uid
    <3>1. Pending(c, i, u)
      BY <2>1 DEF Pending
    <3>2. PICK d \in Conns :
              /\ \A k \in Conns \ {d} : ~Pending(k, i, u)
              /\ \E f \in outbox[d].changes :
                    f.cp = i /\ f.uid = u /\ f.to = Shown(cps[i], u)
      BY <1>3, <1>6, <3>1 DEF ViewInv
    <3>3. d = c
      BY <3>1, <3>2
    <3>4. e.to = Shown(cps[i], u)
      BY <2>1, <3>2, <3>3 DEF ViewInv
    <3>5. ~Pending(c, i, u)'
      BY <1>1, <2>1 DEF ViewInv, Pending
    <3>6. \A k \in Conns \ {c} : ~Pending(k, i, u)'
      BY <1>1, <3>2, <3>3 DEF Pending
    <3>7. QED
      BY <1>3, <1>4, <2>1, <3>4, <3>5, <3>6
  <2>2. CASE ~(i = e.cp /\ u = e.uid)
    <3>1. \A d \in Conns : \A f \in outbox[d].changes :
              f.cp = i /\ f.uid = u => f \in outbox'[d].changes
      BY <1>1, <2>2
    <3>2. \A d \in Conns : \A f \in outbox'[d].changes : f \in outbox[d].changes
      BY <1>1
    <3>3. \A d \in Conns : Pending(d, i, u)' <=> Pending(d, i, u)
      BY <3>1, <3>2 DEF Pending
    <3>4. seen'[i][u] = seen[i][u]
      BY <1>4, <2>2
    <3>5. CASE \A d \in Conns : ~Pending(d, i, u)
      <4>1. seen[i][u] = Shown(cps[i], u)
        BY <1>3, <1>6, <3>5 DEF ViewInv, Pending
      <4>2. QED
        BY <1>3, <3>3, <3>4, <3>5, <4>1
    <3>6. CASE ~ \A d \in Conns : ~Pending(d, i, u)
      <4>1. PICK d \in Conns :
                /\ \A k \in Conns \ {d} : ~Pending(k, i, u)
                /\ \E f \in outbox[d].changes :
                      f.cp = i /\ f.uid = u /\ f.to = Shown(cps[i], u)
        BY <1>3, <1>6, <3>6 DEF ViewInv
      <4>2. QED
        BY <1>3, <3>1, <3>3, <4>1
    <3>7. QED
      BY <3>5, <3>6
  <2>3. QED
    BY <2>1, <2>2
<1>7. ViewInv'
  BY <1>5, <1>6 DEF ViewInv
<1>8. QED
  BY <1>1, <1>7

\* A status change reaches the bus: it moves from what is to be published to
\* what was told.
LEMMA PublishAddUp ==
    ASSUME TypeOK, ViewInv, ChangesAddUp,
           NEW c \in Conns, NEW e \in outbox[c].changes, PublishChange(c, e)
    PROVE  told' \in [ChargePoints -> [EVSEs -> [EVSEStatuses -> Int]]] /\ ChangesAddUp'
<1>1. /\ e \in StatusChanges
      /\ outbox'[c].changes = outbox[c].changes \ {e}
      /\ \A d \in Conns \ {c} : outbox'[d].changes = outbox[d].changes
  BY PublishView
<1>2. e.cp \in ChargePoints /\ e.uid \in EVSEs
  BY <1>1 DEF StatusChanges
<1> DEFINE row == [s \in EVSEStatuses |->
                      told[e.cp][e.uid][s] + Is(e.to, s) - Is(e.from, s)]
<1>3. /\ cps' = cps
      /\ told' = [told EXCEPT ![e.cp] = [told[e.cp] EXCEPT ![e.uid] = row]]
  BY DEF PublishChange
<1>4. row \in [EVSEStatuses -> Int]
  BY <1>2 DEF TypeOK, Is
<1>5. \A s \in EVSEStatuses : row[s] = told[e.cp][e.uid][s] + Is(e.to, s) - Is(e.from, s)
  OBVIOUS
<1> HIDE DEF row
<1>6. /\ told' \in [ChargePoints -> [EVSEs -> [EVSEStatuses -> Int]]]
      /\ told'[e.cp][e.uid] = row
      /\ \A i \in ChargePoints, u \in EVSEs :
            i # e.cp \/ u # e.uid => told'[i][u] = told[i][u]
  BY <1>2, <1>3, <1>4 DEF TypeOK
<1>7. ASSUME NEW i \in ChargePoints, NEW u \in EVSEs, NEW s \in EVSEStatuses
      PROVE  told'[i][u][s] + Cardinality(Entering(i, u, s)')
                 - Cardinality(Leaving(i, u, s)')
               = Is(Shown(cps'[i], u), s) - Is("UNKNOWN", s)
  <2> DEFINE in == Entering(i, u, s)
             out == Leaving(i, u, s)
  <2>1. /\ told[i][u][s] \in Int
        /\ in \in SUBSET Conns /\ out \in SUBSET Conns
        /\ Cardinality(in) \in Nat /\ Cardinality(out) \in Nat
        /\ told[i][u][s] + Cardinality(in) - Cardinality(out)
             = Is(Shown(cps[i], u), s) - Is("UNKNOWN", s)
    BY CountType DEF TypeOK, ChangesAddUp
  <2>2. in' \in SUBSET Conns /\ out' \in SUBSET Conns
    BY DEF Entering, Leaving
  <2>3. \A d \in Conns \ {c} : (d \in in' <=> d \in in) /\ (d \in out' <=> d \in out)
    BY <1>1 DEF Entering, Leaving
  <2>4. CASE i = e.cp /\ u = e.uid
    <3>1. c \notin in' /\ c \notin out'
      BY <1>1, <2>4 DEF Entering, Leaving, ViewInv
    <3>2. (c \in in <=> e.to = s) /\ (c \in out <=> e.from = s)
      BY <2>4 DEF Entering, Leaving, ViewInv
    <3>3. told'[i][u][s] = told[i][u][s] + Is(e.to, s) - Is(e.from, s)
      BY <1>5, <1>6, <2>4
    <3> HIDE DEF in, out
    <3>4. Cardinality(in') = Cardinality(in) - Is(e.to, s)
      <4>1. CASE e.to = s
        <5>1. in' = in \ {c}
          BY <2>1, <2>2, <2>3, <3>1
        <5>2. QED
          BY <2>1, <3>2, <4>1, <5>1, OneLess DEF Is
      <4>2. CASE e.to # s
        <5>1. in' = in
          BY <2>1, <2>2, <2>3, <3>1, <3>2, <4>2, SameConns
        <5>2. QED
          BY <2>1, <4>2, <5>1 DEF Is
      <4>3. QED
        BY <4>1, <4>2
    <3>5. Cardinality(out') = Cardinality(out) - Is(e.from, s)
      <4>1. CASE e.from = s
        <5>1. out' = out \ {c}
          BY <2>1, <2>2, <2>3, <3>1
        <5>2. QED
          BY <2>1, <3>2, <4>1, <5>1, OneLess DEF Is
      <4>2. CASE e.from # s
        <5>1. out' = out
          BY <2>1, <2>2, <2>3, <3>1, <3>2, <4>2, SameConns
        <5>2. QED
          BY <2>1, <4>2, <5>1 DEF Is
      <4>3. QED
        BY <4>1, <4>2
    <3>6. QED
      BY <1>3, <2>1, <3>3, <3>4, <3>5 DEF Is, in, out
  <2>5. CASE ~(i = e.cp /\ u = e.uid)
    <3>1. (c \in in' <=> c \in in) /\ (c \in out' <=> c \in out)
      BY <1>1, <2>5 DEF Entering, Leaving
    <3>2. told'[i][u] = told[i][u]
      BY <1>6, <2>5
    <3> HIDE DEF in, out
    <3>3. in' = in /\ out' = out
      BY <2>1, <2>2, <2>3, <3>1, SameConns
    <3>4. QED
      BY <1>3, <2>1, <3>2, <3>3 DEF in, out
  <2>6. QED
    BY <2>4, <2>5
<1>8. QED
  BY <1>6, <1>7 DEF ChangesAddUp

\* A status change is handed to the bus: the subscriber hears of one EVSE.
LEMMA PublishChangeStep ==
    ASSUME IInv, NEW c \in Conns, NEW e \in outbox[c].changes, PublishChange(c, e)
    PROVE  IInv'
<1>1. /\ e \in StatusChanges
      /\ outbox' \in [Conns -> [first : Events \cup {NoEvent}, changes : SUBSET StatusChanges]]
      /\ ViewInv'
  BY PublishView DEF IInv
<1>2. told' \in [ChargePoints -> [EVSEs -> [EVSEStatuses -> Int]]] /\ ChangesAddUp'
  BY PublishAddUp DEF IInv
<1>3. /\ UNCHANGED <<cps, known, nextTxID, serves, raced>>
      /\ seen' = [seen EXCEPT ![e.cp] = [seen[e.cp] EXCEPT ![e.uid] = e.to]]
  BY DEF PublishChange
<1>4. seen' \in [ChargePoints -> [EVSEs -> EVSEStatuses]]
  BY <1>1, <1>3 DEF IInv, TypeOK, StatusChanges
<1>5. TypeOK'
  BY <1>1, <1>2, <1>3, <1>4 DEF IInv, TypeOK
<1>6. (OrderIsRegistry /\ EffectiveIsDerived /\ TransactionIDsUnique)'
  BY <1>3 DEF IInv, OrderIsRegistry, EffectiveIsDerived, TransactionIDsUnique,
              RegistryOK, DerivedOK, Derived, ConfiguredUIDs
<1>7. QED
  BY <1>1, <1>2, <1>5, <1>6 DEF IInv

\* A Service as New builds it, with nothing in flight.
Fresh ==
    /\ cps = [id \in ChargePoints |->
                IF id = Charger THEN configuredChargePoint ELSE newChargePoint]
    /\ known = {Charger} /\ nextTxID = 1
    /\ outbox = [c \in Conns |-> EmptyOutbox]
    /\ serves \in [Conns -> ChargePoints]
    /\ seen = [id \in ChargePoints |-> [u \in EVSEs |-> "UNKNOWN"]]
    /\ told = Untold
    /\ raced = [id \in ChargePoints |-> {}]

\* It satisfies the invariant.
LEMMA FreshService == Fresh => IInv
<1> SUFFICES ASSUME Fresh PROVE IInv
  OBVIOUS
<1> USE DEF Fresh
<1>1. \A id \in ChargePoints : Good(id, cps[id])
  BY NewGood
<1>2. TypeOK
  <2>1. cps \in [ChargePoints -> ChargePointStates]
    BY NewGood DEF Good
  <2>2. EmptyOutbox \in [first : Events \cup {NoEvent}, changes : SUBSET StatusChanges]
    BY DEF EmptyOutbox
  <2>3. nextTxID \in 1 .. MaxTxID + 1
    BY InstanceAssumption
  <2>4. seen \in [ChargePoints -> [EVSEs -> EVSEStatuses]]
    BY DEF EVSEStatuses
  <2>5. /\ told \in [ChargePoints -> [EVSEs -> [EVSEStatuses -> Int]]]
        /\ raced \in [ChargePoints -> SUBSET EVSEs]
    BY DEF Untold
  <2>6. QED
    BY <2>1, <2>2, <2>3, <2>4, <2>5, ConfigAssumption DEF TypeOK
<1>3. OrderIsRegistry /\ EffectiveIsDerived
  BY <1>1 DEF Good, OrderIsRegistry, EffectiveIsDerived
<1>4. TransactionIDsUnique
  BY NewGood DEF TransactionIDsUnique
<1>5. \A id \in ChargePoints : \A u \in EVSEs : Shown(cps[id], u) = "UNKNOWN"
  <2>1. \A u \in EVSEs : Shown(configuredChargePoint, u) = "UNKNOWN"
    BY ConfigAssumption DEF configuredChargePoint, newChargePoint, Shown
  <2>2. \A u \in EVSEs : Shown(newChargePoint, u) = "UNKNOWN"
    BY DEF newChargePoint, Shown
  <2>3. QED
    BY <2>1, <2>2
<1>6. \A c \in Conns : outbox[c].changes = {}
  BY DEF EmptyOutbox
<1>7. ViewInv
  BY <1>5, <1>6 DEF ViewInv, Pending
<1>8. ChangesAddUp
  <2>1. \A id, u, s : Entering(id, u, s) = {} /\ Leaving(id, u, s) = {}
    BY <1>6 DEF Entering, Leaving
  <2>2. \A id, u, s : /\ Cardinality(Entering(id, u, s)) = 0
                      /\ Cardinality(Leaving(id, u, s)) = 0
    BY <2>1, FS_EmptySet
  <2>3. \A id \in ChargePoints, u \in EVSEs, s \in EVSEStatuses : told[id][u][s] = 0
    BY DEF Untold
  <2>4. QED
    BY <1>5, <2>2, <2>3 DEF ChangesAddUp, Is
<1>9. QED
  BY <1>2, <1>3, <1>4, <1>7, <1>8 DEF IInv

\* The process is started again.
LEMMA RestartStep ==
    ASSUME IInv, Restart
    PROVE  IInv'
<1>1. Fresh'
  BY DEF Restart, IInv, TypeOK, Fresh, Untold
<1>2. Fresh' => IInv'
  BY FreshService, PTL
<1>3. QED
  BY <1>1, <1>2

-----------------------------------------------------------------------------
(***************************************************************************)
(* The theorems.                                                           *)
(***************************************************************************)
\* Every step of the program preserves the inductive invariant.
LEMMA NextIInv == IInv /\ [Next]_vars => IInv'
<1> SUFFICES ASSUME IInv, [Next]_vars PROVE IInv'
  OBVIOUS
<1>1. ASSUME NEW c \in Conns, Connected(c) \/ Disconnected(c) PROVE IInv'
  BY <1>1, ConnectedStep
<1>2. ASSUME NEW c \in Conns, DisconnectedAgain(c) PROVE IInv'
  BY <1>2, NoChangeStep DEF DisconnectedAgain
<1>3. ASSUME NEW c \in Conns, HandleCall(c) PROVE IInv'
  <2>1. ASSUME NEW kind \in {"boot_notified", "heartbeat"}, Alive(c, kind) PROVE IInv'
    <3>1. serves[c] \in ChargePoints
      BY ServesType
    <3>2. Event(kind, serves[c], None, None, None) \in Events
      BY <3>1 DEF Event, Events
    <3>3. QED
      BY <2>1, <3>2, NoChangeStep DEF Alive
  <2>2. CASE Seen(c)
    BY <2>2, NoChangeStep DEF Seen
  <2>3. ASSUME NEW s \in Reports, SetStationStatus(c, s) PROVE IInv'
    BY <2>3, StationStatusStep
  <2>4. ASSUME NEW n \in Connectors, NEW s \in Reports, SetConnectorStatus(c, n, s) PROVE IInv'
    BY <2>4, ConnectorStatusStep
  <2>5. ASSUME NEW n \in Connectors, StartTransaction(c, n) PROVE IInv'
    BY <2>5, StartStep
  <2>6. ASSUME NEW i \in TxIDs, StopTransaction(c, i) PROVE IInv'
    BY <2>6, StopStep
  <2>7. ASSUME NEW i \in TxIDs, StopUnknown(c, i) PROVE IInv'
    BY <2>7, NoChangeStep DEF StopUnknown
  <2>8. ASSUME NEW n \in Connectors, RecordMeterValues(c, n) PROVE IInv'
    BY <2>8, MeterStep
  <2>9. QED
    BY <1>3, <2>1, <2>2, <2>3, <2>4, <2>5, <2>6, <2>7, <2>8 DEF HandleCall
<1>4. ASSUME NEW c \in Conns, PublishFirst(c) PROVE IInv'
  BY <1>4, PublishFirstStep
<1>5. ASSUME NEW c \in Conns, NEW e \in outbox[c].changes, PublishChange(c, e) PROVE IInv'
  BY <1>5, PublishChangeStep
<1>6. CASE Restart
  BY <1>6, RestartStep
<1>7. CASE UNCHANGED vars
  <2>1. UNCHANGED <<cps, known, nextTxID, outbox, serves, seen, told, raced>>
    BY <1>7 DEF vars, history
  <2>2. (TypeOK /\ OrderIsRegistry /\ EffectiveIsDerived /\ TransactionIDsUnique)'
    BY <2>1 DEF IInv, TypeOK, OrderIsRegistry, EffectiveIsDerived,
                TransactionIDsUnique, RegistryOK, DerivedOK, Derived, ConfiguredUIDs
  <2>3. ViewInv'
    BY <2>1 DEF IInv, ViewInv, Pending
  <2>4. ChangesAddUp'
    <3>1. \A i, u, s : /\ Entering(i, u, s)' = Entering(i, u, s)
                       /\ Leaving(i, u, s)' = Leaving(i, u, s)
      BY <2>1 DEF Entering, Leaving
    <3>2. QED
      BY <2>1, <3>1 DEF IInv, ChangesAddUp
  <2>5. QED
    BY <2>2, <2>3, <2>4 DEF IInv
<1>8. QED
  BY <1>1, <1>2, <1>3, <1>4, <1>5, <1>6, <1>7 DEF Next

\* The inductive invariant, type correctness included, holds throughout.
THEOREM IInvHolds == Spec => []IInv
<1>1. Init => IInv
  <2>1. Init => Fresh
    BY InstanceAssumption DEF Init, Fresh
  <2>2. QED
    BY <2>1, FreshService
<1>2. QED
  BY <1>1, NextIInv, PTL DEF Spec

\* Type correctness of Service, the events in flight and a subscriber's view.
THEOREM TypeCorrect == Spec => []TypeOK
<1>1. IInv => TypeOK
  BY DEF IInv
<1>2. QED
  BY <1>1, IInvHolds, PTL

\* recompute never misses an EVSE it should visit.
THEOREM OrderIsRegistryHolds == Spec => []OrderIsRegistry
<1>1. IInv => OrderIsRegistry
  BY DEF IInv
<1>2. QED
  BY <1>1, IInvHolds, PTL

\* The status cpms advertises for an EVSE is never stale.
THEOREM EffectiveIsDerivedHolds == Spec => []EffectiveIsDerived
<1>1. IInv => EffectiveIsDerived
  BY DEF IInv
<1>2. QED
  BY <1>1, IInvHolds, PTL

\* cpms never advertises a connector as usable when the station is out of
\* reach, says it is down, or has not said so about the connector.
THEOREM UsableOnlyIfReachableHolds == Spec => []UsableOnlyIfReachable
<1>1. IInv => UsableOnlyIfReachable
  <2> SUFFICES ASSUME IInv, NEW id \in ChargePoints, NEW u \in EVSEs,
                      cps[id].effective[u] \in {"AVAILABLE", "CHARGING", "RESERVED"}
               PROVE  /\ cps[id].online
                      /\ cps[id].station \notin StationDown
                      /\ cps[id].reported[u] = cps[id].effective[u]
    BY DEF UsableOnlyIfReachable
  <2>1. Good(id, cps[id])
    BY IsGood
  <2>2. u \in cps[id].order
    BY <2>1 DEF Good, RegistryOK, None
  <2>3. cps[id].effective[u] = Derived(cps[id], u)
    BY <2>1, <2>2 DEF Good, DerivedOK
  <2>4. QED
    BY <2>3 DEF Derived, effectiveStatus, StationDown
<1>2. QED
  BY <1>1, IInvHolds, PTL

\* While the process lives, a transaction id names one transaction.
THEOREM TransactionIDsUniqueHolds == Spec => []TransactionIDsUnique
<1>1. IInv => TransactionIDsUnique
  BY DEF IInv
<1>2. QED
  BY <1>1, IInvHolds, PTL

\* No status change is lost, doubled or invented on its way to the bus, however
\* many connections of one station publish at the same time.
THEOREM ChangesAddUpHolds == Spec => []ChangesAddUp
<1>1. IInv => ChangesAddUp
  BY DEF IInv
<1>2. QED
  BY <1>1, IInvHolds, PTL

\* Only two unpublished changes of one EVSE can leave a subscriber with an old
\* status, and the next change of that EVSE repairs it.
THEOREM StaleOnlyAfterRaceHolds == Spec => []StaleOnlyAfterRace
<1>1. IInv => StaleOnlyAfterRace
  <2> SUFFICES ASSUME IInv, NEW id \in ChargePoints,
                      NEW u \in cps[id].order \ raced[id],
                      \A c \in Conns : ~Pending(c, id, u)
               PROVE  seen[id][u] = cps[id].effective[u]
    BY DEF StaleOnlyAfterRace
  <2>1. u \in EVSEs
    BY DEF IInv, TypeOK, ChargePointStates
  <2>2. seen[id][u] = Shown(cps[id], u)
    BY <2>1 DEF IInv, ViewInv, Pending
  <2>3. QED
    BY <2>2 DEF Shown
<1>2. QED
  BY <1>1, IInvHolds, PTL

-----------------------------------------------------------------------------
(***************************************************************************)
(* What a step may not do to a recorded transaction.                       *)
(***************************************************************************)
\* Transaction new is old, or old stopped, if old is a transaction at all.
Kept(old, new) ==
    old # NoTx => \/ new = old
                  \/ old.active /\ new = [old EXCEPT !.active = FALSE]

\* A critical section that leaves the station's transactions alone.
LEMMA KeptByCommit ==
    ASSUME IInv, NEW c \in Conns, NEW cp, NEW first, NEW changes,
           Commit(c, serves[c], cp, first, changes),
           cp.transactions = cps[serves[c]].transactions,
           NEW id \in ChargePoints, NEW i \in TxIDs
    PROVE  Kept(cps[id].transactions[i], cps'[id].transactions[i])
<1>1. cps'[id].transactions = cps[id].transactions
  BY ServesType DEF Commit, IInv, TypeOK
<1>2. QED
  BY <1>1 DEF Kept

\* No action but a restart rewrites a recorded transaction.
LEMMA KeptByNext ==
    ASSUME IInv, [Next]_vars, ~Restart,
           NEW id \in ChargePoints, NEW i \in TxIDs
    PROVE  Kept(cps[id].transactions[i], cps'[id].transactions[i])
<1> DEFINE Goal == Kept(cps[id].transactions[i], cps'[id].transactions[i])
<1>1. ASSUME NEW c \in Conns, Connected(c) \/ Disconnected(c) PROVE Goal
  <2>1. serves[c] \in ChargePoints
    BY ServesType
  <2>2. cps[serves[c]] \in ChargePointStates
    BY <2>1 DEF IInv, TypeOK
  <2>3. \A b \in BOOLEAN : recompute([cps[serves[c]] EXCEPT !.online = b]).transactions
                             = cps[serves[c]].transactions
    BY <2>2 DEF recompute, ChargePointStates
  <2>4. QED
    BY <1>1, <2>3, KeptByCommit DEF Connected, Disconnected
<1>2. ASSUME NEW c \in Conns, NEW first, Commit(c, serves[c], cps[serves[c]], first, {})
      PROVE  Goal
  BY <1>2, KeptByCommit
<1>3. ASSUME NEW c \in Conns, HandleCall(c) PROVE Goal
  <2> DEFINE me == serves[c]
  <2>1. me \in ChargePoints
    BY ServesType
  <2>2. Good(me, cps[me])
    BY <2>1, IsGood
  <2>3. cps[me] \in ChargePointStates
    BY <2>2 DEF Good
  <2>4. ASSUME NEW kind, Alive(c, kind) PROVE Goal
    BY <1>2, <2>4 DEF Alive
  <2>5. CASE Seen(c)
    BY <1>2, <2>5 DEF Seen
  <2>6. ASSUME NEW s \in Reports, SetStationStatus(c, s) PROVE Goal
    <3>1. \A to : recompute([cps[me] EXCEPT !.station = to]).transactions = cps[me].transactions
      BY <2>3 DEF recompute, ChargePointStates
    <3>2. QED
      BY <2>6, <3>1, KeptByCommit DEF SetStationStatus
  <2>7. ASSUME NEW n \in Connectors, NEW s \in Reports, SetConnectorStatus(c, n, s) PROVE Goal
    <3> DEFINE uid == evseUID(me, n)
               added == addEVSE(cps[me], uid, n)
               set == [added EXCEPT !.reported = [added.reported EXCEPT ![uid] = statusMap[s]]]
    <3>1. uid \in EVSEs
      BY <2>1, UIDType
    <3>2. Commit(c, me, recompute(set), NoEvent, statusEvents(me, set, recompute(set)))
      BY <2>7 DEF SetConnectorStatus
    <3> HIDE DEF uid
    <3>3. Good(me, added) /\ added.transactions = cps[me].transactions
      BY <2>1, <2>2, <3>1, AddEVSE
    <3> HIDE DEF added
    <3>4. added \in ChargePointStates
      BY <3>3 DEF Good
    <3>5. recompute(set).transactions = added.transactions
      BY <3>4 DEF recompute, ChargePointStates
    <3> HIDE DEF set
    <3>6. QED
      BY <3>2, <3>3, <3>5, KeptByCommit
  <2>8. ASSUME NEW n \in Connectors, StartTransaction(c, n) PROVE Goal
    <3> DEFINE uid == evseUID(me, n)
               added == addEVSE(cps[me], uid, n)
               tx == [evse |-> uid, connector |-> n, active |-> TRUE]
               cp == [added EXCEPT !.transactions = [added.transactions EXCEPT ![nextTxID] = tx]]
    <3>1. uid \in EVSEs
      BY <2>1, UIDType
    <3>2. /\ nextTxID \in TxIDs
          /\ Commit(c, me, cp, Event("transaction_started", me, uid, None, None), {})
      BY <2>8 DEF StartTransaction
    <3> HIDE DEF uid, tx
    <3>3. Good(me, added) /\ added.transactions = cps[me].transactions
      BY <2>1, <2>2, <3>1, AddEVSE
    <3> HIDE DEF added
    <3>4. /\ cps'[me] = cp
          /\ \A k \in ChargePoints \ {me} : cps'[k] = cps[k]
      BY <2>1, <3>2 DEF Commit, IInv, TypeOK
    <3>5. cp.transactions = [added.transactions EXCEPT ![nextTxID] = tx]
      BY <3>3 DEF Good, ChargePointStates
    <3> HIDE DEF cp
    <3>6. cps[me].transactions[nextTxID] = NoTx
      BY <2>1, <3>2 DEF IInv, TypeOK, TransactionIDsUnique
    <3>7. \A j \in TxIDs \ {nextTxID} : cp.transactions[j] = cps[me].transactions[j]
      BY <2>3, <3>3, <3>5 DEF ChargePointStates
    <3>8. QED
      BY <3>4, <3>6, <3>7 DEF Kept
  <2>9. ASSUME NEW j \in TxIDs, StopTransaction(c, j) PROVE Goal
    <3> DEFINE tx == cps[me].transactions[j]
               stopped == [tx EXCEPT !.active = FALSE]
               cp == [cps[me] EXCEPT !.transactions = [cps[me].transactions EXCEPT ![j] = stopped]]
    <3>1. /\ tx # NoTx /\ tx.active
          /\ Commit(c, me, cp, Event("transaction_stopped", me, tx.evse, None, None), {})
      BY <2>9 DEF StopTransaction
    <3>2. /\ cps'[me] = cp
          /\ \A k \in ChargePoints \ {me} : cps'[k] = cps[k]
      BY <2>1, <3>1 DEF Commit, IInv, TypeOK
    <3> HIDE DEF stopped
    <3>3. cp.transactions = [cps[me].transactions EXCEPT ![j] = stopped]
      BY <2>3 DEF ChargePointStates
    <3> HIDE DEF cp
    <3>4. /\ cp.transactions[j] = stopped
          /\ \A k \in TxIDs \ {j} : cp.transactions[k] = cps[me].transactions[k]
      BY <2>3, <3>3 DEF ChargePointStates
    <3>5. CASE id = me /\ i = j
      BY <3>1, <3>2, <3>4, <3>5 DEF Kept, stopped
    <3>6. CASE id # me \/ i # j
      BY <3>2, <3>4, <3>6 DEF Kept
    <3>7. QED
      BY <3>5, <3>6
  <2>10. ASSUME NEW j \in TxIDs, StopUnknown(c, j) PROVE Goal
    BY <1>2, <2>10 DEF StopUnknown
  <2>11. ASSUME NEW n \in Connectors, RecordMeterValues(c, n) PROVE Goal
    <3>1. evseUID(me, n) \in EVSEs
      BY <2>1, UIDType
    <3>2. addEVSE(cps[me], evseUID(me, n), n).transactions = cps[me].transactions
      BY <2>1, <2>2, <3>1, AddEVSE
    <3>3. QED
      BY <2>11, <3>2, KeptByCommit DEF RecordMeterValues
  <2>12. QED
    BY <1>3, <2>4, <2>5, <2>6, <2>7, <2>8, <2>9, <2>10, <2>11 DEF HandleCall
<1>4. ASSUME UNCHANGED cps PROVE Goal
  BY <1>4 DEF Kept
<1>5. ~Restart
  OBVIOUS
<1>6. ASSUME NEW c \in Conns, DisconnectedAgain(c) PROVE Goal
  BY <1>2, <1>6 DEF DisconnectedAgain
<1>7. ASSUME NEW c \in Conns, PublishFirst(c) PROVE Goal
  BY <1>4, <1>7 DEF PublishFirst
<1>8. ASSUME NEW c \in Conns, NEW e, PublishChange(c, e) PROVE Goal
  BY <1>4, <1>8 DEF PublishChange
<1>9. CASE UNCHANGED vars
  BY <1>4, <1>9 DEF vars
<1>10. QED
  BY <1>1, <1>3, <1>5, <1>6, <1>7, <1>8, <1>9 DEF Next

\* A late, repeated or retried message never rewrites a recorded transaction:
\* StartTransaction always finds its id unused, StopTransaction only stops.
THEOREM TransactionsAppendOnlyHolds == Spec => TransactionsAppendOnly
<1> DEFINE A == ~Restart =>
                    \A id \in ChargePoints, i \in TxIDs :
                        Kept(cps[id].transactions[i], cps'[id].transactions[i])
<1>1. IInv /\ [Next]_vars => [A]_vars
  BY KeptByNext
<1>2. Spec => [][A]_vars
  BY <1>1, IInvHolds, PTL DEF Spec
<1>3. QED
  BY <1>2 DEF TransactionsAppendOnly, Kept
=============================================================================
