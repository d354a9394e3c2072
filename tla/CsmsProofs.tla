----------------------------- MODULE CsmsProofs -----------------------------
(***************************************************************************)
(* Proofs about Csms, for any set of stations and dials.                   *)
(***************************************************************************)
EXTENDS Csms, TLAPS

\* Inv holds initially: no goroutine has registered.
LEMMA InitInv == Init => Inv
BY ServesAssumption
DEF Init, Inv, TypeOK, SupersededIsClosed, RegistryIsServed, PCs, ServerPCs

\* Every step of a serving goroutine, of a link and of Shutdown preserves Inv.
LEMMA NextInv == Inv /\ [Next]_vars => Inv'
<1> SUFFICES ASSUME Inv, [Next]_vars PROVE Inv'
  OBVIOUS
<1> USE ServesAssumption
        DEF Inv, TypeOK, SupersededIsClosed, RegistryIsServed, PCs, ServerPCs, Goto
<1>0. patient' = patient
  BY DEF Next, vars
<1>1. ASSUME NEW c \in Conns, Dial(c) PROVE Inv'
  BY <1>0, <1>1 DEF Dial
<1>2. ASSUME NEW c \in Conns, Reject(c) PROVE Inv'
  BY <1>0, <1>2 DEF Reject
<1>3. ASSUME NEW c \in Conns, Upgrade(c) PROVE Inv'
  BY <1>0, <1>3 DEF Upgrade
<1>4. ASSUME NEW c \in Conns, Spawn(c) PROVE Inv'
  BY <1>0, <1>4 DEF Spawn
<1>5. ASSUME NEW c \in Conns, Register(c) PROVE Inv'
  BY <1>0, <1>5 DEF Register
<1>6. ASSUME NEW c \in Conns, ReportConnected(c) PROVE Inv'
  BY <1>0, <1>6 DEF ReportConnected
<1>7. ASSUME NEW c \in Conns, RunReturns(c) PROVE Inv'
  BY <1>0, <1>7 DEF RunReturns
<1>8. ASSUME NEW c \in Conns, Unregister(c) PROVE Inv'
  BY <1>0, <1>8 DEF Unregister
<1>9. ASSUME NEW c \in Conns, Superseded(c) PROVE Inv'
  BY <1>0, <1>9 DEF Superseded
<1>10. ASSUME NEW c \in Conns, ReportDisconnected(c) PROVE Inv'
  BY <1>0, <1>10 DEF ReportDisconnected
<1>11. ASSUME NEW c \in Conns, LinkDies(c) PROVE Inv'
  BY <1>0, <1>11 DEF LinkDies
<1>12. CASE ShutdownCloses
  BY <1>0, <1>12 DEF ShutdownCloses
<1>13. CASE ShutdownSteps
  BY <1>0, <1>13 DEF ShutdownSteps, ShutdownListener, ShutdownHTTP, ShutdownDone, ShutdownExpires
<1>14. CASE UNCHANGED vars
  BY <1>0, <1>14 DEF vars
<1>15. QED
  BY <1>1, <1>2, <1>3, <1>4, <1>5, <1>6, <1>7, <1>8, <1>9, <1>10, <1>11,
     <1>12, <1>13, <1>14 DEF Next, Serve

\* The inductive invariant of the server holds throughout.
THEOREM InvHolds == Spec => []Inv
BY InitInv, NextInv, PTL DEF Spec

\* However dials, replacements, ends and Shutdown interleave, a station has at
\* most one open connection: serveConn closes what it replaces.
THEOREM SupersededIsClosedHolds == Spec => []SupersededIsClosed
<1>1. Inv => SupersededIsClosed
  BY DEF Inv
<1>2. QED
  BY <1>1, InvHolds, PTL

\* Server.ChargePoint and Command only ever hand out a connection whose
\* goroutine is still serving that station.
THEOREM RegistryIsServedHolds == Spec => []RegistryIsServed
<1>1. Inv => RegistryIsServed
  BY DEF Inv
<1>2. QED
  BY <1>1, InvHolds, PTL

-----------------------------------------------------------------------------
(***************************************************************************)
(* A station that redials only once its old connection has ended.          *)
(***************************************************************************)
\* PatientInv holds initially: nobody has dialled.
LEMMA InitPatient == Init => PatientInv
BY ServesAssumption DEF Init, PatientInv, Finished

\* Every step preserves PatientInv.  The steps that matter are Dial, which
\* keeps dials exclusive, and Superseded, which cannot happen.
LEMMA NextPatient == Inv /\ PatientInv /\ [Next]_vars => PatientInv'
<1> SUFFICES ASSUME Inv, PatientInv, [Next]_vars PROVE PatientInv'
  OBVIOUS
<1> USE ServesAssumption DEF Inv, TypeOK, PatientInv, Finished, Goto, PCs
<1>0. patient' = patient
  BY DEF Next, vars
<1>1. ASSUME NEW c \in Conns, Dial(c) PROVE PatientInv'
  BY <1>0, <1>1 DEF Dial
<1>2. ASSUME NEW c \in Conns, Reject(c) PROVE PatientInv'
  BY <1>0, <1>2 DEF Reject
<1>3. ASSUME NEW c \in Conns, Upgrade(c) PROVE PatientInv'
  BY <1>0, <1>3 DEF Upgrade
<1>4. ASSUME NEW c \in Conns, Spawn(c) PROVE PatientInv'
  BY <1>0, <1>4 DEF Spawn
<1>5. ASSUME NEW c \in Conns, Register(c) PROVE PatientInv'
  BY <1>0, <1>5 DEF Register
<1>6. ASSUME NEW c \in Conns, ReportConnected(c) PROVE PatientInv'
  BY <1>0, <1>6 DEF ReportConnected
<1>7. ASSUME NEW c \in Conns, RunReturns(c) PROVE PatientInv'
  BY <1>0, <1>7 DEF RunReturns
<1>8. ASSUME NEW c \in Conns, Unregister(c) PROVE PatientInv'
  BY <1>0, <1>8 DEF Unregister
<1>9. ASSUME NEW c \in Conns, Superseded(c) PROVE PatientInv'
  BY <1>0, <1>9 DEF Superseded
<1>10. ASSUME NEW c \in Conns, ReportDisconnected(c) PROVE PatientInv'
  BY <1>0, <1>10 DEF ReportDisconnected
<1>11. ASSUME NEW c \in Conns, LinkDies(c) PROVE PatientInv'
  BY <1>0, <1>11 DEF LinkDies
<1>12. CASE ShutdownCloses
  BY <1>0, <1>12 DEF ShutdownCloses
<1>13. CASE ShutdownSteps
  BY <1>0, <1>13 DEF ShutdownSteps, ShutdownListener, ShutdownHTTP, ShutdownDone, ShutdownExpires
<1>14. CASE UNCHANGED vars
  BY <1>0, <1>14 DEF vars
<1>15. QED
  BY <1>1, <1>2, <1>3, <1>4, <1>5, <1>6, <1>7, <1>8, <1>9, <1>10, <1>11,
     <1>12, <1>13, <1>14 DEF Next, Serve

\* PatientInv holds throughout.
LEMMA PatientInvHolds == Spec => []PatientInv
BY InitPatient, NextPatient, InvHolds, PTL DEF Spec

\* The core never shows a station online that has no connection, if it waits
\* for its old connection to end: serveConn's second call into the core always
\* comes after its first.
THEOREM NoGhostStationHolds == Spec => []NoGhostStation
<1>1. Inv /\ PatientInv => NoGhostStation
  BY ServesAssumption DEF Inv, TypeOK, PatientInv, NoGhostStation, Finished
<1>2. QED
  BY <1>1, InvHolds, PatientInvHolds, PTL

\* The core shows a station that waits for its old connection to end online
\* while its connection runs.
THEOREM PatientStationOnlineHolds == Spec => []PatientStationOnline
<1>1. Inv /\ PatientInv => PatientStationOnline
  BY ServesAssumption
  DEF Inv, TypeOK, PatientInv, PatientStationOnline, OnlineWhileServed
<1>2. QED
  BY <1>1, InvHolds, PatientInvHolds, PTL
=============================================================================
