-------------------------------- MODULE Csms --------------------------------
(***************************************************************************)
(* The OCPP server (internal/ocpp/csms): from a charge point's dial to the *)
(* end of the goroutine that serves its connection, and Shutdown.          *)
(*                                                                         *)
(* serveConn holds Server.mu only around its two looks at the registry;    *)
(* it calls Core.Connected and Core.Disconnected outside of it.  A step    *)
(* below is one critical section, or one call into the core, of one        *)
(* goroutine.  Of the core only the online flag is kept: what it implies   *)
(* for the EVSEs is module Core.  Of ocppj.Conn only Run and Close are     *)
(* kept: they are module OcppjConn.                                        *)
(***************************************************************************)
EXTENDS FiniteSets

CONSTANTS
    Stations,   \* charge point identities
    Accepts,    \* the identities Options.Accept lets in
    Conns,      \* the dials; each is used once
    Serves,     \* the identity a dial gives in its path
    Speaks,     \* the dials that offer a subprotocol we have a handler for
    Patience,   \* the sets of patient stations to look at
    NoConn      \* the registry has no entry

ASSUME ServesAssumption ==
    /\ Accepts \subseteq Stations
    /\ Serves \in [Conns -> Stations]
    /\ Speaks \subseteq Conns
    /\ Patience \subseteq SUBSET Stations
    /\ NoConn \notin Conns

VARIABLES
    pc,         \* where the goroutine of each dial stands
    conns,      \* Server.conns: the current connection of each station
    closed,     \* the connections whose Close has run
    dead,       \* the connections whose socket reads fail: peer gone, watchdog
    online,     \* core: the station is shown as connected
    server,     \* where Shutdown stands
    patient     \* the stations that redial only after we have noticed their
                \* loss; chosen once

vars == <<pc, conns, closed, dead, online, server, patient>>

\* new         not dialled yet
\* handshake   in ServeHTTP, before Upgrade takes the socket over
\* rejected    answered with an HTTP error
\* hijacked    upgraded, before wg.Add
\* spawned     goroutine counted in the wait group, not yet registered
\* registered  in the registry, before Core.Connected
\* running     in Conn.Run
\* stopped     Run has returned, before the second look at the registry
\* leaving     was current and has deleted itself, before Core.Disconnected
\* done        serveConn has returned
PCs == {"new", "handshake", "rejected", "hijacked", "spawned", "registered",
        "running", "stopped", "leaving", "done"}

\* up         serving
\* draining   every registered connection closed, listener still open
\* drained    listener closed, waiting for handshakes that are still HTTP
\* waiting    in wg.Wait
\* ok, failed Shutdown has returned nil, or the context's error
ServerPCs == {"up", "draining", "drained", "waiting", "ok", "failed"}

\* The goroutines wg counts: from wg.Add to the deferred wg.Done.
InWaitGroup ==
    {c \in Conns : pc[c] \in {"spawned", "registered", "running", "stopped", "leaving"}}

Finished(c) == pc[c] \in {"new", "rejected", "done"}

Init ==
    /\ pc = [c \in Conns |-> "new"]
    /\ conns = [s \in Stations |-> NoConn]
    /\ closed = {}
    /\ dead = {}
    /\ online = [s \in Stations |-> FALSE]
    /\ server = "up"
    /\ patient \in Patience

Goto(c, from, to) == pc[c] = from /\ pc' = [pc EXCEPT ![c] = to]

-----------------------------------------------------------------------------
\* A station dials.  Nothing forbids it to do so while we still hold an older
\* connection of it for alive; a patient one waits until that has ended.
Dial(c) ==
    /\ Goto(c, "new", "handshake")
    /\ server \in {"up", "draining"}
    /\ Serves[c] \in patient => \A d \in Conns : Serves[d] = Serves[c] => Finished(d)
    /\ UNCHANGED <<conns, closed, dead, online, server>>

\* ServeHTTP: unknown identity, or no subprotocol in common, or Upgrade fails.
Reject(c) ==
    /\ Goto(c, "handshake", "rejected")
    /\ UNCHANGED <<conns, closed, dead, online, server>>

\* ServeHTTP: Upgrade takes the socket away from net/http.
Upgrade(c) ==
    /\ Serves[c] \in Accepts
    /\ c \in Speaks
    /\ Goto(c, "handshake", "hijacked")
    /\ UNCHANGED <<conns, closed, dead, online, server>>

\* ServeHTTP: wg.Add(1), and the goroutine is started.
Spawn(c) ==
    /\ Goto(c, "hijacked", "spawned")
    /\ UNCHANGED <<conns, closed, dead, online, server>>

-----------------------------------------------------------------------------
\* serveConn, first critical section: close and replace whatever is there.
Register(c) ==
    /\ Goto(c, "spawned", "registered")
    /\ closed' = closed \cup ({conns[Serves[c]]} \ {NoConn})
    /\ conns' = [conns EXCEPT ![Serves[c]] = c]
    /\ UNCHANGED <<dead, online, server>>

\* Mutant of ReportConnected: the core is not told.
ReportConnectedNot(c) ==
    /\ Goto(c, "registered", "running")
    /\ UNCHANGED <<conns, closed, dead, online, server>>

\* serveConn: Core.Connected, outside the mutex.
ReportConnected(c) ==
    /\ Goto(c, "registered", "running")
    /\ online' = [online EXCEPT ![Serves[c]] = TRUE]
    /\ UNCHANGED <<conns, closed, dead, server>>

\* Mutant of RunReturns: a Close from outside does not end readLoop.
RunReturnsIfDead(c) ==
    /\ c \in dead
    /\ Goto(c, "running", "stopped")
    /\ closed' = closed \cup {c}
    /\ UNCHANGED <<conns, dead, online, server>>

\* Mutant of RunReturns: a failing read does not end readLoop.
RunReturnsIfClosed(c) ==
    /\ c \in closed
    /\ Goto(c, "running", "stopped")
    /\ UNCHANGED <<conns, closed, dead, online, server>>

\* Conn.Run returns: reads fail because the socket is gone, silent for too
\* long, or closed by us.  It closes the connection on its way out.
RunReturns(c) ==
    /\ c \in closed \cup dead
    /\ Goto(c, "running", "stopped")
    /\ closed' = closed \cup {c}
    /\ UNCHANGED <<conns, dead, online, server>>

\* Mutant of Unregister: a superseded connection deletes its successor's entry.
UnregisterAny(c) ==
    /\ Goto(c, "stopped", "leaving")
    /\ conns' = [conns EXCEPT ![Serves[c]] = NoConn]
    /\ UNCHANGED <<closed, dead, online, server>>

\* Mutant of Unregister: the entry stays behind.
UnregisterKeeps(c) ==
    /\ conns[Serves[c]] = c
    /\ Goto(c, "stopped", "leaving")
    /\ UNCHANGED <<conns, closed, dead, online, server>>

\* serveConn, second critical section, still current: take the entry out.
Unregister(c) ==
    /\ conns[Serves[c]] = c
    /\ Goto(c, "stopped", "leaving")
    /\ conns' = [conns EXCEPT ![Serves[c]] = NoConn]
    /\ UNCHANGED <<closed, dead, online, server>>

\* serveConn, second critical section, no longer current: leave quietly.
Superseded(c) ==
    /\ conns[Serves[c]] # c
    /\ Goto(c, "stopped", "done")
    /\ UNCHANGED <<conns, closed, dead, online, server>>

\* Mutant of ReportDisconnected: the core is not told.
ReportDisconnectedNot(c) ==
    /\ Goto(c, "leaving", "done")
    /\ UNCHANGED <<conns, closed, dead, online, server>>

\* serveConn: Core.Disconnected, outside the mutex.
ReportDisconnected(c) ==
    /\ Goto(c, "leaving", "done")
    /\ online' = [online EXCEPT ![Serves[c]] = FALSE]
    /\ UNCHANGED <<conns, closed, dead, server>>

\* The peer goes away, the network fails, or the idle watchdog fires.
LinkDies(c) ==
    /\ pc[c] \in {"hijacked", "spawned", "registered", "running"}
    /\ c \notin dead
    /\ dead' = dead \cup {c}
    /\ UNCHANGED <<pc, conns, closed, online, server>>

-----------------------------------------------------------------------------
\* Shutdown: cancel, then close every registered connection under the mutex.
ShutdownCloses ==
    /\ server = "up"
    /\ server' = "draining"
    /\ closed' = closed \cup ({conns[s] : s \in Stations} \ {NoConn})
    /\ UNCHANGED <<pc, conns, dead, online>>

\* http.Server.Shutdown closes the listener ...
ShutdownListener ==
    /\ server = "draining"
    /\ server' = "drained"
    /\ UNCHANGED <<pc, conns, closed, dead, online>>

\* ... and waits for requests that are still HTTP, not for hijacked ones.
ShutdownHTTP ==
    /\ server = "drained"
    /\ \A c \in Conns : pc[c] # "handshake"
    /\ server' = "waiting"
    /\ UNCHANGED <<pc, conns, closed, dead, online>>

\* wg.Wait is through.
ShutdownDone ==
    /\ server = "waiting"
    /\ InWaitGroup = {}
    /\ server' = "ok"
    /\ UNCHANGED <<pc, conns, closed, dead, online>>

\* Mutant of ShutdownExpires: the wait is not bounded by the context.
ShutdownExpiresNever ==
    /\ server = "drained"
    /\ server' = "failed"
    /\ UNCHANGED <<pc, conns, closed, dead, online>>

\* The caller's context expires, in http.Shutdown or in the wait.
ShutdownExpires ==
    /\ server \in {"drained", "waiting"}
    /\ server' = "failed"
    /\ UNCHANGED <<pc, conns, closed, dead, online>>

-----------------------------------------------------------------------------
\* The steps the program takes on its own once they are enabled.
Serve(c) ==
    \/ Reject(c) \/ Upgrade(c) \/ Spawn(c)
    \/ Register(c) \/ ReportConnected(c) \/ RunReturns(c)
    \/ Unregister(c) \/ Superseded(c) \/ ReportDisconnected(c)

ShutdownSteps ==
    ShutdownListener \/ ShutdownHTTP \/ ShutdownDone \/ ShutdownExpires

Next ==
    /\ \/ \E c \in Conns : Dial(c) \/ Serve(c) \/ LinkDies(c)
       \/ ShutdownCloses
       \/ ShutdownSteps
    /\ UNCHANGED patient

Spec == Init /\ [][Next]_vars

\* The Go scheduler runs every goroutine that can run, and a context with a
\* deadline expires.  Nothing makes a station dial or a link die.
FairSpec ==
    /\ Spec
    /\ \A c \in Conns : WF_vars(Serve(c) /\ UNCHANGED patient)
    /\ WF_vars(ShutdownSteps /\ UNCHANGED patient)

-----------------------------------------------------------------------------
(***************************************************************************)
(* Properties.                                                             *)
(***************************************************************************)
\* Type invariant.
TypeOK ==
    /\ pc \in [Conns -> PCs]
    /\ conns \in [Stations -> Conns \cup {NoConn}]
    /\ closed \subseteq Conns
    /\ dead \subseteq Conns
    /\ online \in [Stations -> BOOLEAN]
    /\ server \in ServerPCs
    /\ patient \subseteq Stations

\* At most one connection per station is open: whichever goroutine registered
\* and was then replaced has had its connection closed by the one replacing
\* it, however registrations, ends and replacements interleave.
SupersededIsClosed ==
    \A c \in Conns :
        pc[c] \in {"registered", "running"} => conns[Serves[c]] = c \/ c \in closed

\* What Server.ChargePoint and Command hand out is the connection of a
\* goroutine that is still serving that very station, never one that has left:
\* an ending connection does not take its successor's entry away either.
RegistryIsServed ==
    \A s \in Stations :
        conns[s] # NoConn =>
            /\ Serves[conns[s]] = s
            /\ pc[conns[s]] \in {"registered", "running", "stopped"}

\* The inductive invariant: what the proof of the two properties above needs.
Inv == TypeOK /\ SupersededIsClosed /\ RegistryIsServed

\* core/status.go: "A station we cannot reach tells us nothing about its
\* connectors, so everything reads UNKNOWN": with every goroutine of a patient
\* station gone, the core shows it offline.
NoGhostStation ==
    \A s \in patient :
        (\A c \in Conns : Serves[c] = s => Finished(c)) => ~online[s]

\* While the only goroutine station s has left is in Run, its connection
\* neither closed nor dead, the core shows the station online.
OnlineWhileServed(s) ==
    \A c \in Conns :
        (/\ Serves[c] = s
         /\ pc[c] = "running"
         /\ c \notin closed \cup dead
         /\ \A d \in Conns \ {c} : Serves[d] = s => Finished(d))
        => online[s]

\* csms/server.go: a superseded connection must not "blank out a live
\* station's status".
LiveStationOnline == \A s \in Stations : OnlineWhileServed(s)

\* The same of the stations that wait for their old connection to end.
PatientStationOnline == \A s \in patient : OnlineWhileServed(s)

\* Why both hold for a patient station: its dials exclude one another, so a
\* goroutine that has registered stays current until it leaves, and the core's
\* flag is set exactly while one is between its two calls into the core.
PatientInv ==
    /\ \A c, d \in Conns :
          c # d /\ Serves[c] = Serves[d] /\ Serves[c] \in patient =>
              Finished(c) \/ Finished(d)
    /\ \A c \in Conns :
          Serves[c] \in patient /\ pc[c] \in {"registered", "running", "stopped"} =>
              conns[Serves[c]] = c
    /\ \A s \in patient :
          online[s] <=> \E c \in Conns :
              Serves[c] = s /\ pc[c] \in {"running", "stopped", "leaving"}

\* "Shutdown closes every connection and waits for the goroutines to finish":
\* when it has returned without an error, no connection is left.
ShutdownLeavesNothing ==
    server = "ok" => \A c \in Conns : Finished(c)

\* A connection that was closed, by its successor or by Shutdown, does not
\* linger: its goroutine ends.
ClosedEnds ==
    \A c \in Conns : c \in closed ~> pc[c] = "done"

\* A lost connection is noticed: the patient station of a connection whose
\* link died is shown offline at some later time.
LossIsNoticed ==
    \A c \in Conns :
        (pc[c] = "running" /\ c \in dead /\ Serves[c] \in patient) ~> ~online[Serves[c]]

\* Shutdown returns, whatever connections are doing, because its wait is
\* bounded by the caller's context.
ShutdownReturns == server = "draining" ~> server \in {"ok", "failed"}
=============================================================================
