----------------------------- MODULE Simulator -----------------------------
(***************************************************************************)
(* The built-in charge point (internal/simulator): its connectors, the     *)
(* commands of the CSMS it answers, and the goroutines that report what a  *)
(* command did.                                                            *)
(*                                                                         *)
(* A command changes connectors under Simulator.mu and leaves the rest to  *)
(* a goroutine started by after, which waits, changes connectors further   *)
(* and talks to the CSMS with calls that take their time or fail.  Several *)
(* of these goroutines run at once.  The station as a whole is connector 0 *)
(* of the status function.                                                 *)
(*                                                                         *)
(* External, modelled from how the code uses it: the CSMS, which records   *)
(* the status it was last told per connector and hands out transactions,   *)
(* and the connection, whose calls are answered or fail, before or after   *)
(* the CSMS has acted on them.                                             *)
(*                                                                         *)
(* Commands that change nothing (UnlockConnector, GetConfiguration, Reset, *)
(* an unknown action, a connector reserveNow and the like do not know) are *)
(* not actions, nor is ChangeAvailability of an unknown connector, which   *)
(* is accepted and whose goroutine then finds nothing to change.  Meters,  *)
(* tags, expiry dates and the length of intervals are left out.            *)
(***************************************************************************)
EXTENDS Integers

CONSTANTS
    N,              \* Options.Connectors
    Scenario,       \* Options.Scenario
    Jobs,           \* the goroutines that can be under way at once
    Starter,        \* the goroutine in Connect
    ReservationIDs, \* the ids the CSMS puts into ReserveNow
    Targets,        \* the connectors commands name in this instance
    Availabilities, \* the statuses ChangeAvailability leads to in it
    LocalStatuses,  \* what SetConnectorStatus is called with
    MaxTx           \* bound on the transactions the CSMS hands out

Statuses == {"Available", "Preparing", "Charging", "Finishing", "Reserved",
             "Unavailable", "Faulted"}

ASSUME SimulatorAssumption ==
    /\ N \in Nat \ {0}
    /\ MaxTx \in Nat
    /\ ReservationIDs \subseteq Nat
    /\ Starter \in Jobs
    /\ Targets \subseteq 0 .. N
    /\ Availabilities \subseteq {"Available", "Unavailable"}
    /\ LocalStatuses \subseteq Statuses

ConnectorIDs == 1 .. N

PCs == {"idle", "boot", "next", "alive", "set", "report", "begin",
        "commit", "take", "end", "free"}

VARIABLES
    status,         \* connector.status, and Simulator.station at 0
    transactionID,  \* connector.transactionID, 0 when idle
    reservationID,  \* connector.reservationID, 0 when not reserved
    job,            \* per goroutine: where it is and what it is about
    done,           \* Simulator.done is closed
    conn,           \* the connection: "open" or "closed"
    serving,        \* the goroutine in Run of the connection has not ended
    beat,           \* the heartbeat loop: "before" it is started, "on" while it
                    \* waits, "calling", or "off"
    told,           \* external: the status the CSMS last handled
    running,        \* external: transactions running at the CSMS
    nextTx,         \* external: the next transaction id
    lost,           \* history: transactions a failed call was about
    blurred,        \* history: connectors two goroutines were about at once,
                    \* or a report of which failed, and no later report was
                    \* made undisturbed
    contested,      \* history: connectors with a start under way that met
                    \* another one, or a session
    replaced        \* history: transactions such a start has put another for

connectors == <<status, transactionID, reservationID>>
link       == <<done, conn, serving, beat>>
csms       == <<told, running, nextTx>>
history    == <<lost, blurred, replaced>>
vars       == <<connectors, job, link, csms, history, contested>>

NoJob == [pc |-> "idle", settling |-> FALSE, c |-> 0, msg |-> "Available",
          then |-> "idle", tx |-> 0]

Init ==
    /\ status = [c \in 0 .. N |-> "Available"]
    /\ transactionID = [c \in ConnectorIDs |-> 0]
    /\ reservationID = [c \in ConnectorIDs |-> 0]
    /\ job = [j \in Jobs |-> IF j = Starter THEN [NoJob EXCEPT !.pc = "boot"] ELSE NoJob]
    /\ done = FALSE
    /\ conn = "open"
    /\ serving = TRUE
    /\ beat = "before"
    /\ told = [c \in 0 .. N |-> "Unavailable"]
    /\ running = {}
    /\ nextTx = 1
    /\ lost = {}
    /\ blurred = {}
    /\ contested = {}
    /\ replaced = {}

-----------------------------------------------------------------------------
(***************************************************************************)
(* Goroutines.                                                             *)
(***************************************************************************)
Busy(j) == job[j].pc # "idle"

\* Goroutine j may send a report on connector c; Connect reports on all.
About(j, c) ==
    /\ job[j].pc \notin {"idle", "alive"}
    /\ job[j].c = c \/ job[j].pc \in {"boot", "next"} \/ job[j].then = "next"

\* A session is being started on connector c.
Starting(j, c) ==
    job[j].c = c /\ (job[j].pc \in {"begin", "commit"} \/ job[j].then = "begin")

BeingStarted(c) == \E j \in Jobs : Starting(j, c)

\* A start on c sets out, disturbed or not.
Contest(c, disturbed) ==
    contested' = IF disturbed THEN contested \cup {c} ELSE contested

\* Goroutine j sets out on pc, about connector c and status msg.  Commands are
\* handled as long as Run of the connection has not returned.
Run(j, settling, pc, then, c, msg) ==
    /\ ~Busy(j)
    /\ serving
    /\ job' = [job EXCEPT ![j] = [pc |-> pc, settling |-> settling, c |-> c,
                                  msg |-> msg, then |-> then, tx |-> 0]]
    /\ blurred' = IF pc # "alive" /\ \E k \in Jobs : About(k, c) THEN blurred \cup {c}
                  ELSE IF pc \in {"set", "report"} THEN blurred \ {c}
                  ELSE blurred
    /\ UNCHANGED <<lost, replaced>>

\* after: the work of a command, once it has settled.
after(j, pc, then, c, msg) == Run(j, TRUE, pc, then, c, msg)

\* The wait is over with the first step of the work; until then the goroutine
\* may find the simulator closed, and give up.
Abandoned(j) ==
    /\ job[j].settling
    /\ done
    /\ job' = [job EXCEPT ![j] = NoJob]
    /\ UNCHANGED <<connectors, link, csms, history>>

At(j, pc) == job[j].pc = pc

\* Goroutine j's call is answered, which takes an open connection.
Answered(j, pc) == At(j, pc) /\ conn = "open"

\* What goroutine j does after its report.
Continue(j) ==
    LET me == job[j]
    IN  job' = [job EXCEPT ![j] =
            IF me.then = "idle" THEN NoJob
            ELSE IF me.then = "free"
              THEN [me EXCEPT !.settling = FALSE, !.pc = "set", !.msg = "Available",
                              !.then = "idle"]
              ELSE [me EXCEPT !.settling = FALSE, !.pc = me.then, !.then = "idle"]]

\* SetConnectorStatus, first half: the status changes.
SetStatus(j) ==
    /\ At(j, "set")
    /\ status' = [status EXCEPT ![job[j].c] = job[j].msg]
    /\ job' = [job EXCEPT ![j].settling = FALSE, ![j].pc = "report"]
    /\ UNCHANGED <<transactionID, reservationID, link, csms, history>>

\* sendStatus: the CSMS has handled the StatusNotification.
Reported(j) ==
    /\ Answered(j, "report")
    /\ told' = [told EXCEPT ![job[j].c] = job[j].msg]
    /\ Continue(j)
    /\ UNCHANGED <<connectors, link, running, nextTx, history>>

\* A triggered BootNotification or Heartbeat, or the status "" of a connector
\* the station does not have, which the CSMS refuses.
Alive(j) ==
    /\ Answered(j, "alive")
    /\ job' = [job EXCEPT ![j] = NoJob]
    /\ UNCHANGED <<connectors, link, csms, history>>

\* startTransaction: the CSMS accepts the tag and opens a transaction.
Begun(j) ==
    /\ Answered(j, "begin")
    /\ nextTx <= MaxTx
    /\ running' = running \cup {nextTx}
    /\ nextTx' = nextTx + 1
    /\ job' = [job EXCEPT ![j].pc = "commit", ![j].tx = nextTx]
    /\ UNCHANGED <<connectors, link, told, history>>

\* startTransaction: the CSMS refuses the tag.
Refused(j) ==
    /\ Answered(j, "begin")
    /\ job' = [job EXCEPT ![j].pc = "set", ![j].msg = "Available"]
    /\ UNCHANGED <<connectors, link, csms, history>>

\* Mutant of Commit: the reservation is kept.
CommitKeeps(j) ==
    /\ At(j, "commit")
    /\ transactionID' = [transactionID EXCEPT ![job[j].c] = job[j].tx]
    /\ job' = [job EXCEPT ![j].pc = "set", ![j].msg = "Charging", ![j].tx = 0]
    /\ UNCHANGED <<status, reservationID, link, csms, history>>

\* startTransaction: the session is entered, the reservation consumed.
Commit(j) ==
    LET c   == job[j].c
        old == transactionID[c]
    IN  /\ At(j, "commit")
        /\ transactionID' = [transactionID EXCEPT ![c] = job[j].tx]
        /\ reservationID' = [reservationID EXCEPT ![c] = 0]
        /\ job' = [job EXCEPT ![j].pc = "set", ![j].msg = "Charging", ![j].tx = 0]
        /\ replaced' = IF c \in contested /\ old # 0 THEN replaced \cup {old} ELSE replaced
        /\ UNCHANGED <<status, link, csms, lost, blurred>>

\* Mutant of Take: the connector is idle only once the CSMS was told.
TakeLater(j) ==
    LET tx == transactionID[job[j].c]
    IN  /\ At(j, "take")
        /\ job' = [job EXCEPT ![j] =
              IF tx = 0 THEN NoJob
              ELSE [@ EXCEPT !.settling = FALSE, !.pc = "end", !.tx = tx]]
        /\ UNCHANGED <<connectors, link, csms, history>>

\* stopTransaction: the connector is idle before the CSMS hears of it.
Take(j) ==
    LET tx == transactionID[job[j].c]
    IN  /\ At(j, "take")
        /\ job' = [job EXCEPT ![j] =
              IF tx = 0 THEN NoJob
              ELSE [@ EXCEPT !.settling = FALSE, !.pc = "end", !.tx = tx]]
        /\ transactionID' = [transactionID EXCEPT ![job[j].c] = 0]
        /\ UNCHANGED <<status, reservationID, link, csms, history>>

\* stopTransaction: the CSMS has handled the StopTransaction.
Ended(j) ==
    /\ Answered(j, "end")
    /\ running' = running \ {job[j].tx}
    /\ job' = [job EXCEPT ![j].pc = "set", ![j].msg = "Finishing",
                          ![j].then = "free", ![j].tx = 0]
    /\ UNCHANGED <<connectors, link, told, nextTx, history>>

\* Connect: BootNotification was accepted, connector 0 is reported.
Booted(j) ==
    /\ Answered(j, "boot")
    /\ job' = [job EXCEPT ![j].pc = "report", ![j].msg = status[0], ![j].then = "next"]
    /\ UNCHANGED <<connectors, link, csms, history>>

\* reportInitialStatus goes on with the next connector; after the last one
\* Connect starts the heartbeat loop.
ReportNext(j) ==
    LET c == job[j].c + 1
    IN  /\ At(j, "next")
        /\ \/ /\ c <= N
              /\ job' = [job EXCEPT ![j].pc = "report", ![j].c = c,
                                    ![j].msg = status[c], ![j].then = "next"]
              /\ UNCHANGED beat
           \/ /\ c > N
              /\ job' = [job EXCEPT ![j] = NoJob]
              /\ beat' = IF Scenario = "silent" THEN "off" ELSE "on"
        /\ UNCHANGED <<connectors, done, conn, serving, csms, history>>

Connecting(j) == job[j].pc \in {"boot", "next"} \/ job[j].then = "next"

\* The call of goroutine j fails, before or after the CSMS acted on it.
Fails(j) ==
    \/ /\ At(j, "report")
       /\ told' \in {told, [told EXCEPT ![job[j].c] = job[j].msg]}
       /\ blurred' = blurred \cup {job[j].c}
       /\ UNCHANGED <<running, nextTx, lost, replaced>>
    \/ /\ At(j, "begin")
       /\ UNCHANGED <<csms, history>>
    \/ /\ At(j, "begin")
       /\ nextTx <= MaxTx
       /\ running' = running \cup {nextTx}
       /\ lost' = lost \cup {nextTx}
       /\ nextTx' = nextTx + 1
       /\ UNCHANGED <<told, blurred, replaced>>
    \/ /\ At(j, "end")
       /\ running' \in {running, running \ {job[j].tx}}
       /\ lost' = lost \cup {job[j].tx}
       /\ UNCHANGED <<told, nextTx, blurred, replaced>>
    \/ /\ At(j, "boot") \/ At(j, "alive")
       /\ UNCHANGED <<csms, history>>

\* A call timed out, or the connection closed: the goroutine gives up; a
\* failed Connect closes the simulator.
CallFails(j) ==
    /\ Fails(j)
    /\ job' = [job EXCEPT ![j] = NoJob]
    /\ done' = (done \/ Connecting(j))
    /\ UNCHANGED <<connectors, conn, serving, beat>>

\* heartbeatLoop: the interval is over, and a heartbeat goes out; the loop may
\* find both the timer and done ready, and takes either.
HeartbeatDue ==
    /\ beat = "on"
    /\ beat' = "calling"
    /\ UNCHANGED <<connectors, job, done, conn, serving, csms, history, contested>>

HeartbeatAnswered ==
    /\ beat = "calling"
    /\ conn = "open"
    /\ beat' = "on"
    /\ UNCHANGED <<connectors, job, done, conn, serving, csms, history, contested>>

\* Mutant of HeartbeatEnds: the waiting loop does not look at done.
HeartbeatEndsLate ==
    /\ beat = "calling"
    /\ beat' = "off"
    /\ UNCHANGED <<connectors, job, done, conn, serving, csms, history, contested>>

\* The heartbeat fails, or the loop finds the simulator closed: the loop ends.
HeartbeatEnds ==
    /\ beat = "calling" \/ (beat = "on" /\ done)
    /\ beat' = "off"
    /\ UNCHANGED <<connectors, job, done, conn, serving, csms, history, contested>>

\* Close, called by the owner: done is closed, then the connection.
Close ==
    /\ ~done
    /\ done' = TRUE
    /\ UNCHANGED <<connectors, job, conn, serving, beat, csms, history, contested>>

CloseConn ==
    /\ done
    /\ conn = "open"
    /\ conn' = "closed"
    /\ UNCHANGED <<connectors, job, done, serving, beat, csms, history, contested>>

\* The CSMS closes the connection, or it breaks.
ConnLost ==
    /\ conn = "open"
    /\ conn' = "closed"
    /\ UNCHANGED <<connectors, job, done, serving, beat, csms, history, contested>>

\* Run of the connection returns: its goroutine closes the simulator and ends.
RunEnds ==
    /\ serving
    /\ conn = "closed"
    /\ serving' = FALSE
    /\ done' = TRUE
    /\ UNCHANGED <<connectors, job, conn, beat, csms, history, contested>>

-----------------------------------------------------------------------------
(***************************************************************************)
(* Commands.  Those that are rejected change nothing.                      *)
(***************************************************************************)
reserveNow(j, c, r) ==
    /\ Scenario \notin {"reject-reserve", "occupied"}
    /\ transactionID[c] = 0
    /\ status[c] \notin {"Charging", "Preparing", "Faulted", "Unavailable"}
    /\ reservationID' = [reservationID EXCEPT ![c] = r]
    /\ status' = [status EXCEPT ![c] = "Reserved"]
    /\ after(j, "report", "idle", c, "Reserved")
    /\ UNCHANGED <<transactionID, link, csms, contested>>

\* Mutant of cancelReservation: the new status is not reported.
cancelReservationMute(j, c, r) ==
    /\ serving
    /\ reservationID[c] = r
    /\ reservationID' = [reservationID EXCEPT ![c] = 0]
    /\ status' = [status EXCEPT ![c] = "Available"]
    /\ UNCHANGED <<transactionID, job, link, csms, history, contested>>

\* The connector found is any one that matches: Go ranges over a map.
cancelReservation(j, c, r) ==
    /\ reservationID[c] = r
    /\ reservationID' = [reservationID EXCEPT ![c] = 0]
    /\ status' = [status EXCEPT ![c] = "Available"]
    /\ after(j, "report", "idle", c, "Available")
    /\ UNCHANGED <<transactionID, link, csms, contested>>

Free(c) == transactionID[c] = 0

\* The connector for a RemoteStartTransaction that names none; if all are in a
\* session the code falls back on connector 1, and refuses it.
firstFreeConnector ==
    {c \in ConnectorIDs : Free(c) /\ \A d \in 1 .. c - 1 : ~Free(d)}

\* Mutant of remoteStart: a connector in a session is not refused.
remoteStartBusy(j, c) ==
    /\ after(j, "set", "begin", c, "Preparing")
    /\ Contest(c, BeingStarted(c))
    /\ UNCHANGED <<connectors, link, csms>>

\* A start that is already under way on the connector is not noticed.
remoteStart(j, c) ==
    /\ Free(c)
    /\ after(j, "set", "begin", c, "Preparing")
    /\ Contest(c, BeingStarted(c))
    /\ UNCHANGED <<connectors, link, csms>>

remoteStop(j, c) ==
    /\ ~Free(c)
    /\ after(j, "take", "idle", c, "Available")
    /\ UNCHANGED <<connectors, link, csms, contested>>

\* TriggerMessage for a status: the one read now is reported later.
triggerStatus(j, c) ==
    /\ after(j, "report", "idle", c, status[c])
    /\ UNCHANGED <<connectors, link, csms, contested>>

\* TriggerMessage for a BootNotification or a Heartbeat, or for the status of a
\* connector the station does not have.
triggerAlive(j) ==
    /\ Run(j, TRUE, "alive", "idle", 0, "Available")
    /\ UNCHANGED <<connectors, link, csms, contested>>

changeAvailability(j, c, s) ==
    /\ after(j, "set", "idle", c, s)
    /\ UNCHANGED <<connectors, link, csms, contested>>

HandleCall(j) ==
    \/ \E c \in Targets \ {0}, r \in ReservationIDs :
          reserveNow(j, c, r) \/ cancelReservation(j, c, r)
    \/ \E c \in (Targets \ {0}) \cup firstFreeConnector : remoteStart(j, c)
    \/ \E c \in Targets \ {0} : remoteStop(j, c)
    \/ \E c \in Targets : triggerStatus(j, c)
    \/ triggerAlive(j)
    \/ \E c \in Targets, s \in Availabilities : changeAvailability(j, c, s)

\* SetConnectorStatus, StartTransaction and StopTransaction called by the
\* program that runs the simulator: no settle time, and no check that the
\* connector is free.
Local(j) ==
    /\ \/ /\ \E c \in Targets, s \in LocalStatuses : Run(j, FALSE, "set", "idle", c, s)
          /\ UNCHANGED contested
       \/ \E c \in Targets \ {0} :
             /\ Run(j, FALSE, "set", "begin", c, "Preparing")
             /\ Contest(c, BeingStarted(c) \/ ~Free(c))
       \/ /\ \E c \in Targets \ {0} : Run(j, FALSE, "take", "idle", c, "Available")
          /\ UNCHANGED contested
    /\ UNCHANGED <<connectors, link, csms>>

Step(j) ==
    /\ \/ Abandoned(j) \/ SetStatus(j) \/ Reported(j) \/ Alive(j)
       \/ Begun(j) \/ Refused(j) \/ Commit(j) \/ Take(j) \/ Ended(j)
       \/ Booted(j) \/ ReportNext(j) \/ CallFails(j)
    /\ contested' = {c \in contested : BeingStarted(c)'}

Next ==
    \/ \E j \in Jobs : Step(j) \/ HandleCall(j) \/ Local(j)
    \/ HeartbeatDue
    \/ HeartbeatAnswered
    \/ HeartbeatEnds
    \/ Close
    \/ CloseConn
    \/ ConnLost
    \/ RunEnds

Spec == Init /\ [][Next]_vars

\* Goroutines run: their calls, the heartbeat loop's included, are answered or
\* fail, by the call timeout or because the connection closed; Run returns on
\* a closed connection; and Close, once called, closes the connection.
FairSpec ==
    /\ Spec
    /\ \A j \in Jobs : WF_vars(Step(j))
    /\ WF_vars(HeartbeatAnswered \/ HeartbeatEnds)
    /\ WF_vars(CloseConn)
    /\ WF_vars(RunEnds)

-----------------------------------------------------------------------------
\* Type invariant: the connectors, the goroutines and the CSMS keep their
\* shape.
TypeOK ==
    /\ status \in [0 .. N -> Statuses]
    /\ transactionID \in [ConnectorIDs -> 0 .. MaxTx]
    /\ reservationID \in [ConnectorIDs -> ReservationIDs \cup {0}]
    /\ job \in [Jobs -> [pc : PCs, settling : BOOLEAN, c : 0 .. N,
                         msg : Statuses, then : {"idle", "begin", "free", "next"},
                         tx : 0 .. MaxTx]]
    /\ done \in BOOLEAN
    /\ conn \in {"open", "closed"}
    /\ serving \in BOOLEAN
    /\ beat \in {"before", "on", "calling", "off"}
    /\ told \in [0 .. N -> Statuses]
    /\ running \subseteq 1 .. MaxTx
    /\ nextTx \in 1 .. MaxTx + 1
    /\ lost \subseteq 1 .. MaxTx
    /\ blurred \subseteq 0 .. N
    /\ contested \subseteq ConnectorIDs
    /\ replaced \subseteq 1 .. MaxTx

\* A connector never claims a session the CSMS is not running, and no two
\* connectors claim the same: stopTransaction lets go of the session before it
\* tells the CSMS, and startTransaction enters it only once accepted.
HeldIsRunning ==
    \A c \in ConnectorIDs : transactionID[c] # 0 =>
        /\ transactionID[c] \in running
        /\ \A d \in ConnectorIDs \ {c} : transactionID[d] # transactionID[c]

\* A session and a reservation exclude each other on a connector, although a
\* ReserveNow may be accepted while a start is under way: reserveNow refuses a
\* connector in a session, and startTransaction consumes what it finds.
SessionConsumesReservation ==
    \A c \in ConnectorIDs : transactionID[c] # 0 => reservationID[c] = 0

\* A session is orphaned in one way only.  Every transaction the CSMS runs is
\* held by a connector, or by a goroutine that is entering or ending it, unless
\* a call about it failed, or it was overwritten by a start that set out while
\* another start was under way on the connector, or that was made locally on a
\* connector in a session: startTransaction does not look again at what
\* remoteStart checked, and StartTransaction checks nothing.
NoOrphan ==
    \A i \in running :
        \/ i \in lost \cup replaced
        \/ \E c \in ConnectorIDs : transactionID[c] = i
        \/ \E j \in Jobs : job[j].tx = i

\* What the CSMS was told of a connector is its status, whenever no goroutine
\* is about it: after two goroutines were about it at once, or a report of it
\* failed, that may be otherwise, until one that sets or reports a status has
\* the connector to itself from beginning to end.
ToldIsCurrent ==
    \A c \in (0 .. N) \ blurred :
        (~done /\ conn = "open" /\ \A j \in Jobs : ~About(j, c)) => told[c] = status[c]

\* Wait returns: when the simulator is closed or its connection lost, every
\* goroutine ends, in whatever call or wait it was: those of the commands, the
\* heartbeat loop and the one that runs the connection; and Done is closed.
WaitReturns ==
    done \/ conn = "closed" ~>
        /\ done /\ conn = "closed" /\ ~serving
        /\ beat \notin {"on", "calling"}
        /\ \A j \in Jobs : ~Busy(j)
=============================================================================
