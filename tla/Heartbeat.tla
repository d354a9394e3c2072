----------------------------- MODULE Heartbeat -----------------------------
(***************************************************************************)
(* From the file to the wire: the configuration is loaded, a station boots *)
(* and is handed the heartbeat interval, and the server's read deadline    *)
(* measures the station's silence.                                         *)
(*                                                                         *)
(* Time is counted in half seconds.  The station's callers are its main    *)
(* line (BootNotification, the first statuses, then the heartbeat loop)    *)
(* and Reporters, each with one CALL at a time.  CALLs stay in the order   *)
(* they were sent: "line" holds those not yet answered, the first "read"   *)
(* of them taken off the socket, the first of all in the handler if it is  *)
(* busy.  A frame and an answer take at most MaxDelay, a handler MaxWork.  *)
(*                                                                         *)
(* Files whose timeout is above MaxTimeout are only loaded.  What follows  *)
(* a dropped connection is in Csms.                                        *)
(***************************************************************************)
EXTENDS Config, FiniteSets

CONSTANTS
    Reporters,      \* goroutines of the station that report something
    Initial,        \* how many statuses the station reports after booting
    CallBuffer,     \* callBuffer
    CallTimeout,    \* the station's CallTimeout
    MaxDelay, MaxWork, MaxTimeout

\* A CALL is not given up before its frame can have arrived.
ASSUME HeartbeatAssumption ==
    /\ IsFiniteSet(Reporters)
    /\ "main" \notin Reporters
    /\ {Initial, CallBuffer, CallTimeout, MaxDelay, MaxWork, MaxTimeout} \subseteq Nat
    /\ MaxDelay <= CallTimeout

Callers == {"main"} \cup Reporters

VARIABLES
    line, read, busy,
    work,           \* how long the handler has been at it
    phase,          \* of a caller: "idle", "waiting", "answered" or "ended"
    clock,          \* how long it has been in that phase
    waited,         \* how long its CALL has lasted, or had when it was given up
    left,           \* CALLs the main line sends before its heartbeats
    heartbeat,      \* Simulator.heartbeat
    deadline,       \* time left until the read deadline
    ping,           \* time since the last ping
    silence         \* time since an OCPP message was read

wireVars == <<line, read, busy, work>>
stationVars == <<phase, clock, waited, left, heartbeat>>
watchVars == <<deadline, ping, silence>>
vars == <<loadVars, wireVars, stationVars, watchVars>>

Interval == cfg.durations["interval"].value
Timeout == cfg.durations["timeout"].value

fallbackHeartbeat == 60 * Second

HeartbeatInit ==
    /\ Init
    /\ line = <<>>
    /\ read = 0
    /\ busy = FALSE
    /\ work = 0
    /\ phase = [c \in Callers |-> "idle"]
    /\ clock = [c \in Callers |-> 0]
    /\ waited = [c \in Callers |-> 0]
    /\ left = Initial + 1
    /\ heartbeat = fallbackHeartbeat
    /\ deadline = 0
    /\ ping = 0
    /\ silence = 0

Loading == Load /\ UNCHANGED <<wireVars, stationVars, watchVars>>

\* The station is connected and readLoop sets the first deadline.
Connect ==
    /\ Goto("loaded", "serving")
    /\ Timeout <= MaxTimeout
    /\ deadline' = Timeout
    /\ UNCHANGED <<cfg, i, j, maps, errs, wireVars, stationVars, ping, silence>>

-----------------------------------------------------------------------------
(***************************************************************************)
(* The station.                                                            *)
(***************************************************************************)
\* How long a caller waits before its next CALL.
Pause(c) == IF c = "main" /\ left = 0 THEN heartbeat ELSE 0

Enter(c, p) == phase' = [phase EXCEPT ![c] = p] /\ clock' = [clock EXCEPT ![c] = 0]

Call(c) ==
    /\ pc = "serving"
    /\ phase[c] = "idle"
    /\ clock[c] >= Pause(c)
    /\ Enter(c, "waiting")
    /\ line' = Append(line, c)
    /\ UNCHANGED <<loadVars, read, busy, work, waited, left, heartbeat, watchVars>>

\* The seconds in the answer to a BootNotification.
handed == Interval \div Second

\* Simulator.boot: an interval of zero leaves the fallback in place.
boot == IF handed > 0 THEN handed * Second ELSE fallbackHeartbeat

\* Call returns.  The first answer to the main line is the boot's; a silent
\* station's heartbeatLoop returns at once.
Answered(c) ==
    /\ pc = "serving"
    /\ phase[c] = "answered"
    /\ \/ Enter(c, "idle")
       \/ c = "main" /\ left = 1 /\ Enter(c, "ended")
    /\ left' = IF c = "main" /\ left > 0 THEN left - 1 ELSE left
    /\ heartbeat' = IF c = "main" /\ left = Initial + 1 THEN boot ELSE heartbeat
    /\ waited' = [waited EXCEPT ![c] = 0]
    /\ UNCHANGED <<loadVars, wireVars, watchVars>>

\* Call times out: a station that has not finished booting closes, a heartbeat
\* loop ends and the connection stays open.
TimedOut(c) ==
    /\ pc = "serving"
    /\ phase[c] \in {"waiting", "answered"}
    /\ waited[c] >= CallTimeout
    /\ Enter(c, "ended")
    /\ pc' = IF c = "main" /\ left > 0 THEN "closed" ELSE pc
    /\ UNCHANGED <<cfg, i, j, maps, errs, wireVars, waited, left, heartbeat, watchVars>>

-----------------------------------------------------------------------------
(***************************************************************************)
(* The server's connection.                                                *)
(***************************************************************************)
Handling == IF busy THEN 1 ELSE 0

\* readLoop holds a CALL that does not fit into the calls channel.
Blocked == read - Handling > CallBuffer

\* Mutant of refreshDeadline: the deadline stays where it was.
refreshDeadlineNever == deadline' = deadline

refreshDeadline == deadline' = Timeout

\* readLoop reads the next CALL.  One that websocket had buffered is read even
\* after the deadline.
ReadMessage ==
    /\ pc = "serving"
    /\ ~Blocked
    /\ read < Len(line)
    /\ read' = read + 1
    /\ refreshDeadline
    /\ silence' = 0
    /\ UNCHANGED <<loadVars, line, busy, work, stationVars, ping>>

\* The read fails: "heartbeat timeout".
Expire ==
    /\ Goto("serving", "dropped")
    /\ ~Blocked
    /\ deadline = 0
    /\ UNCHANGED <<cfg, i, j, maps, errs, wireVars, stationVars, watchVars>>

\* handleLoop takes a CALL and dispatches it.
dispatch ==
    /\ pc = "serving"
    /\ ~busy
    /\ read > 0
    /\ busy' = TRUE
    /\ work' = 0
    /\ UNCHANGED <<loadVars, line, read, stationVars, watchVars>>

\* The handler answers; nobody may be waiting for it any more.
enqueue ==
    /\ pc = "serving"
    /\ busy
    /\ busy' = FALSE
    /\ line' = Tail(line)
    /\ read' = read - 1
    /\ IF phase[Head(line)] = "waiting"
         THEN Enter(Head(line), "answered")
         ELSE UNCHANGED <<phase, clock>>
    /\ UNCHANGED <<loadVars, work, waited, left, heartbeat, watchVars>>

\* writeLoop's ticker.
pingPeriod == IF Timeout \div 3 < Second THEN Second ELSE Timeout \div 3

\* Mutant of pongHandler: a pong counts as a sign of life.
pongHandlerRefreshes(left_) == Timeout

\* The pong handler, given the time left: a pong does not refresh it.
pongHandler(left_) == left_

\* Half a second passes, unless something is overdue.
Tick ==
    LET pinged == ping + 1 >= pingPeriod
        after == IF deadline > 0 THEN deadline - 1 ELSE 0
    IN  /\ pc = "serving"
        /\ deadline > 0 \/ Blocked
        /\ read < Len(line) /\ ~Blocked => waited[line[read + 1]] < MaxDelay
        /\ read > 0 => busy /\ work < MaxWork
        /\ \A c \in Callers :
              /\ phase[c] = "answered" => clock[c] < MaxDelay
              /\ phase[c] \in {"waiting", "answered"} => waited[c] < CallTimeout
        /\ phase["main"] = "idle" => clock["main"] < Pause("main")
        /\ deadline' = IF pinged THEN pongHandler(after) ELSE after
        /\ ping' = IF pinged THEN 0 ELSE ping + 1
        /\ silence' = silence + 1
        /\ work' = IF busy THEN work + 1 ELSE 0
        /\ clock' = [c \in Callers |->
              IF phase[c] = "answered" \/ (c = "main" /\ phase[c] = "idle")
                THEN clock[c] + 1 ELSE clock[c]]
        /\ waited' = [c \in Callers |->
              IF phase[c] \in {"waiting", "answered"} THEN waited[c] + 1 ELSE waited[c]]
        /\ UNCHANGED <<loadVars, line, read, busy, phase, left, heartbeat>>

\* Load has returned an error, or the connection is gone, or the file's
\* timeout is too long to be played out.
Stopped ==
    /\ pc \in {"refused", "dropped", "closed"} \/ (pc = "loaded" /\ Timeout > MaxTimeout)
    /\ UNCHANGED vars

Next ==
    \/ Loading \/ Connect
    \/ \E c \in Callers : Call(c) \/ Answered(c) \/ TimedOut(c)
    \/ ReadMessage \/ Expire \/ dispatch \/ enqueue \/ Tick
    \/ Stopped

Spec == HeartbeatInit /\ [][Next]_vars

-----------------------------------------------------------------------------
(***************************************************************************)
(* Properties.                                                             *)
(***************************************************************************)
\* What a heartbeat may cost on top of the interval: the way there and back,
\* and every caller's CALL in the one handler.
Margin == 2 * MaxDelay + (Cardinality(Reporters) + 1) * MaxWork

\* validateCharger refuses a timeout that "guarantees it will be marked offline
\* between two perfectly punctual heartbeats".  The converse, end to end: with
\* a loaded file of whole seconds whose timeout exceeds the interval by the
\* margin, a station that heartbeats as told and gets its answers in time is
\* never dropped, whatever its other reports do to the reader and the handler.
PunctualIsKept ==
    (pc = "dropped" /\ phase["main"] # "ended") =>
        Interval < Second \/ Timeout <= Interval + Margin

\* "The watchdog measures application liveness": a station whose main line has
\* ended, or that just says nothing, is dropped as soon as the timeout is over,
\* or the handler makes room; pings that the station's WebSocket stack answers
\* do not put it off.
SilenceIsNoticed ==
    pc = "serving" => silence <= Timeout \/ silence <= MaxWork
=============================================================================
