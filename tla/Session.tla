------------------------------ MODULE Session ------------------------------
(***************************************************************************)
(* One station and the server, end to end: the goroutines of module Csms,  *)
(* the frames on each of the station's connections, the two loops of       *)
(* ocppj.Conn that take them in, the statuses that reach the core, and the *)
(* commands sent the other way.                                            *)
(*                                                                         *)
(* A status is its number in the order the station sent them.  Frames keep *)
(* their order on a connection; nothing orders two connections.  Answers   *)
(* to the station are left out, as are Shutdown (Csms) and what a status   *)
(* does in the core (Core).  Of the time only the fact that a call may     *)
(* time out is kept (Heartbeat has the rest).                              *)
(***************************************************************************)
EXTENDS ChargePoint, Sequences, FiniteSets

CONSTANTS
    Stations, Accepts, Conns, Serves, Speaks, Patience, NoConn,  \* as in Csms
    Station,        \* the one station
    MaxCommands,    \* bound on the callers of Server.Command
    Requests,       \* what each of them may ask for
    Bodies,         \* what the station may answer to an action
    CallBuffer,     \* callBuffer
    MaxTraffic      \* bound on the statuses and commands sent, together

ASSUME SessionAssumption ==
    /\ Stations = {Station}
    /\ Conns = 1 .. Cardinality(Conns)
    /\ Accepts \subseteq Stations
    /\ Serves \in [Conns -> Stations]
    /\ Speaks \subseteq Conns
    /\ Patience \subseteq SUBSET Stations
    /\ NoConn \notin Conns
    /\ {CallBuffer, MaxCommands, MaxTraffic} \subseteq Nat

\* The commands, in the order they are asked for.
Commands == 1 .. MaxCommands

\* A command is answered with one status, a payload that does not decode, or
\* an error.
ASSUME TrafficAssumption ==
    /\ Requests \in [Commands -> SUBSET [method : DOMAIN ActionOf, target : STRING]]
    /\ {ActionOf[m] : m \in DOMAIN ActionOf} \subseteq DOMAIN Bodies
    /\ \A a \in DOMAIN Bodies : \A body \in Bodies[a] :
          /\ body \in [kind : {"CALLRESULT", "undecodable", "CALLERROR"}, words : SUBSET STRING]
          /\ a # "GetConfiguration" /\ body.kind = "CALLRESULT" =>
                \E w \in body.words : body.words = {w}

VARIABLES pc, conns, closed, dead, online, server, patient      \* as in Csms

serverVars == <<pc, conns, closed, dead, online, server, patient>>

Server == INSTANCE Csms

VARIABLES
    link,       \* the connection the station uses
    sent,       \* statuses the station has sent
    up, down,   \* frames on their way to the server and to the station
    gone,       \* connections whose readLoop has returned
    calls,      \* Conn.calls, and behind it the CALL readLoop cannot add
    handling,   \* the status in the handler, or 0
    reported,   \* the status the core holds
    nextID,     \* Conn.nextID
    pending,    \* Conn.pending: which command waits for which id
    cmd,        \* the commands
    said        \* what the station answered to each command while it waited

wireVars == <<link, up, down>>
connVars == <<gone, calls, handling>>
statusVars == <<sent, reported>>
cmdVars == <<nextID, pending, cmd, said>>
vars == <<serverVars, wireVars, connVars, statusVars, cmdVars>>

None == [kind |-> "none", words |-> {}]

\* What the station has said to a command: for which connector, and what.
Nothing == [to |-> 0, body |-> None]

\* A command before it is asked for.
Idle == [state |-> "idle", request |-> [method |-> "none", target |-> "none"],
         conn |-> NoConn, id |-> 0, inbox |-> None, result |-> Failed("none")]

Init ==
    /\ Server!Init
    /\ link = NoConn
    /\ sent = 0
    /\ up = [c \in Conns |-> <<>>]
    /\ down = [c \in Conns |-> <<>>]
    /\ gone = {}
    /\ calls = [c \in Conns |-> <<>>]
    /\ handling = [c \in Conns |-> 0]
    /\ reported = 0
    /\ nextID = [c \in Conns |-> 0]
    /\ pending = [c \in Conns |-> {}]
    /\ cmd = [k \in Commands |-> Idle]
    /\ said = [k \in Commands |-> Nothing]

Asked == {k \in Commands : cmd[k].state # "idle"}

Room == sent + Cardinality(Asked) < MaxTraffic

\* Conn.done is closed.
Done(c) == c \in closed \cup gone

-----------------------------------------------------------------------------
(***************************************************************************)
(* The server's goroutines.                                                *)
(***************************************************************************)
\* The steps of Csms that touch nothing else here.  Dials are numbered in the
\* order they are made, and the station makes only such as get in.
Plain(c) ==
    /\ \/ Server!Dial(c) /\ \A d \in 1 .. c - 1 : pc[d] # "new"
       \/ Server!Spawn(c)
       \/ Server!Register(c) \/ Server!ReportConnected(c)
       \/ Server!Unregister(c) \/ Server!Superseded(c) \/ Server!ReportDisconnected(c)
    /\ UNCHANGED <<patient, wireVars, connVars, statusVars, cmdVars>>

\* What is under way to the station is lost.
LinkDies(c) ==
    /\ Server!LinkDies(c)
    /\ down' = [down EXCEPT ![c] = <<>>]
    /\ UNCHANGED <<patient, link, up, connVars, statusVars, cmdVars>>

\* From here on the station uses the new connection and no other.
Upgrade(c) ==
    /\ Server!Upgrade(c)
    /\ link' = c
    /\ down' = [d \in Conns |-> <<>>]
    /\ UNCHANGED <<patient, up, connVars, statusVars, cmdVars>>

\* Mutant of RunReturns: Run does not wait for handleLoop.
RunReturnsEarly(c) ==
    /\ Server!RunReturns(c)
    /\ c \in gone
    /\ up' = [up EXCEPT ![c] = <<>>]
    /\ down' = [down EXCEPT ![c] = <<>>]
    /\ calls' = [calls EXCEPT ![c] = <<>>]
    /\ UNCHANGED <<patient, link, gone, handling, statusVars, cmdVars>>

\* Run returns once readLoop has and handleLoop has seen done.  What is left in
\* the socket and the channel is lost.
RunReturns(c) ==
    /\ Server!RunReturns(c)
    /\ c \in gone
    /\ handling[c] = 0
    /\ up' = [up EXCEPT ![c] = <<>>]
    /\ down' = [down EXCEPT ![c] = <<>>]
    /\ calls' = [calls EXCEPT ![c] = <<>>]
    /\ UNCHANGED <<patient, link, gone, handling, statusVars, cmdVars>>

-----------------------------------------------------------------------------
(***************************************************************************)
(* The station.                                                            *)
(***************************************************************************)
\* It holds link for open.
Talks == link # NoConn /\ link \notin dead /\ pc[link] \notin {"stopped", "leaving", "done"}

\* A StatusNotification.
SendStatus ==
    /\ Talks
    /\ Room
    /\ sent' = sent + 1
    /\ up' = [up EXCEPT ![link] = Append(@, [type |-> "CALL", number |-> sent + 1, body |-> None])]
    /\ UNCHANGED <<serverVars, link, down, connVars, reported, cmdVars>>

\* It takes a command, which writeLoop has sent, and answers it.
Answer(body) ==
    /\ Talks
    /\ pc[link] = "running"
    /\ down[link] # <<>>
    /\ LET f == Head(down[link])
       IN  /\ body \in Bodies[f.action]
           /\ up' = [up EXCEPT ![link] =
                        Append(@, [type |-> "answer", number |-> f.id, body |-> body])]
           /\ said' = IF cmd[f.command].state = "waiting"
                        THEN [said EXCEPT ![f.command] = [to |-> f.connector, body |-> body]]
                        ELSE said
    /\ down' = [down EXCEPT ![link] = Tail(@)]
    /\ UNCHANGED <<serverVars, link, connVars, statusVars, nextID, pending, cmd>>

-----------------------------------------------------------------------------
(***************************************************************************)
(* The connection.                                                         *)
(***************************************************************************)
\* readLoop reads a CALL; with a full channel it then waits for the handler.
ReadCall(c) ==
    /\ pc[c] = "running"
    /\ c \notin gone
    /\ Len(calls[c]) <= CallBuffer
    /\ up[c] # <<>>
    /\ Head(up[c]).type = "CALL"
    /\ calls' = [calls EXCEPT ![c] = Append(@, Head(up[c]).number)]
    /\ up' = [up EXCEPT ![c] = Tail(@)]
    /\ UNCHANGED <<serverVars, link, down, gone, handling, statusVars, cmdVars>>

\* Mutant of Waiter: the pending calls of all connections are one map.
WaiterAnywhere(c, id) == {p \in UNION {pending[d] : d \in Conns} : p.id = id}

\* deliver's lookup.
Waiter(c, id) == {p \in pending[c] : p.id = id}

\* readLoop reads an answer and delivers it to whoever waits, if anyone does.
ReadAnswer(c) ==
    /\ pc[c] = "running"
    /\ c \notin gone
    /\ Len(calls[c]) <= CallBuffer
    /\ up[c] # <<>>
    /\ Head(up[c]).type = "answer"
    /\ cmd' = [k \in Commands |->
          IF /\ \E p \in Waiter(c, Head(up[c]).number) : p.command = k
             /\ cmd[k].inbox = None
            THEN [cmd[k] EXCEPT !.inbox = Head(up[c]).body] ELSE cmd[k]]
    /\ up' = [up EXCEPT ![c] = Tail(@)]
    /\ UNCHANGED <<serverVars, link, down, connVars, statusVars, nextID, pending, said>>

\* readLoop returns: the read fails, or it gives up a CALL it could not add.
ReadEnds(c) ==
    /\ pc[c] = "running"
    /\ c \notin gone
    /\ IF Len(calls[c]) > CallBuffer THEN c \in closed ELSE c \in closed \cup dead
    /\ gone' = gone \cup {c}
    /\ calls' = [calls EXCEPT ![c] = IF Len(@) > CallBuffer THEN SubSeq(@, 1, CallBuffer) ELSE @]
    /\ UNCHANGED <<serverVars, wireVars, handling, statusVars, cmdVars>>

\* handleLoop takes a CALL, which it may do even when done is closed.
Dispatch(c) ==
    /\ pc[c] = "running"
    /\ handling[c] = 0
    /\ calls[c] # <<>>
    /\ handling' = [handling EXCEPT ![c] = Head(calls[c])]
    /\ calls' = [calls EXCEPT ![c] = Tail(@)]
    /\ UNCHANGED <<serverVars, wireVars, gone, statusVars, cmdVars>>

\* The handler calls Core.SetConnectorStatus and returns.
Handle(c) ==
    /\ handling[c] # 0
    /\ reported' = handling[c]
    /\ handling' = [handling EXCEPT ![c] = 0]
    /\ UNCHANGED <<serverVars, wireVars, gone, calls, sent, cmdVars>>

-----------------------------------------------------------------------------
(***************************************************************************)
(* Commands.                                                               *)
(***************************************************************************)
\* A command that is over.  Only an answer makes its request worth keeping.
Failure(err) == [Idle EXCEPT !.state = "returned", !.result = Failed(err)]

\* Server.Command gives a ChargePoint bound to the connection that is current
\* now, and its method is called; it may refuse.
Command(k, request) ==
    LET err == IF conns[Station] = NoConn THEN "ErrNotConnected" ELSE Refusal(request)
    IN  /\ k \notin Asked
        /\ 1 .. k - 1 \subseteq Asked
        /\ Room
        /\ cmd' = [cmd EXCEPT ![k] =
              IF err # "none" THEN Failure(err)
              ELSE [Idle EXCEPT !.state = "bound", !.request = request, !.conn = conns[Station]]]
        /\ UNCHANGED <<serverVars, wireVars, connVars, statusVars, nextID, pending, said>>

\* Call, up to its first select: the frame is queued, unless done is closed.  A
\* frame queued after that is never written.
Call(k) ==
    LET c == cmd[k].conn
        id == nextID[c] + 1
        frame == [id |-> id, command |-> k, action |-> ActionOf[cmd[k].request.method],
                  connector |-> Address(cmd[k].request)]
    IN  /\ cmd[k].state = "bound"
        /\ nextID' = [nextID EXCEPT ![c] = id]
        /\ \/ /\ cmd' = [cmd EXCEPT ![k].state = "waiting", ![k].id = id]
              /\ pending' = [pending EXCEPT ![c] = @ \cup {[id |-> id, command |-> k]}]
              /\ down' = IF Done(c) THEN down ELSE [down EXCEPT ![c] = Append(@, frame)]
           \/ /\ Done(c)
              /\ cmd' = [cmd EXCEPT ![k] = Failure("ErrNotConnected")]
              /\ UNCHANGED <<pending, down>>
        /\ UNCHANGED <<serverVars, link, up, connVars, statusVars, said>>

\* Call's second select is through: forget, and return.
forget(k) ==
    /\ cmd[k].state = "waiting"
    /\ pending' = [pending EXCEPT ![cmd[k].conn] = {p \in @ : p.id # cmd[k].id}]
    /\ UNCHANGED <<serverVars, wireVars, connVars, statusVars, nextID>>

Answered(k) ==
    /\ cmd[k].inbox # None
    /\ cmd' = [cmd EXCEPT ![k] =
          [Idle EXCEPT !.state = "returned", !.request = cmd[k].request,
                       !.result = Interpret(cmd[k].request, cmd[k].inbox)]]
    /\ UNCHANGED said
    /\ forget(k)

Fail(k, err) ==
    /\ cmd' = [cmd EXCEPT ![k] = Failure(err)]
    /\ said' = [said EXCEPT ![k] = Nothing]
    /\ forget(k)

\* The connection was closed, by a newer one for example.
Closed(k) == Done(cmd[k].conn) /\ Fail(k, "ErrNotConnected")

\* The timer, or in the same way the caller's context.
GivenUp(k) == Fail(k, "ErrTimeout")

-----------------------------------------------------------------------------
Wire(c) == RunReturns(c) \/ ReadCall(c) \/ ReadAnswer(c) \/ ReadEnds(c) \/ Dispatch(c) \/ Handle(c)

Next ==
    \/ \E c \in Conns : Plain(c) \/ Upgrade(c) \/ LinkDies(c) \/ Wire(c)
    \/ SendStatus
    \/ \E body \in UNION {Bodies[a] : a \in DOMAIN Bodies} : Answer(body)
    \/ \E k \in Commands :
          \/ \E request \in Requests[k] : Command(k, request)
          \/ Call(k) \/ Answered(k) \/ Closed(k) \/ GivenUp(k)

Spec == Init /\ [][Next]_vars

-----------------------------------------------------------------------------
(***************************************************************************)
(* Properties.                                                             *)
(***************************************************************************)
\* Type invariant.
AllBodies == {None} \cup UNION {Bodies[a] : a \in DOMAIN Bodies}

UpFrames == [type : {"CALL", "answer"}, number : Nat, body : AllBodies]

DownFrames ==
    [id : Nat, command : Commands, action : {ActionOf[m] : m \in DOMAIN ActionOf}, connector : Nat]

Results ==
    [err : {"none", "CALLERROR", "undecodable", "ErrTimeout", "ErrNotConnected",
            "ErrUnknownEVSE", "not an integer"},
     says : SUBSET ({"Unknown"} \cup UNION {body.words : body \in AllBodies})]

CommandRecords ==
    [state : {"idle", "bound", "waiting", "returned"},
     request : [method : {"none"} \cup DOMAIN ActionOf, target : {"none"} \cup STRING],
     conn : Conns \cup {NoConn}, id : Nat, inbox : AllBodies, result : Results]

WireTypes ==
    /\ link \in Conns \cup {NoConn}
    /\ sent \in Nat
    /\ reported \in Nat
    /\ up \in [Conns -> Seq(UpFrames)]
    /\ down \in [Conns -> Seq(DownFrames)]
    /\ gone \subseteq Conns
    /\ calls \in [Conns -> Seq(Nat)]
    /\ handling \in [Conns -> Nat]

CommandTypes ==
    /\ nextID \in [Conns -> Nat]
    /\ pending \in [Conns -> SUBSET [id : Nat, command : Commands]]
    /\ cmd \in [Commands -> CommandRecords]
    /\ said \in [Commands -> [to : Nat, body : AllBodies]]

TypeOK == Server!TypeOK /\ WireTypes /\ CommandTypes

\* What a command that has not returned was asked, and where.
UnderWay ==
    \A k \in Commands : cmd[k].state \in {"bound", "waiting"} =>
        /\ cmd[k].conn \in Conns
        /\ cmd[k].request.method \in DOMAIN ActionOf
        /\ Refusal(cmd[k].request) = "none"

\* "Two StatusNotifications for the same connector are applied in the order the
\* charger sent them": also across a lost connection and a new one, the status
\* the core holds of a patient station never goes back to an older one.
StatusNotReverted ==
    [][(Station \in patient) => (reported' >= reported)]_vars

\* A handler of a connection that has ended does not write to the core behind
\* Core.Disconnected: a patient station's status changes only while the core
\* shows it online, so what is offline stays as it was left.
StatusOnlyWhileOnline ==
    [][(Station \in patient /\ reported' # reported) => online[Station]]_vars

\* Why both hold: the numbers in a connection's pipeline, from the socket to the
\* handler, are in the order the station sent them, and only a connection that
\* is upgraded and has not stopped has one.
Active(c) == pc[c] \in {"hijacked", "spawned", "registered", "running"}

PipeHome ==
    /\ link # NoConn => pc[link] \notin {"new", "handshake", "rejected"}
    /\ \A c \in Conns :
          /\ up[c] # <<>> => Active(c)
          /\ calls[c] # <<>> \/ handling[c] # 0 => pc[c] = "running"

PipeOrder(c) ==
    /\ handling[c] <= sent
    /\ \A n \in DOMAIN calls[c] :
          /\ calls[c][n] <= sent
          /\ handling[c] <= calls[c][n]
          /\ \A m \in 1 .. n - 1 : calls[c][m] <= calls[c][n]
    /\ \A n \in DOMAIN up[c] : up[c][n].type = "CALL" =>
          /\ up[c][n].number <= sent
          /\ handling[c] <= up[c][n].number
          /\ \A m \in DOMAIN calls[c] : calls[c][m] <= up[c][n].number
          /\ \A m \in 1 .. n - 1 :
                up[c][m].type = "CALL" => up[c][m].number <= up[c][n].number

\* Nothing in it is older than what the core holds.
PipeNewer(c) ==
    /\ handling[c] # 0 => reported <= handling[c]
    /\ \A n \in DOMAIN calls[c] : reported <= calls[c][n]
    /\ \A n \in DOMAIN up[c] : up[c][n].type = "CALL" => reported <= up[c][n].number

PipeInv ==
    /\ reported <= sent
    /\ PipeHome
    /\ \A c \in Conns : PipeOrder(c)
    /\ Station \in patient => \A c \in Conns : PipeNewer(c)

\* "Result.Raw holds what it was; it is never guessed at": a status that a
\* command returns is one the station said to that very command, for the EVSE it
\* named, and one that its action defines, or else Unknown.  Two connections
\* number their calls alike, and answers come late: still no command is given
\* the answer to another one.
AnswerIsOwn ==
    \A k \in Commands :
        LET request == cmd[k].request
            body == said[k].body
            says == cmd[k].result.says
        IN  (cmd[k].state = "returned" /\ cmd[k].result.err = "none") =>
                /\ body.kind = "CALLRESULT"
                /\ says \ {"Unknown"} \subseteq body.words
                /\ request.method \in ForEVSE => ConnectorOf[request.target] = said[k].to
                /\ request.method # "Capabilities" =>
                      \/ says = {"Unknown"}
                      \/ body.words \subseteq commandStatusMap[ActionOf[request.method]]

\* Why it holds: an id is used once on a connection, pending names exactly the
\* commands that wait there, a frame to the station is the one of its command,
\* and an answer with the id of a command that waits is what was said to it.
Own(k, body) ==
    /\ said[k].body = body
    /\ said[k].to = Address(cmd[k].request)
    /\ body \in Bodies[ActionOf[cmd[k].request.method]]

Waits(k, c) == cmd[k].state = "waiting" /\ cmd[k].conn = c

IDsUsedOnce(c) ==
    /\ \A k \in Commands : Waits(k, c) => cmd[k].id <= nextID[c]
    /\ \A k, l \in Commands : Waits(k, c) /\ Waits(l, c) /\ cmd[k].id = cmd[l].id => k = l
    /\ \A p \in pending[c] : Waits(p.command, c) /\ cmd[p.command].id = p.id

FramesOwned(c) ==
    \A n \in DOMAIN down[c] :
        LET f == down[c][n]
        IN  /\ f.id <= nextID[c]
            /\ cmd[f.command].state \in {"waiting", "returned"}
            /\ cmd[f.command].state = "waiting" =>
                  /\ cmd[f.command].conn = c
                  /\ cmd[f.command].id = f.id
                  /\ cmd[f.command].inbox = None
                  /\ f.action = ActionOf[cmd[f.command].request.method]
                  /\ f.connector = Address(cmd[f.command].request)
            /\ \A k \in Commands : Waits(k, c) /\ cmd[k].id = f.id => k = f.command
            /\ \A m \in DOMAIN down[c] : down[c][m].id = f.id => m = n
            /\ \A m \in DOMAIN up[c] : up[c][m].type = "answer" => up[c][m].number # f.id

AnswersOwned(c) ==
    \A n \in DOMAIN up[c] : up[c][n].type = "answer" =>
        /\ up[c][n].number <= nextID[c]
        /\ \A k \in Commands :
              Waits(k, c) /\ cmd[k].id = up[c][n].number => Own(k, up[c][n].body)

InboxOwned ==
    \A k \in Commands :
        /\ cmd[k].state = "bound" => cmd[k].inbox = None
        /\ cmd[k].state = "waiting" /\ cmd[k].inbox # None => Own(k, cmd[k].inbox)

AnswerInv ==
    /\ \A c \in Conns : IDsUsedOnce(c) /\ FramesOwned(c) /\ AnswersOwned(c)
    /\ InboxOwned
    /\ AnswerIsOwn
=============================================================================
