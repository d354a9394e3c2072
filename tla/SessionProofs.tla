---------------------------- MODULE SessionProofs ----------------------------
(***************************************************************************)
(* Proofs about Session, for any number of dials, statuses and commands,   *)
(* any capacity of the calls channel and any answers.                      *)
(***************************************************************************)
EXTENDS Session, TLAPS

\* The steps of one connection's loops and of its goroutine are steps of Csms,
\* or leave its state alone.
LEMMA ConnSteps ==
    ASSUME NEW c \in Conns, Plain(c) \/ Upgrade(c) \/ LinkDies(c) \/ Wire(c)
    PROVE  [Server!Next]_serverVars
<1>1. CASE Plain(c)
  BY <1>1 DEF Plain, Server!Next, Server!Serve
<1>2. CASE Upgrade(c)
  BY <1>2 DEF Upgrade, Server!Next, Server!Serve
<1>3. CASE LinkDies(c)
  BY <1>3 DEF LinkDies, Server!Next, Server!Serve
<1>4. CASE RunReturns(c)
  BY <1>4 DEF RunReturns, Server!Next, Server!Serve
<1>5. CASE ReadCall(c) \/ ReadAnswer(c) \/ ReadEnds(c) \/ Dispatch(c) \/ Handle(c)
  BY <1>5 DEF ReadCall, ReadAnswer, ReadEnds, Dispatch, Handle
<1>6. QED
  BY <1>1, <1>2, <1>3, <1>4, <1>5 DEF Wire

\* So are the steps of a command.
LEMMA CommandSteps ==
    ASSUME NEW k \in Commands,
           \/ \E request \in Requests[k] : Command(k, request)
           \/ Call(k) \/ Answered(k) \/ Closed(k) \/ GivenUp(k)
    PROVE  UNCHANGED serverVars
BY DEF Command, Call, Answered, Closed, GivenUp, Fail, forget

\* Every step of Session is a step of Csms or a stutter.
LEMMA StepServer == [Next]_vars => [Server!Next]_serverVars
<1> SUFFICES ASSUME [Next]_vars PROVE [Server!Next]_serverVars
  OBVIOUS
<1>1. ASSUME NEW c \in Conns, Plain(c) \/ Upgrade(c) \/ LinkDies(c) \/ Wire(c)
      PROVE  [Server!Next]_serverVars
  BY <1>1, ConnSteps
<1>2. CASE SendStatus
  BY <1>2 DEF SendStatus
<1>3. ASSUME NEW body, Answer(body) PROVE [Server!Next]_serverVars
  BY <1>3 DEF Answer
<1>4. ASSUME NEW k \in Commands,
             \/ \E request \in Requests[k] : Command(k, request)
             \/ Call(k) \/ Answered(k) \/ Closed(k) \/ GivenUp(k)
      PROVE  [Server!Next]_serverVars
  BY <1>4, CommandSteps
<1>5. CASE UNCHANGED vars
  BY <1>5 DEF vars
<1>6. QED
  BY <1>1, <1>2, <1>3, <1>4, <1>5 DEF Next

-----------------------------------------------------------------------------
(***************************************************************************)
(* The server's state, for the one station.                                *)
(***************************************************************************)
\* What is needed of the server: its types, and its invariant for patient
\* stations.
ServerInv == Server!TypeOK /\ Server!PatientInv

\* Nobody is connected at first.
LEMMA InitServerInv == Server!Init => ServerInv
BY SessionAssumption
DEF ServerInv, Server!Init, Server!TypeOK, Server!PatientInv, Server!Finished,
    Server!PCs, Server!ServerPCs

\* Every step of Csms preserves it.
LEMMA StepServerInv == ServerInv /\ [Server!Next]_serverVars => ServerInv'
<1> SUFFICES ASSUME ServerInv, [Server!Next]_serverVars PROVE ServerInv'
  OBVIOUS
<1> USE SessionAssumption
        DEF ServerInv, Server!TypeOK, Server!PatientInv, Server!Finished, Server!PCs,
            Server!ServerPCs, Server!Goto
<1>0. patient' = patient
  BY DEF Server!Next, serverVars
<1>1. ASSUME NEW c \in Conns, Server!Dial(c) PROVE ServerInv'
  BY <1>0, <1>1 DEF Server!Dial
<1>2. ASSUME NEW c \in Conns, Server!Reject(c) \/ Server!Upgrade(c) \/ Server!Spawn(c)
      PROVE  ServerInv'
  BY <1>0, <1>2 DEF Server!Reject, Server!Upgrade, Server!Spawn
<1>3. ASSUME NEW c \in Conns, Server!Register(c) PROVE ServerInv'
  BY <1>0, <1>3 DEF Server!Register
<1>4. ASSUME NEW c \in Conns, Server!ReportConnected(c) PROVE ServerInv'
  BY <1>0, <1>4 DEF Server!ReportConnected
<1>5. ASSUME NEW c \in Conns, Server!RunReturns(c) PROVE ServerInv'
  BY <1>0, <1>5 DEF Server!RunReturns
<1>6. ASSUME NEW c \in Conns, Server!Unregister(c) PROVE ServerInv'
  BY <1>0, <1>6 DEF Server!Unregister
<1>7. ASSUME NEW c \in Conns, Server!Superseded(c) PROVE ServerInv'
  BY <1>0, <1>7 DEF Server!Superseded
<1>8. ASSUME NEW c \in Conns, Server!ReportDisconnected(c) PROVE ServerInv'
  BY <1>0, <1>8 DEF Server!ReportDisconnected
<1>9. ASSUME NEW c \in Conns, Server!LinkDies(c) PROVE ServerInv'
  BY <1>0, <1>9 DEF Server!LinkDies
<1>10. CASE Server!ShutdownCloses
  BY <1>0, <1>10 DEF Server!ShutdownCloses
<1>11. CASE Server!ShutdownSteps
  BY <1>0, <1>11
  DEF Server!ShutdownSteps, Server!ShutdownListener, Server!ShutdownHTTP,
      Server!ShutdownDone, Server!ShutdownExpires
<1>12. CASE UNCHANGED serverVars
  BY <1>12 DEF serverVars
<1>13. QED
  BY <1>1, <1>2, <1>3, <1>4, <1>5, <1>6, <1>7, <1>8, <1>9, <1>10, <1>11, <1>12
  DEF Server!Next, Server!Serve

\* It holds throughout.
LEMMA ServerInvHolds == Spec => []ServerInv
<1>1. Init => ServerInv
  BY InitServerInv DEF Init
<1>2. ServerInv /\ [Next]_vars => ServerInv'
  BY StepServer, StepServerInv
<1>3. QED
  BY <1>1, <1>2, PTL DEF Spec

-----------------------------------------------------------------------------
(***************************************************************************)
(* Sequences that grow at one end and shrink at the other.                 *)
(***************************************************************************)
\* Taking the first element.
LEMMA Popped ==
    ASSUME NEW S, NEW s \in Seq(S), s # <<>>
    PROVE  /\ Head(s) \in S
           /\ Head(s) = s[1]
           /\ 1 \in DOMAIN s
           /\ Tail(s) \in Seq(S)
           /\ \A n \in DOMAIN Tail(s) : n \in Nat /\ n + 1 \in DOMAIN s /\ Tail(s)[n] = s[n + 1]
OBVIOUS

\* Adding an element.
LEMMA Pushed ==
    ASSUME NEW S, NEW s \in Seq(S), NEW e \in S
    PROVE  /\ Append(s, e) \in Seq(S)
           /\ \A n \in DOMAIN Append(s, e) :
                 \/ n \in DOMAIN s /\ Append(s, e)[n] = s[n]
                 \/ n = Len(s) + 1 /\ Append(s, e)[n] = e
OBVIOUS

\* Keeping the first elements.
LEMMA Cut ==
    ASSUME NEW S, NEW s \in Seq(S), NEW l \in Nat, Len(s) > l
    PROVE  /\ SubSeq(s, 1, l) \in Seq(S)
           /\ \A n \in DOMAIN SubSeq(s, 1, l) : n \in DOMAIN s /\ SubSeq(s, 1, l)[n] = s[n]
OBVIOUS

-----------------------------------------------------------------------------
(***************************************************************************)
(* Types.                                                                  *)
(***************************************************************************)
Typed == TypeOK /\ UnderWay

\* An address is a connector, or zero.
LEMMA AddressType ==
    ASSUME NEW request, Refusal(request) = "none" PROVE Address(request) \in Nat
BY ConnectorOfAssumption DEF Refusal, Address

\* An empty inbox has a type of its own.
LEMMA NoneIsBody == None \in AllBodies
BY DEF AllBodies

\* A command returns an error, or words of the answer.
LEMMA FailedType ==
    ASSUME NEW err \in {"none", "CALLERROR", "undecodable", "ErrTimeout", "ErrNotConnected",
                        "ErrUnknownEVSE", "not an integer"}
    PROVE  Failed(err) \in Results /\ Failed(err).err = err
BY DEF Failed, Results

\* An answer is a result or an error.
LEMMA BodyKind ==
    ASSUME NEW body \in AllBodies
    PROVE  body.kind \in {"none", "CALLRESULT", "undecodable", "CALLERROR"}
<1>1. CASE body = None
  BY <1>1 DEF None
<1>2. ASSUME NEW a \in DOMAIN Bodies, body \in Bodies[a]
      PROVE  body.kind \in {"CALLRESULT", "undecodable", "CALLERROR"}
  BY <1>2, TrafficAssumption
<1>3. QED
  BY <1>1, <1>2 DEF AllBodies

\* What is made of an answer is a result.
LEMMA InterpretType ==
    ASSUME NEW request, NEW body \in AllBodies PROVE Interpret(request, body) \in Results
<1> DEFINE Words == {"Unknown"} \cup UNION {b.words : b \in AllBodies}
<1>1. body.words \subseteq Words
  OBVIOUS
<1>2. ASSUME NEW says \in SUBSET Words PROVE [err |-> "none", says |-> says] \in Results
  BY DEF Results
<1>3. Advertised(body.words) \subseteq Words
  BY <1>1 DEF Advertised
<1>4. {MapCommandStatus(ActionOf[request.method], w) : w \in body.words} \subseteq Words
  BY <1>1 DEF MapCommandStatus
<1>5. body.kind \in {"none", "CALLRESULT", "undecodable", "CALLERROR"}
  BY BodyKind
<1> HIDE DEF Words
<1>6. CASE body.kind # "CALLRESULT"
  BY <1>5, <1>6, FailedType DEF Interpret
<1>7. CASE body.kind = "CALLRESULT"
  BY <1>2, <1>3, <1>4, <1>7 DEF Interpret
<1>8. QED
  BY <1>6, <1>7

\* Commands, before and after.
LEMMA IdleType == Idle \in CommandRecords /\ Idle.state = "idle" /\ Idle.inbox = None
BY NoneIsBody, FailedType DEF Idle, CommandRecords

\* A command that failed.
LEMMA FailureType ==
    ASSUME NEW err \in {"none", "CALLERROR", "undecodable", "ErrTimeout", "ErrNotConnected",
                        "ErrUnknownEVSE", "not an integer"}
    PROVE  /\ Failure(err) \in CommandRecords
           /\ Failure(err).state = "returned"
           /\ Failure(err).result.err = err
BY NoneIsBody, FailedType DEF Failure, CommandRecords, Idle

\* A command that is bound to a connection.
LEMMA BoundType ==
    ASSUME NEW request \in [method : DOMAIN ActionOf, target : STRING], NEW c \in Conns
    PROVE  LET r == [Idle EXCEPT !.state = "bound", !.request = request, !.conn = c]
           IN  /\ r \in CommandRecords
               /\ r.state = "bound"
               /\ r.request = request
               /\ r.conn = c
               /\ r.inbox = None
BY NoneIsBody, FailedType DEF Idle, CommandRecords

\* A command that is given an answer.
LEMMA InboxType ==
    ASSUME NEW r \in CommandRecords, NEW body \in AllBodies
    PROVE  LET q == [r EXCEPT !.inbox = body]
           IN  /\ q \in CommandRecords
               /\ q.inbox = body
               /\ q.state = r.state
               /\ q.request = r.request
               /\ q.conn = r.conn
               /\ q.id = r.id
               /\ q.result = r.result
BY DEF CommandRecords

\* A command that waits.
LEMMA WaitingType ==
    ASSUME NEW r \in CommandRecords, NEW id \in Nat
    PROVE  LET q == [[r EXCEPT !.state = "waiting"] EXCEPT !.id = id]
           IN  /\ q \in CommandRecords
               /\ q.state = "waiting"
               /\ q.id = id
               /\ q.inbox = r.inbox
               /\ q.request = r.request
               /\ q.conn = r.conn
BY DEF CommandRecords

\* A command that was answered.
LEMMA ReturnedType ==
    ASSUME NEW r \in CommandRecords, NEW body \in AllBodies
    PROVE  LET q == [Idle EXCEPT !.state = "returned", !.request = r.request,
                                 !.result = Interpret(r.request, body)]
           IN  /\ q \in CommandRecords
               /\ q.state = "returned"
               /\ q.request = r.request
               /\ q.result = Interpret(r.request, body)
<1>1. Interpret(r.request, body) \in Results
  BY InterpretType
<1>2. QED
  BY <1>1, NoneIsBody DEF Idle, CommandRecords

\* The types hold at first.
LEMMA InitTyped == Init => Typed
BY SessionAssumption, IdleType, InitServerInv, NoneIsBody
DEF Init, Typed, TypeOK, WireTypes, CommandTypes, UnderWay, ServerInv, Nothing

\* The steps that leave the commands alone.
LEMMA KeepsCommandTypes ==
    ASSUME Typed, Server!TypeOK', WireTypes', UNCHANGED <<nextID, pending, cmd>>,
           said' \in [Commands -> [to : Nat, body : AllBodies]]
    PROVE  Typed'
BY DEF Typed, TypeOK, CommandTypes, UnderWay

\* The steps of the server and of the wire.
LEMMA WireTyped ==
    ASSUME Typed, Server!TypeOK', NEW c \in Conns,
           \/ Plain(c) \/ Upgrade(c) \/ LinkDies(c) \/ RunReturns(c)
           \/ ReadCall(c) \/ ReadEnds(c) \/ Dispatch(c) \/ Handle(c)
    PROVE  Typed'
<1>0. WireTypes /\ <<>> \in Seq(UpFrames) /\ <<>> \in Seq(DownFrames) /\ <<>> \in Seq(Nat)
  BY DEF Typed, TypeOK
<1> USE DEF WireTypes
<1>1. CASE Plain(c)
  BY <1>0, <1>1, KeepsCommandTypes
  DEF Plain, wireVars, connVars, statusVars, cmdVars, Typed, TypeOK, CommandTypes
<1>2. CASE Upgrade(c)
  BY <1>0, <1>2, KeepsCommandTypes
  DEF Upgrade, connVars, statusVars, cmdVars, Typed, TypeOK, CommandTypes
<1>3. CASE LinkDies(c)
  BY <1>0, <1>3, KeepsCommandTypes
  DEF LinkDies, connVars, statusVars, cmdVars, Typed, TypeOK, CommandTypes
<1>4. CASE RunReturns(c)
  BY <1>0, <1>4, KeepsCommandTypes
  DEF RunReturns, statusVars, cmdVars, Typed, TypeOK, CommandTypes
<1>5. CASE ReadCall(c)
  <2>1. Head(up[c]) \in UpFrames /\ Tail(up[c]) \in Seq(UpFrames)
    BY <1>0, <1>5, Popped DEF ReadCall
  <2>2. Append(calls[c], Head(up[c]).number) \in Seq(Nat)
    BY <1>0, <2>1, Pushed DEF UpFrames
  <2>3. QED
    BY <1>0, <1>5, <2>1, <2>2, KeepsCommandTypes
    DEF ReadCall, statusVars, cmdVars, Typed, TypeOK, CommandTypes
<1>6. CASE ReadEnds(c)
  <2>1. Len(calls[c]) > CallBuffer => SubSeq(calls[c], 1, CallBuffer) \in Seq(Nat)
    BY <1>0, SessionAssumption, Cut
  <2>2. QED
    BY <1>0, <1>6, <2>1, KeepsCommandTypes
    DEF ReadEnds, wireVars, statusVars, cmdVars, Typed, TypeOK, CommandTypes
<1>7. CASE Dispatch(c)
  <2>1. Head(calls[c]) \in Nat /\ Tail(calls[c]) \in Seq(Nat)
    BY <1>0, <1>7, Popped DEF Dispatch
  <2>2. QED
    BY <1>0, <1>7, <2>1, KeepsCommandTypes
    DEF Dispatch, wireVars, statusVars, cmdVars, Typed, TypeOK, CommandTypes
<1>8. CASE Handle(c)
  BY <1>0, <1>8, KeepsCommandTypes
  DEF Handle, wireVars, cmdVars, Typed, TypeOK, CommandTypes
<1>9. QED
  BY <1>1, <1>2, <1>3, <1>4, <1>5, <1>6, <1>7, <1>8

\* What ReadAnswer does to the commands.
LEMMA DeliverFacts ==
    ASSUME Typed, NEW c \in Conns, ReadAnswer(c)
    PROVE  /\ Head(up[c]) \in UpFrames
           /\ Head(up[c]) = up[c][1]
           /\ 1 \in DOMAIN up[c]
           /\ up[c][1].type = "answer"
           /\ Tail(up[c]) \in Seq(UpFrames)
           /\ cmd' \in [Commands -> CommandRecords]
           /\ \A k \in Commands :
                 /\ cmd'[k].state = cmd[k].state
                 /\ cmd'[k].request = cmd[k].request
                 /\ cmd'[k].conn = cmd[k].conn
                 /\ cmd'[k].id = cmd[k].id
                 /\ cmd'[k].result = cmd[k].result
                 /\ \/ cmd'[k].inbox = cmd[k].inbox
                    \/ /\ cmd'[k].inbox = up[c][1].body
                       /\ \E p \in pending[c] : p.id = up[c][1].number /\ p.command = k
<1>1. up[c] \in Seq(UpFrames) /\ up[c] # <<>> /\ Head(up[c]).type = "answer"
  BY DEF Typed, TypeOK, WireTypes, ReadAnswer
<1>2. /\ Head(up[c]) \in UpFrames
      /\ Head(up[c]) = up[c][1]
      /\ 1 \in DOMAIN up[c]
      /\ Tail(up[c]) \in Seq(UpFrames)
  BY <1>1, Popped
<1> DEFINE body == up[c][1].body
           number == up[c][1].number
           Given(k) == (\E p \in Waiter(c, number) : p.command = k) /\ cmd[k].inbox = None
<1>3. cmd' = [k \in Commands |-> IF Given(k) THEN [cmd[k] EXCEPT !.inbox = body] ELSE cmd[k]]
  BY <1>2 DEF ReadAnswer
<1>4. body \in AllBodies
  BY <1>2 DEF UpFrames
<1>5. \A k \in Commands : Given(k) => \E p \in pending[c] : p.id = number /\ p.command = k
  BY DEF Waiter
<1> HIDE DEF body, Given
<1>6. ASSUME NEW k \in Commands
      PROVE  /\ cmd'[k] \in CommandRecords
             /\ cmd'[k].state = cmd[k].state
             /\ cmd'[k].request = cmd[k].request
             /\ cmd'[k].conn = cmd[k].conn
             /\ cmd'[k].id = cmd[k].id
             /\ cmd'[k].result = cmd[k].result
             /\ cmd'[k].inbox = cmd[k].inbox \/ (Given(k) /\ cmd'[k].inbox = body)
  <2>1. cmd[k] \in CommandRecords
    BY DEF Typed, TypeOK, CommandTypes
  <2>2. cmd'[k] = IF Given(k) THEN [cmd[k] EXCEPT !.inbox = body] ELSE cmd[k]
    BY <1>3
  <2>3. QED
    BY <1>4, <2>1, <2>2, InboxType
<1>7. cmd' \in [Commands -> CommandRecords]
  BY <1>3, <1>6
<1>8. QED
  BY <1>1, <1>2, <1>5, <1>6, <1>7 DEF body

\* An answer is delivered.
LEMMA ReadAnswerTyped ==
    ASSUME Typed, NEW c \in Conns, ReadAnswer(c) PROVE Typed'
<1>1. Server!TypeOK'
  BY DEF Typed, TypeOK, Server!TypeOK, ReadAnswer, serverVars
<1>2. WireTypes'
  BY DeliverFacts DEF Typed, TypeOK, WireTypes, ReadAnswer, connVars, statusVars
<1>3. CommandTypes'
  BY DeliverFacts DEF Typed, TypeOK, CommandTypes, ReadAnswer
<1>4. UnderWay'
  BY DeliverFacts DEF Typed, UnderWay
<1>5. QED
  BY <1>1, <1>2, <1>3, <1>4 DEF Typed, TypeOK

\* What the station puts on the wire.
LEMMA SendFacts ==
    ASSUME Typed, SendStatus
    PROVE  /\ link \in Conns
           /\ \E frame \in UpFrames :
                 /\ frame.type = "CALL"
                 /\ frame.number = sent + 1
                 /\ up' = [up EXCEPT ![link] = Append(up[link], frame)]
<1> DEFINE frame == [type |-> "CALL", number |-> sent + 1, body |-> None]
<1>1. frame \in UpFrames /\ frame.type = "CALL" /\ frame.number = sent + 1
  BY NoneIsBody DEF UpFrames, Typed, TypeOK, WireTypes
<1>2. up' = [up EXCEPT ![link] = Append(up[link], frame)] /\ link \in Conns
  BY DEF SendStatus, Talks, Typed, TypeOK, WireTypes
<1> HIDE DEF frame
<1>3. QED
  BY <1>1, <1>2

\* A status is sent.
LEMMA SendStatusTyped == ASSUME Typed, SendStatus PROVE Typed'
<1>1. PICK frame \in UpFrames : up' = [up EXCEPT ![link] = Append(up[link], frame)]
  BY SendFacts
<1>2. up' \in [Conns -> Seq(UpFrames)]
  BY <1>1, SendFacts, Pushed DEF Typed, TypeOK, WireTypes
<1>3. WireTypes'
  BY <1>2 DEF Typed, TypeOK, WireTypes, SendStatus, connVars
<1>4. Server!TypeOK'
  BY DEF Typed, TypeOK, Server!TypeOK, SendStatus, serverVars
<1>5. QED
  BY <1>3, <1>4, KeepsCommandTypes DEF SendStatus, cmdVars, Typed, TypeOK, CommandTypes

\* What the station answers.
LEMMA AnswerFacts ==
    ASSUME Typed, NEW body \in UNION {Bodies[a] : a \in DOMAIN Bodies}, Answer(body)
    PROVE  /\ link \in Conns
           /\ 1 \in DOMAIN down[link]
           /\ down[link][1] \in DownFrames
           /\ body \in Bodies[down[link][1].action]
           /\ Tail(down[link]) \in Seq(DownFrames)
           /\ down' = [down EXCEPT ![link] = Tail(down[link])]
           /\ \E frame \in UpFrames :
                 /\ frame.type = "answer"
                 /\ frame.number = down[link][1].id
                 /\ frame.body = body
                 /\ up' = [up EXCEPT ![link] = Append(up[link], frame)]
           /\ \E told \in [to : Nat, body : AllBodies] :
                 /\ told.to = down[link][1].connector
                 /\ told.body = body
                 /\ said' = IF cmd[down[link][1].command].state = "waiting"
                              THEN [said EXCEPT ![down[link][1].command] = told] ELSE said
<1>1. link \in Conns /\ down[link] \in Seq(DownFrames) /\ down[link] # <<>>
  BY DEF Answer, Talks, Typed, TypeOK, WireTypes
<1> DEFINE f == down[link][1]
<1>2. /\ Head(down[link]) = f
      /\ f \in DownFrames
      /\ 1 \in DOMAIN down[link]
      /\ Tail(down[link]) \in Seq(DownFrames)
  BY <1>1, Popped
<1>3. f.id \in Nat /\ f.connector \in Nat /\ body \in AllBodies
  BY <1>2 DEF DownFrames, AllBodies
<1> DEFINE frame == [type |-> "answer", number |-> f.id, body |-> body]
           told == [to |-> f.connector, body |-> body]
<1>4. /\ body \in Bodies[f.action]
      /\ up' = [up EXCEPT ![link] = Append(up[link], frame)]
      /\ said' = IF cmd[f.command].state = "waiting"
                   THEN [said EXCEPT ![f.command] = told] ELSE said
      /\ down' = [down EXCEPT ![link] = Tail(down[link])]
  BY <1>2 DEF Answer
<1>5. frame \in UpFrames /\ frame.type = "answer" /\ frame.number = f.id /\ frame.body = body
  BY <1>3 DEF UpFrames
<1>6. told \in [to : Nat, body : AllBodies] /\ told.to = f.connector /\ told.body = body
  BY <1>3
<1> HIDE DEF frame, told
<1>7. QED
  BY <1>1, <1>2, <1>4, <1>5, <1>6

\* An answer is sent.
LEMMA AnswerTyped ==
    ASSUME Typed, NEW body \in UNION {Bodies[a] : a \in DOMAIN Bodies}, Answer(body)
    PROVE  Typed'
<1>1. PICK frame \in UpFrames : up' = [up EXCEPT ![link] = Append(up[link], frame)]
  BY AnswerFacts
<1>2. PICK told \in [to : Nat, body : AllBodies] :
        said' = IF cmd[down[link][1].command].state = "waiting"
                  THEN [said EXCEPT ![down[link][1].command] = told] ELSE said
  BY AnswerFacts
<1>3. /\ link \in Conns
      /\ down' = [down EXCEPT ![link] = Tail(down[link])]
      /\ Tail(down[link]) \in Seq(DownFrames)
  BY AnswerFacts
<1>4. up' \in [Conns -> Seq(UpFrames)] /\ down' \in [Conns -> Seq(DownFrames)]
  BY <1>1, <1>3, Pushed DEF Typed, TypeOK, WireTypes
<1>5. WireTypes'
  BY <1>4 DEF Typed, TypeOK, WireTypes, Answer, connVars, statusVars
<1>6. said' \in [Commands -> [to : Nat, body : AllBodies]]
  BY <1>2 DEF Typed, TypeOK, CommandTypes
<1>7. Server!TypeOK'
  BY DEF Typed, TypeOK, Server!TypeOK, Answer, serverVars
<1>8. QED
  BY <1>5, <1>6, <1>7, KeepsCommandTypes DEF Answer

\* What the steps of a command do to it.
LEMMA CommandFacts ==
    ASSUME Typed, NEW k \in Commands, NEW request \in Requests[k], Command(k, request)
    PROVE  /\ cmd[k].state = "idle"
           /\ \E r \in CommandRecords :
                 /\ cmd' = [cmd EXCEPT ![k] = r]
                 /\ \/ r.state = "returned" /\ r.result.err # "none"
                    \/ /\ r.state = "bound"
                       /\ r.inbox = None
                       /\ r.conn \in Conns
                       /\ r.request.method \in DOMAIN ActionOf
                       /\ Refusal(r.request) = "none"
<1>1. request \in [method : DOMAIN ActionOf, target : STRING]
  BY TrafficAssumption
<1>2. conns[Station] \in Conns \cup {NoConn}
  BY SessionAssumption DEF Typed, TypeOK, Server!TypeOK
<1>3. cmd[k].state = "idle"
  BY DEF Command, Asked
<1> DEFINE err == IF conns[Station] = NoConn THEN "ErrNotConnected" ELSE Refusal(request)
           bound == [Idle EXCEPT !.state = "bound", !.request = request, !.conn = conns[Station]]
<1>4. cmd' = [cmd EXCEPT ![k] = IF err # "none" THEN Failure(err) ELSE bound]
  BY DEF Command
<1>5. err \in {"none", "ErrNotConnected", "ErrUnknownEVSE", "not an integer"}
  BY DEF Refusal
<1>6. err = "none" => conns[Station] \in Conns /\ Refusal(request) = "none"
  BY <1>2
<1> HIDE DEF err
<1>7. CASE err # "none"
  BY <1>3, <1>4, <1>5, <1>7, FailureType
<1>8. CASE err = "none"
  <2>1. /\ bound \in CommandRecords
        /\ bound.state = "bound"
        /\ bound.request = request
        /\ bound.conn = conns[Station]
        /\ bound.inbox = None
    <3> DEFINE c == conns[Station]
    <3>1. c \in Conns
      BY <1>6, <1>8
    <3> HIDE DEF c
    <3>2. LET r == [Idle EXCEPT !.state = "bound", !.request = request, !.conn = c]
          IN  /\ r \in CommandRecords
              /\ r.state = "bound"
              /\ r.request = request
              /\ r.conn = c
              /\ r.inbox = None
      BY <1>1, <3>1, BoundType
    <3>3. QED
      BY <3>2 DEF c
  <2> HIDE DEF bound
  <2>2. cmd' = [cmd EXCEPT ![k] = bound]
    BY <1>4, <1>8
  <2>3. QED
    BY <1>1, <1>3, <1>6, <1>8, <2>1, <2>2
<1>9. QED
  BY <1>7, <1>8

\* It either fails or takes the next id and waits.
LEMMA CallFacts ==
    ASSUME Typed, NEW k \in Commands, Call(k)
    PROVE  LET c == cmd[k].conn
               id == nextID[c] + 1
           IN  /\ c \in Conns
               /\ cmd[k].state = "bound"
               /\ nextID' = [nextID EXCEPT ![c] = id]
               /\ \E r \in CommandRecords :
                     /\ cmd' = [cmd EXCEPT ![k] = r]
                     /\ \/ /\ r.state = "returned"
                           /\ r.result.err # "none"
                           /\ UNCHANGED <<pending, down>>
                        \/ /\ r.state = "waiting"
                           /\ r.id = id
                           /\ r.inbox = cmd[k].inbox
                           /\ r.request = cmd[k].request
                           /\ r.conn = c
                           /\ pending' = [pending EXCEPT ![c] = pending[c] \cup {[id |-> id, command |-> k]}]
                           /\ \/ down' = down
                              \/ \E frame \in DownFrames :
                                    /\ frame.id = id
                                    /\ frame.command = k
                                    /\ frame.action = ActionOf[cmd[k].request.method]
                                    /\ frame.connector = Address(cmd[k].request)
                                    /\ down' = [down EXCEPT ![c] = Append(down[c], frame)]
<1> DEFINE c == cmd[k].conn
           id == nextID[c] + 1
           frame == [id |-> id, command |-> k, action |-> ActionOf[cmd[k].request.method],
                     connector |-> Address(cmd[k].request)]
           waiting == [[cmd[k] EXCEPT !.state = "waiting"] EXCEPT !.id = id]
<1>1. cmd[k].state = "bound" /\ cmd[k] \in CommandRecords
  BY DEF Call, Typed, TypeOK, CommandTypes
<1>2. /\ c \in Conns
      /\ cmd[k].request.method \in DOMAIN ActionOf
      /\ Refusal(cmd[k].request) = "none"
  BY <1>1 DEF Typed, UnderWay
<1>3. id \in Nat /\ Address(cmd[k].request) \in Nat
  BY <1>2, AddressType DEF Typed, TypeOK, CommandTypes
<1>4. /\ frame \in DownFrames
      /\ frame.id = id
      /\ frame.command = k
      /\ frame.action = ActionOf[cmd[k].request.method]
      /\ frame.connector = Address(cmd[k].request)
  BY <1>2, <1>3 DEF DownFrames
<1>5. /\ waiting \in CommandRecords
      /\ waiting.state = "waiting"
      /\ waiting.id = id
      /\ waiting.inbox = cmd[k].inbox
      /\ waiting.request = cmd[k].request
      /\ waiting.conn = c
  BY <1>1, <1>3, WaitingType
<1>6. nextID' = [nextID EXCEPT ![c] = id]
  BY DEF Call
<1>7. \/ /\ cmd' = [cmd EXCEPT ![k] = waiting]
         /\ pending' = [pending EXCEPT ![c] = pending[c] \cup {[id |-> id, command |-> k]}]
         /\ down' = down \/ down' = [down EXCEPT ![c] = Append(down[c], frame)]
      \/ cmd' = [cmd EXCEPT ![k] = Failure("ErrNotConnected")] /\ UNCHANGED <<pending, down>>
  <2>1. CASE cmd' = [[cmd EXCEPT ![k].state = "waiting"] EXCEPT ![k].id = id]
             /\ pending' = [pending EXCEPT ![c] = pending[c] \cup {[id |-> id, command |-> k]}]
             /\ down' = IF Done(c) THEN down ELSE [down EXCEPT ![c] = Append(down[c], frame)]
    <3>1. cmd \in [Commands -> CommandRecords]
      BY DEF Typed, TypeOK, CommandTypes
    <3> HIDE DEF frame, id
    <3>2. cmd' = [cmd EXCEPT ![k] = waiting]
      BY <2>1, <3>1
    <3>3. QED
      BY <2>1, <3>2
  <2>2. QED
    BY <2>1 DEF Call
<1>8. QED
  <2> HIDE DEF frame, id, waiting
  <2>1. /\ Failure("ErrNotConnected") \in CommandRecords
        /\ Failure("ErrNotConnected").state = "returned"
        /\ Failure("ErrNotConnected").result.err # "none"
    BY FailureType
  <2>2. CASE /\ cmd' = [cmd EXCEPT ![k] = waiting]
             /\ pending' = [pending EXCEPT ![c] = pending[c] \cup {[id |-> id, command |-> k]}]
             /\ down' = down \/ down' = [down EXCEPT ![c] = Append(down[c], frame)]
    BY <1>1, <1>2, <1>4, <1>5, <1>6, <2>2 DEF id
  <2>3. CASE cmd' = [cmd EXCEPT ![k] = Failure("ErrNotConnected")] /\ UNCHANGED <<pending, down>>
    BY <1>1, <1>2, <1>6, <2>1, <2>3 DEF id
  <2>4. QED
    BY <1>7, <2>2, <2>3

\* It returns an error, or what it makes of its inbox.
LEMMA EndFacts ==
    ASSUME Typed, NEW k \in Commands, Answered(k) \/ Closed(k) \/ GivenUp(k)
    PROVE  /\ cmd[k].state = "waiting"
           /\ pending' = [pending EXCEPT ![cmd[k].conn] = {p \in pending[cmd[k].conn] : p.id # cmd[k].id}]
           /\ UNCHANGED <<serverVars, wireVars, connVars, statusVars, nextID>>
           /\ \E r \in CommandRecords :
                 /\ cmd' = [cmd EXCEPT ![k] = r]
                 /\ r.state = "returned"
                 /\ \/ r.result.err # "none" /\ said' = [said EXCEPT ![k] = Nothing]
                    \/ /\ cmd[k].inbox # None
                       /\ r.request = cmd[k].request
                       /\ r.result = Interpret(cmd[k].request, cmd[k].inbox)
                       /\ said' = said
<1>1. cmd[k] \in CommandRecords /\ cmd[k].inbox \in AllBodies
  BY DEF Typed, TypeOK, CommandTypes, CommandRecords
<1>2. /\ cmd[k].state = "waiting"
      /\ pending' = [pending EXCEPT ![cmd[k].conn] = {p \in pending[cmd[k].conn] : p.id # cmd[k].id}]
      /\ UNCHANGED <<serverVars, wireVars, connVars, statusVars, nextID>>
  BY DEF Answered, Closed, GivenUp, Fail, forget
<1>3. CASE Answered(k)
  <2> DEFINE r == [Idle EXCEPT !.state = "returned", !.request = cmd[k].request,
                               !.result = Interpret(cmd[k].request, cmd[k].inbox)]
  <2>1. /\ r \in CommandRecords
        /\ r.state = "returned"
        /\ r.request = cmd[k].request
        /\ r.result = Interpret(cmd[k].request, cmd[k].inbox)
    BY <1>1, ReturnedType
  <2>2. cmd' = [cmd EXCEPT ![k] = r] /\ cmd[k].inbox # None /\ said' = said
    BY <1>3 DEF Answered
  <2> HIDE DEF r
  <2>3. QED
    BY <1>2, <2>1, <2>2
<1>4. ASSUME NEW err \in {"ErrTimeout", "ErrNotConnected"}, Fail(k, err)
      PROVE  /\ Failure(err) \in CommandRecords
             /\ cmd' = [cmd EXCEPT ![k] = Failure(err)]
             /\ Failure(err).state = "returned"
             /\ Failure(err).result.err # "none"
             /\ said' = [said EXCEPT ![k] = Nothing]
  BY <1>4, FailureType DEF Fail
<1>5. CASE Closed(k) \/ GivenUp(k)
  BY <1>2, <1>4, <1>5 DEF Closed, GivenUp
<1>6. QED
  BY <1>3, <1>5

\* The steps of a command keep the types.
LEMMA CommandTyped ==
    ASSUME Typed, NEW k \in Commands,
           \/ \E request \in Requests[k] : Command(k, request)
           \/ Call(k) \/ Answered(k) \/ Closed(k) \/ GivenUp(k)
    PROVE  Typed'
<1>1. Server!TypeOK'
  BY CommandSteps DEF Typed, TypeOK, Server!TypeOK, serverVars
<1>2. ASSUME NEW request \in Requests[k], Command(k, request) PROVE Typed'
  <2>1. PICK r \in CommandRecords :
          /\ cmd' = [cmd EXCEPT ![k] = r]
          /\ r.state = "bound" =>
                /\ r.conn \in Conns
                /\ r.request.method \in DOMAIN ActionOf
                /\ Refusal(r.request) = "none"
          /\ r.state # "waiting"
    BY <1>2, CommandFacts
  <2>2. CommandTypes'
    BY <1>2, <2>1 DEF Typed, TypeOK, CommandTypes, Command
  <2>3. UnderWay'
    BY <2>1 DEF Typed, TypeOK, CommandTypes, UnderWay
  <2>4. WireTypes'
    BY <1>2 DEF Typed, TypeOK, WireTypes, Command, wireVars, connVars, statusVars
  <2>5. QED
    BY <1>1, <2>2, <2>3, <2>4 DEF Typed, TypeOK
<1>3. CASE Call(k)
  <2> DEFINE c == cmd[k].conn
             id == nextID[c] + 1
  <2>1. PICK r \in CommandRecords :
          /\ cmd' = [cmd EXCEPT ![k] = r]
          /\ r.state = "returned" \/ (r.request = cmd[k].request /\ r.conn = c)
    BY <1>3, CallFacts
  <2>2. c \in Conns /\ cmd[k].state = "bound" /\ nextID' = [nextID EXCEPT ![c] = id]
    BY <1>3, CallFacts
  <2>3. id \in Nat
    BY <2>2 DEF Typed, TypeOK, CommandTypes
  <2>4. \/ pending' = pending
        \/ pending' = [pending EXCEPT ![c] = pending[c] \cup {[id |-> id, command |-> k]}]
    BY <1>3, CallFacts
  <2>5. \/ down' = down
        \/ \E frame \in DownFrames : down' = [down EXCEPT ![c] = Append(down[c], frame)]
    BY <1>3, CallFacts
  <2>6. down' \in [Conns -> Seq(DownFrames)]
    <3>1. down \in [Conns -> Seq(DownFrames)]
      BY DEF Typed, TypeOK, WireTypes
    <3>2. ASSUME NEW frame \in DownFrames PROVE Append(down[c], frame) \in Seq(DownFrames)
      BY <2>2, <3>1, Pushed
    <3> HIDE DEF c
    <3>3. QED
      BY <2>2, <2>5, <3>1, <3>2
  <2>7. WireTypes'
    BY <1>3, <2>6 DEF Typed, TypeOK, WireTypes, Call, connVars, statusVars
  <2>8. pending' \in [Conns -> SUBSET [id : Nat, command : Commands]]
    BY <2>2, <2>3, <2>4 DEF Typed, TypeOK, CommandTypes
  <2> HIDE DEF id
  <2>9. CommandTypes'
    BY <1>3, <2>1, <2>2, <2>3, <2>8 DEF Typed, TypeOK, CommandTypes, Call
  <2>10. UnderWay'
    BY <2>1, <2>2 DEF Typed, TypeOK, CommandTypes, UnderWay
  <2>11. QED
    BY <1>1, <2>7, <2>9, <2>10 DEF Typed, TypeOK
<1>4. CASE Answered(k) \/ Closed(k) \/ GivenUp(k)
  <2>1. PICK r \in CommandRecords : cmd' = [cmd EXCEPT ![k] = r] /\ r.state = "returned"
    BY <1>4, EndFacts
  <2>2. said' = said \/ said' = [said EXCEPT ![k] = Nothing]
    BY <1>4, EndFacts
  <2>3. Nothing \in [to : Nat, body : AllBodies]
    BY NoneIsBody DEF Nothing
  <2>4. pending' = [pending EXCEPT ![cmd[k].conn] = {p \in pending[cmd[k].conn] : p.id # cmd[k].id}]
        /\ UNCHANGED <<wireVars, connVars, statusVars, nextID>>
    BY <1>4, EndFacts
  <2>5. WireTypes'
    BY <2>4 DEF Typed, TypeOK, WireTypes, wireVars, connVars, statusVars
  <2>6. CommandTypes'
    BY <2>1, <2>2, <2>3, <2>4 DEF Typed, TypeOK, CommandTypes
  <2>7. UnderWay'
    BY <2>1 DEF Typed, TypeOK, CommandTypes, UnderWay
  <2>8. QED
    BY <1>1, <2>5, <2>6, <2>7 DEF Typed, TypeOK
<1>5. QED
  BY <1>2, <1>3, <1>4

\* Every step keeps the types.
LEMMA NextTyped == Typed /\ Server!TypeOK' /\ [Next]_vars => Typed'
<1> SUFFICES ASSUME Typed, Server!TypeOK', [Next]_vars PROVE Typed'
  OBVIOUS
<1>1. CASE UNCHANGED vars
  BY <1>1
  DEF vars, serverVars, wireVars, connVars, statusVars, cmdVars, Typed, TypeOK, WireTypes,
      CommandTypes, UnderWay, Server!TypeOK
<1>2. QED
  BY <1>1, WireTyped, ReadAnswerTyped, SendStatusTyped, AnswerTyped, CommandTyped DEF Next, Wire

\* They hold throughout.
LEMMA TypedHolds == Spec => []Typed
<1>1. Init => Typed
  BY InitTyped
<1>2. ServerInv' => Server!TypeOK'
  BY DEF ServerInv
<1>3. QED
  BY <1>1, <1>2, NextTyped, ServerInvHolds, PTL DEF Spec

\* The types, for any bounds: no frame, id, number or answer is out of place.
THEOREM TypeCorrect == Spec => []TypeOK
<1>1. Typed => TypeOK
  BY DEF Typed
<1>2. QED
  BY <1>1, TypedHolds, PTL

-----------------------------------------------------------------------------
(***************************************************************************)
(* The pipeline of a connection.                                           *)
(***************************************************************************)
\* Nothing has been sent at first.
LEMMA InitPipe == Init => PipeInv
BY SessionAssumption
DEF Init, PipeInv, PipeHome, PipeOrder, PipeNewer, Active, Server!Init

\* A step that leaves the pipelines alone, and no connection with one behind.
LEMMA KeepsPipe ==
    ASSUME PipeInv,
           UNCHANGED <<up, sent, calls, handling, reported, patient>>,
           link' # NoConn => pc'[link'] \notin {"new", "handshake", "rejected"},
           \A c \in Conns : Active(c) => Active(c)',
           \A c \in Conns : pc[c] = "running" => pc'[c] = "running"
    PROVE  PipeInv'
<1>1. PipeHome'
  BY DEF PipeInv, PipeHome
<1>2. (\A c \in Conns : PipeOrder(c)') /\ (Station \in patient' => \A c \in Conns : PipeNewer(c)')
  BY DEF PipeInv, PipeOrder, PipeNewer
<1>3. QED
  BY <1>1, <1>2 DEF PipeInv

\* The goroutine's own steps do not touch a pipeline in use.
LEMMA PlainPipe ==
    ASSUME Typed, PipeInv, NEW c \in Conns, Plain(c) \/ Upgrade(c) \/ LinkDies(c)
    PROVE  PipeInv'
<1> USE SessionAssumption
<1>1. UNCHANGED <<up, sent, calls, handling, reported, patient>>
  BY DEF Plain, Upgrade, LinkDies, wireVars, connVars, statusVars
<1>2. pc \in [Conns -> Server!PCs] /\ link \in Conns \cup {NoConn}
  BY DEF Typed, TypeOK, Server!TypeOK, WireTypes
<1>3. link' # NoConn => pc'[link'] \notin {"new", "handshake", "rejected"}
  <2>1. link # NoConn => pc[link] \notin {"new", "handshake", "rejected"}
    BY DEF PipeInv, PipeHome
  <2>2. CASE Plain(c)
    BY <1>2, <2>1, <2>2
    DEF Plain, wireVars, Server!Goto, Server!Dial, Server!Spawn, Server!Register,
        Server!ReportConnected, Server!Unregister, Server!Superseded, Server!ReportDisconnected
  <2>3. CASE Upgrade(c)
    BY <1>2, <2>3 DEF Upgrade, Server!Upgrade, Server!Goto
  <2>4. CASE LinkDies(c)
    BY <1>2, <2>1, <2>4 DEF LinkDies, Server!LinkDies
  <2>5. QED
    BY <2>2, <2>3, <2>4
<1>4. \A d \in Conns : (Active(d) => Active(d)') /\ (pc[d] = "running" => pc'[d] = "running")
  BY <1>2
  DEF Active, Plain, Upgrade, LinkDies, Server!Goto, Server!Dial, Server!Spawn, Server!Register,
      Server!ReportConnected, Server!Unregister, Server!Superseded, Server!ReportDisconnected,
      Server!Upgrade, Server!LinkDies
<1>5. QED
  BY <1>1, <1>3, <1>4, KeepsPipe

\* Run leaves nothing behind.
LEMMA RunReturnsPipe ==
    ASSUME Typed, PipeInv, NEW c \in Conns, RunReturns(c) PROVE PipeInv'
<1> USE DEF RunReturns, statusVars
<1>1. pc \in [Conns -> Server!PCs] /\ pc' = [pc EXCEPT ![c] = "stopped"] /\ pc[c] = "running"
  BY DEF Typed, TypeOK, Server!TypeOK, Server!RunReturns, Server!Goto
<1>2. WireTypes
  BY DEF Typed, TypeOK
<1>3. PipeHome'
  BY <1>1, <1>2 DEF PipeInv, WireTypes, PipeHome, Active
<1>4. \A d \in Conns : PipeOrder(d)'
  <2>1. up'[c] = <<>> /\ calls'[c] = <<>> /\ handling'[c] = 0 /\ sent' = sent /\ 0 <= sent
    BY <1>2 DEF WireTypes
  <2>2. PipeOrder(c)'
    BY <2>1 DEF PipeOrder
  <2>3. ASSUME NEW d \in Conns \ {c} PROVE PipeOrder(d)'
    <3>1. up'[d] = up[d] /\ calls'[d] = calls[d] /\ handling'[d] = handling[d]
      BY <1>2 DEF WireTypes
    <3>2. QED
      BY <2>1, <3>1 DEF PipeInv, PipeOrder
  <2>4. QED
    BY <2>2, <2>3
<1>5. Station \in patient' => \A d \in Conns : PipeNewer(d)'
  BY <1>2 DEF PipeInv, WireTypes, PipeNewer
<1>6. QED
  BY <1>3, <1>4, <1>5 DEF PipeInv

\* A frame at the end of a pipeline: an answer, or the newest status.
LEMMA PushedPipe ==
    ASSUME Typed, PipeInv, NEW c \in Conns, NEW frame \in UpFrames, Active(c),
           up' = [up EXCEPT ![c] = Append(up[c], frame)],
           sent' \in {sent, sent + 1},
           frame.type = "CALL" => frame.number = sent',
           UNCHANGED <<pc, patient, link, calls, handling, reported>>
    PROVE  PipeInv'
<1>1. WireTypes /\ up[c] \in Seq(UpFrames)
  BY DEF Typed, TypeOK, WireTypes
<1>2. \A n \in DOMAIN up'[c] :
         \/ n \in DOMAIN up[c] /\ up'[c][n] = up[c][n]
         \/ n = Len(up[c]) + 1 /\ up'[c][n] = frame
  BY <1>1, Pushed DEF WireTypes
<1>3. \A d \in Conns \ {c} : up'[d] = up[d]
  BY <1>1 DEF WireTypes
<1>4. PipeHome'
  BY <1>3 DEF PipeInv, PipeHome, Active
<1>5. ASSUME NEW d \in Conns PROVE PipeOrder(d)'
  <2>1. PipeOrder(d) /\ sent <= sent' /\ sent \in Nat /\ sent' \in Nat
    BY <1>1 DEF PipeInv, WireTypes
  <2>2. handling[d] \in Nat /\ calls[d] \in Seq(Nat) /\ up[d] \in Seq(UpFrames)
    BY <1>1 DEF WireTypes
  <2>3. handling[d] <= sent' /\ \A n \in DOMAIN calls[d] : calls[d][n] <= sent'
    BY <2>1, <2>2 DEF PipeOrder
  <2>0. \A n \in DOMAIN up[d] : up[d][n].type = "CALL" => up[d][n].number <= sent'
    <3>0. \A n \in DOMAIN up[d] : up[d][n] \in UpFrames
      BY <2>2
    <3>1. \A n \in DOMAIN up[d] : up[d][n].number \in Nat
      BY <3>0 DEF UpFrames
    <3>2. \A n \in DOMAIN up[d] : up[d][n].type = "CALL" => up[d][n].number <= sent
      BY <2>1 DEF PipeOrder
    <3>3. QED
      BY <2>1, <3>1, <3>2
  <2>4. CASE d # c
    BY <1>3, <2>0, <2>1, <2>3, <2>4 DEF PipeOrder
  <2>5. CASE d = c
    <3>1. ASSUME NEW n \in DOMAIN up'[c], up'[c][n].type = "CALL"
          PROVE  /\ up'[c][n].number <= sent'
                 /\ handling[c] <= up'[c][n].number
                 /\ \A m \in DOMAIN calls[c] : calls[c][m] <= up'[c][n].number
                 /\ \A m \in 1 .. n - 1 :
                      up'[c][m].type = "CALL" => up'[c][m].number <= up'[c][n].number
      <4>1. CASE n \in DOMAIN up[c] /\ up'[c][n] = up[c][n]
        <5>1. \A m \in 1 .. n - 1 : m \in DOMAIN up[c] /\ m \in DOMAIN up'[c] /\ up'[c][m] = up[c][m]
          BY <1>1, <1>2, <4>1
        <5>2. QED
          BY <2>0, <2>1, <2>5, <3>1, <4>1, <5>1 DEF PipeOrder
      <4>2. CASE n = Len(up[c]) + 1 /\ up'[c][n] = frame
        <5>1. \A m \in 1 .. n - 1 : m \in DOMAIN up[c] /\ m \in DOMAIN up'[c] /\ up'[c][m] = up[c][m]
          BY <1>1, <1>2, <4>2
        <5>2. \A m \in DOMAIN up[c] : up[c][m].type = "CALL" => up[c][m].number <= sent'
          BY <2>0, <2>5
        <5>3. QED
          BY <2>1, <2>3, <2>5, <3>1, <4>2, <5>1, <5>2
      <4>3. QED
        BY <1>2, <3>1, <4>1, <4>2
    <3>2. QED
      BY <2>1, <2>3, <2>5, <3>1 DEF PipeOrder
  <2>6. QED
    BY <2>4, <2>5
<1>6. Station \in patient' => \A d \in Conns : PipeNewer(d)'
  <2>1. reported <= sent /\ sent' >= sent /\ reported \in Nat /\ sent \in Nat
    BY <1>1 DEF PipeInv, WireTypes
  <2>2. QED
    BY <1>2, <1>3, <2>1 DEF PipeInv, PipeNewer
<1>7. reported' <= sent'
  BY <1>1 DEF PipeInv, WireTypes
<1>8. QED
  BY <1>4, <1>5, <1>6, <1>7 DEF PipeInv

\* The station writes only to a connection that can be read.
LEMMA StationPipe ==
    ASSUME Typed, PipeInv,
           SendStatus \/ \E body \in UNION {Bodies[a] : a \in DOMAIN Bodies} : Answer(body)
    PROVE  PipeInv'
<1>1. link \in Conns /\ Active(link)
  BY DEF SendStatus, Answer, Talks, PipeInv, PipeHome, Active, Typed, TypeOK, WireTypes,
         Server!TypeOK, Server!PCs
<1>2. CASE SendStatus
  <2>1. PICK frame \in UpFrames :
          frame.number = sent + 1 /\ up' = [up EXCEPT ![link] = Append(up[link], frame)]
    BY <1>2, SendFacts
  <2>2. QED
    BY <1>1, <1>2, <2>1, PushedPipe DEF SendStatus, serverVars, connVars
<1>3. ASSUME NEW body \in UNION {Bodies[a] : a \in DOMAIN Bodies}, Answer(body) PROVE PipeInv'
  <2>1. PICK frame \in UpFrames :
          frame.type = "answer" /\ up' = [up EXCEPT ![link] = Append(up[link], frame)]
    BY <1>3, AnswerFacts
  <2>2. QED
    BY <1>1, <1>3, <2>1, PushedPipe DEF Answer, serverVars, connVars, statusVars
<1>4. QED
  BY <1>2, <1>3

\* A connection's pipeline moves: what is in it afterwards was in it before, in
\* the same order.
LEMMA MovedPipe ==
    ASSUME Typed, PipeInv, NEW c \in Conns,
           UNCHANGED <<pc, patient, link, sent, reported>>,
           \A d \in Conns \ {c} : up'[d] = up[d] /\ calls'[d] = calls[d] /\ handling'[d] = handling[d],
           up'[c] # <<>> => up[c] # <<>>,
           calls'[c] # <<>> \/ handling'[c] # 0 => pc[c] = "running",
           PipeOrder(c)',
           Station \in patient => PipeNewer(c)'
    PROVE  PipeInv'
<1>1. PipeHome'
  BY DEF PipeInv, PipeHome, Active
<1>2. ASSUME NEW d \in Conns \ {c} PROVE PipeOrder(d)' /\ (Station \in patient => PipeNewer(d)')
  <2>1. up'[d] = up[d] /\ calls'[d] = calls[d] /\ handling'[d] = handling[d]
    OBVIOUS
  <2>2. PipeOrder(d) /\ (Station \in patient => PipeNewer(d))
    BY DEF PipeInv
  <2>3. QED
    BY <2>1, <2>2 DEF PipeOrder, PipeNewer
<1>3. QED
  BY <1>1, <1>2 DEF PipeInv

\* The facts the steps on a pipeline start from.
LEMMA PipeFacts ==
    ASSUME Typed, PipeInv, NEW c \in Conns
    PROVE  /\ up[c] \in Seq(UpFrames)
           /\ calls[c] \in Seq(Nat)
           /\ handling[c] \in Nat
           /\ \A n \in DOMAIN up[c] : up[c][n].number \in Nat
           /\ \A n \in DOMAIN calls[c] : calls[c][n] \in Nat
           /\ PipeOrder(c)
           /\ Station \in patient => PipeNewer(c)
<1>1. up[c] \in Seq(UpFrames) /\ calls[c] \in Seq(Nat) /\ handling[c] \in Nat
  BY DEF Typed, TypeOK, WireTypes
<1>2. \A n \in DOMAIN up[c] : up[c][n] \in UpFrames
  BY <1>1
<1>3. \A n \in DOMAIN up[c] : up[c][n].number \in Nat
  BY <1>2 DEF UpFrames
<1>4. QED
  BY <1>1, <1>3 DEF PipeInv

\* readLoop takes a status off the socket and puts it behind the others.
LEMMA ReadCallPipe ==
    ASSUME Typed, PipeInv, NEW c \in Conns, ReadCall(c) PROVE PipeInv'
<1> DEFINE number == up[c][1].number
<1>1. /\ Head(up[c]) = up[c][1]
      /\ 1 \in DOMAIN up[c]
      /\ \A n \in DOMAIN Tail(up[c]) :
            n \in Nat /\ n + 1 \in DOMAIN up[c] /\ Tail(up[c])[n] = up[c][n + 1]
  BY PipeFacts, Popped DEF ReadCall
<1>2. /\ up[c][1].type = "CALL"
      /\ number \in Nat
      /\ calls' = [calls EXCEPT ![c] = Append(calls[c], number)]
      /\ up' = [up EXCEPT ![c] = Tail(up[c])]
      /\ handling' = handling
      /\ pc[c] = "running"
      /\ UNCHANGED <<pc, patient, link, sent, reported>>
  BY <1>1, PipeFacts DEF ReadCall, serverVars, statusVars
<1>3. \A n \in DOMAIN Append(calls[c], number) :
         \/ n \in DOMAIN calls[c] /\ Append(calls[c], number)[n] = calls[c][n]
         \/ n = Len(calls[c]) + 1 /\ Append(calls[c], number)[n] = number
  BY <1>2, PipeFacts, Pushed
<1>4. /\ up'[c] = Tail(up[c])
      /\ calls'[c] = Append(calls[c], number)
      /\ \A d \in Conns \ {c} : up'[d] = up[d] /\ calls'[d] = calls[d]
  BY <1>2 DEF Typed, TypeOK, WireTypes
<1>5. PipeOrder(c)'
  <2>1. ASSUME NEW n \in DOMAIN calls'[c]
        PROVE  /\ calls'[c][n] <= sent
               /\ handling[c] <= calls'[c][n]
               /\ \A m \in 1 .. n - 1 : calls'[c][m] <= calls'[c][n]
    <3>1. \A m \in 1 .. n - 1 : m \in DOMAIN calls[c] /\ calls'[c][m] = calls[c][m]
      BY <1>3, <1>4, PipeFacts
    <3>2. CASE n \in DOMAIN calls[c] /\ calls'[c][n] = calls[c][n]
      BY <3>1, <3>2, PipeFacts DEF PipeOrder
    <3>3. CASE calls'[c][n] = number
      BY <1>1, <1>2, <3>1, <3>3, PipeFacts DEF PipeOrder
    <3>4. QED
      BY <1>3, <1>4, <2>1, <3>2, <3>3
  <2>2. ASSUME NEW n \in DOMAIN up'[c], up'[c][n].type = "CALL"
        PROVE  /\ up'[c][n].number <= sent
               /\ handling[c] <= up'[c][n].number
               /\ \A m \in DOMAIN calls'[c] : calls'[c][m] <= up'[c][n].number
               /\ \A m \in 1 .. n - 1 :
                    up'[c][m].type = "CALL" => up'[c][m].number <= up'[c][n].number
    <3>1. n \in Nat /\ n + 1 \in DOMAIN up[c] /\ up'[c][n] = up[c][n + 1] /\ n >= 1
      BY <1>1, <1>4, PipeFacts
    <3>2. \A m \in 1 .. n - 1 : m \in DOMAIN up'[c] /\ m + 1 \in 1 .. (n + 1) - 1
      BY <1>4, <3>1, PipeFacts
    <3>3. 1 \in 1 .. (n + 1) - 1
      BY <3>1
    <3>4. number <= up[c][n + 1].number
      BY <1>2, <2>2, <3>1, <3>3, PipeFacts DEF PipeOrder
    <3>5. \A m \in DOMAIN calls[c] : calls[c][m] <= up[c][n + 1].number
      BY <2>2, <3>1, PipeFacts DEF PipeOrder
    <3>6. \A m \in DOMAIN calls'[c] : calls'[c][m] <= up'[c][n].number
      BY <1>3, <1>4, <3>1, <3>4, <3>5
    <3>7. up[c][n + 1].number <= sent /\ handling[c] <= up[c][n + 1].number
      BY <2>2, <3>1, PipeFacts DEF PipeOrder
    <3>8. \A m \in 1 .. n - 1 :
            up'[c][m].type = "CALL" => up'[c][m].number <= up'[c][n].number
      BY <1>1, <1>4, <2>2, <3>1, <3>2, PipeFacts DEF PipeOrder
    <3>9. QED
      BY <3>1, <3>6, <3>7, <3>8
  <2>3. QED
    BY <1>2, <2>1, <2>2, PipeFacts DEF PipeOrder
<1>6. Station \in patient => PipeNewer(c)'
  <2>1. Station \in patient => \A n \in DOMAIN calls'[c] : reported <= calls'[c][n]
    BY <1>1, <1>2, <1>3, <1>4, PipeFacts DEF PipeNewer
  <2>2. Station \in patient =>
          \A n \in DOMAIN up'[c] : up'[c][n].type = "CALL" => reported <= up'[c][n].number
    BY <1>1, <1>4, PipeFacts DEF PipeNewer
  <2>3. QED
    BY <1>2, <2>1, <2>2, PipeFacts DEF PipeNewer
<1>7. up[c] # <<>>
  BY DEF ReadCall
<1>8. QED
  BY <1>2, <1>4, <1>5, <1>6, <1>7, MovedPipe

\* An answer is taken off.
LEMMA ReadAnswerPipe ==
    ASSUME Typed, PipeInv, NEW c \in Conns, ReadAnswer(c) PROVE PipeInv'
<1>1. /\ up[c] # <<>>
      /\ \A n \in DOMAIN Tail(up[c]) :
            n \in Nat /\ n + 1 \in DOMAIN up[c] /\ Tail(up[c])[n] = up[c][n + 1]
  BY PipeFacts, Popped DEF ReadAnswer
<1>2. /\ up' = [up EXCEPT ![c] = Tail(up[c])]
      /\ UNCHANGED <<pc, patient, link, sent, reported, calls, handling>>
  BY DEF ReadAnswer, serverVars, statusVars, connVars
<1>3. up'[c] = Tail(up[c]) /\ \A d \in Conns \ {c} : up'[d] = up[d]
  BY <1>2 DEF Typed, TypeOK, WireTypes
<1>4. PipeOrder(c)'
  <2>1. ASSUME NEW n \in DOMAIN up'[c], up'[c][n].type = "CALL"
        PROVE  /\ up'[c][n].number <= sent
               /\ handling[c] <= up'[c][n].number
               /\ \A m \in DOMAIN calls[c] : calls[c][m] <= up'[c][n].number
               /\ \A m \in 1 .. n - 1 :
                    up'[c][m].type = "CALL" => up'[c][m].number <= up'[c][n].number
    <3>1. n \in Nat /\ n + 1 \in DOMAIN up[c] /\ up'[c][n] = up[c][n + 1] /\ n >= 1
      BY <1>1, <1>3, PipeFacts
    <3>2. \A m \in 1 .. n - 1 : m \in DOMAIN up'[c] /\ m + 1 \in 1 .. (n + 1) - 1
      BY <1>3, <3>1, PipeFacts
    <3>3. QED
      BY <1>1, <1>3, <2>1, <3>1, <3>2, PipeFacts DEF PipeOrder
  <2>2. QED
    BY <1>2, <2>1, PipeFacts DEF PipeOrder
<1>5. Station \in patient => PipeNewer(c)'
  BY <1>1, <1>2, <1>3, PipeFacts DEF PipeNewer
<1>6. calls'[c] # <<>> \/ handling'[c] # 0 => pc[c] = "running"
  BY DEF ReadAnswer
<1>7. QED
  BY <1>1, <1>2, <1>3, <1>4, <1>5, <1>6, MovedPipe

\* What readLoop could not add is dropped.
LEMMA ReadEndsPipe ==
    ASSUME Typed, PipeInv, NEW c \in Conns, ReadEnds(c) PROVE PipeInv'
<1>1. /\ UNCHANGED <<pc, patient, link, sent, reported, up, handling>>
      /\ pc[c] = "running"
      /\ calls' = [calls EXCEPT ![c] =
                     IF Len(calls[c]) > CallBuffer THEN SubSeq(calls[c], 1, CallBuffer) ELSE calls[c]]
  BY DEF ReadEnds, serverVars, statusVars, wireVars
<1>2. \A d \in Conns \ {c} : calls'[d] = calls[d]
  BY <1>1 DEF Typed, TypeOK, WireTypes
<1>3. calls'[c] = IF Len(calls[c]) > CallBuffer THEN SubSeq(calls[c], 1, CallBuffer) ELSE calls[c]
  BY <1>1 DEF Typed, TypeOK, WireTypes
<1>4. \A n \in DOMAIN calls'[c] : n \in DOMAIN calls[c] /\ calls'[c][n] = calls[c][n]
  BY <1>3, PipeFacts, Cut, SessionAssumption
<1>5. PipeOrder(c)'
  <2>1. ASSUME NEW n \in DOMAIN calls'[c]
        PROVE  /\ calls[c][n] <= sent
               /\ handling[c] <= calls[c][n]
               /\ \A m \in 1 .. n - 1 : calls'[c][m] <= calls'[c][n]
    <3>1. \A m \in 1 .. n - 1 : m \in DOMAIN calls'[c]
      BY <1>3, PipeFacts, SessionAssumption
    <3>2. QED
      BY <1>4, <3>1, PipeFacts DEF PipeOrder
  <2>2. QED
    BY <1>1, <1>4, <2>1, PipeFacts DEF PipeOrder
<1>6. Station \in patient => PipeNewer(c)'
  BY <1>1, <1>4, PipeFacts DEF PipeNewer
<1>7. QED
  BY <1>1, <1>2, <1>5, <1>6, MovedPipe

\* handleLoop takes the oldest status into the handler.
LEMMA DispatchPipe ==
    ASSUME Typed, PipeInv, NEW c \in Conns, Dispatch(c) PROVE PipeInv'
<1>1. /\ Head(calls[c]) = calls[c][1]
      /\ 1 \in DOMAIN calls[c]
      /\ \A n \in DOMAIN Tail(calls[c]) :
            n \in Nat /\ n + 1 \in DOMAIN calls[c] /\ Tail(calls[c])[n] = calls[c][n + 1]
  BY PipeFacts, Popped DEF Dispatch
<1>2. /\ handling' = [handling EXCEPT ![c] = calls[c][1]]
      /\ calls' = [calls EXCEPT ![c] = Tail(calls[c])]
      /\ pc[c] = "running"
      /\ UNCHANGED <<pc, patient, link, sent, reported, up>>
  BY <1>1 DEF Dispatch, serverVars, statusVars, wireVars
<1>3. /\ handling'[c] = calls[c][1]
      /\ calls'[c] = Tail(calls[c])
      /\ \A d \in Conns \ {c} : calls'[d] = calls[d] /\ handling'[d] = handling[d]
  BY <1>2 DEF Typed, TypeOK, WireTypes
<1>4. PipeOrder(c)'
  <2>1. ASSUME NEW n \in DOMAIN calls'[c]
        PROVE  /\ calls'[c][n] <= sent
               /\ calls[c][1] <= calls'[c][n]
               /\ \A m \in 1 .. n - 1 : calls'[c][m] <= calls'[c][n]
    <3>1. n \in Nat /\ n + 1 \in DOMAIN calls[c] /\ calls'[c][n] = calls[c][n + 1] /\ n >= 1
      BY <1>1, <1>3, PipeFacts
    <3>2. /\ 1 \in 1 .. (n + 1) - 1
          /\ \A m \in 1 .. n - 1 : m \in DOMAIN calls'[c] /\ m + 1 \in 1 .. (n + 1) - 1
      BY <1>3, <3>1, PipeFacts
    <3>3. /\ calls[c][n + 1] <= sent
          /\ \A m \in 1 .. (n + 1) - 1 : calls[c][m] <= calls[c][n + 1]
      BY <3>1, PipeFacts DEF PipeOrder
    <3>4. QED
      BY <1>1, <1>3, <3>1, <3>2, <3>3
  <2>2. \A n \in DOMAIN up[c] : up[c][n].type = "CALL" =>
          /\ calls[c][1] <= up[c][n].number
          /\ \A m \in DOMAIN calls'[c] : calls'[c][m] <= up[c][n].number
    BY <1>1, <1>3, PipeFacts DEF PipeOrder
  <2>3. calls[c][1] <= sent
    BY <1>1, PipeFacts DEF PipeOrder
  <2>4. QED
    BY <1>2, <1>3, <2>1, <2>2, <2>3, PipeFacts DEF PipeOrder
<1>5. Station \in patient => PipeNewer(c)'
  BY <1>1, <1>2, <1>3, PipeFacts DEF PipeNewer
<1>6. QED
  BY <1>2, <1>3, <1>4, <1>5, MovedPipe

\* A patient station has one connection at a time, and the core shows it online
\* while that connection runs.
LEMMA OneAtATime ==
    ASSUME ServerInv, Station \in patient, NEW c \in Conns, pc[c] = "running"
    PROVE  /\ online[Station]
           /\ \A d \in Conns \ {c} : pc[d] \in {"new", "rejected", "done"}
<1>1. \A d \in Conns : Serves[d] = Station
  BY SessionAssumption
<1>2. QED
  BY <1>1 DEF ServerInv, Server!PatientInv, Server!Finished

\* The handler writes what it holds, which is the oldest of all that is under
\* way: everything is on its own connection, behind it.
LEMMA HandlePipe ==
    ASSUME ServerInv, Typed, PipeInv, NEW c \in Conns, Handle(c) PROVE PipeInv'
<1>1. /\ reported' = handling[c]
      /\ handling' = [handling EXCEPT ![c] = 0]
      /\ UNCHANGED <<pc, patient, link, up, calls, sent>>
      /\ pc[c] = "running"
      /\ handling[c] # 0
  BY DEF Handle, serverVars, wireVars, PipeInv, PipeHome
<1>2. handling'[c] = 0 /\ \A d \in Conns \ {c} : handling'[d] = handling[d]
  BY <1>1 DEF Typed, TypeOK, WireTypes
<1>3. PipeHome'
  BY <1>1, <1>2 DEF PipeInv, PipeHome, Active
<1>4. reported' <= sent' /\ 0 <= sent
  BY <1>1 DEF PipeInv, PipeOrder, Typed, TypeOK, WireTypes
<1>5. ASSUME NEW d \in Conns PROVE PipeOrder(d)'
  <2>1. CASE d # c
    <3>1. PipeOrder(d)
      BY DEF PipeInv
    <3>2. QED
      BY <1>1, <1>2, <2>1, <3>1 DEF PipeOrder
  <2>2. CASE d = c
    <3>1. /\ \A n \in DOMAIN up[c] : 0 <= up[c][n].number
          /\ \A n \in DOMAIN calls[c] : 0 <= calls[c][n]
      BY PipeFacts
    <3>2. PipeOrder(c)
      BY DEF PipeInv
    <3>3. QED
      BY <1>1, <1>2, <1>4, <2>2, <3>1, <3>2 DEF PipeOrder
  <2>3. QED
    BY <2>1, <2>2
<1>6. ASSUME Station \in patient, NEW d \in Conns PROVE PipeNewer(d)'
  <2>1. CASE d = c
    BY <1>1, <1>2, <2>1, PipeFacts DEF PipeOrder, PipeNewer
  <2>2. CASE d # c
    <3>1. pc[d] \in {"new", "rejected", "done"}
      BY <1>1, <1>6, <2>2, OneAtATime
    <3>2. up[d] = <<>> /\ calls[d] = <<>> /\ handling[d] = 0
      BY <3>1 DEF PipeInv, PipeHome, Active
    <3>3. QED
      BY <1>1, <1>2, <2>2, <3>2 DEF PipeNewer
  <2>3. QED
    BY <2>1, <2>2
<1>7. QED
  BY <1>1, <1>3, <1>4, <1>5, <1>6 DEF PipeInv

\* Every step keeps the pipelines in order.
LEMMA NextPipe == ServerInv /\ Typed /\ PipeInv /\ [Next]_vars => PipeInv'
<1> SUFFICES ASSUME ServerInv, Typed, PipeInv, [Next]_vars PROVE PipeInv'
  OBVIOUS
<1>1. ASSUME UNCHANGED <<serverVars, link, up, connVars, statusVars>> PROVE PipeInv'
  <2>1. UNCHANGED <<pc, patient, link, up, calls, handling, sent, reported>>
    BY <1>1 DEF serverVars, connVars, statusVars
  <2>2. QED
    BY <2>1, KeepsPipe DEF PipeInv, PipeHome, Active
<1>2. ASSUME NEW k \in Commands,
             \/ \E request \in Requests[k] : Command(k, request)
             \/ Call(k) \/ Answered(k) \/ Closed(k) \/ GivenUp(k)
      PROVE  PipeInv'
  BY <1>1, <1>2 DEF Command, Call, Answered, Closed, GivenUp, Fail, forget, wireVars
<1>3. CASE UNCHANGED vars
  BY <1>1, <1>3 DEF vars, wireVars
<1>4. QED
  BY <1>2, <1>3, PlainPipe, RunReturnsPipe, ReadCallPipe, ReadAnswerPipe, ReadEndsPipe,
     DispatchPipe, HandlePipe, StationPipe
  DEF Next, Wire

\* So it holds throughout.
LEMMA PipeInvHolds == Spec => []PipeInv
<1>1. Init => PipeInv
  BY InitPipe
<1>2. QED
  BY <1>1, NextPipe, ServerInvHolds, TypedHolds, PTL DEF Spec

\* Only a handler changes the status the core holds.
LEMMA OnlyHandleReports ==
    ASSUME Typed, [Next]_vars, reported' # reported
    PROVE  \E c \in Conns : Handle(c)
<1>1. ASSUME NEW k \in Commands,
             \/ \E request \in Requests[k] : Command(k, request)
             \/ Call(k) \/ Answered(k) \/ Closed(k) \/ GivenUp(k)
      PROVE  FALSE
  BY <1>1 DEF Command, Call, Answered, Closed, GivenUp, Fail, forget, statusVars
<1>2. ASSUME NEW c \in Conns,
             \/ Plain(c) \/ Upgrade(c) \/ LinkDies(c) \/ RunReturns(c)
             \/ ReadCall(c) \/ ReadAnswer(c) \/ ReadEnds(c) \/ Dispatch(c)
      PROVE  FALSE
  BY <1>2
  DEF Plain, Upgrade, LinkDies, RunReturns, ReadCall, ReadAnswer, ReadEnds, Dispatch, statusVars
<1>3. ASSUME NEW body, SendStatus \/ Answer(body) PROVE FALSE
  BY <1>3 DEF SendStatus, Answer, statusVars
<1>4. ~ UNCHANGED vars
  BY DEF vars, statusVars
<1>5. QED
  BY <1>1, <1>2, <1>3, <1>4 DEF Next, Wire

\* The status of a patient station changes only while the core shows it online,
\* for any number of dials and statuses: Run waits for the handler, and only
\* then does serveConn report the station disconnected.
THEOREM StatusOnlyWhileOnlineHolds == Spec => StatusOnlyWhileOnline
<1>1. ServerInv /\ Typed /\ PipeInv /\ [Next]_vars =>
        [(Station \in patient /\ reported' # reported) => online[Station]]_vars
  <2> SUFFICES ASSUME ServerInv, Typed, PipeInv, [Next]_vars, Station \in patient, reported' # reported
               PROVE  online[Station]
    OBVIOUS
  <2>1. PICK c \in Conns : Handle(c)
    BY OnlyHandleReports
  <2>2. pc[c] = "running"
    BY <2>1 DEF Handle, PipeInv, PipeHome
  <2>3. QED
    BY <2>2, OneAtATime
<1>2. QED
  BY <1>1, ServerInvHolds, TypedHolds, PipeInvHolds, PTL DEF Spec, StatusOnlyWhileOnline

\* It never goes back to an older one, also across a lost connection and a new
\* one: a patient station's statuses reach the core in the order it sent them.
THEOREM StatusNotRevertedHolds == Spec => StatusNotReverted
<1>1. Typed /\ PipeInv /\ [Next]_vars =>
        [(Station \in patient) => (reported' >= reported)]_vars
  <2> SUFFICES ASSUME Typed, PipeInv, [Next]_vars, Station \in patient PROVE reported' >= reported
    OBVIOUS
  <2>1. reported \in Nat
    BY DEF Typed, TypeOK, WireTypes
  <2>2. CASE reported' = reported
    BY <2>1, <2>2
  <2>3. ASSUME NEW c \in Conns, Handle(c) PROVE reported' >= reported
    BY <2>1, <2>3, PipeFacts DEF Handle, PipeNewer
  <2>4. QED
    BY <2>2, <2>3, OnlyHandleReports
<1>2. QED
  BY <1>1, TypedHolds, PipeInvHolds, PTL DEF Spec, StatusNotReverted

-----------------------------------------------------------------------------
(***************************************************************************)
(* Answers.                                                                *)
(***************************************************************************)
\* What a command makes of an answer that is its own.
LEMMA OwnResult ==
    ASSUME NEW request, request.method \in DOMAIN ActionOf,
           NEW body, body \in Bodies[ActionOf[request.method]],
           ActionOf[request.method] \in DOMAIN Bodies,
           Interpret(request, body).err = "none"
    PROVE  LET says == Interpret(request, body).says
           IN  /\ body.kind = "CALLRESULT"
               /\ says \ {"Unknown"} \subseteq body.words
               /\ request.method # "Capabilities" =>
                     \/ says = {"Unknown"}
                     \/ body.words \subseteq commandStatusMap[ActionOf[request.method]]
<1>1. body.kind \in {"CALLRESULT", "undecodable", "CALLERROR"}
  BY TrafficAssumption
<1>2. body.kind = "CALLRESULT"
  BY <1>1 DEF Interpret, Failed
<1>3. CASE request.method = "Capabilities"
  BY <1>2, <1>3 DEF Interpret, Advertised
<1>4. CASE request.method # "Capabilities"
  <2> DEFINE action == ActionOf[request.method]
  <2>1. action # "GetConfiguration"
    BY <1>4 DEF ActionOf
  <2>2. PICK w \in body.words : body.words = {w}
    BY <1>2, <2>1, TrafficAssumption
  <2>3. Interpret(request, body).says = {MapCommandStatus(action, v) : v \in body.words}
    BY <1>2, <1>4 DEF Interpret
  <2> HIDE DEF action
  <2>4. Interpret(request, body).says = {MapCommandStatus(action, w)}
    BY <2>2, <2>3
  <2>5. QED
    BY <1>2, <1>4, <2>2, <2>4 DEF MapCommandStatus, action
<1>5. QED
  BY <1>3, <1>4

\* Nothing has been asked at first.
LEMMA InitAnswer == Init => AnswerInv
<1> SUFFICES ASSUME Init PROVE AnswerInv
  OBVIOUS
<1>1. \A k \in Commands : cmd[k].state = "idle"
  BY IdleType DEF Init
<1>2. \A c \in Conns : up[c] = <<>> /\ down[c] = <<>> /\ pending[c] = {}
  BY DEF Init
<1>3. ASSUME NEW c \in Conns PROVE IDsUsedOnce(c) /\ FramesOwned(c) /\ AnswersOwned(c)
  BY <1>1, <1>2 DEF IDsUsedOnce, FramesOwned, AnswersOwned, Waits
<1>4. InboxOwned /\ AnswerIsOwn
  BY <1>1 DEF InboxOwned, AnswerIsOwn
<1>5. QED
  BY <1>3, <1>4 DEF AnswerInv

\* The steps that leave the commands alone and add no answer: frames may be lost.
LEMMA FramesLost ==
    ASSUME AnswerInv, UNCHANGED cmdVars,
           \A c \in Conns : down'[c] \in {down[c], <<>>},
           \A c \in Conns : \A n \in DOMAIN up'[c] : up'[c][n].type = "answer" =>
              \E m \in DOMAIN up[c] : up[c][m] = up'[c][n]
    PROVE  AnswerInv'
<1>1. UNCHANGED <<nextID, pending, cmd, said>>
  BY DEF cmdVars
<1>2. ASSUME NEW c \in Conns PROVE (IDsUsedOnce(c) /\ FramesOwned(c) /\ AnswersOwned(c))'
  <2>1. IDsUsedOnce(c) /\ FramesOwned(c) /\ AnswersOwned(c)
    BY DEF AnswerInv
  <2>2. IDsUsedOnce(c)'
    BY <1>1, <2>1 DEF IDsUsedOnce, Waits
  <2>3. FramesOwned(c)'
    <3>1. CASE down'[c] = <<>>
      BY <3>1 DEF FramesOwned
    <3>2. CASE down'[c] = down[c]
      BY <1>1, <2>1, <3>2 DEF FramesOwned, Waits
    <3>3. QED
      BY <3>1, <3>2
  <2>4. AnswersOwned(c)'
    BY <1>1, <2>1 DEF AnswersOwned, Waits, Own
  <2>5. QED
    BY <2>2, <2>3, <2>4
<1>3. InboxOwned' /\ AnswerIsOwn'
  BY <1>1 DEF AnswerInv, InboxOwned, AnswerIsOwn, Own
<1>4. QED
  BY <1>2, <1>3 DEF AnswerInv

\* They are the steps of the server, of the socket and of the handler.
LEMMA PlainAnswer ==
    ASSUME Typed, AnswerInv, NEW c \in Conns,
           \/ Plain(c) \/ Upgrade(c) \/ LinkDies(c) \/ RunReturns(c)
           \/ ReadCall(c) \/ ReadEnds(c) \/ Dispatch(c) \/ Handle(c)
    PROVE  AnswerInv'
<1>0. WireTypes
  BY DEF Typed, TypeOK
<1>1. UNCHANGED cmdVars
  BY DEF Plain, Upgrade, LinkDies, RunReturns, ReadCall, ReadEnds, Dispatch, Handle
<1>2. \A d \in Conns : down'[d] \in {down[d], <<>>}
  BY <1>0
  DEF WireTypes, Plain, Upgrade, LinkDies, RunReturns, ReadCall, ReadEnds, Dispatch, Handle, wireVars
<1>3. ASSUME NEW d \in Conns PROVE up'[d] \in {up[d], <<>>, Tail(up[d])} /\
             (up'[d] # up[d] /\ up'[d] # <<>> => up[d] # <<>>)
  BY <1>0
  DEF WireTypes, Plain, Upgrade, LinkDies, RunReturns, ReadCall, ReadEnds, Dispatch, Handle, wireVars
<1>4. ASSUME NEW d \in Conns, NEW n \in DOMAIN up'[d]
      PROVE  \E m \in DOMAIN up[d] : up[d][m] = up'[d][n]
  <2>1. up[d] \in Seq(UpFrames)
    BY <1>0 DEF WireTypes
  <2>2. CASE up'[d] = up[d]
    BY <2>2
  <2>3. CASE up'[d] = <<>>
    BY <2>3
  <2>4. CASE up'[d] = Tail(up[d]) /\ up[d] # <<>>
    BY <2>1, <2>4, Popped
  <2>5. QED
    BY <1>3, <2>2, <2>3, <2>4
<1>5. QED
  BY <1>1, <1>2, <1>4, FramesLost

\* A status is no answer.
LEMMA SendStatusAnswer == ASSUME Typed, AnswerInv, SendStatus PROVE AnswerInv'
<1>0. up \in [Conns -> Seq(UpFrames)]
  BY DEF Typed, TypeOK, WireTypes
<1>1. PICK frame \in UpFrames :
        frame.type = "CALL" /\ up' = [up EXCEPT ![link] = Append(up[link], frame)]
  BY SendFacts
<1>2. link \in Conns
  BY SendFacts
<1>3. \A n \in DOMAIN up'[link] :
         \/ n \in DOMAIN up[link] /\ up'[link][n] = up[link][n]
         \/ up'[link][n] = frame
  <2>1. up'[link] = Append(up[link], frame)
    BY <1>0, <1>1, <1>2
  <2>2. QED
    BY <1>0, <1>2, <2>1, Pushed
<1>4. \A c \in Conns \ {link} : up'[c] = up[c]
  BY <1>0, <1>1
<1>5. \A c \in Conns : \A n \in DOMAIN up'[c] : up'[c][n].type = "answer" =>
         \E m \in DOMAIN up[c] : up[c][m] = up'[c][n]
  BY <1>1, <1>3, <1>4
<1>6. QED
  BY <1>5, FramesLost DEF SendStatus

\* Frames stay owned where neither they nor the commands change.
LEMMA FramesSame ==
    ASSUME NEW d, FramesOwned(d), down'[d] = down[d], up'[d] = up[d],
           nextID'[d] = nextID[d], cmd' = cmd
    PROVE  FramesOwned(d)'
BY DEF FramesOwned, Waits

\* What a frame to the station on connection c has to be after a step, save
\* that its id is its own.
Fits(f, c) ==
    /\ f.id <= nextID'[c]
    /\ cmd'[f.command].state \in {"waiting", "returned"}
    /\ cmd'[f.command].state = "waiting" =>
          /\ cmd'[f.command].conn = c
          /\ cmd'[f.command].id = f.id
          /\ cmd'[f.command].inbox = None
          /\ f.action = ActionOf[cmd'[f.command].request.method]
          /\ f.connector = Address(cmd'[f.command].request)
    /\ \A l \in Commands :
          cmd'[l].state = "waiting" /\ cmd'[l].conn = c /\ cmd'[l].id = f.id => l = f.command
    /\ \A m \in DOMAIN up'[c] : up'[c][m].type = "answer" => up'[c][m].number # f.id

\* A frame that is owned fits as long as its command and what is answered with
\* its id stay as they are.
LEMMA OwnedFits ==
    ASSUME NEW c, FramesOwned(c), NEW n \in DOMAIN down[c], cmd' = cmd, nextID' = nextID,
           \A m \in DOMAIN up'[c] : up'[c][m].type = "answer" => up'[c][m].number # down[c][n].id
    PROVE  Fits(down[c][n], c)
BY DEF FramesOwned, Waits, Fits

\* Frames that fit and have ids of their own are owned.
LEMMA FramesFit ==
    ASSUME NEW c, \A n \in DOMAIN down'[c] : Fits(down'[c][n], c),
           \A n, m \in DOMAIN down'[c] : down'[c][m].id = down'[c][n].id => m = n
    PROVE  FramesOwned(c)'
BY DEF FramesOwned, Waits, Fits

\* The station answers: what it says is recorded for the command whose frame it
\* is, if that still waits.
LEMMA AnswerAnswer ==
    ASSUME Typed, AnswerInv, NEW body \in UNION {Bodies[a] : a \in DOMAIN Bodies}, Answer(body)
    PROVE  AnswerInv'
<1> DEFINE c == link
           f == down[c][1]
           k == f.command
           Owns(l, b) == /\ said'[l].body = b
                         /\ said'[l].to = Address(cmd'[l].request)
                         /\ b \in Bodies[ActionOf[cmd'[l].request.method]]
<1>1. /\ c \in Conns
      /\ 1 \in DOMAIN down[c]
      /\ f \in DownFrames
      /\ body \in Bodies[f.action]
      /\ down' = [down EXCEPT ![c] = Tail(down[c])]
  BY AnswerFacts
<1>2. PICK frame \in UpFrames :
        /\ frame.type = "answer"
        /\ frame.number = f.id
        /\ frame.body = body
        /\ up' = [up EXCEPT ![c] = Append(up[c], frame)]
  BY AnswerFacts
<1>3. PICK told \in [to : Nat, body : AllBodies] :
        /\ told.to = f.connector
        /\ told.body = body
        /\ said' = IF cmd[k].state = "waiting" THEN [said EXCEPT ![k] = told] ELSE said
  BY AnswerFacts
<1>4. UNCHANGED <<nextID, pending, cmd>> /\ k \in Commands
  BY <1>1 DEF Answer, DownFrames
<1>5. /\ up \in [Conns -> Seq(UpFrames)]
      /\ down \in [Conns -> Seq(DownFrames)]
      /\ said \in [Commands -> [to : Nat, body : AllBodies]]
  BY DEF Typed, TypeOK, WireTypes, CommandTypes
<1>6. \A d \in Conns \ {c} : up'[d] = up[d] /\ down'[d] = down[d]
  BY <1>1, <1>2, <1>5
<1>7. \A n \in DOMAIN up'[c] :
         \/ n \in DOMAIN up[c] /\ up'[c][n] = up[c][n]
         \/ up'[c][n] = frame
  <2>1. up'[c] = Append(up[c], frame)
    BY <1>1, <1>2, <1>5
  <2>2. QED
    BY <1>1, <1>5, <2>1, Pushed
<1>8. \A n \in DOMAIN down'[c] :
         n \in Nat /\ n + 1 \in DOMAIN down[c] /\ n + 1 # 1 /\ down'[c][n] = down[c][n + 1]
  <2>1. down'[c] = Tail(down[c]) /\ down[c] # <<>>
    BY <1>1, <1>5 DEF Answer
  <2>2. \A n \in DOMAIN Tail(down[c]) : n \in Nat /\ n >= 1
    BY <1>1, <1>5, <2>1
  <2>3. QED
    BY <1>1, <1>5, <2>1, <2>2, Popped
<1>9. \A l \in Commands : (l # k \/ cmd[l].state # "waiting") => said'[l] = said[l]
  BY <1>3, <1>4, <1>5
<1>10. cmd[k].state = "waiting" => said'[k] = told
  BY <1>3, <1>4, <1>5
<1>11. /\ FramesOwned(c)
       /\ \A d \in Conns : IDsUsedOnce(d) /\ FramesOwned(d) /\ AnswersOwned(d)
       /\ InboxOwned
       /\ AnswerIsOwn
  BY <1>1 DEF AnswerInv
<1>12. /\ f.id <= nextID[c]
       /\ cmd[k].state = "waiting" =>
             /\ cmd[k].conn = c
             /\ cmd[k].id = f.id
             /\ cmd[k].inbox = None
             /\ f.action = ActionOf[cmd[k].request.method]
             /\ f.connector = Address(cmd[k].request)
       /\ \A l \in Commands : Waits(l, c) /\ cmd[l].id = f.id => l = k
       /\ \A m \in DOMAIN down[c] : down[c][m].id = f.id => m = 1
       /\ \A m \in DOMAIN up[c] : up[c][m].type = "answer" => up[c][m].number # f.id
  BY <1>1, <1>11 DEF FramesOwned
<1> HIDE DEF c, f, k
<1>13. ASSUME NEW d \in Conns PROVE IDsUsedOnce(d)'
  BY <1>4, <1>11 DEF IDsUsedOnce, Waits
<1>14. ASSUME NEW d \in Conns PROVE FramesOwned(d)'
  <2>1. CASE d # c
    BY <1>4, <1>6, <1>11, <2>1, FramesSame
  <2>2. CASE d = c
    <3>1. \A n \in DOMAIN down'[c] :
             /\ down'[c][n].id # f.id
             /\ \A m \in DOMAIN down'[c] : down'[c][m].id = down'[c][n].id => m = n
      BY <1>8, <1>11, <1>12 DEF FramesOwned
    <3>2. \A n \in DOMAIN down'[c] : \A m \in DOMAIN up'[c] :
             up'[c][m].type = "answer" => up'[c][m].number # down'[c][n].id
      <4>1. \A n \in DOMAIN down[c] : \A m \in DOMAIN up[c] :
               up[c][m].type = "answer" => up[c][m].number # down[c][n].id
        BY <1>11 DEF FramesOwned
      <4>2. QED
        BY <1>2, <1>7, <1>8, <3>1, <4>1
    <3>3. ASSUME NEW n \in DOMAIN down'[c] PROVE Fits(down'[c][n], c)
      <4>1. n + 1 \in DOMAIN down[c] /\ down'[c][n] = down[c][n + 1]
        BY <1>8
      <4>2. cmd' = cmd /\ nextID' = nextID /\ FramesOwned(c)
        BY <1>4, <1>11
      <4>3. Fits(down[c][n + 1], c)
        BY <3>2, <4>1, <4>2, OwnedFits
      <4>4. QED
        BY <4>1, <4>3
    <3>4. /\ \A n \in DOMAIN down'[d] : Fits(down'[d][n], d)
          /\ \A n, m \in DOMAIN down'[d] : down'[d][m].id = down'[d][n].id => m = n
      BY <2>2, <3>1, <3>3
    <3>5. QED
      BY <3>4, FramesFit
  <2>3. QED
    BY <2>1, <2>2
<1>15. ASSUME NEW d \in Conns, NEW n \in DOMAIN up'[d], up'[d][n].type = "answer"
       PROVE  /\ up'[d][n].number <= nextID'[d]
              /\ \A l \in Commands :
                    Waits(l, d)' /\ cmd'[l].id = up'[d][n].number => Owns(l, up'[d][n].body)
  <2>1. CASE n \in DOMAIN up[d] /\ up'[d][n] = up[d][n]
    <3>1. up[d][n].number <= nextID[d]
      BY <1>11, <1>15, <2>1 DEF AnswersOwned
    <3>2. ASSUME NEW l \in Commands, Waits(l, d), cmd[l].id = up[d][n].number
          PROVE  Own(l, up[d][n].body) /\ said'[l] = said[l]
      <4>1. Own(l, up[d][n].body)
        BY <1>11, <1>15, <2>1, <3>2 DEF AnswersOwned
      <4>2. l # k
        BY <1>12, <1>15, <2>1, <3>2 DEF Waits
      <4>3. QED
        BY <1>9, <4>1, <4>2
    <3>3. QED
      BY <1>4, <2>1, <3>1, <3>2 DEF Waits, Own
  <2>2. CASE d = c /\ up'[d][n] = frame
    <3>1. ASSUME NEW l \in Commands, Waits(l, c), cmd[l].id = f.id PROVE Owns(l, body)
      <4>1. l = k /\ cmd[k].state = "waiting"
        BY <1>12, <3>1 DEF Waits
      <4>2. QED
        BY <1>1, <1>3, <1>4, <1>10, <1>12, <4>1
    <3>2. QED
      BY <1>2, <1>4, <1>12, <2>2, <3>1 DEF Waits
  <2>3. QED
    BY <1>6, <1>7, <1>15, <2>1, <2>2
<1>16. InboxOwned'
  BY <1>4, <1>9, <1>11, <1>12 DEF InboxOwned, Own
<1>17. AnswerIsOwn'
  BY <1>4, <1>9, <1>11 DEF AnswerIsOwn
<1>18. QED
  BY <1>13, <1>14, <1>15, <1>16, <1>17 DEF AnswerInv, AnswersOwned, Own

\* readLoop delivers an answer to the command that waits for its id, and to it
\* the station said just that.
LEMMA ReadAnswerAnswer ==
    ASSUME Typed, AnswerInv, NEW c \in Conns, ReadAnswer(c) PROVE AnswerInv'
<1> DEFINE first == up[c][1]
<1>1. 1 \in DOMAIN up[c] /\ first.type = "answer" /\ cmd' \in [Commands -> CommandRecords]
  BY DeliverFacts
<1>2. \A k \in Commands :
         /\ cmd'[k].state = cmd[k].state
         /\ cmd'[k].request = cmd[k].request
         /\ cmd'[k].conn = cmd[k].conn
         /\ cmd'[k].id = cmd[k].id
         /\ cmd'[k].result = cmd[k].result
  BY DeliverFacts
<1>3. \A k \in Commands :
         \/ cmd'[k].inbox = cmd[k].inbox
         \/ /\ cmd'[k].inbox = first.body
            /\ \E p \in pending[c] : p.id = first.number /\ p.command = k
  BY DeliverFacts
<1>4. UNCHANGED <<nextID, pending, said, down>> /\ up' = [up EXCEPT ![c] = Tail(up[c])]
  BY DEF ReadAnswer
<1>5. up \in [Conns -> Seq(UpFrames)] /\ up[c] # <<>>
  BY DEF Typed, TypeOK, WireTypes, ReadAnswer
<1>6. /\ \A d \in Conns \ {c} : up'[d] = up[d]
      /\ \A d \in Conns : \A n \in DOMAIN up'[d] : \E m \in DOMAIN up[d] : up[d][m] = up'[d][n]
  <2>1. up'[c] = Tail(up[c]) /\ \A d \in Conns \ {c} : up'[d] = up[d]
    BY <1>4, <1>5
  <2>2. \A n \in DOMAIN Tail(up[c]) : n + 1 \in DOMAIN up[c] /\ up[c][n + 1] = Tail(up[c])[n]
    BY <1>5, Popped
  <2>3. QED
    BY <2>1, <2>2
<1>7. /\ \A d \in Conns : IDsUsedOnce(d) /\ FramesOwned(d) /\ AnswersOwned(d)
      /\ InboxOwned
      /\ AnswerIsOwn
  BY DEF AnswerInv
<1>8. ASSUME NEW k \in Commands, cmd'[k].inbox # cmd[k].inbox
      PROVE  /\ cmd'[k].inbox = first.body
             /\ Waits(k, c)
             /\ cmd[k].id = first.number
             /\ Own(k, first.body)
  <2>1. PICK p \in pending[c] : p.id = first.number /\ p.command = k
    BY <1>3, <1>8
  <2>2. Waits(k, c) /\ cmd[k].id = first.number
    BY <1>7, <2>1 DEF IDsUsedOnce
  <2>3. Own(k, first.body)
    BY <1>1, <1>7, <2>2 DEF AnswersOwned
  <2>4. QED
    BY <1>3, <1>8, <2>2, <2>3
<1> HIDE DEF first
<1>9. ASSUME NEW d \in Conns PROVE IDsUsedOnce(d)'
  <2>1. \A p \in pending[d] : p.command \in Commands
    BY DEF Typed, TypeOK, CommandTypes
  <2>2. QED
    BY <1>2, <1>4, <1>7, <2>1 DEF IDsUsedOnce, Waits
<1>10. ASSUME NEW d \in Conns PROVE FramesOwned(d)'
  <2>1. ASSUME NEW n \in DOMAIN down[d], cmd[down[d][n].command].state = "waiting",
               down[d][n].command \in Commands
        PROVE  cmd'[down[d][n].command].inbox = None
    <3> DEFINE f == down[d][n]
               k == f.command
    <3>1. cmd[k].conn = d /\ cmd[k].id = f.id /\ cmd[k].inbox = None
      BY <1>7, <2>1 DEF FramesOwned
    <3>2. \A m \in DOMAIN up[d] : up[d][m].type = "answer" => up[d][m].number # f.id
      BY <1>7 DEF FramesOwned
    <3>3. cmd'[k].inbox = cmd[k].inbox
      BY <1>1, <1>8, <2>1, <3>1, <3>2 DEF Waits, first
    <3>4. QED
      BY <3>1, <3>3
  <2>2. \A n \in DOMAIN down[d] : down[d][n].command \in Commands
    <3>1. down[d] \in Seq(DownFrames)
      BY DEF Typed, TypeOK, WireTypes
    <3>2. \A n \in DOMAIN down[d] : down[d][n] \in DownFrames
      BY <3>1
    <3>3. QED
      BY <3>2 DEF DownFrames
  <2>3. \A n \in DOMAIN down[d] : \A m \in DOMAIN up'[d] :
           up'[d][m].type = "answer" => up'[d][m].number # down[d][n].id
    BY <1>6, <1>7 DEF FramesOwned
  <2>4. QED
    BY <1>2, <1>4, <1>7, <2>1, <2>2, <2>3 DEF FramesOwned, Waits
<1>11. ASSUME NEW d \in Conns PROVE AnswersOwned(d)'
  <2>1. ASSUME NEW n \in DOMAIN up'[d], up'[d][n].type = "answer"
        PROVE  /\ up'[d][n].number <= nextID'[d]
               /\ \A k \in Commands :
                     cmd'[k].state = "waiting" /\ cmd'[k].conn = d /\ cmd'[k].id = up'[d][n].number =>
                         /\ said'[k].body = up'[d][n].body
                         /\ said'[k].to = Address(cmd'[k].request)
                         /\ up'[d][n].body \in Bodies[ActionOf[cmd'[k].request.method]]
    <3>1. PICK m \in DOMAIN up[d] : up[d][m] = up'[d][n]
      BY <1>6
    <3>2. /\ up[d][m].number <= nextID[d]
          /\ \A k \in Commands :
                Waits(k, d) /\ cmd[k].id = up[d][m].number => Own(k, up[d][m].body)
      BY <1>7, <2>1, <3>1 DEF AnswersOwned
    <3>3. QED
      BY <1>2, <1>4, <3>1, <3>2 DEF Waits, Own
  <2>2. QED
    BY <2>1 DEF AnswersOwned, Waits, Own
<1>12. InboxOwned'
  <2>1. ASSUME NEW k \in Commands
        PROVE  /\ cmd'[k].state = "bound" => cmd'[k].inbox = None
               /\ cmd'[k].state = "waiting" /\ cmd'[k].inbox # None =>
                     /\ said'[k].body = cmd'[k].inbox
                     /\ said'[k].to = Address(cmd'[k].request)
                     /\ cmd'[k].inbox \in Bodies[ActionOf[cmd'[k].request.method]]
    <3>1. CASE cmd'[k].inbox = cmd[k].inbox
      BY <1>2, <1>4, <1>7, <3>1 DEF InboxOwned, Own
    <3>2. CASE cmd'[k].inbox # cmd[k].inbox
      BY <1>2, <1>4, <1>8, <3>2 DEF Own, Waits
    <3>3. QED
      BY <3>1, <3>2
  <2>2. QED
    BY <2>1 DEF InboxOwned, Own
<1>13. AnswerIsOwn'
  BY <1>2, <1>4, <1>7 DEF AnswerIsOwn
<1>14. QED
  BY <1>9, <1>10, <1>11, <1>12, <1>13 DEF AnswerInv

\* A command that is asked for does not wait yet.
LEMMA CommandAnswer ==
    ASSUME Typed, AnswerInv, NEW k \in Commands, NEW request \in Requests[k], Command(k, request)
    PROVE  AnswerInv'
<1>1. PICK r \in CommandRecords :
        /\ cmd' = [cmd EXCEPT ![k] = r]
        /\ \/ r.state = "returned" /\ r.result.err # "none"
           \/ r.state = "bound" /\ r.inbox = None
  BY CommandFacts
<1>2. cmd[k].state = "idle" /\ UNCHANGED <<nextID, pending, said, up, down>>
  BY CommandFacts DEF Command, wireVars
<1>3. cmd'[k] = r /\ \A l \in Commands \ {k} : cmd'[l] = cmd[l]
  BY <1>1 DEF Typed, TypeOK, CommandTypes
<1>4. /\ \A c \in Conns : IDsUsedOnce(c) /\ FramesOwned(c) /\ AnswersOwned(c)
      /\ InboxOwned
      /\ AnswerIsOwn
  BY DEF AnswerInv
<1>5. ASSUME NEW c \in Conns PROVE IDsUsedOnce(c)'
  <2>1. \A p \in pending[c] : p.command \in Commands \ {k}
    BY <1>2, <1>4 DEF IDsUsedOnce, Waits, Typed, TypeOK, CommandTypes
  <2>2. QED
    BY <1>1, <1>2, <1>3, <1>4, <2>1 DEF IDsUsedOnce, Waits
<1>6. ASSUME NEW c \in Conns PROVE FramesOwned(c)'
  <2>1. \A n \in DOMAIN down[c] : down[c][n].command \in Commands \ {k}
    <3>1. \A n \in DOMAIN down[c] : down[c][n] \in DownFrames
      BY DEF Typed, TypeOK, WireTypes
    <3>2. \A n \in DOMAIN down[c] : down[c][n].command \in Commands
      BY <3>1 DEF DownFrames
    <3>3. QED
      BY <1>2, <1>4, <3>2 DEF FramesOwned
  <2>2. QED
    BY <1>1, <1>2, <1>3, <1>4, <2>1 DEF FramesOwned, Waits
<1>7. ASSUME NEW c \in Conns PROVE AnswersOwned(c)'
  BY <1>1, <1>2, <1>3, <1>4 DEF AnswersOwned, Waits, Own
<1>8. InboxOwned' /\ AnswerIsOwn'
  BY <1>1, <1>2, <1>3, <1>4 DEF InboxOwned, AnswerIsOwn, Own
<1>9. QED
  BY <1>5, <1>6, <1>7, <1>8 DEF AnswerInv

\* A command that returns is no longer waited for, and returns what it was told.
LEMMA EndAnswer ==
    ASSUME Typed, AnswerInv, NEW k \in Commands, Answered(k) \/ Closed(k) \/ GivenUp(k)
    PROVE  AnswerInv'
<1>1. PICK r \in CommandRecords :
        /\ cmd' = [cmd EXCEPT ![k] = r]
        /\ r.state = "returned"
        /\ \/ r.result.err # "none" /\ said' = [said EXCEPT ![k] = Nothing]
           \/ /\ cmd[k].inbox # None
              /\ r.request = cmd[k].request
              /\ r.result = Interpret(cmd[k].request, cmd[k].inbox)
              /\ said' = said
  BY EndFacts
<1>2. /\ cmd[k].state = "waiting"
      /\ pending' = [pending EXCEPT ![cmd[k].conn] = {p \in pending[cmd[k].conn] : p.id # cmd[k].id}]
      /\ UNCHANGED <<nextID, up, down>>
  BY EndFacts DEF wireVars
<1>3. /\ cmd'[k] = r
      /\ \A l \in Commands \ {k} : cmd'[l] = cmd[l] /\ said'[l] = said[l]
  BY <1>1 DEF Typed, TypeOK, CommandTypes
<1>4. /\ \A c \in Conns : IDsUsedOnce(c) /\ FramesOwned(c) /\ AnswersOwned(c)
      /\ InboxOwned
      /\ AnswerIsOwn
  BY DEF AnswerInv
<1>5. ASSUME NEW c \in Conns PROVE IDsUsedOnce(c)'
  <2>1. pending[c] \subseteq [id : Nat, command : Commands]
    BY DEF Typed, TypeOK, CommandTypes
  <2>2. \A p \in pending[c] : p.command = k => cmd[k].conn = c /\ cmd[k].id = p.id
    BY <1>4 DEF IDsUsedOnce, Waits
  <2>3. pending'[c] = IF cmd[k].conn = c THEN {p \in pending[c] : p.id # cmd[k].id} ELSE pending[c]
    BY <1>2 DEF Typed, TypeOK, CommandTypes
  <2>4. \A p \in pending'[c] : p \in pending[c] /\ p.command \in Commands \ {k}
    BY <2>1, <2>2, <2>3
  <2>5. QED
    BY <1>1, <1>2, <1>3, <1>4, <2>4 DEF IDsUsedOnce, Waits
<1>6. ASSUME NEW c \in Conns PROVE FramesOwned(c)'
  <2>1. \A n \in DOMAIN down[c] : down[c][n] \in DownFrames
    BY DEF Typed, TypeOK, WireTypes
  <2>2. \A n \in DOMAIN down[c] : down[c][n].command \in Commands
    BY <2>1 DEF DownFrames
  <2>3. ASSUME NEW n \in DOMAIN down[c] PROVE Fits(down[c][n], c)
    <3> DEFINE f == down[c][n]
    <3>1. /\ f.id <= nextID'[c]
          /\ cmd[f.command].state \in {"waiting", "returned"}
          /\ cmd[f.command].state = "waiting" =>
                /\ cmd[f.command].conn = c
                /\ cmd[f.command].id = f.id
                /\ cmd[f.command].inbox = None
                /\ f.action = ActionOf[cmd[f.command].request.method]
                /\ f.connector = Address(cmd[f.command].request)
          /\ \A l \in Commands : Waits(l, c) /\ cmd[l].id = f.id => l = f.command
          /\ \A m \in DOMAIN up'[c] : up'[c][m].type = "answer" => up'[c][m].number # f.id
      BY <1>2, <1>4 DEF FramesOwned
    <3>2. cmd'[f.command] = cmd[f.command] \/ cmd'[f.command].state = "returned"
      BY <1>1, <1>3, <2>2
    <3>3. \A l \in Commands :
             cmd'[l].state = "waiting" /\ cmd'[l].conn = c /\ cmd'[l].id = f.id => l = f.command
      BY <1>1, <1>3, <3>1 DEF Waits
    <3>4. QED
      BY <3>1, <3>2, <3>3 DEF Fits
  <2>4. \A n, m \in DOMAIN down[c] : down[c][m].id = down[c][n].id => m = n
    BY <1>4 DEF FramesOwned
  <2>5. QED
    BY <1>2, <2>3, <2>4, FramesFit
<1>7. ASSUME NEW c \in Conns PROVE AnswersOwned(c)'
  BY <1>1, <1>2, <1>3, <1>4 DEF AnswersOwned, Waits, Own
<1>8. InboxOwned'
  BY <1>1, <1>3, <1>4 DEF InboxOwned, Own
<1>9. AnswerIsOwn'
  <2>1. ASSUME r.result.err = "none"
        PROVE  /\ said'[k].body.kind = "CALLRESULT"
               /\ r.result.says \ {"Unknown"} \subseteq said'[k].body.words
               /\ r.request.method \in ForEVSE => ConnectorOf[r.request.target] = said'[k].to
               /\ r.request.method # "Capabilities" =>
                     \/ r.result.says = {"Unknown"}
                     \/ said'[k].body.words \subseteq commandStatusMap[ActionOf[r.request.method]]
    <3> DEFINE body == cmd[k].inbox
               q == cmd[k].request
    <3>1. /\ body # None
          /\ r.request = q
          /\ r.result = Interpret(q, body)
          /\ said' = said
      BY <1>1, <2>1
    <3>2. /\ said[k].body = body
          /\ said[k].to = Address(q)
          /\ body \in Bodies[ActionOf[q.method]]
      BY <1>2, <1>4, <3>1 DEF InboxOwned, Own
    <3>3. q.method \in DOMAIN ActionOf
      BY <1>2 DEF Typed, UnderWay
    <3>4. ActionOf[q.method] \in DOMAIN Bodies
      BY <3>3, TrafficAssumption
    <3>5. Interpret(q, body).err = "none"
      BY <2>1, <3>1
    <3> HIDE DEF body, q
    <3>6. /\ body.kind = "CALLRESULT"
          /\ Interpret(q, body).says \ {"Unknown"} \subseteq body.words
          /\ q.method # "Capabilities" =>
                \/ Interpret(q, body).says = {"Unknown"}
                \/ body.words \subseteq commandStatusMap[ActionOf[q.method]]
      BY <3>2, <3>3, <3>4, <3>5, OwnResult
    <3>7. q.method \in ForEVSE => ConnectorOf[q.target] = said[k].to
      BY <3>2 DEF Address
    <3>8. QED
      BY <3>1, <3>2, <3>6, <3>7
  <2>2. QED
    BY <1>3, <1>4, <2>1 DEF AnswerIsOwn
<1>10. QED
  BY <1>5, <1>6, <1>7, <1>8, <1>9 DEF AnswerInv

\* Call takes an id that nothing on the connection has yet.
LEMMA CallAnswer ==
    ASSUME Typed, AnswerInv, NEW k \in Commands, Call(k) PROVE AnswerInv'
<1> DEFINE c == cmd[k].conn
           id == nextID[c] + 1
<1>1. /\ c \in Conns
      /\ cmd[k].state = "bound"
      /\ nextID' = [nextID EXCEPT ![c] = id]
  BY CallFacts
<1>2. PICK r \in CommandRecords :
        /\ cmd' = [cmd EXCEPT ![k] = r]
        /\ \/ /\ r.state = "returned"
              /\ r.result.err # "none"
              /\ UNCHANGED <<pending, down>>
           \/ /\ r.state = "waiting"
              /\ r.id = id
              /\ r.inbox = cmd[k].inbox
              /\ r.request = cmd[k].request
              /\ r.conn = c
              /\ pending' = [pending EXCEPT ![c] = pending[c] \cup {[id |-> id, command |-> k]}]
              /\ \/ down' = down
                 \/ \E frame \in DownFrames :
                       /\ frame.id = id
                       /\ frame.command = k
                       /\ frame.action = ActionOf[cmd[k].request.method]
                       /\ frame.connector = Address(cmd[k].request)
                       /\ down' = [down EXCEPT ![c] = Append(down[c], frame)]
  BY CallFacts
<1>3. cmd'[k] = r /\ \A l \in Commands \ {k} : cmd'[l] = cmd[l]
  BY <1>2 DEF Typed, TypeOK, CommandTypes
<1>4. up' = up /\ said' = said
  BY DEF Call
<1>5. /\ \A d \in Conns : nextID[d] \in Nat /\ nextID'[d] \in Nat /\ nextID[d] <= nextID'[d]
      /\ nextID'[c] = id
      /\ id \in Nat
      /\ id > nextID[c]
  BY <1>1 DEF Typed, TypeOK, CommandTypes
<1>6. /\ \A d \in Conns : IDsUsedOnce(d) /\ FramesOwned(d) /\ AnswersOwned(d)
      /\ InboxOwned
      /\ AnswerIsOwn
  BY DEF AnswerInv
<1>7. cmd[k].inbox = None
  BY <1>1, <1>6 DEF InboxOwned
<1>8. \A d \in Conns : \A l \in Commands \ {k} :
         Waits(l, d) => cmd[l].id \in Nat /\ cmd[l].id <= nextID'[d] /\ (d = c => cmd[l].id # id)
  <2>1. \A l \in Commands : cmd[l].id \in Nat
    BY DEF Typed, TypeOK, CommandTypes, CommandRecords
  <2>2. QED
    <3> HIDE DEF c, id
    <3>1. \A d \in Conns : \A l \in Commands : Waits(l, d) => cmd[l].id <= nextID[d]
      BY <1>6 DEF IDsUsedOnce
    <3>2. QED
      BY <1>1, <1>5, <2>1, <3>1
<1>9. /\ r.state \in {"waiting", "returned"}
      /\ r.state = "returned" => r.result.err # "none"
      /\ r.state = "waiting" => /\ r.id = id
                                /\ r.conn = c
                                /\ r.inbox = None
                                /\ r.request = cmd[k].request
  BY <1>2, <1>7
<1>10. \A d \in Conns : \A p \in pending'[d] :
          \/ p \in pending[d]
          \/ d = c /\ p.id = id /\ p.command = k /\ r.state = "waiting"
  <2>1. pending \in [Conns -> SUBSET [id : Nat, command : Commands]]
    BY DEF Typed, TypeOK, CommandTypes
  <2> HIDE DEF c, id
  <2>2. QED
    BY <1>1, <1>2, <2>1
<1>11. \A d \in Conns : \A n \in DOMAIN down[d] : down[d][n].command \in Commands \ {k}
  <2>1. \A d \in Conns : \A n \in DOMAIN down[d] : down[d][n] \in DownFrames
    BY DEF Typed, TypeOK, WireTypes
  <2>2. \A d \in Conns : \A n \in DOMAIN down[d] : down[d][n].command \in Commands
    BY <2>1 DEF DownFrames
  <2>3. QED
    BY <1>1, <1>6, <2>2 DEF FramesOwned
<1> HIDE DEF c, id
<1>12. \A d \in Conns \ {c} : down'[d] = down[d]
  BY <1>2 DEF Typed, TypeOK, WireTypes
<1>13. ASSUME NEW d \in Conns PROVE IDsUsedOnce(d)'
  <2>1. \A l \in Commands : Waits(l, d)' => cmd'[l].id <= nextID'[d]
    BY <1>3, <1>5, <1>8, <1>9 DEF Waits
  <2>2. \A l, m \in Commands : Waits(l, d)' /\ Waits(m, d)' /\ cmd'[l].id = cmd'[m].id => l = m
    BY <1>3, <1>6, <1>8, <1>9 DEF Waits, IDsUsedOnce
  <2>3. \A p \in pending'[d] : Waits(p.command, d)' /\ cmd'[p.command].id = p.id
    <3>1. \A p \in pending[d] : p.command \in Commands \ {k}
      BY <1>1, <1>6 DEF IDsUsedOnce, Waits, Typed, TypeOK, CommandTypes
    <3>2. QED
      BY <1>3, <1>6, <1>9, <1>10, <3>1 DEF Waits, IDsUsedOnce
  <2>4. QED
    BY <2>1, <2>2, <2>3 DEF IDsUsedOnce
<1>14. ASSUME NEW d \in Conns, NEW n \in DOMAIN down[d]
       PROVE  /\ down[d][n].id <= nextID'[d]
              /\ d = c => down[d][n].id # id
              /\ cmd'[down[d][n].command] = cmd[down[d][n].command]
              /\ \A l \in Commands : Waits(l, d)' /\ cmd'[l].id = down[d][n].id => l = down[d][n].command
  <2>1. down[d][n].id <= nextID[d] /\ down[d][n].id \in Nat
    <3>1. down[d][n] \in DownFrames
      BY DEF Typed, TypeOK, WireTypes
    <3>2. QED
      BY <1>6, <3>1 DEF FramesOwned, DownFrames
  <2>2. down[d][n].id <= nextID'[d] /\ (d = c => down[d][n].id # id)
    BY <1>5, <2>1
  <2>3. cmd'[down[d][n].command] = cmd[down[d][n].command]
    BY <1>3, <1>11
  <2>4. \A l \in Commands : Waits(l, d)' /\ cmd'[l].id = down[d][n].id => l = down[d][n].command
    BY <1>3, <1>6, <1>9, <2>2 DEF FramesOwned, Waits
  <2>5. QED
    BY <2>2, <2>3, <2>4
<1>15. ASSUME NEW d \in Conns PROVE FramesOwned(d)'
  <2>1. CASE down'[d] = down[d]
    BY <1>4, <1>6, <1>14, <2>1 DEF FramesOwned, Waits
  <2>2. ASSUME d = c, r.state = "waiting", NEW frame \in DownFrames,
               frame.id = id,
               frame.command = k,
               frame.action = ActionOf[cmd[k].request.method],
               frame.connector = Address(cmd[k].request),
               down' = [down EXCEPT ![c] = Append(down[c], frame)]
        PROVE  FramesOwned(d)'
    <3>1. down'[c] = Append(down[c], frame) /\ down[c] \in Seq(DownFrames)
      BY <1>1, <2>2 DEF Typed, TypeOK, WireTypes
    <3>2. \A n \in DOMAIN down'[c] :
             \/ n \in DOMAIN down[c] /\ down'[c][n] = down[c][n]
             \/ n = Len(down[c]) + 1 /\ down'[c][n] = frame
      BY <3>1, Pushed
    <3>3. \A m \in DOMAIN up[c] : up[c][m].type = "answer" => up[c][m].number # id
      <4>1. \A m \in DOMAIN up[c] : up[c][m].type = "answer" => up[c][m].number <= nextID[c]
        BY <1>1, <1>6 DEF AnswersOwned
      <4>2. \A m \in DOMAIN up[c] : up[c][m] \in UpFrames
        BY <1>1 DEF Typed, TypeOK, WireTypes
      <4>3. \A m \in DOMAIN up[c] : up[c][m].number \in Nat
        BY <4>2 DEF UpFrames
      <4>4. QED
        BY <1>1, <1>5, <4>1, <4>3
    <3>4. \A n, m \in DOMAIN down'[c] : down'[c][m].id = down'[c][n].id => m = n
      BY <1>1, <1>6, <1>14, <2>2, <3>2 DEF FramesOwned
    <3>5. ASSUME NEW n \in DOMAIN down[c], down'[c][n] = down[c][n]
          PROVE  Fits(down'[c][n], c)
      <4> DEFINE f == down[c][n]
      <4>1. /\ cmd[f.command].state \in {"waiting", "returned"}
            /\ cmd[f.command].state = "waiting" =>
                  /\ cmd[f.command].conn = c
                  /\ cmd[f.command].id = f.id
                  /\ cmd[f.command].inbox = None
                  /\ f.action = ActionOf[cmd[f.command].request.method]
                  /\ f.connector = Address(cmd[f.command].request)
            /\ \A m \in DOMAIN up[c] : up[c][m].type = "answer" => up[c][m].number # f.id
        BY <1>1, <1>6 DEF FramesOwned
      <4>2. /\ f.id <= nextID'[c]
            /\ cmd'[f.command] = cmd[f.command]
            /\ \A l \in Commands :
                  cmd'[l].state = "waiting" /\ cmd'[l].conn = c /\ cmd'[l].id = f.id =>
                      l = f.command
        BY <1>1, <1>14 DEF Waits
      <4>3. QED
        BY <1>4, <3>5, <4>1, <4>2 DEF Fits
    <3>6. Fits(frame, c)
      <4>1. frame.id <= nextID'[c]
        BY <1>5, <1>1, <2>2
      <4>2. \A l \in Commands :
               cmd'[l].state = "waiting" /\ cmd'[l].conn = c /\ cmd'[l].id = frame.id =>
                   l = frame.command
        BY <1>1, <1>3, <1>8, <2>2 DEF Waits
      <4>3. QED
        BY <1>3, <1>4, <1>9, <2>2, <3>3, <4>1, <4>2 DEF Fits
    <3>7. QED
      <4>1. \A n \in DOMAIN down'[c] : Fits(down'[c][n], c)
        BY <3>2, <3>5, <3>6
      <4>2. /\ \A n \in DOMAIN down'[d] : Fits(down'[d][n], d)
            /\ \A n, m \in DOMAIN down'[d] : down'[d][m].id = down'[d][n].id => m = n
        BY <2>2, <3>4, <4>1
      <4>3. QED
        BY <4>2, FramesFit
  <2>3. QED
    BY <1>2, <1>12, <2>1, <2>2
<1>16. ASSUME NEW d \in Conns PROVE AnswersOwned(d)'
  <2>1. ASSUME NEW n \in DOMAIN up[d], up[d][n].type = "answer"
        PROVE  /\ up[d][n].number <= nextID'[d]
               /\ \A l \in Commands :
                     Waits(l, d)' /\ cmd'[l].id = up[d][n].number =>
                        l # k /\ Waits(l, d) /\ cmd[l].id = up[d][n].number
    <3>1. up[d][n] \in UpFrames
      BY DEF Typed, TypeOK, WireTypes
    <3>2. up[d][n].number \in Nat /\ up[d][n].number <= nextID[d]
      BY <1>6, <2>1, <3>1 DEF AnswersOwned, UpFrames
    <3>3. up[d][n].number <= nextID'[d] /\ (d = c => up[d][n].number # id)
      BY <1>5, <3>2
    <3>4. QED
      BY <1>3, <1>9, <3>3 DEF Waits
  <2>2. QED
    BY <1>3, <1>4, <1>6, <2>1 DEF AnswersOwned, Own
<1>17. InboxOwned' /\ AnswerIsOwn'
  BY <1>3, <1>4, <1>6, <1>9 DEF InboxOwned, AnswerIsOwn, Own
<1>18. QED
  BY <1>13, <1>15, <1>16, <1>17 DEF AnswerInv

\* Every step keeps it.
LEMMA NextAnswer == Typed /\ AnswerInv /\ [Next]_vars => AnswerInv'
<1> SUFFICES ASSUME Typed, AnswerInv, [Next]_vars PROVE AnswerInv'
  OBVIOUS
<1>1. CASE UNCHANGED vars
  <2>1. UNCHANGED <<up, down, cmdVars>>
    BY <1>1 DEF vars, wireVars
  <2>2. QED
    BY <2>1, FramesLost
<1>2. QED
  BY <1>1, PlainAnswer, SendStatusAnswer, AnswerAnswer, ReadAnswerAnswer, CommandAnswer, CallAnswer,
     EndAnswer
  DEF Next, Wire

\* A command returns only what the station said to it, for any number of
\* commands and connections and whatever the station answers: ids are used once
\* on a connection, and pending is kept for each connection.
THEOREM AnswerIsOwnHolds == Spec => []AnswerIsOwn
<1>1. Init => AnswerInv
  BY InitAnswer
<1>2. AnswerInv => AnswerIsOwn
  BY DEF AnswerInv
<1>3. QED
  BY <1>1, <1>2, NextAnswer, TypedHolds, PTL DEF Spec
=============================================================================
