------------------------------ MODULE OcppjConn ------------------------------
(***************************************************************************)
(* One OCPP-J connection (internal/ocpp/ocppj/conn.go): the reader, the    *)
(* writer and the handler goroutine, the callers waiting in Call, the two  *)
(* bounded channels between them, and Close.                               *)
(*                                                                         *)
(* The peer and the network are the environment.  The peer sends CALLs,    *)
(* answers ours late, twice or never, sends answers nobody asked for and   *)
(* malformed frames, stops reading, falls silent or goes away.             *)
(*                                                                         *)
(* Every case of a Go select is an action of its own: with several ready   *)
(* the runtime picks any.  A frame is its kind, its message id and, for a  *)
(* CALL and its answer, the call it belongs to (body), which only the      *)
(* properties look at.  Time is counted in thirds of the idle timeout, the *)
(* ping period.                                                            *)
(***************************************************************************)
EXTENDS Integers, Sequences, FiniteSets

CONSTANTS
    Callers,        \* goroutines that use Call
    MaxCalls,       \* bound on the outbound calls
    MaxInbound,     \* bound on the inbound CALLs
    MaxAnswers,     \* bound on the answers the peer sends, duplicates included
    MaxNoise,       \* bound on malformed frames and answers to nothing
    SendBuffer,     \* capacity of Conn.send
    CallBuffer,     \* capacity of Conn.calls
    WireBuffer      \* frames the network holds in either direction

ASSUME BoundsAssumption ==
    /\ {MaxCalls, MaxInbound, MaxAnswers, MaxNoise} \subseteq Nat
    /\ {SendBuffer, CallBuffer, WireBuffer} \subseteq Nat \ {0}

IdleLimit == 3      \* ping periods in the idle timeout

VARIABLES
    callers,    \* per caller: where it is in Call, its message id, its call
    made,       \* calls begun; names the result channel of each
    nextID,     \* Conn.nextID
    pending,    \* Conn.pending: message id -> result channel
    box,        \* the result channels, of capacity one
    got,        \* history: per call, the call whose answer it returned
    send,       \* Conn.send
    calls,      \* Conn.calls
    reader,     \* readLoop
    writer,     \* writeLoop
    handler,    \* handleLoop
    handled,    \* history: inbound CALLs in the order they were dispatched
    done,       \* Conn.done is closed
    idle,       \* ping periods since the last inbound OCPP message
    wire,       \* frames written, not yet read by the peer
    inbox,      \* frames sent by the peer, not yet read by us
    peer        \* the peer: CALLs it has seen, what it has sent, whether it lives

callVars == <<callers, made, nextID, pending, got>>
loopVars == <<reader, writer, handler, handled>>
netVars  == <<wire, inbox, peer>>
vars == <<callVars, box, send, calls, loopVars, done, idle, netVars>>

CallIDs == 1 .. MaxCalls
InCalls == 1 .. MaxInbound
NoCall  == 0                    \* nil channel, no message id
Unknown == MaxCalls + 1         \* a message id we never used

Frame(kind, id, body) == [kind |-> kind, id |-> id, body |-> body]
At(pc, frame) == [pc |-> pc, frame |-> frame]
NoFrame == Frame("none", NoCall, NoCall)
Idling == At("idle", NoFrame)
Gone   == At("gone", NoFrame)

Outside == [pc |-> "outside", id |-> NoCall, call |-> NoCall]

Init ==
    /\ callers = [k \in Callers |-> Outside]
    /\ made = 0
    /\ nextID = 0
    /\ pending = [i \in CallIDs |-> NoCall]
    /\ box = [i \in CallIDs |-> NoCall]
    /\ got = [i \in CallIDs |-> NoCall]
    /\ send = << >>
    /\ calls = << >>
    /\ reader = Idling
    /\ writer = Idling
    /\ handler = Idling
    /\ handled = << >>
    /\ done = FALSE
    /\ idle = 0
    /\ wire = << >>
    /\ inbox = << >>
    /\ peer = [seen |-> {}, calls |-> 0, answers |-> 0, noise |-> 0, alive |-> TRUE]

-----------------------------------------------------------------------------
(***************************************************************************)
(* Call.                                                                   *)
(***************************************************************************)
\* Mutant of newID: the counter is not advanced.
newIDStuck == 1

\* nextID.Add(1)
newID == nextID + 1

\* A fresh id and a fresh result channel, entered into pending.
CallBegin(k) ==
    /\ callers[k].pc = "outside"
    /\ made < MaxCalls
    /\ made' = made + 1
    /\ nextID' = newID
    /\ callers' = [callers EXCEPT ![k] =
                      [pc |-> "sending", id |-> newID, call |-> made + 1]]
    /\ pending' = [pending EXCEPT ![newID] = made + 1]
    /\ UNCHANGED <<got, box, send, calls, loopVars, done, idle, netVars>>

\* First select: the frame goes into the send channel.
CallEnqueue(k) ==
    /\ callers[k].pc = "sending"
    /\ Len(send) < SendBuffer
    /\ send' = Append(send, Frame("call", callers[k].id, callers[k].call))
    /\ callers' = [callers EXCEPT ![k].pc = "waiting"]
    /\ UNCHANGED <<made, nextID, pending, got, box, calls, loopVars, done, idle, netVars>>

\* Mutant of forget: the entry stays.
forgetNot(k) ==
    /\ callers' = [callers EXCEPT ![k] = Outside]
    /\ UNCHANGED pending

\* The deferred forget, and the return.
forget(k) ==
    /\ callers' = [callers EXCEPT ![k] = Outside]
    /\ pending' = [pending EXCEPT ![callers[k].id] = NoCall]

\* Second select: the answer.
CallAnswered(k) ==
    /\ callers[k].pc = "waiting"
    /\ box[callers[k].call] # NoCall
    /\ got' = [got EXCEPT ![callers[k].call] = box[callers[k].call]]
    /\ forget(k)
    /\ UNCHANGED <<made, nextID, box, send, calls, loopVars, done, idle, netVars>>

\* Second select: the timer, started after the frame was queued.
CallTimesOut(k) ==
    /\ callers[k].pc = "waiting"
    /\ forget(k)
    /\ UNCHANGED <<made, nextID, got, box, send, calls, loopVars, done, idle, netVars>>

\* Mutant of CallClosed: the first select does not watch the connection.
CallClosedLate(k) ==
    /\ callers[k].pc = "waiting"
    /\ done
    /\ forget(k)
    /\ UNCHANGED <<made, nextID, got, box, send, calls, loopVars, done, idle, netVars>>

\* Either select: the connection is gone.
CallClosed(k) ==
    /\ callers[k].pc \in {"sending", "waiting"}
    /\ done
    /\ forget(k)
    /\ UNCHANGED <<made, nextID, got, box, send, calls, loopVars, done, idle, netVars>>

\* Either select: the caller's context is cancelled.
CallCancelled(k) ==
    /\ callers[k].pc \in {"sending", "waiting"}
    /\ forget(k)
    /\ UNCHANGED <<made, nextID, got, box, send, calls, loopVars, done, idle, netVars>>

-----------------------------------------------------------------------------
(***************************************************************************)
(* readLoop.  Every frame read restarts the idle watchdog.                 *)
(***************************************************************************)
Received(kind) ==
    /\ reader = Idling
    /\ inbox # << >>
    /\ Head(inbox).kind = kind
    /\ inbox' = Tail(inbox)
    /\ idle' = 0

\* A CALL, to be put into the calls channel; a malformed frame, to be answered
\* with a CALLERROR.
ReadCallOrBad ==
    /\ \E kind \in {"call", "bad"} : Received(kind)
    /\ reader' = At("holding", Head(inbox))
    /\ UNCHANGED <<callVars, box, send, calls, writer, handler, handled, done, wire, peer>>

\* deliver, under pendingMu: an answer somebody waits for ...
ReadAnswer ==
    LET f == Head(inbox)
    IN  /\ Received("answer")
        /\ reader' = IF f.id \in CallIDs /\ pending[f.id] # NoCall
                       THEN At("delivering", Frame("answer", pending[f.id], f.body))
                       ELSE Idling      \* ... or nobody: logged and dropped
        /\ UNCHANGED <<callVars, box, send, calls, writer, handler, handled, done, wire, peer>>

\* deliver, after the unlock: a send that never blocks.  The caller may have
\* left meanwhile, and the channel may already hold an answer.
Deliver ==
    LET f == reader.frame
    IN  /\ reader.pc = "delivering"
        /\ box' = IF box[f.id] = NoCall THEN [box EXCEPT ![f.id] = f.body] ELSE box
        /\ reader' = Idling
        /\ UNCHANGED <<callVars, send, calls, writer, handler, handled, done, idle, netVars>>

\* Mutant of QueueCall: a full channel loses its oldest CALL.
QueueCallEvicts ==
    /\ reader.pc = "holding"
    /\ reader.frame.kind = "call"
    /\ calls' = Append(IF Len(calls) < CallBuffer THEN calls ELSE Tail(calls),
                       reader.frame.id)
    /\ reader' = Idling
    /\ UNCHANGED <<callVars, box, send, writer, handler, handled, done, idle, netVars>>

\* The CALL goes into the calls channel ...
QueueCall ==
    /\ reader.pc = "holding"
    /\ reader.frame.kind = "call"
    /\ Len(calls) < CallBuffer
    /\ calls' = Append(calls, reader.frame.id)
    /\ reader' = Idling
    /\ UNCHANGED <<callVars, box, send, writer, handler, handled, done, idle, netVars>>

\* ... or the connection is gone.
QueueCallClosed ==
    /\ reader.pc = "holding"
    /\ reader.frame.kind = "call"
    /\ done
    /\ reader' = Gone
    /\ UNCHANGED <<callVars, box, send, calls, writer, handler, handled, done, idle, netVars>>

\* sendCallError for a malformed frame: queued, or dropped with the connection.
AnswerBad ==
    /\ reader.pc = "holding"
    /\ reader.frame.kind = "bad"
    /\ \/ Len(send) < SendBuffer /\ send' = Append(send, Frame("error", NoCall, NoCall))
       \/ done /\ UNCHANGED send
    /\ reader' = Idling
    /\ UNCHANGED <<callVars, box, calls, writer, handler, handled, done, idle, netVars>>

\* ReadMessage fails: closed by us, lost, or silent for the idle timeout.  Run
\* closes the connection.  Once the deadline has passed a read fails even if
\* the peer has sent something meanwhile.
ReadFails ==
    /\ reader = Idling
    /\ done \/ ~peer.alive \/ idle = IdleLimit
    /\ reader' = Gone
    /\ done' = TRUE
    /\ UNCHANGED <<callVars, box, send, calls, writer, handler, handled, idle, netVars>>

-----------------------------------------------------------------------------
(***************************************************************************)
(* handleLoop.                                                             *)
(***************************************************************************)
\* The next CALL is dispatched; possible even after Close.
HandleNext ==
    /\ handler = Idling
    /\ calls # << >>
    /\ handler' = At("handling", Frame("call", Head(calls), NoCall))
    /\ handled' = Append(handled, Head(calls))
    /\ calls' = Tail(calls)
    /\ UNCHANGED <<callVars, box, send, reader, writer, done, idle, netVars>>

\* Mutant of Reply: the handler insists on its answer.
ReplyInsists ==
    /\ handler.pc = "handling"
    /\ Len(send) < SendBuffer
    /\ send' = Append(send, Frame("reply", handler.frame.id, NoCall))
    /\ handler' = Idling
    /\ UNCHANGED <<callVars, box, calls, reader, writer, handled, done, idle, netVars>>

\* The handler's result, its error, or the InternalError a panic becomes is
\* queued, or dropped with the connection.
Reply ==
    /\ handler.pc = "handling"
    /\ \/ /\ Len(send) < SendBuffer
          /\ send' = Append(send, Frame("reply", handler.frame.id, NoCall))
       \/ done /\ UNCHANGED send
    /\ handler' = Idling
    /\ UNCHANGED <<callVars, box, calls, reader, writer, handled, done, idle, netVars>>

HandlerStops ==
    /\ handler = Idling
    /\ done
    /\ handler' = Gone
    /\ UNCHANGED <<callVars, box, send, calls, reader, writer, handled, done, idle, netVars>>

-----------------------------------------------------------------------------
(***************************************************************************)
(* writeLoop and Close.                                                    *)
(***************************************************************************)
WriteNext ==
    /\ writer = Idling
    /\ send # << >>
    /\ writer' = At("writing", Head(send))
    /\ send' = Tail(send)
    /\ UNCHANGED <<callVars, box, calls, reader, handler, handled, done, idle, netVars>>

\* WriteMessage succeeds: the network takes the frame.
Written ==
    /\ writer.pc = "writing"
    /\ ~done
    /\ Len(wire) < WireBuffer
    /\ wire' = Append(wire, writer.frame)
    /\ writer' = Idling
    /\ UNCHANGED <<callVars, box, send, calls, reader, handler, handled, done, idle, inbox, peer>>

\* WriteMessage fails: closed, lost, or the peer did not read for writeWait;
\* or a ping fails.  Either closes the connection.
WriteFails ==
    /\ \/ writer.pc = "writing" /\ (done \/ ~peer.alive \/ Len(wire) = WireBuffer)
       \/ writer = Idling /\ ~peer.alive
    /\ writer' = Gone
    /\ done' = TRUE
    /\ UNCHANGED <<callVars, box, send, calls, reader, handler, handled, idle, netVars>>

WriterStops ==
    /\ writer = Idling
    /\ done
    /\ writer' = Gone
    /\ UNCHANGED <<callVars, box, send, calls, reader, handler, handled, done, idle, netVars>>

\* Close from outside: a newer connection, Shutdown, the owner.
Close ==
    /\ ~done
    /\ done' = TRUE
    /\ UNCHANGED <<callVars, box, send, calls, loopVars, idle, netVars>>

\* A ping period passes.  The writer pings, the peer's WebSocket stack answers,
\* and the pong handler leaves the read deadline alone.
Tick ==
    /\ idle < IdleLimit
    /\ idle' = idle + 1
    /\ UNCHANGED <<callVars, box, send, calls, loopVars, done, netVars>>

-----------------------------------------------------------------------------
(***************************************************************************)
(* The peer.                                                               *)
(***************************************************************************)
PeerReads ==
    /\ peer.alive
    /\ wire # << >>
    /\ wire' = Tail(wire)
    /\ peer' = IF Head(wire).kind = "call"
                 THEN [peer EXCEPT !.seen = @ \cup {Head(wire)}] ELSE peer
    /\ UNCHANGED <<callVars, box, send, calls, loopVars, done, idle, inbox>>

PeerSends(frame) ==
    /\ peer.alive
    /\ Len(inbox) < WireBuffer
    /\ inbox' = Append(inbox, frame)
    /\ UNCHANGED <<callVars, box, send, calls, loopVars, done, idle, wire>>

\* A CALLRESULT or CALLERROR, perhaps late, perhaps the second one.
PeerAnswers ==
    /\ peer.answers < MaxAnswers
    /\ \E f \in peer.seen : PeerSends(Frame("answer", f.id, f.body))
    /\ peer' = [peer EXCEPT !.answers = @ + 1]

PeerCalls ==
    /\ peer.calls < MaxInbound
    /\ PeerSends(Frame("call", peer.calls + 1, NoCall))
    /\ peer' = [peer EXCEPT !.calls = @ + 1]

PeerNoise ==
    /\ peer.noise < MaxNoise
    /\ \/ PeerSends(Frame("bad", NoCall, NoCall))
       \/ PeerSends(Frame("answer", Unknown, NoCall))
    /\ peer' = [peer EXCEPT !.noise = @ + 1]

PeerDies ==
    /\ peer.alive
    /\ peer' = [peer EXCEPT !.alive = FALSE]
    /\ UNCHANGED <<callVars, box, send, calls, loopVars, done, idle, wire, inbox>>

-----------------------------------------------------------------------------
Caller(k) ==
    CallEnqueue(k) \/ CallAnswered(k) \/ CallTimesOut(k) \/ CallClosed(k)

ReadLoop ==
    ReadCallOrBad \/ ReadAnswer \/ Deliver \/ QueueCall \/ QueueCallClosed
        \/ AnswerBad \/ ReadFails

HandleLoop == HandleNext \/ Reply \/ HandlerStops

WriteLoop == WriteNext \/ Written \/ WriteFails \/ WriterStops

Environment ==
    \/ Close
    \/ PeerReads \/ PeerAnswers \/ PeerCalls \/ PeerNoise \/ PeerDies

Next ==
    \/ \E k \in Callers : CallBegin(k) \/ Caller(k) \/ CallCancelled(k)
    \/ ReadLoop \/ HandleLoop \/ WriteLoop
    \/ Tick
    \/ Environment

Spec == Init /\ [][Next]_vars

\* The scheduler runs every goroutine that can run, timers and deadlines
\* expire and time passes.  The peer owes us nothing, and nobody need Close or
\* cancel.
FairSpec ==
    /\ Spec
    /\ \A k \in Callers : WF_vars(Caller(k))
    /\ WF_vars(ReadLoop)
    /\ WF_vars(HandleLoop)
    /\ WF_vars(WriteLoop)
    /\ WF_vars(Tick)

-----------------------------------------------------------------------------
(***************************************************************************)
(* Properties.                                                             *)
(***************************************************************************)
\* The frames we write and the frames we read.
OutFrames == [kind : {"call", "reply", "error"}, id : Nat, body : Nat]
InFrames  == [kind : {"call", "answer", "bad"}, id : Nat, body : Nat]

\* Type invariant; no channel is ever over its capacity, and a goroutine holds
\* a frame of its direction while it is about one.
TypeOK ==
    /\ callers \in [Callers -> [pc : {"outside", "sending", "waiting"},
                                 id : 0 .. MaxCalls, call : 0 .. MaxCalls]]
    /\ made \in 0 .. MaxCalls
    /\ nextID \in 0 .. MaxCalls
    /\ pending \in [CallIDs -> 0 .. MaxCalls]
    /\ box \in [CallIDs -> 0 .. MaxCalls]
    /\ got \in [CallIDs -> 0 .. MaxCalls]
    /\ send \in Seq(OutFrames) /\ Len(send) <= SendBuffer
    /\ calls \in Seq(Nat) /\ Len(calls) <= CallBuffer
    /\ reader.pc \in {"idle", "holding", "delivering", "gone"}
    /\ reader.pc \in {"holding", "delivering"} => reader.frame \in InFrames
    /\ writer.pc \in {"idle", "writing", "gone"}
    /\ writer.pc = "writing" => writer.frame \in OutFrames
    /\ handler.pc \in {"idle", "handling", "gone"}
    /\ handler.pc = "handling" => handler.frame.id \in Nat
    /\ handled \in Seq(Nat)
    /\ done \in BOOLEAN
    /\ idle \in 0 .. IdleLimit
    /\ wire \in Seq(OutFrames) /\ Len(wire) <= WireBuffer
    /\ inbox \in Seq(InFrames) /\ Len(inbox) <= WireBuffer
    /\ peer \in [seen : SUBSET OutFrames, calls : 0 .. MaxInbound,
                  answers : 0 .. MaxAnswers, noise : 0 .. MaxNoise, alive : BOOLEAN]

InCall(k) == callers[k].pc \in {"sending", "waiting"}

\* Call "removes its pending entry, so a slow or silent charger cannot leak
\* entries": pending holds exactly the calls that are in progress, each under
\* its own id, whichever way the others ended.
PendingIsExact ==
    /\ \A k \in Callers : InCall(k) => pending[callers[k].id] = callers[k].call
    /\ \A i \in CallIDs : pending[i] # NoCall =>
          \E k \in Callers : InCall(k) /\ callers[k].id = i

\* A Call that returns an answer returns the answer to that very call, although
\* answers come late, twice, out of order or for calls given up long ago, and
\* deliver hands them over after it has released pendingMu.
AnswersMatch == \A i \in CallIDs : got[i] \in {NoCall, i}

\* Inbound CALLs are dispatched in the order the peer sent them, none skipped:
\* a StatusNotification never overtakes an earlier one of the connection.
HandledInOrder == \A i \in DOMAIN handled : handled[i] = i

\* Every Call returns, although it may first block on a full send channel,
\* which the call timeout does not cover: a writer that cannot write, and a
\* peer that says nothing, end the connection, and both selects watch that.
CallReturns == \A k \in Callers : InCall(k) ~> ~InCall(k)

\* Close unblocks everything: all three goroutines end, wherever they were
\* blocked, so Run returns.
CloseEndsRun == done ~> (reader = Gone /\ writer = Gone /\ handler = Gone)

=============================================================================
