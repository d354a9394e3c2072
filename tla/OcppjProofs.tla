---------------------------- MODULE OcppjProofs ----------------------------
(***************************************************************************)
(* Proofs about Call, deliver and handleLoop, for any number of callers,   *)
(* calls, answers and any channel capacities: pending holds the calls in   *)
(* progress, a Call that returns an answer returns its own, and inbound    *)
(* CALLs are dispatched in the order they were sent.  Together they give   *)
(* the type, with every channel within its capacity.                       *)
(***************************************************************************)
EXTENDS OcppjConn, TLAPS

\* The pending table and the callers: ids are never shared, an entry leads to
\* the call that has its id, and calls in progress and entries correspond.
TableInv ==
    /\ callers \in [Callers -> [pc : {"outside", "sending", "waiting"},
                                id : 0 .. MaxCalls, call : 0 .. MaxCalls]]
    /\ made \in 0 .. MaxCalls
    /\ nextID = made
    /\ pending \in [CallIDs -> 0 .. MaxCalls]
    /\ \A i \in CallIDs : pending[i] \in {NoCall, i}
    /\ \A k \in Callers : InCall(k) =>
          /\ callers[k].id = callers[k].call
          /\ callers[k].id \in 1 .. made
          /\ pending[callers[k].id] = callers[k].id
    /\ \A k, l \in Callers : InCall(k) /\ InCall(l) /\ callers[k].id = callers[l].id => k = l
    /\ \A i \in CallIDs : pending[i] # NoCall =>
          \E k \in Callers : InCall(k) /\ callers[k].id = i

\* Frames that carry the id of the call they belong to.
Asking    == {f \in OutFrames : f.kind = "call" => f.id = f.body /\ f.id \in CallIDs}
Answering == {f \in InFrames :
                 f.kind = "answer" => f.id = Unknown \/ (f.id = f.body /\ f.id \in CallIDs)}

PeerStates == [seen : SUBSET OutFrames, calls : Nat, answers : Nat, noise : Nat,
               alive : BOOLEAN]

\* An entry is empty or belongs to the call it is found under.
Matching(g) == g \in [CallIDs -> 0 .. MaxCalls] /\ \A i \in CallIDs : g[i] \in {NoCall, i}

\* The way of a call and of its answers: through send, the writer, the wire
\* and the peer, back through inbox, the reader and the result channel.
FlowInv ==
    /\ send \in Seq(Asking)
    /\ writer.pc = "writing" => writer.frame \in Asking
    /\ wire \in Seq(Asking)
    /\ peer \in PeerStates
    /\ \A f \in peer.seen : f \in Asking /\ f.kind = "call"
    /\ inbox \in Seq(Answering)
    /\ reader.pc = "delivering" =>
          reader.frame.id \in CallIDs /\ reader.frame.body = reader.frame.id
    /\ reader.pc = "holding" => reader.frame.id \in Nat
    /\ calls \in Seq(Nat)
    /\ handler.pc = "handling" => handler.frame.id \in Nat
    /\ Matching(box)
    /\ Matching(got)

-----------------------------------------------------------------------------
\* A new connection has no calls.
LEMMA InitTable == Init => TableInv
BY BoundsAssumption DEF Init, TableInv, InCall, Outside, CallIDs, NoCall

\* A call that returns, in whichever way, takes its entry along and no other.
LEMMA ForgetTable ==
    ASSUME TableInv, NEW k \in Callers, InCall(k), forget(k), UNCHANGED <<made, nextID>>
    PROVE  TableInv'
<1> USE BoundsAssumption DEF TableInv, InCall, CallIDs, NoCall
<1>1. /\ callers' = [callers EXCEPT ![k] = Outside]
      /\ pending' = [pending EXCEPT ![callers[k].id] = 0]
      /\ callers[k].id \in CallIDs
  BY DEF forget
<1>2. \A l \in Callers : l # k => callers'[l] = callers[l]
  BY <1>1
<1>3. ~InCall(k)'
  BY <1>1 DEF Outside
<1>4. callers' \in [Callers -> [pc : {"outside", "sending", "waiting"},
                                id : 0 .. MaxCalls, call : 0 .. MaxCalls]]
  BY <1>1 DEF Outside
<1>5. pending' \in [CallIDs -> 0 .. MaxCalls] /\ \A i \in CallIDs : pending'[i] \in {0, i}
  BY <1>1
<1>6. \A l \in Callers : InCall(l)' =>
        l # k /\ InCall(l) /\ callers'[l] = callers[l] /\ callers[l].id # callers[k].id
  BY <1>2, <1>3
<1>7. \A l \in Callers : InCall(l)' => pending'[callers'[l].id] = callers'[l].id
  BY <1>1, <1>6
<1>8. ASSUME NEW i \in CallIDs, pending'[i] # 0
      PROVE  \E l \in Callers : InCall(l)' /\ callers'[l].id = i
  <2>1. i # callers[k].id /\ pending[i] # 0
    BY <1>1, <1>8
  <2>2. PICK l \in Callers : InCall(l) /\ callers[l].id = i
    BY <2>1
  <2>3. l # k
    BY <2>1, <2>2
  <2>4. QED
    BY <1>2, <2>2, <2>3
<1>9. QED
  BY <1>4, <1>5, <1>6, <1>7, <1>8

\* Every step of the connection and of its peer preserves TableInv.
LEMMA StepTable == TableInv /\ [Next]_vars => TableInv'
<1> SUFFICES ASSUME TableInv, [Next]_vars PROVE TableInv'
  OBVIOUS
<1>1. ASSUME NEW k \in Callers, CallBegin(k) PROVE TableInv'
  <2> USE BoundsAssumption DEF TableInv, InCall, CallIDs, NoCall
  <2> DEFINE id == made + 1
  <2>1. /\ made < MaxCalls /\ made' = id /\ nextID' = id
        /\ callers' = [callers EXCEPT ![k] = [pc |-> "sending", id |-> id, call |-> id]]
        /\ pending' = [pending EXCEPT ![id] = id]
    BY <1>1 DEF CallBegin, newID
  <2>2. id \in CallIDs /\ id \notin 1 .. made
    BY <2>1
  <2>3. \A l \in Callers : l # k => callers'[l] = callers[l]
    BY <2>1
  <2>4. callers'[k] = [pc |-> "sending", id |-> id, call |-> id]
    BY <2>1
  <2>5. callers' \in [Callers -> [pc : {"outside", "sending", "waiting"},
                                  id : 0 .. MaxCalls, call : 0 .. MaxCalls]]
    BY <2>1, <2>2
  <2>6. pending' \in [CallIDs -> 0 .. MaxCalls] /\ \A i \in CallIDs : pending'[i] \in {0, i}
    BY <2>1, <2>2
  <2>7. \A l \in Callers : l # k /\ InCall(l)' =>
          InCall(l) /\ callers'[l].id \in 1 .. made /\ callers'[l].id # id
    BY <2>2, <2>3
  <2>8. \A l \in Callers : InCall(l)' =>
          /\ callers'[l].id = callers'[l].call
          /\ callers'[l].id \in 1 .. made'
          /\ pending'[callers'[l].id] = callers'[l].id
    BY <2>1, <2>2, <2>3, <2>4, <2>7
  <2>9. ASSUME NEW l \in Callers, NEW m \in Callers,
               InCall(l)', InCall(m)', callers'[l].id = callers'[m].id
        PROVE  l = m
    <3>1. callers'[k].id = id
      BY <2>4
    <3>2. l = k <=> m = k
      BY SMTT(30), <2>7, <2>9, <3>1
    <3>3. CASE l # k /\ m # k
      <4>1. InCall(l) /\ InCall(m) /\ callers[l].id = callers[m].id
        BY <2>3, <2>7, <2>9, <3>3
      <4>2. QED
        BY <4>1
    <3>4. QED
      BY <3>2, <3>3
  <2>10. ASSUME NEW i \in CallIDs, pending'[i] # 0
         PROVE  \E l \in Callers : InCall(l)' /\ callers'[l].id = i
    <3>1. CASE i = id
      BY <2>4, <3>1
    <3>2. CASE i # id
      <4>1. PICK l \in Callers : InCall(l) /\ callers[l].id = i
        BY <2>1, <2>10, <3>2
      <4>2. l # k
        BY <1>1, <4>1 DEF CallBegin
      <4>3. QED
        BY <2>3, <4>1, <4>2
    <3>3. QED
      BY <3>1, <3>2
  <2>11. made' \in 0 .. MaxCalls /\ nextID' = made'
    BY <2>1
  <2>12. QED
    BY <2>5, <2>6, <2>8, <2>9, <2>10, <2>11
<1>2. ASSUME NEW k \in Callers, CallEnqueue(k) PROVE TableInv'
  <2> USE DEF TableInv, InCall
  <2>1. /\ callers' = [callers EXCEPT ![k].pc = "waiting"] /\ callers[k].pc = "sending"
        /\ UNCHANGED <<made, nextID, pending>>
    BY <1>2 DEF CallEnqueue
  <2>2. \A l \in Callers :
          /\ callers'[l].id = callers[l].id /\ callers'[l].call = callers[l].call
          /\ InCall(l)' <=> InCall(l)
    BY <2>1
  <2>3. callers' \in [Callers -> [pc : {"outside", "sending", "waiting"},
                                  id : 0 .. MaxCalls, call : 0 .. MaxCalls]]
    BY <2>1
  <2>4. QED
    BY <2>1, <2>2, <2>3
<1>3. ASSUME NEW k \in Callers,
             CallAnswered(k) \/ CallTimesOut(k) \/ CallClosed(k) \/ CallCancelled(k)
      PROVE  TableInv'
  <2>1. InCall(k) /\ forget(k) /\ UNCHANGED <<made, nextID>>
    BY <1>3 DEF CallAnswered, CallTimesOut, CallClosed, CallCancelled, InCall
  <2>2. QED
    BY <2>1, ForgetTable
<1>4. CASE UNCHANGED callVars
  BY <1>4 DEF callVars, TableInv, InCall
<1>5. CASE ReadLoop \/ HandleLoop \/ WriteLoop \/ Tick \/ Environment \/ UNCHANGED vars
  BY <1>4, <1>5
     DEF ReadLoop, ReadCallOrBad, ReadAnswer, Deliver, QueueCall, QueueCallClosed,
         AnswerBad, ReadFails, HandleLoop, HandleNext, Reply, HandlerStops, WriteLoop,
         WriteNext, Written, WriteFails, WriterStops, Tick, Environment, Close, PeerReads,
         PeerAnswers, PeerCalls, PeerNoise, PeerSends, PeerDies, vars
<1>6. QED
  BY <1>1, <1>2, <1>3, <1>5 DEF Next, Caller

\* TableInv is an invariant of the connection.
THEOREM TableInvHolds == Spec => []TableInv
BY InitTable, StepTable, PTL DEF Spec

\* Call never leaks a pending entry, nor loses one it still needs: pending and
\* the calls in progress correspond, whichever way the others ended.
THEOREM PendingIsExactHolds == Spec => []PendingIsExact
<1>1. TableInv => PendingIsExact
  BY DEF TableInv, PendingIsExact
<1>2. QED
  BY <1>1, TableInvHolds, PTL

-----------------------------------------------------------------------------
\* Storing a call under its own id keeps a table matching.
LEMMA StoreMatching ==
    ASSUME NEW g, Matching(g), NEW c \in CallIDs
    PROVE  Matching([g EXCEPT ![c] = c])
BY DEF Matching, CallIDs

\* A channel that takes a value of its type keeps its type.
LEMMA AppendTyped ==
    ASSUME NEW S, NEW s \in Seq(S), NEW e \in S PROVE Append(s, e) \in Seq(S)
OBVIOUS

\* A channel that is received from keeps its type and yields a value of it.
LEMMA TailTyped ==
    ASSUME NEW S, NEW s \in Seq(S), s # << >> PROVE Head(s) \in S /\ Tail(s) \in Seq(S)
OBVIOUS

\* The peer only counts what it sends.
LEMMA PeerCounts ==
    ASSUME NEW p \in PeerStates
    PROVE  /\ [p EXCEPT !.calls = @ + 1] \in PeerStates
           /\ [p EXCEPT !.calls = @ + 1].seen = p.seen
           /\ [p EXCEPT !.answers = @ + 1] \in PeerStates
           /\ [p EXCEPT !.answers = @ + 1].seen = p.seen
           /\ [p EXCEPT !.noise = @ + 1] \in PeerStates
           /\ [p EXCEPT !.noise = @ + 1].seen = p.seen
BY DEF PeerStates

\* A new connection has sent and received nothing.
LEMMA InitFlow == Init => FlowInv
BY BoundsAssumption
   DEF Init, FlowInv, Idling, At, NoFrame, Frame, CallIDs, NoCall, Matching, PeerStates

\* Every step of the connection and of its peer preserves FlowInv.
LEMMA StepFlow == TableInv /\ FlowInv /\ [Next]_vars => FlowInv'
<1> SUFFICES ASSUME TableInv, FlowInv, [Next]_vars PROVE FlowInv'
  OBVIOUS
<1>1. ASSUME NEW k \in Callers, CallBegin(k) PROVE FlowInv'
  BY <1>1 DEF FlowInv, CallBegin, loopVars, netVars
<1>2. ASSUME NEW k \in Callers, CallEnqueue(k) PROVE FlowInv'
  <2> DEFINE f == Frame("call", callers[k].id, callers[k].call)
  <2>1. f \in Asking
    BY <1>2, BoundsAssumption
       DEF TableInv, InCall, CallEnqueue, Asking, OutFrames, Frame, CallIDs
  <2>2. send' = Append(send, f) /\ send \in Seq(Asking)
    BY <1>2 DEF CallEnqueue, FlowInv
  <2> HIDE DEF f
  <2>3. send' \in Seq(Asking)
    BY <2>1, <2>2, AppendTyped
  <2>4. QED
    BY <1>2, <2>3 DEF FlowInv, CallEnqueue, loopVars, netVars
<1>3. ASSUME NEW k \in Callers, CallAnswered(k) PROVE FlowInv'
  <2> DEFINE c == callers[k].call
  <2>1. c \in CallIDs
    BY <1>3, BoundsAssumption DEF CallAnswered, TableInv, InCall, CallIDs
  <2>2. box[c] = c
    BY <1>3, <2>1 DEF CallAnswered, FlowInv, Matching
  <2>3. got' = [got EXCEPT ![c] = c] /\ Matching(got)
    BY <1>3, <2>2 DEF CallAnswered, FlowInv
  <2>4. Matching(got')
    BY <2>1, <2>3, StoreMatching
  <2>5. QED
    BY <1>3, <2>4 DEF FlowInv, CallAnswered, loopVars, netVars
<1>4. ASSUME NEW k \in Callers, CallTimesOut(k) \/ CallClosed(k) \/ CallCancelled(k)
      PROVE  FlowInv'
  BY <1>4 DEF FlowInv, CallTimesOut, CallClosed, CallCancelled, loopVars, netVars
<1>5. CASE ReadCallOrBad
  <2>1. reader' = At("holding", Head(inbox)) /\ inbox' = Tail(inbox) /\ inbox # << >>
    BY <1>5 DEF ReadCallOrBad, Received
  <2>2. inbox' \in Seq(Answering) /\ Head(inbox) \in Answering
    BY <2>1, TailTyped DEF FlowInv
  <2>3. reader'.pc # "delivering" /\ reader'.frame.id \in Nat
    BY <2>1, <2>2 DEF At, Answering, InFrames
  <2>4. QED
    BY <1>5, <2>2, <2>3 DEF FlowInv, ReadCallOrBad, callVars
<1>6. CASE ReadAnswer
  <2> DEFINE f == Head(inbox)
  <2>1. /\ inbox # << >> /\ inbox' = Tail(inbox) /\ f.kind = "answer"
        /\ reader' = IF f.id \in CallIDs /\ pending[f.id] # NoCall
                       THEN At("delivering", Frame("answer", pending[f.id], f.body))
                       ELSE Idling
    BY <1>6 DEF ReadAnswer, Received
  <2>2. inbox' \in Seq(Answering) /\ f \in Answering
    BY <2>1, TailTyped DEF FlowInv
  <2> HIDE DEF f
  <2>3. CASE f.id \in CallIDs /\ pending[f.id] # NoCall
    <3>1. pending[f.id] = f.id
      BY <2>3 DEF TableInv
    <3>2. f.id # Unknown
      BY <2>3, BoundsAssumption DEF CallIDs, Unknown
    <3>3. f.body = f.id
      BY <2>1, <2>2, <3>2 DEF Answering
    <3>4. /\ reader'.pc = "delivering"
          /\ reader'.frame.id = f.id /\ reader'.frame.body = f.id
      BY <2>1, <2>3, <3>1, <3>3 DEF At, Frame
    <3>5. QED
      BY <1>6, <2>2, <2>3, <3>4 DEF FlowInv, ReadAnswer, callVars
  <2>4. CASE ~(f.id \in CallIDs /\ pending[f.id] # NoCall)
    <3>1. reader'.pc = "idle"
      BY <2>1, <2>4 DEF Idling, At
    <3>2. QED
      BY <1>6, <2>2, <3>1 DEF FlowInv, ReadAnswer, callVars
  <2>5. QED
    BY <2>3, <2>4
<1>7. CASE Deliver
  <2> DEFINE c == reader.frame.id
  <2>1. c \in CallIDs /\ reader.frame.body = c /\ Matching(box) /\ reader'.pc = "idle"
    BY <1>7 DEF FlowInv, Deliver, Idling, At
  <2>2. box' = box \/ box' = [box EXCEPT ![c] = c]
    BY <1>7, <2>1 DEF Deliver
  <2>3. Matching(box')
    BY <2>1, <2>2, StoreMatching
  <2>4. QED
    BY <1>7, <2>1, <2>3 DEF FlowInv, Deliver, callVars, netVars
<1>8. CASE QueueCall
  <2>1. reader'.pc = "idle" /\ calls' = Append(calls, reader.frame.id)
    BY <1>8 DEF QueueCall, Idling, At
  <2>2. calls \in Seq(Nat) /\ reader.frame.id \in Nat
    BY <1>8 DEF FlowInv, QueueCall
  <2>3. calls' \in Seq(Nat)
    BY <2>1, <2>2, AppendTyped
  <2>4. QED
    BY <1>8, <2>1, <2>3 DEF FlowInv, QueueCall, callVars, netVars
<1>9. CASE QueueCallClosed \/ ReadFails
  <2>1. reader'.pc = "gone"
    BY <1>9 DEF QueueCallClosed, ReadFails, Gone, At
  <2>2. QED
    BY <1>9, <2>1 DEF FlowInv, QueueCallClosed, ReadFails, callVars, netVars
<1>10. CASE AnswerBad
  <2> DEFINE f == Frame("error", NoCall, NoCall)
  <2>1. f \in Asking
    BY DEF Frame, Asking, OutFrames, NoCall
  <2>2. (send' = send \/ send' = Append(send, f)) /\ send \in Seq(Asking)
    BY <1>10 DEF AnswerBad, FlowInv
  <2> HIDE DEF f
  <2>3. send' \in Seq(Asking)
    BY <2>1, <2>2, AppendTyped
  <2>4. QED
    BY <1>10, <2>3 DEF FlowInv, AnswerBad, Idling, At, callVars, netVars
<1>11. CASE HandleNext
  <2>1. calls # << >> /\ calls' = Tail(calls) /\ handler'.frame.id = Head(calls)
    BY <1>11 DEF HandleNext, At, Frame
  <2>2. calls' \in Seq(Nat) /\ Head(calls) \in Nat
    BY <2>1, TailTyped DEF FlowInv
  <2>3. QED
    BY <1>11, <2>1, <2>2 DEF FlowInv, HandleNext, callVars, netVars
<1>12. CASE HandlerStops
  BY <1>12 DEF FlowInv, HandlerStops, Gone, At, callVars, netVars
<1>13. CASE Reply
  <2> DEFINE f == Frame("reply", handler.frame.id, NoCall)
  <2>1. handler.frame.id \in Nat
    BY <1>13 DEF FlowInv, Reply
  <2>2. f \in Asking
    BY <2>1 DEF Frame, Asking, OutFrames, NoCall
  <2>3. (send' = send \/ send' = Append(send, f)) /\ send \in Seq(Asking)
    BY <1>13 DEF Reply, FlowInv
  <2> HIDE DEF f
  <2>4. send' \in Seq(Asking)
    BY <2>2, <2>3, AppendTyped
  <2>5. QED
    BY <1>13, <2>4 DEF FlowInv, Reply, Idling, At, callVars, netVars
<1>14. CASE WriteNext
  <2>1. writer' = At("writing", Head(send)) /\ send' = Tail(send) /\ send # << >>
    BY <1>14 DEF WriteNext
  <2>2. send' \in Seq(Asking) /\ Head(send) \in Asking
    BY <2>1, TailTyped DEF FlowInv
  <2>3. writer'.frame \in Asking
    BY <2>1, <2>2 DEF At
  <2>4. QED
    BY <1>14, <2>2, <2>3 DEF FlowInv, WriteNext, callVars, netVars
<1>15. CASE Written
  <2>1. wire' = Append(wire, writer.frame) /\ wire \in Seq(Asking) /\ writer.frame \in Asking
    BY <1>15 DEF Written, FlowInv
  <2>2. wire' \in Seq(Asking)
    BY <2>1, AppendTyped
  <2>3. QED
    BY <1>15, <2>2 DEF FlowInv, Written, Idling, At, callVars
<1>16. CASE WriteFails \/ WriterStops
  <2>1. writer'.pc = "gone"
    BY <1>16 DEF WriteFails, WriterStops, Gone, At
  <2>2. QED
    BY <1>16, <2>1 DEF FlowInv, WriteFails, WriterStops, callVars, netVars
<1>17. CASE Tick \/ Close
  BY <1>17 DEF FlowInv, Tick, Close, callVars, loopVars, netVars
<1>18. CASE PeerReads
  <2>1. wire # << >> /\ wire' = Tail(wire)
    BY <1>18 DEF PeerReads
  <2>2. wire' \in Seq(Asking) /\ Head(wire) \in Asking
    BY <2>1, TailTyped DEF FlowInv
  <2>3. CASE Head(wire).kind = "call"
    <3>1. peer' = [peer EXCEPT !.seen = @ \cup {Head(wire)}] /\ peer \in PeerStates
      BY <1>18, <2>3 DEF PeerReads, FlowInv
    <3>2. peer' \in PeerStates /\ peer'.seen = peer.seen \cup {Head(wire)}
      BY <2>2, <3>1 DEF PeerStates, Asking
    <3>3. QED
      BY <1>18, <2>2, <2>3, <3>2 DEF FlowInv, PeerReads, callVars, loopVars
  <2>4. CASE Head(wire).kind # "call"
    BY <1>18, <2>2, <2>4 DEF FlowInv, PeerReads, callVars, loopVars
  <2>5. QED
    BY <2>3, <2>4
<1>19. ASSUME NEW f \in Answering, PeerSends(f), peer' \in PeerStates, peer'.seen = peer.seen
       PROVE  FlowInv'
  <2>1. inbox' = Append(inbox, f) /\ inbox \in Seq(Answering)
    BY <1>19 DEF PeerSends, FlowInv
  <2>2. inbox' \in Seq(Answering)
    BY <2>1, AppendTyped
  <2>3. QED
    BY <1>19, <2>2 DEF FlowInv, PeerSends, callVars, loopVars
<1>20. peer \in PeerStates
  BY DEF FlowInv
<1>21. CASE PeerAnswers
  <2>1. PICK f \in peer.seen : PeerSends(Frame("answer", f.id, f.body))
    BY <1>21 DEF PeerAnswers
  <2>2. f \in Asking /\ f.kind = "call"
    BY <2>1 DEF FlowInv
  <2>3. Frame("answer", f.id, f.body) \in Answering
    BY <2>2 DEF Frame, Asking, OutFrames, Answering, InFrames
  <2>4. peer' \in PeerStates /\ peer'.seen = peer.seen
    BY <1>20, <1>21, PeerCounts DEF PeerAnswers
  <2>5. QED
    BY <1>19, <2>1, <2>3, <2>4
<1>22. CASE PeerCalls
  <2>1. Frame("call", peer.calls + 1, NoCall) \in Answering
    BY <1>20 DEF PeerStates, Frame, Answering, InFrames, NoCall
  <2>2. peer' \in PeerStates /\ peer'.seen = peer.seen
    BY <1>20, <1>22, PeerCounts DEF PeerCalls
  <2>3. QED
    BY <1>19, <1>22, <2>1, <2>2 DEF PeerCalls
<1>23. CASE PeerNoise
  <2>1. /\ Frame("bad", NoCall, NoCall) \in Answering
        /\ Frame("answer", Unknown, NoCall) \in Answering
    BY BoundsAssumption DEF Frame, Answering, InFrames, NoCall, Unknown
  <2>2. peer' \in PeerStates /\ peer'.seen = peer.seen
    BY <1>20, <1>23, PeerCounts DEF PeerNoise
  <2>3. QED
    BY <1>19, <1>23, <2>1, <2>2 DEF PeerNoise
<1>24. CASE PeerDies
  <2>1. peer' \in PeerStates /\ peer'.seen = peer.seen
    BY <1>20, <1>24 DEF PeerDies, PeerStates
  <2>2. QED
    BY <1>24, <2>1 DEF FlowInv, PeerDies, callVars, loopVars
<1>25. CASE UNCHANGED vars
  BY <1>25 DEF FlowInv, vars, callVars, loopVars, netVars
<1>26. QED
  BY <1>1, <1>2, <1>3, <1>4, <1>5, <1>6, <1>7, <1>8, <1>9, <1>10, <1>11, <1>12, <1>13,
     <1>14, <1>15, <1>16, <1>17, <1>18, <1>21, <1>22, <1>23, <1>24, <1>25
     DEF Next, Caller, ReadLoop, HandleLoop, WriteLoop, Environment

\* FlowInv is an invariant of the connection.
THEOREM FlowInvHolds == Spec => []FlowInv
BY InitFlow, StepFlow, TableInvHolds, PTL DEF Spec

\* A Call that returns an answer returns the answer to that very call: an entry
\* of pending leads to the channel of the call that chose its id, ids are not
\* reused, and nothing on the way changes the id of a frame.
THEOREM AnswersMatchHolds == Spec => []AnswersMatch
<1>1. FlowInv => AnswersMatch
  BY DEF FlowInv, Matching, AnswersMatch
<1>2. QED
  BY <1>1, FlowInvHolds, PTL

-----------------------------------------------------------------------------
(***************************************************************************)
(* The order of the inbound CALLs.  The peer numbers them; a sequence of   *)
(* frames is numbered from one count to another if its CALLs are the next  *)
(* ones in order, whatever answers and noise lie between.                  *)
(***************************************************************************)
Numbering(s, first, last, count) ==
    /\ count \in [0 .. Len(s) -> Nat]
    /\ count[0] = first
    /\ count[Len(s)] = last
    /\ \A n \in 1 .. Len(s) :
          IF s[n].kind = "call"
            THEN count[n] = count[n - 1] + 1 /\ s[n].id = count[n]
            ELSE count[n] = count[n - 1]

Numbered(s, first, last) == \E count : Numbering(s, first, last, count)

\* CALLs the reader has passed on, and whether it holds one.
Passed == Len(handled) + Len(calls)
HoldsCall == reader.pc = "holding" /\ reader.frame.kind = "call"

\* The CALLs handled, in the channel, in the reader and in the inbox are those
\* the peer has sent, in order; a reader that is gone takes no more.
OrderInv ==
    /\ handled \in Seq(Nat)
    /\ HandledInOrder
    /\ \A n \in 1 .. Len(calls) : calls[n] = Len(handled) + n
    /\ HoldsCall => reader.frame.id = Passed + 1
    /\ reader.pc # "gone" =>
          Numbered(inbox, IF HoldsCall THEN Passed + 1 ELSE Passed, peer.calls)

\* The elements of a sequence that is received from.
LEMMA TailElements ==
    ASSUME NEW S, NEW s \in Seq(S), s # << >>
    PROVE  /\ Len(s) \in Nat /\ Len(s) >= 1
           /\ Head(s) = s[1]
           /\ Len(Tail(s)) = Len(s) - 1
           /\ \A n \in 1 .. Len(s) - 1 : Tail(s)[n] = s[n + 1]
OBVIOUS

\* The elements of a sequence that is sent to.
LEMMA AppendElements ==
    ASSUME NEW S, NEW s \in Seq(S), NEW e \in S
    PROVE  /\ Len(s) \in Nat
           /\ Len(Append(s, e)) = Len(s) + 1
           /\ Append(s, e)[Len(s) + 1] = e
           /\ \A n \in 1 .. Len(s) : Append(s, e)[n] = s[n]
OBVIOUS

\* Reading the first of numbered frames: a CALL is the next one.
LEMMA NumberedTail ==
    ASSUME NEW s \in Seq(Answering), s # << >>, NEW first \in Nat, NEW last \in Nat,
           Numbered(s, first, last)
    PROVE  IF Head(s).kind = "call"
             THEN Head(s).id = first + 1 /\ Numbered(Tail(s), first + 1, last)
             ELSE Numbered(Tail(s), first, last)
<1>1. PICK count : Numbering(s, first, last, count)
  BY DEF Numbered
<1>2. /\ Len(s) \in Nat /\ Len(s) >= 1 /\ Head(s) = s[1]
      /\ Len(Tail(s)) = Len(s) - 1
      /\ \A n \in 1 .. Len(s) - 1 : Tail(s)[n] = s[n + 1]
  BY TailElements
<1> DEFINE t == Tail(s)
           next == [n \in 0 .. Len(t) |-> count[n + 1]]
<1>3. /\ next \in [0 .. Len(t) -> Nat] /\ next[0] = count[1] /\ next[Len(t)] = last
      /\ \A n \in 1 .. Len(t) : next[n] = count[n + 1] /\ next[n - 1] = count[n] /\ t[n] = s[n + 1]
  BY <1>1, <1>2 DEF Numbering
<1>4. \A n \in 1 .. Len(t) :
        IF t[n].kind = "call"
          THEN next[n] = next[n - 1] + 1 /\ t[n].id = next[n]
          ELSE next[n] = next[n - 1]
  <2> SUFFICES ASSUME NEW n \in 1 .. Len(t)
               PROVE  IF t[n].kind = "call"
                        THEN next[n] = next[n - 1] + 1 /\ t[n].id = next[n]
                        ELSE next[n] = next[n - 1]
    OBVIOUS
  <2>1. n + 1 \in 1 .. Len(s) /\ (n + 1) - 1 = n
    BY <1>2
  <2>2. IF s[n + 1].kind = "call"
          THEN count[n + 1] = count[n] + 1 /\ s[n + 1].id = count[n + 1]
          ELSE count[n + 1] = count[n]
    BY <1>1, <2>1 DEF Numbering
  <2> HIDE DEF t, next
  <2>3. QED
    BY <1>3, <2>2
<1>5. /\ s[1].kind = "call" => count[1] = first + 1 /\ s[1].id = count[1]
      /\ s[1].kind # "call" => count[1] = first
  BY <1>1, <1>2 DEF Numbering
<1> HIDE DEF next
<1>6. Numbering(t, count[1], last, next)
  BY <1>3, <1>4 DEF Numbering
<1>7. Numbered(t, count[1], last)
  BY <1>6 DEF Numbered
<1>8. QED
  BY <1>2, <1>5, <1>7

\* Sending another frame: a CALL has to be the next one.
LEMMA NumberedAppend ==
    ASSUME NEW s \in Seq(Answering), NEW f \in Answering, NEW first \in Nat,
           NEW last \in Nat, NEW to \in Nat, Numbered(s, first, last),
           IF f.kind = "call" THEN to = last + 1 /\ f.id = to ELSE to = last
    PROVE  Numbered(Append(s, f), first, to)
<1>1. PICK count : Numbering(s, first, last, count)
  BY DEF Numbered
<1> DEFINE t == Append(s, f)
           next == [n \in 0 .. Len(t) |-> IF n = Len(t) THEN to ELSE count[n]]
<1>2. /\ Len(s) \in Nat /\ Len(t) = Len(s) + 1 /\ t[Len(s) + 1] = f
      /\ \A n \in 1 .. Len(s) : t[n] = s[n]
  BY AppendElements
<1> HIDE DEF t
<1>3. /\ next \in [0 .. Len(t) -> Nat] /\ next[0] = first /\ next[Len(t)] = to
      /\ next[Len(s)] = last
      /\ \A n \in 0 .. Len(s) : next[n] = count[n]
  BY <1>1, <1>2 DEF Numbering
<1> HIDE DEF next
<1>4. ASSUME NEW n \in 1 .. Len(t)
      PROVE  IF t[n].kind = "call"
               THEN next[n] = next[n - 1] + 1 /\ t[n].id = next[n]
               ELSE next[n] = next[n - 1]
  <2>1. CASE n = Len(s) + 1
    <3>1. n - 1 = Len(s) /\ t[n] = f /\ next[n] = to /\ next[n - 1] = last
      BY <1>2, <1>3, <2>1
    <3>2. QED
      BY <3>1
  <2>2. CASE n # Len(s) + 1
    <3>1. n \in 1 .. Len(s) /\ n \in 0 .. Len(s) /\ n - 1 \in 0 .. Len(s)
      BY <1>2, <2>2
    <3>2. t[n] = s[n] /\ next[n] = count[n] /\ next[n - 1] = count[n - 1]
      BY <1>2, <1>3, <3>1
    <3>3. IF s[n].kind = "call"
            THEN count[n] = count[n - 1] + 1 /\ s[n].id = count[n]
            ELSE count[n] = count[n - 1]
      BY <1>1, <3>1 DEF Numbering
    <3>4. QED
      BY <3>2, <3>3
  <2>3. QED
    BY <2>1, <2>2
<1>5. Numbering(t, first, to, next)
  BY <1>3, <1>4 DEF Numbering
<1>6. QED
  BY <1>5 DEF Numbered, t

\* A new connection has no CALLs.
LEMMA InitOrder == Init => OrderInv
<1> SUFFICES ASSUME Init PROVE OrderInv
  OBVIOUS
<1>1. handled = << >> /\ calls = << >> /\ inbox = << >> /\ reader.pc = "idle" /\ peer.calls = 0
  BY DEF Init, Idling, At
<1>2. Numbering(<< >>, 0, 0, [n \in 0 .. 0 |-> 0])
  BY DEF Numbering
<1>3. Numbered(inbox, 0, 0) /\ Passed = 0
  BY <1>1, <1>2 DEF Numbered, Passed
<1>4. QED
  BY <1>1, <1>3 DEF OrderInv, HandledInOrder, HoldsCall

\* What OrderInv looks at: a step that leaves it alone.
LEMMA OrderKept ==
    ASSUME OrderInv, UNCHANGED <<handled, calls, inbox>>, peer'.calls = peer.calls,
           reader' = reader
    PROVE  OrderInv'
BY DEF OrderInv, HandledInOrder, Passed, HoldsCall

\* The reader lets go of what is no CALL, or goes.
LEMMA OrderReaderFree ==
    ASSUME OrderInv, UNCHANGED <<handled, calls, inbox, peer>>, ~HoldsCall \/ reader'.pc = "gone",
           reader'.pc # "holding", reader.pc # "gone"
    PROVE  OrderInv'
BY DEF OrderInv, HandledInOrder, Passed, HoldsCall

\* Every step of the connection and of its peer keeps the CALLs in order.
LEMMA StepOrder == FlowInv /\ OrderInv /\ [Next]_vars => OrderInv'
<1> SUFFICES ASSUME FlowInv, OrderInv, [Next]_vars PROVE OrderInv'
  OBVIOUS
<1> USE DEF callVars, loopVars, netVars
<1>0. /\ calls \in Seq(Nat) /\ inbox \in Seq(Answering) /\ handled \in Seq(Nat)
      /\ peer \in PeerStates /\ peer.calls \in Nat
      /\ Len(handled) \in Nat /\ Len(calls) \in Nat /\ Passed \in Nat
  BY DEF FlowInv, OrderInv, PeerStates, Passed
<1>1. ASSUME NEW k \in Callers, CallBegin(k) \/ Caller(k) \/ CallCancelled(k) PROVE OrderInv'
  BY <1>1, OrderKept DEF CallBegin, Caller, CallEnqueue, CallAnswered, CallTimesOut, CallClosed,
                         CallCancelled
<1>2. CASE HandlerStops \/ Reply \/ WriteLoop \/ Tick \/ Close
  BY <1>2, OrderKept
     DEF HandlerStops, Reply, WriteLoop, WriteNext, Written, WriteFails, WriterStops,
                         Tick, Close
<1>3. CASE ReadCallOrBad
  <2>1. /\ reader = Idling /\ inbox # << >> /\ inbox' = Tail(inbox)
        /\ reader' = At("holding", Head(inbox)) /\ Head(inbox).kind \in {"call", "bad"}
        /\ UNCHANGED <<handled, calls, peer>>
    BY <1>3 DEF ReadCallOrBad, Received
  <2>2. reader.pc = "idle" /\ reader'.pc = "holding" /\ reader'.frame = Head(inbox)
    BY <2>1 DEF Idling, At
  <2>3. Numbered(inbox, Passed, peer.calls)
    BY <2>2 DEF OrderInv, HoldsCall
  <2>4. IF Head(inbox).kind = "call"
          THEN Head(inbox).id = Passed + 1 /\ Numbered(inbox', Passed + 1, peer.calls)
          ELSE Numbered(inbox', Passed, peer.calls)
    BY <1>0, <2>1, <2>3, NumberedTail
  <2>5. QED
    BY <2>1, <2>2, <2>4 DEF OrderInv, HandledInOrder, HoldsCall, Passed
<1>4. CASE ReadAnswer
  <2>1. /\ reader = Idling /\ inbox # << >> /\ inbox' = Tail(inbox) /\ Head(inbox).kind = "answer"
        /\ UNCHANGED <<handled, calls, peer>>
    BY <1>4 DEF ReadAnswer, Received
  <2>2. reader.pc = "idle" /\ reader'.pc \in {"idle", "delivering"}
    BY <1>4, <2>1 DEF ReadAnswer, Idling, At
  <2>3. Numbered(inbox, Passed, peer.calls)
    BY <2>2 DEF OrderInv, HoldsCall
  <2>4. Numbered(inbox', Passed, peer.calls)
    BY <1>0, <2>1, <2>3, NumberedTail
  <2>5. QED
    BY <2>1, <2>2, <2>4 DEF OrderInv, HandledInOrder, HoldsCall, Passed
<1>5. CASE Deliver
  BY <1>5, OrderReaderFree DEF Deliver, HoldsCall, Idling, At
<1>6. CASE QueueCall
  <2>1. /\ HoldsCall /\ calls' = Append(calls, reader.frame.id) /\ reader'.pc = "idle"
        /\ UNCHANGED <<handled, inbox, peer>>
    BY <1>6 DEF QueueCall, HoldsCall, Idling, At
  <2>2. reader.frame.id = Passed + 1 /\ Numbered(inbox, Passed + 1, peer.calls)
    BY <2>1 DEF OrderInv, HoldsCall
  <2>3. /\ Len(calls') = Len(calls) + 1 /\ calls'[Len(calls) + 1] = Passed + 1
        /\ \A n \in 1 .. Len(calls) : calls'[n] = calls[n]
    BY <1>0, <2>1, <2>2, AppendElements
  <2>4. Passed' = Passed + 1
    BY <1>0, <2>1, <2>3 DEF Passed
  <2>5. ASSUME NEW n \in 1 .. Len(calls') PROVE calls'[n] = Len(handled') + n
    <3>1. CASE n = Len(calls) + 1
      BY <1>0, <2>1, <2>3, <3>1 DEF Passed
    <3>2. CASE n # Len(calls) + 1
      <4>1. n \in 1 .. Len(calls)
        BY <1>0, <2>3, <3>2
      <4>2. QED
        BY <2>1, <2>3, <4>1 DEF OrderInv
    <3>3. QED
      BY <3>1, <3>2
  <2>6. ~HoldsCall'
    BY <2>1 DEF HoldsCall
  <2>7. HandledInOrder' /\ handled' \in Seq(Nat)
    BY <2>1 DEF OrderInv, HandledInOrder
  <2>8. QED
    BY <2>1, <2>2, <2>4, <2>5, <2>6, <2>7 DEF OrderInv
<1>7. CASE QueueCallClosed
  BY <1>7, OrderReaderFree DEF QueueCallClosed, Gone, At
<1>8. CASE AnswerBad
  BY <1>8, OrderReaderFree DEF AnswerBad, HoldsCall, Idling, At
<1>9. CASE ReadFails
  BY <1>9, OrderReaderFree DEF ReadFails, Gone, Idling, At
<1>10. CASE HandleNext
  <2>1. /\ calls # << >> /\ handled' = Append(handled, Head(calls)) /\ calls' = Tail(calls)
        /\ UNCHANGED <<reader, inbox, peer>>
    BY <1>10 DEF HandleNext
  <2>2. /\ Len(calls) >= 1 /\ Head(calls) = calls[1] /\ Len(calls') = Len(calls) - 1
        /\ \A n \in 1 .. Len(calls) - 1 : calls'[n] = calls[n + 1]
    BY <1>0, <2>1, TailElements
  <2>3. Head(calls) = Len(handled) + 1 /\ Head(calls) \in Nat
    BY <1>0, <2>2 DEF OrderInv
  <2>4. /\ Len(handled') = Len(handled) + 1 /\ handled'[Len(handled) + 1] = Len(handled) + 1
        /\ \A n \in 1 .. Len(handled) : handled'[n] = handled[n]
        /\ handled' \in Seq(Nat)
    BY <1>0, <2>1, <2>3, AppendElements, AppendTyped
  <2>5. HandledInOrder'
    <3>1. \A n \in 1 .. Len(handled) : handled[n] = n
      BY <1>0 DEF OrderInv, HandledInOrder
    <3>2. DOMAIN handled' = 1 .. Len(handled) + 1
      BY <2>4
    <3>3. ASSUME NEW n \in 1 .. Len(handled) + 1 PROVE handled'[n] = n
      <4>1. n = Len(handled) + 1 \/ n \in 1 .. Len(handled)
        BY <1>0
      <4>2. QED
        BY <2>4, <3>1, <4>1
    <3>4. QED
      BY <3>2, <3>3 DEF HandledInOrder
  <2>6. Passed' = Passed
    BY <1>0, <2>2, <2>4 DEF Passed
  <2>7. ASSUME NEW n \in 1 .. Len(calls') PROVE calls'[n] = Len(handled') + n
    <3>1. n \in 1 .. Len(calls) - 1 /\ n + 1 \in 1 .. Len(calls)
      BY <1>0, <2>2
    <3>2. calls'[n] = Len(handled) + (n + 1)
      BY <2>2, <3>1 DEF OrderInv
    <3>3. QED
      BY <1>0, <2>4, <3>2
  <2>8. QED
    BY <2>1, <2>4, <2>5, <2>6, <2>7 DEF OrderInv, HoldsCall
<1>11. ASSUME NEW f \in Answering, PeerSends(f), peer'.calls \in Nat,
              IF f.kind = "call" THEN peer'.calls = peer.calls + 1 /\ f.id = peer'.calls
              ELSE peer'.calls = peer.calls
       PROVE  OrderInv'
  <2>1. inbox' = Append(inbox, f) /\ UNCHANGED <<handled, calls, reader>>
    BY <1>11 DEF PeerSends
  <2> DEFINE first == IF HoldsCall THEN Passed + 1 ELSE Passed
  <2>2. first \in Nat
    BY <1>0
  <2>3. reader.pc # "gone" => Numbered(inbox, first, peer.calls)
    BY DEF OrderInv
  <2> HIDE DEF first
  <2>4. reader.pc # "gone" => Numbered(inbox', first, peer'.calls)
    BY <1>0, <1>11, <2>1, <2>2, <2>3, NumberedAppend
  <2>5. QED
    BY <2>1, <2>4 DEF OrderInv, HandledInOrder, HoldsCall, Passed, first
<1>12. CASE PeerReads
  <2>1. peer'.calls = peer.calls
    BY <1>0, <1>12 DEF PeerReads, PeerStates
  <2>2. QED
    BY <1>12, <2>1, OrderKept DEF PeerReads
<1>13. CASE PeerAnswers
  <2>1. PICK f \in peer.seen : PeerSends(Frame("answer", f.id, f.body))
    BY <1>13 DEF PeerAnswers
  <2>2. f \in Asking /\ f.kind = "call"
    BY <2>1 DEF FlowInv
  <2>3. Frame("answer", f.id, f.body) \in Answering /\ Frame("answer", f.id, f.body).kind # "call"
    BY <2>2 DEF Frame, Asking, OutFrames, Answering, InFrames
  <2>4. peer'.calls = peer.calls
    BY <1>0, <1>13 DEF PeerAnswers, PeerStates
  <2>5. QED
    BY <1>0, <1>11, <2>1, <2>3, <2>4
<1>14. CASE PeerCalls
  <2>1. /\ Frame("call", peer.calls + 1, NoCall) \in Answering
        /\ Frame("call", peer.calls + 1, NoCall).kind = "call"
        /\ Frame("call", peer.calls + 1, NoCall).id = peer.calls + 1
    BY <1>0 DEF Frame, Answering, InFrames, NoCall
  <2>2. peer'.calls = peer.calls + 1
    BY <1>0, <1>14 DEF PeerCalls, PeerStates
  <2> DEFINE f == Frame("call", peer.calls + 1, NoCall)
  <2>3. PeerSends(f) /\ f \in Answering /\ f.kind = "call" /\ f.id = peer'.calls
    BY <1>14, <2>1, <2>2 DEF PeerCalls
  <2>4. peer'.calls \in Nat
    BY <1>0, <2>2
  <2> HIDE DEF f
  <2>5. QED
    BY <1>11, <2>2, <2>3, <2>4
<1>15. CASE PeerNoise
  <2>1. /\ Frame("bad", NoCall, NoCall) \in Answering
        /\ Frame("answer", Unknown, NoCall) \in Answering
        /\ Frame("bad", NoCall, NoCall).kind # "call"
        /\ Frame("answer", Unknown, NoCall).kind # "call"
    BY BoundsAssumption DEF Frame, Answering, InFrames, NoCall, Unknown
  <2>2. peer'.calls = peer.calls
    BY <1>0, <1>15 DEF PeerNoise, PeerStates
  <2>3. QED
    BY <1>0, <1>11, <1>15, <2>1, <2>2 DEF PeerNoise
<1>16. CASE PeerDies
  <2>1. peer'.calls = peer.calls
    BY <1>0, <1>16 DEF PeerDies, PeerStates
  <2>2. QED
    BY <1>16, <2>1, OrderKept DEF PeerDies
<1>17. CASE UNCHANGED vars
  BY <1>17, OrderKept DEF vars
<1>18. QED
  BY <1>1, <1>2, <1>3, <1>4, <1>5, <1>6, <1>7, <1>8, <1>9, <1>10, <1>12, <1>13, <1>14, <1>15,
     <1>16, <1>17 DEF Next, ReadLoop, HandleLoop, Environment

\* Inbound CALLs are dispatched in the order the peer sent them and none is
\* skipped, through the reader's blocking on a full channel, malformed frames
\* and answers in between, and a Close at any time.
THEOREM HandledInOrderHolds == Spec => []HandledInOrder
<1>1. OrderInv => HandledInOrder
  BY DEF OrderInv
<1>2. QED
  BY <1>1, InitOrder, StepOrder, FlowInvHolds, PTL DEF Spec

-----------------------------------------------------------------------------
(***************************************************************************)
(* Types: what TableInv, FlowInv and OrderInv leave of them.               *)
(***************************************************************************)
\* No channel holds more than its capacity, and the network no more than it
\* takes.
WithinCapacity ==
    /\ Len(send) <= SendBuffer /\ Len(calls) <= CallBuffer
    /\ Len(wire) <= WireBuffer /\ Len(inbox) <= WireBuffer

\* A loop that is about a frame holds one of its direction.
LoopsOK ==
    /\ reader.pc \in {"idle", "holding", "delivering", "gone"}
    /\ reader.pc \in {"holding", "delivering"} => reader.frame \in InFrames
    /\ writer.pc \in {"idle", "writing", "gone"}
    /\ writer.pc = "writing" => writer.frame \in OutFrames
    /\ handler.pc \in {"idle", "handling", "gone"}

ClockOK == done \in BOOLEAN /\ idle \in 0 .. IdleLimit

PeerOK ==
    peer \in [seen : SUBSET OutFrames, calls : 0 .. MaxInbound,
              answers : 0 .. MaxAnswers, noise : 0 .. MaxNoise, alive : BOOLEAN]

\* A channel takes a value only below its capacity.
LEMMA StepCapacity == FlowInv /\ WithinCapacity /\ [Next]_vars => WithinCapacity'
<1> SUFFICES ASSUME FlowInv, WithinCapacity, [Next]_vars PROVE WithinCapacity'
  OBVIOUS
<1>0. /\ send \in Seq(Asking) /\ calls \in Seq(Nat)
      /\ wire \in Seq(Asking) /\ inbox \in Seq(Answering)
  BY DEF FlowInv
<1>1. ASSUME NEW S, NEW s \in Seq(S), NEW t, NEW n \in Nat, Len(s) <= n,
             t = s \/ (s # << >> /\ t = Tail(s)) \/ (Len(s) < n /\ \E e : t = Append(s, e))
      PROVE  Len(t) <= n
  BY <1>1
<1>2. {SendBuffer, CallBuffer, WireBuffer} \subseteq Nat
  BY BoundsAssumption
<1>3. \/ send' = send \/ (send # << >> /\ send' = Tail(send))
      \/ (Len(send) < SendBuffer /\ \E e : send' = Append(send, e))
  BY DEF Next, Caller, ReadLoop, HandleLoop, WriteLoop, Environment, CallBegin, CallEnqueue,
         CallAnswered, CallTimesOut, CallClosed, CallCancelled, ReadCallOrBad, ReadAnswer,
         Deliver, QueueCall, QueueCallClosed, AnswerBad, ReadFails, HandleNext, Reply,
         HandlerStops, WriteNext, Written, WriteFails, WriterStops, Tick, Close, PeerReads,
         PeerAnswers, PeerCalls, PeerNoise, PeerSends, PeerDies, vars
<1>4. \/ calls' = calls \/ (calls # << >> /\ calls' = Tail(calls))
      \/ (Len(calls) < CallBuffer /\ \E e : calls' = Append(calls, e))
  BY DEF Next, Caller, ReadLoop, HandleLoop, WriteLoop, Environment, CallBegin, CallEnqueue,
         CallAnswered, CallTimesOut, CallClosed, CallCancelled, ReadCallOrBad, ReadAnswer,
         Deliver, QueueCall, QueueCallClosed, AnswerBad, ReadFails, HandleNext, Reply,
         HandlerStops, WriteNext, Written, WriteFails, WriterStops, Tick, Close, PeerReads,
         PeerAnswers, PeerCalls, PeerNoise, PeerSends, PeerDies, vars
<1>5. \/ wire' = wire \/ (wire # << >> /\ wire' = Tail(wire))
      \/ (Len(wire) < WireBuffer /\ \E e : wire' = Append(wire, e))
  BY DEF Next, Caller, ReadLoop, HandleLoop, WriteLoop, Environment, CallBegin, CallEnqueue,
         CallAnswered, CallTimesOut, CallClosed, CallCancelled, ReadCallOrBad, ReadAnswer,
         Deliver, QueueCall, QueueCallClosed, AnswerBad, ReadFails, HandleNext, Reply,
         HandlerStops, WriteNext, Written, WriteFails, WriterStops, Tick, Close, PeerReads,
         PeerAnswers, PeerCalls, PeerNoise, PeerSends, PeerDies, vars, netVars
<1>6. \/ inbox' = inbox \/ (inbox # << >> /\ inbox' = Tail(inbox))
      \/ (Len(inbox) < WireBuffer /\ \E e : inbox' = Append(inbox, e))
  BY DEF Next, Caller, ReadLoop, HandleLoop, WriteLoop, Environment, CallBegin, CallEnqueue,
         CallAnswered, CallTimesOut, CallClosed, CallCancelled, ReadCallOrBad, ReadAnswer,
         Received, Deliver, QueueCall, QueueCallClosed, AnswerBad, ReadFails, HandleNext, Reply,
         HandlerStops, WriteNext, Written, WriteFails, WriterStops, Tick, Close, PeerReads,
         PeerAnswers, PeerCalls, PeerNoise, PeerSends, PeerDies, vars, netVars
<1>7. /\ Len(send') <= SendBuffer /\ Len(calls') <= CallBuffer
      /\ Len(wire') <= WireBuffer /\ Len(inbox') <= WireBuffer
  <2>1. /\ Len(send) <= SendBuffer /\ Len(calls) <= CallBuffer
        /\ Len(wire) <= WireBuffer /\ Len(inbox) <= WireBuffer
    BY DEF WithinCapacity
  <2>2. Len(send') <= SendBuffer
    BY <1>0, <1>1, <1>2, <1>3, <2>1
  <2>3. Len(calls') <= CallBuffer
    BY <1>0, <1>1, <1>2, <1>4, <2>1
  <2>4. Len(wire') <= WireBuffer
    BY <1>0, <1>1, <1>2, <1>5, <2>1
  <2>5. Len(inbox') <= WireBuffer
    BY <1>0, <1>1, <1>2, <1>6, <2>1
  <2>6. QED
    BY <2>2, <2>3, <2>4, <2>5
<1>8. QED
  BY <1>7 DEF WithinCapacity

\* A loop takes its frame from a channel of its direction.
LEMMA StepLoops == TableInv /\ FlowInv /\ LoopsOK /\ [Next]_vars => LoopsOK'
<1> SUFFICES ASSUME TableInv, FlowInv, LoopsOK, [Next]_vars PROVE LoopsOK'
  OBVIOUS
<1> USE DEF LoopsOK
<1>1. CASE UNCHANGED <<reader, writer, handler>>
  BY <1>1
<1>2. CASE ReadCallOrBad
  <2>1. Head(inbox) \in InFrames
    BY <1>2, TailTyped DEF ReadCallOrBad, Received, FlowInv, Answering
  <2>2. QED
    BY <1>2, <2>1 DEF ReadCallOrBad, At
<1>3. CASE ReadAnswer
  <2> DEFINE f == Head(inbox)
  <2>1. f \in InFrames
    BY <1>3, TailTyped DEF ReadAnswer, Received, FlowInv, Answering
  <2>2. f.id \in CallIDs => Frame("answer", pending[f.id], f.body) \in InFrames
    BY <2>1, BoundsAssumption DEF TableInv, CallIDs, Frame, InFrames
  <2>3. \/ reader' = Idling
        \/ f.id \in CallIDs /\ reader' = At("delivering", Frame("answer", pending[f.id], f.body))
    BY <1>3 DEF ReadAnswer
  <2>4. UNCHANGED <<writer, handler>>
    BY <1>3 DEF ReadAnswer
  <2> HIDE DEF f
  <2>5. QED
    BY <2>2, <2>3, <2>4 DEF Idling, At
<1>4. CASE Deliver \/ QueueCall \/ QueueCallClosed \/ AnswerBad \/ ReadFails
  BY <1>4 DEF Deliver, QueueCall, QueueCallClosed, AnswerBad, ReadFails, Idling, Gone, At
<1>5. CASE HandleLoop
  BY <1>5 DEF HandleLoop, HandleNext, Reply, HandlerStops, Idling, Gone, At
<1>6. CASE WriteNext
  <2>1. Head(send) \in OutFrames
    BY <1>6, TailTyped DEF WriteNext, FlowInv, Asking
  <2>2. QED
    BY <1>6, <2>1 DEF WriteNext, At
<1>7. CASE Written \/ WriteFails \/ WriterStops
  BY <1>7 DEF Written, WriteFails, WriterStops, Idling, Gone, At
<1>8. CASE (\E k \in Callers : CallBegin(k) \/ Caller(k) \/ CallCancelled(k))
             \/ Tick \/ Environment \/ UNCHANGED vars
  BY <1>1, <1>8
     DEF Caller, CallBegin, CallEnqueue, CallAnswered, CallTimesOut, CallClosed, CallCancelled,
         Tick, Environment, Close, PeerReads, PeerAnswers, PeerCalls, PeerNoise, PeerSends,
         PeerDies, vars, loopVars
<1>9. QED
  BY <1>2, <1>3, <1>4, <1>5, <1>6, <1>7, <1>8 DEF Next, ReadLoop, WriteLoop

\* Close only sets done, and the watchdog fires at its limit.
LEMMA StepClock == ClockOK /\ [Next]_vars => ClockOK'
<1> SUFFICES ASSUME ClockOK, [Next]_vars PROVE ClockOK'
  OBVIOUS
<1>1. done' \in {done, TRUE} /\ (idle' \in {idle, 0} \/ (idle < IdleLimit /\ idle' = idle + 1))
  BY DEF Next, Caller, ReadLoop, HandleLoop, WriteLoop, Environment, CallBegin, CallEnqueue,
         CallAnswered, CallTimesOut, CallClosed, CallCancelled, ReadCallOrBad, ReadAnswer,
         Received, Deliver, QueueCall, QueueCallClosed, AnswerBad, ReadFails, HandleNext, Reply,
         HandlerStops, WriteNext, Written, WriteFails, WriterStops, Tick, Close, PeerReads,
         PeerAnswers, PeerCalls, PeerNoise, PeerSends, PeerDies, vars
<1>2. idle' \in 0 .. IdleLimit
  BY <1>1 DEF ClockOK, IdleLimit
<1>3. done' \in BOOLEAN
  <2>1. done' = done \/ done' = TRUE
    BY <1>1
  <2>2. QED
    BY <2>1, Zenon DEF ClockOK
<1>4. QED
  BY <1>2, <1>3 DEF ClockOK

\* The peer has seen what we wrote, and stays within the bounds.
LEMMA StepPeer == FlowInv /\ PeerOK /\ [Next]_vars => PeerOK'
<1> SUFFICES ASSUME FlowInv, PeerOK, [Next]_vars PROVE PeerOK'
  OBVIOUS
<1> USE DEF PeerOK
<1>1. CASE UNCHANGED peer
  BY <1>1
<1>2. CASE PeerReads
  <2>1. Head(wire) \in OutFrames
    BY <1>2, TailTyped DEF PeerReads, FlowInv, Asking
  <2>2. QED
    BY <1>2, <2>1 DEF PeerReads
<1>3. CASE PeerAnswers \/ PeerCalls \/ PeerNoise \/ PeerDies
  <2>1. \/ peer' = [peer EXCEPT !.answers = @ + 1] /\ peer.answers < MaxAnswers
        \/ peer' = [peer EXCEPT !.calls = @ + 1] /\ peer.calls < MaxInbound
        \/ peer' = [peer EXCEPT !.noise = @ + 1] /\ peer.noise < MaxNoise
        \/ peer' = [peer EXCEPT !.alive = FALSE]
    BY <1>3 DEF PeerAnswers, PeerCalls, PeerNoise, PeerDies
  <2>2. \A n, m \in Nat : n \in 0 .. m /\ n < m => n + 1 \in 0 .. m
    OBVIOUS
  <2>3. {MaxAnswers, MaxInbound, MaxNoise} \subseteq Nat
    BY BoundsAssumption
  <2>4. /\ peer.answers \in 0 .. MaxAnswers
        /\ peer.calls \in 0 .. MaxInbound /\ peer.noise \in 0 .. MaxNoise
    OBVIOUS
  <2>5. /\ peer.answers < MaxAnswers => peer.answers + 1 \in 0 .. MaxAnswers
        /\ peer.calls < MaxInbound => peer.calls + 1 \in 0 .. MaxInbound
        /\ peer.noise < MaxNoise => peer.noise + 1 \in 0 .. MaxNoise
    BY <2>2, <2>3, <2>4
  <2>6. CASE peer' = [peer EXCEPT !.answers = @ + 1] /\ peer.answers < MaxAnswers
    BY <2>5, <2>6
  <2>7. CASE peer' = [peer EXCEPT !.calls = @ + 1] /\ peer.calls < MaxInbound
    BY <2>5, <2>7
  <2>8. CASE peer' = [peer EXCEPT !.noise = @ + 1] /\ peer.noise < MaxNoise
    BY <2>5, <2>8
  <2>9. CASE peer' = [peer EXCEPT !.alive = FALSE]
    BY <2>9
  <2>10. QED
    BY <2>1, <2>6, <2>7, <2>8, <2>9
<1>4. CASE (\E k \in Callers : CallBegin(k) \/ Caller(k) \/ CallCancelled(k))
             \/ ReadLoop \/ HandleLoop \/ WriteLoop \/ Tick \/ Close \/ UNCHANGED vars
  BY <1>1, <1>4
     DEF Caller, CallBegin, CallEnqueue, CallAnswered, CallTimesOut, CallClosed, CallCancelled,
         ReadLoop, ReadCallOrBad, ReadAnswer, Deliver, QueueCall, QueueCallClosed, AnswerBad,
         ReadFails, HandleLoop, HandleNext, Reply, HandlerStops, WriteLoop, WriteNext, Written,
         WriteFails, WriterStops, Tick, Close, vars, netVars
<1>5. QED
  BY <1>2, <1>3, <1>4 DEF Next, Environment

\* Every variable of a connection keeps its type: in particular no channel is
\* ever over its capacity, and the goroutines hold frames of their direction.
THEOREM TypeCorrect == Spec => []TypeOK
<1> DEFINE RestOK == WithinCapacity /\ LoopsOK /\ ClockOK /\ PeerOK
<1>1. Init => RestOK
  <2> SUFFICES ASSUME Init PROVE RestOK
    OBVIOUS
  <2>1. WithinCapacity /\ LoopsOK
    BY BoundsAssumption DEF Init, WithinCapacity, LoopsOK, Idling, At
  <2>2. done = FALSE /\ idle \in 0 .. IdleLimit
    BY DEF Init, IdleLimit
  <2>3. ClockOK
    BY <2>2, Zenon DEF ClockOK
  <2>4. PeerOK
    BY BoundsAssumption DEF Init, PeerOK
  <2>5. QED
    BY <2>1, <2>3, <2>4
<1>2. TableInv /\ FlowInv /\ RestOK /\ [Next]_vars => RestOK'
  BY StepCapacity, StepLoops, StepClock, StepPeer
<1>3. TableInv /\ FlowInv /\ OrderInv /\ RestOK => TypeOK
  <2> SUFFICES ASSUME TableInv, FlowInv, OrderInv, RestOK PROVE TypeOK
    OBVIOUS
  <2>1. send \in Seq(OutFrames) /\ wire \in Seq(OutFrames) /\ inbox \in Seq(InFrames)
    BY DEF FlowInv, Asking, Answering
  <2>2. /\ callers \in [Callers -> [pc : {"outside", "sending", "waiting"},
                                    id : 0 .. MaxCalls, call : 0 .. MaxCalls]]
        /\ made \in 0 .. MaxCalls /\ nextID \in 0 .. MaxCalls
        /\ pending \in [CallIDs -> 0 .. MaxCalls]
    BY DEF TableInv
  <2>3. /\ box \in [CallIDs -> 0 .. MaxCalls] /\ got \in [CallIDs -> 0 .. MaxCalls]
        /\ calls \in Seq(Nat)
        /\ handler.pc = "handling" => handler.frame.id \in Nat
    BY DEF FlowInv, Matching
  <2>4. handled \in Seq(Nat)
    BY DEF OrderInv
  <2>5. QED
    BY <2>1, <2>2, <2>3, <2>4 DEF TypeOK, WithinCapacity, LoopsOK, ClockOK, PeerOK
<1>4. QED
  <2> HIDE DEF RestOK
  <2>1. Spec => []OrderInv
    BY InitOrder, StepOrder, FlowInvHolds, PTL DEF Spec
  <2>2. Spec => []RestOK
    BY <1>1, <1>2, TableInvHolds, FlowInvHolds, PTL DEF Spec
  <2>3. QED
    BY <1>3, <2>1, <2>2, TableInvHolds, FlowInvHolds, PTL
=============================================================================
