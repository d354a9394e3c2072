--------------------------- MODULE EventBusProofs ---------------------------
(***************************************************************************)
(* Proofs about the event bus: for any number of publishers, subscribers   *)
(* and any buffer size, no publisher ever sends on a closed channel, and a *)
(* subscriber that has no drops has missed no event.                       *)
(***************************************************************************)
EXTENDS EventBus, TLAPS

\* What the mutex gives.  A loop that is under way runs over a part of the map,
\* and only while its publisher reads; what is in the map is subscribed and not
\* yet deleted.  NoSendOnClosed alone is not inductive: it does not say that
\* the map cannot shrink under a reader.
LockInv ==
    /\ subs \subseteq Subscribers
    /\ state \in [Subscribers -> States]
    /\ readers \subseteq Publishers
    /\ remaining \in [Publishers -> SUBSET Subscribers]
    /\ \A p \in Publishers : remaining[p] \subseteq subs
    /\ \A p \in Publishers : p \notin readers => remaining[p] = {}
    /\ \A s \in Subscribers : s \in subs <=> state[s] \in {"in", "locking"}

\* LockInv holds of a new bus.
LEMMA InitLockInv == Init => LockInv
BY DEF Init, LockInv, States

\* Every step of a publisher or a subscriber preserves LockInv.
LEMMA StepLockInv == LockInv /\ [Next]_vars => LockInv'
<1> SUFFICES ASSUME LockInv, [Next]_vars PROVE LockInv'
  OBVIOUS
<1> USE DEF LockInv, States
<1>1. ASSUME NEW s \in Subscribers, WantLock(s, "out", "joining") PROVE LockInv'
  BY <1>1 DEF WantLock
<1>2. ASSUME NEW s \in Subscribers, WantLock(s, "in", "locking") PROVE LockInv'
  BY <1>2 DEF WantLock
<1>3. ASSUME NEW s \in Subscribers, Subscribe(s) PROVE LockInv'
  BY <1>3 DEF Subscribe
<1>4. ASSUME NEW s \in Subscribers, Unsubscribe(s) PROVE LockInv'
  <2>1. \A p \in Publishers : remaining[p] = {}
    BY <1>4 DEF Unsubscribe
  <2>2. QED
    BY <1>4, <2>1 DEF Unsubscribe
<1>5. ASSUME NEW s \in Subscribers, CloseChannel(s) PROVE LockInv'
  BY <1>5 DEF CloseChannel
<1>6. ASSUME NEW s \in Subscribers, Receive(s) PROVE LockInv'
  BY <1>6 DEF Receive
<1>7. ASSUME NEW s \in Subscribers, Drained(s) PROVE LockInv'
  BY <1>7 DEF Drained
<1>8. ASSUME NEW p \in Publishers, PublishBegin(p) PROVE LockInv'
  BY <1>8 DEF PublishBegin
<1>9. ASSUME NEW p \in Publishers, PublishEnd(p) PROVE LockInv'
  BY <1>9 DEF PublishEnd
<1>10. ASSUME NEW p \in Publishers, NEW s \in remaining[p], Offer(p, s) PROVE LockInv'
  BY <1>10 DEF Offer
<1>11. CASE UNCHANGED vars
  BY <1>11 DEF vars
<1>12. QED
  BY <1>1, <1>2, <1>3, <1>4, <1>5, <1>6, <1>7, <1>8, <1>9, <1>10, <1>11
     DEF Next, Locking, Publish

\* LockInv is an invariant of the bus.
THEOREM LockInvHolds == Spec => []LockInv
<1>1. QED
  BY InitLockInv, StepLockInv, PTL DEF Spec

\* No publisher sends on a closed channel: publish offers an event only to
\* subscribers whose cancel has not yet got the mutex, and cancel closes the
\* channel only after it had it.
THEOREM NoSendOnClosedHolds == Spec => []NoSendOnClosed
<1>1. LockInv => NoSendOnClosed
  BY DEF LockInv, NoSendOnClosed
<1>2. QED
  BY <1>1, LockInvHolds, PTL

-----------------------------------------------------------------------------
\* TypeOK needs to know that an event has a number from 1: a publisher in its
\* loop has published.
BusInv ==
    /\ TypeOK
    /\ \A p \in Publishers : remaining[p] # {} => sent[p] > 0

\* BusInv holds of a new bus.
LEMMA InitBusInv == Init => BusInv
BY BusAssumption DEF Init, BusInv, TypeOK, States

\* Every step keeps the shape of the bus, and no channel over its capacity.
LEMMA StepBusInv == BusInv /\ [Next]_vars => BusInv'
<1> SUFFICES ASSUME BusInv, [Next]_vars PROVE BusInv'
  OBVIOUS
<1> USE BusAssumption DEF BusInv, TypeOK, States
<1>1. ASSUME NEW s \in Subscribers, WantLock(s, "out", "joining") PROVE BusInv'
  BY <1>1 DEF WantLock
<1>2. ASSUME NEW s \in Subscribers, WantLock(s, "in", "locking") PROVE BusInv'
  BY <1>2 DEF WantLock
<1>3. ASSUME NEW s \in Subscribers, Subscribe(s) PROVE BusInv'
  BY <1>3 DEF Subscribe
<1>4. ASSUME NEW s \in Subscribers, Unsubscribe(s) PROVE BusInv'
  BY <1>4 DEF Unsubscribe
<1>5. ASSUME NEW s \in Subscribers, CloseChannel(s) PROVE BusInv'
  BY <1>5 DEF CloseChannel
<1>6. ASSUME NEW s \in Subscribers, Receive(s) PROVE BusInv'
  BY <1>6 DEF Receive
<1>7. ASSUME NEW s \in Subscribers, Drained(s) PROVE BusInv'
  BY <1>7 DEF Drained
<1>8. ASSUME NEW p \in Publishers, PublishBegin(p) PROVE BusInv'
  BY <1>8 DEF PublishBegin
<1>9. ASSUME NEW p \in Publishers, PublishEnd(p) PROVE BusInv'
  BY <1>9 DEF PublishEnd
<1>10. ASSUME NEW p \in Publishers, NEW s \in remaining[p], Offer(p, s) PROVE BusInv'
  <2>1. s \in Subscribers /\ sent[p] \in 1 .. MaxEvents
    <3>1. remaining[p] \in SUBSET Subscribers /\ sent[p] \in 0 .. MaxEvents
      OBVIOUS
    <3>2. remaining[p] # {}
      BY <1>10
    <3>3. sent[p] > 0
      BY <3>2
    <3>4. QED
      BY <1>10, <3>1, <3>3
  <2>2. CASE ~Full(s)
    <3> DEFINE e == [from |-> p, n |-> sent[p]]
    <3>1. accepted' = [accepted EXCEPT ![s] = Append(@, e)] /\ UNCHANGED drops
      BY <1>10, <2>2 DEF Offer
    <3>2. e \in Events
      BY <2>1 DEF Events
    <3>3. /\ Append(accepted[s], e) \in Seq(Events)
          /\ Len(Append(accepted[s], e)) = Len(accepted[s]) + 1
      BY <2>1, <3>2
    <3>4. Len(accepted[s]) + 1 - received[s] \in 0 .. Buffer
      BY <2>1, <2>2 DEF Full
    <3> HIDE DEF e
    <3>5. accepted' \in [Subscribers -> Seq(Events)]
      BY <2>1, <3>1, <3>3
    <3>6. \A t \in Subscribers : Len(accepted'[t]) - received[t] \in 0 .. Buffer
      BY <2>1, <3>1, <3>3, <3>4
    <3>7. QED
      BY <1>10, <2>1, <3>1, <3>5, <3>6 DEF Offer
  <2>3. CASE Full(s)
    <3>1. drops' = [drops EXCEPT ![s] = @ + 1] /\ UNCHANGED accepted
      BY <1>10, <2>3 DEF Offer
    <3>2. drops' \in [Subscribers -> Nat]
      BY <2>1, <3>1
    <3>3. QED
      BY <1>10, <2>1, <3>1, <3>2 DEF Offer
  <2>4. QED
    BY <2>2, <2>3
<1>11. CASE UNCHANGED vars
  BY <1>11 DEF vars
<1>12. QED
  BY <1>1, <1>2, <1>3, <1>4, <1>5, <1>6, <1>7, <1>8, <1>9, <1>10, <1>11
     DEF Next, Locking, Publish

\* The bus is type correct, and no channel ever holds more than its capacity:
\* publish checks for room and sends in one step.
THEOREM TypeCorrect == Spec => []TypeOK
<1>1. BusInv => TypeOK
  BY DEF BusInv
<1>2. QED
  BY <1>1, InitBusInv, StepBusInv, PTL DEF Spec

-----------------------------------------------------------------------------
(***************************************************************************)
(* No silent loss.                                                         *)
(***************************************************************************)
\* Among the events q, those of publisher p are numbered from first + 1 to
\* last, in order.
Complete(q, p, first, last) ==
    /\ first <= last
    /\ \A k \in 1 .. Len(q) : q[k].from = p => q[k].n \in first + 1 .. last
    /\ \A m \in first + 1 .. last : \E k \in 1 .. Len(q) : q[k].from = p /\ q[k].n = m
    /\ \A k, l \in 1 .. Len(q) :
          k < l /\ q[k].from = p /\ q[l].from = p => q[k].n < q[l].n

\* A subscriber without drops has what it is owed so far; one that has not yet
\* subscribed has nothing.
LossInv ==
    /\ \A s \in Subscribers : state[s] \in {"out", "joining"} => accepted[s] = <<>>
    /\ \A s \in subs, p \in Publishers :
          drops[s] = 0 => Complete(accepted[s], p, joined[s][p], Upto(s, p))

\* Elements of a channel that takes an event.
LEMMA AppendElements ==
    ASSUME NEW S, NEW q \in Seq(S), NEW e \in S
    PROVE  /\ Len(q) \in Nat
           /\ Len(Append(q, e)) = Len(q) + 1
           /\ Append(q, e)[Len(q) + 1] = e
           /\ \A k \in 1 .. Len(q) : Append(q, e)[k] = q[k]
OBVIOUS

\* The publisher's next event keeps its events complete.
LEMMA CompleteNext ==
    ASSUME NEW q \in Seq(Events), NEW e \in Events, NEW p, e.from = p,
           NEW first \in Nat, NEW last \in Nat, Complete(q, p, first, last), e.n = last + 1
    PROVE  Complete(Append(q, e), p, first, last + 1)
<1> DEFINE r == Append(q, e)
<1>1. /\ Len(q) \in Nat /\ Len(r) = Len(q) + 1 /\ r[Len(q) + 1] = e
      /\ \A k \in 1 .. Len(q) : r[k] = q[k]
  BY AppendElements
<1> HIDE DEF r
<1>2. first <= last /\ first <= last + 1
  BY DEF Complete
<1>3. ASSUME NEW k \in 1 .. Len(r), r[k].from = p PROVE r[k].n \in first + 1 .. last + 1
  <2>1. CASE k = Len(q) + 1
    BY <1>1, <1>2, <2>1
  <2>2. CASE k # Len(q) + 1
    <3>1. k \in 1 .. Len(q) /\ r[k] = q[k]
      BY <1>1, <2>2
    <3>2. q[k].n \in first + 1 .. last
      BY <1>3, <3>1 DEF Complete
    <3>3. QED
      BY <3>1, <3>2
  <2>3. QED
    BY <2>1, <2>2
<1>4. ASSUME NEW m \in first + 1 .. last + 1
      PROVE  \E k \in 1 .. Len(r) : r[k].from = p /\ r[k].n = m
  <2>1. CASE m = last + 1
    <3>1. Len(q) + 1 \in 1 .. Len(r)
      BY <1>1
    <3>2. QED
      BY <1>1, <2>1, <3>1
  <2>2. CASE m # last + 1
    <3>1. m \in first + 1 .. last
      BY <2>2
    <3>2. PICK k \in 1 .. Len(q) : q[k].from = p /\ q[k].n = m
      BY <3>1 DEF Complete
    <3>3. k \in 1 .. Len(r) /\ r[k] = q[k]
      BY <1>1
    <3>4. QED
      BY <3>2, <3>3
  <2>3. QED
    BY <2>1, <2>2
<1>5. ASSUME NEW k \in 1 .. Len(r), NEW l \in 1 .. Len(r), k < l, r[k].from = p, r[l].from = p
      PROVE  r[k].n < r[l].n
  <2>1. k \in 1 .. Len(q) /\ r[k] = q[k]
    BY <1>1, <1>5
  <2>2. CASE l = Len(q) + 1
    <3>1. q[k].n \in first + 1 .. last
      BY <1>5, <2>1 DEF Complete
    <3>2. QED
      BY <1>1, <2>1, <2>2, <3>1
  <2>3. CASE l # Len(q) + 1
    <3>1. l \in 1 .. Len(q) /\ r[l] = q[l]
      BY <1>1, <2>3
    <3>2. QED
      BY <1>5, <2>1, <3>1 DEF Complete
  <2>4. QED
    BY <2>2, <2>3
<1>6. QED
  BY <1>2, <1>3, <1>4, <1>5 DEF Complete, r

\* An event of another publisher changes nothing.
LEMMA CompleteOther ==
    ASSUME NEW q \in Seq(Events), NEW e \in Events, NEW p, e.from # p,
           NEW first \in Nat, NEW last \in Nat, Complete(q, p, first, last)
    PROVE  Complete(Append(q, e), p, first, last)
<1> DEFINE r == Append(q, e)
<1>1. /\ Len(q) \in Nat /\ Len(r) = Len(q) + 1 /\ r[Len(q) + 1] = e
      /\ \A k \in 1 .. Len(q) : r[k] = q[k]
  BY AppendElements
<1> HIDE DEF r
<1>2. \A k \in 1 .. Len(r) : r[k].from = p => k \in 1 .. Len(q) /\ r[k] = q[k]
  BY <1>1
<1>3. \A k \in 1 .. Len(q) : k \in 1 .. Len(r) /\ r[k] = q[k]
  BY <1>1
<1>4. QED
  BY <1>2, <1>3 DEF Complete, r

\* A new bus owes nobody anything.
LEMMA InitLossInv == Init => LossInv
BY DEF Init, LossInv

\* A step that changes neither the map nor a channel nor a loop.
LEMMA LossKept ==
    ASSUME LossInv, UNCHANGED <<remaining, sent, accepted, drops, joined>>, subs' \subseteq subs,
           \A s \in Subscribers : state'[s] \in {"out", "joining"} => state[s] \in {"out", "joining"}
    PROVE  LossInv'
BY DEF LossInv, Upto

\* Every step of a publisher or a subscriber preserves LossInv.
LEMMA StepLossInv == LockInv /\ BusInv /\ LossInv /\ [Next]_vars => LossInv'
<1> SUFFICES ASSUME LockInv, BusInv, LossInv, [Next]_vars PROVE LossInv'
  OBVIOUS
<1>0. /\ state \in [Subscribers -> States] /\ subs \subseteq Subscribers
      /\ remaining \in [Publishers -> SUBSET Subscribers]
      /\ sent \in [Publishers -> 0 .. MaxEvents]
      /\ joined \in [Subscribers -> [Publishers -> 0 .. MaxEvents]]
      /\ accepted \in [Subscribers -> Seq(Events)]
      /\ drops \in [Subscribers -> Nat]
      /\ MaxEvents \in Nat
  BY BusAssumption DEF BusInv, TypeOK
<1>1. ASSUME NEW s \in Subscribers, WantLock(s, "out", "joining") PROVE LossInv'
  BY <1>0, <1>1, LossKept DEF WantLock
<1>2. ASSUME NEW s \in Subscribers, WantLock(s, "in", "locking") PROVE LossInv'
  BY <1>0, <1>2, LossKept DEF WantLock
<1>3. ASSUME NEW s \in Subscribers, Subscribe(s) PROVE LossInv'
  <2>1. \A p \in Publishers : remaining[p] = {}
    BY <1>3 DEF Subscribe, LockInv
  <2>2. /\ subs' = subs \cup {s} /\ joined'[s] = sent /\ accepted[s] = <<>>
        /\ \A t \in Subscribers \ {s} : joined'[t] = joined[t] /\ state'[t] = state[t]
        /\ state'[s] = "in"
        /\ UNCHANGED <<remaining, sent, accepted, drops>>
    BY <1>0, <1>3 DEF Subscribe, LossInv
  <2>3. ASSUME NEW p \in Publishers PROVE Complete(<<>>, p, sent[p], sent[p])
    <3>1. sent[p] \in Nat
      BY <1>0
    <3>2. QED
      BY <3>1 DEF Complete
  <2>4. \A p \in Publishers : Upto(s, p)' = sent[p]
    BY <2>1, <2>2 DEF Upto
  <2>5. \A t \in subs', p \in Publishers :
          drops'[t] = 0 => Complete(accepted'[t], p, joined'[t][p], Upto(t, p)')
    <3> SUFFICES ASSUME NEW t \in subs', NEW p \in Publishers, drops'[t] = 0
                 PROVE  Complete(accepted'[t], p, joined'[t][p], Upto(t, p)')
      OBVIOUS
    <3>1. CASE t = s
      BY <2>2, <2>3, <2>4, <3>1
    <3>2. CASE t # s
      <4>1. Complete(accepted[t], p, joined[t][p], Upto(t, p))
        BY <2>2, <3>2 DEF LossInv
      <4>2. QED
        BY <1>0, <2>2, <3>2, <4>1 DEF Upto
    <3>3. QED
      BY <3>1, <3>2
  <2>6. QED
    BY <2>2, <2>5 DEF LossInv
<1>4. ASSUME NEW s \in Subscribers, Unsubscribe(s) PROVE LossInv'
  BY <1>0, <1>4, LossKept DEF Unsubscribe
<1>5. ASSUME NEW s \in Subscribers, CloseChannel(s) PROVE LossInv'
  BY <1>0, <1>5, LossKept DEF CloseChannel
<1>6. ASSUME NEW s \in Subscribers, Receive(s) PROVE LossInv'
  BY <1>6, LossKept DEF Receive
<1>7. ASSUME NEW s \in Subscribers, Drained(s) PROVE LossInv'
  BY <1>0, <1>7, LossKept DEF Drained
<1>8. ASSUME NEW p \in Publishers, PublishBegin(p) PROVE LossInv'
  <2>1. /\ remaining[p] = {} /\ remaining' = [remaining EXCEPT ![p] = subs]
        /\ sent' = [sent EXCEPT ![p] = sent[p] + 1]
        /\ UNCHANGED <<subs, state, accepted, drops, joined>>
    BY <1>8 DEF PublishBegin, LockInv
  <2>2. \A t \in subs, q \in Publishers : Upto(t, q)' = Upto(t, q)
    <3> SUFFICES ASSUME NEW t \in subs, NEW q \in Publishers PROVE Upto(t, q)' = Upto(t, q)
      OBVIOUS
    <3>1. CASE q = p
      BY <1>0, <2>1, <3>1 DEF Upto
    <3>2. CASE q # p
      BY <1>0, <2>1, <3>2 DEF Upto
    <3>3. QED
      BY <3>1, <3>2
  <2>3. QED
    BY <2>1, <2>2 DEF LossInv
<1>9. ASSUME NEW p \in Publishers, PublishEnd(p) PROVE LossInv'
  BY <1>9, LossKept DEF PublishEnd
<1>10. ASSUME NEW p \in Publishers, NEW s \in remaining[p], Offer(p, s) PROVE LossInv'
  <2>1. /\ s \in Subscribers /\ s \in subs
        /\ remaining' = [remaining EXCEPT ![p] = remaining[p] \ {s}]
        /\ UNCHANGED <<subs, state, sent, joined>>
        /\ state[s] \notin {"out", "joining"}
    BY <1>0, <1>10 DEF Offer, LockInv
  <2>2. sent[p] \in 1 .. MaxEvents
    <3>1. remaining[p] # {} /\ sent[p] \in 0 .. MaxEvents
      BY <1>0, <1>10
    <3>2. sent[p] > 0
      BY <3>1 DEF BusInv
    <3>3. QED
      BY <1>0, <3>1, <3>2
  <2>3. /\ Upto(s, p) = sent[p] - 1 /\ Upto(s, p)' = sent[p]
        /\ \A q \in Publishers \ {p} : Upto(s, q)' = Upto(s, q)
        /\ \A t \in Subscribers \ {s}, q \in Publishers : Upto(t, q)' = Upto(t, q)
    BY <1>0, <1>10, <2>1 DEF Upto
  <2>4. CASE ~Full(s)
    <3> DEFINE e == [from |-> p, n |-> sent[p]]
    <3>1. accepted' = [accepted EXCEPT ![s] = Append(accepted[s], e)] /\ UNCHANGED drops
      BY <1>10, <2>4 DEF Offer
    <3>2. e \in Events /\ e.from = p /\ e.n = sent[p]
      BY <2>2 DEF Events
    <3> HIDE DEF e
    <3>3. /\ accepted'[s] = Append(accepted[s], e)
          /\ \A t \in Subscribers \ {s} : accepted'[t] = accepted[t]
      BY <1>0, <2>1, <3>1
    <3>4. ASSUME NEW q \in Publishers, drops[s] = 0
          PROVE  Complete(accepted'[s], q, joined[s][q], Upto(s, q)')
      <4>1. /\ Complete(accepted[s], q, joined[s][q], Upto(s, q))
            /\ joined[s][q] \in Nat /\ accepted[s] \in Seq(Events)
        BY <1>0, <2>1, <3>4 DEF LossInv
      <4>2. CASE q = p
        <5>1. sent[p] - 1 \in Nat /\ (sent[p] - 1) + 1 = sent[p]
          BY <2>2
        <5>2. Complete(accepted[s], p, joined[s][p], sent[p] - 1) /\ joined[s][p] \in Nat
          BY <2>3, <4>1, <4>2
        <5>3. Complete(Append(accepted[s], e), p, joined[s][p], (sent[p] - 1) + 1)
          BY <3>2, <4>1, <5>1, <5>2, CompleteNext
        <5>4. QED
          BY <2>3, <3>3, <4>2, <5>1, <5>3
      <4>3. CASE q # p
        <5>1. Upto(s, q) \in Nat
          <6>1. sent[q] \in 0 .. MaxEvents /\ (s \in remaining[q] => sent[q] > 0)
            BY <1>0 DEF BusInv
          <6>2. QED
            BY <1>0, <6>1 DEF Upto
        <5>2. Complete(Append(accepted[s], e), q, joined[s][q], Upto(s, q))
          BY <3>2, <4>1, <4>3, <5>1, CompleteOther
        <5>3. QED
          BY <2>3, <3>3, <4>3, <5>2
      <4>4. QED
        BY <4>2, <4>3
    <3>5. ASSUME NEW t \in subs \ {s}, NEW q \in Publishers, drops[t] = 0
          PROVE  Complete(accepted'[t], q, joined[t][q], Upto(t, q)')
      BY <1>0, <2>3, <3>3, <3>5 DEF LossInv
    <3>6. \A t \in Subscribers : state[t] \in {"out", "joining"} => accepted'[t] = <<>>
      BY <2>1, <3>3 DEF LossInv
    <3>7. \A t \in subs, q \in Publishers :
            drops[t] = 0 => Complete(accepted'[t], q, joined[t][q], Upto(t, q)')
      BY <3>4, <3>5
    <3>8. QED
      BY <2>1, <3>1, <3>6, <3>7 DEF LossInv
  <2>5. CASE Full(s)
    <3>1. drops' = [drops EXCEPT ![s] = drops[s] + 1] /\ UNCHANGED accepted
      BY <1>10, <2>5 DEF Offer
    <3>2. drops'[s] # 0 /\ \A t \in Subscribers \ {s} : drops'[t] = drops[t]
      BY <1>0, <2>1, <3>1
    <3>3. ASSUME NEW t \in subs, NEW q \in Publishers, drops'[t] = 0
          PROVE  Complete(accepted[t], q, joined[t][q], Upto(t, q)')
      <4>1. t # s /\ t \in Subscribers /\ drops[t] = 0
        BY <1>0, <3>2, <3>3
      <4>2. QED
        BY <2>3, <4>1 DEF LossInv
    <3>4. QED
      BY <2>1, <3>1, <3>3 DEF LossInv
  <2>6. QED
    BY <2>4, <2>5
<1>11. CASE UNCHANGED vars
  BY <1>11, LossKept DEF vars
<1>12. QED
  BY <1>1, <1>2, <1>3, <1>4, <1>5, <1>6, <1>7, <1>8, <1>9, <1>10, <1>11
     DEF Next, Locking, Publish

\* A subscriber without drops was sent every event published since it
\* subscribed, each publisher's in order, although publishers run their loops
\* at the same time and others subscribe and cancel in between.
THEOREM NoSilentLossHolds == Spec => []NoSilentLoss
<1>1. BusInv /\ LossInv => NoSilentLoss
  <2> SUFFICES ASSUME BusInv, LossInv, NEW s \in subs, NEW p \in Publishers, drops[s] = 0
               PROVE  /\ {accepted[s][k].n : k \in Mine(s, p)} = joined[s][p] + 1 .. Upto(s, p)
                      /\ \A k, l \in Mine(s, p) : k < l => accepted[s][k].n < accepted[s][l].n
    BY DEF NoSilentLoss
  <2>1. Complete(accepted[s], p, joined[s][p], Upto(s, p)) /\ accepted[s] \in Seq(Events)
    BY DEF LossInv, BusInv, TypeOK
  <2>2. Mine(s, p) = {k \in 1 .. Len(accepted[s]) : accepted[s][k].from = p}
    BY <2>1 DEF Mine
  <2>3. QED
    BY <2>1, <2>2 DEF Complete
<1>2. QED
  BY <1>1, LockInvHolds, InitBusInv, StepBusInv, InitLossInv, StepLossInv, PTL DEF Spec
=============================================================================
