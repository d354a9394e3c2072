------------------------------ MODULE EventBus ------------------------------
(***************************************************************************)
(* The event bus (internal/core/event.go): publishers, the goroutines that *)
(* serve connections, fan events out to subscribers under the read side of *)
(* an RWMutex and never wait for them; Subscribe and the cancel function   *)
(* take the write side; cancel closes the channel after it unlocked.       *)
(*                                                                         *)
(* Publishing is a step per subscriber, in the arbitrary order in which Go *)
(* ranges over a map.  An event is abstracted to its publisher and its     *)
(* number.  A channel is kept as everything it ever accepted and the       *)
(* number of events its consumer has received.                             *)
(***************************************************************************)
EXTENDS Integers, Sequences

CONSTANTS
    Publishers,
    Subscribers,    \* the calls of Subscribe that will be made
    Buffer,         \* subscriberBuffer
    MaxEvents       \* bound on the events of a publisher

ASSUME BusAssumption == Buffer \in Nat \ {0} /\ MaxEvents \in Nat

VARIABLES
    subs,       \* bus.subs
    state,      \* per subscriber: where its Subscribe and cancel calls are
    readers,    \* the publishers that hold bus.mu for reading
    remaining,  \* per publisher: subscribers its range loop has not reached
    sent,       \* per publisher: number of the event last published
    accepted,   \* per subscriber: everything sent on its channel
    received,   \* per subscriber: how much of it the consumer has received
    drops,      \* per subscriber: subscriber.drops
    joined      \* history: per subscriber, sent when it subscribed

vars == <<subs, state, readers, remaining, sent, accepted, received, drops, joined>>

\* "locking" is a cancel that waits in bus.mu.Lock; "deleted" has unlocked but
\* not closed the channel; "drained" is a consumer that met the closed channel.
States == {"out", "joining", "in", "locking", "deleted", "closed", "drained"}

\* RWMutex: a goroutine waiting for the write side keeps new readers out.
WriterWaits == \E s \in Subscribers : state[s] \in {"joining", "locking"}

Init ==
    /\ subs = {}
    /\ state = [s \in Subscribers |-> "out"]
    /\ readers = {}
    /\ remaining = [p \in Publishers |-> {}]
    /\ sent = [p \in Publishers |-> 0]
    /\ accepted = [s \in Subscribers |-> <<>>]
    /\ received = [s \in Subscribers |-> 0]
    /\ drops = [s \in Subscribers |-> 0]
    /\ joined = [s \in Subscribers |-> [p \in Publishers |-> 0]]

-----------------------------------------------------------------------------
\* A goroutine calls Lock, in Subscribe or in cancel.
WantLock(s, from, to) ==
    /\ state[s] = from
    /\ state' = [state EXCEPT ![s] = to]
    /\ UNCHANGED <<subs, readers, remaining, sent, accepted, received, drops, joined>>

\* Subscribe's critical section.
Subscribe(s) ==
    /\ state[s] = "joining"
    /\ readers = {}
    /\ subs' = subs \cup {s}
    /\ state' = [state EXCEPT ![s] = "in"]
    /\ joined' = [joined EXCEPT ![s] = sent]
    /\ UNCHANGED <<readers, remaining, sent, accepted, received, drops>>

\* Mutant of Unsubscribe: the subscriber is deleted without taking the mutex.
UnsubscribeUnlocked(s) ==
    /\ state[s] = "locking"
    /\ subs' = subs \ {s}
    /\ state' = [state EXCEPT ![s] = "deleted"]
    /\ UNCHANGED <<readers, remaining, sent, accepted, received, drops, joined>>

\* cancel's critical section; once.Do runs it a single time.
Unsubscribe(s) ==
    /\ state[s] = "locking"
    /\ readers = {}
    /\ subs' = subs \ {s}
    /\ state' = [state EXCEPT ![s] = "deleted"]
    /\ UNCHANGED <<readers, remaining, sent, accepted, received, drops, joined>>

\* Mutant of CloseChannel: cancel only deletes the subscriber.
CloseChannelNot(s) == state[s] = "deleted" /\ UNCHANGED vars

\* cancel closes the channel, after the unlock.
CloseChannel(s) ==
    /\ state[s] = "deleted"
    /\ state' = [state EXCEPT ![s] = "closed"]
    /\ UNCHANGED <<subs, readers, remaining, sent, accepted, received, drops, joined>>

-----------------------------------------------------------------------------
\* publish takes the read side and starts its loop.
PublishBegin(p) ==
    /\ p \notin readers
    /\ sent[p] < MaxEvents
    /\ ~WriterWaits
    /\ readers' = readers \cup {p}
    /\ sent' = [sent EXCEPT ![p] = @ + 1]
    /\ remaining' = [remaining EXCEPT ![p] = subs]
    /\ UNCHANGED <<subs, state, accepted, received, drops, joined>>

Full(s) == Len(accepted[s]) - received[s] >= Buffer

\* Mutant of Offer: a full channel is skipped without being counted.
OfferUncounted(p, s) ==
    /\ s \in remaining[p]
    /\ remaining' = [remaining EXCEPT ![p] = @ \ {s}]
    /\ accepted' = IF Full(s) THEN accepted
                   ELSE [accepted EXCEPT ![s] = Append(@, [from |-> p, n |-> sent[p]])]
    /\ UNCHANGED <<subs, state, readers, sent, received, drops, joined>>

\* Mutant of Offer: publish waits for room.
OfferBlocks(p, s) ==
    /\ s \in remaining[p]
    /\ remaining' = [remaining EXCEPT ![p] = @ \ {s}]
    /\ ~Full(s)
    /\ accepted' = [accepted EXCEPT ![s] = Append(@, [from |-> p, n |-> sent[p]])]
    /\ UNCHANGED <<subs, state, readers, sent, received, drops, joined>>

\* One round of the loop: the event goes into the channel, or is dropped.
Offer(p, s) ==
    /\ s \in remaining[p]
    /\ remaining' = [remaining EXCEPT ![p] = @ \ {s}]
    /\ \/ /\ ~Full(s)
          /\ accepted' = [accepted EXCEPT ![s] = Append(@, [from |-> p, n |-> sent[p]])]
          /\ UNCHANGED drops
       \/ /\ Full(s)
          /\ drops' = [drops EXCEPT ![s] = @ + 1]
          /\ UNCHANGED accepted
    /\ UNCHANGED <<subs, state, readers, sent, received, joined>>

PublishEnd(p) ==
    /\ p \in readers
    /\ remaining[p] = {}
    /\ readers' = readers \ {p}
    /\ UNCHANGED <<subs, state, remaining, sent, accepted, received, drops, joined>>

-----------------------------------------------------------------------------
\* The consumer ranges over its channel.
Receive(s) ==
    /\ received[s] < Len(accepted[s])
    /\ received' = [received EXCEPT ![s] = @ + 1]
    /\ UNCHANGED <<subs, state, readers, remaining, sent, accepted, drops, joined>>

\* Its loop ends once the channel is closed and empty.
Drained(s) ==
    /\ state[s] = "closed"
    /\ received[s] = Len(accepted[s])
    /\ state' = [state EXCEPT ![s] = "drained"]
    /\ UNCHANGED <<subs, readers, remaining, sent, accepted, received, drops, joined>>

Locking(s) == Subscribe(s) \/ Unsubscribe(s) \/ CloseChannel(s)

Publish(p) == PublishEnd(p) \/ \E s \in remaining[p] : Offer(p, s)

Next ==
    \/ \E s \in Subscribers :
          \/ WantLock(s, "out", "joining")
          \/ WantLock(s, "in", "locking")
          \/ Locking(s)
          \/ Receive(s)
          \/ Drained(s)
    \/ \E p \in Publishers : PublishBegin(p) \/ Publish(p)

Spec == Init /\ [][Next]_vars

\* Goroutines that can run do run.  No consumer is assumed to read while it is
\* subscribed: fairness of Receive is asked only once its channel is closed.
FairSpec ==
    /\ Spec
    /\ \A p \in Publishers : WF_vars(Publish(p))
    /\ \A s \in Subscribers :
          /\ WF_vars(Locking(s))
          /\ WF_vars(state[s] = "closed" /\ (Receive(s) \/ Drained(s)))

-----------------------------------------------------------------------------
Events == [from : Publishers, n : 1 .. MaxEvents]

\* The bus and its channels keep their shape, and no channel holds more than
\* subscriberBuffer events.
TypeOK ==
    /\ subs \subseteq Subscribers
    /\ state \in [Subscribers -> States]
    /\ readers \subseteq Publishers
    /\ remaining \in [Publishers -> SUBSET Subscribers]
    /\ sent \in [Publishers -> 0 .. MaxEvents]
    /\ received \in [Subscribers -> Nat]
    /\ drops \in [Subscribers -> Nat]
    /\ joined \in [Subscribers -> [Publishers -> 0 .. MaxEvents]]
    /\ accepted \in [Subscribers -> Seq(Events)]
    /\ \A s \in Subscribers : Len(accepted[s]) - received[s] \in 0 .. Buffer

\* A publisher never sends on a closed channel, which would panic and take the
\* process down, although cancel closes after it released the mutex and two
\* publishers may be half way through their loops.
NoSendOnClosed ==
    \A p \in Publishers : \A s \in remaining[p] : state[s] \in {"in", "locking"}

\* The places of publisher p's events among those subscriber s was sent, and the
\* last event of p that was offered to s.
Mine(s, p) == {k \in DOMAIN accepted[s] : accepted[s][k].from = p}
Upto(s, p) == IF s \in remaining[p] THEN sent[p] - 1 ELSE sent[p]

\* A subscriber that has no drops has missed nothing: it was sent every event
\* published since it subscribed and no other, each publisher's in order.
NoSilentLoss ==
    \A s \in subs, p \in Publishers : drops[s] = 0 =>
        /\ {accepted[s][k].n : k \in Mine(s, p)} = joined[s][p] + 1 .. Upto(s, p)
        /\ \A k, l \in Mine(s, p) : k < l => accepted[s][k].n < accepted[s][l].n

\* Publishing never waits for a consumer: publish returns although no
\* subscriber reads.
PublishReturns == \A p \in Publishers : p \in readers ~> p \notin readers

\* Unsubscribing always completes: a cancel that waits for the mutex gets it,
\* and the consumer's loop then ends, which is what run waits for on its way
\* out.
UnsubscribeEnds == \A s \in Subscribers : state[s] = "locking" ~> state[s] = "drained"
=============================================================================
