--------------------------- MODULE SessionEvents ---------------------------
(***************************************************************************)
(* The event fan-out of one runtime session (internal/runtime/session):    *)
(* Session.publish copies every event into one bounded channel per         *)
(* subscriber, dropping the oldest entry of a full channel; Subscribe and  *)
(* Subscription.Close register and remove a channel; Session.Close sweeps  *)
(* them all.  A consumer is the SubscribeEvents loop of                    *)
(* internal/runtime/server/session_service.go.                             *)
(*                                                                         *)
(* Threads are goroutines: publishers are the transport goroutines inside  *)
(* Client.dispatchEvent, each subscription is served by one goroutine, and *)
(* closers call Session.Close.  The session's eventMu is held across       *)
(* several steps only by publish and closeSubscribers, because a consumer  *)
(* receives from its channel without the mutex; the critical sections of   *)
(* Subscribe and removeSubscriber show the others a single effect and are  *)
(* one step each.  session.closed is an atomic read outside and inside the *)
(* mutex.                                                                  *)
(***************************************************************************)
EXTENDS Naturals, Sequences, FiniteSets

CONSTANTS Publishers,    \* transport goroutines that deliver events
          Subs,          \* subscriptions, each with its consumer goroutine
          Closers,       \* goroutines that call Session.Close
          Buffer,        \* capacity of a subscriber's channel
          MaxEvents,     \* bound: events published in one behaviour
          Free           \* "nobody holds eventMu"

Threads == Publishers \cup Subs \cup Closers

ASSUME BufferAssumption == Buffer \in Nat \ {0}   \* Subscribe replaces buffer < 1
ASSUME ThreadsAssumption ==
  /\ Publishers \cap Subs = {}
  /\ Publishers \cap Closers = {}
  /\ Subs \cap Closers = {}
  /\ Free \notin Threads
ASSUME MaxEventsAssumption == MaxEvents \in Nat

VARIABLES
  closed,             \* Session.closed
  eventMu,            \* holder of Session.eventMu, or Free
  handling,           \* publish is registered with the client (Session.unsubscribe)
  subscribers,        \* keys of Session.subscribers
  sequence,           \* Session.sequence
  subscriberDropped,  \* Session.subscriberDropped
  queue,              \* per subscription: contents of subscriber.events
  chan,               \* per subscription: "none", "open" or "closed"
  dropped,            \* per subscription: subscriber.dropped
  pc,                 \* per thread: where it is
  todo,               \* per publisher: subscribers its loop has still to serve
  event,              \* per publisher: sequence number of the event it publishes
  target,             \* per publisher: subscriber it is serving
  panicked            \* a send on, or a close of, a closed channel happened

\* History of the consumers: the sequence number at which a subscription joined,
\* the last one offered to its channel, the last one received, and how many were.
VARIABLES joined, offered, last, received

shared  == <<closed, eventMu, handling, subscribers, sequence>>
channels == <<subscriberDropped, queue, chan, dropped>>
locals  == <<todo, event, target>>
history == <<joined, offered, last, received>>
vars    == <<shared, channels, pc, locals, panicked, history>>

PublisherPC == {"idle", "check", "lock", "fan", "evict", "retry"}
SubPC       == {"new", "subscribe", "receive", "send", "leave", "end"}
CloserPC    == {"new", "unsubscribe", "lock", "sweep", "client", "end", "noop"}

Goto(t, label) == pc' = [pc EXCEPT ![t] = label]

(* The small decisions of the code, each followed or preceded by the slip a test  *)
(* would hardly notice (named Bug...): the checks substitute it for the decision   *)
(* to see which property notices.                                                  *)

\* eventMu.Lock can be taken; the bug is a mutex that excludes nobody.
BugNoMutex == TRUE
MutexFree == eventMu = Free

\* closed as read for the second time, inside the mutex; the bug leaves it out.
BugNoSecondLook == FALSE
ClosedMeanwhile == closed

\* Room in the channel; the bug is off by one.
BugRoom(s) == Len(queue[s]) <= Buffer
Room(s) == Len(queue[s]) < Buffer

\* Both counters of a lost event; the bug forgets them.
BugUncounted(s) == UNCHANGED <<dropped, subscriberDropped>>
CountDrop(s) ==
  /\ dropped' = [dropped EXCEPT ![s] = @ + 1]
  /\ subscriberDropped' = subscriberDropped + 1

\* The second select of publish: take the oldest entry out and count it, unless the
\* consumer emptied the channel meanwhile; the bug receives without the default case.
BugBlockingTake(s) ==
  /\ queue[s] # << >>
  /\ queue' = [queue EXCEPT ![s] = Tail(@)]
  /\ CountDrop(s)
TakeOldest(s) ==
  IF queue[s] # << >>
  THEN /\ queue' = [queue EXCEPT ![s] = Tail(@)]
       /\ CountDrop(s)
  ELSE UNCHANGED <<queue, dropped, subscriberDropped>>

\* removeSubscriber looks the subscription up again; the bug trusts its caller.
BugTrustCaller(s) == TRUE
Registered(s) == s \in subscribers

\* delete from the map and close the channel (closing twice panics); the bug only
\* deletes.
BugDeleteOnly(s) ==
  /\ subscribers' = subscribers \ {s}
  /\ UNCHANGED <<panicked, chan>>
Drop(s) ==
  /\ subscribers' = subscribers \ {s}
  /\ panicked' = (panicked \/ chan[s] = "closed")
  /\ chan' = [chan EXCEPT ![s] = "closed"]

Init ==
  /\ closed = FALSE
  /\ eventMu = Free
  /\ handling = TRUE                       \* Manager.Create subscribed publish
  /\ subscribers = {}
  /\ sequence = 0
  /\ subscriberDropped = 0
  /\ queue = [s \in Subs |-> << >>]
  /\ chan = [s \in Subs |-> "none"]
  /\ dropped = [s \in Subs |-> 0]
  /\ pc = [t \in Threads |-> IF t \in Publishers THEN "idle" ELSE "new"]
  /\ todo = [p \in Publishers |-> {}]
  /\ event = [p \in Publishers |-> 0]
  /\ target = [p \in Publishers |-> Free]
  /\ panicked = FALSE
  /\ joined = [s \in Subs |-> 0]
  /\ offered = [s \in Subs |-> 0]
  /\ last = [s \in Subs |-> 0]
  /\ received = [s \in Subs |-> 0]

-----------------------------------------------------------------------------
(* Session.publish *)

\* Client.dispatchEvent found publish among the handlers and is about to call it:
\* a later unsubscribe no longer stops this call.
PublishEnter(p) ==
  /\ pc[p] = "idle"
  /\ handling
  /\ sequence < MaxEvents
  /\ Goto(p, "check")
  /\ UNCHANGED <<shared, channels, locals, panicked, history>>

\* The unlocked look at closed.
PublishCheck(p) ==
  /\ pc[p] = "check"
  /\ Goto(p, IF closed THEN "idle" ELSE "lock")
  /\ UNCHANGED <<shared, channels, locals, panicked, history>>

\* eventMu.Lock, the second look at closed and, if the session is still open, the
\* next sequence number.
PublishLock(p) ==
  /\ pc[p] = "lock"
  /\ MutexFree
  /\ IF ClosedMeanwhile
     THEN /\ Goto(p, "idle")
          /\ UNCHANGED <<shared, locals>>
     ELSE /\ eventMu' = p
          /\ sequence' = sequence + 1
          /\ event' = [event EXCEPT ![p] = sequence']
          /\ todo' = [todo EXCEPT ![p] = subscribers]
          /\ Goto(p, "fan")
          /\ UNCHANGED <<closed, handling, subscribers, target>>
  /\ UNCHANGED <<channels, panicked, history>>

\* What a send of p's event to s does to the channel; a send on a closed one panics.
Enqueue(p, s) ==
  /\ panicked' = (panicked \/ chan[s] = "closed")
  /\ queue' = [queue EXCEPT ![s] = Append(@, event[p])]
  /\ offered' = [offered EXCEPT ![s] = event[p]]

\* The first select: room in the channel, or the default case.
PublishSend(p) ==
  /\ pc[p] = "fan"
  /\ \E s \in todo[p] :
       IF Room(s)
       THEN /\ Enqueue(p, s)
            /\ todo' = [todo EXCEPT ![p] = @ \ {s}]
            /\ UNCHANGED <<pc, target>>
       ELSE /\ target' = [target EXCEPT ![p] = s]
            /\ Goto(p, "evict")
            /\ UNCHANGED <<panicked, queue, offered, todo>>
  /\ UNCHANGED <<shared, subscriberDropped, chan, dropped, event, joined, last, received>>

\* The second select.
PublishEvict(p) ==
  /\ pc[p] = "evict"
  /\ TakeOldest(target[p])
  /\ Goto(p, "retry")
  /\ UNCHANGED <<shared, chan, locals, panicked, history>>

\* The third select: send again; a channel full again loses the new event instead.
PublishRetry(p) ==
  /\ pc[p] = "retry"
  /\ IF Room(target[p])
     THEN /\ Enqueue(p, target[p])
          /\ UNCHANGED <<dropped, subscriberDropped>>
     ELSE /\ CountDrop(target[p])
          /\ UNCHANGED <<panicked, queue, offered>>
  /\ todo' = [todo EXCEPT ![p] = @ \ {target[p]}]
  /\ Goto(p, "fan")
  /\ UNCHANGED <<shared, chan, event, target, joined, last, received>>

\* The loop is over: eventMu.Unlock.
PublishDone(p) ==
  /\ pc[p] = "fan"
  /\ todo[p] = {}
  /\ eventMu' = Free
  /\ Goto(p, "idle")
  /\ UNCHANGED <<closed, handling, subscribers, sequence, channels, locals, panicked, history>>

Publish(p) ==
  \/ PublishCheck(p) \/ PublishLock(p) \/ PublishSend(p)
  \/ PublishEvict(p) \/ PublishRetry(p) \/ PublishDone(p)

-----------------------------------------------------------------------------
(* Session.Subscribe, the consumer's loop and Subscription.Close *)

\* The unlocked look at closed.
SubscribeCheck(s) ==
  /\ pc[s] = "new"
  /\ Goto(s, IF closed THEN "end" ELSE "subscribe")
  /\ UNCHANGED <<shared, channels, locals, panicked, history>>

\* The critical section: look at closed again, then register a fresh channel.
SubscribeLock(s) ==
  /\ pc[s] = "subscribe"
  /\ MutexFree
  /\ IF ClosedMeanwhile
     THEN /\ Goto(s, "end")
          /\ UNCHANGED <<subscribers, chan, history>>
     ELSE /\ subscribers' = subscribers \cup {s}
          /\ chan' = [chan EXCEPT ![s] = "open"]
          /\ joined' = [joined EXCEPT ![s] = sequence]
          /\ offered' = [offered EXCEPT ![s] = sequence]
          /\ last' = [last EXCEPT ![s] = sequence]
          /\ Goto(s, "receive")
          /\ UNCHANGED received
  /\ UNCHANGED <<closed, eventMu, handling, sequence, subscriberDropped, queue, dropped,
                 locals, panicked>>

\* The stream's select takes an event from the channel (open or closed alike) and
\* goes on to stream.Send, unless eventToProto does not know the event.
Receive(s) ==
  /\ pc[s] = "receive"
  /\ queue[s] # << >>
  /\ \/ Goto(s, "send")
     \/ UNCHANGED pc
  /\ last' = [last EXCEPT ![s] = Head(queue[s])]
  /\ received' = [received EXCEPT ![s] = @ + 1]
  /\ queue' = [queue EXCEPT ![s] = Tail(@)]
  /\ UNCHANGED <<shared, subscriberDropped, chan, dropped, locals, panicked, joined, offered>>

\* stream.Send returns, which flow control puts off for as long as the client does
\* not read: neither publish nor Close can reach a consumer that waits there.
Sent(s) ==
  /\ pc[s] = "send"
  /\ Goto(s, "receive")
  /\ UNCHANGED <<shared, channels, locals, panicked, history>>

\* The channel is closed and drained: the stream returns.
StreamEnd(s) ==
  /\ pc[s] = "receive"
  /\ chan[s] = "closed"
  /\ queue[s] = << >>
  /\ Goto(s, "leave")
  /\ UNCHANGED <<shared, channels, locals, panicked, history>>

\* The stream's context is cancelled, by its caller or by Stop, or the send fails:
\* the select notices, and so does a Send that waits.
StreamCancel(s) ==
  /\ pc[s] \in {"receive", "send"}
  /\ Goto(s, "leave")
  /\ UNCHANGED <<shared, channels, locals, panicked, history>>

\* Subscription.Close calls removeSubscriber, once: what is still in the map is
\* deleted and its channel closed.
RemoveSubscriber(s) ==
  /\ pc[s] = "leave"
  /\ MutexFree
  /\ IF Registered(s) THEN Drop(s) ELSE UNCHANGED <<subscribers, panicked, chan>>
  /\ Goto(s, "end")
  /\ UNCHANGED <<closed, eventMu, handling, sequence, subscriberDropped, queue, dropped,
                 locals, history>>

Consume(s) ==
  \/ SubscribeCheck(s) \/ SubscribeLock(s) \/ Receive(s) \/ Sent(s)
  \/ StreamEnd(s) \/ StreamCancel(s) \/ RemoveSubscriber(s)

-----------------------------------------------------------------------------
(* Session.Close *)

\* closed.CompareAndSwap: only the first caller goes on, the others return at once.
CloseBegin(c) ==
  /\ pc[c] = "new"
  /\ closed' = TRUE
  /\ Goto(c, IF closed THEN "noop" ELSE "unsubscribe")
  /\ UNCHANGED <<eventMu, handling, subscribers, sequence, channels, locals, panicked, history>>

CloseUnsubscribe(c) ==
  /\ pc[c] = "unsubscribe"
  /\ handling' = FALSE
  /\ Goto(c, "lock")
  /\ UNCHANGED <<closed, eventMu, subscribers, sequence, channels, locals, panicked, history>>

\* closeSubscribers takes eventMu ...
CloseLock(c) ==
  /\ pc[c] = "lock"
  /\ MutexFree
  /\ eventMu' = c
  /\ Goto(c, "sweep")
  /\ UNCHANGED <<closed, handling, subscribers, sequence, channels, locals, panicked, history>>

\* ... deletes and closes one channel after another ...
CloseSweep(c) ==
  /\ pc[c] = "sweep"
  /\ \E s \in subscribers : Drop(s)
  /\ UNCHANGED <<closed, eventMu, handling, sequence, subscriberDropped, queue, dropped, pc,
                 locals, history>>

\* ... and releases it.
CloseUnlock(c) ==
  /\ pc[c] = "sweep"
  /\ subscribers = {}
  /\ eventMu' = Free
  /\ Goto(c, "client")
  /\ UNCHANGED <<closed, handling, subscribers, sequence, channels, locals, panicked, history>>

\* client.Close (module Client) and the return.
CloseClient(c) ==
  /\ pc[c] = "client"
  /\ Goto(c, "end")
  /\ UNCHANGED <<shared, channels, locals, panicked, history>>

CloseSession(c) ==
  \/ CloseBegin(c) \/ CloseUnsubscribe(c) \/ CloseLock(c)
  \/ CloseSweep(c) \/ CloseUnlock(c) \/ CloseClient(c)

-----------------------------------------------------------------------------
Next ==
  \/ \E p \in Publishers : PublishEnter(p) \/ Publish(p)
  \/ \E s \in Subs : Consume(s)
  \/ \E c \in Closers : CloseSession(c)

(* A goroutine that has entered the session's code keeps running; sync.Mutex's   *)
(* starvation mode hands the mutex to every waiter in the end (SF).  Nobody is    *)
(* obliged to publish, to subscribe, to call Close, to receive while the channel  *)
(* is open, or to cancel, and no client to read what it is sent.                  *)
Fairness ==
  /\ \A p \in Publishers : WF_vars(Publish(p)) /\ SF_vars(PublishLock(p))
  /\ \A c \in Closers :
       /\ WF_vars(CloseSession(c) /\ pc[c] # "new")
       /\ SF_vars(CloseLock(c))
  /\ \A s \in Subs :
       /\ WF_vars(chan[s] = "closed" /\ (Receive(s) \/ StreamEnd(s)))
       /\ SF_vars(SubscribeLock(s) \/ RemoveSubscriber(s))

SafeSpec == Init /\ [][Next]_vars
Spec == SafeSpec /\ Fairness

-----------------------------------------------------------------------------
(* Properties *)

TypeOK ==
  /\ closed \in BOOLEAN /\ handling \in BOOLEAN /\ panicked \in BOOLEAN
  /\ eventMu \in Threads \cup {Free}
  /\ subscribers \subseteq Subs
  /\ sequence \in Nat /\ subscriberDropped \in Nat
  /\ queue \in [Subs -> Seq(Nat)] /\ \A s \in Subs : Len(queue[s]) <= Buffer
  /\ chan \in [Subs -> {"none", "open", "closed"}]
  /\ dropped \in [Subs -> Nat]
  /\ pc \in [Threads -> PublisherPC \cup SubPC \cup CloserPC]
  /\ \A p \in Publishers : pc[p] \in PublisherPC
  /\ \A s \in Subs : pc[s] \in SubPC
  /\ \A c \in Closers : pc[c] \in CloserPC
  /\ todo \in [Publishers -> SUBSET Subs]
  /\ event \in [Publishers -> Nat]
  /\ target \in [Publishers -> Subs \cup {Free}]
  /\ joined \in [Subs -> Nat] /\ offered \in [Subs -> Nat]
  /\ last \in [Subs -> Nat] /\ received \in [Subs -> Nat]

\* Publisher p is inside its loop over the subscribers.
Publishing(p) == pc[p] \in {"fan", "evict", "retry"}

\* Closers past the sweep of the one Close that did the work.
Swept == \E c \in Closers : pc[c] \in {"client", "end"}

\* No goroutine ever sends on a closed channel or closes one twice (either would
\* crash the runtime process), whatever the interleaving of publish, a consumer's
\* Subscription.Close and Session.Close.
NoPanic == ~panicked

\* q holds consecutive numbers, the last of them n.
ConsecutiveUpTo(q, n) == \A i \in 1 .. Len(q) : q[i] = (n + i) - Len(q)

\* What a channel holds are consecutive sequence numbers that end with the last one
\* offered to it and all lie beyond the last one its consumer received:
\* at-most-once, in order, no hole inside a queue.
QueueIsRecentSuffix ==
  \A s \in Subs :
    /\ ConsecutiveUpTo(queue[s], offered[s])
    /\ last[s] + Len(queue[s]) <= offered[s]

\* Every event offered since a subscription joined was received, is queued, or is
\* counted in Subscription.Dropped, with steps of publish and receive interleaved.
DropsAccounted ==
  \A s \in Subs : received[s] + Len(queue[s]) + dropped[s] = offered[s] - joined[s]

\* A registered subscriber has been offered every event published since it joined,
\* except the one being fanned out to it at this moment: none is skipped silently.
NothingSkipped ==
  \A s \in subscribers :
    offered[s] = IF \E p \in Publishers : Publishing(p) /\ s \in todo[p]
                 THEN sequence - 1 ELSE sequence

\* The newest event is never the one that is lost: when publish sends again after
\* evicting, there is room, because no one else can send to the channel.
NewestNeverRefused ==
  \A p \in Publishers : pc[p] = "retry" => Len(queue[target[p]]) < Buffer

\* Once Session.Close has swept, no subscriber is registered and no channel is
\* open, also not one whose Subscribe or publish overlapped the sweep.
NoSubscriberLeak ==
  Swept => subscribers = {} /\ \A s \in Subs : chan[s] # "open"

\* After the sweep nothing is numbered and nothing enters a queue, although
\* publish may be entered before the handler was removed and run afterwards.
NothingPublishedAfterClose ==
  [][Swept => /\ sequence' = sequence
              /\ \A s \in Subs : Len(queue'[s]) <= Len(queue[s])]_vars

\* The fan-out implements the stream promised to each consumer.
Stream == INSTANCE EventStream
            WITH published <- sequence, last <- last, ended <- Swept
ImplementsStream == Stream!StreamSpec
=============================================================================
