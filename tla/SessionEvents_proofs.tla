----------------------- MODULE SessionEvents_proofs -----------------------
(* The safety properties of SessionEvents for every set of publishers,       *)
(* subscribers and closers, every channel capacity and any number of events. *)
EXTENDS SessionEvents, TLAPS

-----------------------------------------------------------------------------
(* The inductive invariant *)

\* eventMu is held exactly by the publisher inside its loop or by the sweeping closer.
MutexInv ==
  /\ \A p \in Publishers : Publishing(p) <=> eventMu = p
  /\ \A c \in Closers : pc[c] = "sweep" <=> eventMu = c
  /\ \A s \in Subs : eventMu # s

\* What the publisher in its loop relies on.
FanInv ==
  \A p \in Publishers :
    Publishing(p) =>
      /\ event[p] = sequence
      /\ sequence > 0
      /\ todo[p] \subseteq subscribers
      /\ pc[p] \in {"evict", "retry"} => target[p] \in todo[p]

\* How far the registered subscribers have been served.
ServedInv ==
  \A s \in subscribers :
    /\ (\A p \in Publishers : ~Publishing(p)) => offered[s] = sequence
    /\ \A p \in Publishers :
         Publishing(p) => offered[s] = IF s \in todo[p] THEN sequence - 1 ELSE sequence

\* The open channels are the registered ones.
ChanInv == \A s \in Subs : chan[s] = "open" <=> s \in subscribers

\* A subscription that has not registered yet has no history.
FreshInv ==
  \A s \in Subs :
    pc[s] \in {"new", "subscribe"} =>
      /\ s \notin subscribers
      /\ queue[s] = << >> /\ received[s] = 0 /\ dropped[s] = 0

\* Closing is irrevocable, and after the sweep nobody is publishing.
ClosedInv ==
  /\ \A c \in Closers : pc[c] # "new" => closed
  /\ Swept => subscribers = {} /\ \A p \in Publishers : ~Publishing(p)

IInv ==
  /\ TypeOK /\ NoPanic /\ MutexInv /\ FanInv /\ ServedInv /\ ChanInv /\ FreshInv
  /\ ClosedInv /\ QueueIsRecentSuffix /\ DropsAccounted /\ NewestNeverRefused

-----------------------------------------------------------------------------
(* Sequences and channels *)

\* The length and the elements of a sequence after publish has sent one more event.
LEMMA AppendFacts ==
  ASSUME NEW q \in Seq(Nat), NEW n \in Nat
  PROVE  /\ Append(q, n) \in Seq(Nat)
         /\ Len(q) \in Nat
         /\ Len(Append(q, n)) = Len(q) + 1
         /\ \A i \in 1 .. Len(q) : Append(q, n)[i] = q[i]
         /\ Append(q, n)[Len(q) + 1] = n
OBVIOUS

\* The length and the elements of a sequence whose first entry was taken out.
LEMMA TailFacts ==
  ASSUME NEW q \in Seq(Nat), q # << >>
  PROVE  /\ Tail(q) \in Seq(Nat)
         /\ Len(q) \in Nat /\ Len(q) > 0
         /\ Len(Tail(q)) = Len(q) - 1
         /\ \A i \in 1 .. Len(Tail(q)) : Tail(q)[i] = q[i + 1]
         /\ Head(q) = q[1] /\ Head(q) \in Nat
OBVIOUS

\* Appending the successor keeps a queue consecutive ...
LEMMA ConsecutiveAppend ==
  ASSUME NEW q \in Seq(Nat), NEW n \in Nat, ConsecutiveUpTo(q, n)
  PROVE  ConsecutiveUpTo(Append(q, n + 1), n + 1)
<1> DEFINE r == Append(q, n + 1)
<1>1. /\ Len(q) \in Nat /\ Len(r) = Len(q) + 1
      /\ \A i \in 1 .. Len(q) : r[i] = q[i]
      /\ r[Len(q) + 1] = n + 1
  BY AppendFacts
<1>2. \A i \in 1 .. Len(q) : q[i] = (n + i) - Len(q)
  BY DEF ConsecutiveUpTo
<1> HIDE DEF r
<1>3. \A i \in 1 .. Len(r) : r[i] = ((n + 1) + i) - Len(r)
  BY <1>1, <1>2
<1> QED
  BY <1>3 DEF ConsecutiveUpTo, r

\* ... and so does taking the first entry, the oldest, out.
LEMMA ConsecutiveTail ==
  ASSUME NEW q \in Seq(Nat), q # << >>, NEW n \in Nat, ConsecutiveUpTo(q, n)
  PROVE  ConsecutiveUpTo(Tail(q), n) /\ Head(q) = (n + 1) - Len(q)
<1> DEFINE r == Tail(q)
<1>1. /\ Len(q) \in Nat /\ Len(q) > 0 /\ Len(r) = Len(q) - 1
      /\ \A i \in 1 .. Len(r) : r[i] = q[i + 1]
      /\ Head(q) = q[1]
  BY TailFacts
<1>2. \A i \in 1 .. Len(q) : q[i] = (n + i) - Len(q)
  BY DEF ConsecutiveUpTo
<1> HIDE DEF r
<1>3. \A i \in 1 .. Len(r) : r[i] = (n + i) - Len(r)
  BY <1>1, <1>2
<1>4. Head(q) = (n + 1) - Len(q)
  BY <1>1, <1>2
<1> QED
  BY <1>3, <1>4 DEF ConsecutiveUpTo, r

\* The types of what is kept for one subscription.
LEMMA SubTypes ==
  ASSUME TypeOK
  PROVE  \A s \in Subs :
           /\ queue[s] \in Seq(Nat) /\ Len(queue[s]) \in Nat /\ Len(queue[s]) <= Buffer
           /\ joined[s] \in Nat /\ offered[s] \in Nat /\ last[s] \in Nat
           /\ received[s] \in Nat /\ dropped[s] \in Nat
BY DEF TypeOK

\* The part of TypeOK about the queues.
QueueType ==
  queue \in [Subs -> Seq(Nat)] /\ \A s \in Subs : Len(queue[s]) <= Buffer

\* A send that finds room appends the successor of the event offered before.
LEMMA EnqueueStep ==
  ASSUME TypeOK, QueueIsRecentSuffix, DropsAccounted,
         NEW p \in Publishers, NEW s \in Subs, Enqueue(p, s), Room(s),
         event[p] = offered[s] + 1,
         UNCHANGED <<dropped, joined, last, received>>
  PROVE  QueueType' /\ QueueIsRecentSuffix' /\ DropsAccounted' /\ offered' \in [Subs -> Nat]
<1>1. /\ queue' = [queue EXCEPT ![s] = Append(queue[s], event[p])]
      /\ offered' = [offered EXCEPT ![s] = event[p]]
      /\ queue \in [Subs -> Seq(Nat)] /\ offered \in [Subs -> Nat] /\ event[p] \in Nat
  BY DEF Enqueue, TypeOK
<1>2. Len(queue[s]) < Buffer /\ Buffer \in Nat
  BY BufferAssumption DEF Room
<1>3. /\ queue'[s] = Append(queue[s], offered[s] + 1) /\ offered'[s] = offered[s] + 1
      /\ \A t \in Subs : t # s => queue'[t] = queue[t] /\ offered'[t] = offered[t]
      /\ offered' \in [Subs -> Nat] /\ queue' \in [Subs -> Seq(Nat)]
  BY <1>1, SubTypes, AppendFacts
<1>4. Len(queue'[s]) = Len(queue[s]) + 1
  BY <1>3, SubTypes, AppendFacts
<1>5. QueueType'
  <2>1. ASSUME NEW t \in Subs PROVE Len(queue'[t]) <= Buffer
    <3>1. CASE t = s
      BY <1>2, <1>4, <3>1, SubTypes
    <3>2. CASE t # s
      BY <1>3, <3>2, SubTypes
    <3> QED
      BY <3>1, <3>2
  <2> QED
    BY <1>3, <2>1 DEF QueueType
<1>6. ASSUME NEW t \in Subs
      PROVE  /\ ConsecutiveUpTo(queue'[t], offered'[t])
             /\ last[t] + Len(queue'[t]) <= offered'[t]
             /\ received[t] + Len(queue'[t]) + dropped[t] = offered'[t] - joined[t]
  <2>1. /\ ConsecutiveUpTo(queue[t], offered[t])
        /\ last[t] + Len(queue[t]) <= offered[t]
        /\ received[t] + Len(queue[t]) + dropped[t] = offered[t] - joined[t]
    BY DEF QueueIsRecentSuffix, DropsAccounted
  <2>2. CASE t = s
    <3>1. ConsecutiveUpTo(queue'[t], offered'[t])
      BY <1>3, <2>1, <2>2, SubTypes, ConsecutiveAppend
    <3>2. /\ last[s] + Len(queue'[s]) <= offered'[s]
          /\ received[s] + Len(queue'[s]) + dropped[s] = offered'[s] - joined[s]
      <4>1. PICK q, l, o, r, d, j \in Nat :
                   /\ q = Len(queue[s]) /\ l = last[s] /\ o = offered[s]
                   /\ r = received[s] /\ d = dropped[s] /\ j = joined[s]
        BY SubTypes
      <4>2. l + q <= o /\ r + q + d = o - j
        BY <2>1, <2>2, <4>1
      <4>3. l + (q + 1) <= o + 1 /\ r + (q + 1) + d = (o + 1) - j
        BY <4>2
      <4> QED
        BY <1>3, <1>4, <4>1, <4>3
    <3> QED
      BY <2>2, <3>1, <3>2
  <2>3. CASE t # s
    BY <1>3, <2>1, <2>3
  <2> QED
    BY <2>2, <2>3
<1> QED
  BY <1>3, <1>5, <1>6 DEF QueueIsRecentSuffix, DropsAccounted

\* Taking the oldest entry out leaves the rest consecutive, and counts it.
LEMMA TakeOldestStep ==
  ASSUME TypeOK, QueueIsRecentSuffix, DropsAccounted, NEW s \in Subs, TakeOldest(s),
         UNCHANGED <<offered, joined, last, received>>
  PROVE  /\ QueueType' /\ QueueIsRecentSuffix' /\ DropsAccounted'
         /\ dropped' \in [Subs -> Nat] /\ subscriberDropped' \in Nat
         /\ Len(queue'[s]) < Buffer
         /\ \A t \in Subs : t # s => queue'[t] = queue[t] /\ dropped'[t] = dropped[t]
<1>1. CASE queue[s] = << >>
  <2>1. UNCHANGED <<queue, dropped, subscriberDropped>>
    BY <1>1 DEF TakeOldest
  <2>2. Len(queue[s]) = 0
    BY <1>1
  <2> QED
    BY <2>1, <2>2, BufferAssumption DEF TypeOK, QueueType, QueueIsRecentSuffix, DropsAccounted
<1>2. CASE queue[s] # << >>
  <2>1. /\ queue' = [queue EXCEPT ![s] = Tail(queue[s])]
        /\ dropped' = [dropped EXCEPT ![s] = dropped[s] + 1]
        /\ subscriberDropped' = subscriberDropped + 1
        /\ queue \in [Subs -> Seq(Nat)] /\ dropped \in [Subs -> Nat]
        /\ subscriberDropped \in Nat
    BY <1>2 DEF TakeOldest, CountDrop, TypeOK
  <2>2. /\ queue'[s] = Tail(queue[s]) /\ dropped'[s] = dropped[s] + 1
        /\ \A t \in Subs : t # s => queue'[t] = queue[t] /\ dropped'[t] = dropped[t]
        /\ dropped' \in [Subs -> Nat] /\ subscriberDropped' \in Nat
    BY <2>1
  <2>3. /\ Len(queue'[s]) = Len(queue[s]) - 1 /\ Len(queue[s]) > 0
        /\ queue'[s] \in Seq(Nat) /\ Len(queue[s]) \in Nat
    BY <1>2, <2>2, SubTypes, TailFacts
  <2>4. queue' \in [Subs -> Seq(Nat)]
    BY <2>1, <2>2, <2>3
  <2>5. QueueType' /\ Len(queue'[s]) < Buffer
    <3>1. \A t \in Subs : Len(queue[t]) \in Nat /\ Len(queue[t]) <= Buffer
      BY SubTypes
    <3>2. Len(queue'[s]) < Buffer
      BY <2>3, <3>1, BufferAssumption
    <3>3. ASSUME NEW t \in Subs PROVE Len(queue'[t]) <= Buffer
      <4>1. CASE t = s
        BY <2>3, <3>1, <4>1, BufferAssumption
      <4>2. CASE t # s
        BY <2>2, <3>1, <4>2
      <4> QED
        BY <4>1, <4>2
    <3> QED
      BY <2>4, <3>2, <3>3 DEF QueueType
  <2>6. ASSUME NEW t \in Subs
        PROVE  /\ ConsecutiveUpTo(queue'[t], offered[t])
               /\ last[t] + Len(queue'[t]) <= offered[t]
               /\ received[t] + Len(queue'[t]) + dropped'[t] = offered[t] - joined[t]
    <3>1. /\ ConsecutiveUpTo(queue[t], offered[t])
          /\ last[t] + Len(queue[t]) <= offered[t]
          /\ received[t] + Len(queue[t]) + dropped[t] = offered[t] - joined[t]
      BY DEF QueueIsRecentSuffix, DropsAccounted
    <3>2. CASE t = s
      <4>1. ConsecutiveUpTo(queue'[t], offered[t])
        BY <1>2, <2>2, <3>1, <3>2, SubTypes, ConsecutiveTail
      <4>2. /\ last[s] + Len(queue'[s]) <= offered[s]
            /\ received[s] + Len(queue'[s]) + dropped'[s] = offered[s] - joined[s]
        <5>1. PICK q, l, o, r, d, j \in Nat :
                     /\ q = Len(queue[s]) /\ l = last[s] /\ o = offered[s]
                     /\ r = received[s] /\ d = dropped[s] /\ j = joined[s]
          BY SubTypes
        <5>2. l + q <= o /\ r + q + d = o - j /\ q > 0
          BY <2>3, <3>1, <3>2, <5>1
        <5>3. l + (q - 1) <= o /\ r + (q - 1) + (d + 1) = o - j
          BY <5>2
        <5> QED
          BY <2>2, <2>3, <5>1, <5>3
      <4> QED
        BY <3>2, <4>1, <4>2
    <3>3. CASE t # s
      BY <2>2, <3>1, <3>3
    <3> QED
      BY <3>2, <3>3
  <2> QED
    BY <2>2, <2>5, <2>6 DEF QueueIsRecentSuffix, DropsAccounted
<1> QED
  BY <1>1, <1>2

\* A step that touches no channel and no count.
LEMMA CountsUndisturbed ==
  ASSUME QueueIsRecentSuffix, DropsAccounted, UNCHANGED <<queue, dropped, history>>
  PROVE  QueueIsRecentSuffix' /\ DropsAccounted'
BY DEF QueueIsRecentSuffix, DropsAccounted, history

\* Where every thread stands is of its kind.
PcType ==
  /\ pc \in [Threads -> PublisherPC \cup SubPC \cup CloserPC]
  /\ \A p \in Publishers : pc[p] \in PublisherPC
  /\ \A s \in Subs : pc[s] \in SubPC
  /\ \A c \in Closers : pc[c] \in CloserPC

\* A thread that goes to a place of its kind keeps it so.
LEMMA GotoType ==
  ASSUME PcType, NEW t \in Threads, NEW label, Goto(t, label),
         \/ t \in Publishers /\ label \in PublisherPC
         \/ t \in Subs /\ label \in SubPC
         \/ t \in Closers /\ label \in CloserPC
  PROVE  PcType' /\ \A u \in Threads : pc'[u] = IF u = t THEN label ELSE pc[u]
BY ThreadsAssumption DEF PcType, Goto, Threads

-----------------------------------------------------------------------------
(* The invariant holds at first and is kept by every step *)

\* A session just created, without subscribers, satisfies the invariant.
LEMMA InitIInv == Init => IInv
<1> SUFFICES ASSUME Init PROVE IInv
  OBVIOUS
<1> USE BufferAssumption, ThreadsAssumption DEF Init, Threads, Publishing
<1>1. TypeOK
  <2>1. /\ queue \in [Subs -> Seq(Nat)] /\ \A s \in Subs : Len(queue[s]) <= Buffer
        /\ dropped \in [Subs -> Nat] /\ joined \in [Subs -> Nat]
        /\ offered \in [Subs -> Nat] /\ last \in [Subs -> Nat] /\ received \in [Subs -> Nat]
    OBVIOUS
  <2>2. PcType
    BY DEF PcType, PublisherPC, SubPC, CloserPC
  <2>3. /\ chan \in [Subs -> {"none", "open", "closed"}]
        /\ todo \in [Publishers -> SUBSET Subs] /\ event \in [Publishers -> Nat]
        /\ target \in [Publishers -> Subs \cup {Free}]
    OBVIOUS
  <2> QED
    BY <2>1, <2>2, <2>3 DEF TypeOK, PcType
<1>2. NoPanic /\ MutexInv /\ FanInv /\ ServedInv
  BY DEF NoPanic, MutexInv, FanInv, ServedInv
<1>3. ChanInv /\ FreshInv /\ ClosedInv /\ NewestNeverRefused
  BY DEF ChanInv, FreshInv, ClosedInv, Swept, NewestNeverRefused
<1>4. QueueIsRecentSuffix /\ DropsAccounted
  BY DEF QueueIsRecentSuffix, ConsecutiveUpTo, DropsAccounted
<1> QED
  BY <1>1, <1>2, <1>3, <1>4 DEF IInv

\* Each step of publish, Subscribe, a consumer and Session.Close keeps the invariant.
LEMMA StepIInv == IInv /\ [Next]_vars => IInv'
<1> SUFFICES ASSUME IInv, [Next]_vars PROVE IInv'
  OBVIOUS
<1> USE BufferAssumption, ThreadsAssumption
    DEF IInv, Goto, Publishing, shared, channels, locals, history, Threads
<1>1. ASSUME NEW p \in Publishers, PublishEnter(p) PROVE IInv'
  <2> USE <1>1 DEF PublishEnter
  <2>1. TypeOK'
    BY DEF TypeOK, PublisherPC, SubPC, CloserPC
  <2>2. MutexInv' /\ FanInv' /\ NewestNeverRefused'
    BY DEF TypeOK, MutexInv, FanInv, NewestNeverRefused
  <2>3. ServedInv'
    BY DEF TypeOK, ServedInv, FanInv, MutexInv, FreshInv
  <2>4. NoPanic' /\ ChanInv' /\ FreshInv'
    BY DEF TypeOK, NoPanic, ChanInv, FreshInv, FanInv
  <2>5. ClosedInv'
    BY DEF TypeOK, ClosedInv, MutexInv, FanInv, Swept
  <2>6. QueueIsRecentSuffix' /\ DropsAccounted'
    BY CountsUndisturbed
  <2> QED
    BY <2>1, <2>2, <2>3, <2>4, <2>5, <2>6 DEF IInv
<1>2. ASSUME NEW p \in Publishers, PublishCheck(p) PROVE IInv'
  <2> USE <1>2 DEF PublishCheck
  <2>1. TypeOK'
    BY DEF TypeOK, PublisherPC, SubPC, CloserPC
  <2>2. MutexInv' /\ FanInv' /\ NewestNeverRefused'
    BY DEF TypeOK, MutexInv, FanInv, NewestNeverRefused
  <2>3. ServedInv'
    BY DEF TypeOK, ServedInv, FanInv, MutexInv, FreshInv
  <2>4. NoPanic' /\ ChanInv' /\ FreshInv'
    BY DEF TypeOK, NoPanic, ChanInv, FreshInv, FanInv
  <2>5. ClosedInv'
    BY DEF TypeOK, ClosedInv, MutexInv, FanInv, Swept
  <2>6. QueueIsRecentSuffix' /\ DropsAccounted'
    BY CountsUndisturbed
  <2> QED
    BY <2>1, <2>2, <2>3, <2>4, <2>5, <2>6 DEF IInv
<1>3. ASSUME NEW p \in Publishers, PublishLock(p) PROVE IInv'
  <2> USE <1>3 DEF PublishLock, MutexFree, ClosedMeanwhile
  <2>1. TypeOK'
    <3>1. CASE closed
      <4>1. /\ UNCHANGED <<shared, locals, channels, panicked, history>>
            /\ PcType /\ p \in Threads /\ Goto(p, "idle")
        BY <3>1 DEF TypeOK, PcType
      <4>2. PcType'
        BY <4>1, GotoType DEF PublisherPC
      <4> QED
        BY <4>1, <4>2 DEF TypeOK, PcType
    <3>2. CASE ~closed
      <4>1. /\ sequence' = sequence + 1 /\ sequence' \in Nat
            /\ event' \in [Publishers -> Nat]
            /\ todo' \in [Publishers -> SUBSET Subs]
            /\ eventMu' = p
        BY <3>2 DEF TypeOK
      <4>2. PcType /\ p \in Threads /\ Goto(p, "fan")
        BY <3>2 DEF TypeOK, PcType
      <4>3. PcType'
        BY <4>2, GotoType DEF PublisherPC
      <4> QED
        BY <3>2, <4>1, <4>3 DEF TypeOK, PcType
    <3> QED
      BY <3>1, <3>2
  <2>2. MutexInv' /\ FanInv' /\ NewestNeverRefused'
    BY DEF TypeOK, MutexInv, FanInv, NewestNeverRefused
  <2>3. ServedInv'
    <3>1. CASE closed
      <4>1. /\ pc' = [pc EXCEPT ![p] = "idle"] /\ pc[p] = "lock"
            /\ UNCHANGED <<subscribers, offered, sequence, todo>>
            /\ pc \in [Threads -> PublisherPC \cup SubPC \cup CloserPC]
        BY <3>1 DEF TypeOK
      <4>2. \A q \in Publishers : Publishing(q)' = Publishing(q)
        BY <4>1
      <4> QED
        BY <4>1, <4>2 DEF ServedInv
    <3>2. CASE ~closed
      <4>1. \A q \in Publishers : ~Publishing(q)
        BY DEF MutexInv
      <4>2. \A s \in subscribers : offered[s] = sequence
        BY <4>1 DEF ServedInv
      <4>3. /\ sequence' = sequence + 1 /\ sequence \in Nat
            /\ todo'[p] = subscribers /\ subscribers' = subscribers /\ offered' = offered
            /\ pc'[p] = "fan" /\ \A q \in Publishers : q # p => pc'[q] = pc[q]
        BY <3>2 DEF TypeOK
      <4>4. \A s \in subscribers : offered'[s] = sequence' - 1
        BY <4>2, <4>3
      <4> QED
        BY <4>1, <4>3, <4>4 DEF ServedInv
    <3> QED
      BY <3>1, <3>2
  <2>4. NoPanic' /\ ChanInv' /\ FreshInv'
    BY DEF TypeOK, NoPanic, ChanInv, FreshInv, FanInv
  <2>5. ClosedInv'
    BY DEF TypeOK, ClosedInv, MutexInv, FanInv, Swept
  <2>6. QueueIsRecentSuffix' /\ DropsAccounted'
    BY CountsUndisturbed
  <2> QED
    BY <2>1, <2>2, <2>3, <2>4, <2>5, <2>6 DEF IInv
<1>4. ASSUME NEW p \in Publishers, PublishSend(p) PROVE IInv'
  <2>1. PICK s \in todo[p] :
          \/ /\ Room(s) /\ Enqueue(p, s)
             /\ todo' = [todo EXCEPT ![p] = @ \ {s}]
             /\ UNCHANGED <<pc, target>>
          \/ /\ ~Room(s)
             /\ target' = [target EXCEPT ![p] = s]
             /\ Goto(p, "evict")
             /\ UNCHANGED <<panicked, queue, offered, todo>>
    BY <1>4 DEF PublishSend
  <2>2. /\ pc[p] = "fan" /\ s \in subscribers /\ s \in Subs /\ event[p] = sequence
        /\ UNCHANGED <<closed, eventMu, handling, subscribers, sequence, chan, dropped,
                       subscriberDropped, event, joined, last, received>>
    BY <1>4, <2>1 DEF PublishSend, FanInv, TypeOK
  <2>3. CASE Room(s) /\ Enqueue(p, s) /\ todo' = [todo EXCEPT ![p] = @ \ {s}]
             /\ UNCHANGED <<pc, target>>
    <3>1. event[p] = offered[s] + 1
      BY <2>1, <2>2 DEF ServedInv, TypeOK
    <3>2. /\ QueueType' /\ QueueIsRecentSuffix' /\ DropsAccounted'
          /\ offered' \in [Subs -> Nat]
      BY <2>2, <2>3, <3>1, EnqueueStep
    <3>3. /\ ~panicked /\ chan[s] = "open" /\ panicked' = FALSE
          /\ todo \in [Publishers -> SUBSET Subs] /\ todo' \in [Publishers -> SUBSET Subs]
          /\ todo'[p] = todo[p] \ {s} /\ \A q \in Publishers : q # p => todo'[q] = todo[q]
          /\ offered \in [Subs -> Nat] /\ offered' = [offered EXCEPT ![s] = sequence]
          /\ queue' = [queue EXCEPT ![s] = Append(@, event[p])] /\ queue \in [Subs -> Seq(Nat)]
      BY <2>2, <2>3 DEF NoPanic, ChanInv, TypeOK, Enqueue
    <3>4. TypeOK'
      BY <2>2, <2>3, <3>2, <3>3 DEF TypeOK, QueueType
    <3>5. MutexInv' /\ FanInv' /\ NewestNeverRefused'
      BY <2>2, <2>3, <3>3 DEF MutexInv, FanInv, NewestNeverRefused
    <3>6. ServedInv'
      <4> SUFFICES ASSUME NEW t \in subscribers, NEW q \in Publishers
                   PROVE  /\ (\A u \in Publishers : ~Publishing(u)) => offered'[t] = sequence
                          /\ Publishing(q) => offered'[t] = IF t \in todo'[q] THEN sequence - 1
                                                           ELSE sequence
        BY <2>2, <2>3 DEF ServedInv, Publishing
      <4>1. /\ (\A u \in Publishers : ~Publishing(u)) => offered[t] = sequence
            /\ Publishing(q) => offered[t] = IF t \in todo[q] THEN sequence - 1 ELSE sequence
        BY DEF ServedInv
      <4>2. Publishing(p) /\ (Publishing(q) => q = p)
        BY <2>1, <2>2 DEF Publishing, MutexInv
      <4>3. CASE t = s
        BY <3>3, <4>2, <4>3
      <4>4. CASE t # s
        BY <3>3, <4>1, <4>2, <4>4
      <4> QED BY <4>3, <4>4
    <3>7. NoPanic' /\ ChanInv' /\ FreshInv'
      BY <2>2, <2>3, <3>3 DEF NoPanic, ChanInv, FreshInv
    <3>8. ClosedInv'
      BY <2>2, <2>3 DEF ClosedInv, Swept
    <3> QED
      BY <3>2, <3>4, <3>5, <3>6, <3>7, <3>8
  <2>4. CASE ~Room(s) /\ target' = [target EXCEPT ![p] = s] /\ Goto(p, "evict")
             /\ UNCHANGED <<panicked, queue, offered, todo>>
    <3>1. PcType'
      BY <2>4, GotoType DEF TypeOK, PcType, PublisherPC
    <3>2. TypeOK'
      BY <2>2, <2>4, <3>1 DEF TypeOK, PcType
    <3>3. MutexInv' /\ FanInv' /\ NewestNeverRefused'
      BY <2>1, <2>2, <2>4 DEF TypeOK, MutexInv, FanInv, NewestNeverRefused
    <3>4. ServedInv'
      BY <2>2, <2>4 DEF TypeOK, ServedInv
    <3>5. NoPanic' /\ ChanInv' /\ FreshInv'
      BY <2>2, <2>4 DEF TypeOK, NoPanic, ChanInv, FreshInv
    <3>6. ClosedInv'
      BY <2>2, <2>4 DEF TypeOK, ClosedInv, Swept
    <3>7. QueueIsRecentSuffix' /\ DropsAccounted'
      BY <2>2, <2>4, CountsUndisturbed
    <3> QED
      BY <3>2, <3>3, <3>4, <3>5, <3>6, <3>7
  <2> QED
    BY <2>1, <2>3, <2>4
<1>5. ASSUME NEW p \in Publishers, PublishEvict(p) PROVE IInv'
  <2> DEFINE s == target[p]
  <2>1. /\ pc[p] = "evict" /\ TakeOldest(s) /\ Goto(p, "retry") /\ s \in todo[p]
        /\ s \in subscribers /\ s \in Subs
        /\ UNCHANGED <<closed, eventMu, handling, subscribers, sequence, chan, todo, event,
                       target, panicked, joined, offered, last, received>>
    BY <1>5 DEF PublishEvict, FanInv, TypeOK
  <2>2. /\ QueueType' /\ QueueIsRecentSuffix' /\ DropsAccounted'
        /\ dropped' \in [Subs -> Nat] /\ subscriberDropped' \in Nat
        /\ Len(queue'[s]) < Buffer
        /\ \A t \in Subs : t # s => queue'[t] = queue[t] /\ dropped'[t] = dropped[t]
    BY <2>1, TakeOldestStep
  <2> HIDE DEF s
  <2>3. PcType' /\ \A u \in Threads : pc'[u] = IF u = p THEN "retry" ELSE pc[u]
    BY <2>1, GotoType DEF TypeOK, PcType, PublisherPC
  <2>4. TypeOK'
    BY <2>1, <2>2, <2>3 DEF TypeOK, PcType, QueueType
  <2>5. MutexInv' /\ FanInv'
    BY <2>1, <2>3 DEF MutexInv, FanInv
  <2>6. NewestNeverRefused'
    <3>1. \A q \in Publishers : q # p => ~Publishing(q)
      BY <2>1 DEF MutexInv
    <3> QED
      BY <2>1, <2>2, <2>3, <3>1 DEF NewestNeverRefused, s
  <2>7. ServedInv'
    BY <2>1, <2>3 DEF ServedInv
  <2>8. NoPanic' /\ ChanInv' /\ FreshInv'
    BY <2>1, <2>2, <2>3 DEF NoPanic, ChanInv, FreshInv
  <2>9. ClosedInv'
    BY <2>1, <2>3 DEF ClosedInv, Swept
  <2> QED
    BY <2>2, <2>4, <2>5, <2>6, <2>7, <2>8, <2>9
<1>6. ASSUME NEW p \in Publishers, PublishRetry(p) PROVE IInv'
  <2> DEFINE s == target[p]
  <2>1. /\ pc[p] = "retry" /\ Room(s) /\ Enqueue(p, s) /\ Goto(p, "fan") /\ s \in todo[p]
        /\ s \in subscribers /\ s \in Subs /\ event[p] = sequence
        /\ todo' = [todo EXCEPT ![p] = @ \ {s}]
        /\ UNCHANGED <<closed, eventMu, handling, subscribers, sequence, chan, dropped,
                       subscriberDropped, event, target, joined, last, received>>
    BY <1>6 DEF PublishRetry, Room, NewestNeverRefused, FanInv, TypeOK
  <2> HIDE DEF s
  <2>2. event[p] = offered[s] + 1
    BY <2>1 DEF ServedInv, TypeOK
  <2>3. /\ QueueType' /\ QueueIsRecentSuffix' /\ DropsAccounted'
        /\ offered' \in [Subs -> Nat]
    BY <2>1, <2>2, EnqueueStep
  <2>4. PcType' /\ \A u \in Threads : pc'[u] = IF u = p THEN "fan" ELSE pc[u]
    BY <2>1, GotoType DEF TypeOK, PcType, PublisherPC
  <2>5. /\ ~panicked /\ chan[s] = "open" /\ panicked' = FALSE
        /\ todo' \in [Publishers -> SUBSET Subs]
        /\ todo'[p] = todo[p] \ {s} /\ \A q \in Publishers : q # p => todo'[q] = todo[q]
        /\ offered \in [Subs -> Nat] /\ offered' = [offered EXCEPT ![s] = sequence]
        /\ queue' = [queue EXCEPT ![s] = Append(@, event[p])] /\ queue \in [Subs -> Seq(Nat)]
    BY <2>1 DEF NoPanic, ChanInv, TypeOK, Enqueue
  <2>6. TypeOK'
    BY <2>1, <2>3, <2>4, <2>5 DEF TypeOK, QueueType, PcType
  <2>7. \A q \in Publishers : q # p => ~Publishing(q) /\ ~Publishing(q)'
    BY <2>1, <2>4 DEF MutexInv
  <2>8. MutexInv' /\ FanInv' /\ NewestNeverRefused'
    BY <2>1, <2>4, <2>5, <2>7 DEF MutexInv, FanInv, NewestNeverRefused
  <2>9. ServedInv'
    BY <2>1, <2>4, <2>5, <2>7 DEF ServedInv, TypeOK
  <2>10. NoPanic' /\ ChanInv' /\ FreshInv'
    BY <2>1, <2>4, <2>5 DEF NoPanic, ChanInv, FreshInv
  <2>11. ClosedInv'
    BY <2>1, <2>4 DEF ClosedInv, Swept
  <2> QED
    BY <2>3, <2>6, <2>8, <2>9, <2>10, <2>11
<1>7. ASSUME NEW p \in Publishers, PublishDone(p) PROVE IInv'
  <2> USE <1>7 DEF PublishDone
  <2>1. TypeOK'
    BY DEF TypeOK, PublisherPC, SubPC, CloserPC
  <2>2. MutexInv' /\ FanInv' /\ NewestNeverRefused'
    BY DEF TypeOK, MutexInv, FanInv, NewestNeverRefused
  <2>3. ServedInv'
    BY DEF TypeOK, ServedInv, FanInv, MutexInv, FreshInv
  <2>4. NoPanic' /\ ChanInv' /\ FreshInv'
    BY DEF TypeOK, NoPanic, ChanInv, FreshInv, FanInv
  <2>5. ClosedInv'
    BY DEF TypeOK, ClosedInv, MutexInv, FanInv, Swept
  <2>6. QueueIsRecentSuffix' /\ DropsAccounted'
    BY CountsUndisturbed
  <2> QED
    BY <2>1, <2>2, <2>3, <2>4, <2>5, <2>6 DEF IInv
<1>8. ASSUME NEW s \in Subs, SubscribeCheck(s) PROVE IInv'
  <2> USE <1>8 DEF SubscribeCheck
  <2>1. TypeOK'
    BY DEF TypeOK, PublisherPC, SubPC, CloserPC
  <2>2. MutexInv' /\ FanInv' /\ NewestNeverRefused'
    BY DEF TypeOK, MutexInv, FanInv, NewestNeverRefused
  <2>3. ServedInv'
    BY DEF TypeOK, ServedInv, FanInv, MutexInv, FreshInv
  <2>4. NoPanic' /\ ChanInv' /\ FreshInv'
    BY DEF TypeOK, NoPanic, ChanInv, FreshInv, FanInv
  <2>5. ClosedInv'
    BY DEF TypeOK, ClosedInv, MutexInv, FanInv, Swept
  <2>6. QueueIsRecentSuffix' /\ DropsAccounted'
    BY CountsUndisturbed
  <2> QED
    BY <2>1, <2>2, <2>3, <2>4, <2>5, <2>6 DEF IInv
<1>9. ASSUME NEW s \in Subs, SubscribeLock(s) PROVE IInv'
  <2>1. /\ pc[s] = "subscribe" /\ eventMu = Free /\ s \in Threads
        /\ UNCHANGED <<closed, eventMu, handling, sequence, subscriberDropped, queue,
                       dropped, todo, event, target, panicked, received>>
    BY <1>9 DEF SubscribeLock, MutexFree
  <2>2. CASE closed
    <3>1. Goto(s, "end") /\ UNCHANGED <<subscribers, chan, history>>
      BY <1>9, <2>2 DEF SubscribeLock, ClosedMeanwhile
    <3>2. PcType' /\ \A u \in Threads : pc'[u] = IF u = s THEN "end" ELSE pc[u]
      BY <2>1, <3>1, GotoType DEF TypeOK, PcType, SubPC
    <3>3. TypeOK'
      BY <2>1, <3>1, <3>2 DEF TypeOK, PcType
    <3>4. MutexInv' /\ FanInv' /\ NewestNeverRefused' /\ ServedInv'
      BY <2>1, <3>1, <3>2 DEF MutexInv, FanInv, NewestNeverRefused, ServedInv
    <3>5. NoPanic' /\ ChanInv' /\ FreshInv' /\ ClosedInv'
      BY <2>1, <3>1, <3>2 DEF NoPanic, ChanInv, FreshInv, ClosedInv, Swept
    <3>6. QueueIsRecentSuffix' /\ DropsAccounted'
      BY <2>1, <3>1, CountsUndisturbed
    <3> QED
      BY <3>3, <3>4, <3>5, <3>6
  <2>3. CASE ~closed
    <3>1. /\ Goto(s, "receive")
          /\ subscribers' = subscribers \cup {s}
          /\ chan' = [chan EXCEPT ![s] = "open"]
          /\ joined' = [joined EXCEPT ![s] = sequence]
          /\ offered' = [offered EXCEPT ![s] = sequence]
          /\ last' = [last EXCEPT ![s] = sequence]
      BY <1>9, <2>3 DEF SubscribeLock, ClosedMeanwhile
    <3>2. PcType' /\ \A u \in Threads : pc'[u] = IF u = s THEN "receive" ELSE pc[u]
      BY <2>1, <3>1, GotoType DEF TypeOK, PcType, SubPC
    <3>3. /\ sequence \in Nat /\ queue[s] = << >> /\ received[s] = 0 /\ dropped[s] = 0
          /\ joined'[s] = sequence /\ offered'[s] = sequence /\ last'[s] = sequence
          /\ \A t \in Subs : t # s => /\ joined'[t] = joined[t] /\ offered'[t] = offered[t]
                                      /\ last'[t] = last[t] /\ chan'[t] = chan[t]
          /\ chan' \in [Subs -> {"none", "open", "closed"}] /\ chan'[s] = "open"
          /\ joined' \in [Subs -> Nat] /\ offered' \in [Subs -> Nat] /\ last' \in [Subs -> Nat]
      BY <2>1, <3>1 DEF TypeOK, FreshInv
    <3>4. TypeOK'
      BY <2>1, <3>1, <3>2, <3>3 DEF TypeOK, PcType
    <3>5. \A q \in Publishers : ~Publishing(q) /\ ~Publishing(q)'
      BY <2>1, <3>2 DEF MutexInv
    <3>6. MutexInv' /\ FanInv' /\ NewestNeverRefused'
      BY <2>1, <3>2, <3>5 DEF MutexInv, FanInv, NewestNeverRefused
    <3>7. ServedInv'
      BY <2>1, <3>1, <3>3, <3>5 DEF ServedInv, TypeOK
    <3>8. NoPanic' /\ ChanInv' /\ FreshInv'
      BY <2>1, <3>1, <3>2, <3>3 DEF NoPanic, ChanInv, FreshInv
    <3>9. ClosedInv'
      BY <2>1, <2>3, <3>2, <3>5 DEF ClosedInv, Swept
    <3>10. QueueIsRecentSuffix'
      <4>1. ASSUME NEW t \in Subs
            PROVE  ConsecutiveUpTo(queue[t], offered'[t]) /\ last'[t] + Len(queue[t]) <= offered'[t]
        <5>1. CASE t = s
          <6>1. Len(queue[t]) = 0 /\ 1 .. Len(queue[t]) = {}
            BY <3>3, <5>1
          <6>2. ConsecutiveUpTo(queue[t], offered'[t])
            BY <6>1 DEF ConsecutiveUpTo
          <6>3. last'[t] = sequence /\ offered'[t] = sequence /\ sequence + 0 <= sequence
            BY <3>3, <5>1
          <6> QED
            BY <6>1, <6>2, <6>3
        <5>2. CASE t # s
          BY <3>3, <5>2 DEF QueueIsRecentSuffix
        <5> QED
          BY <5>1, <5>2
      <4> QED
        BY <2>1, <4>1 DEF QueueIsRecentSuffix
    <3>11. DropsAccounted'
      <4>1. ASSUME NEW t \in Subs
            PROVE  received[t] + Len(queue[t]) + dropped[t] = offered'[t] - joined'[t]
        <5>1. CASE t = s
          BY <3>3, <5>1
        <5>2. CASE t # s
          BY <3>3, <5>2 DEF DropsAccounted
        <5> QED
          BY <5>1, <5>2
      <4> QED
        BY <2>1, <4>1 DEF DropsAccounted
    <3> QED
      BY <3>4, <3>6, <3>7, <3>8, <3>9, <3>10, <3>11
  <2> QED
    BY <2>2, <2>3
<1>10. ASSUME NEW s \in Subs, Receive(s) PROVE IInv'
  <2>1. /\ pc[s] = "receive" /\ queue[s] # << >>
        /\ last' = [last EXCEPT ![s] = Head(queue[s])]
        /\ received' = [received EXCEPT ![s] = received[s] + 1]
        /\ queue' = [queue EXCEPT ![s] = Tail(queue[s])]
        /\ UNCHANGED <<closed, eventMu, handling, subscribers, sequence, subscriberDropped,
                       chan, dropped, todo, event, target, panicked, joined, offered>>
        /\ queue \in [Subs -> Seq(Nat)] /\ last \in [Subs -> Nat] /\ received \in [Subs -> Nat]
    BY <1>10 DEF Receive, TypeOK
  <2>pc. /\ PcType'
         /\ \A t \in Threads : t # s => pc'[t] = pc[t]
         /\ pc'[s] \in {"receive", "send"}
    <3>1. PcType /\ s \in Threads /\ (Goto(s, "send") \/ UNCHANGED pc)
      BY <1>10 DEF Receive, TypeOK, PcType
    <3>2. CASE Goto(s, "send")
      <4>1. "send" \in SubPC
        BY DEF SubPC
      <4>2. PcType' /\ \A u \in Threads : pc'[u] = IF u = s THEN "send" ELSE pc[u]
        BY <3>1, <3>2, <4>1, GotoType
      <4> QED
        BY <3>1, <4>2
    <3>3. CASE UNCHANGED pc
      BY <2>1, <3>1, <3>3 DEF PcType
    <3> QED
      BY <3>1, <3>2, <3>3
  <2>others. \A t \in Publishers \cup Closers : pc'[t] = pc[t]
    BY <2>pc
  <2>2. /\ queue'[s] = Tail(queue[s]) /\ last'[s] = Head(queue[s])
        /\ received'[s] = received[s] + 1
        /\ \A t \in Subs : t # s => /\ queue'[t] = queue[t] /\ last'[t] = last[t]
                                    /\ received'[t] = received[t]
    BY <2>1
  <2>3. /\ Tail(queue[s]) \in Seq(Nat) /\ Head(queue[s]) \in Nat
        /\ Len(queue[s]) \in Nat /\ Len(queue[s]) > 0
        /\ Len(queue'[s]) = Len(queue[s]) - 1
    BY <2>1, <2>2, TailFacts
  <2>4. TypeOK'
    <3>1. \A t \in Subs : Len(queue[t]) \in Nat /\ Len(queue[t]) <= Buffer
      BY SubTypes
    <3>2. ASSUME NEW t \in Subs PROVE Len(queue'[t]) <= Buffer
      <4>1. CASE t = s
        BY <2>3, <3>1, <4>1
      <4>2. CASE t # s
        BY <2>2, <3>1, <4>2
      <4> QED
        BY <4>1, <4>2
    <3>3. queue' \in [Subs -> Seq(Nat)] /\ last' \in [Subs -> Nat] /\ received' \in [Subs -> Nat]
      BY <2>1, <2>3
    <3> QED
      BY <2>1, <2>pc, <3>2, <3>3 DEF TypeOK, PcType
  <2>5. MutexInv' /\ FanInv' /\ ServedInv'
    BY <2>1, <2>others DEF MutexInv, FanInv, ServedInv
  <2>6. NewestNeverRefused'
    <3>1. \A t \in Subs : Len(queue'[t]) <= Len(queue[t]) /\ Len(queue[t]) \in Nat
      <4>1. ASSUME NEW t \in Subs PROVE Len(queue'[t]) <= Len(queue[t]) /\ Len(queue[t]) \in Nat
        <5>1. CASE t = s
          BY <2>3, <5>1
        <5>2. CASE t # s
          BY <2>2, <5>2, SubTypes
        <5> QED
          BY <5>1, <5>2
      <4> QED
        BY <4>1
    <3>2. ASSUME NEW p \in Publishers, pc[p] = "retry" PROVE Len(queue'[target[p]]) < Buffer
      <4>1. target[p] \in Subs /\ Len(queue[target[p]]) < Buffer
        BY <3>2 DEF NewestNeverRefused, FanInv, TypeOK
      <4>2. Len(queue'[target[p]]) \in Nat
        BY <2>1, <2>2, <2>3, <4>1, SubTypes
      <4> QED
        BY <3>1, <4>1, <4>2, BufferAssumption
    <3> QED
      BY <2>1, <2>others, <3>2 DEF NewestNeverRefused
  <2>7. NoPanic' /\ ChanInv' /\ FreshInv' /\ ClosedInv'
    BY <2>1, <2>2, <2>pc, <2>others DEF NoPanic, ChanInv, FreshInv, ClosedInv, Swept
  <2>8. ASSUME NEW t \in Subs
        PROVE  /\ ConsecutiveUpTo(queue'[t], offered[t])
               /\ last'[t] + Len(queue'[t]) <= offered[t]
               /\ received'[t] + Len(queue'[t]) + dropped[t] = offered[t] - joined[t]
    <3>1. /\ ConsecutiveUpTo(queue[t], offered[t])
          /\ last[t] + Len(queue[t]) <= offered[t]
          /\ received[t] + Len(queue[t]) + dropped[t] = offered[t] - joined[t]
      BY DEF QueueIsRecentSuffix, DropsAccounted
    <3>2. CASE t = s
      <4>1. /\ ConsecutiveUpTo(queue'[t], offered[t])
            /\ last'[t] = (offered[t] + 1) - Len(queue[t])
        BY <2>1, <2>2, <3>1, <3>2, SubTypes, ConsecutiveTail
      <4>2. PICK q, o, r, d, j \in Nat :
              /\ q = Len(queue[s]) /\ o = offered[s]
              /\ r = received[s] /\ d = dropped[s] /\ j = joined[s]
        BY SubTypes
      <4>3. r + q + d = o - j /\ q > 0 /\ last'[t] = (o + 1) - q
        BY <2>3, <3>1, <3>2, <4>1, <4>2
      <4>4. ((o + 1) - q) + (q - 1) <= o /\ (r + 1) + (q - 1) + d = o - j
        BY <4>3
      <4> QED
        BY <2>2, <2>3, <3>2, <4>1, <4>2, <4>3, <4>4
    <3>3. CASE t # s
      BY <2>2, <3>1, <3>3
    <3> QED
      BY <3>2, <3>3
  <2>9. QueueIsRecentSuffix' /\ DropsAccounted'
    BY <2>1, <2>8 DEF QueueIsRecentSuffix, DropsAccounted
  <2> QED
    BY <2>4, <2>5, <2>6, <2>7, <2>9
<1>sent. ASSUME NEW s \in Subs, Sent(s) PROVE IInv'
  <2> USE <1>sent DEF Sent
  <2>1. TypeOK'
    BY DEF TypeOK, PublisherPC, SubPC, CloserPC
  <2>2. MutexInv' /\ FanInv' /\ NewestNeverRefused'
    BY DEF TypeOK, MutexInv, FanInv, NewestNeverRefused
  <2>3. ServedInv'
    BY DEF TypeOK, ServedInv, FanInv, MutexInv, FreshInv
  <2>4. NoPanic' /\ ChanInv' /\ FreshInv'
    BY DEF TypeOK, NoPanic, ChanInv, FreshInv, FanInv
  <2>5. ClosedInv'
    BY DEF TypeOK, ClosedInv, MutexInv, FanInv, Swept
  <2>6. QueueIsRecentSuffix' /\ DropsAccounted'
    BY CountsUndisturbed
  <2> QED
    BY <2>1, <2>2, <2>3, <2>4, <2>5, <2>6 DEF IInv
<1>11. ASSUME NEW s \in Subs, StreamEnd(s) PROVE IInv'
  <2> USE <1>11 DEF StreamEnd
  <2>1. TypeOK'
    BY DEF TypeOK, PublisherPC, SubPC, CloserPC
  <2>2. MutexInv' /\ FanInv' /\ NewestNeverRefused'
    BY DEF TypeOK, MutexInv, FanInv, NewestNeverRefused
  <2>3. ServedInv'
    BY DEF TypeOK, ServedInv, FanInv, MutexInv, FreshInv
  <2>4. NoPanic' /\ ChanInv' /\ FreshInv'
    BY DEF TypeOK, NoPanic, ChanInv, FreshInv, FanInv
  <2>5. ClosedInv'
    BY DEF TypeOK, ClosedInv, MutexInv, FanInv, Swept
  <2>6. QueueIsRecentSuffix' /\ DropsAccounted'
    BY CountsUndisturbed
  <2> QED
    BY <2>1, <2>2, <2>3, <2>4, <2>5, <2>6 DEF IInv
<1>12. ASSUME NEW s \in Subs, StreamCancel(s) PROVE IInv'
  <2> USE <1>12 DEF StreamCancel
  <2>1. TypeOK'
    BY DEF TypeOK, PublisherPC, SubPC, CloserPC
  <2>2. MutexInv' /\ FanInv' /\ NewestNeverRefused'
    BY DEF TypeOK, MutexInv, FanInv, NewestNeverRefused
  <2>3. ServedInv'
    BY DEF TypeOK, ServedInv, FanInv, MutexInv, FreshInv
  <2>4. NoPanic' /\ ChanInv' /\ FreshInv'
    BY DEF TypeOK, NoPanic, ChanInv, FreshInv, FanInv
  <2>5. ClosedInv'
    BY DEF TypeOK, ClosedInv, MutexInv, FanInv, Swept
  <2>6. QueueIsRecentSuffix' /\ DropsAccounted'
    BY CountsUndisturbed
  <2> QED
    BY <2>1, <2>2, <2>3, <2>4, <2>5, <2>6 DEF IInv
<1>13. ASSUME NEW s \in Subs, RemoveSubscriber(s) PROVE IInv'
  <2>1. /\ pc[s] = "leave" /\ eventMu = Free /\ s \in Threads /\ Goto(s, "end")
        /\ UNCHANGED <<closed, eventMu, handling, sequence, subscriberDropped, queue,
                       dropped, todo, event, target, history>>
    BY <1>13 DEF RemoveSubscriber, MutexFree
  <2>2. /\ panicked' = FALSE /\ subscribers' = subscribers \ {s}
        /\ chan' \in [Subs -> {"none", "open", "closed"}] /\ chan'[s] # "open"
        /\ \A t \in Subs : t # s => chan'[t] = chan[t]
    <3>1. CASE s \in subscribers
      <4>1. Drop(s) /\ chan[s] = "open" /\ ~panicked
        BY <1>13, <3>1 DEF RemoveSubscriber, Registered, ChanInv, NoPanic
      <4> QED
        BY <4>1 DEF Drop, TypeOK
    <3>2. CASE s \notin subscribers
      <4>1. UNCHANGED <<subscribers, panicked, chan>> /\ chan[s] # "open" /\ ~panicked
        BY <1>13, <3>2 DEF RemoveSubscriber, Registered, ChanInv, NoPanic
      <4>2. subscribers \ {s} = subscribers
        BY <3>2
      <4> QED
        BY <4>1, <4>2 DEF TypeOK
    <3> QED
      BY <3>1, <3>2
  <2>3. PcType' /\ \A u \in Threads : pc'[u] = IF u = s THEN "end" ELSE pc[u]
    BY <2>1, GotoType DEF TypeOK, PcType, SubPC
  <2>4. TypeOK'
    BY <2>1, <2>2, <2>3 DEF TypeOK, PcType
  <2>5. \A q \in Publishers : ~Publishing(q) /\ ~Publishing(q)'
    BY <2>1, <2>3 DEF MutexInv
  <2>6. MutexInv' /\ FanInv' /\ NewestNeverRefused' /\ ServedInv'
    BY <2>1, <2>2, <2>3, <2>5 DEF MutexInv, FanInv, NewestNeverRefused, ServedInv
  <2>7. NoPanic' /\ ChanInv' /\ FreshInv'
    BY <2>1, <2>2, <2>3 DEF NoPanic, ChanInv, FreshInv
  <2>8. ClosedInv'
    BY <2>1, <2>2, <2>3, <2>5 DEF ClosedInv, Swept
  <2>9. QueueIsRecentSuffix' /\ DropsAccounted'
    BY <2>1, CountsUndisturbed
  <2> QED
    BY <2>4, <2>6, <2>7, <2>8, <2>9
<1>14. ASSUME NEW c \in Closers, CloseBegin(c) PROVE IInv'
  <2> USE <1>14 DEF CloseBegin
  <2>1. TypeOK'
    BY DEF TypeOK, PublisherPC, SubPC, CloserPC
  <2>2. MutexInv' /\ FanInv' /\ NewestNeverRefused'
    BY DEF TypeOK, MutexInv, FanInv, NewestNeverRefused
  <2>3. ServedInv'
    BY DEF TypeOK, ServedInv, FanInv, MutexInv, FreshInv
  <2>4. NoPanic' /\ ChanInv' /\ FreshInv'
    BY DEF TypeOK, NoPanic, ChanInv, FreshInv, FanInv
  <2>5. ClosedInv'
    BY DEF TypeOK, ClosedInv, MutexInv, FanInv, Swept
  <2>6. QueueIsRecentSuffix' /\ DropsAccounted'
    BY CountsUndisturbed
  <2> QED
    BY <2>1, <2>2, <2>3, <2>4, <2>5, <2>6 DEF IInv
<1>15. ASSUME NEW c \in Closers, CloseUnsubscribe(c) PROVE IInv'
  <2> USE <1>15 DEF CloseUnsubscribe
  <2>1. TypeOK'
    BY DEF TypeOK, PublisherPC, SubPC, CloserPC
  <2>2. MutexInv' /\ FanInv' /\ NewestNeverRefused'
    BY DEF TypeOK, MutexInv, FanInv, NewestNeverRefused
  <2>3. ServedInv'
    BY DEF TypeOK, ServedInv, FanInv, MutexInv, FreshInv
  <2>4. NoPanic' /\ ChanInv' /\ FreshInv'
    BY DEF TypeOK, NoPanic, ChanInv, FreshInv, FanInv
  <2>5. ClosedInv'
    BY DEF TypeOK, ClosedInv, MutexInv, FanInv, Swept
  <2>6. QueueIsRecentSuffix' /\ DropsAccounted'
    BY CountsUndisturbed
  <2> QED
    BY <2>1, <2>2, <2>3, <2>4, <2>5, <2>6 DEF IInv
<1>16. ASSUME NEW c \in Closers, CloseLock(c) PROVE IInv'
  <2> USE <1>16 DEF CloseLock, MutexFree
  <2>1. TypeOK'
    BY DEF TypeOK, PublisherPC, SubPC, CloserPC
  <2>2. MutexInv' /\ FanInv' /\ NewestNeverRefused'
    BY DEF TypeOK, MutexInv, FanInv, NewestNeverRefused
  <2>3. ServedInv'
    BY DEF TypeOK, ServedInv, FanInv, MutexInv, FreshInv
  <2>4. NoPanic' /\ ChanInv' /\ FreshInv'
    BY DEF TypeOK, NoPanic, ChanInv, FreshInv, FanInv
  <2>5. ClosedInv'
    BY DEF TypeOK, ClosedInv, MutexInv, FanInv, Swept
  <2>6. QueueIsRecentSuffix' /\ DropsAccounted'
    BY CountsUndisturbed
  <2> QED
    BY <2>1, <2>2, <2>3, <2>4, <2>5, <2>6 DEF IInv
<1>17. ASSUME NEW c \in Closers, CloseSweep(c) PROVE IInv'
  <2> USE <1>17 DEF CloseSweep, Drop
  <2>1. TypeOK'
    BY DEF TypeOK, PublisherPC, SubPC, CloserPC
  <2>2. MutexInv' /\ FanInv' /\ NewestNeverRefused'
    BY DEF TypeOK, MutexInv, FanInv, NewestNeverRefused
  <2>3. ServedInv'
    BY DEF TypeOK, ServedInv, FanInv, MutexInv, FreshInv
  <2>4. NoPanic' /\ ChanInv' /\ FreshInv'
    <3>1. PICK s \in subscribers : Drop(s)
      OBVIOUS
    <3>2. s \in Subs /\ chan[s] = "open"
      BY <3>1 DEF TypeOK, ChanInv
    <3>3. NoPanic'
      BY <3>1, <3>2 DEF NoPanic
    <3>4. ChanInv'
      BY <3>1, <3>2 DEF TypeOK, ChanInv
    <3>5. FreshInv'
      BY <3>1 DEF TypeOK, FreshInv
    <3> QED
      BY <3>3, <3>4, <3>5
  <2>5. ClosedInv'
    BY DEF TypeOK, ClosedInv, MutexInv, FanInv, Swept
  <2>6. QueueIsRecentSuffix' /\ DropsAccounted'
    BY CountsUndisturbed
  <2> QED
    BY <2>1, <2>2, <2>3, <2>4, <2>5, <2>6 DEF IInv
<1>18. ASSUME NEW c \in Closers, CloseUnlock(c) PROVE IInv'
  <2> USE <1>18 DEF CloseUnlock
  <2>1. TypeOK'
    BY DEF TypeOK, PublisherPC, SubPC, CloserPC
  <2>2. MutexInv' /\ FanInv' /\ NewestNeverRefused'
    BY DEF TypeOK, MutexInv, FanInv, NewestNeverRefused
  <2>3. ServedInv'
    BY DEF TypeOK, ServedInv, FanInv, MutexInv, FreshInv
  <2>4. NoPanic' /\ ChanInv' /\ FreshInv'
    BY DEF TypeOK, NoPanic, ChanInv, FreshInv, FanInv
  <2>5. ClosedInv'
    BY DEF TypeOK, ClosedInv, MutexInv, FanInv, Swept
  <2>6. QueueIsRecentSuffix' /\ DropsAccounted'
    BY CountsUndisturbed
  <2> QED
    BY <2>1, <2>2, <2>3, <2>4, <2>5, <2>6 DEF IInv
<1>19. ASSUME NEW c \in Closers, CloseClient(c) PROVE IInv'
  <2> USE <1>19 DEF CloseClient
  <2>1. TypeOK'
    BY DEF TypeOK, PublisherPC, SubPC, CloserPC
  <2>2. MutexInv' /\ FanInv' /\ NewestNeverRefused'
    BY DEF TypeOK, MutexInv, FanInv, NewestNeverRefused
  <2>3. ServedInv'
    BY DEF TypeOK, ServedInv, FanInv, MutexInv, FreshInv
  <2>4. NoPanic' /\ ChanInv' /\ FreshInv'
    BY DEF TypeOK, NoPanic, ChanInv, FreshInv, FanInv
  <2>5. ClosedInv'
    BY DEF TypeOK, ClosedInv, MutexInv, FanInv, Swept
  <2>6. QueueIsRecentSuffix' /\ DropsAccounted'
    BY CountsUndisturbed
  <2> QED
    BY <2>1, <2>2, <2>3, <2>4, <2>5, <2>6 DEF IInv
<1>20. CASE UNCHANGED vars
  BY <1>20 DEF vars, TypeOK, NoPanic, MutexInv, FanInv, ServedInv, ChanInv, FreshInv,
       ClosedInv, Swept, QueueIsRecentSuffix, DropsAccounted, NewestNeverRefused
<1> QED
  BY <1>1, <1>2, <1>3, <1>4, <1>5, <1>6, <1>7, <1>8, <1>9, <1>10, <1>sent, <1>11, <1>12, <1>13,
     <1>14, <1>15, <1>16, <1>17, <1>18, <1>19, <1>20
     DEF Next, Publish, Consume, CloseSession

-----------------------------------------------------------------------------
(* The theorems *)

\* IInv holds in every reachable state.
LEMMA Invariance == Spec => []IInv
<1>1. SafeSpec => []IInv
  BY InitIInv, StepIInv, PTL DEF SafeSpec
<1> QED
  BY <1>1, PTL DEF Spec

\* Every variable keeps its type and no channel of publish's subscribers ever holds
\* more than its capacity.
THEOREM TypesHold == Spec => []TypeOK
<1>1. IInv => TypeOK
  BY DEF IInv
<1> QED
  BY <1>1, Invariance, PTL

\* publish, Subscription.Close and Session.Close never send on a closed channel nor
\* close one twice, for any number of goroutines.
THEOREM NeverPanics == Spec => []NoPanic
<1>1. IInv => NoPanic
  BY DEF IInv
<1> QED
  BY <1>1, Invariance, PTL

\* A subscriber's channel always holds the most recent events offered to it, in order
\* and without a hole, all newer than what its consumer has received.
THEOREM QueuesHoldRecentSuffix == Spec => []QueueIsRecentSuffix
<1>1. IInv => QueueIsRecentSuffix
  BY DEF IInv
<1> QED
  BY <1>1, Invariance, PTL

\* Subscription.Dropped accounts for every event offered and neither received nor queued.
THEOREM DropsAreAccounted == Spec => []DropsAccounted
<1>1. IInv => DropsAccounted
  BY DEF IInv
<1> QED
  BY <1>1, Invariance, PTL

\* After publish has evicted the oldest entry its second send finds room.
THEOREM NewestIsNeverRefused == Spec => []NewestNeverRefused
<1>1. IInv => NewestNeverRefused
  BY DEF IInv
<1> QED
  BY <1>1, Invariance, PTL

\* Every registered subscriber has been offered every event since it joined, except
\* the one whose fan-out is under way.
THEOREM NothingIsSkipped == Spec => []NothingSkipped
<1>1. IInv => NothingSkipped
  <2> SUFFICES ASSUME IInv, NEW s \in subscribers
               PROVE  offered[s] = IF \E p \in Publishers : Publishing(p) /\ s \in todo[p]
                                   THEN sequence - 1 ELSE sequence
    BY DEF NothingSkipped
  <2>1. CASE \A p \in Publishers : ~Publishing(p)
    BY <2>1 DEF IInv, ServedInv
  <2>2. CASE \E p \in Publishers : Publishing(p)
    <3>1. PICK p \in Publishers : Publishing(p)
      BY <2>2
    <3>2. \A q \in Publishers : Publishing(q) => q = p
      BY <3>1 DEF IInv, MutexInv
    <3>3. offered[s] = IF s \in todo[p] THEN sequence - 1 ELSE sequence
      BY <3>1 DEF IInv, ServedInv
    <3> QED
      BY <3>1, <3>2, <3>3
  <2> QED
    BY <2>1, <2>2
<1> QED
  BY <1>1, Invariance, PTL

\* After Session.Close has swept, no subscriber is registered and no channel is open,
\* whatever overlapped the sweep.
THEOREM NoSubscriberLeaks == Spec => []NoSubscriberLeak
<1>1. IInv => NoSubscriberLeak
  BY DEF IInv, ClosedInv, ChanInv, NoSubscriberLeak
<1> QED
  BY <1>1, Invariance, PTL

\* After the sweep no event is numbered and no channel gains an entry.
THEOREM NothingIsPublishedAfterClose == Spec => NothingPublishedAfterClose
<1> DEFINE Quiet == Swept => /\ sequence' = sequence
                             /\ \A s \in Subs : Len(queue'[s]) <= Len(queue[s])
<1>1. ASSUME IInv, [Next]_vars, Swept
      PROVE  /\ sequence' = sequence
             /\ \A s \in Subs : Len(queue'[s]) <= Len(queue[s])
  <2>0. \A s \in Subs : Len(queue[s]) \in Nat /\ Len(queue[s]) <= Len(queue[s])
    BY <1>1, SubTypes DEF IInv
  <2>1. closed /\ \A p \in Publishers : ~Publishing(p)
    BY <1>1, ThreadsAssumption DEF IInv, ClosedInv, Swept
  <2>2. ASSUME NEW p \in Publishers, PublishEnter(p) \/ Publish(p)
        PROVE  UNCHANGED <<sequence, queue>>
    BY <2>1, <2>2 DEF PublishEnter, Publish, PublishCheck, PublishLock, PublishSend,
         PublishEvict, PublishRetry, PublishDone, ClosedMeanwhile, Publishing, shared,
         channels
  <2>3. ASSUME NEW s \in Subs, Receive(s)
        PROVE  sequence' = sequence /\ \A t \in Subs : Len(queue'[t]) <= Len(queue[t])
    <3>1. /\ queue[s] \in Seq(Nat) /\ queue[s] # << >> /\ queue \in [Subs -> Seq(Nat)]
          /\ queue' = [queue EXCEPT ![s] = Tail(queue[s])] /\ sequence' = sequence
      BY <1>1, <2>3 DEF IInv, TypeOK, Receive, shared
    <3>2. Len(queue'[s]) <= Len(queue[s])
      BY <3>1, TailFacts
    <3>3. \A t \in Subs : t # s => queue'[t] = queue[t]
      BY <3>1
    <3> QED
      BY <2>0, <3>1, <3>2, <3>3
  <2>4. ASSUME NEW s \in Subs, Consume(s), ~Receive(s)
        PROVE  UNCHANGED <<sequence, queue>>
    BY <2>4 DEF Consume, SubscribeCheck, SubscribeLock, Sent, StreamEnd, StreamCancel,
         RemoveSubscriber, shared, channels
  <2>5. ASSUME NEW c \in Closers, CloseSession(c)
        PROVE  UNCHANGED <<sequence, queue>>
    BY <2>5 DEF CloseSession, CloseBegin, CloseUnsubscribe, CloseLock, CloseSweep,
         CloseUnlock, CloseClient, shared, channels
  <2>6. CASE UNCHANGED vars
    BY <2>0, <2>6 DEF vars, shared, channels
  <2> QED
    BY <1>1, <2>0, <2>2, <2>3, <2>4, <2>5, <2>6 DEF Next
<1>2. IInv /\ [Next]_vars => [Quiet]_vars
  BY <1>1
<1>3. Spec => [][Next]_vars
  BY DEF Spec, SafeSpec
<1> QED
  BY <1>2, <1>3, Invariance, PTL DEF NothingPublishedAfterClose

-----------------------------------------------------------------------------
(* The fan-out implements EventStream *)

\* No channel was offered an event that has not been numbered.
OfferedInv == \A s \in Subs : offered[s] <= sequence

\* At first nothing is numbered and nothing offered.
LEMMA InitOffered == Init => OfferedInv
BY DEF Init, OfferedInv

\* publish offers an event only after it has numbered it; Subscribe joins at the
\* current number.
LEMMA StepOffered == IInv /\ OfferedInv /\ [Next]_vars => OfferedInv'
<1> SUFFICES ASSUME IInv, OfferedInv, [Next]_vars PROVE OfferedInv'
  OBVIOUS
<1>1. sequence \in Nat /\ offered \in [Subs -> Nat] /\ \A s \in Subs : offered[s] <= sequence
  BY DEF IInv, TypeOK, OfferedInv
<1>2. ASSUME NEW p \in Publishers, PublishLock(p) PROVE OfferedInv'
  <2>1. offered' = offered /\ (sequence' = sequence \/ sequence' = sequence + 1)
    BY <1>2 DEF PublishLock, shared, history
  <2> QED
    BY <1>1, <2>1 DEF OfferedInv
<1>3. ASSUME NEW p \in Publishers, PublishSend(p) \/ PublishRetry(p) PROVE OfferedInv'
  <2>1. event[p] = sequence
    BY <1>3 DEF IInv, FanInv, Publishing, PublishSend, PublishRetry
  <2>2. sequence' = sequence
    BY <1>3 DEF PublishSend, PublishRetry, shared
  <2>3. offered' = offered \/ \E s \in Subs : offered' = [offered EXCEPT ![s] = sequence]
    BY <1>3, <2>1 DEF PublishSend, PublishRetry, Enqueue, IInv, FanInv, TypeOK, Publishing
  <2> QED
    BY <1>1, <2>2, <2>3 DEF OfferedInv
<1>4. ASSUME NEW s \in Subs, SubscribeLock(s) PROVE OfferedInv'
  <2>1. /\ sequence' = sequence
        /\ offered' = offered \/ offered' = [offered EXCEPT ![s] = sequence]
    BY <1>4 DEF SubscribeLock, history
  <2> QED
    BY <1>1, <2>1 DEF OfferedInv
<1>5. CASE UNCHANGED <<sequence, offered>>
  BY <1>1, <1>5 DEF OfferedInv
<1>6. CASE \E p \in Publishers :
             PublishEnter(p) \/ PublishCheck(p) \/ PublishEvict(p) \/ PublishDone(p)
  BY <1>5, <1>6 DEF PublishEnter, PublishCheck, PublishEvict, PublishDone, shared, history
<1>7. CASE \E s \in Subs : \/ SubscribeCheck(s) \/ Receive(s) \/ Sent(s) \/ StreamEnd(s)
                           \/ StreamCancel(s) \/ RemoveSubscriber(s)
  BY <1>5, <1>7 DEF SubscribeCheck, Receive, Sent, StreamEnd, StreamCancel, RemoveSubscriber,
       shared, history
<1>8. CASE \E c \in Closers : CloseSession(c)
  BY <1>5, <1>8 DEF CloseSession, CloseBegin, CloseUnsubscribe, CloseLock, CloseSweep,
       CloseUnlock, CloseClient, shared, history
<1>9. CASE UNCHANGED vars
  BY <1>5, <1>9 DEF vars, shared, history
<1> QED
  BY <1>2, <1>3, <1>4, <1>6, <1>7, <1>8, <1>9 DEF Next, Publish, Consume

\* Only a closer that moves can change whether the session has been swept.
LEMMA SweptStays ==
  ASSUME TypeOK, NEW t \in Publishers \cup Subs, NEW label,
         Goto(t, label) \/ UNCHANGED pc
  PROVE  Swept' = Swept
BY ThreadsAssumption DEF TypeOK, Goto, Swept, Threads

\* Each step of the session is a step of the promised stream or changes nothing of it.
LEMMA StepStream == IInv /\ OfferedInv /\ [Next]_vars => [Stream!StreamNext]_(Stream!streamVars)
<1> SUFFICES ASSUME IInv, OfferedInv, [Next]_vars
             PROVE  Stream!StreamNext \/ UNCHANGED <<sequence, last, Swept>>
  BY DEF Stream!streamVars
<1>1. TypeOK
  BY DEF IInv
<1>2. ASSUME NEW p \in Publishers, PublishLock(p)
      PROVE  Stream!StreamNext \/ UNCHANGED <<sequence, last, Swept>>
  <2>1. Swept' = Swept /\ last' = last
    BY <1>1, <1>2, SweptStays DEF PublishLock, history
  <2>2. CASE closed
    BY <1>2, <2>1, <2>2 DEF PublishLock, ClosedMeanwhile, shared
  <2>3. CASE ~closed
    <3>1. ~Swept
      BY <2>3, ThreadsAssumption DEF IInv, ClosedInv, Swept
    <3>2. sequence' = sequence + 1
      BY <1>2, <2>3 DEF PublishLock, ClosedMeanwhile
    <3> QED
      BY <2>1, <3>1, <3>2 DEF Stream!StreamNext, Stream!Emit
  <2> QED
    BY <2>2, <2>3
<1>3. ASSUME NEW p \in Publishers,
             \/ PublishEnter(p) \/ PublishCheck(p) \/ PublishSend(p) \/ PublishEvict(p)
             \/ PublishRetry(p) \/ PublishDone(p)
      PROVE  UNCHANGED <<sequence, last, Swept>>
  <2>1. UNCHANGED <<sequence, last>>
    BY <1>3 DEF PublishEnter, PublishCheck, PublishSend, PublishEvict, PublishRetry,
         PublishDone, shared, history
  <2>2. UNCHANGED pc \/ \E label : Goto(p, label)
    BY <1>3 DEF PublishEnter, PublishCheck, PublishSend, PublishEvict, PublishRetry,
         PublishDone
  <2> QED
    BY <1>1, <2>1, <2>2, SweptStays
<1>4. ASSUME NEW s \in Subs, SubscribeLock(s)
      PROVE  Stream!StreamNext \/ UNCHANGED <<sequence, last, Swept>>
  <2>1. Swept' = Swept /\ sequence' = sequence
    BY <1>1, <1>4, SweptStays DEF SubscribeLock
  <2>2. last' = last \/ last' = [last EXCEPT ![s] = sequence]
    BY <1>4 DEF SubscribeLock, history
  <2> QED
    BY <2>1, <2>2 DEF Stream!StreamNext, Stream!Join
<1>5. ASSUME NEW s \in Subs, Receive(s) PROVE Stream!StreamNext
  <2>1. /\ Goto(s, "send") \/ UNCHANGED pc
        /\ sequence' = sequence /\ last' = [last EXCEPT ![s] = Head(queue[s])]
        /\ queue[s] # << >>
    BY <1>5 DEF Receive, shared
  <2>2. Swept' = Swept
    BY <1>1, <2>1, SweptStays
  <2>3. Head(queue[s]) = (offered[s] + 1) - Len(queue[s])
    BY <1>1, <2>1, SubTypes, ConsecutiveTail DEF IInv, QueueIsRecentSuffix
  <2>4. last[s] + Len(queue[s]) <= offered[s] /\ offered[s] <= sequence
    BY DEF IInv, QueueIsRecentSuffix, OfferedInv
  <2>5. /\ Len(queue[s]) \in Nat /\ Len(queue[s]) > 0
        /\ last[s] \in Nat /\ offered[s] \in Nat /\ sequence \in Nat
    BY <1>1, <2>1, SubTypes, TailFacts DEF TypeOK
  <2>6. Head(queue[s]) \in (last[s] + 1) .. sequence
    BY <2>3, <2>4, <2>5
  <2> QED
    BY <2>1, <2>2, <2>6 DEF Stream!StreamNext, Stream!Deliver
<1>6. ASSUME NEW s \in Subs,
             \/ SubscribeCheck(s) \/ Sent(s) \/ StreamEnd(s) \/ StreamCancel(s)
             \/ RemoveSubscriber(s)
      PROVE  UNCHANGED <<sequence, last, Swept>>
  <2>1. UNCHANGED <<sequence, last>> /\ \E label : Goto(s, label)
    BY <1>6 DEF SubscribeCheck, Sent, StreamEnd, StreamCancel, RemoveSubscriber, shared, history
  <2> QED
    BY <1>1, <2>1, SweptStays
<1>7. ASSUME NEW c \in Closers, CloseSession(c)
      PROVE  Stream!StreamNext \/ UNCHANGED <<sequence, last, Swept>>
  <2>1. UNCHANGED <<sequence, last>>
    BY <1>7 DEF CloseSession, CloseBegin, CloseUnsubscribe, CloseLock, CloseSweep,
         CloseUnlock, CloseClient, shared, history
  <2>2. CASE CloseUnlock(c)
    <3>1. Swept'
      BY <1>1, <2>2, ThreadsAssumption DEF CloseUnlock, Goto, Swept, TypeOK, Threads
    <3> QED
      BY <2>1, <3>1 DEF Stream!StreamNext, Stream!End
  <2>3. CASE ~CloseUnlock(c)
    <3>1. Swept' = Swept
      BY <1>1, <1>7, <2>3, ThreadsAssumption DEF CloseSession, CloseBegin,
           CloseUnsubscribe, CloseLock, CloseSweep, CloseClient, Goto, Swept, TypeOK, Threads
    <3> QED
      BY <2>1, <3>1
  <2> QED
    BY <2>2, <2>3
<1>8. CASE UNCHANGED vars
  BY <1>8 DEF vars, shared, history, Swept
<1> QED
  BY <1>2, <1>3, <1>4, <1>5, <1>6, <1>7, <1>8 DEF Next, Publish, Consume

\* The session keeps the promise EventStream makes to its consumers: what a consumer
\* receives are events numbered after it joined, in order, none twice, and none is
\* published after the end.
THEOREM ImplementsEventStream == Spec => ImplementsStream
<1>1. Init => Stream!StreamInit
  BY ThreadsAssumption DEF Init, Stream!StreamInit, Swept, Threads
<1>2. Spec => [](IInv /\ OfferedInv)
  <2>1. Init /\ [][Next]_vars /\ []IInv => []OfferedInv
    BY InitOffered, StepOffered, PTL
  <2> QED
    BY <2>1, Invariance, PTL DEF Spec, SafeSpec
<1> QED
  BY <1>1, <1>2, StepStream, PTL DEF Spec, SafeSpec, ImplementsStream, Stream!StreamSpec
=============================================================================
