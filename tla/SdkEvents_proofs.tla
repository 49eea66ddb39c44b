--------------------------- MODULE SdkEvents_proofs ---------------------------
(***************************************************************************)
(* The event streams of both SDKs, for any number of iterators and listeners, *)
(* any buffer and any number of events: the queue of the Python SDK has room *)
(* for its sentinel, the Node SDK drains before it reports an error, and the *)
(* streams implement IteratorPromise.                                        *)
(***************************************************************************)
EXTENDS SdkEvents, TLAPS

QueueType == [buffer : Seq(Events \cup {END}), ended : BOOLEAN, failed : BOOLEAN,
              consumer : {"new", "idle", "waiting", "settled", "over"},
              hand : Events \cup {NONE, END, ERROR}]

HistoryOK ==
    /\ log \in Seq(Events) /\ over \in {"open", "ended", "failed"}
    /\ joined \in [Iterators -> Int] /\ \A i \in Iterators : joined[i] >= -1
    /\ got \in [Iterators -> Seq(Events)]
    /\ outcome \in [Iterators -> {"open", "done", "error", "left"}]
    /\ late \subseteq Iterators

-----------------------------------------------------------------------------
(* The inductive invariant *)

Base(i) == joined[i] + Len(got[i])  \* where in the log iterator i has come to

\* What lies between iterator i and the end of the log: an event it is about to be
\* handed, and those in its buffer.
InHand(q) == IF q.hand \in Events THEN 1 ELSE 0
Buffered(q) == IF q.buffer # <<>> /\ q.buffer[Len(q.buffer)] = END
               THEN Len(q.buffer) - 1 ELSE Len(q.buffer)
Pending(q) == InHand(q) + Buffered(q)

\* The sentinel of the Python queue comes last, alone after a failure, and the
\* buffer never outgrows its limit.
Shape(q) ==
    /\ \A k \in 1..Len(q.buffer) : q.buffer[k] = END => sdk = "python" /\ q.ended /\ k = Len(q.buffer)
    /\ Buffered(q) <= Limit
    /\ q.failed => q.ended /\ (sdk = "python" => Buffered(q) = 0)
    /\ q.consumer = "settled" <=> q.hand # NONE
    /\ q.consumer = "new" => q.buffer = <<>> /\ ~q.ended /\ ~q.failed
    /\ q.consumer = "waiting" /\ sdk = "node" => q.buffer = <<>> /\ ~q.ended
    /\ q.hand \in {END, ERROR} => q.buffer = <<>>

\* Hand and buffer are a stretch of the log without a gap.
InOrder(i) ==
    LET q == queue[i] IN
    /\ q.hand \in Events => Base(i) + 1 <= Len(log) /\ q.hand = log[Base(i) + 1]
    /\ \A k \in 1..Len(q.buffer) : q.buffer[k] # END =>
         /\ Base(i) + InHand(q) + k <= Len(log)
         /\ q.buffer[k] = log[Base(i) + InHand(q) + k]

\* It reaches to the end of the log, unless the queue gave up for the iterator's slowness,
\* and in Python for the stream's failure.
Complete(i) ==
    LET q == queue[i] IN
    /\ q.ended => q.failed \/ closed
    /\ ~q.failed \/ (sdk = "node" /\ i \notin late) => Pending(q) = Unread(i)
    /\ q.failed => over = "failed" \/ i \in late
    /\ q.hand = END => closed /\ ~q.failed
    /\ q.hand = ERROR => q.failed

IteratorInv(i) ==
    /\ joined[i] = -1 <=> queue[i].consumer = "new"
    /\ joined[i] <= Len(log)
    /\ outcome[i] = "open" <=> queue[i].consumer # "over"
    /\ joined[i] = -1 => got[i] = <<>>
    /\ i \in members => /\ queue[i].consumer \notin {"new", "over"}
                        /\ queue[i].hand \in {END, ERROR} => queue[i].ended
    /\ ~closed /\ queue[i].consumer \notin {"new", "over"} => i \in members
    /\ Shape(queue[i])
    /\ queue[i].consumer \notin {"new", "over"} => InOrder(i) /\ Complete(i)
    /\ outcome[i] = "error" =>
         /\ over = "failed" \/ i \in late
         /\ sdk = "node" => /\ queue[i].buffer = <<>>
                            /\ over = "failed" /\ i \notin late => Unread(i) = 0

StreamInv ==
    /\ closed <=> over # "open"
    /\ closed /\ turn # Idle => members = {}
    /\ turn # Idle => turn.event # NONE
    /\ finished => closed

IInv == TypeOK /\ HistoryOK /\ StreamInv /\ \A i \in Iterators : IteratorInv(i)

-----------------------------------------------------------------------------
(* Sequences and queues *)

LEMMA Tags ==
  /\ NONE \notin Events /\ END \notin Events /\ ERROR \notin Events
  /\ NONE # END /\ NONE # ERROR /\ END # ERROR
BY SdkAssumption DEF Events, NONE, END, ERROR

LEMMA AppendFacts ==
  ASSUME NEW S, NEW q \in Seq(S), NEW x \in S
  PROVE  /\ Append(q, x) \in Seq(S) /\ Len(q) \in Nat
         /\ Len(Append(q, x)) = Len(q) + 1 /\ Append(q, x)[Len(q) + 1] = x
         /\ \A k \in 1..Len(q) : Append(q, x)[k] = q[k]
OBVIOUS

LEMMA TailFacts ==
  ASSUME NEW S, NEW q \in Seq(S), q # <<>>
  PROVE  /\ Tail(q) \in Seq(S) /\ Len(q) \in Nat /\ Len(q) > 0
         /\ Len(Tail(q)) = Len(q) - 1 /\ Head(q) = q[1] /\ Head(q) \in S
         /\ \A k \in 1..Len(Tail(q)) : Tail(q)[k] = q[k + 1]
OBVIOUS

LEMMA SettleFields ==
  ASSUME NEW q \in QueueType, NEW x \in Events \cup {END, ERROR}
  PROVE  /\ Settle(q, x) \in QueueType
         /\ Settle(q, x).buffer = q.buffer /\ Settle(q, x).ended = q.ended
         /\ Settle(q, x).failed = q.failed /\ Settle(q, x).consumer = "settled"
         /\ Settle(q, x).hand = x
BY DEF Settle, QueueType

\* What close and fail do to a queue that has not ended; nothing else changes.
EndsAs(q, r, failing) ==
    /\ r \in QueueType
    /\ r.ended /\ r.failed = failing
    /\ IF sdk = "node" /\ q.consumer = "waiting"
       THEN r.consumer = "settled" /\ r.hand = IF failing THEN ERROR ELSE END
       ELSE r.consumer = q.consumer /\ r.hand = q.hand
    /\ r.buffer = IF sdk = "node" THEN q.buffer
                  ELSE IF failing THEN <<END>> ELSE Append(q.buffer, END)

LEMMA FailFields ==
  ASSUME NEW q \in QueueType, sdk \in {"node", "python"}
  PROVE  IF q.ended THEN Fail(q) = q ELSE EndsAs(q, Fail(q), TRUE)
<1>1. CASE sdk = "node"
  <2> DEFINE r == [q EXCEPT !.ended = TRUE, !.failed = TRUE]
  <2>1. /\ r \in QueueType /\ r.ended /\ r.failed /\ r.buffer = q.buffer
        /\ r.consumer = q.consumer /\ r.hand = q.hand
    BY DEF QueueType
  <2> HIDE DEF r
  <2>2. Fail(q) = IF q.ended THEN q ELSE IF q.consumer = "waiting" THEN Settle(r, ERROR) ELSE r
    BY <1>1, Zenon DEF Fail, NodeFail, r
  <2> QED BY <1>1, <2>1, <2>2, SettleFields DEF EndsAs
<1>2. CASE sdk = "python"
  <2> DEFINE r == [q EXCEPT !.ended = TRUE, !.failed = TRUE, !.buffer = <<END>>]
  <2>1. <<END>> \in Seq(Events \cup {END})
    OBVIOUS
  <2>2. /\ r \in QueueType /\ r.ended /\ r.failed /\ r.buffer = <<END>>
        /\ r.consumer = q.consumer /\ r.hand = q.hand
    BY <2>1 DEF QueueType
  <2> HIDE DEF r
  <2>3. Fail(q) = IF q.ended THEN q ELSE r
    BY <1>2, Zenon DEF Fail, PythonFail, r
  <2> QED BY <1>2, <2>2, <2>3 DEF EndsAs
<1> QED BY <1>1, <1>2

LEMMA CloseFields ==
  ASSUME NEW q \in QueueType, sdk \in {"node", "python"}, q.failed => q.ended
  PROVE  IF q.ended THEN Close(q) = q ELSE EndsAs(q, Close(q), FALSE)
<1>1. CASE sdk = "node"
  <2> DEFINE r == [q EXCEPT !.ended = TRUE]
  <2>1. /\ r \in QueueType /\ r.ended /\ r.failed = q.failed /\ r.buffer = q.buffer
        /\ r.consumer = q.consumer /\ r.hand = q.hand
    BY DEF QueueType
  <2> HIDE DEF r
  <2>2. Close(q) = IF q.ended THEN q ELSE IF q.consumer = "waiting" THEN Settle(r, END) ELSE r
    BY <1>1, Zenon DEF Close, NodeClose, r
  <2>3. ~q.ended => q.failed = FALSE
    BY DEF QueueType
  <2> QED BY <1>1, <2>1, <2>2, <2>3, SettleFields DEF EndsAs
<1>2. CASE sdk = "python"
  <2> DEFINE b == Append(q.buffer, END)
             r == [q EXCEPT !.ended = TRUE, !.buffer = b]
  <2>1. b \in Seq(Events \cup {END})
    BY DEF QueueType
  <2> HIDE DEF b
  <2>2. /\ r \in QueueType /\ r.ended /\ r.failed = q.failed /\ r.buffer = b
        /\ r.consumer = q.consumer /\ r.hand = q.hand
    BY <2>1 DEF QueueType
  <2> HIDE DEF r
  <2>3. Close(q) = IF q.ended THEN q ELSE r
    BY <1>2, Zenon DEF Close, PythonClose, r, b
  <2>4. ~q.ended => q.failed = FALSE
    BY DEF QueueType
  <2> QED BY <1>2, <2>2, <2>3, <2>4 DEF EndsAs, b
<1> QED BY <1>1, <1>2

\* push: one more event behind those that are there, in hand or in the buffer.
LEMMA PushFields ==
  ASSUME NEW q \in QueueType, NEW e \in Events, sdk \in {"node", "python"}, ~q.ended
  PROVE  LET r == Push(q, e) IN
         IF sdk = "node" /\ q.consumer = "waiting"
         THEN /\ r \in QueueType /\ r.consumer = "settled" /\ r.hand = e
              /\ r.buffer = q.buffer /\ r.ended = q.ended /\ r.failed = q.failed
         ELSE IF Len(q.buffer) >= Limit THEN EndsAs(q, r, TRUE)
         ELSE /\ r \in QueueType /\ r.consumer = q.consumer /\ r.hand = q.hand
              /\ r.buffer = Append(q.buffer, e) /\ r.ended = q.ended /\ r.failed = q.failed
<1> DEFINE b == Append(q.buffer, e)
           r == [q EXCEPT !.buffer = b]
<1>1. b \in Seq(Events \cup {END})
  BY DEF QueueType
<1> HIDE DEF b
<1>2. /\ r \in QueueType /\ r.ended = q.ended /\ r.failed = q.failed /\ r.buffer = b
      /\ r.consumer = q.consumer /\ r.hand = q.hand
  BY <1>1 DEF QueueType
<1> HIDE DEF r
<1>3. EndsAs(q, Fail(q), TRUE)
  BY FailFields
<1>4. CASE sdk = "node"
  <2>1. Push(q, e) = IF q.consumer = "waiting" THEN Settle(q, e)
                     ELSE IF Len(q.buffer) >= Limit THEN NodeFail(q) ELSE r
    BY <1>4, Zenon DEF Push, NodePush, r, b
  <2>2. Fail(q) = NodeFail(q)
    BY <1>4 DEF Fail
  <2>3. CASE q.consumer = "waiting"
    <3>1. Push(q, e) = Settle(q, e)
      BY <2>1, <2>3
    <3> QED BY <1>4, <2>3, <3>1, SettleFields
  <2>4. CASE q.consumer # "waiting"
    <3>1. Push(q, e) = IF Len(q.buffer) >= Limit THEN Fail(q) ELSE r
      BY <2>1, <2>2, <2>4
    <3> QED BY <1>2, <1>3, <2>4, <3>1 DEF b
  <2> QED BY <2>3, <2>4
<1>5. CASE sdk = "python"
  <2>1. Push(q, e) = IF Len(q.buffer) >= Limit THEN PythonFail(q) ELSE r
    BY <1>5, Zenon DEF Push, PythonPush, r, b
  <2>2. Fail(q) = PythonFail(q)
    BY <1>5, Tags DEF Fail
  <2> QED BY <1>2, <1>3, <1>5, <2>1, <2>2 DEF b
<1> QED BY <1>4, <1>5

\* What next() takes: the head of the buffer, or how the queue has ended.
LEMMA TakenFields ==
  ASSUME NEW q \in QueueType, sdk \in {"node", "python"}, Found(q) # NONE
  PROVE  LET x == Found(q)
             r == Taken(q)
         IN /\ r \in QueueType /\ r.consumer = "settled"
            /\ r.ended = q.ended /\ r.failed = q.failed
            /\ r.hand = IF x = END /\ q.failed THEN ERROR ELSE x
            /\ IF q.buffer # <<>> THEN x = Head(q.buffer) /\ r.buffer = Tail(q.buffer)
               ELSE /\ sdk = "node" /\ q.ended /\ r.buffer = <<>>
                    /\ x = IF q.failed THEN ERROR ELSE END
<1> DEFINE x == Found(q)
           y == IF x = END /\ q.failed THEN ERROR ELSE x
<1>1. CASE q.buffer # <<>>
  <2> DEFINE b == Tail(q.buffer)
             t == [q EXCEPT !.buffer = b]
  <2>1. /\ b \in Seq(Events \cup {END}) /\ Head(q.buffer) \in Events \cup {END}
    BY <1>1, TailFacts DEF QueueType
  <2>2. x = Head(q.buffer)
    BY <1>1 DEF Found
  <2>3. y \in Events \cup {END, ERROR}
    BY <2>1, <2>2
  <2>4. Taken(q) = Settle(t, y)
    BY <1>1, Zenon DEF Taken
  <2> HIDE DEF b, x, y
  <2>5. /\ t \in QueueType /\ t.buffer = b /\ t.ended = q.ended /\ t.failed = q.failed
    BY <2>1 DEF QueueType
  <2> HIDE DEF t
  <2>6. /\ Settle(t, y) \in QueueType /\ Settle(t, y).buffer = b
        /\ Settle(t, y).ended = q.ended /\ Settle(t, y).failed = q.failed
        /\ Settle(t, y).consumer = "settled" /\ Settle(t, y).hand = y
    BY <2>3, <2>5, SettleFields
  <2> QED BY <1>1, <2>2, <2>4, <2>6 DEF x, y, b
<1>2. CASE q.buffer = <<>>
  <2>1. sdk = "node" /\ q.ended /\ x = IF q.failed THEN ERROR ELSE END
    BY <1>2 DEF Found
  <2>2. y = x /\ y \in Events \cup {END, ERROR}
    BY <2>1
  <2>3. Taken(q) = Settle(q, y)
    BY <1>2, Zenon DEF Taken
  <2> HIDE DEF y
  <2>4. /\ Settle(q, y) \in QueueType /\ Settle(q, y).buffer = q.buffer
        /\ Settle(q, y).ended = q.ended /\ Settle(q, y).failed = q.failed
        /\ Settle(q, y).consumer = "settled" /\ Settle(q, y).hand = y
    BY <2>2, SettleFields
  <2> QED BY <1>2, <2>1, <2>2, <2>3, <2>4 DEF y
<1> QED BY <1>1, <1>2

\* How many events a buffer holds, as operations change it.
LEMMA CountFacts ==
  ASSUME NEW q \in QueueType, Shape(q), sdk \in {"node", "python"}
  PROVE  /\ Len(q.buffer) \in Nat /\ Buffered(q) \in Nat /\ InHand(q) \in {0, 1}
         /\ Len(q.buffer) \in {Buffered(q), Buffered(q) + 1}
         /\ ~q.ended => Len(q.buffer) = Buffered(q)
         /\ sdk = "node" => Len(q.buffer) = Buffered(q)
         /\ \A k \in 1..Len(q.buffer) : q.buffer[k] # END <=> k <= Buffered(q)
<1>1. q.buffer \in Seq(Events \cup {END}) /\ Len(q.buffer) \in Nat
  BY DEF QueueType
<1>2. q.buffer # <<>> => Len(q.buffer) >= 1 /\ Len(q.buffer) \in 1..Len(q.buffer)
  BY <1>1
<1>3. CASE q.buffer # <<>> /\ q.buffer[Len(q.buffer)] = END
  <2>1. Buffered(q) = Len(q.buffer) - 1 /\ q.ended /\ sdk = "python"
    BY <1>2, <1>3 DEF Buffered, Shape
  <2>2. \A k \in 1..Len(q.buffer) : q.buffer[k] = END <=> k = Len(q.buffer)
    BY <1>3 DEF Shape
  <2> QED BY <1>1, <1>2, <1>3, <2>1, <2>2 DEF InHand
<1>4. CASE ~(q.buffer # <<>> /\ q.buffer[Len(q.buffer)] = END)
  <2>1. Buffered(q) = Len(q.buffer)
    BY <1>4 DEF Buffered
  <2>2. \A k \in 1..Len(q.buffer) : q.buffer[k] # END
    BY <1>1, <1>2, <1>4 DEF Shape
  <2> QED BY <1>1, <2>1, <2>2 DEF InHand
<1> QED BY <1>3, <1>4

-----------------------------------------------------------------------------
(* What the operations on a queue keep *)

LEMMA EndsKeepShape ==
  ASSUME NEW q \in QueueType, Shape(q), sdk \in {"node", "python"}, ~q.ended,
         q.consumer \notin {"new", "over"}, q.hand \notin {END, ERROR},
         NEW failing \in BOOLEAN, NEW r, EndsAs(q, r, failing)
  PROVE  /\ Shape(r) /\ InHand(r) = InHand(q)
         /\ Buffered(r) = IF sdk = "python" /\ failing THEN 0 ELSE Buffered(q)
         /\ \A k \in 1..Len(r.buffer) : r.buffer[k] # END =>
              k \in 1..Len(q.buffer) /\ r.buffer[k] = q.buffer[k]
<1>1. /\ q.buffer \in Seq(Events \cup {END}) /\ Len(q.buffer) \in Nat
      /\ Len(q.buffer) = Buffered(q) /\ Buffered(q) <= Limit
      /\ \A k \in 1..Len(q.buffer) : q.buffer[k] # END
  BY CountFacts DEF QueueType, Shape
<1>2. /\ r \in QueueType /\ r.ended /\ r.failed = failing
  BY DEF EndsAs
<1>3. /\ InHand(r) = InHand(q) /\ (r.consumer = "settled" <=> r.hand # NONE)
      /\ r.consumer # "new" /\ (sdk = "node" => r.consumer # "waiting")
      /\ r.hand \in {END, ERROR} => sdk = "node" /\ q.consumer = "waiting"
  BY Tags DEF EndsAs, InHand, Shape
<1>4. CASE sdk = "node"
  <2>1. r.buffer = q.buffer
    BY <1>4 DEF EndsAs
  <2>2. Buffered(r) = Buffered(q)
    BY <2>1 DEF Buffered
  <2>3. q.consumer = "waiting" => q.buffer = <<>>
    BY <1>4 DEF Shape
  <2>4. Shape(r)
    BY <1>1, <1>2, <1>3, <1>4, <2>1, <2>2, <2>3 DEF Shape
  <2> QED BY <1>1, <1>3, <1>4, <2>1, <2>2, <2>4
<1>5. CASE sdk = "python" /\ failing
  <2>1. r.buffer = <<END>>
    BY <1>5 DEF EndsAs
  <2>2. Len(r.buffer) = 1 /\ r.buffer[1] = END /\ r.buffer # <<>>
    BY <2>1
  <2>3. Buffered(r) = 0
    BY <2>2 DEF Buffered
  <2>4. \A k \in 1..Len(r.buffer) : k = 1
    BY <2>2
  <2>5. Shape(r)
    BY <1>2, <1>3, <1>5, <2>2, <2>3, <2>4, SdkAssumption DEF Shape
  <2> QED BY <1>3, <1>5, <2>2, <2>3, <2>4, <2>5
<1>6. CASE sdk = "python" /\ ~failing
  <2>1. r.buffer = Append(q.buffer, END)
    BY <1>6 DEF EndsAs
  <2>2. /\ Len(r.buffer) = Len(q.buffer) + 1 /\ r.buffer[Len(q.buffer) + 1] = END
        /\ \A k \in 1..Len(q.buffer) : r.buffer[k] = q.buffer[k]
    BY <1>1, <2>1, AppendFacts
  <2>3. Buffered(r) = Buffered(q)
    <3>1. r.buffer # <<>>
      BY <1>1, <2>2
    <3> QED BY <1>1, <2>2, <3>1 DEF Buffered
  <2>4. \A k \in 1..Len(r.buffer) : r.buffer[k] # END => k \in 1..Len(q.buffer)
    BY <1>1, <2>2
  <2>5. \A k \in 1..Len(r.buffer) : r.buffer[k] = END => k = Len(r.buffer)
    BY <1>1, <2>2
  <2>6. Shape(r)
    BY <1>1, <1>2, <1>3, <1>6, <2>3, <2>5 DEF Shape
  <2> QED BY <1>3, <1>6, <2>2, <2>3, <2>4, <2>6
<1> QED BY <1>4, <1>5, <1>6

LEMMA Types ==
  ASSUME TypeOK, HistoryOK, NEW i \in Iterators
  PROVE  /\ sdk \in {"node", "python"} /\ queue[i] \in QueueType
         /\ joined[i] \in Int /\ joined[i] >= -1 /\ got[i] \in Seq(Events) /\ Len(got[i]) \in Nat
         /\ Base(i) \in Int /\ Len(log) \in Nat /\ Unread(i) = Len(log) - Base(i)
         /\ closed \in BOOLEAN /\ queue[i].failed \in BOOLEAN
<1>1. /\ sdk \in {"node", "python"} /\ queue[i] \in QueueType /\ closed \in BOOLEAN
  BY DEF TypeOK, QueueType
<1>2. /\ joined[i] \in Int /\ joined[i] >= -1 /\ got[i] \in Seq(Events) /\ log \in Seq(Events)
  BY DEF HistoryOK
<1>3. Len(got[i]) \in Nat /\ Len(log) \in Nat
  BY <1>2
<1> QED BY <1>1, <1>2, <1>3 DEF Base, Unread, QueueType

\* An iterator that a step does not touch.
LEMMA UntouchedKeeps ==
  ASSUME NEW i \in Iterators, IteratorInv(i),
         UNCHANGED <<sdk, log, over, late>>, closed' = closed,
         queue'[i] = queue[i], joined'[i] = joined[i], got'[i] = got[i],
         outcome'[i] = outcome[i], i \in members' <=> i \in members
  PROVE  IteratorInv(i)'
BY DEF IteratorInv, Shape, InOrder, Complete, Base, Unread

\* The stream is closed, or ends: Close for every member.
LEMMA ClosingKeeps ==
  ASSUME TypeOK, HistoryOK, StreamInv, NEW i \in Iterators, IteratorInv(i),
         closed', over' = IF closed THEN over ELSE "ended",
         UNCHANGED <<sdk, log, joined, got, outcome, late>>, members' \subseteq members,
         queue'[i] = IF i \in members THEN Close(queue[i]) ELSE queue[i]
  PROVE  IteratorInv(i)'
<1> DEFINE q == queue[i]
           r == queue'[i]
<1>1. /\ sdk \in {"node", "python"} /\ q \in QueueType /\ Shape(q)
  BY Types DEF IteratorInv
<1>2. /\ Base(i)' = Base(i) /\ Unread(i)' = Unread(i)
      /\ over' # "open" /\ (over = "failed" => over' = "failed")
  BY DEF Base, Unread, StreamInv
<1>3. CASE r = q
  BY <1>2, <1>3 DEF IteratorInv, Shape, InOrder, Complete, StreamInv
<1>4. CASE r # q
  <2>1. i \in members /\ ~q.ended /\ EndsAs(q, r, FALSE)
    BY <1>1, <1>4, CloseFields DEF Shape
  <2>2. q.consumer \notin {"new", "over"} /\ q.hand \notin {END, ERROR} /\ ~q.failed
    <3>1. q.consumer \notin {"new", "over"} /\ q.hand \notin {END, ERROR}
      BY <2>1 DEF IteratorInv
    <3>2. ~q.failed
      BY <2>1, <1>1 DEF Shape
    <3> QED BY <3>1, <3>2
  <2>3. /\ Shape(r) /\ InHand(r) = InHand(q) /\ Buffered(r) = Buffered(q)
        /\ \A k \in 1..Len(r.buffer) : r.buffer[k] # END =>
             k \in 1..Len(q.buffer) /\ r.buffer[k] = q.buffer[k]
    <3>1. FALSE \in BOOLEAN
      OBVIOUS
    <3> HIDE DEF q, r
    <3> QED BY ONLY <1>1, <2>1, <2>2, <3>1, EndsKeepShape
  <2>4. InOrder(i) /\ Complete(i) /\ Pending(q) = Unread(i)
    BY <2>2 DEF IteratorInv, Complete
  <2>5. /\ r.ended /\ r.failed = FALSE /\ r.consumer \notin {"new", "over"}
        /\ r.hand \in {q.hand, END}
    BY <2>1, <2>2 DEF EndsAs
  <2>6. InOrder(i)'
    BY <1>2, <2>3, <2>4, <2>5, Tags DEF InOrder
  <2>7. Complete(i)'
    BY <1>2, <2>2, <2>3, <2>4, <2>5, Tags DEF Complete, Pending
  <2> QED BY <1>2, <2>1, <2>2, <2>3, <2>5, <2>6, <2>7 DEF IteratorInv, Shape
<1> QED BY <1>3, <1>4

\* The stream fails: Fail for every member.
LEMMA FailingKeeps ==
  ASSUME TypeOK, HistoryOK, StreamInv, NEW i \in Iterators, IteratorInv(i), ~closed,
         closed', over' = "failed",
         UNCHANGED <<sdk, log, joined, got, outcome, late, members>>,
         queue'[i] = IF i \in members THEN Fail(queue[i]) ELSE queue[i]
  PROVE  IteratorInv(i)'
<1> DEFINE q == queue[i]
           r == queue'[i]
<1>1. /\ sdk \in {"node", "python"} /\ q \in QueueType /\ Shape(q)
  BY Types DEF IteratorInv
<1>2. /\ Base(i)' = Base(i) /\ Unread(i)' = Unread(i) /\ over = "open"
  BY DEF Base, Unread, StreamInv
<1>3. CASE r = q
  BY <1>2, <1>3 DEF IteratorInv, Shape, InOrder, Complete, StreamInv
<1>4. CASE r # q
  <2>1. i \in members /\ ~q.ended /\ EndsAs(q, r, TRUE)
    <3>1. i \in members /\ r = Fail(q)
      BY <1>4
    <3>2. IF q.ended THEN Fail(q) = q ELSE EndsAs(q, Fail(q), TRUE)
      BY <1>1, FailFields
    <3> QED BY <1>4, <3>1, <3>2
  <2>2. q.consumer \notin {"new", "over"} /\ q.hand \notin {END, ERROR} /\ ~q.failed
    <3>1. q.consumer \notin {"new", "over"} /\ q.hand \notin {END, ERROR}
      BY <2>1 DEF IteratorInv
    <3>2. ~q.failed
      BY <2>1, <1>1 DEF Shape
    <3> QED BY <3>1, <3>2
  <2>3. /\ Shape(r) /\ InHand(r) = InHand(q)
        /\ sdk = "node" => Buffered(r) = Buffered(q)
        /\ \A k \in 1..Len(r.buffer) : r.buffer[k] # END =>
             k \in 1..Len(q.buffer) /\ r.buffer[k] = q.buffer[k]
    <3>1. TRUE \in BOOLEAN
      OBVIOUS
    <3> HIDE DEF q, r
    <3>2. /\ Shape(r) /\ InHand(r) = InHand(q)
          /\ Buffered(r) = IF sdk = "python" /\ TRUE THEN 0 ELSE Buffered(q)
          /\ \A k \in 1..Len(r.buffer) : r.buffer[k] # END =>
               k \in 1..Len(q.buffer) /\ r.buffer[k] = q.buffer[k]
      BY ONLY <1>1, <2>1, <2>2, <3>1, EndsKeepShape
    <3> QED BY ONLY <3>2
  <2>4. InOrder(i) /\ Complete(i) /\ Pending(q) = Unread(i)
    BY <2>2 DEF IteratorInv, Complete
  <2>5. /\ r.ended /\ r.failed = TRUE /\ r.consumer \notin {"new", "over"}
        /\ r.hand \in {q.hand, ERROR}
    BY <2>1, <2>2 DEF EndsAs
  <2>6. InOrder(i)'
    BY <1>2, <2>3, <2>4, <2>5, Tags DEF InOrder
  <2>7. Complete(i)'
    <3>1. CASE sdk = "node" /\ i \notin late
      <4>1. Pending(r) = Unread(i)
        BY <2>3, <2>4, <3>1 DEF Pending
      <4> QED BY <1>2, <2>2, <2>5, <4>1, Tags DEF Complete
    <3>2. CASE ~(sdk = "node" /\ i \notin late)
      BY <2>2, <2>5, <3>2, Tags DEF Complete
    <3> QED BY <3>1, <3>2
  <2> QED BY <1>2, <2>1, <2>2, <2>3, <2>5, <2>6, <2>7 DEF IteratorInv, Shape
<1> QED BY <1>3, <1>4

\* The turn hands its event to the iterators of a stream that is open: the log grows by it.
LEMMA PushKeeps ==
  ASSUME TypeOK, HistoryOK, StreamInv, NEW i \in Iterators, IteratorInv(i), ~closed,
         NEW e \in Events, log' = Append(log, e),
         late' = late \cup {j \in members : outcome[j] = "open" /\ Unread(j) >= Limit},
         closed' = closed, UNCHANGED <<sdk, joined, got, outcome, over, members>>,
         queue'[i] = IF i \in members THEN Push(queue[i], e) ELSE queue[i]
  PROVE  IteratorInv(i)'
<1> DEFINE q == queue[i]
           r == queue'[i]
<1>1. /\ sdk \in {"node", "python"} /\ q \in QueueType /\ Shape(q) /\ over = "open"
      /\ Base(i) \in Int /\ joined[i] \in Int /\ joined[i] >= -1 /\ Len(got[i]) \in Nat
      /\ Unread(i) = Len(log) - Base(i)
  BY Types DEF IteratorInv, StreamInv
<1>2. /\ Len(log) \in Nat /\ Len(log') = Len(log) + 1 /\ log'[Len(log) + 1] = e
      /\ \A k \in 1..Len(log) : log'[k] = log[k]
  BY AppendFacts DEF HistoryOK
<1>3. Base(i)' = Base(i) /\ Unread(i)' = Unread(i) + 1
  <2>1. Base(i)' = Base(i)
    BY DEF Base
  <2>2. Unread(i)' = Len(log') - joined[i] - Len(got[i])
    BY DEF Unread
  <2>3. Unread(i) = Len(log) - joined[i] - Len(got[i])
    BY DEF Unread
  <2> HIDE DEF q, r
  <2> QED BY ONLY <1>1, <1>2, <2>1, <2>2, <2>3
<1>4. /\ joined[i] = -1 <=> q.consumer = "new"
      /\ joined'[i] <= Len(log')
      /\ outcome[i] = "open" <=> q.consumer # "over"
      /\ joined[i] = -1 => got[i] = <<>>
      /\ outcome[i] = "error" => i \in late' /\ (sdk = "node" => q.buffer = <<>>)
  BY <1>1, <1>2 DEF IteratorInv
<1>5. CASE i \notin members
  <2>1. q.consumer \in {"new", "over"} /\ r = q
    BY <1>5 DEF IteratorInv
  <2> QED BY <1>1, <1>4, <1>5, <2>1 DEF IteratorInv, Shape
<1>6. CASE i \in members
  <2>1. /\ q.consumer \notin {"new", "over"} /\ InOrder(i) /\ Complete(i)
        /\ q.hand \in {END, ERROR} => q.ended
    BY <1>6 DEF IteratorInv
  <2>2. Base(i) >= 0 /\ outcome[i] = "open"
    BY <1>1, <1>4, <2>1 DEF Base
  <2>3. /\ Len(q.buffer) \in Nat /\ Buffered(q) \in Nat /\ InHand(q) \in {0, 1}
        /\ ~q.ended => Len(q.buffer) = Buffered(q)
        /\ \A k \in 1..Len(q.buffer) : q.buffer[k] # END <=> k <= Buffered(q)
    BY <1>1, CountFacts
  \* What was in order with the shorter log is so with the longer one.
  <2>4. /\ q.hand \in Events => Base(i) + 1 <= Len(log') /\ q.hand = log'[Base(i) + 1]
        /\ \A k \in 1..Len(q.buffer) : q.buffer[k] # END =>
             /\ Base(i) + InHand(q) + k <= Len(log')
             /\ q.buffer[k] = log'[Base(i) + InHand(q) + k]
    <3>1. ASSUME q.hand \in Events
          PROVE  Base(i) + 1 <= Len(log') /\ q.hand = log'[Base(i) + 1]
      <4>1. Base(i) + 1 <= Len(log) /\ q.hand = log[Base(i) + 1]
        BY <2>1, <3>1 DEF InOrder
      <4>2. Base(i) + 1 \in 1..Len(log)
        BY <1>1, <1>2, <2>2, <4>1
      <4> QED BY <1>1, <1>2, <4>1, <4>2
    <3>2. ASSUME NEW k \in 1..Len(q.buffer), q.buffer[k] # END
          PROVE  /\ Base(i) + InHand(q) + k <= Len(log')
                 /\ q.buffer[k] = log'[Base(i) + InHand(q) + k]
      <4>1. Base(i) + InHand(q) + k <= Len(log) /\ q.buffer[k] = log[Base(i) + InHand(q) + k]
        BY <2>1, <3>2 DEF InOrder
      <4>2. Base(i) + InHand(q) + k \in 1..Len(log)
        BY <1>1, <1>2, <2>2, <2>3, <4>1
      <4> QED BY <1>2, <4>1, <4>2
    <3> QED BY <3>1, <3>2
  <2>push. r = Push(q, e)
    BY <1>6
  <2>done. ASSUME r.consumer \notin {"new", "over"}, r.hand \in {END, ERROR} => r.ended,
                  Shape(r), InOrder(i)', Complete(i)'
           PROVE  IteratorInv(i)'
    <3>1. Shape(queue[i])'
      BY <2>done DEF Shape
    <3>2. joined'[i] # -1 /\ outcome'[i] = "open"
      BY <1>4, <2>1, <2>2
    <3> QED BY <1>4, <1>6, <2>done, <3>1, <3>2 DEF IteratorInv
  <2>5. CASE q.ended
    <3>1. q.failed /\ i \in late /\ r = q
      <4>1. q.failed /\ i \in late
        BY <1>1, <2>1, <2>5 DEF Complete
      <4>2. Push(q, e) = q
        BY <1>1, <2>5 DEF Push, NodePush, PythonPush
      <4> QED BY <1>6, <4>1, <4>2
    <3>2. InOrder(i)'
      BY <1>3, <2>4, <3>1 DEF InOrder
    <3>3. Complete(i)'
      BY <1>3, <2>1, <3>1 DEF Complete
    <3> QED BY <1>1, <2>1, <2>done, <3>1, <3>2, <3>3
  <2>6. CASE ~q.ended /\ sdk = "node" /\ q.consumer = "waiting"
    <3>1. /\ r \in QueueType /\ r.consumer = "settled" /\ r.hand = e
          /\ r.buffer = q.buffer /\ r.ended = q.ended /\ r.failed = q.failed
      <4> HIDE DEF q, r
      <4> QED BY <1>1, <2>6, <2>push, PushFields
    <3>2. /\ q.buffer = <<>> /\ q.hand = NONE /\ ~q.failed
      BY <1>1, <2>6 DEF Shape
    <3>3. Pending(q) = 0 /\ InHand(r) = 1 /\ Buffered(r) = 0 /\ Len(q.buffer) = 0
      BY <3>1, <3>2, Tags DEF Pending, InHand, Buffered
    <3>4. Unread(i) = 0 /\ Base(i) + 1 = Len(log')
      BY <1>1, <1>2, <2>1, <3>2, <3>3 DEF Complete
    <3>5. \A k \in 1..Len(q.buffer) : FALSE
      BY <3>3
    <3>6. InOrder(i)'
      BY <1>1, <1>2, <1>3, <3>1, <3>4, <3>5 DEF InOrder
    <3>7. Complete(i)'
      BY <1>3, <2>6, <3>1, <3>2, <3>3, <3>4, Tags DEF Complete, Pending
    <3>8. Shape(r)
      BY <2>6, <3>1, <3>2, <3>3, <3>5, SdkAssumption, Tags DEF Shape
    <3> QED BY <2>done, <3>1, <3>6, <3>7, <3>8, Tags
  <2>7. CASE /\ ~q.ended /\ ~(sdk = "node" /\ q.consumer = "waiting")
             /\ Len(q.buffer) >= Limit
    <3>1. EndsAs(q, r, TRUE)
      <4> HIDE DEF q, r
      <4> QED BY <1>1, <2>7, <2>push, PushFields
    <3>2. ~q.failed /\ q.hand \notin {END, ERROR}
      BY <1>1, <2>1, <2>7 DEF Shape
    <3>3. /\ Shape(r) /\ InHand(r) = InHand(q)
          /\ \A k \in 1..Len(r.buffer) : r.buffer[k] # END =>
               k \in 1..Len(q.buffer) /\ r.buffer[k] = q.buffer[k]
      <4>1. TRUE \in BOOLEAN
        OBVIOUS
      <4> HIDE DEF q, r
      <4> QED BY <1>1, <2>1, <2>7, <3>1, <3>2, <4>1, EndsKeepShape
    <3>4. i \in late'
      <4>1. Pending(q) = Unread(i)
        BY <2>1, <3>2 DEF Complete
      <4>2. Unread(i) >= Limit
        BY <2>3, <2>7, <4>1, SdkAssumption DEF Pending
      <4> QED BY <1>6, <2>2, <4>2
    <3>5. /\ r.ended /\ r.failed = TRUE /\ r.consumer \notin {"new", "over"}
          /\ r.hand = q.hand
      BY <2>1, <2>7, <3>1 DEF EndsAs
    <3>6. InOrder(i)'
      BY <1>3, <2>4, <3>3, <3>5 DEF InOrder
    <3>7. Complete(i)'
      BY <3>2, <3>4, <3>5 DEF Complete
    <3> QED BY <2>done, <3>2, <3>3, <3>5, <3>6, <3>7
  <2>8. CASE /\ ~q.ended /\ ~(sdk = "node" /\ q.consumer = "waiting")
             /\ ~(Len(q.buffer) >= Limit)
    <3>1. /\ r \in QueueType /\ r.consumer = q.consumer /\ r.hand = q.hand
          /\ r.buffer = Append(q.buffer, e) /\ r.ended = q.ended /\ r.failed = q.failed
      <4> HIDE DEF q, r
      <4> QED BY <1>1, <2>8, <2>push, PushFields
    <3>2. ~q.failed /\ q.hand \notin {END, ERROR} /\ Pending(q) = Unread(i)
      BY <1>1, <2>1, <2>8 DEF Shape, Complete
    <3>3. /\ Len(r.buffer) = Len(q.buffer) + 1 /\ r.buffer[Len(q.buffer) + 1] = e
          /\ \A k \in 1..Len(q.buffer) : r.buffer[k] = q.buffer[k]
      <4>1. q.buffer \in Seq(Events \cup {END}) /\ e \in Events \cup {END}
        BY <1>1 DEF QueueType
      <4> HIDE DEF q, r
      <4> QED BY <3>1, <4>1, AppendFacts
    <3>4. \A k \in 1..Len(r.buffer) :
             r.buffer[k] # END /\ (k \in 1..Len(q.buffer) \/ k = Len(q.buffer) + 1)
      <4>1. \A k \in 1..Len(r.buffer) : k \in 1..Len(q.buffer) \/ k = Len(q.buffer) + 1
        BY <2>3, <3>3
      <4>2. \A k \in 1..Len(q.buffer) : q.buffer[k] # END
        BY <2>3, <2>8
      <4> QED BY <3>3, <4>1, <4>2, Tags
    <3>5. Buffered(r) = Buffered(q) + 1 /\ InHand(r) = InHand(q)
      <4>1. Len(r.buffer) \in 1..Len(r.buffer)
        BY <2>3, <3>3
      <4>2. Buffered(r) = Len(r.buffer)
        BY <3>4, <4>1 DEF Buffered
      <4> QED BY <2>3, <2>8, <3>1, <3>3, <4>2 DEF InHand
    <3>6. InOrder(i)'
      <4>1. ASSUME NEW k \in 1..Len(r.buffer)
            PROVE  /\ Base(i) + InHand(q) + k <= Len(log')
                   /\ r.buffer[k] = log'[Base(i) + InHand(q) + k]
        <5>1. CASE k \in 1..Len(q.buffer)
          <6>1. q.buffer[k] # END /\ r.buffer[k] = q.buffer[k]
            BY <2>3, <2>8, <3>3, <5>1
          <6> QED BY <2>4, <5>1, <6>1
        <5>2. CASE k = Len(q.buffer) + 1
          <6>1. Base(i) + InHand(q) + k = Len(log) + 1
            BY <1>1, <1>2, <2>3, <2>8, <3>2, <5>2 DEF Pending
          <6> QED BY <1>2, <3>3, <5>2, <6>1
        <5> QED BY <3>4, <5>1, <5>2
      <4> QED BY <1>3, <2>4, <3>1, <3>5, <4>1 DEF InOrder
    <3>7. Complete(i)'
      <4>1. Pending(r) = Unread(i)'
        BY <1>1, <1>2, <1>3, <2>3, <3>2, <3>5 DEF Pending
      <4> QED BY <2>8, <3>1, <3>2, <4>1 DEF Complete
    <3>8. Shape(r)
      <4>1. Buffered(r) <= Limit
        BY <2>3, <2>8, <3>5, SdkAssumption
      <4> QED BY <1>1, <2>1, <2>8, <3>1, <3>2, <3>4, <4>1 DEF Shape
    <3> QED BY <2>1, <2>done, <3>1, <3>2, <3>6, <3>7, <3>8
  <2> QED BY <2>5, <2>6, <2>7, <2>8
<1> QED BY <1>5, <1>6

-----------------------------------------------------------------------------
(* What an iterator does itself *)

\* next() finds something: the first event of the buffer, or the end.
LEMMA TakenKeeps ==
  ASSUME TypeOK, HistoryOK, NEW i \in Iterators, IteratorInv(i),
         queue[i].consumer \in {"idle", "waiting"}, Found(queue[i]) # NONE,
         queue'[i] = Taken(queue[i]), closed' = closed,
         UNCHANGED <<sdk, log, joined, got, outcome, late, over, members>>
  PROVE  IteratorInv(i)'
<1> DEFINE q == queue[i]
           r == queue'[i]
           x == Found(q)
<1>1. /\ sdk \in {"node", "python"} /\ q \in QueueType /\ Shape(q)
      /\ InOrder(i) /\ Complete(i) /\ Base(i) \in Int
  BY Types DEF IteratorInv
<1>2. Base(i)' = Base(i) /\ Unread(i)' = Unread(i)
  BY DEF Base, Unread
<1>3. /\ r \in QueueType /\ r.consumer = "settled"
      /\ r.ended = q.ended /\ r.failed = q.failed
      /\ r.hand = IF x = END /\ q.failed THEN ERROR ELSE x
      /\ IF q.buffer # <<>> THEN x = Head(q.buffer) /\ r.buffer = Tail(q.buffer)
         ELSE /\ sdk = "node" /\ q.ended /\ r.buffer = <<>>
              /\ x = IF q.failed THEN ERROR ELSE END
  <2> HIDE DEF q
  <2>1. r = Taken(q)
    BY DEF q
  <2>2. Found(q) # NONE
    BY DEF q
  <2> QED BY <1>1, <2>1, <2>2, TakenFields
<1>4. q.hand = NONE /\ InHand(q) = 0
  BY <1>1, Tags DEF Shape, InHand
<1>5. /\ Len(q.buffer) \in Nat /\ Buffered(q) \in Nat /\ Buffered(q) <= Limit
      /\ \A k \in 1..Len(q.buffer) : q.buffer[k] # END <=> k <= Buffered(q)
      /\ Len(q.buffer) \in {Buffered(q), Buffered(q) + 1}
  BY <1>1, CountFacts DEF Shape
<1>done. ASSUME r.hand \in {END, ERROR} => r.ended, Shape(r), InOrder(i)', Complete(i)'
         PROVE  IteratorInv(i)'
  <2>1. Shape(queue[i])'
    BY <1>done DEF Shape
  <2> QED BY <1>2, <1>3, <1>done, <2>1 DEF IteratorInv
<1>6. CASE q.buffer # <<>>
  <2>1. /\ q.buffer \in Seq(Events \cup {END})
        /\ x = q.buffer[1] /\ r.buffer = Tail(q.buffer)
        /\ Len(q.buffer) > 0 /\ Len(r.buffer) = Len(q.buffer) - 1
        /\ \A k \in 1..Len(r.buffer) : r.buffer[k] = q.buffer[k + 1]
        /\ x \in Events \cup {END}
    <3>1. q.buffer \in Seq(Events \cup {END}) /\ x = Head(q.buffer) /\ r.buffer = Tail(q.buffer)
      BY <1>1, <1>3, <1>6 DEF QueueType
    <3> HIDE DEF q, r, x
    <3> QED BY <1>6, <3>1, TailFacts
  <2>2. /\ 1 \in 1..Len(q.buffer)
        /\ \A k \in 1..Len(r.buffer) : k + 1 \in 1..Len(q.buffer)
    BY <1>5, <2>1
  <2>3. CASE x \in Events
    <3>1. r.hand = x /\ InHand(r) = 1 /\ Buffered(q) >= 1
      BY <1>3, <1>5, <2>1, <2>2, <2>3, Tags DEF InHand
    <3>2. Buffered(r) = Buffered(q) - 1
      <4>1. CASE r.buffer = <<>>
        <5>1. Len(r.buffer) = 0 /\ Buffered(r) = 0
          BY <4>1 DEF Buffered
        <5> QED BY <1>5, <2>1, <3>1, <5>1
      <4>2. CASE r.buffer # <<>>
        <5>1. r.buffer[Len(r.buffer)] = q.buffer[Len(q.buffer)]
          BY <1>3, <1>5, <2>1, <4>2 DEF QueueType
        <5> QED BY <1>6, <2>1, <4>2, <5>1 DEF Buffered
      <4> QED BY <4>1, <4>2
    <3>3. InOrder(i)'
      <4>1. Base(i) + 1 <= Len(log) /\ x = log[Base(i) + 1]
        BY <1>1, <1>4, <2>1, <2>2, <2>3, Tags DEF InOrder
      <4>2. ASSUME NEW k \in 1..Len(r.buffer), r.buffer[k] # END
            PROVE  Base(i) + 1 + k <= Len(log) /\ r.buffer[k] = log[Base(i) + 1 + k]
        <5>1. r.buffer[k] = q.buffer[k + 1] /\ k + 1 \in 1..Len(q.buffer)
          BY <2>1, <2>2
        <5>2. Base(i) + 0 + (k + 1) <= Len(log) /\ q.buffer[k + 1] = log[Base(i) + 0 + (k + 1)]
          BY <1>1, <1>4, <4>2, <5>1 DEF InOrder
        <5>3. Base(i) + 0 + (k + 1) = Base(i) + 1 + k
          BY <1>1, <2>1, <1>5
        <5> QED BY <5>1, <5>2, <5>3
      <4> QED BY <1>2, <3>1, <4>1, <4>2 DEF InOrder
    <3>4. Complete(i)'
      <4>1. Pending(r) = Pending(q)
        BY <1>4, <1>5, <3>1, <3>2 DEF Pending
      <4> QED BY <1>1, <1>2, <1>3, <2>3, <3>1, <4>1, Tags DEF Complete
    <3>5. Shape(r)
      <4>1. ASSUME NEW k \in 1..Len(r.buffer), r.buffer[k] = END
            PROVE  sdk = "python" /\ r.ended /\ k = Len(r.buffer)
        <5>1. k + 1 \in 1..Len(q.buffer) /\ q.buffer[k + 1] = END
          BY <2>1, <2>2, <4>1
        <5>2. sdk = "python" /\ q.ended /\ k + 1 = Len(q.buffer)
          BY <1>1, <5>1 DEF Shape
        <5> QED BY <1>3, <1>5, <2>1, <5>2
      <4>2. q.failed => q.ended /\ (sdk = "python" => Buffered(q) = 0)
        BY <1>1 DEF Shape
      <4>3. ~ (q.failed /\ sdk = "python")
        BY <3>1, <4>2
      <4>4. r.hand # NONE /\ r.hand \notin {END, ERROR}
        BY <2>3, <3>1, Tags
      <4>5. Buffered(r) <= Limit
        BY <1>5, <3>2, SdkAssumption
      <4> QED BY <1>1, <1>3, <4>1, <4>2, <4>3, <4>4, <4>5 DEF Shape
    <3> QED BY <1>done, <2>3, <3>1, <3>3, <3>4, <3>5, Tags
  <2>4. CASE x = END
    <3>1. sdk = "python" /\ q.ended /\ Len(q.buffer) = 1
      BY <1>1, <2>1, <2>2, <2>4 DEF Shape
    <3>2. /\ r.buffer = <<>> /\ Len(r.buffer) = 0 /\ Buffered(r) = 0 /\ Buffered(q) = 0
      <4>1. r.buffer \in Seq(Events \cup {END}) /\ Len(r.buffer) = 0
        BY <1>3, <2>1, <3>1 DEF QueueType
      <4>2. r.buffer = <<>>
        <5> HIDE DEF r
        <5> QED BY <4>1
      <4>3. Buffered(q) = 0
        <5>1. q.buffer[Len(q.buffer)] = END
          BY <2>1, <2>4, <3>1
        <5>2. Buffered(q) = Len(q.buffer) - 1
          BY <1>6, <5>1 DEF Buffered
        <5> QED BY <3>1, <5>2
      <4> QED BY <4>1, <4>2, <4>3 DEF Buffered
    <3>3. r.hand = IF q.failed THEN ERROR ELSE END
      BY <1>3, <2>4
    <3>4. InHand(r) = 0 /\ r.hand # NONE
      BY <3>3, Tags DEF InHand
    <3>5. InOrder(i)'
      BY <3>2, <3>3, Tags DEF InOrder
    <3>6. Complete(i)'
      <4>1. Pending(r) = Pending(q)
        BY <1>4, <3>2, <3>4 DEF Pending
      <4> QED BY <1>1, <1>2, <1>3, <3>1, <3>3, <4>1, Tags DEF Complete
    <3>7. Shape(r)
      BY <1>1, <1>3, <3>1, <3>2, <3>4, SdkAssumption DEF Shape
    <3> QED BY <1>done, <1>3, <3>1, <3>5, <3>6, <3>7
  <2> QED BY <2>1, <2>3, <2>4
<1>7. CASE q.buffer = <<>>
  <2>1. /\ sdk = "node" /\ q.ended /\ r.buffer = <<>>
        /\ r.hand = IF q.failed THEN ERROR ELSE END
    BY <1>3, <1>7, Tags
  <2>2. Len(r.buffer) = 0 /\ Buffered(r) = 0 /\ Buffered(q) = 0
    BY <1>7, <2>1 DEF Buffered
  <2>3. InHand(r) = 0 /\ r.hand # NONE
    BY <2>1, Tags DEF InHand
  <2>4. InOrder(i)'
    BY <2>1, <2>2, Tags DEF InOrder
  <2>5. Complete(i)'
    <3>1. Pending(r) = Pending(q)
      BY <1>4, <2>2, <2>3 DEF Pending
    <3> QED BY <1>1, <1>2, <1>3, <2>1, <3>1, Tags DEF Complete
  <2>6. Shape(r)
    BY <1>1, <1>3, <2>1, <2>2, <2>3, SdkAssumption DEF Shape
  <2> QED BY <1>done, <1>3, <2>1, <2>4, <2>5, <2>6
<1> QED BY <1>6, <1>7

\* What the consumer does is set, without or with the hand emptied.
Turned(q, c) == [q EXCEPT !.consumer = c]
Emptied(q, c) == [q EXCEPT !.hand = NONE, !.consumer = c]

LEMMA SetFields ==
  ASSUME NEW q \in QueueType, NEW c \in {"idle", "waiting", "over"},
         NEW r \in {Turned(q, c), Emptied(q, c)}
  PROVE  /\ r \in QueueType /\ r.consumer = c
         /\ r.buffer = q.buffer /\ r.ended = q.ended /\ r.failed = q.failed
         /\ r.hand = q.hand \/ r.hand = NONE
         /\ r = Emptied(q, c) => r.hand = NONE
         /\ Len(r.buffer) = Len(q.buffer) /\ Buffered(r) = Buffered(q)
<1>1. CASE r = Turned(q, c)
  <2>1. /\ r \in QueueType /\ r.consumer = c /\ r.hand = q.hand
        /\ r.buffer = q.buffer /\ r.ended = q.ended /\ r.failed = q.failed
    BY <1>1 DEF QueueType, Turned
  <2>2. r = Emptied(q, c) => r.hand = NONE
    BY DEF QueueType, Emptied
  <2> QED BY <2>1, <2>2 DEF Buffered
<1>2. CASE r = Emptied(q, c)
  <2>1. /\ r \in QueueType /\ r.consumer = c /\ r.hand = NONE
        /\ r.buffer = q.buffer /\ r.ended = q.ended /\ r.failed = q.failed
    BY <1>2 DEF QueueType, Emptied
  <2> QED BY <2>1 DEF Buffered
<1> QED BY <1>1, <1>2

\* next() finds nothing and waits.
LEMMA WaitingKeeps ==
  ASSUME TypeOK, HistoryOK, NEW i \in Iterators, IteratorInv(i),
         queue[i].consumer = "idle", Found(queue[i]) = NONE,
         queue'[i] = [queue[i] EXCEPT !.consumer = "waiting"], closed' = closed,
         UNCHANGED <<sdk, log, joined, got, outcome, late, over, members>>
  PROVE  IteratorInv(i)'
<1> DEFINE q == queue[i]
           r == queue'[i]
<1>1. /\ sdk \in {"node", "python"} /\ q \in QueueType /\ Shape(q)
      /\ InOrder(i) /\ Complete(i)
  BY Types DEF IteratorInv
<1>2. Base(i)' = Base(i) /\ Unread(i)' = Unread(i)
  BY DEF Base, Unread
<1>3. /\ r \in QueueType /\ r.consumer = "waiting" /\ r.buffer = q.buffer
      /\ r.ended = q.ended /\ r.failed = q.failed /\ Buffered(r) = Buffered(q)
      /\ r.hand = q.hand \/ r.hand = NONE
  <2>1. r = Turned(q, "waiting") /\ "waiting" \in {"idle", "waiting", "over"}
    BY DEF Turned
  <2> HIDE DEF q, r
  <2> QED BY <1>1, <2>1, SetFields
<1>4. q.hand = NONE /\ r.hand = NONE
  BY <1>1, <1>3 DEF Shape
<1>5. q.buffer = <<>>
  <2>1. SUFFICES ASSUME q.buffer # <<>> PROVE FALSE
    OBVIOUS
  <2>2. q.buffer \in Seq(Events \cup {END})
    BY <1>1 DEF QueueType
  <2>3. Head(q.buffer) \in Events \cup {END}
    <3> HIDE DEF q
    <3> QED BY <2>1, <2>2, TailFacts
  <2>4. Head(q.buffer) = NONE
    BY <2>1 DEF Found
  <2> QED BY <2>3, <2>4, Tags
<1>6. sdk = "node" => ~q.ended
  BY <1>1, <1>5, Tags DEF Found
<1>7. Shape(queue[i])'
  BY <1>1, <1>3, <1>4, <1>5, <1>6, Tags DEF Shape
<1>8. InOrder(i)'
  BY <1>1, <1>2, <1>3, <1>4 DEF InOrder, InHand
<1>9. Complete(i)'
  <2>1. Pending(r) = Pending(q)
    BY <1>3, <1>4 DEF Pending, InHand
  <2> QED BY <1>1, <1>2, <1>3, <1>4, <2>1 DEF Complete
<1> QED BY <1>2, <1>3, <1>4, <1>7, <1>8, <1>9, Tags DEF IteratorInv

\* The first next(): from here on the iterator is at the end of the log.
LEMMA BeginKeeps ==
  ASSUME TypeOK, HistoryOK, NEW i \in Iterators, IteratorInv(i),
         queue[i].consumer = "new", joined'[i] = Len(log), closed' = closed,
         queue'[i] = IF closed THEN Settle(queue[i], END)
                     ELSE [queue[i] EXCEPT !.consumer = "waiting"],
         members' = IF closed THEN members ELSE members \cup {i},
         UNCHANGED <<sdk, log, got, outcome, late, over>>
  PROVE  IteratorInv(i)'
<1> DEFINE q == queue[i]
           r == queue'[i]
<1>1. /\ sdk \in {"node", "python"} /\ q \in QueueType /\ Shape(q) /\ Len(log) \in Nat
      /\ closed \in BOOLEAN
  BY Types DEF IteratorInv
<1>2. /\ got'[i] = <<>> /\ Len(got'[i]) = 0 /\ outcome'[i] = "open" /\ i \notin members
  BY DEF IteratorInv
<1>3. Unread(i)' = 0
  <2>1. Unread(i)' = Len(log) - Len(log) - Len(got'[i])
    BY DEF Unread
  <2> QED BY <1>1, <1>2, <2>1
<1>4. q.buffer = <<>> /\ ~q.ended /\ ~q.failed /\ q.hand = NONE
  BY <1>1 DEF Shape
<1>5. /\ r.buffer = <<>> /\ ~r.ended /\ ~r.failed
      /\ IF closed THEN r.consumer = "settled" /\ r.hand = END
         ELSE r.consumer = "waiting" /\ r.hand = NONE
  <2>1. CASE closed
    <3>1. r = Settle(q, END) /\ END \in Events \cup {END, ERROR}
      BY <2>1
    <3>2. /\ r.buffer = q.buffer /\ r.ended = q.ended /\ r.failed = q.failed
          /\ r.consumer = "settled" /\ r.hand = END
      <4> HIDE DEF q, r
      <4> QED BY <1>1, <3>1, SettleFields
    <3> QED BY <1>4, <2>1, <3>2
  <2>2. CASE ~closed
    <3>1. r = Turned(q, "waiting") /\ "waiting" \in {"idle", "waiting", "over"}
      BY <2>2 DEF Turned
    <3>2. /\ r.buffer = q.buffer /\ r.ended = q.ended /\ r.failed = q.failed
          /\ r.consumer = "waiting" /\ (r.hand = q.hand \/ r.hand = NONE)
      <4> HIDE DEF q, r
      <4> QED BY <1>1, <3>1, SetFields
    <3> QED BY <1>4, <2>2, <3>2
  <2> QED BY <2>1, <2>2
<1>6. Len(r.buffer) = 0 /\ Buffered(r) = 0 /\ InHand(r) = 0
  BY <1>5, Tags DEF Buffered, InHand
<1>7. \A k \in 1..Len(r.buffer) : FALSE
  BY <1>6
<1>8. Shape(queue[i])'
  BY <1>1, <1>5, <1>6, <1>7, SdkAssumption, Tags DEF Shape
<1>9. InOrder(i)'
  BY <1>5, <1>7, Tags DEF InOrder
<1>10. Complete(i)'
  BY <1>3, <1>5, <1>6, Tags DEF Complete, Pending
<1>11. joined'[i] # -1 /\ joined'[i] <= Len(log')
  BY <1>1
<1> QED BY <1>2, <1>5, <1>8, <1>9, <1>10, <1>11, Tags DEF IteratorInv

\* The consumer is handed an event: it leaves the hand for what has been received.
LEMMA ReceivingKeeps ==
  ASSUME TypeOK, HistoryOK, NEW i \in Iterators, IteratorInv(i),
         queue[i].consumer = "settled", queue[i].hand \in Events, closed' = closed,
         queue'[i] = [queue[i] EXCEPT !.hand = NONE, !.consumer = "idle"],
         got'[i] = Append(got[i], queue[i].hand),
         UNCHANGED <<sdk, log, joined, outcome, late, over, members>>
  PROVE  /\ IteratorInv(i)'
         /\ Unread(i) > 0 /\ queue[i].hand = log[joined[i] + Len(got[i]) + 1]
<1> DEFINE q == queue[i]
           r == queue'[i]
<1>1. /\ sdk \in {"node", "python"} /\ q \in QueueType /\ Shape(q)
      /\ InOrder(i) /\ Complete(i) /\ Base(i) \in Int /\ Len(log) \in Nat
      /\ Unread(i) = Len(log) - Base(i)
  BY Types DEF IteratorInv
<1>2. Len(got'[i]) = Len(got[i]) + 1 /\ joined[i] \in Int /\ Len(got[i]) \in Nat
  BY Types, AppendFacts
<1>3. /\ Base(i)' = Base(i) + 1
  BY <1>2 DEF Base
<1>u. Unread(i)' = Unread(i) - 1
  <2>1. Unread(i)' = Len(log) - joined[i] - Len(got'[i])
    BY DEF Unread
  <2>2. Unread(i) = Len(log) - joined[i] - Len(got[i])
    BY DEF Unread
  <2> HIDE DEF q, r
  <2> QED BY ONLY <1>1, <1>2, <2>1, <2>2
<1>4. /\ r \in QueueType /\ r.consumer = "idle" /\ r.buffer = q.buffer /\ r.hand = NONE
      /\ r.ended = q.ended /\ r.failed = q.failed /\ Buffered(r) = Buffered(q)
  <2>1. r = Emptied(q, "idle") /\ "idle" \in {"idle", "waiting", "over"}
    BY Zenon DEF Emptied
  <2> HIDE DEF q, r
  <2> QED BY <1>1, <2>1, SetFields
<1>5. InHand(q) = 1 /\ InHand(r) = 0 /\ Buffered(q) \in Nat
  BY <1>1, <1>4, Tags, CountFacts DEF InHand
<1>6. Shape(queue[i])'
  BY <1>1, <1>4, Tags DEF Shape
<1>7. Base(i) + 1 <= Len(log) /\ q.hand = log[Base(i) + 1]
  BY <1>1 DEF InOrder
<1>8. InOrder(i)'
  <2>1. ASSUME NEW k \in 1..Len(r.buffer), r.buffer[k] # END
        PROVE  /\ Base(i)' + InHand(r) + k <= Len(log')
               /\ r.buffer[k] = log'[Base(i)' + InHand(r) + k]
    <3>1. Base(i)' + InHand(r) + k = Base(i) + InHand(q) + k
      BY <1>1, <1>3, <1>5
    <3> QED BY <1>1, <1>4, <2>1, <3>1 DEF InOrder
  <2> QED BY <1>4, <2>1, Tags DEF InOrder
<1>9. Complete(i)'
  <2>1. Pending(r) = Pending(q) - 1 /\ Pending(q) \in Int
    BY <1>4, <1>5 DEF Pending
  <2> QED BY <1>1, <1>u, <1>4, <2>1, Tags DEF Complete
<1>10. Unread(i) > 0 /\ q.hand = log[joined[i] + Len(got[i]) + 1]
  BY <1>1, <1>7 DEF Base
<1> QED BY <1>4, <1>6, <1>8, <1>9, <1>10, Tags DEF IteratorInv

\* It is told the end: done when it has everything, else the error.
LEMMA EndingKeeps ==
  ASSUME TypeOK, HistoryOK, StreamInv, NEW i \in Iterators, IteratorInv(i),
         queue[i].consumer = "settled", queue[i].hand \notin Events, closed' = closed,
         queue'[i] = [queue[i] EXCEPT !.hand = NONE, !.consumer = "over"],
         outcome'[i] = IF queue[i].hand = END THEN "done" ELSE "error",
         members' = members \ {i},
         UNCHANGED <<sdk, log, joined, got, late, over>>
  PROVE  /\ IteratorInv(i)'
         /\ queue[i].hand \in {END, ERROR}
         /\ queue[i].hand = END => over # "open" /\ Unread(i) = 0
         /\ queue[i].hand = ERROR => over = "failed" \/ i \in late
<1> DEFINE q == queue[i]
           r == queue'[i]
<1>1. /\ sdk \in {"node", "python"} /\ q \in QueueType /\ Shape(q)
      /\ InOrder(i) /\ Complete(i)
  BY Types DEF IteratorInv
<1>2. Base(i)' = Base(i) /\ Unread(i)' = Unread(i)
  BY DEF Base, Unread
<1>3. /\ r.consumer = "over" /\ r.buffer = q.buffer /\ r.hand = NONE
      /\ r.ended = q.ended /\ r.failed = q.failed /\ Buffered(r) = Buffered(q)
  <2>1. r = Emptied(q, "over") /\ "over" \in {"idle", "waiting", "over"}
    BY Zenon DEF Emptied
  <2> HIDE DEF q, r
  <2> QED BY <1>1, <2>1, SetFields
<1>4. q.hand \in {END, ERROR}
  BY <1>1 DEF Shape, QueueType
<1>5. q.buffer = <<>> /\ Pending(q) = 0
  <2>1. q.buffer = <<>>
    BY <1>1, <1>4 DEF Shape
  <2>2. InHand(q) = 0 /\ Len(q.buffer) = 0
    BY <2>1 DEF InHand
  <2> QED BY <2>1, <2>2 DEF Pending, Buffered
<1>6. q.hand = END => over # "open" /\ Unread(i) = 0
  BY <1>1, <1>5, Tags DEF Complete, StreamInv
<1>7. q.hand = ERROR => q.failed /\ (over = "failed" \/ i \in late)
  BY <1>1 DEF Complete
<1>8. q.failed /\ sdk = "node" /\ i \notin late => Unread(i) = 0
  BY <1>1, <1>5 DEF Complete
<1>9. Shape(queue[i])'
  BY <1>1, <1>3, Tags DEF Shape
<1>10. outcome'[i] \in {"done", "error"} /\ (outcome'[i] = "error" => q.hand = ERROR)
  BY <1>4
<1>11. joined'[i] # -1 /\ joined'[i] <= Len(log')
  BY DEF IteratorInv
<1>12. IteratorInv(i)'
  BY <1>2, <1>3, <1>5, <1>7, <1>8, <1>9, <1>10, <1>11 DEF IteratorInv
<1> QED BY <1>4, <1>6, <1>7, <1>12

\* The caller leaves the loop.
LEMMA LeavingKeeps ==
  ASSUME TypeOK, HistoryOK, NEW i \in Iterators, IteratorInv(i),
         queue[i].consumer = "idle", closed' = closed,
         queue'[i] = [queue[i] EXCEPT !.consumer = "over"],
         outcome'[i] = "left", members' = members \ {i},
         UNCHANGED <<sdk, log, joined, got, late, over>>
  PROVE  IteratorInv(i)'
<1> DEFINE q == queue[i]
           r == queue'[i]
<1>1. /\ sdk \in {"node", "python"} /\ q \in QueueType /\ Shape(q)
  BY Types DEF IteratorInv
<1>2. /\ r.consumer = "over" /\ r.buffer = q.buffer /\ r.hand \in {q.hand, NONE}
      /\ r.ended = q.ended /\ r.failed = q.failed /\ Buffered(r) = Buffered(q)
  <2>1. r = Turned(q, "over") /\ "over" \in {"idle", "waiting", "over"}
    BY DEF Turned
  <2> HIDE DEF q, r
  <2> QED BY <1>1, <2>1, SetFields
<1>3. q.hand = NONE
  BY <1>1 DEF Shape
<1>4. Shape(queue[i])'
  BY <1>1, <1>2, <1>3, Tags DEF Shape
<1> QED BY <1>2, <1>4 DEF IteratorInv

\* aclose() of the Python stream, before the iterators are told.
LEMMA MarkingKeeps ==
  ASSUME TypeOK, HistoryOK, StreamInv, NEW i \in Iterators, IteratorInv(i), ~closed,
         closed', over' = "ended",
         UNCHANGED <<sdk, log, joined, got, outcome, late, members, queue>>
  PROVE  IteratorInv(i)'
<1>1. over = "open"
  BY DEF StreamInv
<1>2. Base(i)' = Base(i) /\ Unread(i)' = Unread(i)
  BY DEF Base, Unread
<1>3. InOrder(i) => InOrder(i)'
  BY <1>2 DEF InOrder
<1>4. Complete(i) => Complete(i)'
  BY <1>1, <1>2 DEF Complete
<1>5. Shape(queue[i])' = Shape(queue[i])
  BY DEF Shape
<1> QED BY <1>1, <1>2, <1>3, <1>4, <1>5 DEF IteratorInv

-----------------------------------------------------------------------------
(* The invariant is inductive *)

Typed(q) == q \in [Iterators -> QueueType]

LEMMA TypeParts ==
  /\ TypeOK <=> /\ sdk \in {"node", "python"} /\ responses \in 0..MaxEvents
                /\ source \in {"open", "over"}
                /\ started \in BOOLEAN /\ closed \in BOOLEAN /\ finished \in BOOLEAN
                /\ turn \in [event : 0..MaxEvents, calls : SUBSET Listeners]
                /\ listeners \subseteq Listeners /\ members \subseteq Iterators
                /\ Typed(queue)
BY DEF TypeOK, Typed, QueueType

LEMMA QueuesTyped ==
  ASSUME IInv, NEW i \in Iterators
  PROVE  /\ sdk \in {"node", "python"} /\ queue[i] \in QueueType
         /\ queue[i].failed => queue[i].ended
         /\ Fail(queue[i]) \in QueueType /\ Close(queue[i]) \in QueueType
         /\ \A e \in Events : Push(queue[i], e) \in QueueType
         /\ Found(queue[i]) # NONE => Taken(queue[i]) \in QueueType
<1> DEFINE q == queue[i]
<1>1. sdk \in {"node", "python"} /\ q \in QueueType
  BY Types DEF IInv
<1>2. q.failed => q.ended
  BY DEF IInv, IteratorInv, Shape
<1> HIDE DEF q
<1>3. Fail(q) \in QueueType /\ Close(q) \in QueueType
  BY <1>1, <1>2, FailFields, CloseFields DEF EndsAs
<1>4. \A e \in Events : Push(q, e) \in QueueType
  <2> SUFFICES ASSUME NEW e \in Events PROVE Push(q, e) \in QueueType
    OBVIOUS
  <2>1. CASE q.ended
    BY <1>1, <2>1 DEF Push, NodePush, PythonPush
  <2>2. CASE ~q.ended
    BY <1>1, <2>2, PushFields DEF EndsAs
  <2> QED BY <2>1, <2>2
<1>5. Found(q) # NONE => Taken(q) \in QueueType
  BY <1>1, TakenFields
<1> QED BY <1>1, <1>2, <1>3, <1>4, <1>5 DEF q

LEMMA Beginning == Init => IInv
<1> SUFFICES ASSUME Init PROVE IInv
  OBVIOUS
<1>1. NewQueue \in QueueType
  BY DEF NewQueue, QueueType
<1>2. Typed(queue)
  BY <1>1 DEF Init, Typed
<1>3. turn \in [event : 0..MaxEvents, calls : SUBSET Listeners]
  BY SdkAssumption DEF Init, Idle, NONE
<1>4. TypeOK
  <2>1. /\ sdk \in {"node", "python"} /\ responses \in 0..MaxEvents /\ source \in {"open", "over"}
        /\ started \in BOOLEAN /\ closed \in BOOLEAN /\ finished \in BOOLEAN
        /\ listeners \subseteq Listeners /\ members \subseteq Iterators
    <3>1. /\ sdk \in {"node", "python"} /\ responses = 0 /\ source = "open"
          /\ started = FALSE /\ closed = FALSE /\ finished = FALSE
          /\ listeners = {} /\ members = {}
      BY DEF Init
    <3>2. 0 \in 0..MaxEvents
      BY SdkAssumption
    <3> QED BY <3>1, <3>2, Zenon
  <2> QED BY <1>2, <1>3, <2>1, TypeParts, Zenon
<1>5. HistoryOK
  BY DEF Init, HistoryOK
<1>6. StreamInv
  BY DEF Init, StreamInv
<1>7. ASSUME NEW i \in Iterators PROVE IteratorInv(i)
  <2>1. queue[i] = NewQueue /\ joined[i] = -1 /\ got[i] = <<>> /\ outcome[i] = "open"
        /\ members = {} /\ Len(log) = 0 /\ ~closed
    BY DEF Init
  <2>2. /\ NewQueue.buffer = <<>> /\ ~NewQueue.ended /\ ~NewQueue.failed
        /\ NewQueue.consumer = "new" /\ NewQueue.hand = NONE
    BY DEF NewQueue
  <2>3. Len(NewQueue.buffer) = 0 /\ Buffered(NewQueue) = 0
    BY <2>2 DEF Buffered
  <2>4. \A k \in 1..Len(NewQueue.buffer) : FALSE
    BY <2>3
  <2>5. Shape(NewQueue)
    BY <2>2, <2>3, <2>4, SdkAssumption, Tags DEF Shape
  <2> QED BY <2>1, <2>2, <2>5 DEF IteratorInv
<1> QED BY <1>4, <1>5, <1>6, <1>7 DEF IInv

\* The stream ends: from the source, from close() in either SDK, from a listener.
LEMMA EndingStream ==
  ASSUME IInv, closed', finished' \in BOOLEAN, over' = IF closed THEN over ELSE "ended",
         UNCHANGED <<sdk, responses, started, log, joined, got, outcome, late>>,
         source' \in {"open", "over"}, members' \subseteq members,
         listeners' \subseteq listeners,
         turn' \in [event : 0..MaxEvents, calls : SUBSET Listeners],
         turn' # Idle => turn # Idle /\ members' = {} /\ turn'.event # NONE,
         Members([i \in Iterators |-> Close(queue[i])])
  PROVE  IInv'
<1>1. \A i \in Iterators : queue'[i] = IF i \in members THEN Close(queue[i]) ELSE queue[i]
  BY DEF Members
<1>2. Typed(queue')
  BY QueuesTyped DEF Members, Typed
<1>3. TypeOK'
  BY <1>2, TypeParts DEF IInv, TypeOK, Typed, QueueType
<1>4. HistoryOK'
  BY DEF IInv, HistoryOK, StreamInv
<1>5. StreamInv'
  BY DEF IInv, StreamInv
<1>6. \A i \in Iterators : IteratorInv(i)'
  BY <1>1, ClosingKeeps DEF IInv
<1> QED BY <1>3, <1>4, <1>5, <1>6 DEF IInv

\* Nothing but one iterator and the stream's list of iterators changes.
LEMMA OneIterator ==
  ASSUME IInv, NEW i \in Iterators, NEW r, r \in QueueType,
         queue' = [queue EXCEPT ![i] = r], IteratorInv(i)', HistoryOK',
         \A j \in Iterators \ {i} : /\ joined'[j] = joined[j] /\ got'[j] = got[j]
                                    /\ outcome'[j] = outcome[j] /\ (j \in members' <=> j \in members),
         members' \subseteq Iterators, closed => members' \subseteq members,
         closed' = closed, started' \in BOOLEAN, turn = Idle,
         UNCHANGED <<sdk, responses, source, finished, turn, listeners, log, late, over>>
  PROVE  IInv'
<1>1. Typed(queue')
  BY DEF IInv, TypeOK, Typed, QueueType
<1>2. TypeOK'
  BY <1>1, TypeParts DEF IInv, TypeOK, Typed, QueueType
<1>3. StreamInv'
  BY DEF IInv, StreamInv
<1>4. ASSUME NEW j \in Iterators PROVE IteratorInv(j)'
  <2>1. CASE j = i
    BY <2>1
  <2>2. CASE j # i
    <3>1. queue'[j] = queue[j]
      BY <2>2 DEF IInv, TypeOK
    <3> QED BY <2>2, <3>1, UntouchedKeeps DEF IInv
  <2> QED BY <2>1, <2>2
<1> QED BY <1>2, <1>3, <1>4 DEF IInv

\* Nothing that an iterator can see changes.
LEMMA NoIterator ==
  ASSUME IInv, UNCHANGED <<sdk, closed, finished, members, queue, history>>,
         responses' \in 0..MaxEvents, source' \in {"open", "over"}, started' \in BOOLEAN,
         turn' \in [event : 0..MaxEvents, calls : SUBSET Listeners],
         turn' # Idle => turn'.event # NONE, closed /\ turn' # Idle => turn # Idle,
         listeners' \subseteq Listeners
  PROVE  IInv'
<1>1. TypeOK'
  BY TypeParts DEF IInv, TypeOK, Typed, QueueType
<1>2. HistoryOK'
  BY DEF IInv, HistoryOK, history
<1>3. StreamInv'
  BY DEF IInv, StreamInv, history
<1>4. ASSUME NEW i \in Iterators PROVE IteratorInv(i)'
  BY UntouchedKeeps DEF IInv, history
<1> QED BY <1>1, <1>2, <1>3, <1>4 DEF IInv

LEMMA PumpSteps ==
  IInv /\ (BeginTurn \/ EndTurn \/ PumpFails \/ PumpEnds) => IInv'
<1> SUFFICES ASSUME IInv, BeginTurn \/ EndTurn \/ PumpFails \/ PumpEnds PROVE IInv'
  OBVIOUS
<1>types. /\ sdk \in {"node", "python"} /\ responses \in 0..MaxEvents /\ closed \in BOOLEAN
          /\ turn \in [event : 0..MaxEvents, calls : SUBSET Listeners]
          /\ Idle \in [event : 0..MaxEvents, calls : SUBSET Listeners]
          /\ listeners \subseteq Listeners /\ Typed(queue)
  BY TypeParts, SdkAssumption DEF IInv, Idle, NONE
<1>1. CASE BeginTurn
  <2>1. /\ responses' \in 0..MaxEvents /\ responses' # NONE /\ ~closed
        /\ UNCHANGED <<sdk, source, started, closed, finished, listeners, members, queue, history>>
    BY <1>1, <1>types, SdkAssumption DEF BeginTurn, NONE
  <2>2. /\ turn' \in [event : 0..MaxEvents, calls : SUBSET Listeners]
        /\ turn' # Idle => turn'.event # NONE
    BY <1>1, <1>types, <2>1 DEF BeginTurn
  <2>3. source \in {"open", "over"} /\ started \in BOOLEAN
    BY TypeParts DEF IInv
  <2> QED BY <1>types, <2>1, <2>2, <2>3, NoIterator
<1>2. CASE EndTurn
  <2>1. turn.event \in Events
    BY <1>2, <1>types, SdkAssumption DEF EndTurn, IInv, StreamInv, Events, NONE
  <2>2. \A i \in Iterators : queue'[i] = IF i \in members THEN Push(queue[i], turn.event) ELSE queue[i]
    BY <1>2 DEF EndTurn, Members
  <2>3. Typed(queue')
    BY <1>2, <2>1, QueuesTyped DEF EndTurn, Members, Typed
  <2>4. TypeOK'
    BY <1>2, <1>types, <2>3, TypeParts DEF IInv, EndTurn, TypeOK, Typed, QueueType
  <2>5. StreamInv'
    BY <1>2 DEF IInv, StreamInv, EndTurn
  <2>6. CASE closed
    <3>1. UNCHANGED <<sdk, log, over, late, joined, got, outcome, members, closed>> /\ members = {}
      BY <1>2, <2>6 DEF EndTurn, IInv, StreamInv
    <3>2. HistoryOK'
      BY <3>1 DEF IInv, HistoryOK
    <3>3. \A i \in Iterators : IteratorInv(i)'
      BY <2>2, <3>1, UntouchedKeeps DEF IInv
    <3> QED BY <2>4, <2>5, <3>2, <3>3 DEF IInv
  <2>7. CASE ~closed
    <3>1. /\ UNCHANGED <<sdk, over, joined, got, outcome, members>> /\ closed' = closed
          /\ log' = Append(log, turn.event)
          /\ late' = late \cup {i \in members : outcome[i] = "open" /\ Unread(i) >= Limit}
      BY <1>2, <2>7 DEF EndTurn
    <3>2. log' \in Seq(Events)
      BY <2>1, <3>1 DEF IInv, HistoryOK
    <3>3. members \subseteq Iterators
      BY TypeParts DEF IInv
    <3>4. HistoryOK'
      BY <3>1, <3>2, <3>3 DEF IInv, HistoryOK
    <3>5. ASSUME NEW i \in Iterators PROVE IteratorInv(i)'
      BY <2>1, <2>2, <2>7, <3>1, PushKeeps DEF IInv
    <3> QED BY <2>4, <2>5, <3>4, <3>5 DEF IInv
  <2> QED BY <2>6, <2>7
<1>3. CASE PumpFails
  <2>1. CASE closed
    <3>1. /\ UNCHANGED <<sdk, closed, finished, members, queue, history, responses, started, listeners>>
          /\ source' = "over" /\ turn' = Idle
      BY <1>3, <2>1 DEF PumpFails, history
    <3>2. started \in BOOLEAN
      BY TypeParts DEF IInv
    <3> QED BY <1>types, <3>1, <3>2, NoIterator
  <2>2. CASE ~closed
    <3>1. /\ closed' = TRUE /\ finished' = TRUE /\ listeners' = {} /\ over' = "failed"
          /\ source' = "over" /\ turn' = Idle
          /\ UNCHANGED <<sdk, responses, started, members, log, joined, got, outcome, late>>
          /\ Members([i \in Iterators |-> Fail(queue[i])])
      BY <1>3, <2>2 DEF PumpFails
    <3>2. \A i \in Iterators : queue'[i] = IF i \in members THEN Fail(queue[i]) ELSE queue[i]
      BY <3>1 DEF Members
    <3>3. Typed(queue')
      BY <3>1, QueuesTyped DEF Members, Typed
    <3>4. TypeOK'
      BY <1>types, <3>1, <3>3, TypeParts DEF IInv, TypeOK, Typed, QueueType
    <3>5. HistoryOK' /\ StreamInv'
      BY <3>1 DEF IInv, HistoryOK, StreamInv
    <3>6. \A i \in Iterators : IteratorInv(i)'
      BY <2>2, <3>1, <3>2, FailingKeeps DEF IInv
    <3> QED BY <3>4, <3>5, <3>6 DEF IInv
  <2> QED BY <2>1, <2>2
<1>4. CASE PumpEnds
  <2>1. /\ closed' = TRUE /\ finished' = TRUE /\ over' = "ended" /\ ~closed
        /\ source' = "over" /\ turn' = turn /\ turn = Idle /\ listeners' = {}
        /\ UNCHANGED <<sdk, responses, started, members, log, joined, got, outcome, late>>
        /\ Members([i \in Iterators |-> Close(queue[i])])
    BY <1>4 DEF PumpEnds
  <2> QED BY <1>types, <2>1, EndingStream
<1> QED BY <1>1, <1>2, <1>3, <1>4

LEMMA ListenerSteps ==
  ASSUME IInv, NEW l \in Listeners
  PROVE  /\ \A off \in {{}} \cup {{o} : o \in Listeners} : CallListener(l, off) => IInv'
         /\ CallListenerClosing(l) => IInv'
         /\ On(l) => IInv'
<1>types. /\ sdk \in {"node", "python"} /\ responses \in 0..MaxEvents /\ closed \in BOOLEAN
          /\ source \in {"open", "over"} /\ started \in BOOLEAN
          /\ turn \in [event : 0..MaxEvents, calls : SUBSET Listeners]
          /\ listeners \subseteq Listeners
          /\ turn # Idle => turn.event # NONE
  BY TypeParts DEF IInv, StreamInv
<1>idle. Idle.calls = {} /\ Idle.event = NONE
  BY DEF Idle
<1>less. \A s \in SUBSET Listeners :
           /\ [turn EXCEPT !.calls = @ \ s] \in [event : 0..MaxEvents, calls : SUBSET Listeners]
           /\ [turn EXCEPT !.calls = @ \ s].event = turn.event
  BY <1>types
<1>1. ASSUME NEW off \in {{}} \cup {{o} : o \in Listeners}, CallListener(l, off) PROVE IInv'
  <2>1. off \subseteq Listeners
    OBVIOUS
  <2>2. PICK s \in SUBSET Listeners : turn' = [turn EXCEPT !.calls = @ \ s]
    BY <1>1, <2>1 DEF CallListener
  <2>3. /\ UNCHANGED <<sdk, closed, finished, members, queue, history, responses, source, started>>
        /\ listeners' \subseteq Listeners /\ turn # Idle
    BY <1>1, <1>types, <1>idle DEF CallListener
  <2> QED BY <1>types, <1>less, <2>2, <2>3, NoIterator
<1>2. ASSUME CallListenerClosing(l) PROVE IInv'
  <2>1. /\ sdk = "node" /\ closed' = TRUE /\ finished' = TRUE /\ listeners' = {} /\ turn # Idle
        /\ turn' = [turn EXCEPT !.calls = @ \ {l}]
        /\ UNCHANGED <<sdk, responses, source, started, log, joined, got, outcome, late>>
    BY <1>2, <1>idle DEF CallListenerClosing
  <2>2. /\ turn' \in [event : 0..MaxEvents, calls : SUBSET Listeners]
        /\ turn'.event # NONE
    BY <1>types, <1>less, <2>1
  <2>3. CASE closed
    <3>1. UNCHANGED <<members, queue, over>> /\ members = {}
      BY <1>2, <2>1, <2>3 DEF CallListenerClosing, IInv, StreamInv
    <3>2. Members([i \in Iterators |-> Close(queue[i])])
      BY <3>1 DEF Members, IInv, TypeOK
    <3> QED BY <1>types, <2>1, <2>2, <2>3, <3>1, <3>2, EndingStream
  <2>4. CASE ~closed
    <3>1. members' = {} /\ over' = "ended" /\ Members([i \in Iterators |-> NodeClose(queue[i])])
      BY <1>2, <2>4 DEF CallListenerClosing
    <3>2. Members([i \in Iterators |-> Close(queue[i])])
      BY <2>1, <3>1 DEF Close
    <3> QED BY <1>types, <2>1, <2>2, <2>4, <3>1, <3>2, EndingStream
  <2> QED BY <2>3, <2>4
<1>3. ASSUME On(l) PROVE IInv'
  <2>1. /\ UNCHANGED <<sdk, closed, finished, members, queue, history, responses, source, turn>>
        /\ started' = TRUE /\ listeners' \subseteq Listeners
    BY <1>3, <1>types DEF On
  <2> QED BY <1>types, <2>1, NoIterator
<1> QED BY <1>1, <1>2, <1>3

LEMMA StreamSteps ==
  IInv /\ (NodeCloseStream \/ PythonCloseStream \/ PythonFinish) => IInv'
<1> SUFFICES ASSUME IInv, NodeCloseStream \/ PythonCloseStream \/ PythonFinish PROVE IInv'
  OBVIOUS
<1>types. /\ source \in {"open", "over"} /\ finished \in BOOLEAN
          /\ turn \in [event : 0..MaxEvents, calls : SUBSET Listeners]
  BY TypeParts DEF IInv
<1>1. CASE NodeCloseStream
  <2>1. /\ sdk = "node" /\ closed' = TRUE /\ finished' = TRUE /\ over' = "ended" /\ ~closed
        /\ turn' = turn /\ turn = Idle /\ listeners' = {} /\ members' = {} /\ source' = source
        /\ UNCHANGED <<sdk, responses, started, log, joined, got, outcome, late>>
        /\ Members([i \in Iterators |-> NodeClose(queue[i])])
    BY <1>1 DEF NodeCloseStream
  <2>2. Members([i \in Iterators |-> Close(queue[i])])
    BY <2>1 DEF Close
  <2> QED BY <1>types, <2>1, <2>2, EndingStream
<1>2. CASE PythonCloseStream
  <2>1. /\ ~closed /\ closed' = TRUE /\ over' = "ended" /\ turn = Idle
        /\ UNCHANGED <<sdk, responses, source, started, finished, turn, listeners, members, queue,
                       log, joined, got, outcome, late>>
    BY <1>2 DEF PythonCloseStream
  <2>2. TypeOK'
    BY <2>1, TypeParts DEF IInv, TypeOK
  <2>3. HistoryOK' /\ StreamInv'
    BY <2>1 DEF IInv, HistoryOK, StreamInv
  <2>4. \A i \in Iterators : IteratorInv(i)'
    BY <2>1, MarkingKeeps DEF IInv
  <2> QED BY <2>2, <2>3, <2>4 DEF IInv
<1>3. CASE PythonFinish
  <2>1. /\ sdk = "python" /\ closed /\ closed' = closed /\ finished' = TRUE /\ turn = Idle
        /\ source' = "over" /\ listeners' = {}
        /\ UNCHANGED <<sdk, responses, started, turn, members, log, joined, got, outcome, late, over>>
        /\ Members([i \in Iterators |-> PythonClose(queue[i])])
    BY <1>3 DEF PythonFinish, history
  <2>2. Members([i \in Iterators |-> Close(queue[i])])
    BY <2>1 DEF Close
  <2> QED BY <1>types, <2>1, <2>2, EndingStream
<1> QED BY <1>1, <1>2, <1>3

LEMMA IteratorSteps ==
  ASSUME IInv, NEW i \in Iterators
  PROVE  /\ Begin(i) => IInv'
         /\ Pull(i) \/ PythonWake(i) => IInv'
         /\ Deliver(i) => IInv'
         /\ Leave(i) => IInv'
<1> DEFINE q == queue[i]
<1>types. /\ sdk \in {"node", "python"} /\ q \in QueueType /\ members \subseteq Iterators
          /\ DOMAIN queue = Iterators /\ queue \in [Iterators -> QueueType]
          /\ started \in BOOLEAN /\ closed \in BOOLEAN /\ IteratorInv(i)
          /\ TypeOK /\ HistoryOK /\ StreamInv
  BY TypeParts DEF IInv, Typed
<1>history. /\ log \in Seq(Events) /\ joined \in [Iterators -> Int] /\ got \in [Iterators -> Seq(Events)]
            /\ outcome \in [Iterators -> {"open", "done", "error", "left"}] /\ Len(log) \in Nat
  BY DEF IInv, HistoryOK
<1>1. ASSUME Begin(i) PROVE IInv'
  <2> DEFINE r == IF closed THEN Settle(q, END) ELSE Turned(q, "waiting")
  <2>1. /\ q.consumer = "new" /\ turn = Idle /\ joined' = [joined EXCEPT ![i] = Len(log)]
        /\ UNCHANGED <<sdk, responses, source, closed, finished, turn, listeners,
                       log, got, outcome, late, over>>
        /\ members' = IF closed THEN members ELSE members \cup {i}
        /\ started' \in BOOLEAN
    BY <1>1, <1>types DEF Begin
  <2>2. queue' = [queue EXCEPT ![i] = r]
    BY <1>1, Zenon DEF Begin, Turned
  <2>3. r \in QueueType
    <3>1. CASE closed
      BY <1>types, <3>1, SettleFields
    <3>2. CASE ~closed
      <4>1. "waiting" \in {"idle", "waiting", "over"} /\ r = Turned(q, "waiting")
        BY <3>2
      <4> HIDE DEF q, r
      <4> QED BY <1>types, <4>1, SetFields
    <3> QED BY <3>1, <3>2
  <2>4. queue'[i] = r /\ joined'[i] = Len(log)
    BY <1>types, <1>history, <2>1, <2>2
  <2>5. IteratorInv(i)'
    <3>1. queue'[i] = IF closed THEN Settle(queue[i], END)
                      ELSE [queue[i] EXCEPT !.consumer = "waiting"]
      BY <2>4, Zenon DEF Turned
    <3> QED BY <1>types, <2>1, <2>4, <3>1, BeginKeeps
  <2>6. HistoryOK'
    BY <1>types, <1>history, <2>1 DEF HistoryOK
  <2> HIDE DEF r
  <2> QED BY <1>types, <1>history, <2>1, <2>2, <2>3, <2>5, <2>6, OneIterator
<1>2. ASSUME Pull(i) \/ PythonWake(i) PROVE IInv'
  <2>1. /\ q.consumer \in {"idle", "waiting"} /\ turn = Idle
        /\ UNCHANGED <<sdk, responses, source, started, closed, finished, turn, listeners, members, history>>
    BY <1>2 DEF Pull, PythonWake
  <2>2. UNCHANGED <<log, joined, got, outcome, late, over>>
    BY <2>1 DEF history
  <2>3. HistoryOK'
    BY <1>types, <2>2 DEF HistoryOK
  <2>4. CASE Found(q) # NONE
    <3>1. queue' = [queue EXCEPT ![i] = Taken(q)]
      BY <1>2, <2>4 DEF Pull, PythonWake
    <3>2. queue'[i] = Taken(q)
      BY <1>types, <3>1
    <3>3. IteratorInv(i)'
      BY <1>types, <2>1, <2>2, <2>4, <3>2, TakenKeeps
    <3>4. Taken(q) \in QueueType
      BY <2>4, QueuesTyped
    <3> QED BY <1>types, <2>1, <2>2, <2>3, <3>1, <3>3, <3>4, OneIterator
  <2>5. CASE Found(q) = NONE
    <3>1. Pull(i)
      <4>1. SUFFICES ASSUME PythonWake(i) PROVE FALSE
        BY <1>2
      <4>2. q.buffer # <<>> /\ q.buffer \in Seq(Events \cup {END})
        BY <1>types, <4>1 DEF PythonWake, QueueType
      <4>3. Head(q.buffer) \in Events \cup {END}
        <5> HIDE DEF q
        <5> QED BY <4>2, TailFacts
      <4> QED BY <2>5, <4>2, <4>3, Tags DEF Found
    <3>2. queue' = [queue EXCEPT ![i] = Turned(q, "waiting")] /\ q.consumer = "idle"
      BY <2>5, <3>1, Zenon DEF Pull, Turned
    <3>3. queue'[i] = [queue[i] EXCEPT !.consumer = "waiting"]
      <4>1. queue'[i] = Turned(q, "waiting")
        BY <1>types, <3>2
      <4> QED BY <4>1, Zenon DEF Turned
    <3>4. IteratorInv(i)'
      BY <1>types, <2>1, <2>2, <2>5, <3>2, <3>3, WaitingKeeps
    <3>5. Turned(q, "waiting") \in QueueType
      <4>1. "waiting" \in {"idle", "waiting", "over"}
        OBVIOUS
      <4> HIDE DEF q
      <4> QED BY <1>types, <4>1, SetFields
    <3> QED BY <1>types, <2>1, <2>2, <2>3, <3>2, <3>4, <3>5, OneIterator
  <2> QED BY <2>4, <2>5
<1>4. ASSUME Leave(i) PROVE IInv'
  <2>1. /\ q.consumer = "idle" /\ turn = Idle /\ members' = members \ {i}
        /\ outcome' = [outcome EXCEPT ![i] = "left"]
        /\ UNCHANGED <<sdk, responses, source, started, closed, finished, turn, listeners,
                       log, joined, got, late, over>>
    BY <1>4 DEF Leave
  <2>2. queue' = [queue EXCEPT ![i] = Turned(q, "over")]
    BY <1>4, Zenon DEF Leave, Turned
  <2>3. queue'[i] = [queue[i] EXCEPT !.consumer = "over"] /\ outcome'[i] = "left"
    <3>1. queue'[i] = Turned(q, "over")
      BY <1>types, <2>2
    <3>2. queue'[i] = [queue[i] EXCEPT !.consumer = "over"]
      BY <3>1, Zenon DEF Turned
    <3> QED BY <1>history, <2>1, <3>2
  <2>4. IteratorInv(i)'
    BY <1>types, <2>1, <2>3, LeavingKeeps
  <2>5. HistoryOK'
    BY <1>types, <1>history, <2>1 DEF HistoryOK
  <2>6. Turned(q, "over") \in QueueType
    <3>1. "over" \in {"idle", "waiting", "over"}
      OBVIOUS
    <3> HIDE DEF q
    <3> QED BY <1>types, <3>1, SetFields
  <2> QED BY <1>types, <1>history, <2>1, <2>2, <2>4, <2>5, <2>6, OneIterator
<1>3. ASSUME Deliver(i) PROVE IInv'
  <2> DEFINE c == IF q.hand \in Events THEN "idle" ELSE "over"
             r == Emptied(q, c)
  <2>1. /\ q.consumer = "settled" /\ turn = Idle
        /\ UNCHANGED <<sdk, responses, source, started, closed, finished, turn, listeners,
                       log, joined, late, over>>
        /\ IF q.hand \in Events
           THEN /\ got' = [got EXCEPT ![i] = Append(@, q.hand)]
                /\ UNCHANGED <<members, outcome>>
           ELSE /\ members' = members \ {i} /\ got' = got
                /\ outcome' = [outcome EXCEPT ![i] = IF q.hand = END THEN "done" ELSE "error"]
    BY <1>3 DEF Deliver
  <2>2. queue' = [queue EXCEPT ![i] = r]
    <3>1. queue' = [queue EXCEPT ![i].hand = NONE, ![i].consumer = c]
      BY <1>3, Zenon DEF Deliver
    <3> HIDE DEF c
    <3> QED BY <1>types, <3>1 DEF Emptied
  <2>3. queue'[i] = [q EXCEPT !.hand = NONE, !.consumer = c]
    <3>1. queue'[i] = r
      BY <1>types, <2>2
    <3> HIDE DEF c
    <3> QED BY <3>1, Zenon DEF Emptied
  <2>4. r \in QueueType
    <3>1. c \in {"idle", "waiting", "over"}
      OBVIOUS
    <3> HIDE DEF q, c
    <3> QED BY <1>types, <3>1, SetFields
  <2> HIDE DEF r
  <2>5. CASE q.hand \in Events
    <3>1. got'[i] = Append(got[i], q.hand) /\ got[i] \in Seq(Events)
      BY <1>history, <2>1, <2>5
    <3>2. IteratorInv(i)'
      BY <1>types, <2>1, <2>3, <2>5, <3>1, ReceivingKeeps
    <3>3. got'[i] \in Seq(Events)
      BY <2>5, <3>1
    <3>4. got' \in [Iterators -> Seq(Events)]
      BY <1>history, <2>1, <2>5, <3>1, <3>3
    <3>5. HistoryOK'
      BY <1>types, <2>1, <2>5, <3>4 DEF HistoryOK
    <3>6. /\ \A j \in Iterators \ {i} : got'[j] = got[j]
          /\ members' = members /\ outcome' = outcome
      BY <1>history, <2>1, <2>5
    <3> QED BY <1>types, <2>1, <2>2, <2>4, <3>2, <3>5, <3>6, OneIterator
  <2>6. CASE q.hand \notin Events
    <3>1. /\ outcome'[i] = IF q.hand = END THEN "done" ELSE "error"
          /\ \A j \in Iterators \ {i} : outcome'[j] = outcome[j]
          /\ outcome' \in [Iterators -> {"open", "done", "error", "left"}]
      BY <1>history, <2>1, <2>6
    <3>2. IteratorInv(i)'
      BY <1>types, <2>1, <2>3, <2>6, <3>1, EndingKeeps
    <3>3. HistoryOK'
      BY <1>types, <2>1, <2>6, <3>1 DEF HistoryOK
    <3> QED BY <1>types, <2>1, <2>2, <2>4, <2>6, <3>1, <3>2, <3>3, OneIterator
  <2> QED BY <2>5, <2>6
<1> QED BY <1>1, <1>2, <1>3, <1>4

LEMMA Stepping == IInv /\ [Next]_vars => IInv'
<1> SUFFICES ASSUME IInv, [Next]_vars PROVE IInv'
  OBVIOUS
<1>1. CASE BeginTurn \/ EndTurn \/ PumpFails \/ PumpEnds
  BY <1>1, PumpSteps
<1>2. ASSUME NEW l \in Listeners, NEW off \in {{}} \cup {{o} : o \in Listeners}, CallListener(l, off)
      PROVE  IInv'
  BY <1>2, ListenerSteps
<1>3. ASSUME NEW l \in Listeners, CallListenerClosing(l) \/ On(l) PROVE IInv'
  BY <1>3, ListenerSteps
<1>4. ASSUME NEW i \in Iterators, Begin(i) \/ Pull(i) \/ PythonWake(i) \/ Deliver(i) \/ Leave(i)
      PROVE  IInv'
  BY <1>4, IteratorSteps
<1>5. CASE NodeCloseStream \/ PythonCloseStream \/ PythonFinish
  BY <1>5, StreamSteps
<1>6. CASE UNCHANGED vars
  <2>1. UNCHANGED <<sdk, responses, source, started, closed, finished, turn, listeners, members, queue, history>>
    BY <1>6 DEF vars
  <2>2. /\ responses \in 0..MaxEvents /\ source \in {"open", "over"} /\ started \in BOOLEAN
        /\ turn \in [event : 0..MaxEvents, calls : SUBSET Listeners]
        /\ (turn # Idle => turn.event # NONE) /\ listeners \subseteq Listeners
    BY TypeParts DEF IInv, StreamInv
  <2> QED BY <2>1, <2>2, NoIterator
<1> QED BY <1>1, <1>2, <1>3, <1>4, <1>5, <1>6 DEF Next

\* The invariant of every run of either SDK's stream: what an iterator has received,
\* holds in its hand and has buffered is a stretch of the log, and nothing is missing
\* unless the iterator has given up.
THEOREM StreamsKeepTheirBooks == Spec => []IInv
BY Beginning, Stepping, PTL DEF Spec

\* Every variable keeps its type: the buffers hold events and the sentinel only.
THEOREM SdkTypes == Spec => []TypeOK
<1>1. IInv => TypeOK
  BY DEF IInv
<1> QED BY <1>1, StreamsKeepTheirBooks, PTL

\* put_nowait never raises QueueFull, whether for an event or for the sentinel: the
\* asyncio.Queue of iterator_buffer + 1 places is never asked for one more.
THEOREM TheSentinelFits == Spec => []EndAlwaysFits
<1>1. ASSUME IInv, NEW i \in Iterators
      PROVE  Len(queue[i].buffer) <= Limit + 1 /\ (~queue[i].ended => Len(queue[i].buffer) <= Limit)
  <2> DEFINE q == queue[i]
  <2>1. q \in QueueType /\ Shape(q) /\ sdk \in {"node", "python"}
    BY <1>1, Types DEF IInv, IteratorInv
  <2>2. /\ Buffered(q) \in Nat /\ Buffered(q) <= Limit
        /\ Len(q.buffer) \in {Buffered(q), Buffered(q) + 1}
        /\ ~q.ended => Len(q.buffer) = Buffered(q)
    BY <2>1, CountFacts DEF Shape
  <2> QED BY <2>2, SdkAssumption
<1>2. IInv => EndAlwaysFits
  BY <1>1 DEF EndAlwaysFits
<1> QED BY <1>2, StreamsKeepTheirBooks, PTL

-----------------------------------------------------------------------------
(* The Node SDK takes nothing back *)

LEMMA HeldFacts ==
  ASSUME NEW q \in QueueType
  PROVE  /\ Held(q) \in Nat /\ Len(q.buffer) \in Nat
         /\ q.hand \notin Events => Held(q) = Len(q.buffer)
         /\ q.hand \in Events => Held(q) = Len(q.buffer) + 1
<1>1. q.buffer \in Seq(Events \cup {END}) /\ Len(q.buffer) \in Nat
  BY DEF QueueType
<1>2. q.hand \notin Events => Held(q) = Len(q.buffer) + 0
  BY DEF Held
<1>3. q.hand \in Events => Held(q) = Len(q.buffer) + 1
  BY DEF Held
<1> QED BY <1>1, <1>2, <1>3

\* close and fail leave a Node queue what it holds.
LEMMA EndsHold ==
  ASSUME sdk = "node", NEW q \in QueueType, Shape(q), NEW failing \in BOOLEAN,
         NEW r, EndsAs(q, r, failing)
  PROVE  Held(r) = Held(q)
<1>1. r.buffer = q.buffer
  BY DEF EndsAs
<1>2. r.hand \in Events <=> q.hand \in Events
  BY Tags DEF EndsAs, Shape
<1> QED BY <1>1, <1>2 DEF Held

\* So does push, which adds one event unless it fails the queue.
LEMMA PushHolds ==
  ASSUME sdk = "node", NEW q \in QueueType, Shape(q), NEW e \in Events
  PROVE  Held(Push(q, e)) \in Nat /\ Held(Push(q, e)) >= Held(q)
<1> DEFINE r == Push(q, e)
<1>1. q.buffer \in Seq(Events \cup {END}) /\ Len(q.buffer) \in Nat /\ Held(q) \in Nat
  BY DEF QueueType, Held
<1>2. CASE q.ended
  BY <1>1, <1>2 DEF Push, NodePush
<1>3. CASE ~q.ended /\ q.consumer = "waiting"
  <2>1. r.hand = e /\ r.buffer = q.buffer
    BY <1>3, PushFields
  <2> QED BY <1>1, <2>1 DEF Held
<1>4. CASE ~q.ended /\ q.consumer # "waiting" /\ Len(q.buffer) >= Limit
  <2>1. EndsAs(q, r, TRUE)
    BY <1>4, PushFields
  <2> HIDE DEF r
  <2>2. Held(r) = Held(q)
    BY <2>1, EndsHold
  <2> QED BY <1>1, <2>2 DEF r
<1>5. CASE ~q.ended /\ q.consumer # "waiting" /\ ~(Len(q.buffer) >= Limit)
  <2>1. r.hand = q.hand /\ r.buffer = Append(q.buffer, e)
    BY <1>5, PushFields
  <2>2. Len(r.buffer) = Len(q.buffer) + 1
    BY <1>1, <2>1
  <2> HIDE DEF r
  <2>3. PICK h \in {0, 1} : Held(r) = Len(r.buffer) + h /\ Held(q) = Len(q.buffer) + h
    BY <2>1 DEF Held
  <2> QED BY <1>1, <2>2, <2>3 DEF r
<1> QED BY <1>2, <1>3, <1>4, <1>5

\* What next() takes out of the buffer is in hand afterwards.
LEMMA TakenHolds ==
  ASSUME sdk = "node", NEW q \in QueueType, Shape(q), q.consumer # "settled", Found(q) # NONE
  PROVE  Held(Taken(q)) = Held(q)
<1> DEFINE r == Taken(q)
<1>1. q.hand = NONE /\ NONE \notin Events
  BY Tags DEF Shape
<1>2. /\ r.hand = IF Found(q) = END /\ q.failed THEN ERROR ELSE Found(q)
      /\ IF q.buffer # <<>> THEN Found(q) = Head(q.buffer) /\ r.buffer = Tail(q.buffer)
         ELSE r.buffer = <<>> /\ Found(q) = IF q.failed THEN ERROR ELSE END
  BY TakenFields
<1> HIDE DEF r
<1>3. CASE q.buffer # <<>>
  <2>1. q.buffer \in Seq(Events \cup {END})
    BY DEF QueueType
  <2>2. /\ Len(q.buffer) \in Nat /\ Len(q.buffer) > 0 /\ Len(r.buffer) = Len(q.buffer) - 1
        /\ Head(q.buffer) = q.buffer[1] /\ Head(q.buffer) \in Events \cup {END}
    BY <1>2, <1>3, <2>1, TailFacts
  <2>3. Head(q.buffer) # END
    BY <2>2 DEF Shape
  <2>4. r.hand \in Events
    BY <1>2, <1>3, <2>2, <2>3
  <2>5. Held(q) = Len(q.buffer)
    BY <1>1, <2>2 DEF Held
  <2>6. Held(r) = Len(r.buffer) + 1
    BY <2>4 DEF Held
  <2> QED BY <2>2, <2>5, <2>6 DEF r
<1>4. CASE q.buffer = <<>>
  <2>1. r.hand \notin Events /\ r.buffer = q.buffer
    BY <1>2, <1>4, Tags
  <2> QED BY <1>1, <2>1 DEF Held, r
<1> QED BY <1>3, <1>4

\* No step takes an event back that a Node iterator can still read.
LEMMA ReachGrows ==
  ASSUME IInv, [Next]_vars, sdk = "node", NEW i \in Iterators
  PROVE  Reach(i)' >= Reach(i)
<1> DEFINE q == queue[i]
           r == queue'[i]
<1>types. /\ q \in QueueType /\ Shape(q) /\ joined[i] \in Int /\ joined[i] >= -1
          /\ got[i] \in Seq(Events) /\ Len(got[i]) \in Nat /\ joined[i] <= Len(log)
          /\ Len(log) \in Nat /\ Held(q) \in Nat
          /\ (joined[i] = -1 <=> q.consumer = "new") /\ (joined[i] = -1 => got[i] = <<>>)
          /\ joined \in [Iterators -> Int] /\ got \in [Iterators -> Seq(Events)]
          /\ queue \in [Iterators -> QueueType]
  <2>1. /\ q \in QueueType /\ joined[i] \in Int /\ joined[i] >= -1
        /\ got[i] \in Seq(Events) /\ Len(got[i]) \in Nat /\ Len(log) \in Nat
    BY Types DEF IInv
  <2>2. IteratorInv(i) /\ HistoryOK /\ Typed(queue)
    BY TypeParts DEF IInv
  <2>3. Held(q) \in Nat
    <3> HIDE DEF q
    <3> QED BY <2>1, HeldFacts
  <2> QED BY <2>1, <2>2, <2>3 DEF IteratorInv, HistoryOK, Typed
<1>same. ASSUME joined'[i] = joined[i], got'[i] = got[i], Held(r) \in Nat, Held(r) >= Held(q)
         PROVE  Reach(i)' >= Reach(i)
  <2>1. /\ Reach(i) = joined[i] + Len(got[i]) + Held(q)
        /\ Reach(i)' = joined[i] + Len(got[i]) + Held(r)
    BY <1>same DEF Reach, Held
  <2> HIDE DEF q, r
  <2> QED BY <1>types, <1>same, <2>1
<1>kept. joined'[i] = joined[i] /\ got'[i] = got[i] /\ r = q => Reach(i)' >= Reach(i)
  BY <1>types, <1>same
<1>ends. ASSUME joined'[i] = joined[i], got'[i] = got[i], NEW failing \in BOOLEAN,
                r = q \/ EndsAs(q, r, failing)
         PROVE  Reach(i)' >= Reach(i)
  BY <1>types, <1>same, <1>kept, <1>ends, EndsHold
<1>failed. Fail(q) = q \/ EndsAs(q, Fail(q), TRUE)
  BY <1>types, FailFields
<1>closing. NodeClose(q) = q \/ EndsAs(q, NodeClose(q), FALSE)
  BY <1>types, CloseFields DEF Close, Shape
<1>1. CASE BeginTurn \/ UNCHANGED vars
  BY <1>1, <1>kept DEF BeginTurn, vars, history
<1>2. CASE EndTurn
  <2>1. turn.event \in Events
    BY <1>2, TypeParts, SdkAssumption DEF EndTurn, IInv, StreamInv, Events, NONE
  <2>2. joined'[i] = joined[i] /\ got'[i] = got[i] /\ (r = q \/ r = Push(q, turn.event))
    BY <1>2 DEF EndTurn, Members
  <2> QED BY <1>types, <1>same, <1>kept, <2>1, <2>2, PushHolds
<1>3. CASE PumpFails
  <2>1. joined'[i] = joined[i] /\ got'[i] = got[i] /\ (r = q \/ r = Fail(q))
    BY <1>3 DEF PumpFails, Members
  <2> QED BY <1>ends, <1>failed, <2>1
<1>4. CASE PumpEnds \/ NodeCloseStream \/ \E l \in Listeners : CallListenerClosing(l)
  <2>1. joined'[i] = joined[i] /\ got'[i] = got[i] /\ (r = q \/ r = NodeClose(q))
    BY <1>4 DEF PumpEnds, NodeCloseStream, CallListenerClosing, Members, Close
  <2> QED BY <1>ends, <1>closing, <2>1
<1>5. CASE PythonCloseStream \/ PythonFinish
  BY <1>5 DEF PythonCloseStream, PythonFinish
<1>6. ASSUME NEW l \in Listeners, NEW off \in {{}} \cup {{o} : o \in Listeners},
             CallListener(l, off) \/ On(l)
      PROVE  Reach(i)' >= Reach(i)
  BY <1>6, <1>kept DEF CallListener, On, history
<1>7. ASSUME NEW j \in Iterators, j # i,
             Begin(j) \/ Pull(j) \/ PythonWake(j) \/ Deliver(j) \/ Leave(j)
      PROVE  Reach(i)' >= Reach(i)
  <2>1. r = q /\ joined'[i] = joined[i] /\ got'[i] = got[i]
    BY <1>7, <1>types DEF Begin, Pull, PythonWake, Deliver, Leave, history
  <2> QED BY <1>kept, <2>1
<1>8. CASE Begin(i)
  <2>1. /\ q.consumer = "new" /\ joined'[i] = Len(log) /\ got'[i] = got[i]
    BY <1>8, <1>types DEF Begin
  <2>2. q.buffer = <<>> /\ q.hand = NONE /\ NONE \notin Events /\ END \notin Events
    BY <1>types, <2>1, Tags DEF Shape
  <2>3. Held(q) = 0 /\ Held(r) = 0
    <3>1. r = Settle(q, END) \/ r = Turned(q, "waiting")
      <4>1. CASE closed
        BY <1>8, <1>types, <4>1, Zenon DEF Begin
      <4>2. CASE ~closed
        <5>1. queue' = [queue EXCEPT ![i] = Turned(q, "waiting")]
          BY <1>8, <4>2, Zenon DEF Begin, Turned
        <5> QED BY <1>types, <5>1
      <4> QED BY <4>1, <4>2
    <3>2. Settle(q, END).buffer = q.buffer /\ Settle(q, END).hand = END
      BY <1>types, SettleFields
    <3>3. Turned(q, "waiting").buffer = q.buffer /\ Turned(q, "waiting").hand = q.hand
      BY <1>types DEF Turned, QueueType
    <3>4. r.buffer = <<>> /\ r.hand \notin Events
      BY <2>2, <3>1, <3>2, <3>3
    <3> QED BY <2>2, <3>4 DEF Held
  <2>4. Reach(i) = joined[i] + Len(got[i]) + 0 /\ Reach(i)' = Len(log) + Len(got[i]) + 0
    BY <2>1, <2>3 DEF Reach, Held
  <2> QED BY <1>types, <2>4
<1>9. CASE Pull(i) \/ PythonWake(i)
  <2>1. /\ q.consumer # "settled" /\ joined'[i] = joined[i] /\ got'[i] = got[i]
        /\ Pull(i)
    BY <1>9 DEF Pull, PythonWake, history
  <2>2. CASE Found(q) # NONE
    <3>1. r = Taken(q)
      BY <1>types, <2>1, <2>2 DEF Pull
    <3> QED BY <1>types, <1>same, <2>1, <2>2, <3>1, TakenHolds
  <2>3. CASE Found(q) = NONE
    <3>1. queue' = [queue EXCEPT ![i] = Turned(q, "waiting")]
      BY <2>1, <2>3, Zenon DEF Pull, Turned
    <3>2. r = Turned(q, "waiting")
      BY <1>types, <3>1
    <3>3. r.buffer = q.buffer /\ r.hand = q.hand
      BY <1>types, <3>2 DEF Turned, QueueType
    <3>4. Held(r) = Held(q)
      BY <3>3 DEF Held
    <3> QED BY <1>types, <1>same, <2>1, <3>4
  <2> QED BY <2>2, <2>3
<1>10. CASE Leave(i)
  <2>1. queue' = [queue EXCEPT ![i] = Turned(q, "over")] /\ joined' = joined /\ got' = got
    BY <1>10, Zenon DEF Leave, Turned
  <2>2. r = Turned(q, "over")
    BY <1>types, <2>1
  <2>3. r.buffer = q.buffer /\ r.hand = q.hand
    BY <1>types, <2>2 DEF Turned, QueueType
  <2>4. Held(r) = Held(q)
    BY <2>3 DEF Held
  <2> QED BY <1>types, <1>same, <2>1, <2>4
<1>11. CASE Deliver(i)
  <2> DEFINE c == IF q.hand \in Events THEN "idle" ELSE "over"
  <2>1. queue' = [queue EXCEPT ![i] = Emptied(q, c)]
    <3>1. queue' = [queue EXCEPT ![i].hand = NONE, ![i].consumer = c]
      BY <1>11, Zenon DEF Deliver
    <3> HIDE DEF c
    <3> QED BY <1>types, <3>1 DEF Emptied
  <2>2. r = Emptied(q, c)
    BY <1>types, <2>1
  <2>3. r.buffer = q.buffer /\ r.hand = NONE
    <3> HIDE DEF c
    <3> QED BY <1>types, <2>2 DEF Emptied, QueueType
  <2>4. joined'[i] = joined[i]
    BY <1>11 DEF Deliver
  <2>5. Held(r) = Len(q.buffer)
    BY <2>3, Tags DEF Held
  <2>6. CASE q.hand \in Events
    <3>1. got'[i] = Append(got[i], q.hand)
      BY <1>11, <1>types, <2>6 DEF Deliver
    <3>2. Len(got'[i]) = Len(got[i]) + 1
      BY <1>types, <2>6, <3>1
    <3>3. Held(q) = Len(q.buffer) + 1 /\ Len(q.buffer) \in Nat
      BY <1>types, <2>6 DEF Held, QueueType
    <3>4. /\ Reach(i) = joined[i] + Len(got[i]) + (Len(q.buffer) + 1)
          /\ Reach(i)' = joined[i] + (Len(got[i]) + 1) + Len(q.buffer)
      BY <2>4, <2>5, <3>2, <3>3 DEF Reach, Held
    <3> HIDE DEF q
    <3> QED BY <1>types, <3>3, <3>4
  <2>7. CASE q.hand \notin Events
    <3>1. got'[i] = got[i]
      BY <1>11, <1>types, <2>7 DEF Deliver
    <3>2. Held(r) = Held(q)
      <4> HIDE DEF q
      <4> QED BY <1>types, <2>5, <2>7, HeldFacts
    <3> QED BY <1>types, <1>same, <2>4, <3>1, <3>2
  <2> QED BY <2>6, <2>7
<1> QED BY <1>1, <1>2, <1>3, <1>4, <1>5, <1>6, <1>7, <1>8, <1>9, <1>10, <1>11 DEF Next

\* In Node an overflow, a failure or a close takes no event back that an iterator can
\* still read; one that ends with an error has read its buffer empty, so all that was
\* buffered when its queue overflowed, and everything when only the stream failed.
THEOREM NodeDrains == Spec => NodeDrainsBeforeTheError
<1> DEFINE Drained(i) == outcome[i] = "error" =>
                           /\ queue[i].buffer = <<>>
                           /\ over = "failed" /\ i \notin late => Unread(i) = 0
           A == sdk = "node" => \A i \in Iterators :
                  /\ Reach(i)' >= Reach(i)
                  /\ outcome'[i] = "error" =>
                       /\ queue'[i].buffer = <<>>
                       /\ over' = "failed" /\ i \notin late' => Unread(i)' = 0
<1>1. IInv => (sdk = "node" => \A i \in Iterators : Drained(i))
  BY DEF IInv, IteratorInv
<1>2. ASSUME IInv, IInv', [Next]_vars PROVE A
  <2>1. SUFFICES ASSUME sdk = "node", NEW i \in Iterators
                 PROVE  Reach(i)' >= Reach(i) /\ Drained(i)'
    OBVIOUS
  <2>2. sdk' = sdk
    BY <1>2 DEF Next, BeginTurn, EndTurn, PumpFails, PumpEnds, CallListener, CallListenerClosing,
         On, Begin, Pull, PythonWake, Deliver, Leave, NodeCloseStream, PythonCloseStream,
         PythonFinish, vars
  <2>3. Drained(i)'
    BY <1>2, <2>1, <2>2 DEF IInv, IteratorInv
  <2> QED BY <1>2, <2>1, <2>3, ReachGrows
<1>3. IInv /\ IInv' /\ [Next]_vars => [A]_vars
  BY <1>2
<1>4. Spec => [][Next]_vars
  BY DEF Spec
<1> QED BY <1>3, <1>4, StreamsKeepTheirBooks, PTL DEF NodeDrainsBeforeTheError

-----------------------------------------------------------------------------
(* The streams implement IteratorPromise *)

LEMMA StoppingMaps ==
  ASSUME IInv, ~closed, over' \in {"ended", "failed"},
         UNCHANGED <<log, joined, got, outcome, late>>
  PROVE  Promise!Next
BY DEF IInv, StreamInv, Promise!Next, Promise!Stop

LEMMA StutterMaps ==
  ASSUME UNCHANGED <<log, joined, got, outcome, late, over>>
  PROVE  UNCHANGED Promise!vars
BY DEF Promise!vars

LEMMA StepMaps == IInv /\ [Next]_vars => [Promise!Next]_Promise!vars
<1> SUFFICES ASSUME IInv, [Next]_vars PROVE Promise!Next \/ UNCHANGED Promise!vars
  OBVIOUS
<1>1. CASE BeginTurn \/ PythonFinish \/ UNCHANGED vars
  BY <1>1, StutterMaps DEF BeginTurn, PythonFinish, vars, history
<1>2. CASE EndTurn
  <2>1. CASE closed
    BY <1>2, <2>1, StutterMaps DEF EndTurn
  <2>2. CASE ~closed
    <3>1. turn.event \in Events
      BY <1>2, TypeParts, SdkAssumption DEF EndTurn, IInv, StreamInv, Events, NONE
    <3>2. {i \in members : outcome[i] = "open" /\ Unread(i) >= Limit} =
          {i \in Iterators : joined[i] # -1 /\ outcome[i] = "open" /\ Promise!Unread(i) >= Limit}
      <4>1. members \subseteq Iterators
        BY TypeParts DEF IInv
      <4>2. ASSUME NEW i \in Iterators
            PROVE  i \in members <=> joined[i] # -1 /\ outcome[i] = "open"
        BY <2>2 DEF IInv, IteratorInv
      <4> QED BY <4>1, <4>2 DEF Unread, Promise!Unread
    <3>3. over = "open"
      BY <2>2 DEF IInv, StreamInv
    <3>4. Promise!Offer(turn.event)
      BY <1>2, <2>2, <3>2, <3>3 DEF EndTurn, Promise!Offer
    <3> QED BY <3>1, <3>4 DEF Promise!Next
  <2> QED BY <2>1, <2>2
<1>3. CASE PumpFails \/ PumpEnds \/ NodeCloseStream \/ PythonCloseStream
  <2>1. CASE closed
    BY <1>3, <2>1, StutterMaps DEF PumpFails, PumpEnds, NodeCloseStream, PythonCloseStream
  <2>2. CASE ~closed
    <3>1. over' \in {"ended", "failed"} /\ UNCHANGED <<log, joined, got, outcome, late>>
      BY <1>3, <2>2 DEF PumpFails, PumpEnds, NodeCloseStream, PythonCloseStream
    <3> QED BY <2>2, <3>1, StoppingMaps
  <2> QED BY <2>1, <2>2
<1>4. ASSUME NEW l \in Listeners, NEW off \in {{}} \cup {{o} : o \in Listeners},
             CallListener(l, off) \/ On(l)
      PROVE  UNCHANGED Promise!vars
  BY <1>4, StutterMaps DEF CallListener, On, history
<1>5. ASSUME NEW l \in Listeners, CallListenerClosing(l)
      PROVE  Promise!Next \/ UNCHANGED Promise!vars
  <2>1. CASE closed
    BY <1>5, <2>1, StutterMaps DEF CallListenerClosing
  <2>2. CASE ~closed
    BY <1>5, <2>2, StoppingMaps DEF CallListenerClosing
  <2> QED BY <2>1, <2>2
<1>6. ASSUME NEW i \in Iterators, Begin(i) \/ Pull(i) \/ PythonWake(i) \/ Deliver(i) \/ Leave(i)
      PROVE  Promise!Next \/ UNCHANGED Promise!vars
  <2> DEFINE q == queue[i]
  <2>inv. TypeOK /\ HistoryOK /\ StreamInv /\ IteratorInv(i)
    BY DEF IInv
  <2>open. q.consumer \notin {"new", "over"} => joined[i] # -1 /\ outcome[i] = "open"
    BY <2>inv DEF IteratorInv
  <2>1. CASE Begin(i)
    <3>1. Promise!Join(i)
      BY <2>1, <2>inv DEF Begin, IteratorInv, Promise!Join
    <3> QED BY <3>1 DEF Promise!Next
  <2>2. CASE Pull(i) \/ PythonWake(i)
    BY <2>2, StutterMaps DEF Pull, PythonWake, history
  <2>3. CASE Leave(i)
    <3>1. Promise!End(i, "left")
      BY <2>3, <2>open DEF Leave, Promise!End
    <3> QED BY <3>1 DEF Promise!Next
  <2>4. CASE Deliver(i)
    <3>1. /\ q.consumer = "settled"
          /\ UNCHANGED <<sdk, closed, log, joined, late, over>>
          /\ IF q.hand \in Events
             THEN /\ got' = [got EXCEPT ![i] = Append(@, q.hand)]
                  /\ UNCHANGED <<members, outcome>>
             ELSE /\ members' = members \ {i} /\ got' = got
                  /\ outcome' = [outcome EXCEPT ![i] = IF q.hand = END THEN "done" ELSE "error"]
      BY <2>4 DEF Deliver
    <3>2. queue'[i] = [q EXCEPT !.hand = NONE, !.consumer = IF q.hand \in Events THEN "idle" ELSE "over"]
      <4> DEFINE c == IF q.hand \in Events THEN "idle" ELSE "over"
      <4>1. queue' = [queue EXCEPT ![i].hand = NONE, ![i].consumer = c]
        BY <2>4, Zenon DEF Deliver
      <4>2. queue \in [Iterators -> QueueType]
        BY <2>inv, TypeParts DEF Typed
      <4> HIDE DEF c
      <4>3. queue'[i] = Emptied(q, c)
        BY <4>1, <4>2 DEF Emptied
      <4> QED BY <4>3, Zenon DEF Emptied, c
    <3>3. CASE q.hand \in Events
      <4>1. got'[i] = Append(got[i], q.hand)
        BY <2>inv, <3>1, <3>3 DEF HistoryOK
      <4>2. Unread(i) > 0 /\ q.hand = log[joined[i] + Len(got[i]) + 1]
        BY <2>inv, <3>1, <3>2, <3>3, <4>1, ReceivingKeeps
      <4>3. Promise!Receive(i)
        BY <2>open, <3>1, <3>3, <4>2 DEF Promise!Receive, Promise!Unread, Unread
      <4> QED BY <4>3 DEF Promise!Next
    <3>4. CASE q.hand \notin Events
      <4>1. outcome'[i] = IF q.hand = END THEN "done" ELSE "error"
        BY <2>inv, <3>1, <3>4 DEF HistoryOK
      <4>2. /\ q.hand \in {END, ERROR}
            /\ q.hand = END => over # "open" /\ Unread(i) = 0
            /\ q.hand = ERROR => over = "failed" \/ i \in late
        BY <2>inv, <3>1, <3>2, <3>4, <4>1, EndingKeeps
      <4>3. Promise!End(i, IF q.hand = END THEN "done" ELSE "error")
        BY <2>open, <3>1, <3>4, <4>2 DEF Promise!End, Promise!Unread, Unread
      <4> QED BY <4>3 DEF Promise!Next
    <3> QED BY <3>3, <3>4
  <2> QED BY <1>6, <2>1, <2>2, <2>3, <2>4
<1> QED BY <1>1, <1>2, <1>3, <1>4, <1>5, <1>6 DEF Next

\* Both SDKs' streams implement IteratorPromise: whatever pump, listeners, consumers and
\* close do in whatever order, an iterator gets a stretch of the stream without a gap, is
\* told "done" only when it has all of it, and is failed only for its own slowness or the
\* stream's failure.
THEOREM BothStreamsKeepThePromise == Spec => KeepsThePromise
<1>1. Init => Promise!Init
  BY DEF Init, Promise!Init
<1> QED BY <1>1, StepMaps, StreamsKeepTheirBooks, PTL DEF Spec, KeepsThePromise, Promise!Spec
=============================================================================
