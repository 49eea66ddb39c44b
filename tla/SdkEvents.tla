------------------------------ MODULE SdkEvents ------------------------------
(***************************************************************************)
(* The EventStream of the two SDKs: sdk/node/src/events.ts and               *)
(* sdk/python/src/mewisme_meta/events.py.  Both fan one server stream out to *)
(* typed listeners and to any number of iterators with a bounded buffer of   *)
(* their own; they differ in how an iterator waits, in what an overflow does *)
(* to the events already buffered, and in how a stream is closed.  The       *)
(* variable sdk says whose code runs; definitions of one of them carry its   *)
(* name.                                                                     *)
(*                                                                         *)
(* Both run on one thread, so a step here is a stretch of code without an    *)
(* await.  Handing one response to its listeners is several steps, since a   *)
(* listener runs arbitrary code of the caller, but no other job runs before  *)
(* the response is done: while turn is not idle nothing but the turn moves.  *)
(* A response whose payload this SDK does not know has no listeners; one     *)
(* without an event is dropped.                                              *)
(***************************************************************************)
EXTENDS Integers, Sequences, FiniteSets

CONSTANTS
    Iterators, Listeners,
    Limit,       \* iteratorBuffer, iterator_buffer
    MaxEvents    \* bound: responses the source yields

ASSUME SdkAssumption == Limit \in Nat \ {0} /\ MaxEvents \in Nat

Events == 1..MaxEvents

\* What a queue can hold, and what a settled next() can carry, besides an event.
NONE  == 0
END   == -1      \* done: true (Node), the sentinel _END (Python)
ERROR == -2

VARIABLES
    sdk,        \* "node" or "python"
    responses,  \* responses the source has yielded
    source,     \* "open"; "over" once the pump has left its loop
    started,    \* the pump has been started
    closed,     \* this.closed, self._closed
    finished,   \* Python: _finish has run; Node: nothing more to do after closed
    turn,       \* the response being handed out and the listeners still to call
    listeners,  \* registered listeners
    members,    \* the iterators whose queue the stream knows
    queue,      \* for each iterator, its queue and what its consumer is doing
    log, joined, got, outcome, late, over  \* history, see IteratorPromise

history == <<log, joined, got, outcome, late, over>>
vars == <<sdk, responses, source, started, closed, finished, turn, listeners, members, queue, history>>

Idle == [event |-> NONE, calls |-> {}]
Unread(i) == Len(log) - joined[i] - Len(got[i])

-----------------------------------------------------------------------------
(* Queues.  buffer: values (Node), the asyncio.Queue (Python).  ended: ended, *)
(* closed.  failed: an error is stored.  consumer: "new" before the first     *)
(* next(), "idle" while the caller works, "waiting" in next(), "settled" when *)
(* that promise carries hand, "over".                                         *)

NewQueue == [buffer |-> <<>>, ended |-> FALSE, failed |-> FALSE,
             consumer |-> "new", hand |-> NONE]

Settle(q, x) == [q EXCEPT !.consumer = "settled", !.hand = x]

\* fail: buffered events stay, a waiting next() is rejected.
NodeFail(q) ==
    LET failed == [q EXCEPT !.ended = TRUE, !.failed = TRUE]
    IN IF q.ended THEN q ELSE IF q.consumer = "waiting" THEN Settle(failed, ERROR) ELSE failed

\* close: buffered events stay, a waiting next() is told it is done.
BugNodeClose(q) == [q EXCEPT !.ended = TRUE]
NodeClose(q) ==
    LET closing == [q EXCEPT !.ended = TRUE]
    IN IF q.ended THEN q ELSE IF q.consumer = "waiting" THEN Settle(closing, END) ELSE closing

\* push: to a waiting next() if there is one, else to the buffer; an overflow fails
\* the queue.  The bugs lose the new event silently, or those before it.
BugNodePush(q, e) ==
    IF q.ended \/ Len(q.buffer) >= Limit THEN q
    ELSE IF q.consumer = "waiting" THEN Settle(q, e) ELSE [q EXCEPT !.buffer = Append(@, e)]
BugNodeOverflow(q, e) ==
    IF q.ended THEN q
    ELSE IF q.consumer = "waiting" THEN Settle(q, e)
    ELSE IF Len(q.buffer) >= Limit THEN [NodeFail(q) EXCEPT !.buffer = <<>>]
    ELSE [q EXCEPT !.buffer = Append(@, e)]
NodePush(q, e) ==
    IF q.ended THEN q
    ELSE IF q.consumer = "waiting" THEN Settle(q, e)
    ELSE IF Len(q.buffer) >= Limit THEN NodeFail(q)
    ELSE [q EXCEPT !.buffer = Append(@, e)]

\* fail: what was buffered is dropped.
PythonFail(q) == IF q.ended THEN q
                 ELSE [q EXCEPT !.ended = TRUE, !.failed = TRUE, !.buffer = <<END>>]
PythonClose(q) == IF q.ended THEN q
                  ELSE [q EXCEPT !.ended = TRUE, !.buffer = Append(@, END)]
BugPythonPush(q, e) ==
    IF q.ended THEN q
    ELSE IF Len(q.buffer) > Limit THEN PythonFail(q) ELSE [q EXCEPT !.buffer = Append(@, e)]
PythonPush(q, e) ==
    IF q.ended THEN q
    ELSE IF Len(q.buffer) >= Limit THEN PythonFail(q) ELSE [q EXCEPT !.buffer = Append(@, e)]

Fail(q)    == IF sdk = "node" THEN NodeFail(q) ELSE PythonFail(q)
Close(q)   == IF sdk = "node" THEN NodeClose(q) ELSE PythonClose(q)
Push(q, e) == IF sdk = "node" THEN NodePush(q, e) ELSE PythonPush(q, e)

\* for (const queue of this.queues): new is what becomes of each of them.
Members(new) == queue' = [i \in Iterators |-> IF i \in members THEN new[i] ELSE queue[i]]

-----------------------------------------------------------------------------
(* The pump *)

\* for await (const response of this.source), async for response in self._source
BeginTurn ==
    /\ started /\ source = "open" /\ turn = Idle /\ ~closed
    /\ responses < MaxEvents
    /\ responses' = responses + 1
    /\ turn' \in {Idle,                                       \* no event in it
                  [event |-> responses', calls |-> {}],       \* a payload nobody listens to
                  [event |-> responses', calls |-> listeners]}
    /\ UNCHANGED <<sdk, source, started, closed, finished, listeners, members, queue, history>>

\* A listener that returns, in Node perhaps after unsubscribing another one: the
\* Set is iterated in place.  Python calls the listeners of a copy.
CallListener(l, off) ==
    /\ l \in turn.calls
    /\ listeners' = listeners \ off
    /\ turn' = [turn EXCEPT !.calls = @ \ ({l} \cup IF sdk = "node" THEN off ELSE {})]
    /\ UNCHANGED <<sdk, responses, source, started, closed, finished, members, queue, history>>

\* A Node listener that calls stream.close(): the rest of the turn goes on.
CallListenerClosing(l) ==
    /\ sdk = "node" /\ l \in turn.calls
    /\ turn' = [turn EXCEPT !.calls = @ \ {l}]
    /\ closed' = TRUE /\ finished' = TRUE
    /\ listeners' = {}
    /\ IF closed THEN UNCHANGED <<members, queue, over>>
       ELSE /\ Members([i \in Iterators |-> NodeClose(queue[i])])
            /\ members' = {}
            /\ over' = "ended"
    /\ UNCHANGED <<sdk, responses, source, started, log, joined, got, outcome, late>>

\* for (const queue of this.queues) queue.push(event)
EndTurn ==
    /\ turn # Idle /\ turn.calls = {}
    /\ Members([i \in Iterators |-> Push(queue[i], turn.event)])
    /\ turn' = Idle
    /\ IF closed THEN UNCHANGED <<log, late>>
       ELSE /\ log' = Append(log, turn.event)
            /\ late' = late \cup {i \in members : outcome[i] = "open" /\ Unread(i) >= Limit}
    /\ UNCHANGED <<sdk, responses, source, started, closed, finished, listeners, members,
                   joined, got, outcome, over>>

\* catch / except: the source broke, or a listener threw and took the stream with
\* it.  A closed stream ignores it; in Python the pump has been cancelled then.
PumpFails ==
    /\ started /\ source = "open" /\ (closed => sdk = "node")
    /\ turn = Idle \/ turn.calls # {}
    /\ source' = "over" /\ turn' = Idle
    /\ IF closed THEN UNCHANGED <<closed, finished, listeners, queue, over>>
       ELSE /\ closed' = TRUE /\ finished' = TRUE
            /\ Members([i \in Iterators |-> Fail(queue[i])])
            /\ listeners' = {}
            /\ over' = "failed"
    /\ UNCHANGED <<sdk, responses, started, members, log, joined, got, outcome, late>>

\* The source ends.
PumpEnds ==
    /\ started /\ source = "open" /\ turn = Idle /\ ~closed
    /\ source' = "over"
    /\ closed' = TRUE /\ finished' = TRUE
    /\ Members([i \in Iterators |-> Close(queue[i])])
    /\ listeners' = {}
    /\ over' = "ended"
    /\ UNCHANGED <<sdk, responses, started, turn, members, log, joined, got, outcome, late>>

-----------------------------------------------------------------------------
(* The caller *)

On(l) ==
    /\ turn = Idle /\ l \notin listeners /\ ~closed
    /\ listeners' = listeners \cup {l}
    /\ started' = TRUE
    /\ UNCHANGED <<sdk, responses, source, closed, finished, turn, members, queue, history>>

\* The first next(): a stream that is closed has nothing, else a queue is made.
Begin(i) ==
    /\ turn = Idle /\ queue[i].consumer = "new"
    /\ joined' = [joined EXCEPT ![i] = Len(log)]
    /\ IF closed
       THEN /\ queue' = [queue EXCEPT ![i] = Settle(@, END)]
            /\ UNCHANGED <<started, members>>
       ELSE /\ queue' = [queue EXCEPT ![i].consumer = "waiting"]
            /\ members' = members \cup {i}
            /\ started' = TRUE
    /\ UNCHANGED <<sdk, responses, source, closed, finished, turn, listeners,
                   log, got, outcome, late, over>>

\* What a call of next() finds: a buffered event, or how the queue has ended.
Found(q) ==
    IF q.buffer # <<>> THEN Head(q.buffer)
    ELSE IF sdk = "python" \/ ~q.ended THEN NONE
    ELSE IF q.failed THEN ERROR ELSE END

Taken(q) ==
    LET x == Found(q)
        taken == IF q.buffer # <<>> THEN [q EXCEPT !.buffer = Tail(@)] ELSE q
    IN Settle(taken, IF x = END /\ q.failed THEN ERROR ELSE x)

\* next(), queue.get(): at once when there is something, else the caller waits.
Pull(i) ==
    /\ turn = Idle /\ queue[i].consumer = "idle"
    /\ queue' = [queue EXCEPT ![i] = IF Found(@) # NONE THEN Taken(@)
                                     ELSE [@ EXCEPT !.consumer = "waiting"]]
    /\ UNCHANGED <<sdk, responses, source, started, closed, finished, turn, listeners, members, history>>

\* Python: put_nowait only wakes the getter, which looks at the queue itself.
PythonWake(i) ==
    /\ sdk = "python" /\ turn = Idle
    /\ queue[i].consumer = "waiting" /\ queue[i].buffer # <<>>
    /\ queue' = [queue EXCEPT ![i] = Taken(@)]
    /\ UNCHANGED <<sdk, responses, source, started, closed, finished, turn, listeners, members, history>>

\* The generator goes on with what next() gave: it yields, returns or raises, and
\* its finally takes the queue out of the stream.
Deliver(i) ==
    /\ turn = Idle /\ queue[i].consumer = "settled"
    /\ LET x == queue[i].hand IN
         /\ queue' = [queue EXCEPT ![i].hand = NONE,
                                   ![i].consumer = IF x \in Events THEN "idle" ELSE "over"]
         /\ got' = IF x \in Events THEN [got EXCEPT ![i] = Append(@, x)] ELSE got
         /\ members' = IF x \in Events THEN members ELSE members \ {i}
         /\ outcome' = IF x \in Events THEN outcome
                       ELSE [outcome EXCEPT ![i] = IF x = END THEN "done" ELSE "error"]
    /\ UNCHANGED <<sdk, responses, source, started, closed, finished, turn, listeners,
                   log, joined, late, over>>

\* break, return() or aclose() of the iterator, at its yield.
Leave(i) ==
    /\ turn = Idle /\ queue[i].consumer = "idle"
    /\ queue' = [queue EXCEPT ![i].consumer = "over"]
    /\ members' = members \ {i}
    /\ outcome' = [outcome EXCEPT ![i] = "left"]
    /\ UNCHANGED <<sdk, responses, source, started, closed, finished, turn, listeners,
                   log, joined, got, late, over>>

\* close(): the iterators are told at once and forgotten.
NodeCloseStream ==
    /\ sdk = "node" /\ turn = Idle /\ ~closed
    /\ closed' = TRUE /\ finished' = TRUE
    /\ Members([i \in Iterators |-> NodeClose(queue[i])])
    /\ members' = {} /\ listeners' = {}
    /\ over' = "ended"
    /\ UNCHANGED <<sdk, responses, source, started, turn, log, joined, got, outcome, late>>

\* aclose(): the call and the pump are cancelled and awaited...
PythonCloseStream ==
    /\ sdk = "python" /\ turn = Idle /\ ~closed
    /\ closed' = TRUE
    /\ over' = "ended"
    /\ UNCHANGED <<sdk, responses, source, started, finished, turn, listeners, members, queue,
                   log, joined, got, outcome, late>>

\* ...and _finish, in the pump's finally or in aclose itself, tells the iterators.
PythonFinish ==
    /\ sdk = "python" /\ closed /\ ~finished /\ turn = Idle
    /\ finished' = TRUE
    /\ source' = "over"
    /\ Members([i \in Iterators |-> PythonClose(queue[i])])
    /\ listeners' = {}
    /\ UNCHANGED <<sdk, responses, started, closed, turn, members, history>>

-----------------------------------------------------------------------------
Init ==
    /\ sdk \in {"node", "python"}
    /\ responses = 0 /\ source = "open"
    /\ started = FALSE /\ closed = FALSE /\ finished = FALSE
    /\ turn = Idle
    /\ listeners = {} /\ members = {}
    /\ queue = [i \in Iterators |-> NewQueue]
    /\ log = <<>> /\ over = "open" /\ late = {}
    /\ joined = [i \in Iterators |-> -1]
    /\ got = [i \in Iterators |-> <<>>]
    /\ outcome = [i \in Iterators |-> "open"]

Next ==
    \/ BeginTurn \/ EndTurn \/ PumpFails \/ PumpEnds
    \/ \E l \in Listeners : \/ \E off \in {{}} \cup {{o} : o \in Listeners} : CallListener(l, off)
                            \/ CallListenerClosing(l)
                            \/ On(l)
    \/ \E i \in Iterators : Begin(i) \/ Pull(i) \/ PythonWake(i) \/ Deliver(i) \/ Leave(i)
    \/ NodeCloseStream \/ PythonCloseStream \/ PythonFinish

\* The event loop runs every job that is ready: settled promises and woken tasks,
\* and the turn in progress.  Nothing makes the source speak or the caller pull.
Fairness ==
    /\ WF_vars(EndTurn) /\ WF_vars(\E l \in Listeners : CallListener(l, {}))
    /\ WF_vars(PythonFinish)
    /\ \A i \in Iterators : WF_vars(PythonWake(i)) /\ WF_vars(Deliver(i))

Spec == Init /\ [][Next]_vars /\ Fairness

-----------------------------------------------------------------------------
(* Properties *)

TypeOK ==
    /\ sdk \in {"node", "python"} /\ responses \in 0..MaxEvents
    /\ source \in {"open", "over"}
    /\ started \in BOOLEAN /\ closed \in BOOLEAN /\ finished \in BOOLEAN
    /\ turn \in [event : 0..MaxEvents, calls : SUBSET Listeners]
    /\ listeners \subseteq Listeners /\ members \subseteq Iterators
    /\ queue \in [Iterators -> [buffer : Seq(Events \cup {END}), ended : BOOLEAN, failed : BOOLEAN,
                                consumer : {"new", "idle", "waiting", "settled", "over"},
                                hand : Events \cup {NONE, END, ERROR}]]

Promise == INSTANCE IteratorPromise WITH end <- outcome

\* Whatever the interleaving of pump, listeners, consumers and close, an iterator
\* sees a gapless stretch of the stream, is told "done" only when it has it all,
\* and is failed only for its own slowness or the stream's failure.
KeepsThePromise == Promise!Spec

\* A consumer that waits in next() while the stream ends, however it ends, is
\* always told so: no loop over a closed stream hangs.
EveryWaitEnds ==
    \A i \in Iterators : queue[i].consumer = "waiting" /\ closed ~> queue[i].consumer = "over"
                                                                   \/ queue[i].consumer = "idle"

\* The events that a queue holds for its iterator, and where in the log they end.
Held(q) == Len(q.buffer) + IF q.hand \in Events THEN 1 ELSE 0
Reach(i) == joined[i] + Len(got[i]) + Held(queue[i])

\* "fails only a slow iterator" (sdk/node/test/events.test.ts) takes nothing back in
\* Node: once an event is buffered, neither the overflow nor the stream's failure nor
\* close removes it, and the error comes when the buffer has been read to its end, as
\* the test does; if only the stream failed, nothing at all is missing by then.
\* Python gives up the buffer for the error.
NodeDrainsBeforeTheError ==
    [][sdk = "node" => \A i \in Iterators :
        /\ Reach(i)' >= Reach(i)
        /\ outcome'[i] = "error" =>
             /\ queue'[i].buffer = <<>>
             /\ over' = "failed" /\ i \notin late' => Unread(i)' = 0]_vars

\* put_nowait never meets a full queue, which would break the loop that closes or
\* feeds the other iterators: the queue has one place more than the limit for END.
EndAlwaysFits ==
    sdk = "python" => \A i \in Iterators :
        /\ Len(queue[i].buffer) <= Limit + 1
        /\ ~queue[i].ended => Len(queue[i].buffer) <= Limit
=============================================================================
