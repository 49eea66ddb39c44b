-------------------------- MODULE IteratorPromise --------------------------
(***************************************************************************)
(* What the SDKs' EventStream promises to the code that iterates over it,    *)
(* whatever buffers and tasks lie between.  An iterator receives the events  *)
(* offered since it began, in order and without a gap; it ends normally only *)
(* when it has received all of them; and it ends with an error only when the *)
(* stream itself failed or when this very iterator had Limit events unread   *)
(* as one more was offered ("fails only a slow iterator",                    *)
(* sdk/node/test/events.test.ts).                                            *)
(***************************************************************************)
EXTENDS Integers, Sequences

CONSTANTS Iterators, Limit, Events

VARIABLES
    log,      \* the events offered to the iterators
    over,     \* "open", "ended" (source or close) or "failed"
    joined,   \* where in the log each iterator began, -1 before
    got,      \* what it has received
    end,      \* "open", "done", "error" or "left"
    late      \* the iterators that were too slow once

vars == <<log, over, joined, got, end, late>>

Unread(i) == Len(log) - joined[i] - Len(got[i])

Init ==
    /\ log = <<>> /\ over = "open" /\ late = {}
    /\ joined = [i \in Iterators |-> -1]
    /\ got = [i \in Iterators |-> <<>>]
    /\ end = [i \in Iterators |-> "open"]

Offer(e) ==
    /\ over = "open"
    /\ log' = Append(log, e)
    /\ late' = late \cup {i \in Iterators : joined[i] # -1 /\ end[i] = "open" /\ Unread(i) >= Limit}
    /\ UNCHANGED <<over, joined, got, end>>

Stop ==
    /\ over = "open"
    /\ over' \in {"ended", "failed"}
    /\ UNCHANGED <<log, joined, got, end, late>>

Join(i) ==
    /\ joined[i] = -1
    /\ joined' = [joined EXCEPT ![i] = Len(log)]
    /\ UNCHANGED <<log, over, got, end, late>>

Receive(i) ==
    /\ joined[i] # -1 /\ end[i] = "open" /\ Unread(i) > 0
    /\ got' = [got EXCEPT ![i] = Append(@, log[joined[i] + Len(@) + 1])]
    /\ UNCHANGED <<log, over, joined, end, late>>

End(i, how) ==
    /\ joined[i] # -1 /\ end[i] = "open"
    /\ \/ how = "done" /\ over # "open" /\ Unread(i) = 0
       \/ how = "error" /\ (over = "failed" \/ i \in late)
       \/ how = "left"
    /\ end' = [end EXCEPT ![i] = how]
    /\ UNCHANGED <<log, over, joined, got, late>>

Next ==
    \/ \E e \in Events : Offer(e)
    \/ Stop
    \/ \E i \in Iterators : Join(i) \/ Receive(i) \/ \E how \in {"done", "error", "left"} : End(i, how)

Spec == Init /\ [][Next]_vars
=============================================================================
