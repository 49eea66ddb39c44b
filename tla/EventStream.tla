---------------------------- MODULE EventStream ----------------------------
(***************************************************************************)
(* What a runtime session promises the consumers of its events             *)
(* (docs/runtime-architecture.md, "Delivery is at-most-once"): events are  *)
(* numbered 1, 2, 3, ... as the session publishes them; a consumer sees a  *)
(* subsequence of the numbers published after it joined, in order and      *)
(* without repetition; nothing is published once the session has ended.    *)
(* Queues, locks, closed channels and drop counters are absent: they are   *)
(* SessionEvents' means to this end.                                       *)
(***************************************************************************)
EXTENDS Naturals

CONSTANT Subs                  \* the consumers

VARIABLES published,           \* number of events published so far
          last,                \* per consumer: the number it saw last
          ended                \* the session has ended

streamVars == <<published, last, ended>>

StreamInit ==
  /\ published = 0
  /\ last = [s \in Subs |-> 0]
  /\ ended = FALSE

\* One more event; never after the end.
Emit ==
  /\ ~ended
  /\ published' = published + 1
  /\ UNCHANGED <<last, ended>>

\* A consumer joins: it is owed nothing from before.
Join(s) ==
  /\ last' = [last EXCEPT ![s] = published]
  /\ UNCHANGED <<published, ended>>

\* A consumer sees a later event; those it skips are lost to it.
Deliver(s) ==
  /\ \E n \in (last[s] + 1) .. published : last' = [last EXCEPT ![s] = n]
  /\ UNCHANGED <<published, ended>>

End ==
  /\ ended' = TRUE
  /\ UNCHANGED <<published, last>>

StreamNext == Emit \/ End \/ \E s \in Subs : Join(s) \/ Deliver(s)

StreamSpec == StreamInit /\ [][StreamNext]_streamVars
=============================================================================
