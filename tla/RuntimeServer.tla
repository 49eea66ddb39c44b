---------------------------- MODULE RuntimeServer ----------------------------
(***************************************************************************)
(* The meta-runtime process: main and its signal (cmd/meta-runtime),         *)
(* Server.Shutdown, the session manager, and the RPC handlers that reach a   *)
(* session.  The fan-out of one of its sessions, the one the creator Traced  *)
(* makes, is module SessionEvents, whose steps happen here inside handlers;  *)
(* the other sessions are only created and closed.                           *)
(*                                                                         *)
(* main announces its address on stdout before it serves, and serves before  *)
(* it catches SIGTERM: a signal that comes earlier ends the process at once. *)
(* GracefulStop refuses new calls and returns when no handler runs; after    *)
(* ten seconds Stop cancels the handlers' contexts, which a stream notices   *)
(* and CreateSession does not.  The sessions are closed last, by main.       *)
(***************************************************************************)
EXTENDS SessionEvents

CONSTANTS
    Creators,  \* CreateSession calls, and the sessions they make
    Traced,    \* the one whose session SessionEvents describes
    Main       \* the closer that is main in CloseAll; the others are CloseSession calls

ASSUME ServerAssumption ==
    Traced \in Creators /\ Main \in Closers /\ Creators \cap Threads = {}

VARIABLES
    phase,     \* where main is, "off" before, "exited", "failed" or "killed" after
    sigterm,   \* a SIGTERM is on its way
    rpc,       \* per handler: "none", "running" or "done"
    sessions,  \* Manager.sessions
    live,      \* sessions whose client has not been closed
    sweep      \* what CloseAll took out of the map and has still to close

serverVars == <<phase, sigterm, rpc, sessions, live, sweep>>

Handlers == Creators \cup Subs \cup (Closers \ {Main})
Phases   == {"off", "listening", "announced", "accepting", "serving", "draining", "stopping",
             "drained", "sweeping", "exited", "failed", "killed"}
Gone     == phase \in {"exited", "failed", "killed"}
Up       == phase # "off" /\ ~Gone
Accepting == phase \in {"accepting", "serving"}

Answer(h) == rpc' = [rpc EXCEPT ![h] = "done"]

ServerInit ==
    /\ Init
    /\ phase = "off" /\ sigterm = FALSE
    /\ rpc = [h \in Handlers |-> "none"]
    /\ sessions = {} /\ live = {} /\ sweep = {}

-----------------------------------------------------------------------------
(* main *)

\* Exit code 1: listening fails, or Serve does, which nothing is closed after.
Fails ==
    /\ phase \in {"listening", "accepting", "serving"}
    /\ phase' = "failed"
    /\ UNCHANGED <<sigterm, rpc, sessions, live, sweep, vars>>

\* The bootstrap line; then Serve in a goroutine; then signal.NotifyContext.
Boot ==
    /\ \/ phase = "listening" /\ phase' = "announced"
       \/ phase = "announced" /\ phase' = "accepting"
       \/ phase = "accepting" /\ phase' = "serving"
    /\ UNCHANGED <<sigterm, rpc, sessions, live, sweep, vars>>

\* SIGTERM arrives: uncaught it ends the process, caught it starts Shutdown, and
\* a later one is no longer looked at.
TakeSignal ==
    /\ sigterm /\ Up
    /\ sigterm' = FALSE
    /\ phase' = CASE phase \in {"listening", "announced", "accepting"} -> "killed"
                  [] phase = "serving" -> "draining"
                  [] OTHER -> phase
    /\ UNCHANGED <<rpc, sessions, live, sweep, vars>>

\* The ten seconds are over; the bug asks for quiet first.
BugTimeIsUp == phase = "draining" /\ \A h \in Handlers : rpc[h] # "running"
TimeIsUp == phase = "draining"

\* grpc.Stop closes the connections, which cancels the handlers' contexts.
StopHandlers ==
    /\ TimeIsUp
    /\ phase' = "stopping"
    /\ UNCHANGED <<sigterm, rpc, sessions, live, sweep, vars>>

\* <-done: GracefulStop waits for every handler, also after Stop.  The bug goes on
\* to CloseAll as soon as the ten seconds are over.
BugQuiet == phase = "stopping" \/ \A h \in Handlers : rpc[h] # "running"
Quiet == \A h \in Handlers : rpc[h] # "running"

Drained ==
    /\ phase \in {"draining", "stopping"}
    /\ Quiet
    /\ phase' = "drained"
    /\ UNCHANGED <<sigterm, rpc, sessions, live, sweep, vars>>

\* Manager.CloseAll: the map is emptied under the mutex, ...
EmptyMap == sweep' = sessions /\ sessions' = {}

CloseAll ==
    /\ phase = "drained"
    /\ EmptyMap
    /\ phase' = "sweeping"
    /\ UNCHANGED <<sigterm, rpc, live, vars>>

\* ... and the sessions are closed one after another.
CloseOther(k) ==
    /\ phase = "sweeping" /\ k \in sweep \ {Traced}
    /\ sweep' = sweep \ {k}
    /\ live' = live \ {k}
    /\ UNCHANGED <<phase, sigterm, rpc, sessions, vars>>

CloseTraced ==
    /\ phase = "sweeping" /\ Traced \in sweep
    /\ CloseSession(Main)
    /\ live' = IF pc[Main] = "client" THEN live \ {Traced} ELSE live
    /\ sweep' = IF pc'[Main] \in {"end", "noop"} THEN sweep \ {Traced} ELSE sweep
    /\ UNCHANGED <<phase, sigterm, rpc, sessions>>

Exit ==
    /\ phase = "sweeping" /\ sweep = {}
    /\ phase' = "exited"
    /\ UNCHANGED <<sigterm, rpc, sessions, live, sweep, vars>>

-----------------------------------------------------------------------------
(* Handlers *)

\* CreateSession: the client is made, from the profile or the cookies it is given ...
CreateBegin(k) ==
    /\ Accepting /\ rpc[k] = "none"
    /\ rpc' = [rpc EXCEPT ![k] = "running"]
    /\ UNCHANGED <<phase, sigterm, sessions, live, sweep, vars>>

\* ... and fails, or is put into the map as a session.
CreateFails(k) ==
    /\ Up /\ rpc[k] = "running"
    /\ Answer(k)
    /\ UNCHANGED <<phase, sigterm, sessions, live, sweep, vars>>
Create(k) ==
    /\ Up /\ rpc[k] = "running"
    /\ sessions' = sessions \cup {k}
    /\ live' = live \cup {k}
    /\ Answer(k)
    /\ UNCHANGED <<phase, sigterm, sweep, vars>>

\* SubscribeEvents and CloseSession look the session up; an unknown one is refused.
\* Closing takes it out of the map in the same critical section.
Lookup(h) ==
    /\ Accepting /\ h \in Subs \cup (Closers \ {Main}) /\ rpc[h] = "none"
    /\ rpc' = [rpc EXCEPT ![h] = IF Traced \in sessions THEN "running" ELSE "done"]
    /\ sessions' = IF h \in Closers THEN sessions \ {Traced} ELSE sessions
    /\ UNCHANGED <<phase, sigterm, live, sweep, vars>>

\* The handler returns when its part of SessionEvents has ended.
SubscribeCall(s) ==
    /\ Up /\ rpc[s] = "running"
    /\ Consume(s)
    /\ rpc' = IF pc'[s] = "end" THEN [rpc EXCEPT ![s] = "done"] ELSE rpc
    /\ UNCHANGED <<phase, sigterm, sessions, live, sweep>>

CloseCall(c) ==
    /\ Up /\ c \in Closers \ {Main} /\ rpc[c] = "running"
    /\ CloseSession(c)
    /\ live' = IF pc[c] = "client" THEN live \ {Traced} ELSE live
    /\ rpc' = IF pc'[c] \in {"end", "noop"} THEN [rpc EXCEPT ![c] = "done"] ELSE rpc
    /\ UNCHANGED <<phase, sigterm, sessions, sweep>>

\* The transports of the traced session deliver events while its client lives.
Transport(p) ==
    /\ Up
    /\ (Traced \in live /\ PublishEnter(p)) \/ Publish(p)
    /\ UNCHANGED serverVars

-----------------------------------------------------------------------------
Runtime ==
    \/ Boot \/ TakeSignal \/ StopHandlers \/ Drained \/ CloseAll \/ CloseTraced \/ Exit
    \/ \E k \in Creators : CloseOther(k)

NewCall == (\E k \in Creators : CreateBegin(k)) \/ (\E h \in Handlers : Lookup(h))

Calls ==
    \/ \E k \in Creators : CreateFails(k) \/ Create(k)
    \/ \E s \in Subs : SubscribeCall(s)
    \/ \E c \in Closers : CloseCall(c)
    \/ \E p \in Publishers : Transport(p)

\* An operator interrupts the process (a second time changes nothing).
Interrupt ==
    /\ phase = "serving" /\ ~sigterm
    /\ sigterm' = TRUE
    /\ UNCHANGED <<phase, rpc, sessions, live, sweep, vars>>

ServerNext == Fails \/ Runtime \/ Interrupt \/ NewCall \/ Calls
allVars == <<serverVars, vars>>

(* main goes on and its ten-second timer fires; CreateSession returns (it reads     *)
(* stores, and waits for no one); a thread inside the session goes on, and           *)
(* sync.Mutex's starvation mode hands the mutex to every waiter in the end (SF); a   *)
(* stream takes what a closed channel holds and then returns, and returns once Stop  *)
(* has cancelled its context, from Send too.  Nobody has to call, to read what is    *)
(* sent, to cancel, or to send a signal: stream.Send may wait for ever.              *)
Returning(s) ==
    \/ pc[s] \in {"new", "subscribe", "leave"} /\ Consume(s)
    \/ chan[s] = "closed" /\ (Receive(s) \/ StreamEnd(s))
    \/ phase = "stopping" /\ StreamCancel(s)

ServerFairness ==
    /\ SF_allVars(Runtime)
    /\ WF_allVars(\E k \in Creators : CreateFails(k) \/ Create(k))
    /\ \A p \in Publishers : SF_allVars(Transport(p) /\ pc[p] # "idle")
    /\ \A s \in Subs : SF_allVars(SubscribeCall(s) /\ Returning(s))
    /\ \A c \in Closers : SF_allVars(CloseCall(c))

-----------------------------------------------------------------------------
(* Properties *)

ServerTypeOK ==
    /\ phase \in Phases /\ sigterm \in BOOLEAN
    /\ rpc \in [Handlers -> {"none", "running", "done"}]
    /\ sessions \subseteq Creators /\ live \subseteq Creators /\ sweep \subseteq Creators

\* A runtime that exits by itself leaves no session behind: every client it has
\* created is closed and no event channel is open, also when a session was being
\* created, subscribed to or closed at the moment the signal came.
NoSessionSurvives ==
    phase = "exited" => /\ live = {}
                        /\ subscribers = {}
                        /\ \A s \in Subs : chan[s] # "open"

\* Once a runtime has begun to shut down it exits, although streams are open that
\* nobody closes, or wait in Send for a client that reads no more.
ShutdownEnds == phase = "draining" ~> Gone

\* Slow consumers cannot block event production: a publish that has begun comes to
\* its end although no consumer receives anything and no client reads.
PublishReturns == \A p \in Publishers : pc[p] = "check" ~> (pc[p] = "idle" \/ Gone)

\* A client reads what it is sent, or else cancels: stream.Send returns.
SendReturns(s) ==
    WF_allVars(SubscribeCall(s) /\ pc[s] = "send" /\ (Sent(s) \/ StreamCancel(s)))

\* Session.Close ends every stream whose client reads or cancels: the consumer, at
\* its channel or in Send, gets through what the channel still holds and returns.
CloseEndsStreams ==
    \A s \in Subs : SendReturns(s) =>
        (closed /\ pc[s] \in {"receive", "send"}) ~> (pc[s] = "end" \/ Gone)
=============================================================================
