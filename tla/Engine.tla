------------------------------- MODULE Engine -------------------------------
(***************************************************************************)
(* The transport engine (internal/meta/engine.go, events.go and the        *)
(* connection part of messagix_backend.go): Connect and ConnectE2EE, the   *)
(* transport's event handler, emit with its bounded channel, the gated     *)
(* requests, and Close.                                                    *)
(*                                                                         *)
(* Threads: connectors run Engine.Connect and perhaps ConnectE2EE and, as  *)
(* Client.Connect does, Close the engine when one fails; the regular and   *)
(* the encrypted transport each call the event handler from a goroutine of *)
(* their own; a handler registered with On may itself call Close; closers  *)
(* are Client.Close; requesters run the operations of the service API.     *)
(* The flags and states are separate atomics, so two stores are two steps  *)
(* wherever the order of another thread's store between them shows.        *)
(*                                                                         *)
(* The transport libraries (messagix, whatsmeow) are not in src/: socket   *)
(* and e2eeLink say what the backend's calls do to them.                   *)
(***************************************************************************)
EXTENDS Naturals, Sequences, FiniteSets

CONSTANTS Connectors, Closers, Requesters,
          Regular, Encrypted,   \* the two transport goroutines
          Kinds,                \* per transport: the kinds of events it delivers
          Buffer,               \* Config.EventBuffer, at least 1
          MaxEvents,            \* bound: events emitted in one behaviour
          Free                  \* "nobody holds connectMu"

Transports == {Regular, Encrypted}
Threads == Connectors \cup Transports \cup Closers \cup Requesters

ASSUME EngineAssumption ==
  /\ Buffer \in Nat \ {0} /\ MaxEvents \in Nat
  /\ Regular # Encrypted /\ Free \notin Threads /\ Connectors \cap Transports = {}
  \* "data" is any event that only carries content
  /\ Kinds[Regular] \subseteq {"up", "failed", "data"}
  /\ Kinds[Encrypted] \subseteq {"up", "down", "data"}

VARIABLES
  closed, connected, e2eeReady,   \* Engine's atomic flags
  regular, e2ee,                  \* regularState and e2eeState
  ctxDone,                        \* Engine.ctx is cancelled
  once,                           \* closeOnce: "new", "running" or "done"
  connectMu,                      \* holder of connectMu, or Free
  readers,                        \* emitters that hold eventMu for reading
  events, eventsClosed, dropped,  \* the channel, whether it is closed, Engine.dropped
  socket,                         \* messagix client: "none", "up" or "down"
  e2eeLink,                       \* whatsmeow client: likewise
  pc,                             \* per thread: where it is
  kind,                           \* per transport: the event its handler is given
  panicked                        \* a send on the closed channel

\* History: events past emit's look at closed, per transport; received ones.
VARIABLES emitted, received

flags    == <<connected, e2eeReady>>
states   == <<regular, e2ee>>
closing  == <<closed, ctxDone, once>>
channel  == <<events, eventsClosed, dropped, panicked, received>>
backend  == <<socket, e2eeLink>>
emitting == <<kind, emitted>>
vars == <<flags, states, closing, connectMu, readers, channel, backend, pc, emitting>>

Goto(t, label) == pc' = [pc EXCEPT ![t] = label]

(* Decisions of the code, each with a plausible slip (Bug...).               *)

\* Close takes connectMu before it disconnects the backend.
BugDisconnectNow == TRUE
CloseMayDisconnect == connectMu = Free

\* Close cancels the engine's context ...
BugKeepContext == FALSE
CloseCancels == TRUE

\* ... which every request context is derived from (mergeContext).
BugOwnContext == FALSE
RequestCancelled == ctxDone

\* emit looks at closed under the read lock.
BugEmitAnyway == FALSE
EmitRefused == closed

Room == Len(events) < Buffer

BugUncounted == UNCHANGED dropped
CountDrop == dropped' = dropped + 1

\* The second select of emit has a default case.
BugEvictWaits == events # << >>
EvictProceeds == TRUE

\* close(e.events): its consumers' loops end.
BugChannelLeftOpen == eventsClosed
ChannelClosed == TRUE

Init ==
  /\ closed = FALSE /\ connected = FALSE /\ e2eeReady = FALSE
  /\ regular = "disconnected" /\ e2ee = "disconnected"
  /\ ctxDone = FALSE /\ once = "new" /\ connectMu = Free /\ readers = {}
  /\ events = << >> /\ eventsClosed = FALSE /\ dropped = 0 /\ panicked = FALSE
  /\ socket = "none" /\ e2eeLink = "none"
  /\ pc = [t \in Threads |-> IF t \in Transports THEN "idle" ELSE "new"]
  /\ kind = [t \in Transports |-> "data"]
  /\ emitted = [t \in Transports |-> 0] /\ received = 0

-----------------------------------------------------------------------------
(* Engine.Connect and Engine.ConnectE2EE, both under connectMu *)

ConnectLock(c) ==
  /\ pc[c] = "new"
  /\ connectMu = Free
  /\ IF closed
     THEN /\ Goto(c, "close")
          /\ UNCHANGED <<connectMu, regular>>
     ELSE /\ connectMu' = c
          /\ regular' = "connecting"
          /\ Goto(c, "bootstrap")
  /\ UNCHANGED <<flags, e2ee, closing, readers, channel, backend, emitting>>

\* An error return of Connect: the failure is recorded and connectMu released.
ConnectFailed(c) ==
  /\ regular' = "failed"
  /\ connectMu' = Free
  /\ Goto(c, "close")

\* backend.Bootstrap returns; with a cancelled context at the latest.
Bootstrap(c) ==
  /\ pc[c] = "bootstrap"
  /\ \/ Goto(c, "dial") /\ UNCHANGED <<regular, connectMu>>
     \/ ConnectFailed(c)
  /\ UNCHANGED <<flags, e2ee, closing, readers, channel, backend, emitting>>

\* backend.Connect starts the socket, whose goroutine delivers events from now on ...
Dial(c) ==
  /\ pc[c] = "dial"
  /\ \/ socket' = "up" /\ Goto(c, "wait") /\ UNCHANGED <<regular, connectMu>>
     \/ ConnectFailed(c) /\ UNCHANGED socket
  /\ UNCHANGED <<flags, e2ee, closing, readers, channel, e2eeLink, emitting>>

\* ... and waits until it can send, or disconnects again.
WaitUntilCanSend(c) ==
  /\ pc[c] = "wait"
  /\ \/ Goto(c, "connected") /\ UNCHANGED <<socket, regular, connectMu>>
     \/ socket' = "down" /\ ConnectFailed(c)
  /\ UNCHANGED <<flags, e2ee, closing, readers, channel, e2eeLink, emitting>>

ConnectStoreFlag(c) ==
  /\ pc[c] = "connected"
  /\ connected' = TRUE
  /\ Goto(c, "state")
  /\ UNCHANGED <<e2eeReady, states, closing, connectMu, readers, channel, backend, emitting>>

ConnectStoreState(c) ==
  /\ pc[c] = "state"
  /\ regular' = "connected"
  /\ connectMu' = Free
  /\ \E next \in {"e2ee", "end"} : Goto(c, next)      \* WithE2EE or not
  /\ UNCHANGED <<flags, e2ee, closing, readers, channel, backend, emitting>>

ConnectE2EELock(c) ==
  /\ pc[c] = "e2ee"
  /\ connectMu = Free
  /\ IF closed \/ ~connected
     THEN /\ Goto(c, "close")
          /\ UNCHANGED <<connectMu, e2ee>>
     ELSE /\ connectMu' = c
          /\ e2ee' = "connecting"
          /\ Goto(c, "e2eeDial")
  /\ UNCHANGED <<flags, regular, closing, readers, channel, backend, emitting>>

E2EEFailed(c) ==
  /\ e2eeReady' = FALSE
  /\ e2ee' = "failed"
  /\ connectMu' = Free
  /\ Goto(c, "close")

\* backend.ConnectE2EE registers the device and starts the client ...
E2EEDial(c) ==
  /\ pc[c] = "e2eeDial"
  /\ \/ e2eeLink' = "up" /\ Goto(c, "e2eeWait") /\ UNCHANGED <<e2eeReady, e2ee, connectMu>>
     \/ E2EEFailed(c) /\ UNCHANGED e2eeLink
  /\ UNCHANGED <<connected, regular, closing, readers, channel, socket, emitting>>

\* ... and gives it 15 seconds to log in.
E2EEWait(c) ==
  /\ pc[c] = "e2eeWait"
  /\ \/ Goto(c, "e2eeFlag") /\ UNCHANGED <<e2eeLink, e2eeReady, e2ee, connectMu>>
     \/ e2eeLink' = "down" /\ E2EEFailed(c)
  /\ UNCHANGED <<connected, regular, closing, readers, channel, socket, emitting>>

E2EEStoreFlag(c) ==
  /\ pc[c] = "e2eeFlag"
  /\ e2eeReady' = (e2eeLink = "up")
  /\ Goto(c, "e2eeState")
  /\ UNCHANGED <<connected, states, closing, connectMu, readers, channel, backend, emitting>>

E2EEStoreState(c) ==
  /\ pc[c] = "e2eeState"
  /\ e2ee' = IF e2eeReady THEN "connected" ELSE "connecting"
  /\ connectMu' = Free
  /\ Goto(c, "end")
  /\ UNCHANGED <<flags, regular, closing, readers, channel, backend, emitting>>

Dialling(c) ==
  \/ Bootstrap(c) \/ Dial(c) \/ WaitUntilCanSend(c) \/ ConnectStoreFlag(c)
  \/ ConnectStoreState(c) \/ E2EEDial(c) \/ E2EEWait(c) \/ E2EEStoreFlag(c) \/ E2EEStoreState(c)

-----------------------------------------------------------------------------
(* handleTransportEvent and emit *)

\* The transport hands an event over: the regular one once its socket was started,
\* the encrypted one once its client was; what was read before Disconnect may still
\* come after it, but the link does not come up again with a cancelled context.
Deliver(t) ==
  /\ pc[t] = "idle"
  /\ emitted[Regular] + emitted[Encrypted] < MaxEvents
  /\ (IF t = Regular THEN socket ELSE e2eeLink) # "none"
  /\ \E k \in Kinds[t] :
       /\ kind' = [kind EXCEPT ![t] = k]
       /\ e2eeLink' = CASE t = Encrypted /\ k = "up" /\ ~ctxDone -> "up"
                        [] t = Encrypted /\ k = "down" -> "down"
                        [] OTHER -> e2eeLink
       /\ Goto(t, IF k = "data" THEN "emit" ELSE "flag")
  /\ UNCHANGED <<flags, states, closing, connectMu, readers, channel, socket, emitted>>

HandleStoreFlag(t) ==
  /\ pc[t] = "flag"
  /\ IF t = Regular
     THEN connected' = (kind[t] = "up") /\ UNCHANGED e2eeReady
     ELSE e2eeReady' = (kind[t] = "up") /\ UNCHANGED connected
  /\ Goto(t, "state")
  /\ UNCHANGED <<states, closing, connectMu, readers, channel, backend, emitting>>

HandleStoreState(t) ==
  /\ pc[t] = "state" /\ t \in Transports
  /\ LET state == CASE kind[t] = "up" -> "connected"
                    [] kind[t] = "failed" -> "failed"
                    [] OTHER -> "disconnected"
     IN IF t = Regular THEN regular' = state /\ UNCHANGED e2ee
                       ELSE e2ee' = state /\ UNCHANGED regular
  /\ Goto(t, "emit")
  /\ UNCHANGED <<flags, closing, connectMu, readers, channel, backend, emitting>>

\* eventMu.RLock, which a waiting writer holds up, and the look at closed.
EmitRLock(t) ==
  /\ pc[t] = "emit"
  /\ \A u \in Threads : pc[u] # "drain"
  /\ IF EmitRefused
     THEN Goto(t, "idle") /\ UNCHANGED <<readers, emitted>>
     ELSE /\ readers' = readers \cup {t}
          /\ emitted' = [emitted EXCEPT ![t] = @ + 1]
          /\ Goto(t, "send")
  /\ UNCHANGED <<flags, states, closing, connectMu, channel, backend, kind>>

Enqueue(t) ==
  /\ events' = Append(events, t)
  /\ panicked' = (panicked \/ eventsClosed)
  /\ Goto(t, "unlock")

EmitSend(t) ==
  /\ pc[t] = "send"
  /\ IF Room THEN Enqueue(t) ELSE Goto(t, "evict") /\ UNCHANGED <<events, panicked>>
  /\ UNCHANGED <<flags, states, closing, connectMu, readers, eventsClosed, dropped, received,
                 backend, emitting>>

EmitEvict(t) ==
  /\ pc[t] = "evict"
  /\ EvictProceeds
  /\ IF events # << >>
     THEN events' = Tail(events) /\ CountDrop
     ELSE UNCHANGED <<events, dropped>>
  /\ Goto(t, "retry")
  /\ UNCHANGED <<flags, states, closing, connectMu, readers, eventsClosed, panicked, received,
                 backend, emitting>>

\* Another emitter, which also holds the read lock, may have taken the room.
EmitRetry(t) ==
  /\ pc[t] = "retry"
  /\ \/ Room /\ Enqueue(t) /\ UNCHANGED dropped
     \/ ~Room /\ CountDrop /\ Goto(t, "unlock") /\ UNCHANGED <<events, panicked>>
  /\ UNCHANGED <<flags, states, closing, connectMu, readers, eventsClosed, received, backend,
                 emitting>>

EmitRUnlock(t) ==
  /\ pc[t] = "unlock"
  /\ readers' = readers \ {t}
  /\ Goto(t, "handlers")
  /\ UNCHANGED <<flags, states, closing, connectMu, channel, backend, emitting>>

\* The handlers run outside the locks; one of them may call Close.
EmitHandlers(t) ==
  /\ pc[t] = "handlers"
  /\ \E next \in {"idle", "close"} : Goto(t, next)
  /\ UNCHANGED <<flags, states, closing, connectMu, readers, channel, backend, emitting>>

Handle(t) ==
  \/ HandleStoreFlag(t) \/ HandleStoreState(t) \/ EmitRLock(t) \/ EmitSend(t)
  \/ EmitEvict(t) \/ EmitRetry(t) \/ EmitRUnlock(t) \/ EmitHandlers(t)

\* A consumer of Engine.Events takes an event.
Receive ==
  /\ events # << >>
  /\ events' = Tail(events)
  /\ received' = received + 1
  /\ UNCHANGED <<flags, states, closing, connectMu, readers, eventsClosed, dropped, panicked,
                 backend, pc, emitting>>

-----------------------------------------------------------------------------
(* The operations of the service API: SendText, Upload, React, ..., SendE2EE, ... *)

\* A regular operation looks at connected alone; a refused one returns at once.
RequestRegular(r) ==
  /\ pc[r] = "new"
  /\ Goto(r, IF connected THEN "call" ELSE "end")
  /\ UNCHANGED <<flags, states, closing, connectMu, readers, channel, backend, emitting>>

\* An encrypted one looks at E2EEConnected.
RequestEncrypted(r) ==
  /\ pc[r] = "new"
  /\ Goto(r, IF e2eeReady /\ ~closed THEN "call" ELSE "end")
  /\ UNCHANGED <<flags, states, closing, connectMu, readers, channel, backend, emitting>>

RequestReturn(r) ==
  /\ pc[r] = "call"
  /\ Goto(r, "end")
  /\ UNCHANGED <<flags, states, closing, connectMu, readers, channel, backend, emitting>>

-----------------------------------------------------------------------------
(* Engine.Close, by any thread *)

Return(t) == Goto(t, IF t \in Transports THEN "idle" ELSE "end")

\* A closer starts, or a second caller of closeOnce.Do finds the first one done.
CloseOnce(t) ==
  /\ pc[t] = "close" \/ (t \in Closers /\ pc[t] = "new")
  /\ \/ once = "new" /\ once' = "running" /\ closed' = TRUE /\ Goto(t, "flags")
     \/ once = "done" /\ Return(t) /\ UNCHANGED <<once, closed>>
  /\ UNCHANGED <<ctxDone, flags, states, connectMu, readers, channel, backend, emitting>>

CloseStoreFlags(t) ==
  /\ pc[t] = "flags"
  /\ connected' = FALSE /\ e2eeReady' = FALSE
  /\ Goto(t, "cancel")
  /\ UNCHANGED <<states, closing, connectMu, readers, channel, backend, emitting>>

CloseCancel(t) ==
  /\ pc[t] = "cancel"
  /\ regular' = "disconnected" /\ e2ee' = "disconnected"
  /\ ctxDone' = CloseCancels
  /\ Goto(t, "disconnect")
  /\ UNCHANGED <<flags, closed, once, connectMu, readers, channel, backend, emitting>>

\* connectMu.Lock, backend.Disconnect, connectMu.Unlock.
CloseDisconnect(t) ==
  /\ pc[t] = "disconnect"
  /\ CloseMayDisconnect
  /\ socket' = IF socket = "up" THEN "down" ELSE socket
  /\ e2eeLink' = IF e2eeLink = "up" THEN "down" ELSE e2eeLink
  /\ Goto(t, "lock")
  /\ UNCHANGED <<flags, states, closing, connectMu, readers, channel, emitting>>

\* eventMu.Lock: from now on no reader gets in ...
CloseLock(t) ==
  /\ pc[t] = "lock"
  /\ Goto(t, "drain")
  /\ UNCHANGED <<flags, states, closing, connectMu, readers, channel, backend, emitting>>

\* ... and when the last one is out, the channel is closed.
CloseChannel(t) ==
  /\ pc[t] = "drain"
  /\ readers = {}
  /\ eventsClosed' = ChannelClosed
  /\ once' = "done"
  /\ Return(t)
  /\ UNCHANGED <<closed, ctxDone, flags, states, connectMu, readers, events, dropped, panicked,
                 received, backend, emitting>>

Close(t) ==
  \/ CloseOnce(t) \/ CloseStoreFlags(t) \/ CloseCancel(t)
  \/ CloseDisconnect(t) \/ CloseLock(t) \/ CloseChannel(t)

-----------------------------------------------------------------------------
Next ==
  \/ \E c \in Connectors : ConnectLock(c) \/ ConnectE2EELock(c) \/ Dialling(c)
  \/ \E t \in Transports : Deliver(t) \/ Handle(t)
  \/ Receive
  \/ \E r \in Requesters : RequestRegular(r) \/ RequestEncrypted(r) \/ RequestReturn(r)
  \/ \E t \in Threads : Close(t)

\* What thread t does on its own once it has begun: a call into the transport
\* (messagix) is only sure to return when its context is cancelled.
Continue(t) ==
  \/ Close(t) /\ pc[t] # "new"
  \/ t \in Connectors /\ ConnectE2EELock(t)
  \/ t \in Connectors /\ Dialling(t) /\ (pc[t] \in {"bootstrap", "dial", "wait"} => RequestCancelled)
  \/ t \in Transports /\ Handle(t)
  \/ t \in Requesters /\ RequestReturn(t) /\ RequestCancelled

(* Running code goes on: every mutex here is waited for by finitely many others,   *)
(* each of which holds it finitely often, so that weak fairness is enough.  Nobody  *)
(* has to connect, to deliver, to request, to call Close, or to receive.            *)
Fairness == \A t \in Threads : WF_vars(Continue(t))

SafeSpec == Init /\ [][Next]_vars
Spec == SafeSpec /\ Fairness

-----------------------------------------------------------------------------
(* Properties *)

ConnectionState == {"disconnected", "connecting", "connected", "failed"}

TypeOK ==
  /\ {closed, connected, e2eeReady, ctxDone, eventsClosed, panicked} \subseteq BOOLEAN
  /\ regular \in ConnectionState /\ e2ee \in ConnectionState
  /\ once \in {"new", "running", "done"} /\ connectMu \in Connectors \cup {Free}
  /\ readers \subseteq Transports
  /\ events \in Seq(Transports) /\ Len(events) <= Buffer /\ dropped \in Nat
  /\ socket \in {"none", "up", "down"} /\ e2eeLink \in {"none", "up", "down"}
  /\ DOMAIN pc = Threads
  /\ kind \in [Transports -> {"up", "failed", "down", "data"}]
  /\ emitted \in [Transports -> Nat] /\ received \in Nat

\* emit never sends on the channel Close has closed, with both transports emitting
\* while Close runs.
NoPanic == ~panicked

\* Health().DroppedEventCount tells the truth: every event that got past emit's look
\* at closed was received, is in the channel, is counted as dropped, or is still in
\* its emitter's hands, although emitters only share the lock and evict for each other.
EmitAccounted ==
  emitted[Regular] + emitted[Encrypted] =
    received + Len(events) + dropped
    + Cardinality({t \in Transports : pc[t] \in {"send", "evict", "retry"}})

\* Once Close has returned nothing of the engine is on the network, also when Connect
\* or ConnectE2EE was dialling at that time, and it stays so.
CloseDisconnects == once = "done" => socket # "up" /\ e2eeLink # "up"

\* Close returns: it cancels a Connect in flight instead of waiting for the network,
\* whoever calls it, a handler inside emit included.
CloseReturns == \A t \in Threads : pc[t] = "close" ~> pc[t] \in {"idle", "end"}

\* emit never waits for a consumer.
EmitReturns == \A t \in Transports : pc[t] = "emit" ~> pc[t] \in {"idle", "handlers"}

\* A consumer that ranges over Events is released by Close.
ConsumerReleased == closed ~> eventsClosed

\* No request outlives the engine: one in flight returns after Close.
RequestsEnd == \A r \in Requesters : (closed /\ pc[r] = "call") ~> pc[r] = "end"
=============================================================================
