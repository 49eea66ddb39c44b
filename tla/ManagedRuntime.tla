--------------------------- MODULE ManagedRuntime ---------------------------
(***************************************************************************)
(* The Node SDK as the owner of a runtime process: ManagedRuntime            *)
(* (sdk/node/src/runtime.ts) starts and stops it, MetaClient (client.ts)      *)
(* shakes hands with it and closes both.  The process is RuntimeServer; the   *)
(* two meet in its stdout line, in RPCs, and in signals.                      *)
(*                                                                         *)
(* owner is where MetaClient.create, and later close, stands:                *)
(*   idle -> booting -> shaking -> open -> closing -> stopping -> killing -> closed   *)
(* with "failed" for a create that threw before there was a client.           *)
(***************************************************************************)
EXTENDS RuntimeServer

VARIABLE owner

ownerVars == <<allVars, owner>>
server == <<rpc, sessions, live, sweep, vars>>

OwnerInit == ServerInit /\ owner = "idle"

\* spawn: there is a process, or the "error" event.
Spawn ==
    /\ owner = "idle"
    /\ \/ owner' = "booting" /\ phase' = "listening"
       \/ owner' = "failed" /\ UNCHANGED phase
    /\ UNCHANGED <<sigterm, server>>

Terminate == sigterm' = (sigterm \/ Up)

\* readBootstrap resolves with the line that the runtime has written by then.
ReadLine ==
    /\ owner = "booting" /\ phase \notin {"off", "listening"}
    /\ owner' = "shaking"
    /\ UNCHANGED <<sigterm, phase, server>>

\* It rejects: the timer, a line that is too long or not valid, or the process has
\* exited before the line; or the line names another protocol.  The catch sends
\* SIGTERM to a child that has not exited.
BugSignalOnFailure == UNCHANGED sigterm
SignalOnFailure == Terminate

BootFails ==
    /\ owner = "booting"
    /\ owner' = "failed"
    /\ SignalOnFailure
    /\ UNCHANGED <<phase, server>>

\* getInfo() answers once the runtime serves, with our protocol or another one;
\* it fails when the process is gone.  create() closes the client it cannot use.
Handshake ==
    /\ owner = "shaking"
    /\ \/ Accepting /\ owner' = "open"
       \/ owner' = "closing"
    /\ UNCHANGED <<sigterm, phase, server>>

\* close(): the streams are aborted and the channel is closed (the handlers see it
\* as StreamCancel, whenever that arrives), then ManagedRuntime.stop().
Close ==
    /\ owner = "open"
    /\ owner' = "closing"
    /\ UNCHANGED <<sigterm, phase, server>>

Stop ==
    /\ owner = "closing"
    /\ owner' = IF Gone THEN "closed" ELSE "stopping"
    /\ Terminate
    /\ UNCHANGED <<phase, server>>

\* The race of the child's "exit" with stopTimeoutMs, then SIGKILL and "exit".
StopExit ==
    /\ owner \in {"stopping", "killing"} /\ Gone
    /\ owner' = "closed"
    /\ UNCHANGED <<sigterm, phase, server>>

StopTimeout ==
    /\ owner = "stopping" /\ ~Gone
    /\ owner' = "killing"
    /\ phase' = "killed"
    /\ UNCHANGED <<sigterm, server>>

OwnerStep == Spawn \/ ReadLine \/ BootFails \/ Handshake \/ Close \/ Stop \/ StopExit \/ StopTimeout

\* The token of the bootstrap line is the owner's, so calls come from its client.
OwnerNext ==
    \/ OwnerStep
    \/ (Fails \/ Runtime \/ Interrupt \/ Calls) /\ UNCHANGED owner
    \/ owner = "open" /\ NewCall /\ UNCHANGED owner

(* The event loop of the owner runs what is ready and its timers fire; it need not *)
(* be started, and nobody has to close the client.                                 *)
OwnerFairness ==
    WF_ownerVars(ReadLine \/ BootFails \/ Handshake \/ Stop \/ StopExit \/ StopTimeout)

OwnerSafeSpec == OwnerInit /\ [][OwnerNext]_ownerVars
OwnerSpec == OwnerSafeSpec /\ ServerFairness /\ OwnerFairness

-----------------------------------------------------------------------------
(* Properties *)

\* No runtime is left running by an owner that has failed to start it or has closed
\* its client, whatever the process was doing when that happened.
NoRuntimeLeftBehind == owner \in {"failed", "closing"} ~> (Gone \/ phase = "off")
=============================================================================
