------------------------ MODULE ManagedRuntime_proofs ------------------------
(***************************************************************************)
(* What holds of a session inside a runtime process and its owner, for any  *)
(* number of sessions, subscriptions and calls: every step of the composition *)
(* is a step of SessionEvents, so that the theorems about the fan-out hold   *)
(* in it; and a runtime that exits by itself has closed every session.       *)
(***************************************************************************)
EXTENDS ManagedRuntime, SessionEvents_proofs

-----------------------------------------------------------------------------
(* The composition *)

LEMMA StepIsSessionStep == [OwnerNext]_ownerVars => [Next]_vars
<1> SUFFICES ASSUME [OwnerNext]_ownerVars PROVE Next \/ UNCHANGED vars
  OBVIOUS
<1>1. CASE OwnerStep
  BY <1>1 DEF OwnerStep, Spawn, ReadLine, BootFails, Handshake, Close, Stop, StopExit,
              StopTimeout, server
<1>2. CASE Fails
  BY <1>2 DEF Fails
<1>3. CASE Runtime
  BY <1>3, ServerAssumption DEF Runtime, Boot, TakeSignal, StopHandlers, Drained, CloseAll,
              CloseOther, CloseTraced, Exit, Next
<1>4. CASE Interrupt
  BY <1>4 DEF Interrupt
<1>5. CASE Calls
  BY <1>5 DEF Calls, CreateFails, Create, SubscribeCall, CloseCall, Transport, Next
<1>6. CASE NewCall
  BY <1>6 DEF NewCall, CreateBegin, Lookup
<1>7. CASE UNCHANGED ownerVars
  BY <1>7 DEF ownerVars, allVars
<1> QED BY <1>1, <1>2, <1>3, <1>4, <1>5, <1>6, <1>7 DEF OwnerNext

\* The handlers of the runtime, main's sweep and the transports drive the session exactly as
\* the threads of SessionEvents do, whatever the owner and its signals do to the process.
THEOREM RuntimeRunsTheSession == OwnerSafeSpec => SafeSpec
<1>1. OwnerInit => Init
  BY DEF OwnerInit, ServerInit
<1> QED BY <1>1, StepIsSessionStep, PTL DEF OwnerSafeSpec, SafeSpec

\* Inside the process too nobody sends on a closed channel or closes one twice.
THEOREM RuntimeNeverPanics == OwnerSafeSpec => []NoPanic
<1>1. IInv => NoPanic
  BY DEF IInv
<1>2. SafeSpec => []IInv
  BY InitIInv, StepIInv, PTL DEF SafeSpec
<1> QED BY <1>1, <1>2, RuntimeRunsTheSession, PTL

\* What the runtime process promises to the consumers of a session (EventStream) it keeps
\* whatever happens around it: signals, failing calls, CloseAll against CloseSession, a
\* process that is killed.
THEOREM RuntimeKeepsThePromise == OwnerSafeSpec => ImplementsStream
<1>1. Init => Stream!StreamInit
  BY ThreadsAssumption DEF Init, Stream!StreamInit, Swept, Threads
<1>2. SafeSpec => [](IInv /\ OfferedInv)
  <2>1. SafeSpec => []IInv
    BY InitIInv, StepIInv, PTL DEF SafeSpec
  <2>2. Init /\ [][Next]_vars /\ []IInv => []OfferedInv
    BY InitOffered, StepOffered, PTL
  <2> QED
    BY <2>1, <2>2, PTL DEF SafeSpec
<1>3. SafeSpec => ImplementsStream
  BY <1>1, <1>2, StepStream, PTL DEF SafeSpec, ImplementsStream, Stream!StreamSpec
<1> QED BY <1>3, RuntimeRunsTheSession, PTL

\* A consumer inside the process sees the most recent events without a hole, every one
\* it lost is counted, and the newest is never refused.
THEOREM RuntimeDeliversInOrder ==
    OwnerSafeSpec => [](QueueIsRecentSuffix /\ DropsAccounted /\ NewestNeverRefused)
<1>1. IInv => QueueIsRecentSuffix /\ DropsAccounted /\ NewestNeverRefused
  BY DEF IInv
<1>2. SafeSpec => []IInv
  BY InitIInv, StepIInv, PTL DEF SafeSpec
<1> QED BY <1>1, <1>2, RuntimeRunsTheSession, PTL

-----------------------------------------------------------------------------
(* The inductive invariant *)

Handles(c) == c # Main /\ rpc[c] = "running"  \* closer c is in a CloseSession call

Dead == phase \in {"failed", "killed"}
Swiping == phase \in {"sweeping", "exited"}

\* Where the traced session is: in the manager's hands, in those of a CloseSession
\* call, or closed.
Kept   == Traced \in sessions \cup sweep
Held   == \E c \in Closers : Handles(c)
Closed == \E c \in Closers : pc[c] = "end"

\* No handler runs when main sweeps, and what it sweeps is all there is.
QuietInv ==
    /\ phase = "drained" \/ Swiping => \A h \in Handlers : rpc[h] # "running"
    /\ IF Swiping THEN sessions = {} ELSE sweep = {}
    /\ phase = "exited" => sweep = {}
    /\ \A k \in live \ {Traced} : k \in sessions \cup sweep

\* Whoever has taken the session out of the map is the only one to begin Session.Close,
\* so that nobody finds it begun and returns before it is done.
OneCloserInv ==
    /\ closed => \E c \in Closers : pc[c] # "new"
    /\ \A c \in Closers : pc[c] # "noop"
    /\ \A c \in Closers : pc[c] # "new" => \A d \in Closers \ {c} : pc[d] = "new"
    /\ \A c \in Closers \ {Main} : pc[c] \notin {"new", "end"} => Handles(c)
    /\ pc[Main] \notin {"new", "end"} => Traced \in sweep
    /\ \A c \in Closers : Handles(c) =>
         pc[c] # "end" /\ ~Kept /\ \A d \in Closers \ {c} : pc[d] = "new" /\ ~Handles(d)
    /\ Kept => \A c \in Closers \ {Main} : pc[c] = "new"
    /\ Traced \in sessions => pc[Main] = "new"
    /\ Traced \in sweep => pc[Main] # "end"

\* The traced session is in one of its three places from its creation on.
PlaceInv ==
    /\ Traced \in live => (Kept \/ Held) /\ ~Closed
    /\ rpc[Traced] # "done" => /\ ~Kept /\ ~Held /\ Traced \notin live
                               /\ \A c \in Closers : pc[c] = "new"
    /\ \/ subscribers # {}
       \/ \E s \in Subs : chan[s] # "none" \/ rpc[s] = "running"
       => Kept \/ Held \/ Closed

RInv == Dead \/ (QuietInv /\ OneCloserInv /\ PlaceInv)

-----------------------------------------------------------------------------
(* What the threads of the session do to what the invariant speaks of *)

LEMMA ConsumeFrame ==
  ASSUME TypeOK, NEW s \in Subs, Consume(s)
  PROVE  closed' = closed /\ \A c \in Closers : pc'[c] = pc[c]
BY ThreadsAssumption
   DEF TypeOK, Threads, Consume, SubscribeCheck, SubscribeLock, Receive, Sent,
       StreamEnd, StreamCancel, RemoveSubscriber, Goto, shared

LEMMA PublishFrame ==
  ASSUME TypeOK, NEW p \in Publishers, PublishEnter(p) \/ Publish(p)
  PROVE  /\ UNCHANGED <<closed, subscribers, chan>>
         /\ \A c \in Closers : pc'[c] = pc[c]
BY ThreadsAssumption
   DEF TypeOK, Threads, PublishEnter, Publish, PublishCheck, PublishLock, PublishSend,
       PublishEvict, PublishRetry, PublishDone, Goto, shared, channels

LEMMA CloseFrame ==
  ASSUME TypeOK, NEW c \in Closers, CloseSession(c)
  PROVE  /\ \A d \in Closers \ {c} : pc'[d] = pc[d]
         /\ pc[c] \notin {"noop", "end"} /\ pc'[c] # "new"
         /\ pc[c] = "new" => pc'[c] = IF closed THEN "noop" ELSE "unsubscribe"
         /\ pc[c] # "new" => pc'[c] # "noop" /\ (pc'[c] = "end" <=> pc[c] = "client")
         /\ subscribers' \subseteq subscribers
         /\ \A s \in Subs : chan'[s] = chan[s] \/ s \in subscribers
<1> USE DEF Goto, TypeOK, Threads
<1>1. CASE CloseBegin(c)
  BY <1>1 DEF CloseBegin, channels
<1>2. CASE CloseUnsubscribe(c)
  BY <1>2 DEF CloseUnsubscribe, channels
<1>3. CASE CloseLock(c)
  BY <1>3 DEF CloseLock, channels
<1>4. CASE CloseSweep(c)
  BY <1>4 DEF CloseSweep, Drop
<1>5. CASE CloseUnlock(c)
  BY <1>5 DEF CloseUnlock, channels
<1>6. CASE CloseClient(c)
  BY <1>6 DEF CloseClient, shared, channels
<1> QED BY <1>1, <1>2, <1>3, <1>4, <1>5, <1>6 DEF CloseSession

-----------------------------------------------------------------------------
(* Types *)

LEMMA ServerTypeInit == ServerInit => ServerTypeOK
BY DEF ServerInit, ServerTypeOK, Phases

LEMMA ServerTypeStep == ServerTypeOK /\ [OwnerNext]_ownerVars => ServerTypeOK'
<1> SUFFICES ASSUME ServerTypeOK, [OwnerNext]_ownerVars PROVE ServerTypeOK'
  OBVIOUS
<1> USE DEF ServerTypeOK
<1>1. CASE OwnerStep
  BY <1>1 DEF OwnerStep, Spawn, ReadLine, BootFails, Handshake, Close, Stop, StopExit,
              StopTimeout, server, SignalOnFailure, Terminate, Up, Gone, Phases
<1>2. CASE Fails
  BY <1>2 DEF Fails, Phases
<1>3. CASE Runtime
  <2>1. CASE Boot \/ TakeSignal \/ StopHandlers \/ Drained \/ Exit
    BY <2>1 DEF Boot, TakeSignal, StopHandlers, Drained, Exit, Phases
  <2>2. CASE CloseAll
    BY <2>2 DEF CloseAll, EmptyMap, Phases
  <2>3. CASE CloseTraced
    BY <2>3 DEF CloseTraced
  <2>4. ASSUME NEW k \in Creators, CloseOther(k) PROVE ServerTypeOK'
    BY <2>4 DEF CloseOther
  <2> QED BY <1>3, <2>1, <2>2, <2>3, <2>4 DEF Runtime
<1>4. CASE Interrupt
  BY <1>4 DEF Interrupt
<1>5. CASE Calls
  BY <1>5 DEF Calls, CreateFails, Create, Answer, SubscribeCall, CloseCall, Transport, serverVars,
              Handlers
<1>6. CASE NewCall
  BY <1>6 DEF NewCall, CreateBegin, Lookup, Handlers
<1>7. CASE UNCHANGED ownerVars
  BY <1>7 DEF ownerVars, allVars, serverVars
<1> QED BY <1>1, <1>2, <1>3, <1>4, <1>5, <1>6, <1>7 DEF OwnerNext

-----------------------------------------------------------------------------
(* The invariant *)

LEMMA RInvInit == ServerInit => RInv
BY ThreadsAssumption, ServerAssumption
   DEF ServerInit, Init, Threads, Handlers, RInv, QuietInv, OneCloserInv, PlaceInv,
       Handles, Held, Kept, Closed, Swiping

\* Signals, timers and failures move only the phase.
LEMMA PhaseStep ==
  ASSUME RInv, UNCHANGED server,
         \/ phase' \in {"failed", "killed"}
         \/ UNCHANGED phase
         \/ phase' \notin {"drained", "sweeping", "exited"} /\ ~Dead /\ ~Swiping
  PROVE  RInv'
BY DEF RInv, Dead, Swiping, QuietInv, OneCloserInv, PlaceInv, Handles, Held, Kept, Closed,
       server, vars, shared, channels

\* A thread of the session that does not close it.
LEMMA FrameStep ==
  ASSUME RInv, UNCHANGED <<phase, sessions, live, sweep, closed>>,
         \A c \in Closers : pc'[c] = pc[c],
         \A h \in Handlers : rpc'[h] = "running" => rpc[h] = "running",
         rpc'[Traced] = rpc[Traced],
         \A c \in Closers \ {Main} : rpc'[c] = rpc[c],
         \/ subscribers' # {} \/ (\E s \in Subs : chan'[s] # "none" \/ rpc'[s] = "running")
         => \/ subscribers # {} \/ \E s \in Subs : chan[s] # "none" \/ rpc[s] = "running"
  PROVE  RInv'
<1>1. Dead' = Dead /\ Swiping' = Swiping
  BY DEF Dead, Swiping
<1>2. (\A c \in Closers : Handles(c)' = Handles(c)) /\ Held' = Held /\ Kept' = Kept /\ Closed' = Closed
  BY DEF Handles, Held, Kept, Closed
<1>3. CASE Dead
  BY <1>1, <1>3 DEF RInv
<1>4. CASE ~Dead
  <2>1. QuietInv'
    BY <1>1, <1>4 DEF RInv, QuietInv
  <2>2. OneCloserInv'
    <3>1. OneCloserInv /\ \A c \in Closers : pc'[c] = pc[c] /\ (Handles(c)' <=> Handles(c))
      BY <1>4 DEF RInv, Handles
    <3>2. closed' => \E c \in Closers : pc'[c] # "new"
      BY <3>1 DEF OneCloserInv
    <3> QED BY <1>2, <3>1, <3>2, ServerAssumption DEF OneCloserInv
  <2>3. PlaceInv'
    BY <1>2, <1>4 DEF RInv, PlaceInv
  <2> QED BY <2>1, <2>2, <2>3 DEF RInv
<1> QED BY <1>3, <1>4

\* No process before it has been spawned.
IdleInv == owner = "idle" => phase = "off"

LEMMA IdleStep == IdleInv /\ [OwnerNext]_ownerVars => IdleInv'
BY DEF IdleInv, OwnerNext, ownerVars, allVars, serverVars, OwnerStep, Spawn, ReadLine, BootFails,
       Handshake, Close, Stop, StopExit, StopTimeout, Fails, Runtime, Boot, TakeSignal,
       StopHandlers, Drained, CloseAll, CloseTraced, CloseOther, Exit, Interrupt, Calls, NewCall,
       CreateBegin, CreateFails, Create, Lookup, SubscribeCall, CloseCall, Transport, Up,
       Accepting, TimeIsUp

LEMMA OwnerKeeps == ASSUME IdleInv, RInv, OwnerStep PROVE RInv'
<1>1. /\ UNCHANGED server
      /\ \/ phase' = "killed"
         \/ UNCHANGED phase
         \/ Spawn /\ phase' = "listening" /\ phase = "off"
  BY DEF IdleInv, OwnerStep, Spawn, ReadLine, BootFails, Handshake, Close, Stop, StopExit,
         StopTimeout
<1> QED BY <1>1, PhaseStep DEF Dead, Swiping

\* The steps of main that move only the phase.
LEMMA MainKeeps ==
  ASSUME RInv, Fails \/ Boot \/ TakeSignal \/ StopHandlers \/ Drained \/ Exit \/ Interrupt
  PROVE  RInv'
<1>1. CASE Fails \/ Boot \/ TakeSignal \/ StopHandlers \/ Interrupt
  <2>1. UNCHANGED server
    BY <1>1 DEF Fails, Boot, TakeSignal, StopHandlers, Interrupt, server
  <2>2. \/ phase' \in {"failed", "killed"}
        \/ UNCHANGED phase
        \/ phase' \notin {"drained", "sweeping", "exited"} /\ ~Dead /\ ~Swiping
    BY <1>1 DEF Fails, Boot, TakeSignal, StopHandlers, Interrupt, TimeIsUp, Dead, Swiping
  <2> QED BY <2>1, <2>2, PhaseStep
<1>2. CASE Drained \/ Exit
  BY <1>2 DEF Drained, Exit, Quiet, RInv, Dead, Swiping, QuietInv, OneCloserInv, PlaceInv,
              Handles, Held, Kept, Closed, vars, shared, channels
<1> QED BY <1>1, <1>2

\* What was in the map is what will be swept.
LEMMA CloseAllKeeps == ASSUME RInv, CloseAll PROVE RInv'
<1>1. /\ phase = "drained" /\ phase' = "sweeping" /\ sweep' = sessions /\ sessions' = {}
      /\ UNCHANGED <<rpc, live, pc, closed, subscribers, chan>>
  BY DEF CloseAll, EmptyMap, vars, shared, channels
<1>2. QuietInv /\ OneCloserInv /\ PlaceInv /\ sweep = {}
  BY <1>1 DEF RInv, Dead, Swiping, QuietInv
<1>3. \A c \in Closers : Handles(c)' = Handles(c) /\ ~Handles(c)
  BY <1>1, <1>2 DEF Handles, QuietInv, Handlers
<1>4. Kept' = Kept /\ Held' = Held /\ Closed' = Closed
  BY <1>1, <1>2 DEF Kept, Held, Handles, Closed
<1>5. QuietInv'
  BY <1>1, <1>2 DEF QuietInv, Swiping
<1>6. OneCloserInv'
  BY <1>1, <1>2, <1>3, <1>4 DEF OneCloserInv, Kept
<1>7. PlaceInv'
  BY <1>1, <1>2, <1>4 DEF PlaceInv
<1> QED BY <1>5, <1>6, <1>7 DEF RInv

LEMMA CloseOtherKeeps == ASSUME RInv, NEW k \in Creators, CloseOther(k) PROVE RInv'
<1>1. /\ phase = "sweeping" /\ phase' = phase /\ k # Traced
      /\ sweep' = sweep \ {k} /\ live' = live \ {k}
      /\ UNCHANGED <<rpc, sessions, pc, closed, subscribers, chan>>
  BY DEF CloseOther, vars, shared, channels
<1>2. QuietInv /\ OneCloserInv /\ PlaceInv
  BY <1>1 DEF RInv, Dead
<1>3. Kept' = Kept /\ Held' = Held /\ Closed' = Closed
  BY <1>1 DEF Kept, Held, Handles, Closed
<1>4. QuietInv'
  BY <1>1, <1>2 DEF QuietInv, Swiping
<1>5. OneCloserInv'
  BY <1>1, <1>2, <1>3 DEF OneCloserInv, Handles
<1>6. PlaceInv'
  BY <1>1, <1>2, <1>3 DEF PlaceInv
<1> QED BY <1>4, <1>5, <1>6 DEF RInv

\* main is the one closer of the traced session; its last step takes it out of the sweep.
LEMMA CloseTracedKeeps == ASSUME TypeOK, RInv, CloseTraced PROVE RInv'
<1>1. /\ phase = "sweeping" /\ phase' = phase /\ Traced \in sweep
      /\ CloseSession(Main) /\ Main \in Closers
      /\ live' = IF pc[Main] = "client" THEN live \ {Traced} ELSE live
      /\ sweep' = IF pc'[Main] \in {"end", "noop"} THEN sweep \ {Traced} ELSE sweep
      /\ UNCHANGED <<rpc, sessions>>
  BY ServerAssumption DEF CloseTraced
<1>2. QuietInv /\ OneCloserInv /\ PlaceInv /\ sessions = {}
  BY <1>1 DEF RInv, Dead, QuietInv, Swiping
<1>3. /\ \A d \in Closers \ {Main} : pc'[d] = pc[d] /\ pc[d] = "new"
      /\ pc'[Main] \notin {"new", "noop"} /\ (pc'[Main] = "end" <=> pc[Main] = "client")
  <2>1. /\ \A d \in Closers \ {Main} : pc'[d] = pc[d]
        /\ pc[Main] \notin {"noop", "end"} /\ pc'[Main] # "new"
        /\ pc[Main] = "new" => pc'[Main] = IF closed THEN "noop" ELSE "unsubscribe"
        /\ pc[Main] # "new" => pc'[Main] # "noop" /\ (pc'[Main] = "end" <=> pc[Main] = "client")
    BY <1>1, CloseFrame
  <2>2. \A d \in Closers \ {Main} : pc[d] = "new"
    BY <1>1, <1>2 DEF OneCloserInv, Kept
  <2>3. pc[Main] = "new" => ~closed
    BY <1>2, <2>2 DEF OneCloserInv
  <2> QED BY <2>1, <2>2, <2>3
<1>4. /\ subscribers' \subseteq subscribers
      /\ \A s \in Subs : chan'[s] = chan[s] \/ s \in subscribers
  BY <1>1, CloseFrame
<1>5. \A c \in Closers : Handles(c)' = Handles(c) /\ ~Handles(c)
  BY <1>1, <1>2 DEF Handles, QuietInv, Handlers, Swiping
<1>6. rpc[Traced] = "done"
  BY <1>1, <1>2, ServerAssumption DEF PlaceInv, Kept
<1>7. QuietInv'
  BY <1>1, <1>2 DEF QuietInv, Swiping
<1>8. OneCloserInv'
  BY <1>1, <1>2, <1>3, <1>5 DEF OneCloserInv, Kept
<1>9. PlaceInv'
  <2>1. CASE pc[Main] = "client"
    BY <2>1, <1>1, <1>3, <1>6 DEF PlaceInv, Closed
  <2>2. CASE pc[Main] # "client"
    BY <2>2, <1>1, <1>2, <1>3, <1>4, <1>6 DEF PlaceInv, Kept, Held, Closed
  <2> QED BY <2>1, <2>2
<1> QED BY <1>7, <1>8, <1>9 DEF RInv

-----------------------------------------------------------------------------
(* The handlers *)

LEMMA HandlerSets ==
  /\ Creators \cap Subs = {} /\ Creators \cap Closers = {} /\ Subs \cap Closers = {}
  /\ Traced \in Creators /\ Main \in Closers /\ Traced \in Handlers /\ Traced \notin Closers
BY ThreadsAssumption, ServerAssumption DEF Threads, Handlers

\* A CreateSession call begins, or fails: nothing is registered.
LEMMA CreateBeginKeeps == ASSUME ServerTypeOK, RInv, NEW k \in Creators, CreateBegin(k) PROVE RInv'
<1>1. /\ phase \in {"accepting", "serving"} /\ rpc' = [rpc EXCEPT ![k] = "running"]
      /\ rpc[k] = "none"
      /\ UNCHANGED <<phase, sessions, live, sweep, pc, closed, subscribers, chan>>
  BY DEF CreateBegin, Accepting, vars, shared, channels
<1>2. QuietInv /\ OneCloserInv /\ PlaceInv
  BY <1>1 DEF RInv, Dead
<1>3. /\ rpc'[k] = "running" /\ \A h \in Handlers \ {k} : rpc'[h] = rpc[h]
  BY <1>1 DEF ServerTypeOK, Handlers
<1>4. (\A c \in Closers : Handles(c)' = Handles(c)) /\ (\A s \in Subs : rpc'[s] = rpc[s])
  BY <1>3, HandlerSets DEF Handles, Handlers
<1>5. Kept' = Kept /\ Held' = Held /\ Closed' = Closed
  BY <1>1, <1>4 DEF Kept, Held, Closed
<1>6. QuietInv'
  BY <1>1, <1>2 DEF QuietInv, Swiping
<1>7. OneCloserInv'
  BY <1>1, <1>2, <1>4, <1>5 DEF OneCloserInv
<1>8. PlaceInv'
  BY <1>1, <1>2, <1>3, <1>4, <1>5, HandlerSets DEF PlaceInv
<1> QED BY <1>6, <1>7, <1>8 DEF RInv

LEMMA CreateFailsKeeps == ASSUME ServerTypeOK, RInv, NEW k \in Creators, CreateFails(k) PROVE RInv'
<1>1. /\ ~Dead /\ rpc' = [rpc EXCEPT ![k] = "done"]
      /\ UNCHANGED <<phase, sessions, live, sweep, pc, closed, subscribers, chan>>
  BY DEF CreateFails, Answer, Up, Gone, Dead, vars, shared, channels
<1>2. QuietInv /\ OneCloserInv /\ PlaceInv
  BY <1>1 DEF RInv
<1>3. /\ rpc'[k] = "done" /\ \A h \in Handlers \ {k} : rpc'[h] = rpc[h]
  BY <1>1 DEF ServerTypeOK, Handlers
<1>4. (\A c \in Closers : Handles(c)' = Handles(c)) /\ (\A s \in Subs : rpc'[s] = rpc[s])
  BY <1>3, HandlerSets DEF Handles, Handlers
<1>5. Kept' = Kept /\ Held' = Held /\ Closed' = Closed
  BY <1>1, <1>4 DEF Kept, Held, Closed
<1>6. QuietInv'
  BY <1>1, <1>2, <1>3 DEF QuietInv, Swiping
<1>7. OneCloserInv'
  BY <1>1, <1>2, <1>4, <1>5 DEF OneCloserInv
<1>8. PlaceInv'
  BY <1>1, <1>2, <1>3, <1>4, <1>5, HandlerSets DEF PlaceInv
<1> QED BY <1>6, <1>7, <1>8 DEF RInv

\* A session that is created while main waits for the handlers is in the map before main
\* looks.
LEMMA CreateKeeps == ASSUME ServerTypeOK, RInv, NEW k \in Creators, Create(k) PROVE RInv'
<1>1. /\ ~Dead /\ rpc[k] = "running" /\ rpc' = [rpc EXCEPT ![k] = "done"]
      /\ sessions' = sessions \cup {k} /\ live' = live \cup {k}
      /\ UNCHANGED <<phase, sweep, pc, closed, subscribers, chan>>
  BY DEF Create, Answer, Up, Gone, Dead, vars, shared, channels
<1>2. QuietInv /\ OneCloserInv /\ PlaceInv
  BY <1>1 DEF RInv
<1>3. /\ rpc'[k] = "done" /\ \A h \in Handlers \ {k} : rpc'[h] = rpc[h]
  BY <1>1 DEF ServerTypeOK, Handlers
<1>4. phase # "drained" /\ ~Swiping
  BY <1>1, <1>2 DEF QuietInv, Handlers
<1>5. (\A c \in Closers : Handles(c)' = Handles(c)) /\ (\A s \in Subs : rpc'[s] = rpc[s])
  BY <1>3, HandlerSets DEF Handles, Handlers
<1>6. Held' = Held /\ Closed' = Closed
  BY <1>1, <1>5 DEF Held, Closed
<1>7. QuietInv'
  BY <1>1, <1>2, <1>4 DEF QuietInv, Swiping
<1>8. CASE k = Traced
  <2>1. ~Held /\ \A c \in Closers : pc'[c] = "new" /\ pc[c] = "new"
    BY <1>1, <1>2, <1>8 DEF PlaceInv
  <2>2. Kept' /\ Traced \notin sweep' /\ ~Held' /\ ~Closed'
    BY <1>1, <1>2, <1>4, <1>6, <1>8, <2>1 DEF Kept, QuietInv, Closed
  <2>3. \A c \in Closers : ~Handles(c)'
    BY <2>1, <1>5 DEF Held
  <2>4. OneCloserInv'
    BY <1>1, <1>2, <2>1, <2>2, <2>3, HandlerSets DEF OneCloserInv
  <2>5. PlaceInv'
    BY <1>3, <1>8, <2>2 DEF PlaceInv
  <2> QED BY <1>7, <2>4, <2>5 DEF RInv
<1>9. CASE k # Traced
  <2>1. Kept' = Kept /\ rpc'[Traced] = rpc[Traced] /\ (Traced \in live' <=> Traced \in live)
        /\ (Traced \in sessions' <=> Traced \in sessions)
    BY <1>1, <1>3, <1>9, HandlerSets DEF Kept
  <2>2. OneCloserInv'
    BY <1>1, <1>2, <1>5, <2>1 DEF OneCloserInv
  <2>3. PlaceInv'
    BY <1>1, <1>2, <1>5, <1>6, <2>1 DEF PlaceInv
  <2> QED BY <1>7, <2>2, <2>3 DEF RInv
<1> QED BY <1>8, <1>9

\* A CloseSession call that finds the session takes it for itself.
LEMMA LookupKeeps == ASSUME ServerTypeOK, RInv, NEW h \in Handlers, Lookup(h) PROVE RInv'
<1>1. /\ phase \in {"accepting", "serving"} /\ h \in Subs \cup (Closers \ {Main})
      /\ rpc[h] = "none"
      /\ rpc' = [rpc EXCEPT ![h] = IF Traced \in sessions THEN "running" ELSE "done"]
      /\ sessions' = IF h \in Closers THEN sessions \ {Traced} ELSE sessions
      /\ UNCHANGED <<phase, live, sweep, pc, closed, subscribers, chan>>
  BY DEF Lookup, Accepting, vars, shared, channels
<1>2. QuietInv /\ OneCloserInv /\ PlaceInv /\ sweep = {}
  BY <1>1 DEF RInv, Dead, QuietInv, Swiping
<1>3. /\ rpc'[h] = IF Traced \in sessions THEN "running" ELSE "done"
      /\ \A g \in Handlers \ {h} : rpc'[g] = rpc[g]
  BY <1>1 DEF ServerTypeOK
<1>4. rpc'[Traced] = rpc[Traced]
  BY <1>1, <1>3, HandlerSets
<1>5. QuietInv'
  BY <1>1, <1>2 DEF QuietInv, Swiping
<1>6. CASE h \in Subs
  <2>1. \A c \in Closers : Handles(c)' = Handles(c)
    BY <1>3, <1>6, HandlerSets DEF Handles, Handlers
  <2>2. sessions' = sessions /\ Kept' = Kept /\ Held' = Held /\ Closed' = Closed
    BY <1>1, <1>6, <2>1, HandlerSets DEF Kept, Held, Closed
  <2>3. OneCloserInv'
    BY <1>1, <1>2, <2>1, <2>2 DEF OneCloserInv
  <2>4. rpc'[h] = "running" => Kept
    BY <1>3 DEF Kept
  <2>5. \A s \in Subs : rpc'[s] = "running" => rpc[s] = "running" \/ Kept
    BY <1>3, <2>4 DEF Handlers
  <2>6. PlaceInv'
    BY <1>1, <1>2, <1>4, <2>2, <2>5 DEF PlaceInv
  <2> QED BY <1>5, <2>3, <2>6 DEF RInv
<1>7. CASE h \in Closers \ {Main}
  <2>1. /\ \A c \in Closers \ {h} : Handles(c)' = Handles(c)
        /\ Handles(h)' = (Traced \in sessions)
        /\ \A s \in Subs : rpc'[s] = rpc[s]
    BY <1>3, <1>7, HandlerSets DEF Handles, Handlers
  <2>2. Closed' = Closed /\ ~Kept' /\ Traced \notin sessions'
    BY <1>1, <1>2, <1>7 DEF Kept, Closed
  <2>3. CASE Traced \in sessions
    <3>1. \A c \in Closers : ~Handles(c) /\ pc[c] = "new"
      BY <1>2, <2>3, HandlerSets DEF OneCloserInv, Kept
    <3>2. Held' /\ ~Closed'
      BY <1>7, <2>1, <2>2, <2>3, <3>1 DEF Held, Closed
    <3>3. OneCloserInv'
      BY <1>1, <1>2, <1>7, <2>1, <2>2, <3>1, HandlerSets DEF OneCloserInv
    <3>4. rpc[Traced] = "done"
      BY <1>2, <2>3 DEF PlaceInv, Kept
    <3>5. PlaceInv'
      BY <1>1, <1>2, <1>4, <3>2, <3>4 DEF PlaceInv
    <3> QED BY <1>5, <3>3, <3>5 DEF RInv
  <2>4. CASE Traced \notin sessions
    <3>1. sessions' = sessions /\ Kept' = Kept
      BY <1>1, <2>4 DEF Kept
    <3>2. ~Handles(h) /\ \A c \in Closers : Handles(c)' = Handles(c)
      BY <1>1, <2>1, <2>4 DEF Handles
    <3>3. Held' = Held
      BY <3>2 DEF Held
    <3>4. OneCloserInv'
      BY <1>1, <1>2, <3>1, <3>2 DEF OneCloserInv
    <3>5. PlaceInv'
      BY <1>1, <1>2, <1>4, <2>1, <2>2, <3>1, <3>3 DEF PlaceInv
    <3> QED BY <1>5, <3>4, <3>5 DEF RInv
  <2> QED BY <2>3, <2>4
<1> QED BY <1>1, <1>6, <1>7

LEMMA SubscribeCallKeeps ==
  ASSUME TypeOK, ServerTypeOK, RInv, NEW s \in Subs, SubscribeCall(s)
  PROVE  RInv'
<1>1. /\ rpc[s] = "running" /\ Consume(s)
      /\ rpc' = IF pc'[s] = "end" THEN [rpc EXCEPT ![s] = "done"] ELSE rpc
      /\ UNCHANGED <<phase, sessions, live, sweep>>
  BY DEF SubscribeCall
<1>2. closed' = closed /\ \A c \in Closers : pc'[c] = pc[c]
  BY <1>1, ConsumeFrame
<1>3. \A h \in Handlers : rpc'[h] = IF h = s /\ pc'[s] = "end" THEN "done" ELSE rpc[h]
  BY <1>1 DEF ServerTypeOK
<1>4. rpc'[Traced] = rpc[Traced] /\ \A c \in Closers \ {Main} : rpc'[c] = rpc[c]
  BY <1>3, HandlerSets DEF Handlers
<1>5. \A h \in Handlers : rpc'[h] = "running" => rpc[h] = "running"
  BY <1>3
<1> QED BY <1>1, <1>2, <1>4, <1>5, FrameStep

LEMMA TransportKeeps == ASSUME TypeOK, RInv, NEW p \in Publishers, Transport(p) PROVE RInv'
<1>1. (PublishEnter(p) \/ Publish(p)) /\ UNCHANGED <<phase, rpc, sessions, live, sweep>>
  BY DEF Transport, serverVars
<1>2. UNCHANGED <<closed, subscribers, chan>> /\ \A c \in Closers : pc'[c] = pc[c]
  BY <1>1, PublishFrame
<1> QED BY <1>1, <1>2, FrameStep

\* The call that took the session out of the map closes it, and nobody else does.
LEMMA CloseCallKeeps ==
  ASSUME TypeOK, ServerTypeOK, RInv, NEW c \in Closers, CloseCall(c)
  PROVE  RInv'
<1>1. /\ ~Dead /\ c # Main /\ rpc[c] = "running" /\ CloseSession(c)
      /\ live' = IF pc[c] = "client" THEN live \ {Traced} ELSE live
      /\ rpc' = IF pc'[c] \in {"end", "noop"} THEN [rpc EXCEPT ![c] = "done"] ELSE rpc
      /\ UNCHANGED <<phase, sessions, sweep>>
  BY DEF CloseCall, Up, Gone, Dead
<1>2. QuietInv /\ OneCloserInv /\ PlaceInv /\ Handles(c)
  BY <1>1 DEF RInv, Handles
<1>3. \A d \in Closers \ {c} : pc[d] = "new" /\ ~Handles(d)
  BY <1>2 DEF OneCloserInv
<1>4. /\ \A d \in Closers \ {c} : pc'[d] = "new"
      /\ pc'[c] \notin {"new", "noop"} /\ (pc'[c] = "end" <=> pc[c] = "client")
  <2>1. /\ \A d \in Closers \ {c} : pc'[d] = pc[d]
        /\ pc[c] \notin {"noop", "end"} /\ pc'[c] # "new"
        /\ pc[c] = "new" => pc'[c] = IF closed THEN "noop" ELSE "unsubscribe"
        /\ pc[c] # "new" => pc'[c] # "noop" /\ (pc'[c] = "end" <=> pc[c] = "client")
    BY <1>1, CloseFrame
  <2>2. pc[c] = "new" => ~closed
    BY <1>2, <1>3 DEF OneCloserInv
  <2> QED BY <2>1, <2>2, <1>3
<1>5. /\ subscribers' \subseteq subscribers
      /\ \A s \in Subs : chan'[s] = chan[s] \/ s \in subscribers
  BY <1>1, CloseFrame
<1>6. \A h \in Handlers : rpc'[h] = IF h = c /\ pc'[c] = "end" THEN "done" ELSE rpc[h]
  BY <1>1, <1>4 DEF ServerTypeOK
<1>7. /\ \A d \in Closers \ {c} : ~Handles(d)'
      /\ Handles(c)' <=> pc'[c] # "end"
      /\ rpc'[Traced] = rpc[Traced] /\ \A s \in Subs : rpc'[s] = rpc[s]
  BY <1>1, <1>3, <1>6, HandlerSets DEF Handles, Handlers
<1>8. ~Kept /\ ~Kept' /\ rpc[Traced] = "done"
  BY <1>1, <1>2 DEF OneCloserInv, PlaceInv, Held, Kept
<1>9. QuietInv'
  BY <1>1, <1>2, <1>6 DEF QuietInv, Swiping
<1>10. OneCloserInv'
  BY <1>1, <1>4, <1>7, <1>8, HandlerSets DEF OneCloserInv, Kept
<1>11. PlaceInv'
  <2>1. CASE pc[c] = "client"
    BY <2>1, <1>1, <1>4, <1>7, <1>8 DEF PlaceInv, Closed
  <2>2. CASE pc[c] # "client"
    BY <2>2, <1>1, <1>2, <1>4, <1>7, <1>8 DEF PlaceInv, Held, Closed
  <2> QED BY <2>1, <2>2
<1> QED BY <1>9, <1>10, <1>11 DEF RInv

-----------------------------------------------------------------------------
(* The theorem *)

LEMMA StepRInv ==
  TypeOK /\ ServerTypeOK /\ IdleInv /\ RInv /\ [OwnerNext]_ownerVars => RInv'
<1> SUFFICES ASSUME TypeOK, ServerTypeOK, IdleInv, RInv, [OwnerNext]_ownerVars PROVE RInv'
  OBVIOUS
<1>1. CASE OwnerStep
  BY <1>1, OwnerKeeps
<1>2. CASE Fails \/ Interrupt
  BY <1>2, MainKeeps
<1>3. CASE Runtime
  BY <1>3, MainKeeps, CloseAllKeeps, CloseOtherKeeps, CloseTracedKeeps DEF Runtime
<1>4. CASE Calls
  BY <1>4, CreateFailsKeeps, CreateKeeps, SubscribeCallKeeps, CloseCallKeeps, TransportKeeps
     DEF Calls
<1>5. CASE NewCall
  BY <1>5, CreateBeginKeeps, LookupKeeps DEF NewCall
<1>6. CASE UNCHANGED ownerVars
  <2>1. UNCHANGED server /\ UNCHANGED phase
    BY <1>6 DEF ownerVars, allVars, serverVars, server
  <2> QED BY <2>1, PhaseStep
<1> QED BY <1>1, <1>2, <1>3, <1>4, <1>5, <1>6 DEF OwnerNext

\* A runtime that exits by itself has closed every client it made and every event channel,
\* however many sessions were being created, subscribed to or closed when the signal came.
THEOREM ExitLeavesNoSession == OwnerSafeSpec => []NoSessionSurvives
<1>1. OwnerInit => ServerTypeOK /\ IdleInv /\ RInv
  BY ServerTypeInit, RInvInit DEF OwnerInit, ServerInit, IdleInv
<1>2. SafeSpec => []IInv
  BY InitIInv, StepIInv, PTL DEF SafeSpec
<1>3. OwnerSafeSpec => []IInv
  BY <1>2, RuntimeRunsTheSession, PTL
<1>4. IInv => TypeOK
  BY DEF IInv
<1>5. OwnerSafeSpec => [](ServerTypeOK /\ IdleInv /\ RInv)
  BY <1>1, <1>3, <1>4, ServerTypeStep, IdleStep, StepRInv, PTL DEF OwnerSafeSpec
<1>6. IInv /\ RInv => NoSessionSurvives
  <2> SUFFICES ASSUME IInv, RInv, phase = "exited"
               PROVE  live = {} /\ subscribers = {} /\ \A s \in Subs : chan[s] # "open"
    BY DEF NoSessionSurvives
  <2>1. QuietInv /\ PlaceInv /\ sessions = {} /\ sweep = {}
    BY DEF RInv, Dead, QuietInv, Swiping
  <2>2. ~Kept /\ ~Held
    BY <2>1, HandlerSets DEF Kept, Held, Handles, QuietInv, Swiping, Handlers
  <2>3. live = {}
    BY <2>1, <2>2 DEF QuietInv, PlaceInv
  <2>4. CASE Closed
    <3>1. Swept
      BY <2>4 DEF Closed, Swept
    <3> QED BY <2>3, <3>1 DEF IInv, ClosedInv, ChanInv
  <2>5. CASE ~Closed
    BY <2>1, <2>2, <2>3, <2>5 DEF PlaceInv
  <2> QED BY <2>4, <2>5
<1> QED BY <1>3, <1>5, <1>6, PTL
=============================================================================
