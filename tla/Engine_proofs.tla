---------------------------- MODULE Engine_proofs ----------------------------
(***************************************************************************)
(* Close against everything else the engine does, for any number of callers, *)
(* any capacity of the channel and any number of events: emit never meets    *)
(* the closed channel, every event is accounted for, and a closed engine     *)
(* is off the network.                                                       *)
(***************************************************************************)
EXTENDS Engine, FiniteSetTheorems, TLAPS

-----------------------------------------------------------------------------
(* The inductive invariant *)

Dials   == {"bootstrap", "dial", "wait", "connected", "state",
            "e2eeDial", "e2eeWait", "e2eeFlag", "e2eeState"}
Sending == {"send", "evict", "retry"}
Closes  == {"flags", "cancel", "disconnect", "lock", "drain"}
Labels  == Dials \cup Sending \cup Closes
           \cup {"new", "e2ee", "end", "idle", "flag", "emit", "unlock", "handlers", "close", "call"}

TypeInv == TypeOK /\ pc \in [Threads -> Labels]

\* connectMu is held exactly by the connector that dials.
DialInv == \A c \in Connectors : pc[c] \in Dials <=> connectMu = c

\* eventMu is held for reading exactly by the emitters that are at the channel.
ReaderInv == \A t \in Transports : t \in readers <=> pc[t] \in Sending \cup {"unlock"}

\* One thread at a time runs what closeOnce guards, after closed was set; the channel
\* is closed when it has come to the end, which finds no emitter at the channel.
OnceInv ==
  /\ once # "new" => closed
  /\ \A t \in Threads : pc[t] \in Closes => once = "running"
  /\ \A t, u \in Threads : pc[t] \in Closes /\ pc[u] \in Closes => t = u
  /\ eventsClosed => once = "done"
  /\ once = "done" => readers = {}

\* From the moment Close has disconnected the backend, nothing brings it back.
Disconnected == once = "done" \/ \E t \in Threads : pc[t] \in {"lock", "drain"}
OffInv ==
  /\ \A t \in Threads : pc[t] \in {"disconnect", "lock", "drain"} => ctxDone
  /\ once = "done" => ctxDone
  /\ Disconnected => connectMu = Free /\ socket # "up" /\ e2eeLink # "up"

IInv == TypeInv /\ DialInv /\ ReaderInv /\ OnceInv /\ OffInv /\ NoPanic /\ EmitAccounted

-----------------------------------------------------------------------------
LEMMA GotoFacts ==
  ASSUME pc \in [Threads -> Labels], NEW t \in Threads, NEW label \in Labels, Goto(t, label)
  PROVE  /\ pc' \in [Threads -> Labels] /\ pc'[t] = label
         /\ \A u \in Threads \ {t} : pc'[u] = pc[u]
BY DEF Goto

\* The events in the hands of the emitters, as a sum over the two transports.
Hand(label) == IF label \in Sending THEN 1 ELSE 0

LEMMA HandsCounted ==
  ASSUME NEW f
  PROVE  Cardinality({t \in Transports : f[t] \in Sending}) = Hand(f[Regular]) + Hand(f[Encrypted])
<1> DEFINE S == {t \in Transports : f[t] \in Sending}
<1>1. Regular # Encrypted
  BY EngineAssumption
<1>2. S = IF f[Regular] \in Sending
          THEN IF f[Encrypted] \in Sending THEN {Regular, Encrypted} ELSE {Regular}
          ELSE IF f[Encrypted] \in Sending THEN {Encrypted} ELSE {}
  BY DEF Transports
<1>3. /\ Cardinality({}) = 0 /\ Cardinality({Regular}) = 1 /\ Cardinality({Encrypted}) = 1
  BY FS_EmptySet, FS_Singleton
<1>4. Cardinality({Regular, Encrypted}) = 2
  <2>1. {Regular, Encrypted} = {Encrypted} \cup {Regular}
    OBVIOUS
  <2>2. Regular \notin {Encrypted} /\ IsFiniteSet({Encrypted})
    BY <1>1, FS_Singleton
  <2>3. Cardinality({Encrypted} \cup {Regular}) = Cardinality({Encrypted}) + 1
    BY <2>2, FS_AddElement
  <2> QED BY <1>3, <2>1, <2>3
<1> HIDE DEF S
<1>5. CASE f[Regular] \in Sending
  <2>1. CASE f[Encrypted] \in Sending
    BY <1>2, <1>4, <1>5, <2>1 DEF Hand, S
  <2>2. CASE f[Encrypted] \notin Sending
    BY <1>2, <1>3, <1>5, <2>2 DEF Hand, S
  <2> QED BY <2>1, <2>2
<1>6. CASE f[Regular] \notin Sending
  <2>1. CASE f[Encrypted] \in Sending
    BY <1>2, <1>3, <1>6, <2>1 DEF Hand, S
  <2>2. CASE f[Encrypted] \notin Sending
    BY <1>2, <1>3, <1>6, <2>2 DEF Hand, S
  <2> QED BY <2>1, <2>2
<1> QED BY <1>5, <1>6

LEMMA Accounts ==
  EmitAccounted <=> emitted[Regular] + emitted[Encrypted] =
                      received + Len(events) + dropped + (Hand(pc[Regular]) + Hand(pc[Encrypted]))
BY HandsCounted DEF EmitAccounted, Sending

LEMMA AccountsNext ==
  EmitAccounted' <=> emitted'[Regular] + emitted'[Encrypted] =
                       received' + Len(events') + dropped'
                       + (Hand(pc'[Regular]) + Hand(pc'[Encrypted]))
BY HandsCounted DEF EmitAccounted, Sending

-----------------------------------------------------------------------------
(* Steps *)

LEMMA InitIInv == Init => IInv
<1> SUFFICES ASSUME Init PROVE IInv
  OBVIOUS
<1>1. pc = [t \in Threads |-> IF t \in Transports THEN "idle" ELSE "new"]
  BY DEF Init
<1>2. \A t \in Threads : pc[t] \in {"idle", "new"}
  BY <1>1
<1>3. pc \in [Threads -> Labels]
  BY <1>1 DEF Labels
<1>4. TypeInv
  <2>1. DOMAIN pc = Threads
    BY <1>1
  <2>2. events = <<>> /\ events \in Seq(Transports) /\ Len(events) <= Buffer
    BY EngineAssumption DEF Init
  <2>3. kind \in [Transports -> {"up", "failed", "down", "data"}] /\ emitted \in [Transports -> Nat]
    BY DEF Init
  <2> QED BY <1>3, <2>1, <2>2, <2>3 DEF Init, TypeInv, TypeOK, ConnectionState
<1>5. DialInv /\ ReaderInv /\ OnceInv /\ OffInv
  BY <1>2, EngineAssumption
     DEF Init, DialInv, ReaderInv, OnceInv, OffInv, Disconnected, Dials, Sending, Closes, Threads
<1>6. EmitAccounted
  <2>1. Hand(pc[Regular]) = 0 /\ Hand(pc[Encrypted]) = 0
    BY <1>2 DEF Hand, Sending, Threads, Transports
  <2>2. emitted[Regular] = 0 /\ emitted[Encrypted] = 0 /\ received = 0 /\ dropped = 0 /\ Len(events) = 0
    BY DEF Init, Transports
  <2> QED BY <2>1, <2>2, Accounts
<1> QED BY <1>4, <1>5, <1>6 DEF IInv, NoPanic, Init

\* A step of connector c: connectMu changes hands with c only, and a connector that begins
\* after Close is turned away.
ConnectStep(c) ==
  /\ UNCHANGED <<closing, readers, channel, emitting>>
  /\ pc[c] \in {"new", "e2ee"} \cup Dials /\ pc'[c] \in {"close", "e2ee", "end"} \cup Dials
  /\ pc' \in [Threads -> Labels] /\ \A u \in Threads \ {c} : pc'[u] = pc[u]
  /\ pc'[c] \in Dials <=> connectMu' = c
  /\ connectMu \in {c, Free} /\ connectMu' \in {c, Free}
  /\ {connected', e2eeReady'} \subseteq BOOLEAN
  /\ regular' \in ConnectionState /\ e2ee' \in ConnectionState
  /\ socket' \in {"none", "up", "down"} /\ e2eeLink' \in {"none", "up", "down"}
  /\ connectMu = Free /\ closed => connectMu' = Free /\ UNCHANGED backend

LEMMA ConnectorSteps ==
  ASSUME IInv, NEW c \in Connectors, ConnectLock(c) \/ ConnectE2EELock(c) \/ Dialling(c)
  PROVE  ConnectStep(c)
<1>types. /\ TypeOK /\ pc \in [Threads -> Labels] /\ c \in Threads /\ c # Free
          /\ pc[c] \in Dials <=> connectMu = c
  BY EngineAssumption DEF IInv, TypeInv, DialInv, Threads
<1> USE DEF Goto, Labels, Dials, ConnectStep, TypeOK, ConnectionState, flags, states, closing,
            channel, backend, emitting
<1>1. CASE ConnectLock(c)
  <2>1. CASE closed
    BY <1>types, <1>1, <2>1 DEF ConnectLock
  <2>2. CASE ~closed
    BY <1>types, <1>1, <2>2 DEF ConnectLock
  <2> QED BY <2>1, <2>2
<1>2. CASE ConnectE2EELock(c)
  <2>1. CASE closed \/ ~connected
    BY <1>types, <1>2, <2>1 DEF ConnectE2EELock
  <2>2. CASE ~(closed \/ ~connected)
    BY <1>types, <1>2, <2>2 DEF ConnectE2EELock
  <2> QED BY <2>1, <2>2
<1>3. CASE Bootstrap(c)
  <2>1. CASE Goto(c, "dial") /\ UNCHANGED <<regular, connectMu>>
    BY <1>types, <1>3, <2>1 DEF Bootstrap
  <2>2. CASE ConnectFailed(c)
    BY <1>types, <1>3, <2>2 DEF Bootstrap, ConnectFailed
  <2> QED BY <1>3, <2>1, <2>2 DEF Bootstrap
<1>4. CASE Dial(c)
  <2>1. CASE socket' = "up" /\ Goto(c, "wait") /\ UNCHANGED <<regular, connectMu>>
    BY <1>types, <1>4, <2>1 DEF Dial
  <2>2. CASE ConnectFailed(c) /\ UNCHANGED socket
    BY <1>types, <1>4, <2>2 DEF Dial, ConnectFailed
  <2> QED BY <1>4, <2>1, <2>2 DEF Dial
<1>5. CASE WaitUntilCanSend(c)
  <2>1. CASE Goto(c, "connected") /\ UNCHANGED <<socket, regular, connectMu>>
    BY <1>types, <1>5, <2>1 DEF WaitUntilCanSend
  <2>2. CASE socket' = "down" /\ ConnectFailed(c)
    BY <1>types, <1>5, <2>2 DEF WaitUntilCanSend, ConnectFailed
  <2> QED BY <1>5, <2>1, <2>2 DEF WaitUntilCanSend
<1>6. CASE ConnectStoreFlag(c)
  BY <1>types, <1>6 DEF ConnectStoreFlag
<1>7. CASE ConnectStoreState(c)
  BY <1>types, <1>7 DEF ConnectStoreState
<1>8. CASE E2EEDial(c)
  <2>1. CASE e2eeLink' = "up" /\ Goto(c, "e2eeWait") /\ UNCHANGED <<e2eeReady, e2ee, connectMu>>
    BY <1>types, <1>8, <2>1 DEF E2EEDial
  <2>2. CASE E2EEFailed(c) /\ UNCHANGED e2eeLink
    BY <1>types, <1>8, <2>2 DEF E2EEDial, E2EEFailed
  <2> QED BY <1>8, <2>1, <2>2 DEF E2EEDial
<1>9. CASE E2EEWait(c)
  <2>1. CASE Goto(c, "e2eeFlag") /\ UNCHANGED <<e2eeLink, e2eeReady, e2ee, connectMu>>
    BY <1>types, <1>9, <2>1 DEF E2EEWait
  <2>2. CASE e2eeLink' = "down" /\ E2EEFailed(c)
    BY <1>types, <1>9, <2>2 DEF E2EEWait, E2EEFailed
  <2> QED BY <1>9, <2>1, <2>2 DEF E2EEWait
<1>10. CASE E2EEStoreFlag(c)
  BY <1>types, <1>10 DEF E2EEStoreFlag
<1>11. CASE E2EEStoreState(c)
  BY <1>types, <1>11 DEF E2EEStoreState
<1> QED BY <1>1, <1>2, <1>3, <1>4, <1>5, <1>6, <1>7, <1>8, <1>9, <1>10, <1>11 DEF Dialling

LEMMA ConnectKeeps ==
  ASSUME IInv, NEW c \in Connectors, ConnectStep(c)
  PROVE  IInv'
<1>1. /\ UNCHANGED <<closed, ctxDone, once, readers, events, eventsClosed, dropped, panicked, received,
                     kind, emitted>>
      /\ c \in Threads /\ c \notin Transports
      /\ pc[c] \notin Sending \cup Closes \cup {"unlock"}
      /\ pc'[c] \notin Sending \cup Closes \cup {"unlock"}
      /\ \A u \in Threads \ {c} : pc'[u] = pc[u]
  BY EngineAssumption DEF ConnectStep, Threads, Dials, Sending, Closes, closing, channel, emitting
<1>2. TypeInv'
  BY <1>1 DEF ConnectStep, IInv, TypeInv, TypeOK, Threads
<1>3. DialInv'
  BY <1>1, EngineAssumption DEF ConnectStep, IInv, DialInv, Threads
<1>4. ReaderInv'
  BY <1>1 DEF IInv, ReaderInv, Threads
<1>5. OnceInv'
  BY <1>1 DEF IInv, OnceInv
<1>6. OffInv'
  <2>1. Disconnected' => Disconnected
    BY <1>1 DEF Disconnected, Closes
  <2>2. Disconnected => closed
    BY DEF IInv, OnceInv, Disconnected, Closes
  <2>3. Disconnected => connectMu' = Free /\ UNCHANGED <<socket, e2eeLink>>
    BY <2>2 DEF ConnectStep, IInv, OffInv, backend
  <2> QED BY <1>1, <2>1, <2>3 DEF IInv, OffInv, Closes
<1>7. NoPanic' /\ EmitAccounted'
  <2>1. pc'[Regular] = pc[Regular] /\ pc'[Encrypted] = pc[Encrypted]
    BY <1>1 DEF Transports, Threads
  <2> QED BY <1>1, <2>1, Accounts, AccountsNext DEF IInv, NoPanic
<1> QED BY <1>2, <1>3, <1>4, <1>5, <1>6, <1>7 DEF IInv

\* A transport's step outside the channel: what its handler stores, and the event it is given.
LEMMA HandlerSteps ==
  ASSUME IInv, NEW t \in Transports,
         Deliver(t) \/ HandleStoreFlag(t) \/ HandleStoreState(t) \/ EmitHandlers(t)
  PROVE  IInv'
<1>1. /\ UNCHANGED <<closed, ctxDone, once, readers, events, eventsClosed, dropped, panicked, received,
                     emitted, connectMu, socket>>
      /\ t \in Threads /\ t \notin Connectors
  BY EngineAssumption DEF Deliver, HandleStoreFlag, HandleStoreState, EmitHandlers, Threads, flags,
     states, closing, channel, backend, emitting
<1>2. /\ pc[t] \in {"idle", "flag", "state", "handlers"}
      /\ pc'[t] \in {"idle", "flag", "state", "emit", "close"}
      /\ pc' \in [Threads -> Labels] /\ \A u \in Threads \ {t} : pc'[u] = pc[u]
  BY <1>1, GotoFacts DEF Deliver, HandleStoreFlag, HandleStoreState, EmitHandlers, IInv, TypeInv, Labels,
     Dials
<1>3. /\ e2eeLink' \in {"none", "up", "down"} /\ (ctxDone /\ e2eeLink # "up" => e2eeLink' # "up")
      /\ kind' \in [Transports -> {"up", "failed", "down", "data"}]
      /\ {connected', e2eeReady'} \subseteq BOOLEAN
      /\ regular' \in ConnectionState /\ e2ee' \in ConnectionState
  <2>types. TypeOK
    BY DEF IInv, TypeInv
  <2>1. CASE Deliver(t)
    <3>1. Kinds[t] \subseteq {"up", "failed", "down", "data"}
      BY EngineAssumption DEF Transports
    <3> QED BY <2>types, <2>1, <3>1 DEF Deliver, TypeOK, flags, states
  <2>2. CASE HandleStoreFlag(t)
    BY <2>types, <2>2 DEF HandleStoreFlag, TypeOK, states, backend, emitting
  <2>3. CASE HandleStoreState(t)
    BY <2>types, <2>3 DEF HandleStoreState, TypeOK, ConnectionState, flags, backend, emitting
  <2>4. CASE EmitHandlers(t)
    BY <2>types, <2>4 DEF EmitHandlers, TypeOK, flags, states, backend, emitting
  <2> QED BY <2>1, <2>2, <2>3, <2>4
<1>4. /\ pc[t] \notin Sending \cup Closes \cup {"unlock"}
      /\ pc'[t] \notin Sending \cup Closes \cup {"unlock"}
  BY <1>2 DEF Sending, Closes
<1>5. TypeInv'
  BY <1>1, <1>2, <1>3 DEF IInv, TypeInv, TypeOK
<1>6. DialInv' /\ ReaderInv'
  BY <1>1, <1>2, <1>4 DEF IInv, DialInv, ReaderInv, Threads
<1>7. OnceInv'
  BY <1>1, <1>2, <1>4 DEF IInv, OnceInv
<1>8. OffInv'
  <2>1. Disconnected' => Disconnected
    BY <1>1, <1>2 DEF Disconnected
  <2>2. Disconnected => ctxDone
    BY DEF IInv, OffInv, Disconnected
  <2> QED BY <1>1, <1>2, <1>3, <2>1, <2>2 DEF IInv, OffInv
<1>9. NoPanic' /\ EmitAccounted'
  <2>1. Hand(pc'[Regular]) = Hand(pc[Regular]) /\ Hand(pc'[Encrypted]) = Hand(pc[Encrypted])
    BY <1>2, <1>4 DEF Transports, Threads, Hand
  <2> QED BY <1>1, <2>1, Accounts, AccountsNext DEF IInv, NoPanic
<1> QED BY <1>5, <1>6, <1>7, <1>8, <1>9 DEF IInv

\* A request, which changes nothing but its own place.
LEMMA RequestSteps ==
  ASSUME IInv, NEW r \in Requesters, RequestRegular(r) \/ RequestEncrypted(r) \/ RequestReturn(r)
  PROVE  IInv'
<1>1. /\ UNCHANGED <<flags, states, closing, connectMu, readers, channel, backend, emitting>>
      /\ r \in Threads
      /\ pc[r] \in {"new", "call"} /\ pc'[r] \in {"call", "end"}
      /\ pc' \in [Threads -> Labels] /\ \A u \in Threads \ {r} : pc'[u] = pc[u]
  BY GotoFacts DEF RequestRegular, RequestEncrypted, RequestReturn, IInv, TypeInv, Labels, Threads
<1>2. pc[r] \notin Sending \cup Closes \cup Dials \cup {"unlock"}
      /\ pc'[r] \notin Sending \cup Closes \cup Dials \cup {"unlock"}
  BY <1>1 DEF Sending, Closes, Dials
<1>3. TypeInv'
  BY <1>1 DEF IInv, TypeInv, TypeOK, flags, states, closing, channel, backend, emitting
<1>4. DialInv' /\ ReaderInv'
  BY <1>1, <1>2 DEF IInv, DialInv, ReaderInv, Threads
<1>5. OnceInv'
  BY <1>1, <1>2 DEF IInv, OnceInv, closing, channel
<1>6. OffInv'
  BY <1>1, <1>2 DEF IInv, OffInv, Disconnected, Closes, closing, backend
<1>7. NoPanic' /\ EmitAccounted'
  <2>1. Hand(pc'[Regular]) = Hand(pc[Regular]) /\ Hand(pc'[Encrypted]) = Hand(pc[Encrypted])
    BY <1>1, <1>2 DEF Transports, Threads, Hand
  <2> QED BY <1>1, <2>1, Accounts, AccountsNext DEF IInv, NoPanic, channel, emitting
<1> QED BY <1>3, <1>4, <1>5, <1>6, <1>7 DEF IInv

\* A step of emit: the other transport's hand stays as it is.
LEMMA HandsMove ==
  ASSUME NEW t \in Transports, \A u \in Threads \ {t} : pc'[u] = pc[u],
         NEW before \in Int, NEW now \in Int, Hand(pc[t]) = before, Hand(pc'[t]) = now
  PROVE  Hand(pc'[Regular]) + Hand(pc'[Encrypted])
           = Hand(pc[Regular]) + Hand(pc[Encrypted]) + now - before
<1>1. Regular # Encrypted /\ Regular \in Threads /\ Encrypted \in Threads /\ t \in {Regular, Encrypted}
  BY EngineAssumption DEF Threads, Transports
<1>2. Hand(pc[Regular]) \in Int /\ Hand(pc[Encrypted]) \in Int
  BY DEF Hand
<1>3. CASE t = Regular
  <2>1. pc'[Encrypted] = pc[Encrypted]
    BY <1>1, <1>3
  <2> QED BY <1>2, <1>3, <2>1
<1>4. CASE t = Encrypted
  <2>1. pc'[Regular] = pc[Regular]
    BY <1>1, <1>4
  <2> QED BY <1>2, <1>4, <2>1
<1> QED BY <1>1, <1>3, <1>4

\* The arithmetic of the books.
LEMMA Balance ==
  ASSUME NEW sent \in Int, NEW old \in Int, NEW got \in Int, NEW len \in Int, NEW len2 \in Int,
         NEW lost \in Int, NEW lost2 \in Int, NEW hands \in Int, NEW b \in Int, NEW n \in Int,
         old = got + len + lost + hands,
         sent + b + len + lost = old + n + len2 + lost2
  PROVE  sent = got + len2 + lost2 + (hands + n - b)
OBVIOUS

\* Two pairs of equal sums may stand for each other in a longer sum.
LEMMA SameSum ==
  ASSUME NEW a \in Int, NEW b \in Int, NEW c \in Int, NEW d \in Int, NEW e \in Int, d + e = b + c
  PROVE  a + b + c = a + d + e
OBVIOUS

\* A step of emit moves the event between the hand, the channel and the drops.
LEMMA EmitSteps ==
  ASSUME IInv, NEW t \in Transports,
         EmitRLock(t) \/ EmitSend(t) \/ EmitEvict(t) \/ EmitRetry(t) \/ EmitRUnlock(t)
  PROVE  IInv'
<1>types. /\ TypeOK /\ pc \in [Threads -> Labels] /\ t \in Threads /\ t \notin Connectors
          /\ events \in Seq(Transports) /\ Len(events) \in Nat /\ dropped \in Nat /\ received \in Nat
          /\ emitted \in [Transports -> Nat]
          /\ Buffer \in Nat \ {0} /\ readers \subseteq Transports
          /\ Regular \in Transports /\ Encrypted \in Transports /\ Regular # Encrypted
  BY EngineAssumption DEF IInv, TypeInv, TypeOK, Threads, Transports
<1>nats. emitted[Regular] \in Nat /\ emitted[Encrypted] \in Nat
  BY <1>types
<1>frame. /\ UNCHANGED <<closed, ctxDone, once, eventsClosed, received, kind, connectMu>>
          /\ UNCHANGED <<connected, e2eeReady, regular, e2ee, socket, e2eeLink>>
  BY DEF EmitRLock, EmitSend, EmitEvict, EmitRetry, EmitRUnlock, Enqueue, flags, states, closing,
         channel, backend, emitting
<1>pc. /\ pc[t] \in Sending \cup {"emit", "unlock"}
       /\ pc'[t] \in Sending \cup {"idle", "unlock", "handlers"}
       /\ pc' \in [Threads -> Labels] /\ \A u \in Threads \ {t} : pc'[u] = pc[u]
  BY <1>types, GotoFacts
     DEF EmitRLock, EmitSend, EmitEvict, EmitRetry, EmitRUnlock, Enqueue, Labels, Sending
<1>out. pc[t] \notin Closes /\ pc'[t] \notin Closes
  BY <1>pc DEF Sending, Closes
\* An emitter at the channel holds the read lock, so the channel is open.
<1>open. pc[t] \in Sending \cup {"unlock"} => ~eventsClosed /\ t \in readers /\ once # "done"
  BY DEF IInv, ReaderInv, OnceInv
<1>sum. emitted[Regular] + emitted[Encrypted] =
          received + Len(events) + dropped + (Hand(pc[Regular]) + Hand(pc[Encrypted]))
  BY Accounts DEF IInv
\* The books stay balanced when what is emitted goes to the channel, the drops or the hand.
<1>books. ASSUME NEW b \in {0, 1}, NEW n \in {0, 1}, Hand(pc[t]) = b, Hand(pc'[t]) = n,
                 Len(events') \in Nat, dropped' \in Nat, emitted' \in [Transports -> Nat],
                 emitted'[Regular] + emitted'[Encrypted] + b + Len(events) + dropped
                   = emitted[Regular] + emitted[Encrypted] + n + Len(events') + dropped'
          PROVE  EmitAccounted'
  <2> DEFINE hands == Hand(pc[Regular]) + Hand(pc[Encrypted])
             now == Hand(pc'[Regular]) + Hand(pc'[Encrypted])
             sent == emitted'[Regular] + emitted'[Encrypted]
             old == emitted[Regular] + emitted[Encrypted]
  <2>1. now = hands + n - b
    BY <1>books, <1>pc, HandsMove
  <2>2. sent \in Int /\ old \in Int
    <3>1. emitted'[Regular] \in Nat /\ emitted'[Encrypted] \in Nat
      BY <1>books, <1>types
    <3> QED BY <1>nats, <3>1
  <2>h. hands \in Int
    BY DEF Hand
  <2>3. /\ old = received + Len(events) + dropped + hands
        /\ sent + b + Len(events) + dropped = old + n + Len(events') + dropped'
    BY <1>books, <1>sum
  <2>4. EmitAccounted' <=> sent = received' + Len(events') + dropped' + now
    BY AccountsNext
  <2> HIDE DEF hands, now, sent, old
  <2>5. sent = received + Len(events') + dropped' + now
    <3>1. /\ b \in Int /\ n \in Int /\ Len(events) \in Int /\ Len(events') \in Int
          /\ dropped \in Int /\ dropped' \in Int /\ received \in Int
      BY <1>books, <1>types
    <3>2. sent = received + Len(events') + dropped' + (hands + n - b)
      BY <2>2, <2>3, <2>h, <3>1, Balance
    <3> QED BY <2>1, <3>2
  <2> QED BY <1>frame, <2>4, <2>5
\* It is enough to look at the channel, the readers and the counters.
<1>rest. ASSUME events' \in Seq(Transports), Len(events') <= Buffer, dropped' \in Nat,
                emitted' \in [Transports -> Nat], readers' \subseteq Transports,
                t \in readers' <=> pc'[t] \in Sending \cup {"unlock"},
                \A u \in Transports \ {t} : u \in readers' <=> u \in readers,
                closed => readers' \subseteq readers,
                panicked' = panicked, EmitAccounted'
         PROVE  IInv'
  <2>1. TypeInv'
    BY <1>frame, <1>pc, <1>rest, <1>types DEF IInv, TypeInv, TypeOK
  <2>2. DialInv'
    BY <1>frame, <1>pc, <1>types DEF IInv, DialInv, Threads
  <2>3. ReaderInv'
    BY <1>pc, <1>rest DEF IInv, ReaderInv, Threads
  <2>4. OnceInv'
    BY <1>frame, <1>out, <1>pc, <1>rest DEF IInv, OnceInv
  <2>5. OffInv'
    BY <1>frame, <1>out, <1>pc DEF IInv, OffInv, Disconnected, Closes
  <2> QED BY <1>rest, <2>1, <2>2, <2>3, <2>4, <2>5 DEF IInv, NoPanic
<1>1. CASE EmitRLock(t)
  <2>1. UNCHANGED <<events, dropped, panicked>>
    BY <1>1 DEF EmitRLock, channel
  <2>2. CASE closed
    <3>1. pc[t] = "emit" /\ pc'[t] = "idle" /\ UNCHANGED <<readers, emitted>>
      BY <1>1, <1>types, <2>2, GotoFacts DEF EmitRLock, EmitRefused, Labels
    <3>2. Hand(pc[t]) = 0 /\ Hand(pc'[t]) = 0
      BY <3>1 DEF Hand, Sending
    <3>3. EmitAccounted'
      BY <1>books, <1>types, <2>1, <3>1, <3>2
    <3>4. t \notin readers
      BY <3>1 DEF IInv, ReaderInv, Sending
    <3> QED BY <1>rest, <1>types, <2>1, <3>1, <3>3, <3>4 DEF TypeOK, Sending
  <2>3. CASE ~closed
    <3>1. /\ pc[t] = "emit" /\ pc'[t] = "send" /\ readers' = readers \cup {t}
          /\ emitted' = [emitted EXCEPT ![t] = @ + 1]
      BY <1>1, <1>types, <2>3, GotoFacts DEF EmitRLock, EmitRefused, Labels, Sending
    <3>2. Hand(pc[t]) = 0 /\ Hand(pc'[t]) = 1
      BY <3>1 DEF Hand, Sending
    <3>3. /\ emitted'[Regular] + emitted'[Encrypted] = emitted[Regular] + emitted[Encrypted] + 1
          /\ emitted' \in [Transports -> Nat]
      BY <1>types, <3>1 DEF Transports
    <3>4. EmitAccounted'
      BY <1>books, <1>types, <2>1, <3>2, <3>3
    <3> QED BY <1>rest, <1>types, <2>1, <2>3, <3>1, <3>3, <3>4 DEF TypeOK, Sending
  <2> QED BY <2>2, <2>3
\* The event goes from the hand into the channel.
<1>send. ASSUME Room, Enqueue(t), pc[t] \in Sending, UNCHANGED <<dropped, readers, emitted>> PROVE IInv'
  <2>1. events' = Append(events, t) /\ panicked' = panicked /\ pc'[t] = "unlock"
    BY <1>open, <1>send, <1>types, GotoFacts DEF Enqueue, Labels, IInv, TypeInv, TypeOK, NoPanic
  <2>2. /\ events' \in Seq(Transports) /\ Len(events') = Len(events) + 1 /\ Len(events') <= Buffer
    BY <1>send, <1>types, <2>1 DEF Room
  <2>3. Hand(pc[t]) = 1 /\ Hand(pc'[t]) = 0
    BY <1>send, <2>1 DEF Hand, Sending
  <2>4. EmitAccounted'
    <3>1. /\ dropped' = dropped /\ emitted' = emitted /\ Len(events') = Len(events) + 1
          /\ Len(events') \in Nat
      BY <1>send, <1>types, <2>2
    <3>2. emitted'[Regular] + emitted'[Encrypted] + 1 + Len(events) + dropped
            = emitted[Regular] + emitted[Encrypted] + 0 + Len(events') + dropped'
      <4> DEFINE r == emitted[Regular]
                 e == emitted[Encrypted]
      <4>1. r \in Nat /\ e \in Nat /\ emitted'[Regular] = r /\ emitted'[Encrypted] = e
        BY <1>nats, <3>1
      <4> HIDE DEF r, e
      <4>2. r + e + 1 + Len(events) + dropped = r + e + 0 + Len(events') + dropped'
        BY <1>types, <3>1, <4>1
      <4> QED BY <4>1, <4>2 DEF r, e
    <3> QED BY <1>books, <1>types, <2>3, <3>1, <3>2
  <2> QED BY <1>open, <1>rest, <1>send, <1>types, <2>1, <2>2, <2>4
<1>2. CASE EmitSend(t)
  <2>1. pc[t] = "send" /\ UNCHANGED <<dropped, readers, emitted>>
    BY <1>2 DEF EmitSend, emitting
  <2>2. CASE Room
    BY <1>2, <1>send, <2>1, <2>2 DEF EmitSend, Sending
  <2>3. CASE ~Room
    <3>1. pc'[t] = "evict" /\ UNCHANGED <<events, panicked>>
      BY <1>2, <1>types, <2>3, GotoFacts DEF EmitSend, Labels, Sending
    <3>2. Hand(pc[t]) = 1 /\ Hand(pc'[t]) = 1
      BY <2>1, <3>1 DEF Hand, Sending
    <3>3. EmitAccounted'
      BY <1>books, <1>types, <2>1, <3>1, <3>2
    <3> QED BY <1>open, <1>rest, <1>types, <2>1, <3>1, <3>3 DEF TypeOK, Sending
  <2> QED BY <2>2, <2>3
<1>3. CASE EmitEvict(t)
  <2>1. pc[t] = "evict" /\ pc'[t] = "retry" /\ UNCHANGED <<readers, emitted, panicked>>
    BY <1>3, <1>types, GotoFacts DEF EmitEvict, Labels, Sending, emitting
  <2>2. Hand(pc[t]) = 1 /\ Hand(pc'[t]) = 1
    BY <2>1 DEF Hand, Sending
  <2>3. /\ events' \in Seq(Transports) /\ Len(events') <= Buffer /\ dropped' \in Nat
        /\ Len(events') + dropped' = Len(events) + dropped /\ Len(events') \in Nat
    <3>1. CASE events # <<>>
      <4>1. events' = Tail(events) /\ dropped' = dropped + 1
        BY <1>3, <3>1 DEF EmitEvict, CountDrop
      <4> QED BY <1>types, <3>1, <4>1 DEF TypeOK
    <3>2. CASE events = <<>>
      BY <1>3, <1>types, <3>2 DEF EmitEvict, TypeOK
    <3> QED BY <3>1, <3>2
  <2>4. EmitAccounted'
    <3> DEFINE r == emitted[Regular]
               e == emitted[Encrypted]
    <3>1. /\ r \in Nat /\ e \in Nat /\ emitted'[Regular] = r /\ emitted'[Encrypted] = e
          /\ emitted' \in [Transports -> Nat]
      BY <1>nats, <1>types, <2>1
    <3> HIDE DEF r, e
    <3>2. r + e + 1 + Len(events) + dropped = r + e + 1 + Len(events') + dropped'
      <4>1. /\ Len(events) \in Int /\ Len(events') \in Int /\ dropped \in Int /\ dropped' \in Int
            /\ r + e + 1 \in Int /\ Len(events') + dropped' = Len(events) + dropped
        BY <1>types, <2>3, <3>1
      <4> QED BY <4>1, SameSum
    <3> QED BY <1>books, <2>2, <2>3, <3>1, <3>2 DEF r, e
  <2> QED BY <1>open, <1>rest, <1>types, <2>1, <2>3, <2>4 DEF Sending
<1>4. CASE EmitRetry(t)
  <2>1. pc[t] = "retry" /\ UNCHANGED <<readers, emitted>>
    BY <1>4 DEF EmitRetry, emitting
  <2>2. CASE Room
    BY <1>4, <1>send, <2>1, <2>2 DEF EmitRetry, Sending
  <2>3. CASE ~Room
    <3>1. pc'[t] = "unlock" /\ dropped' = dropped + 1 /\ UNCHANGED <<events, panicked>>
      BY <1>4, <1>types, <2>3, GotoFacts DEF EmitRetry, CountDrop, Labels
    <3>2. Hand(pc[t]) = 1 /\ Hand(pc'[t]) = 0
      BY <2>1, <3>1 DEF Hand, Sending
    <3>3. EmitAccounted'
      <4>1. /\ emitted' = emitted /\ Len(events') = Len(events) /\ dropped' \in Nat
            /\ emitted'[Regular] + emitted'[Encrypted] + 1 + Len(events) + dropped
                 = emitted[Regular] + emitted[Encrypted] + 0 + Len(events') + dropped'
        <5> DEFINE r == emitted[Regular]
                   e == emitted[Encrypted]
        <5>1. r \in Nat /\ e \in Nat /\ emitted'[Regular] = r /\ emitted'[Encrypted] = e
          BY <1>nats, <2>1
        <5> HIDE DEF r, e
        <5>2. r + e + 1 + Len(events) + dropped = r + e + 0 + Len(events') + dropped'
          BY <1>types, <3>1, <5>1
        <5> QED BY <1>types, <2>1, <3>1, <5>1, <5>2 DEF r, e
      <4> QED BY <1>books, <1>types, <3>2, <4>1
    <3> QED BY <1>open, <1>rest, <1>types, <2>1, <3>1, <3>3 DEF TypeOK, Sending
  <2> QED BY <2>2, <2>3
<1>5. CASE EmitRUnlock(t)
  <2>1. /\ pc[t] = "unlock" /\ pc'[t] = "handlers" /\ readers' = readers \ {t}
        /\ UNCHANGED <<events, dropped, panicked, emitted>>
    BY <1>5, <1>types, GotoFacts DEF EmitRUnlock, Labels, channel, emitting
  <2>2. Hand(pc[t]) = 0 /\ Hand(pc'[t]) = 0
    BY <2>1 DEF Hand, Sending
  <2>3. EmitAccounted'
    BY <1>books, <1>types, <2>1, <2>2
  <2> QED BY <1>rest, <1>types, <2>1, <2>3 DEF TypeOK, Sending
<1> QED BY <1>1, <1>2, <1>3, <1>4, <1>5

\* A consumer takes an event out of the channel.
LEMMA ReceiveStep ==
  ASSUME IInv, Receive
  PROVE  IInv'
<1>1. /\ UNCHANGED <<flags, states, closing, connectMu, readers, eventsClosed, dropped, panicked,
                     backend, pc, emitting>>
      /\ events # <<>> /\ events' = Tail(events) /\ received' = received + 1
  BY DEF Receive
<1>2. events \in Seq(Transports) /\ Len(events) <= Buffer /\ received \in Nat /\ dropped \in Nat
  BY DEF IInv, TypeInv, TypeOK
<1>3. /\ events' \in Seq(Transports) /\ Len(events') = Len(events) - 1
      /\ Len(events) \in Nat /\ Len(events') \in Nat /\ received' \in Nat
  BY <1>1, <1>2
<1>4. Len(events') <= Buffer
  BY <1>2, <1>3, EngineAssumption
<1>5. TypeInv'
  BY <1>1, <1>3, <1>4 DEF IInv, TypeInv, TypeOK, flags, states, closing, backend, emitting
<1>6. DialInv' /\ ReaderInv' /\ OnceInv' /\ OffInv' /\ NoPanic'
  BY <1>1 DEF IInv, DialInv, ReaderInv, OnceInv, OffInv, Disconnected, NoPanic, closing, backend
<1>7. EmitAccounted'
  <2> DEFINE sent == emitted[Regular] + emitted[Encrypted]
             hands == Hand(pc[Regular]) + Hand(pc[Encrypted])
  <2>1. hands \in Int
    BY DEF Hand
  <2>2. sent = received + Len(events) + dropped + hands
    BY Accounts DEF IInv
  <2>3. EmitAccounted' <=> sent = received' + Len(events') + dropped + hands
    BY <1>1, AccountsNext DEF emitting
  <2> HIDE DEF sent, hands
  <2>4. received + Len(events) + dropped + hands = received' + Len(events') + dropped + hands
    BY <1>1, <1>2, <1>3, <2>1
  <2> QED BY <2>2, <2>3, <2>4
<1> QED BY <1>5, <1>6, <1>7 DEF IInv

\* A step of Close: who is inside is alone there, and after it has disconnected the backend
\* only the links of a cancelled context are left.
LEMMA CloseSteps ==
  ASSUME IInv, NEW t \in Threads, Close(t)
  PROVE  IInv'
<1>types. /\ TypeOK /\ pc \in [Threads -> Labels] /\ OnceInv /\ OffInv
          /\ "idle" \in Labels /\ "end" \in Labels /\ Closes \subseteq Labels
  BY DEF IInv, TypeInv, Labels, Closes
<1>frame. UNCHANGED <<connectMu, readers, events, dropped, panicked, received, kind, emitted>>
  BY DEF Close, CloseOnce, CloseStoreFlags, CloseCancel, CloseDisconnect, CloseLock, CloseChannel,
         channel, emitting
\* It is enough to look at the closing itself.
<1>rest. ASSUME TypeOK', OnceInv', OffInv',
                pc[t] \in {"close", "new"} \cup Closes,
                pc'[t] \in {"idle", "end"} \cup Closes,
                pc' \in [Threads -> Labels], \A u \in Threads \ {t} : pc'[u] = pc[u]
         PROVE  IInv'
  <2>1. /\ pc[t] \notin Sending \cup Dials \cup {"unlock"}
        /\ pc'[t] \notin Sending \cup Dials \cup {"unlock"}
    BY <1>rest DEF Sending, Dials, Closes
  <2>2. TypeInv' /\ DialInv' /\ ReaderInv'
    BY <1>frame, <1>rest, <2>1 DEF IInv, TypeInv, DialInv, ReaderInv, Threads
  <2>3. Hand(pc'[Regular]) = Hand(pc[Regular]) /\ Hand(pc'[Encrypted]) = Hand(pc[Encrypted])
    BY <1>rest, <2>1 DEF Transports, Threads, Hand
  <2>4. NoPanic' /\ EmitAccounted'
    BY <1>frame, <2>3, Accounts, AccountsNext DEF IInv, NoPanic
  <2> QED BY <1>rest, <2>2, <2>4 DEF IInv
\* Until somebody is in, nobody is; who is in is alone.
<1>none. once # "running" => \A u \in Threads : pc[u] \notin Closes
  BY <1>types DEF OnceInv
<1>alone. pc[t] \in Closes => once = "running" /\ \A u \in Threads \ {t} : pc[u] \notin Closes
  BY <1>types DEF OnceInv
<1>open. once = "running" => ~eventsClosed /\ closed
  BY <1>types DEF OnceInv
<1>1. CASE CloseOnce(t)
  <2>1. /\ pc[t] \in {"close", "new"}
        /\ UNCHANGED <<ctxDone, eventsClosed, connected, e2eeReady, regular, e2ee, socket, e2eeLink>>
    BY <1>1 DEF CloseOnce, flags, states, channel, backend
  <2>2. CASE once = "new"
    <3>1. /\ once' = "running" /\ closed' = TRUE /\ pc'[t] = "flags"
          /\ pc' \in [Threads -> Labels] /\ \A u \in Threads \ {t} : pc'[u] = pc[u]
      BY <1>1, <1>types, <2>2, GotoFacts DEF CloseOnce, Closes
    <3>2. TypeOK'
      BY <1>frame, <1>types, <2>1, <3>1 DEF TypeOK
    <3>3. OnceInv'
      BY <1>frame, <1>none, <1>types, <2>1, <2>2, <3>1 DEF OnceInv
    <3>4. OffInv'
      BY <1>none, <2>1, <2>2, <3>1 DEF OffInv, Disconnected, Closes
    <3> QED BY <1>rest, <2>1, <3>1, <3>2, <3>3, <3>4 DEF Closes
  <2>3. CASE once = "done"
    <3>1. /\ UNCHANGED <<once, closed>> /\ pc'[t] \in {"idle", "end"}
          /\ pc' \in [Threads -> Labels] /\ \A u \in Threads \ {t} : pc'[u] = pc[u]
      BY <1>1, <1>types, <2>3, GotoFacts DEF CloseOnce, Return
    <3>2. TypeOK'
      BY <1>frame, <1>types, <2>1, <3>1 DEF TypeOK
    <3>3. pc'[t] \notin Closes
      BY <3>1 DEF Closes
    <3>4. OnceInv'
      BY <1>frame, <1>types, <2>1, <3>1, <3>3 DEF OnceInv
    <3>5. OffInv'
      BY <1>frame, <1>types, <2>1, <2>3, <3>1, <3>3 DEF OffInv, Disconnected, Closes
    <3> QED BY <1>rest, <2>1, <3>1, <3>2, <3>4, <3>5
  <2> QED BY <1>1, <2>2, <2>3 DEF CloseOnce
\* Inside, one step after another.
<1>inside. ASSUME UNCHANGED <<closed, once, eventsClosed>>, pc[t] \in Closes, pc'[t] \in Closes,
                  \A u \in Threads \ {t} : pc'[u] = pc[u]
           PROVE  OnceInv'
  BY <1>alone, <1>frame, <1>inside, <1>open, <1>types DEF OnceInv
<1>2. CASE CloseStoreFlags(t)
  <2>1. /\ pc[t] = "flags" /\ pc'[t] = "cancel" /\ connected' = FALSE /\ e2eeReady' = FALSE
        /\ pc' \in [Threads -> Labels] /\ \A u \in Threads \ {t} : pc'[u] = pc[u]
        /\ UNCHANGED <<closed, once, eventsClosed, ctxDone, regular, e2ee, socket, e2eeLink>>
    BY <1>2, <1>types, GotoFacts DEF CloseStoreFlags, Closes, states, closing, channel, backend
  <2>2. TypeOK'
    BY <1>frame, <1>types, <2>1 DEF TypeOK
  <2>3. pc[t] \in Closes /\ pc'[t] \in Closes
    BY <2>1 DEF Closes
  <2>4. OffInv'
    BY <1>alone, <2>1, <2>3 DEF OffInv, Disconnected, Closes
  <2> QED BY <1>inside, <1>rest, <2>1, <2>2, <2>3, <2>4
<1>3. CASE CloseCancel(t)
  <2>1. /\ pc[t] = "cancel" /\ pc'[t] = "disconnect" /\ regular' = "disconnected" /\ e2ee' = "disconnected"
        /\ pc' \in [Threads -> Labels] /\ \A u \in Threads \ {t} : pc'[u] = pc[u]
        /\ ctxDone' = TRUE
        /\ UNCHANGED <<closed, once, eventsClosed, connected, e2eeReady, socket, e2eeLink>>
    BY <1>3, <1>types, GotoFacts DEF CloseCancel, CloseCancels, Closes, flags, channel, backend
  <2>2. TypeOK'
    BY <1>frame, <1>types, <2>1 DEF TypeOK, ConnectionState
  <2>3. pc[t] \in Closes /\ pc'[t] \in Closes
    BY <2>1 DEF Closes
  <2>4. OffInv'
    BY <1>alone, <2>1, <2>3 DEF OffInv, Disconnected, Closes
  <2> QED BY <1>inside, <1>rest, <2>1, <2>2, <2>3, <2>4
<1>4. CASE CloseDisconnect(t)
  <2>1. /\ pc[t] = "disconnect" /\ pc'[t] = "lock" /\ connectMu = Free
        /\ pc' \in [Threads -> Labels] /\ \A u \in Threads \ {t} : pc'[u] = pc[u]
        /\ socket' = (IF socket = "up" THEN "down" ELSE socket)
        /\ e2eeLink' = (IF e2eeLink = "up" THEN "down" ELSE e2eeLink)
        /\ UNCHANGED <<closed, once, eventsClosed, ctxDone, connected, e2eeReady, regular, e2ee>>
    BY <1>4, <1>types, GotoFacts
       DEF CloseDisconnect, CloseMayDisconnect, Closes, flags, states, closing, channel
  <2>2. TypeOK'
    BY <1>frame, <1>types, <2>1 DEF TypeOK
  <2>3. pc[t] \in Closes /\ pc'[t] \in Closes
    BY <2>1 DEF Closes
  <2>4. OffInv'
    BY <1>alone, <1>frame, <1>types, <2>1, <2>3 DEF OffInv, Disconnected, Closes
  <2> QED BY <1>inside, <1>rest, <2>1, <2>2, <2>3, <2>4
<1>5. CASE CloseLock(t)
  <2>1. /\ pc[t] = "lock" /\ pc'[t] = "drain"
        /\ pc' \in [Threads -> Labels] /\ \A u \in Threads \ {t} : pc'[u] = pc[u]
        /\ UNCHANGED <<closed, once, eventsClosed, ctxDone, connected, e2eeReady, regular, e2ee,
                       socket, e2eeLink>>
    BY <1>5, <1>types, GotoFacts DEF CloseLock, Closes, flags, states, closing, channel, backend
  <2>2. TypeOK'
    BY <1>frame, <1>types, <2>1 DEF TypeOK
  <2>3. pc[t] \in Closes /\ pc'[t] \in Closes
    BY <2>1 DEF Closes
  <2>4. OffInv'
    BY <1>alone, <1>frame, <1>types, <2>1, <2>3 DEF OffInv, Disconnected, Closes
  <2> QED BY <1>inside, <1>rest, <2>1, <2>2, <2>3, <2>4
<1>6. CASE CloseChannel(t)
  <2>1. /\ pc[t] = "drain" /\ pc'[t] \in {"idle", "end"} /\ readers = {} /\ eventsClosed' = TRUE
        /\ once' = "done"
        /\ pc' \in [Threads -> Labels] /\ \A u \in Threads \ {t} : pc'[u] = pc[u]
        /\ UNCHANGED <<closed, ctxDone, connected, e2eeReady, regular, e2ee, socket, e2eeLink>>
    BY <1>6, <1>types, GotoFacts DEF CloseChannel, ChannelClosed, Return, flags, states, backend
  <2>2. TypeOK'
    BY <1>frame, <1>types, <2>1 DEF TypeOK
  <2>3. pc[t] \in Closes /\ pc'[t] \notin Closes
    BY <2>1 DEF Closes
  <2>4. OnceInv'
    BY <1>alone, <1>frame, <1>open, <2>1, <2>3 DEF OnceInv
  <2>5. OffInv'
    BY <1>alone, <1>frame, <1>types, <2>1, <2>3 DEF OffInv, Disconnected, Closes
  <2> QED BY <1>rest, <2>1, <2>2, <2>3, <2>4, <2>5
<1> QED BY <1>1, <1>2, <1>3, <1>4, <1>5, <1>6 DEF Close

LEMMA StepIInv == IInv /\ [Next]_vars => IInv'
<1> SUFFICES ASSUME IInv, [Next]_vars PROVE IInv'
  OBVIOUS
<1>1. CASE \E c \in Connectors : ConnectLock(c) \/ ConnectE2EELock(c) \/ Dialling(c)
  BY <1>1, ConnectKeeps, ConnectorSteps
<1>2. CASE \E t \in Transports : Deliver(t) \/ Handle(t)
  BY <1>2, EmitSteps, HandlerSteps DEF Handle
<1>3. CASE Receive
  BY <1>3, ReceiveStep
<1>4. CASE \E r \in Requesters : RequestRegular(r) \/ RequestEncrypted(r) \/ RequestReturn(r)
  BY <1>4, RequestSteps
<1>5. CASE \E t \in Threads : Close(t)
  BY <1>5, CloseSteps
<1>6. CASE UNCHANGED vars
  <2>1. /\ UNCHANGED <<closed, connected, e2eeReady, regular, e2ee, ctxDone, once, connectMu, readers>>
        /\ UNCHANGED <<events, eventsClosed, dropped, socket, e2eeLink, pc, kind, panicked, emitted, received>>
    BY <1>6 DEF vars, flags, states, closing, channel, backend, emitting
  <2>2. TypeInv' /\ DialInv' /\ ReaderInv' /\ OnceInv' /\ OffInv' /\ NoPanic'
    BY <2>1 DEF IInv, TypeInv, TypeOK, DialInv, ReaderInv, OnceInv, OffInv, Disconnected, NoPanic
  <2>3. EmitAccounted'
    BY <2>1, Accounts, AccountsNext DEF IInv
  <2> QED BY <2>2, <2>3 DEF IInv
<1> QED BY <1>1, <1>2, <1>3, <1>4, <1>5, <1>6 DEF Next

-----------------------------------------------------------------------------
(* Theorems *)

\* The books of the engine and its locks are kept in every behaviour.
THEOREM EngineKeepsItsBooks == SafeSpec => []IInv
<1>1. Init => IInv
  BY InitIInv
<1>2. IInv /\ [Next]_vars => IInv'
  BY StepIInv
<1> QED BY <1>1, <1>2, PTL DEF SafeSpec

\* Every flag and state of the engine has its type, and the channel never holds more than
\* its capacity.
THEOREM EngineTypes == SafeSpec => []TypeOK
<1>1. IInv => TypeOK
  BY DEF IInv, TypeInv
<1> QED BY <1>1, EngineKeepsItsBooks, PTL

\* emit never sends on the channel that Close has closed, whatever the number of threads
\* that close, connect or request, and however the two transports meet in emit.
THEOREM EmitMeetsAnOpenChannel == SafeSpec => []NoPanic
<1>1. IInv => NoPanic
  BY DEF IInv
<1> QED BY <1>1, EngineKeepsItsBooks, PTL

\* Health's count of dropped events is exact for every capacity of the channel.
THEOREM EveryEventIsAccountedFor == SafeSpec => []EmitAccounted
<1>1. IInv => EmitAccounted
  BY DEF IInv
<1> QED BY <1>1, EngineKeepsItsBooks, PTL

\* When Close has returned, neither transport is on the network, also when a connector was
\* dialling while it ran.
THEOREM ClosedIsOffTheNetwork == SafeSpec => []CloseDisconnects
<1>1. IInv => CloseDisconnects
  BY DEF IInv, OffInv, Disconnected, CloseDisconnects
<1> QED BY <1>1, EngineKeepsItsBooks, PTL
=============================================================================
