------------------------------- MODULE Client -------------------------------
(***************************************************************************)
(* The root client (client.go) and the persistence it calls                *)
(* (auth/profile.go, SaveAuthSnapshot): Connect, RefreshAuth, AuthSnapshot *)
(* and Close, each called by threads of its own.  connectMu serialises the *)
(* first three; Close changes the state first and waits for connectMu at   *)
(* its end, so it meets the others at each of their steps.                 *)
(*                                                                         *)
(* An engine (module Engine) is its link and the cookie jar it works with. *)
(* Cookies are told apart by where they come from: "first" are those the   *)
(* program began with, a refresher brings its own.  Session metadata is    *)
(* named after the cookies it was fetched with.  A failing call of the     *)
(* network or of the secret store costs one of MaxFaults; a network call   *)
(* may also fail because Close cancelled its context.                      *)
(***************************************************************************)
EXTENDS Naturals, Sequences

CONSTANTS Connectors, Refreshers, Exporters, Closers,
          MaxFaults,      \* bound: calls that fail
          MaxDrops,       \* bound: links that drop
          None, Free      \* "no cookies, no such secret", "nobody holds connectMu"

Threads == Connectors \cup Refreshers \cup Exporters \cup Closers
Cookies == {"first"} \cup Refreshers
Secrets == [cookies : Cookies \cup {None}, session : Cookies \cup {None}]

ASSUME ClientAssumption ==
  /\ {MaxFaults, MaxDrops} \subseteq Nat
  /\ None \notin Cookies /\ Free \notin Threads
  /\ Closers \cap (Connectors \cup Refreshers \cup Exporters) = {}

VARIABLES
  closed, engine,      \* Client.closed; Client.engine as an index of engines, 0 for nil
  cookies, source,     \* Client.cookies and authSource
  profile,             \* a profile and its secret store are configured
  connectMu,           \* holder of connectMu, or Free
  engines,             \* every engine created: its link and its jar
  stored,              \* the profile's secrets: cookies and session
  pc,                  \* per thread: where it is
  mine,                \* per thread: the engine it read or created
  persists,            \* per thread: a profile was configured when it began
  picked,              \* per thread: the cookies it resolved
  previous,            \* per refresher: the jar before it, AuthState's result
  saved,               \* per refresher: the secrets SaveAuthSnapshot read, or None
  faults, drops        \* calls that failed, links that dropped

client == <<closed, engine, cookies, source, profile>>
locals == <<mine, persists, picked, previous, saved>>
vars == <<client, connectMu, engines, stored, pc, locals, faults, drops>>

Goto(t, label) == pc' = [pc EXCEPT ![t] = label]
Leave(t, label) == connectMu' = Free /\ Goto(t, label)

StoreFails == faults < MaxFaults /\ faults' = faults + 1
NetworkFails == StoreFails \/ (closed /\ UNCHANGED faults)

Connected(e) == e # 0 /\ engines[e].link = "up"
SetLink(e, link) == engines' = [engines EXCEPT ![e].link = link]
SetJar(e, jar) == engines' = [engines EXCEPT ![e].jar = jar]

(* Decisions of the code, each with a plausible slip (Bug...).               *)

\* closed, looked at again under mu before a result is stored in the client.
BugNoSecondLook == FALSE
ClosedMeanwhile == closed

\* Close waits for a connect in flight.
BugReturnAtOnce == TRUE
ConnectIsOver == connectMu = Free

\* A failed save is answered by refreshing with the previous cookies.
BugNoRollback(r) == picked[r]
RollbackCookies(r) == previous[r]

\* A successful refresh also replaces the cookies a reconnect would use.
BugKeepCookies(t) == cookies
RefreshedCookies(t) == picked[t]

\* A failing Connect still releases connectMu (the deferred unlock).
BugKeepLock(t) == connectMu' = connectMu /\ Goto(t, "end")
ConnectReturns(t) == Leave(t, "end")

Init ==
  /\ closed = FALSE /\ engine = 0
  /\ \/ source = "none" /\ cookies = None /\ profile = TRUE
     \/ source = "credentials" /\ cookies = None /\ profile \in BOOLEAN
     \/ source = "cookies" /\ cookies = "first" /\ profile \in BOOLEAN
  /\ connectMu = Free /\ engines = << >>
  /\ stored \in [cookies : {"first", None}, session : {"first", None}]
  /\ stored.session # None => stored.cookies # None   \* cookies are imported first
  /\ stored.cookies # None => profile
  /\ pc = [t \in Threads |-> "new"]
  /\ mine = [t \in Threads |-> 0] /\ persists = [t \in Threads |-> FALSE]
  /\ picked = [t \in Threads |-> None]
  /\ previous = [r \in Refreshers |-> None]
  /\ saved = [r \in Refreshers |-> None]
  /\ faults = 0 /\ drops = 0

-----------------------------------------------------------------------------
(* Connect *)

ConnectBegin(c) ==
  /\ pc[c] = "new"
  /\ connectMu = Free
  /\ IF closed \/ Connected(engine)
     THEN Goto(c, "end") /\ UNCHANGED <<connectMu, persists>>
     ELSE /\ connectMu' = c
          /\ persists' = [persists EXCEPT ![c] = profile]
          /\ Goto(c, "resolve")
  /\ UNCHANGED <<client, engines, stored, mine, picked, previous, saved, faults, drops>>

\* resolveAuth, with the client's cookies or those of the profile; after Close there
\* is only the latter, and a profile may have none.
ResolveCookies(c) ==
  /\ pc[c] = "resolve" /\ source # "credentials"
  /\ \/ /\ source = "cookies" \/ (persists[c] /\ stored.cookies # None)
        /\ picked' = [picked EXCEPT ![c] = IF source = "cookies" THEN cookies ELSE stored.cookies]
        /\ Goto(c, "create") /\ UNCHANGED <<connectMu, faults>>
     \/ /\ source = "none"
        /\ \/ (~persists[c] \/ stored.cookies = None) /\ UNCHANGED faults
           \/ persists[c] /\ StoreFails
        /\ ConnectReturns(c) /\ UNCHANGED picked
  /\ UNCHANGED <<client, engines, stored, mine, persists, previous, saved, drops>>

\* resolveAuth reads the credentials and logs in ...
Login(c) ==
  /\ pc[c] = "resolve" /\ source = "credentials"
  /\ \/ Goto(c, "login") /\ UNCHANGED <<connectMu, faults>>
     \/ StoreFails /\ ConnectReturns(c)
  /\ UNCHANGED <<client, engines, stored, locals, drops>>

\* ... and keeps the resulting cookies instead of the credentials.
KeepLogin(c) ==
  /\ pc[c] = "login"
  /\ IF ClosedMeanwhile
     THEN ConnectReturns(c) /\ UNCHANGED <<cookies, source, picked>>
     ELSE /\ cookies' = "first" /\ source' = "cookies"
          /\ picked' = [picked EXCEPT ![c] = "first"]
          /\ Goto(c, "create") /\ UNCHANGED connectMu
  /\ UNCHANGED <<closed, engine, profile, engines, stored, mine, persists, previous, saved,
                 faults, drops>>

\* deviceStore, which reads the profile, and meta.New.
CreateEngine(c) ==
  /\ pc[c] = "create"
  /\ \/ /\ engines' = Append(engines, [link |-> "dialling", jar |-> picked[c]])
        /\ mine' = [mine EXCEPT ![c] = Len(engines')]
        /\ Goto(c, "dial") /\ UNCHANGED <<connectMu, faults>>
     \/ StoreFails /\ ConnectReturns(c) /\ UNCHANGED <<engines, mine>>
  /\ UNCHANGED <<client, stored, persists, picked, previous, saved, drops>>

\* Engine.Connect and, with E2EE, Engine.ConnectE2EE; a failing engine is closed.
DialEngine(c) ==
  /\ pc[c] = "dial"
  /\ \/ SetLink(mine[c], "up") /\ Goto(c, "publish") /\ UNCHANGED <<connectMu, faults>>
     \/ NetworkFails /\ SetLink(mine[c], "closed") /\ ConnectReturns(c)
  /\ UNCHANGED <<client, stored, locals, drops>>

\* The engine becomes the client's, unless the client was closed meanwhile.
PublishEngine(c) ==
  /\ pc[c] = "publish"
  /\ IF ClosedMeanwhile
     THEN SetLink(mine[c], "closed") /\ UNCHANGED client
     ELSE /\ engine' = mine[c]
          /\ IF source = "none"
             THEN UNCHANGED <<cookies, source>>
             ELSE cookies' = picked[c] /\ source' = "cookies"
          /\ UNCHANGED <<closed, profile, engines>>
  /\ ConnectReturns(c)
  /\ UNCHANGED <<stored, locals, faults, drops>>

Connect(c) ==
  \/ ConnectBegin(c) \/ ResolveCookies(c) \/ Login(c) \/ KeepLogin(c)
  \/ CreateEngine(c) \/ DialEngine(c) \/ PublishEngine(c)

-----------------------------------------------------------------------------
(* The transport, which reconnects on its own until the client's context ends *)

LinkDrops(e) ==
  /\ engines[e].link = "up"
  /\ drops < MaxDrops /\ drops' = drops + 1
  /\ SetLink(e, "down")
  /\ UNCHANGED <<client, connectMu, stored, pc, locals, faults>>

LinkReturns(e) ==
  /\ engines[e].link = "down" /\ ~closed
  /\ SetLink(e, "up")
  /\ UNCHANGED <<client, connectMu, stored, pc, locals, faults, drops>>

-----------------------------------------------------------------------------
(* RefreshAuth: every early return before the jar is touched is "refused", *)
(* every later one "failed", the successful one "done".                    *)

RefreshBegin(r) ==
  /\ pc[r] = "new"
  /\ connectMu = Free
  /\ IF closed \/ ~Connected(engine)
     THEN Goto(r, "refused") /\ UNCHANGED <<connectMu, mine, persists>>
     ELSE /\ connectMu' = r
          /\ mine' = [mine EXCEPT ![r] = engine]
          /\ persists' = [persists EXCEPT ![r] = profile]
          /\ Goto(r, "read")
  /\ UNCHANGED <<client, engines, stored, picked, previous, saved, faults, drops>>

\* Engine.AuthState, then resolveSource and the validation of what it brought; with no
\* source the cookies stay and only the session is fetched anew.
RefreshRead(r) ==
  /\ pc[r] = "read"
  /\ \/ /\ Connected(mine[r])
        /\ previous' = [previous EXCEPT ![r] = engines[mine[r]].jar]
        /\ \E c \in {previous'[r], r} : picked' = [picked EXCEPT ![r] = c]
        /\ Goto(r, "refresh") /\ UNCHANGED <<connectMu, faults>>
     \/ /\ (~Connected(mine[r]) /\ UNCHANGED faults) \/ NetworkFails
        /\ Leave(r, "refused") /\ UNCHANGED <<previous, picked>>
  /\ UNCHANGED <<client, engines, stored, mine, persists, saved, drops>>

\* Engine.RefreshAuth changes the jar and fetches the session; a failing fetch puts
\* the jar back.  An answer for another account calls for a rollback.
RefreshEngine(r) ==
  /\ pc[r] = "refresh"
  /\ \/ /\ Connected(mine[r])
        /\ SetJar(mine[r], picked[r])
        /\ \/ Goto(r, IF persists[r] THEN "snapshot" ELSE "store") /\ UNCHANGED faults
           \/ StoreFails /\ Goto(r, "rollback")
        /\ UNCHANGED connectMu
     \/ /\ (~Connected(mine[r]) /\ UNCHANGED faults) \/ NetworkFails
        /\ Leave(r, "failed") /\ UNCHANGED engines
  /\ UNCHANGED <<client, stored, locals, drops>>

(* ProfileManager.SaveAuthSnapshot: read both secrets, which may be missing, put both,  *)
(* and put the old ones back, or delete those there were not, when the second put fails. *)

SnapshotRead(r) ==
  /\ pc[r] = "snapshot"
  /\ \/ /\ saved' = [saved EXCEPT ![r] = stored]
        /\ Goto(r, "put cookies") /\ UNCHANGED faults
     \/ StoreFails /\ Goto(r, "rollback") /\ UNCHANGED saved
  /\ UNCHANGED <<client, connectMu, engines, stored, mine, persists, picked, previous, drops>>

\* One Put of the secret store, or one Delete (value None; that the secret is not there
\* is no error): it succeeds, or fails and changes nothing.
Put(r, key, value, next, onError) ==
  /\ \/ stored' = [stored EXCEPT ![key] = value] /\ Goto(r, next) /\ UNCHANGED faults
     \/ StoreFails /\ Goto(r, onError) /\ UNCHANGED stored
  /\ UNCHANGED <<client, connectMu, engines, locals, drops>>

\* The rollback puts the old cookies back first.
UndoStart == "undo cookies"

SnapshotPut(r) ==
  \/ pc[r] = "put cookies" /\ Put(r, "cookies", picked[r], "put session", "rollback")
  \/ pc[r] = "put session" /\ Put(r, "session", picked[r], "store", UndoStart)
  \/ pc[r] = "undo cookies" /\ Put(r, "cookies", saved[r].cookies, "undo session", "undo session")
  \/ pc[r] = "undo session" /\ Put(r, "session", saved[r].session, "rollback", "rollback")

\* Engine.RefreshAuth again, with the previous cookies: refused when the link is down,
\* and a failing fetch leaves the jar as it found it.
Rollback(r) ==
  /\ pc[r] = "rollback"
  /\ \/ Connected(mine[r]) /\ SetJar(mine[r], RollbackCookies(r)) /\ UNCHANGED faults
     \/ ((~Connected(mine[r]) /\ UNCHANGED faults) \/ NetworkFails) /\ UNCHANGED engines
  /\ Leave(r, "failed")
  /\ UNCHANGED <<client, stored, locals, drops>>

StoreRefreshed(r) ==
  /\ pc[r] = "store"
  /\ IF ClosedMeanwhile
     THEN Leave(r, "failed") /\ UNCHANGED <<cookies, source>>
     ELSE /\ cookies' = RefreshedCookies(r) /\ source' = "cookies"
          /\ Leave(r, "done")
  /\ UNCHANGED <<closed, engine, profile, engines, stored, locals, faults, drops>>

RefreshAuth(r) ==
  \/ RefreshBegin(r) \/ RefreshRead(r) \/ RefreshEngine(r) \/ SnapshotRead(r)
  \/ SnapshotPut(r) \/ Rollback(r) \/ StoreRefreshed(r)

-----------------------------------------------------------------------------
(* AuthSnapshot: the live cookies become the client's *)

ExportBegin(x) ==
  /\ pc[x] = "new"
  /\ connectMu = Free
  /\ IF closed \/ ~Connected(engine)
     THEN Goto(x, "end") /\ UNCHANGED <<connectMu, mine>>
     ELSE /\ connectMu' = x
          /\ mine' = [mine EXCEPT ![x] = engine]
          /\ Goto(x, "export")
  /\ UNCHANGED <<client, engines, stored, persists, picked, previous, saved, faults, drops>>

ExportRead(x) ==
  /\ pc[x] = "export"
  /\ \/ /\ Connected(mine[x])
        /\ picked' = [picked EXCEPT ![x] = engines[mine[x]].jar]
        /\ Goto(x, "keep") /\ UNCHANGED <<connectMu, faults>>
     \/ /\ (~Connected(mine[x]) /\ UNCHANGED faults) \/ NetworkFails
        /\ Leave(x, "end") /\ UNCHANGED picked
  /\ UNCHANGED <<client, engines, stored, mine, persists, previous, saved, drops>>

ExportKeep(x) ==
  /\ pc[x] = "keep"
  /\ IF ClosedMeanwhile
     THEN UNCHANGED <<cookies, source>>
     ELSE cookies' = RefreshedCookies(x) /\ source' = "cookies"
  /\ Leave(x, "end")
  /\ UNCHANGED <<closed, engine, profile, engines, stored, locals, faults, drops>>

AuthSnapshot(x) == ExportBegin(x) \/ ExportRead(x) \/ ExportKeep(x)

-----------------------------------------------------------------------------
(* Close *)

CloseBegin(k) ==
  /\ pc[k] = "new"
  /\ closed' = TRUE
  /\ IF closed
     THEN Goto(k, "noop") /\ UNCHANGED <<engine, cookies, source, profile, mine>>
     ELSE /\ mine' = [mine EXCEPT ![k] = engine]
          /\ engine' = 0 /\ cookies' = None /\ source' = "none" /\ profile' = FALSE
          /\ Goto(k, "engine")
  /\ UNCHANGED <<connectMu, engines, stored, persists, picked, previous, saved, faults, drops>>

CloseEngine(k) ==
  /\ pc[k] = "engine"
  /\ IF mine[k] = 0 THEN UNCHANGED engines ELSE SetLink(mine[k], "closed")
  /\ Goto(k, "wait")
  /\ UNCHANGED <<client, connectMu, stored, locals, faults, drops>>

CloseWait(k) ==
  /\ pc[k] = "wait"
  /\ ConnectIsOver
  /\ Goto(k, "end")
  /\ UNCHANGED <<client, connectMu, engines, stored, locals, faults, drops>>

Close(k) == CloseBegin(k) \/ CloseEngine(k) \/ CloseWait(k)

-----------------------------------------------------------------------------
Next ==
  \/ \E c \in Connectors : Connect(c)
  \/ \E r \in Refreshers : RefreshAuth(r)
  \/ \E x \in Exporters : AuthSnapshot(x)
  \/ \E k \in Closers : Close(k)
  \/ \E e \in DOMAIN engines : LinkDrops(e) \/ LinkReturns(e)

(* A call that has begun goes on: every network and store call of Connect,          *)
(* RefreshAuth and AuthSnapshot returns, and the holder of connectMu waits for       *)
(* nothing else.  The engine's calls end with their timeout or with Close; a login   *)
(* and the validation of a source know only the caller's context and end because     *)
(* their HTTP clients give up (login.go:423, and messagix).                          *)
Fairness ==
  \A t \in Threads :
    WF_vars(pc[t] # "new" /\ \/ t \in Connectors /\ Connect(t)
                             \/ t \in Refreshers /\ RefreshAuth(t)
                             \/ t \in Exporters /\ AuthSnapshot(t)
                             \/ t \in Closers /\ Close(t))

Spec == Init /\ [][Next]_vars /\ Fairness

-----------------------------------------------------------------------------
(* Properties *)

TypeOK ==
  /\ closed \in BOOLEAN /\ profile \in BOOLEAN
  /\ engine \in 0 .. Len(engines)
  /\ cookies \in Cookies \cup {None} /\ source \in {"none", "cookies", "credentials"}
  /\ source = "cookies" <=> cookies # None
  /\ connectMu \in (Threads \ Closers) \cup {Free}
  /\ engines \in Seq([link : {"dialling", "up", "down", "closed"}, jar : Cookies])
  /\ stored \in Secrets
  /\ DOMAIN pc = Threads /\ mine \in [Threads -> 0 .. Len(engines)]
  /\ persists \in [Threads -> BOOLEAN]
  /\ picked \in [Threads -> Cookies \cup {None}]
  /\ previous \in [Refreshers -> Cookies \cup {None}]
  /\ saved \in [Refreshers -> Secrets \cup {None}]
  /\ faults \in 0 .. MaxFaults /\ drops \in 0 .. MaxDrops

\* client_test.go, TestClientCloseReleasesSensitiveReferences, for every interleaving:
\* a closed client holds no engine, cookies, authentication source or secret store, also
\* when Connect, RefreshAuth or AuthSnapshot was about to store one.
ClosedHoldsNothing ==
  closed => engine = 0 /\ cookies = None /\ source = "none" /\ ~profile

\* Once Close has returned, the engine it found and every engine a Connect was creating
\* meanwhile are closed, and no operation is in flight.
CloseEndsEngines ==
  \A k \in Closers : pc[k] = "end" =>
    /\ connectMu = Free
    /\ \A e \in DOMAIN engines : e >= mine[k] => engines[e].link = "closed"

Fails(r) == pc[r] # "failed" /\ pc'[r] = "failed"
Restored(r) ==
  /\ engines'[mine[r]].jar = previous[r]
  /\ saved[r] # None => stored' = saved[r]

\* A refresh that fails because of a single failing call, with the link up all the time
\* and no Close meanwhile, leaves the live jar and both secrets as they were.
RefreshRestores ==
  [][\A r \in Refreshers :
       Fails(r) /\ faults' <= 1 /\ drops = 0 /\ ~closed => Restored(r)]_vars

\* docs/authentication.md:72, without these conditions: "Failed refreshes restore the
\* previous live and persisted authentication state."
FailedRefreshRestores == [][\A r \in Refreshers : Fails(r) => Restored(r)]_vars

\* Between operations, a reconnect would use the cookies the live engine uses, after any
\* sequence of refreshes, exports, drops and reconnects without a failing call.
ReconnectUsesLiveCookies ==
  connectMu = Free /\ engine # 0 /\ faults = 0
    => engines[engine].jar = IF source = "none" THEN stored.cookies ELSE cookies

\* docs/runtime-architecture.md, "Delivery is at-most-once": only one engine is connected
\* and hands events to the client's handlers.
OneEngineDelivers ==
  \A e, f \in DOMAIN engines : Connected(e) /\ Connected(f) => e = f

\* Close returns, whatever it has to wait for.
CloseReturns == \A k \in Closers : pc[k] = "engine" ~> pc[k] = "end"
=============================================================================
