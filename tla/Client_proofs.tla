---------------------------- MODULE Client_proofs ----------------------------
(***************************************************************************)
(* Close, Connect, RefreshAuth and AuthSnapshot of one client, for any       *)
(* number of callers, failing calls and dropping links: what a closed client *)
(* holds, which engines outlive it, what a reconnect would use, and what a   *)
(* failing refresh leaves behind.                                            *)
(***************************************************************************)
EXTENDS Client, TLAPS

-----------------------------------------------------------------------------
(* The inductive invariant *)

Undoing    == {"undo cookies", "undo session", "rollback"}
Changed    == {"snapshot", "put cookies", "put session", "store"} \cup Undoing
Refreshing == {"read", "refresh"} \cup Changed
Exporting  == {"export", "keep"}
Connecting == {"resolve", "login", "create", "dial", "publish"}
Working    == Connecting \cup Refreshing \cup Exporting
Closing    == {"engine", "wait", "end"}
Labels     == Working \cup Closing \cup {"new", "noop", "refused", "failed", "done"}

TypeInv == TypeOK /\ pc \in [Threads -> Labels]

\* connectMu is held exactly by the thread whose operation is under way.
LockInv == \A t \in Threads : pc[t] \in Working <=> connectMu = t

\* What a reconnect would use.
Reconnect == IF source = "none" THEN stored.cookies ELSE cookies

\* A Connect owns the newest engine and will publish what a reconnect would use.
ConnectorInv(c) ==
  /\ pc[c] = "login" => engine = 0
  /\ pc[c] \in {"create", "dial", "publish"} =>
       picked[c] \in Cookies /\ (~closed => picked[c] = Reconnect)
  /\ pc[c] \in {"dial", "publish"} =>
       /\ mine[c] = Len(engines) /\ engine < mine[c]
       /\ \A k \in Closers : pc[k] \in Closing => mine[k] < mine[c]
       /\ engines[mine[c]].jar = picked[c]
  /\ pc[c] = "dial" => engines[mine[c]].link = "dialling"
  /\ pc[c] = "publish" /\ drops = 0 => engines[mine[c]].link = "up"

\* A refresh knows which cookies its engine works with, and what it has to put back.
RefresherInv(r) ==
  /\ pc[r] \in Refreshing => mine[r] \in 1 .. Len(engines) /\ (~closed => mine[r] = engine)
  /\ pc[r] \in Refreshing \ {"read"} => picked[r] \in Cookies /\ previous[r] \in Cookies
  /\ pc[r] = "refresh" => engines[mine[r]].jar = previous[r]
  /\ pc[r] \in Changed => engines[mine[r]].jar = picked[r]
  /\ pc[r] \in {"new", "read", "refresh", "snapshot"} => saved[r] = None
  /\ pc[r] \in {"put cookies", "put session", "undo cookies", "undo session"} => saved[r] \in Secrets
  /\ pc[r] \in Undoing => faults > 0
  /\ pc[r] = "put cookies" => stored = saved[r]
  /\ pc[r] \in {"put session", "undo cookies"} => stored.session = saved[r].session
  /\ pc[r] = "undo session" /\ faults <= 1 => stored.cookies = saved[r].cookies
  /\ pc[r] = "rollback" /\ faults <= 1 /\ saved[r] # None => stored = saved[r]

ExporterInv(x) ==
  /\ pc[x] \in Exporting => mine[x] \in 1 .. Len(engines) /\ (~closed => mine[x] = engine)
  /\ pc[x] = "keep" => picked[x] \in Cookies /\ engines[mine[x]].jar = picked[x]

\* An engine that is closed, or that a Connect will still publish or close.
Over(e) ==
  \/ engines[e].link = "closed"
  \/ \E c \in Connectors : pc[c] \in {"dial", "publish"} /\ mine[c] = e

\* The closer that found the client open knows its last engine.
CloserInv(k) ==
  /\ pc[k] \in {"new", "noop"} \cup Closing
  /\ pc[k] # "new" => closed
  /\ pc[k] \in Closing => \A e \in DOMAIN engines : e > mine[k] => Over(e)
  /\ pc[k] \in {"wait", "end"} /\ mine[k] # 0 => engines[mine[k]].link = "closed"
  /\ pc[k] = "end" => connectMu = Free

\* Every engine but the client's is over, and the client's is up until its link drops.
LastInv ==
  ~closed =>
    /\ \A e \in DOMAIN engines : e > engine => Over(e)
    /\ engine # 0 /\ drops = 0 => engines[engine].link = "up"

\* Unless a refresh is on its way to store them, the live cookies are those of a reconnect.
LiveInv ==
  faults = 0 /\ engine # 0 /\ (\A r \in Refreshers : pc[r] \notin Changed)
    => engines[engine].jar = Reconnect

\* Before the first engine there may be credentials, afterwards there are cookies.
LoginInv == source = "credentials" => engine = 0

IInv ==
  /\ TypeInv /\ LockInv /\ ClosedHoldsNothing /\ LoginInv /\ LastInv /\ LiveInv
  /\ \A c \in Connectors : ConnectorInv(c)
  /\ \A r \in Refreshers : RefresherInv(r)
  /\ \A x \in Exporters : ExporterInv(x)
  /\ \A k \in Closers : CloserInv(k)

-----------------------------------------------------------------------------
(* What the elementary changes do *)

Links == {"dialling", "up", "down", "closed"}
Engines == [link : Links, jar : Cookies]

\* A thread goes to its next place.
LEMMA GotoFacts ==
  ASSUME pc \in [Threads -> Labels], NEW t \in Threads, NEW label \in Labels, Goto(t, label)
  PROVE  /\ pc' \in [Threads -> Labels] /\ pc'[t] = label
         /\ \A u \in Threads \ {t} : pc'[u] = pc[u]
BY DEF Goto

\* An engine's link changes and its jar does not.
LEMMA SetLinkFacts ==
  ASSUME engines \in Seq(Engines), NEW e \in DOMAIN engines, NEW link \in Links, SetLink(e, link)
  PROVE  /\ engines' \in Seq(Engines) /\ Len(engines') = Len(engines)
         /\ engines'[e].link = link /\ \A f \in DOMAIN engines : engines'[f].jar = engines[f].jar
         /\ \A f \in DOMAIN engines \ {e} : engines'[f] = engines[f]
<1> DEFINE r == [engines[e] EXCEPT !.link = link]
<1>1. engines[e] \in Engines /\ e \in 1 .. Len(engines)
  OBVIOUS
<1>2. r \in Engines /\ r.link = link /\ r.jar = engines[e].jar
  BY <1>1 DEF Engines
<1>3. engines' = [engines EXCEPT ![e] = r]
  BY Zenon DEF SetLink
<1> HIDE DEF r
<1>4. engines' \in Seq(Engines) /\ Len(engines') = Len(engines)
  BY <1>2, <1>3
<1>5. engines'[e] = r /\ \A f \in DOMAIN engines \ {e} : engines'[f] = engines[f]
  BY <1>3
<1> QED BY <1>2, <1>4, <1>5

\* An engine's jar changes and its link does not.
LEMMA SetJarFacts ==
  ASSUME engines \in Seq(Engines), NEW e \in DOMAIN engines, NEW jar \in Cookies, SetJar(e, jar)
  PROVE  /\ engines' \in Seq(Engines) /\ Len(engines') = Len(engines)
         /\ engines'[e].jar = jar /\ \A f \in DOMAIN engines : engines'[f].link = engines[f].link
         /\ \A f \in DOMAIN engines \ {e} : engines'[f] = engines[f]
<1> DEFINE r == [engines[e] EXCEPT !.jar = jar]
<1>1. engines[e] \in Engines /\ e \in 1 .. Len(engines)
  OBVIOUS
<1>2. r \in Engines /\ r.jar = jar /\ r.link = engines[e].link
  BY <1>1 DEF Engines
<1>3. engines' = [engines EXCEPT ![e] = r]
  BY Zenon DEF SetJar
<1> HIDE DEF r
<1>4. engines' \in Seq(Engines) /\ Len(engines') = Len(engines)
  BY <1>2, <1>3
<1>5. engines'[e] = r /\ \A f \in DOMAIN engines \ {e} : engines'[f] = engines[f]
  BY <1>3
<1> QED BY <1>2, <1>4, <1>5

-----------------------------------------------------------------------------
(* One operation at a time *)

\* A step of the operation of t, which holds connectMu from its first step to its last.
Turn(t) ==
  /\ pc[t] \in Working \/ (pc[t] = "new" /\ connectMu = Free)
  /\ pc' \in [Threads -> Labels] /\ \A u \in Threads \ {t} : pc'[u] = pc[u]
  /\ pc'[t] \in Working \cup {"end", "refused", "failed", "done"}
  /\ connectMu' = IF pc'[t] \in Working THEN t ELSE Free
  /\ closed' = closed
  /\ closed /\ connectMu = Free => connectMu' = Free

\* An engine that is over stays over, and one that is created is t's to publish.
OverStays ==
  /\ DOMAIN engines \subseteq DOMAIN engines'
  /\ \A e \in DOMAIN engines : engines[e].link = "closed" => engines'[e].link = "closed"
  /\ \A e \in DOMAIN engines' : (e \in DOMAIN engines => Over(e)) => Over(e)'

\* Nobody else is at work.
LEMMA Alone ==
  ASSUME IInv, NEW t \in Threads \ Closers, Turn(t)
  PROVE  /\ LockInv'
         /\ \A u \in Threads \ {t} : pc[u] \notin Working /\ pc'[u] \notin Working
<1>1. connectMu \in {t, Free} /\ Free \notin Threads
  BY ClientAssumption DEF IInv, LockInv, Turn
<1>2. \A u \in Threads \ {t} : pc[u] \notin Working /\ pc'[u] \notin Working
  BY <1>1 DEF IInv, LockInv, Turn
<1>3. LockInv'
  BY <1>1, <1>2 DEF LockInv, Turn
<1> QED BY <1>2, <1>3

LEMMA TurnTypes ==
  ASSUME NEW t \in Threads \ Closers, Turn(t)
  PROVE  DOMAIN pc' = Threads /\ connectMu' \in (Threads \ Closers) \cup {Free}
<1>1. DOMAIN pc' = Threads
  BY DEF Turn
<1>2. connectMu' \in {t, Free}
  BY DEF Turn
<1> QED BY <1>1, <1>2

\* What is left to show of such a step: the types, what it says of its own thread, and of
\* the engines.
LEMMA TurnKeeps ==
  ASSUME IInv, NEW t \in Threads \ Closers, Turn(t),
         TypeOK', ClosedHoldsNothing', LoginInv', LastInv', LiveInv',
         closed => OverStays,
         t \in Connectors => ConnectorInv(t)',
         t \in Refreshers => RefresherInv(t)',
         t \in Exporters => ExporterInv(t)',
         \A u \in Threads \ {t} : mine'[u] = mine[u],
         \A u \in Refreshers \ {t} : saved'[u] = saved[u]
  PROVE  IInv'
<1>1. /\ LockInv'
      /\ \A u \in Threads \ {t} : pc'[u] = pc[u] /\ pc[u] \notin Working
  BY Alone DEF Turn
<1>2. TypeInv'
  BY DEF Turn, TypeInv
<1>3. \A c \in Connectors : ConnectorInv(c)'
  <2> SUFFICES ASSUME NEW c \in Connectors \ {t} PROVE ConnectorInv(c)'
    OBVIOUS
  <2>1. pc'[c] \notin Working
    BY <1>1 DEF Threads
  <2> QED BY <2>1 DEF ConnectorInv, Working, Connecting
<1>4. \A r \in Refreshers : RefresherInv(r)'
  <2> SUFFICES ASSUME NEW r \in Refreshers \ {t} PROVE RefresherInv(r)'
    OBVIOUS
  <2>1. pc'[r] \notin Working /\ pc'[r] = pc[r]
    BY <1>1 DEF Threads
  <2>2. pc[r] = "new" => saved'[r] = None
    BY DEF IInv, RefresherInv
  <2> QED BY <2>1, <2>2 DEF RefresherInv, Working, Refreshing, Changed, Undoing
<1>5. \A x \in Exporters : ExporterInv(x)'
  <2> SUFFICES ASSUME NEW x \in Exporters \ {t} PROVE ExporterInv(x)'
    OBVIOUS
  <2>1. pc'[x] \notin Working
    BY <1>1 DEF Threads
  <2> QED BY <2>1 DEF ExporterInv, Working, Exporting
<1>6. \A k \in Closers : CloserInv(k)'
  <2> SUFFICES ASSUME NEW k \in Closers PROVE CloserInv(k)'
    OBVIOUS
  <2>1. CloserInv(k) /\ k # t /\ pc'[k] = pc[k] /\ mine'[k] = mine[k]
    BY <1>1 DEF IInv, Threads
  <2>c. pc[k] # "new" => OverStays
    BY <2>1 DEF CloserInv
  <2>2. pc[k] \in Closing => \A e \in DOMAIN engines' : e > mine[k] => Over(e)'
    BY <2>1, <2>c DEF CloserInv, OverStays, Closing
  <2>3. mine[k] # 0 => mine[k] \in DOMAIN engines
    BY DEF IInv, TypeInv, TypeOK, Threads
  <2>4. pc[k] = "end" => connectMu' = Free
    BY <2>1 DEF CloserInv, Turn
  <2> QED BY <2>1, <2>2, <2>3, <2>4, <2>c DEF CloserInv, Turn, OverStays
<1> QED BY <1>1, <1>2, <1>3, <1>4, <1>5, <1>6 DEF IInv

\* The three ways a turn goes: on, to its end, and from its beginning.
LEMMA TurnGoes ==
  ASSUME IInv, NEW t \in Threads \ Closers, pc[t] \in Working,
         NEW label \in Working, Goto(t, label), UNCHANGED <<connectMu, closed>>
  PROVE  Turn(t) /\ pc'[t] = label
<1>1. connectMu = t /\ t # Free
  BY ClientAssumption DEF IInv, LockInv
<1>2. pc' \in [Threads -> Labels] /\ pc'[t] = label /\ \A u \in Threads \ {t} : pc'[u] = pc[u]
  BY GotoFacts DEF IInv, TypeInv, Labels
<1> QED BY <1>1, <1>2 DEF Turn

LEMMA TurnEnds ==
  ASSUME IInv, NEW t \in Threads \ Closers, pc[t] \in Working,
         NEW label \in {"end", "refused", "failed", "done"}, Leave(t, label), closed' = closed
  PROVE  Turn(t) /\ pc'[t] = label
<1>1. connectMu = t /\ t # Free /\ label \notin Working /\ label \in Labels
  BY ClientAssumption DEF IInv, LockInv, Working, Connecting, Refreshing, Changed, Undoing, Exporting,
     Labels, Closing
<1>2. pc' \in [Threads -> Labels] /\ pc'[t] = label /\ \A u \in Threads \ {t} : pc'[u] = pc[u]
  BY <1>1, GotoFacts DEF IInv, TypeInv, Leave
<1> QED BY <1>1, <1>2 DEF Turn, Leave

LEMMA TurnBegins ==
  ASSUME IInv, NEW t \in Threads \ Closers, pc[t] = "new", connectMu = Free, closed' = closed,
         NEW label, Goto(t, label),
         \/ label \in {"end", "refused"} /\ connectMu' = Free
         \/ label \in {"resolve", "read", "export"} /\ connectMu' = t /\ ~closed
  PROVE  Turn(t) /\ pc'[t] = label
<1>1. /\ label \in Labels /\ label \in Working \cup {"end", "refused"}
      /\ connectMu' = IF label \in Working THEN t ELSE Free
  BY DEF Working, Connecting, Refreshing, Changed, Undoing, Exporting, Labels, Closing
<1>2. pc' \in [Threads -> Labels] /\ pc'[t] = label /\ \A u \in Threads \ {t} : pc'[u] = pc[u]
  BY <1>1, GotoFacts DEF IInv, TypeInv
<1> QED BY <1>1, <1>2 DEF Turn

\* What a thread's place says of the operations it is not in.
LEMMA Elsewhere ==
  ASSUME NEW t
  PROVE  /\ pc'[t] \in Connecting \cup {"end"} => RefresherInv(t)' /\ ExporterInv(t)'
         /\ pc'[t] \in Refreshing \cup {"refused", "failed", "done"} => ConnectorInv(t)' /\ ExporterInv(t)'
         /\ pc'[t] \in Exporting \cup {"end"} => ConnectorInv(t)' /\ RefresherInv(t)'
BY DEF Connecting, Refreshing, Changed, Undoing, Exporting, ConnectorInv, RefresherInv, ExporterInv

\* A step that changes nothing others look at.
Locals(t) ==
  /\ mine' \in [Threads -> 0 .. Len(engines)] /\ persists' \in [Threads -> BOOLEAN]
  /\ picked' \in [Threads -> Cookies \cup {None}]
  /\ previous' \in [Refreshers -> Cookies \cup {None}]
  /\ saved' \in [Refreshers -> Secrets \cup {None}]
  /\ faults' \in 0 .. MaxFaults /\ faults' >= faults
  /\ \A u \in Threads \ {t} : mine'[u] = mine[u]
  /\ \A u \in Refreshers \ {t} : saved'[u] = saved[u]

LEMMA LocalKeeps ==
  ASSUME IInv, NEW t \in Threads \ Closers, Turn(t), Locals(t),
         UNCHANGED <<client, engines, stored, drops>>,
         pc[t] \notin {"dial", "publish"}, pc'[t] \notin {"dial", "publish"},
         pc[t] \in Changed => pc'[t] \in Changed \/ faults' > 0 \/ closed,
         t \in Connectors => ConnectorInv(t)',
         t \in Refreshers => RefresherInv(t)',
         t \in Exporters => ExporterInv(t)'
  PROVE  IInv'
<1>1. UNCHANGED <<closed, engine, cookies, source, profile, engines, stored, drops>>
  BY DEF client
<1>2. TypeOK'
  <2>1. connectMu' \in (Threads \ Closers) \cup {Free}
    BY DEF Turn
  <2>2. DOMAIN pc' = Threads
    BY DEF Turn
  <2> QED BY <1>1, <2>1, <2>2 DEF IInv, TypeInv, TypeOK, Locals, Secrets
<1>3. ClosedHoldsNothing' /\ LoginInv'
  BY <1>1 DEF IInv, ClosedHoldsNothing, LoginInv
<1>4. \A e : Over(e) => Over(e)'
  <2> SUFFICES ASSUME NEW e, NEW c \in Connectors, pc[c] \in {"dial", "publish"}, mine[c] = e
               PROVE  pc'[c] \in {"dial", "publish"} /\ mine'[c] = e
    BY <1>1 DEF Over
  <2>1. c \in Threads \ {t}
    BY DEF Threads
  <2> QED BY <2>1 DEF Turn, Locals
<1>5. OverStays
  BY <1>1, <1>4 DEF OverStays
<1>6. LastInv'
  BY <1>1, <1>4 DEF IInv, LastInv
<1>7. LiveInv'
  <2>1. /\ faults' = 0 => faults = 0
        /\ closed => engine' = 0
    BY <1>1 DEF Locals, IInv, TypeInv, TypeOK, ClosedHoldsNothing
  <2>2. ~closed /\ faults' = 0 /\ (\A r \in Refreshers : pc'[r] \notin Changed) => \A r \in Refreshers : pc[r] \notin Changed
    BY DEF Turn, Threads
  <2>3. Reconnect' = Reconnect
    BY <1>1 DEF Reconnect
  <2> QED BY <1>1, <2>1, <2>2, <2>3 DEF IInv, LiveInv
<1> QED BY <1>2, <1>3, <1>5, <1>6, <1>7, TurnKeeps DEF Locals

-----------------------------------------------------------------------------
(* Connect *)

LEMMA Callers == (Connectors \cup Refreshers \cup Exporters) = Threads \ Closers
BY ClientAssumption DEF Threads

\* The threads' own values keep their types when only faults grows.
LEMMA LocalsUnchanged ==
  ASSUME IInv, NEW t, UNCHANGED locals, faults' = faults \/ StoreFails
  PROVE  Locals(t) /\ faults' >= faults /\ (faults' # faults => faults' > 0)
BY ClientAssumption DEF IInv, TypeInv, TypeOK, Locals, locals, StoreFails, Secrets

LEMMA ConnectBeginKeeps ==
  ASSUME IInv, NEW c \in Connectors, ConnectBegin(c)
  PROVE  IInv'
<1>1. c \in Threads \ Closers
  BY Callers
<1>2. Turn(c) /\ pc'[c] \in {"end", "resolve"} /\ pc[c] = "new"
  <2>1. pc[c] = "new" /\ connectMu = Free /\ closed' = closed
    BY DEF ConnectBegin, client
  <2>2. CASE closed \/ Connected(engine)
    BY <1>1, <2>1, <2>2, TurnBegins DEF ConnectBegin
  <2>3. CASE ~(closed \/ Connected(engine))
    BY <1>1, <2>1, <2>3, TurnBegins DEF ConnectBegin
  <2> QED BY <2>2, <2>3
<1>3. Locals(c)
  <2>1. TypeOK /\ UNCHANGED <<mine, picked, previous, saved, faults>>
    BY DEF ConnectBegin, IInv, TypeInv
  <2>2. persists' \in [Threads -> BOOLEAN]
    BY <2>1 DEF ConnectBegin, TypeOK
  <2> QED BY <2>1, <2>2, ClientAssumption DEF TypeOK, Locals, Secrets
<1>4. ConnectorInv(c)' /\ RefresherInv(c)' /\ ExporterInv(c)'
  <2>1. ConnectorInv(c)'
    BY <1>2 DEF ConnectorInv
  <2> QED BY <1>2, <2>1, Elsewhere DEF Connecting
<1>5. UNCHANGED <<client, engines, stored, drops>>
  BY DEF ConnectBegin
<1> QED BY <1>1, <1>2, <1>3, <1>4, <1>5, LocalKeeps DEF Changed, Undoing

\* resolveAuth picks what a reconnect would use.
LEMMA ResolveCookiesKeeps ==
  ASSUME IInv, NEW c \in Connectors, ResolveCookies(c)
  PROVE  IInv'
<1>1. c \in Threads \ Closers /\ pc[c] = "resolve" /\ pc[c] \in Working \ Changed
  BY Callers DEF ResolveCookies, Working, Connecting, Changed, Undoing
<1>2. UNCHANGED <<client, engines, stored, drops>> /\ UNCHANGED <<closed, cookies, source>>
  BY DEF ResolveCookies, client
<1>types. TypeOK /\ ClosedHoldsNothing
  BY DEF IInv, TypeInv
<1>3. CASE /\ source = "cookies" \/ (persists[c] /\ stored.cookies # None)
           /\ picked' = [picked EXCEPT ![c] = IF source = "cookies" THEN cookies ELSE stored.cookies]
           /\ Goto(c, "create") /\ UNCHANGED <<connectMu, faults>>
  <2> DEFINE choice == IF source = "cookies" THEN cookies ELSE stored.cookies
  <2>1. choice \in Cookies
    <3>1. CASE source = "cookies"
      BY <1>types, <3>1 DEF TypeOK
    <3>2. CASE source # "cookies"
      BY <1>3, <1>types, <3>2 DEF TypeOK, Secrets
    <3> QED BY <3>1, <3>2
  <2>2. ~closed => choice = Reconnect
    BY <1>types DEF TypeOK, ResolveCookies, Reconnect
  <2> HIDE DEF choice
  <2>3. picked' = [picked EXCEPT ![c] = choice]
    BY <1>3 DEF choice
  <2>4. picked' \in [Threads -> Cookies \cup {None}] /\ picked'[c] = choice
    BY <1>1, <1>types, <2>1, <2>3 DEF TypeOK
  <2>5. Turn(c) /\ pc'[c] = "create"
    BY <1>1, <1>2, <1>3, TurnGoes DEF Working, Connecting
  <2>6. Locals(c)
    BY <1>3, <1>types, <2>4, ClientAssumption DEF TypeOK, Locals, Secrets, ResolveCookies
  <2>7. Reconnect' = Reconnect
    BY <1>2 DEF Reconnect
  <2>8. ConnectorInv(c)'
    BY <1>2, <2>1, <2>2, <2>4, <2>5, <2>7 DEF ConnectorInv
  <2> QED BY <1>1, <1>2, <2>5, <2>6, <2>8, Elsewhere, LocalKeeps DEF Connecting
<1>4. CASE /\ \/ (~persists[c] \/ stored.cookies = None) /\ UNCHANGED faults
              \/ persists[c] /\ StoreFails
           /\ ConnectReturns(c) /\ UNCHANGED picked
  <2>1. Turn(c) /\ pc'[c] = "end"
    BY <1>1, <1>2, <1>4, TurnEnds DEF ConnectReturns
  <2>2. Locals(c)
    BY <1>4, LocalsUnchanged DEF ResolveCookies, locals
  <2>3. ConnectorInv(c)'
    BY <2>1 DEF ConnectorInv
  <2> QED BY <1>1, <1>2, <2>1, <2>2, <2>3, Elsewhere, LocalKeeps
<1> QED BY <1>3, <1>4 DEF ResolveCookies

LEMMA LoginKeeps ==
  ASSUME IInv, NEW c \in Connectors, Login(c)
  PROVE  IInv'
<1>1. c \in Threads \ Closers /\ pc[c] = "resolve" /\ pc[c] \in Working \ Changed
  BY Callers DEF Login, Working, Connecting, Changed, Undoing
<1>2. UNCHANGED <<client, engines, stored, locals, drops>> /\ closed' = closed
  BY DEF Login, client
<1>3. Locals(c)
  BY <1>2, LocalsUnchanged DEF Login
<1>4. Turn(c) /\ pc'[c] \in {"login", "end"}
  <2>1. CASE Goto(c, "login") /\ UNCHANGED <<connectMu, faults>>
    BY <1>1, <1>2, <2>1, TurnGoes DEF Working, Connecting
  <2>2. CASE StoreFails /\ ConnectReturns(c)
    BY <1>1, <1>2, <2>2, TurnEnds DEF ConnectReturns
  <2> QED BY <2>1, <2>2 DEF Login
<1>5. ConnectorInv(c)'
  BY <1>2, <1>4 DEF ConnectorInv, Login, IInv, LoginInv, client
<1> QED BY <1>1, <1>2, <1>3, <1>4, <1>5, Elsewhere, LocalKeeps DEF Connecting

LEMMA KeepLoginKeeps ==
  ASSUME IInv, NEW c \in Connectors, KeepLogin(c)
  PROVE  IInv'
<1>1. c \in Threads \ Closers /\ pc[c] = "login" /\ pc[c] \in Working \ Changed
  BY Callers DEF KeepLogin, Working, Connecting, Changed, Undoing
<1>types. TypeOK /\ ClosedHoldsNothing /\ engine = 0
  BY <1>1 DEF IInv, TypeInv, ConnectorInv
<1>2. UNCHANGED <<closed, engine, profile, engines, stored, mine, persists, previous, saved, faults, drops>>
  BY DEF KeepLogin
<1>3. CASE closed
  <2>1. UNCHANGED <<cookies, source, picked>> /\ ConnectReturns(c)
    BY <1>3 DEF KeepLogin, ClosedMeanwhile
  <2>2. Turn(c) /\ pc'[c] = "end"
    BY <1>1, <1>2, <2>1, TurnEnds DEF ConnectReturns
  <2>3. Locals(c)
    BY <1>2, <2>1, LocalsUnchanged DEF locals
  <2>4. ConnectorInv(c)'
    BY <2>2 DEF ConnectorInv
  <2> QED BY <1>1, <1>2, <2>1, <2>2, <2>3, <2>4, Elsewhere, LocalKeeps DEF client
<1>4. CASE ~closed
  <2>1. /\ cookies' = "first" /\ source' = "cookies"
        /\ picked' = [picked EXCEPT ![c] = "first"]
        /\ Goto(c, "create") /\ UNCHANGED connectMu
    BY <1>4 DEF KeepLogin, ClosedMeanwhile
  <2>2. Turn(c) /\ pc'[c] = "create"
    BY <1>1, <1>2, <2>1, TurnGoes DEF Working, Connecting
  <2>3. "first" \in Cookies /\ "first" # None
    BY ClientAssumption DEF Cookies
  <2>4. picked' \in [Threads -> Cookies \cup {None}] /\ picked'[c] = "first"
    BY <1>1, <1>types, <2>1, <2>3 DEF TypeOK
  <2>5. TypeOK'
    <3>1. DOMAIN pc' = Threads /\ connectMu' \in (Threads \ Closers) \cup {Free}
      BY <1>1, <2>2, TurnTypes
    <3> QED BY <1>2, <1>types, <2>1, <2>3, <2>4, <3>1 DEF TypeOK
  <2>6. ClosedHoldsNothing' /\ LoginInv' /\ LiveInv'
    BY <1>2, <1>4, <1>types, <2>1 DEF ClosedHoldsNothing, LoginInv, LiveInv
  <2>7. \A e : Over(e) => Over(e)'
    <3> SUFFICES ASSUME NEW e, NEW d \in Connectors, pc[d] \in {"dial", "publish"}, mine[d] = e
                 PROVE  pc'[d] \in {"dial", "publish"} /\ mine'[d] = e
      BY <1>2 DEF Over
    <3>1. d \in Threads \ {c}
      BY <1>1 DEF Threads
    <3> QED BY <1>2, <2>2, <3>1 DEF Turn
  <2>8. LastInv' /\ OverStays
    BY <1>2, <2>7 DEF IInv, LastInv, OverStays
  <2>9. ConnectorInv(c)'
    BY <2>1, <2>2, <2>3, <2>4 DEF ConnectorInv, Reconnect
  <2> QED BY <1>1, <1>2, <2>2, <2>5, <2>6, <2>8, <2>9, Elsewhere, TurnKeeps DEF Connecting
<1> QED BY <1>3, <1>4

\* A new engine is the newest of all.
LEMMA CreateEngineKeeps ==
  ASSUME IInv, NEW c \in Connectors, CreateEngine(c)
  PROVE  IInv'
<1>1. c \in Threads \ Closers /\ pc[c] = "create" /\ pc[c] \in Working \ Changed
  BY Callers DEF CreateEngine, Working, Connecting, Changed, Undoing
<1>types. TypeOK /\ ClosedHoldsNothing /\ ConnectorInv(c)
  BY DEF IInv, TypeInv
<1>2. UNCHANGED <<client, stored, persists, picked, previous, saved, drops>>
  BY DEF CreateEngine
<1>3. CASE StoreFails /\ ConnectReturns(c) /\ UNCHANGED <<engines, mine>>
  <2>1. Turn(c) /\ pc'[c] = "end"
    BY <1>1, <1>2, <1>3, TurnEnds DEF ConnectReturns, client
  <2>2. Locals(c)
    BY <1>2, <1>3, LocalsUnchanged DEF locals
  <2>3. ConnectorInv(c)'
    BY <2>1 DEF ConnectorInv
  <2> QED BY <1>1, <1>2, <1>3, <2>1, <2>2, <2>3, Elsewhere, LocalKeeps
<1>4. CASE /\ engines' = Append(engines, [link |-> "dialling", jar |-> picked[c]])
           /\ mine' = [mine EXCEPT ![c] = Len(engines')]
           /\ Goto(c, "dial") /\ UNCHANGED <<connectMu, faults>>
  <2> DEFINE new == [link |-> "dialling", jar |-> picked[c]]
  <2>1. new \in Engines /\ new.jar = picked[c] /\ new.link = "dialling" /\ engines \in Seq(Engines)
    BY <1>1, <1>types DEF ConnectorInv, Engines, Links, TypeOK
  <2>2. engines' = Append(engines, new)
    BY <1>4
  <2> HIDE DEF new
  <2>3. /\ engines' \in Seq(Engines) /\ Len(engines') = Len(engines) + 1
        /\ engines'[Len(engines')].jar = picked[c] /\ engines'[Len(engines')].link = "dialling"
        /\ \A e \in DOMAIN engines : engines'[e] = engines[e]
        /\ DOMAIN engines' = DOMAIN engines \cup {Len(engines')} /\ Len(engines) \in Nat
    BY <2>1, <2>2
  <2>4. mine' \in [Threads -> 0 .. Len(engines')] /\ mine'[c] = Len(engines')
        /\ \A u \in Threads \ {c} : mine'[u] = mine[u]
    BY <1>1, <1>4, <1>types, <2>3 DEF TypeOK
  <2>5. Turn(c) /\ pc'[c] = "dial"
    BY <1>1, <1>2, <1>4, TurnGoes DEF Working, Connecting, client
  <2>6. TypeOK'
    <3>1. DOMAIN pc' = Threads /\ connectMu' \in (Threads \ Closers) \cup {Free}
      BY <1>1, <2>5, TurnTypes
    <3>2. engine' \in 0 .. Len(engines')
      BY <1>2, <1>types, <2>3 DEF TypeOK, client
    <3>3. UNCHANGED <<closed, cookies, source, profile, stored, persists, picked, previous, saved, faults, drops>>
      BY <1>2, <1>4 DEF client
    <3> QED BY <1>types, <2>3, <2>4, <3>1, <3>2, <3>3 DEF TypeOK, Engines, Links
  <2>7. \A e \in DOMAIN engines : Over(e) => Over(e)'
    <3>1. \A d \in Connectors : pc[d] \in {"dial", "publish"} => pc'[d] = pc[d] /\ mine'[d] = mine[d]
      BY <1>1, <2>4, <2>5 DEF Turn, Threads
    <3> QED BY <2>3, <3>1 DEF Over
  <2>8. ASSUME NEW e \in DOMAIN engines', e \notin DOMAIN engines
        PROVE  Over(e)'
    <3>1. e = mine'[c] /\ pc'[c] \in {"dial", "publish"}
      BY <2>3, <2>4, <2>5, <2>8
    <3> QED BY <3>1 DEF Over
  <2>9. OverStays
    <3>1. \A e \in DOMAIN engines' : (e \in DOMAIN engines => Over(e)) => Over(e)'
      BY <2>7, <2>8
    <3> QED BY <2>3, <3>1 DEF OverStays
  <2>10. engine # 0 => engine \in DOMAIN engines
    BY <1>types DEF TypeOK
  <2>11. LastInv'
    <3>1. UNCHANGED <<closed, engine, drops>> /\ LastInv
      BY <1>2 DEF IInv, client
    <3>2. ~closed => \A e \in DOMAIN engines' : e > engine => Over(e)'
      BY <2>9, <3>1 DEF LastInv, OverStays
    <3>3. ~closed /\ engine # 0 /\ drops = 0 => engines'[engine].link = "up"
      BY <2>3, <2>10, <3>1 DEF LastInv
    <3> QED BY <3>1, <3>2, <3>3 DEF LastInv
  <2>12. ClosedHoldsNothing' /\ LoginInv'
    BY <1>2 DEF IInv, ClosedHoldsNothing, LoginInv, client
  <2>13. LiveInv'
    <3>1. (\A r \in Refreshers : pc'[r] \notin Changed) => \A r \in Refreshers : pc[r] \notin Changed
      BY <1>1, <2>5 DEF Turn, Threads
    <3>2. UNCHANGED <<engine, source, cookies, stored, faults>>
      BY <1>2, <1>4 DEF client
    <3>3. LiveInv /\ (engine # 0 => engines'[engine] = engines[engine])
      BY <2>3, <2>10 DEF IInv
    <3> QED BY <3>1, <3>2, <3>3 DEF LiveInv, Reconnect
  <2>14. ConnectorInv(c)'
    <3>1. engine' < mine'[c] /\ \A k \in Closers : mine'[k] < mine'[c]
      <4>1. \A k \in Closers : mine'[k] = mine[k] /\ mine[k] \in 0 .. Len(engines)
        BY <1>1, <1>types, <2>4 DEF TypeOK, Threads
      <4> QED BY <1>2, <1>types, <2>3, <2>4, <4>1 DEF TypeOK, client
    <3> QED BY <1>1, <1>2, <1>types, <2>3, <2>4, <2>5, <3>1 DEF ConnectorInv, Reconnect, client
  <2> QED BY <1>1, <1>2, <2>4, <2>5, <2>6, <2>9, <2>11, <2>12, <2>13, <2>14, Elsewhere, TurnKeeps
          DEF Connecting
<1> QED BY <1>3, <1>4 DEF CreateEngine

LEMMA DialEngineKeeps ==
  ASSUME IInv, NEW c \in Connectors, DialEngine(c)
  PROVE  IInv'
<1>1. c \in Threads \ Closers /\ pc[c] = "dial" /\ pc[c] \in Working \ Changed
  BY Callers DEF DialEngine, Working, Connecting, Changed, Undoing
<1>types. TypeOK /\ ClosedHoldsNothing /\ ConnectorInv(c)
  BY DEF IInv, TypeInv
<1>2. /\ UNCHANGED <<client, stored, locals, drops>> /\ UNCHANGED <<closed, engine, cookies, source, profile>>
      /\ UNCHANGED <<mine, persists, picked, previous, saved>>
  BY DEF DialEngine, client, locals
<1>3. /\ engines \in Seq(Engines) /\ mine[c] = Len(engines) /\ engine < mine[c]
      /\ mine[c] \in DOMAIN engines /\ engine # mine[c]
  <2>1. engines \in Seq(Engines) /\ mine[c] = Len(engines) /\ engine < mine[c] /\ engine \in 0 .. Len(engines)
    BY <1>1, <1>types DEF TypeOK, Engines, Links, ConnectorInv
  <2> QED BY <2>1
<1>4. \A e \in DOMAIN engines : e # mine[c] /\ Over(e) => engines[e].link = "closed"
  <2>1. \A d \in Connectors \ {c} : pc[d] \notin {"dial", "publish"}
    <3> SUFFICES ASSUME NEW d \in Connectors \ {c}, pc[d] \in {"dial", "publish"} PROVE FALSE
      OBVIOUS
    <3>1. d \in Threads /\ pc[d] \in Working
      BY DEF Threads, Working, Connecting
    <3> QED BY <1>1, <3>1 DEF IInv, LockInv
  <2> QED BY <2>1 DEF Over
\* Either outcome, seen from the engines and the client.
<1>5. ASSUME NEW link \in Links, SetLink(mine[c], link), faults' = faults \/ StoreFails, Turn(c),
             link = "closed" \/ pc'[c] = "publish",
             ConnectorInv(c)', RefresherInv(c)', ExporterInv(c)'
      PROVE  IInv'
  <2>1. /\ engines' \in Seq(Engines) /\ Len(engines') = Len(engines)
        /\ engines'[mine[c]].link = link /\ \A f \in DOMAIN engines : engines'[f].jar = engines[f].jar
        /\ \A f \in DOMAIN engines \ {mine[c]} : engines'[f] = engines[f]
    BY <1>3, <1>5, SetLinkFacts
  <2>2. DOMAIN engines' = DOMAIN engines
    BY <1>3, <2>1
  <2>3. TypeOK'
    <3>1. DOMAIN pc' = Threads /\ connectMu' \in (Threads \ Closers) \cup {Free}
      BY <1>1, <1>5, TurnTypes
    <3>2. faults' \in 0 .. MaxFaults /\ drops' = drops
      BY <1>2, <1>5, <1>types, ClientAssumption DEF TypeOK, StoreFails
    <3> QED BY <1>2, <1>types, <2>1, <3>1, <3>2 DEF TypeOK, Engines, Links
  <2>4. ASSUME NEW e \in DOMAIN engines, Over(e) PROVE Over(e)'
    <3>1. CASE e # mine[c]
      <4>1. engines'[e].link = "closed"
        BY <1>4, <2>1, <2>4, <3>1
      <4> QED BY <4>1 DEF Over
    <3>2. CASE e = mine[c]
      BY <1>2, <1>5, <2>1, <3>2 DEF Over
    <3> QED BY <3>1, <3>2
  <2>5. OverStays
    <3>1. engines[mine[c]].link # "closed"
      BY <1>1, <1>types DEF ConnectorInv
    <3>2. \A e \in DOMAIN engines : engines[e].link = "closed" => engines'[e].link = "closed"
      BY <2>1, <3>1
    <3> QED BY <2>2, <2>4, <3>2 DEF OverStays
  <2>6. engine # 0 => engine \in DOMAIN engines \ {mine[c]}
    BY <1>3, <1>types DEF TypeOK
  <2>7. LastInv'
    <3>1. ~closed => \A e \in DOMAIN engines' : e > engine => Over(e)'
      BY <2>2, <2>4 DEF IInv, LastInv
    <3>2. ~closed /\ engine # 0 /\ drops = 0 => engines'[engine].link = "up"
      BY <2>1, <2>6 DEF IInv, LastInv
    <3> QED BY <1>2, <3>1, <3>2 DEF LastInv
  <2>8. ClosedHoldsNothing' /\ LoginInv'
    BY <1>2 DEF IInv, ClosedHoldsNothing, LoginInv
  <2>9. LiveInv'
    <3>1. (\A r \in Refreshers : pc'[r] \notin Changed) => \A r \in Refreshers : pc[r] \notin Changed
      BY <1>1, <1>5 DEF Turn, Threads
    <3>2. faults' = 0 => faults = 0
      BY <1>5, <1>types DEF StoreFails, TypeOK
    <3>3. engine # 0 => engines'[engine].jar = engines[engine].jar
      BY <2>1, <2>6
    <3> QED BY <1>2, <3>1, <3>2, <3>3 DEF IInv, LiveInv, Reconnect
  <2> QED BY <1>1, <1>2, <1>5, <2>3, <2>5, <2>7, <2>8, <2>9, TurnKeeps
<1>6. CASE SetLink(mine[c], "up") /\ Goto(c, "publish") /\ UNCHANGED <<connectMu, faults>>
  <2>1. Turn(c) /\ pc'[c] = "publish"
    BY <1>1, <1>2, <1>6, TurnGoes DEF Working, Connecting
  <2>2. "up" \in Links
    BY DEF Links
  <2>3. engines'[mine[c]].link = "up" /\ engines'[mine[c]].jar = engines[mine[c]].jar /\ Len(engines') = Len(engines)
    BY <1>3, <1>6, <2>2, SetLinkFacts
  <2>4. ConnectorInv(c)'
    <3>1. \A k \in Closers : pc'[k] = pc[k]
      BY <1>1, <2>1 DEF Turn, Threads
    <3> QED BY <1>1, <1>2, <1>types, <2>1, <2>3, <3>1 DEF ConnectorInv, Reconnect
  <2> QED BY <1>5, <1>6, <2>1, <2>2, <2>4, Elsewhere DEF Connecting
<1>7. CASE NetworkFails /\ SetLink(mine[c], "closed") /\ ConnectReturns(c)
  <2>1. Turn(c) /\ pc'[c] = "end"
    BY <1>1, <1>2, <1>7, TurnEnds DEF ConnectReturns
  <2>2. "closed" \in Links /\ (faults' = faults \/ StoreFails)
    BY <1>7 DEF Links, NetworkFails
  <2>3. ConnectorInv(c)'
    BY <2>1 DEF ConnectorInv
  <2> QED BY <1>5, <1>7, <2>1, <2>2, <2>3, Elsewhere
<1> QED BY <1>6, <1>7 DEF DialEngine

\* The engine that becomes the client's is the newest one, with the cookies a reconnect would
\* use; a closed client's is closed instead.
LEMMA PublishEngineKeeps ==
  ASSUME IInv, NEW c \in Connectors, PublishEngine(c)
  PROVE  IInv'
<1>1. c \in Threads \ Closers /\ pc[c] = "publish" /\ pc[c] \in Working \ Changed
  BY Callers DEF PublishEngine, Working, Connecting, Changed, Undoing
<1>types. TypeOK /\ ClosedHoldsNothing /\ ConnectorInv(c)
  BY DEF IInv, TypeInv
<1>2. /\ UNCHANGED <<stored, faults, drops, closed, profile>>
      /\ UNCHANGED <<mine, persists, picked, previous, saved>>
  BY DEF PublishEngine, client, locals
<1>3. /\ engines \in Seq(Engines) /\ mine[c] = Len(engines) /\ engine < mine[c]
      /\ mine[c] \in DOMAIN engines /\ engine # mine[c]
      /\ engines[mine[c]].jar = picked[c] /\ picked[c] \in Cookies
      /\ DOMAIN engines = 1 .. Len(engines) /\ Len(engines) \in Nat
  <2>1. engines \in Seq(Engines) /\ mine[c] = Len(engines) /\ engine < mine[c] /\ engine \in 0 .. Len(engines)
    BY <1>1, <1>types DEF TypeOK, Engines, Links, ConnectorInv
  <2> QED BY <1>1, <1>types, <2>1 DEF ConnectorInv
<1>4. Turn(c) /\ pc'[c] = "end"
  BY <1>1, <1>2, TurnEnds DEF PublishEngine, ConnectReturns
<1>5. ConnectorInv(c)' /\ RefresherInv(c)' /\ ExporterInv(c)'
  <2>1. ConnectorInv(c)'
    BY <1>4 DEF ConnectorInv
  <2> QED BY <1>4, <2>1, Elsewhere
<1>6. DOMAIN pc' = Threads /\ connectMu' \in (Threads \ Closers) \cup {Free}
  BY <1>1, <1>4, TurnTypes
<1>7. CASE closed
  <2>1. SetLink(mine[c], "closed") /\ UNCHANGED <<engine, cookies, source>>
    BY <1>7 DEF PublishEngine, ClosedMeanwhile, client
  <2>2. /\ engines' \in Seq(Engines) /\ Len(engines') = Len(engines)
        /\ engines'[mine[c]].link = "closed"
        /\ \A f \in DOMAIN engines \ {mine[c]} : engines'[f] = engines[f]
    BY <1>3, <2>1, SetLinkFacts DEF Links
  <2>3. DOMAIN engines' = DOMAIN engines
    BY <1>3, <2>2
  <2>4. TypeOK'
    BY <1>2, <1>6, <1>types, <2>1, <2>2 DEF TypeOK, Engines, Links
  <2>5. ASSUME NEW e \in DOMAIN engines, Over(e) PROVE Over(e)'
    <3>1. CASE e = mine[c]
      BY <2>2, <3>1 DEF Over
    <3>2. CASE e # mine[c] /\ engines[e].link = "closed"
      BY <2>2, <3>2 DEF Over
    <3>3. CASE \E d \in Connectors : d # c /\ pc[d] \in {"dial", "publish"} /\ mine[d] = e
      BY <1>2, <1>4, <3>3 DEF Over, Turn, Threads
    <3> QED BY <2>5, <3>1, <3>2, <3>3 DEF Over
  <2>6. OverStays
    BY <2>2, <2>3, <2>5 DEF OverStays
  <2>7. ClosedHoldsNothing' /\ LoginInv' /\ LastInv' /\ LiveInv'
    BY <1>2, <1>7, <1>types, <2>1 DEF IInv, ClosedHoldsNothing, LoginInv, LastInv, LiveInv
  <2> QED BY <1>1, <1>2, <1>4, <1>5, <2>4, <2>6, <2>7, TurnKeeps
<1>8. CASE ~closed
  <2>1. /\ engine' = mine[c] /\ UNCHANGED engines
        /\ IF source = "none" THEN UNCHANGED <<cookies, source>>
                              ELSE cookies' = picked[c] /\ source' = "cookies"
    BY <1>8 DEF PublishEngine, ClosedMeanwhile
  <2>2. TypeOK'
    <3>1. cookies' \in Cookies \cup {None} /\ source' \in {"none", "cookies", "credentials"}
          /\ (source' = "cookies" <=> cookies' # None)
      BY <1>3, <1>types, <2>1, ClientAssumption DEF TypeOK
    <3>2. engine' \in 0 .. Len(engines') /\ engines' = engines
      BY <1>3, <2>1
    <3> QED BY <1>2, <1>6, <1>types, <3>1, <3>2 DEF TypeOK
  <2>3. LastInv'
    BY <1>1, <1>2, <1>3, <1>types, <2>1 DEF LastInv, ConnectorInv
  <2>4. LiveInv' /\ LoginInv'
    <3>1. picked[c] = Reconnect
      BY <1>1, <1>8, <1>types DEF ConnectorInv
    <3> QED BY <1>2, <1>3, <2>1, <3>1 DEF LiveInv, Reconnect, LoginInv
  <2>5. ClosedHoldsNothing'
    BY <1>2, <1>8 DEF ClosedHoldsNothing
  <2> QED BY <1>1, <1>2, <1>4, <1>5, <1>8, <2>2, <2>3, <2>4, <2>5, TurnKeeps
<1> QED BY <1>7, <1>8

-----------------------------------------------------------------------------
(* RefreshAuth *)

\* What a refresher's step must leave true of what it has read.
LEMMA RefreshBeginKeeps ==
  ASSUME IInv, NEW r \in Refreshers, RefreshBegin(r)
  PROVE  IInv'
<1>1. r \in Threads \ Closers /\ pc[r] = "new"
  BY Callers DEF RefreshBegin
<1>types. TypeOK /\ RefresherInv(r)
  BY DEF IInv, TypeInv
<1>2. UNCHANGED <<client, engines, stored, picked, previous, saved, faults, drops, closed, engine>>
  BY DEF RefreshBegin, client
<1>3. CASE closed \/ ~Connected(engine)
  <2>1. Turn(r) /\ pc'[r] = "refused"
    BY <1>1, <1>2, <1>3, TurnBegins DEF RefreshBegin
  <2>2. Locals(r)
    BY <1>2, <1>3, LocalsUnchanged DEF RefreshBegin, locals
  <2>3. RefresherInv(r)'
    BY <2>1 DEF RefresherInv, Refreshing, Changed, Undoing
  <2> QED BY <1>1, <1>2, <2>1, <2>2, <2>3, Elsewhere, LocalKeeps DEF Changed, Undoing
<1>4. CASE ~(closed \/ ~Connected(engine))
  <2>1. Turn(r) /\ pc'[r] = "read"
    BY <1>1, <1>2, <1>4, TurnBegins DEF RefreshBegin
  <2>2. engine \in 1 .. Len(engines)
    BY <1>4, <1>types DEF Connected, TypeOK
  <2>3. mine' = [mine EXCEPT ![r] = engine] /\ persists' = [persists EXCEPT ![r] = profile]
    BY <1>4 DEF RefreshBegin
  <2>4. Locals(r) /\ mine'[r] = engine
    BY <1>1, <1>2, <1>types, <2>2, <2>3, ClientAssumption DEF TypeOK, Locals, Secrets
  <2>5. RefresherInv(r)'
    BY <1>1, <1>2, <1>types, <2>1, <2>2, <2>4 DEF RefresherInv, Refreshing, Changed, Undoing
  <2> QED BY <1>1, <1>2, <2>1, <2>4, <2>5, Elsewhere, LocalKeeps DEF Refreshing, Changed, Undoing
<1> QED BY <1>3, <1>4

LEMMA RefreshReadKeeps ==
  ASSUME IInv, NEW r \in Refreshers, RefreshRead(r)
  PROVE  IInv'
<1>1. r \in Threads \ Closers /\ pc[r] = "read" /\ pc[r] \in Working \ Changed
  BY Callers DEF RefreshRead, Working, Refreshing, Changed, Undoing
<1>types. TypeOK /\ RefresherInv(r)
  BY DEF IInv, TypeInv
<1>2. UNCHANGED <<client, engines, stored, mine, persists, saved, drops, closed, engine>>
  BY DEF RefreshRead, client
<1>3. CASE /\ (~Connected(mine[r]) /\ UNCHANGED faults) \/ NetworkFails
           /\ Leave(r, "refused") /\ UNCHANGED <<previous, picked>>
  <2>1. Turn(r) /\ pc'[r] = "refused"
    BY <1>1, <1>2, <1>3, TurnEnds
  <2>2. Locals(r)
    BY <1>2, <1>3, LocalsUnchanged DEF locals, NetworkFails
  <2>3. RefresherInv(r)'
    BY <2>1 DEF RefresherInv, Refreshing, Changed, Undoing
  <2> QED BY <1>1, <1>2, <2>1, <2>2, <2>3, Elsewhere, LocalKeeps
<1>4. CASE /\ previous' = [previous EXCEPT ![r] = engines[mine[r]].jar]
           /\ \E c \in {previous'[r], r} : picked' = [picked EXCEPT ![r] = c]
           /\ Goto(r, "refresh") /\ UNCHANGED <<connectMu, faults>>
  <2>1. Turn(r) /\ pc'[r] = "refresh"
    BY <1>1, <1>2, <1>4, TurnGoes DEF Working, Refreshing
  <2>2. mine[r] \in DOMAIN engines /\ engines[mine[r]].jar \in Cookies
    <3>1. mine[r] \in 1 .. Len(engines) /\ engines \in Seq(Engines)
      BY <1>1, <1>types DEF RefresherInv, Refreshing, TypeOK, Engines, Links
    <3>2. engines[mine[r]] \in Engines /\ mine[r] \in DOMAIN engines
      BY <3>1
    <3> QED BY <3>2 DEF Engines
  <2>3. /\ previous' \in [Refreshers -> Cookies \cup {None}]
        /\ previous'[r] = engines[mine[r]].jar /\ previous'[r] \in Cookies
    BY <1>4, <1>types, <2>2 DEF TypeOK
  <2>4. PICK c \in {previous'[r], r} : picked' = [picked EXCEPT ![r] = c]
    BY <1>4
  <2>5. picked' \in [Threads -> Cookies \cup {None}] /\ picked'[r] \in Cookies
    BY <1>1, <1>types, <2>3, <2>4 DEF TypeOK, Cookies
  <2>6. Locals(r)
    BY <1>2, <1>4, <1>types, <2>3, <2>5, ClientAssumption DEF TypeOK, Locals, Secrets
  <2>7. RefresherInv(r)'
    BY <1>1, <1>2, <1>types, <2>1, <2>3, <2>5 DEF RefresherInv, Refreshing, Changed, Undoing
  <2> QED BY <1>1, <1>2, <2>1, <2>6, <2>7, Elsewhere, LocalKeeps DEF Refreshing, Changed
<1> QED BY <1>3, <1>4 DEF RefreshRead

\* The engine of a refresh is given another jar.
LEMMA JarKeeps ==
  ASSUME IInv, NEW r \in Refreshers, Turn(r), pc[r] \in {"refresh", "rollback"},
         NEW jar \in Cookies, SetJar(mine[r], jar),
         faults' = faults \/ StoreFails, UNCHANGED <<client, stored, locals, drops>>,
         pc'[r] \in Refreshing \cup {"failed"}, pc'[r] \in Changed \/ faults' > 0,
         engines'[mine[r]].jar = jar => RefresherInv(r)'
  PROVE  IInv'
<1>1. r \in Threads \ Closers
  BY Callers
<1>types. TypeOK /\ RefresherInv(r)
  BY DEF IInv, TypeInv
<1>2. /\ UNCHANGED <<closed, engine, cookies, source, profile>>
      /\ UNCHANGED <<mine, persists, picked, previous, saved>>
  BY DEF client, locals
<1>3. /\ engines \in Seq(Engines) /\ mine[r] \in DOMAIN engines
  <2>1. mine[r] \in 1 .. Len(engines) /\ engines \in Seq(Engines)
    BY <1>types DEF RefresherInv, Refreshing, Changed, Undoing, TypeOK, Engines, Links
  <2> QED BY <2>1
<1>4. /\ engines' \in Seq(Engines) /\ Len(engines') = Len(engines)
      /\ engines'[mine[r]].jar = jar /\ \A f \in DOMAIN engines : engines'[f].link = engines[f].link
  BY <1>3, SetJarFacts
<1>5. DOMAIN engines' = DOMAIN engines
  BY <1>3, <1>4
<1>6. TypeOK'
  <2>1. DOMAIN pc' = Threads /\ connectMu' \in (Threads \ Closers) \cup {Free}
    BY <1>1, TurnTypes
  <2>2. faults' \in 0 .. MaxFaults
    BY <1>types, ClientAssumption DEF TypeOK, StoreFails
  <2> QED BY <1>2, <1>4, <1>types, <2>1, <2>2 DEF TypeOK, Engines, Links
<1>7. ASSUME NEW e \in DOMAIN engines, Over(e) PROVE Over(e)'
  <2>1. CASE engines[e].link = "closed"
    BY <1>4, <2>1 DEF Over
  <2>2. CASE \E c \in Connectors : pc[c] \in {"dial", "publish"} /\ mine[c] = e
    <3>1. PICK c \in Connectors : pc[c] \in {"dial", "publish"} /\ mine[c] = e
      BY <2>2
    <3>2. c # r /\ pc'[c] = pc[c]
      BY <3>1 DEF Turn, Threads
    <3> QED BY <1>2, <3>1, <3>2 DEF Over
  <2> QED BY <1>7, <2>1, <2>2 DEF Over
<1>8. OverStays
  BY <1>4, <1>5, <1>7 DEF OverStays
<1>9. ClosedHoldsNothing' /\ LoginInv'
  BY <1>2 DEF IInv, ClosedHoldsNothing, LoginInv
<1>10. LastInv'
  <2>1. engine # 0 => engine \in DOMAIN engines
    BY <1>types DEF TypeOK
  <2> QED BY <1>2, <1>4, <1>5, <1>7, <2>1 DEF IInv, LastInv
<1>11. LiveInv'
  BY DEF LiveInv
<1> QED BY <1>1, <1>2, <1>4, <1>6, <1>8, <1>9, <1>10, <1>11, Elsewhere, TurnKeeps

LEMMA RefreshEngineKeeps ==
  ASSUME IInv, NEW r \in Refreshers, RefreshEngine(r)
  PROVE  IInv'
<1>1. r \in Threads \ Closers /\ pc[r] = "refresh" /\ pc[r] \in Working \ Changed
  BY Callers DEF RefreshEngine, Working, Refreshing, Changed, Undoing
<1>types. TypeOK /\ RefresherInv(r)
  BY DEF IInv, TypeInv
<1>2. UNCHANGED <<client, stored, locals, drops>> /\ UNCHANGED <<closed, engine>>
      /\ UNCHANGED <<mine, picked, previous, saved>>
  BY DEF RefreshEngine, client, locals
<1>3. CASE /\ (~Connected(mine[r]) /\ UNCHANGED faults) \/ NetworkFails
           /\ Leave(r, "failed") /\ UNCHANGED engines
  <2>1. Turn(r) /\ pc'[r] = "failed"
    BY <1>1, <1>2, <1>3, TurnEnds
  <2>2. Locals(r)
    BY <1>2, <1>3, LocalsUnchanged DEF NetworkFails
  <2>3. RefresherInv(r)'
    BY <2>1 DEF RefresherInv, Refreshing, Changed, Undoing
  <2> QED BY <1>1, <1>2, <1>3, <2>1, <2>2, <2>3, Elsewhere, LocalKeeps
<1>4. CASE /\ SetJar(mine[r], picked[r])
           /\ \/ Goto(r, IF persists[r] THEN "snapshot" ELSE "store") /\ UNCHANGED faults
              \/ StoreFails /\ Goto(r, "rollback")
           /\ UNCHANGED connectMu
  <2>1. Turn(r) /\ (pc'[r] \in {"snapshot", "store"} \/ (pc'[r] = "rollback" /\ faults' > 0))
    <3>1. {"snapshot", "store", "rollback"} \subseteq Working
      BY DEF Working, Refreshing, Changed, Undoing
    <3>2. CASE Goto(r, IF persists[r] THEN "snapshot" ELSE "store")
      BY <1>1, <1>2, <1>4, <3>1, <3>2, TurnGoes
    <3>3. CASE StoreFails /\ Goto(r, "rollback")
      <4>1. Turn(r) /\ pc'[r] = "rollback"
        BY <1>1, <1>2, <1>4, <3>1, <3>3, TurnGoes
      <4>2. faults' > 0
        BY <1>types, <3>3 DEF StoreFails, TypeOK
      <4> QED BY <4>1, <4>2
    <3> QED BY <1>4, <3>2, <3>3
  <2>3. picked[r] \in Cookies /\ (faults' = faults \/ StoreFails)
    BY <1>1, <1>4, <1>types DEF RefresherInv, Refreshing
  <2>4. ASSUME engines'[mine[r]].jar = picked[r] PROVE RefresherInv(r)'
    <3>1. Len(engines') = Len(engines)
      <4>1. engines \in Seq(Engines) /\ mine[r] \in 1 .. Len(engines)
        BY <1>1, <1>types DEF RefresherInv, Refreshing, TypeOK, Engines, Links
      <4>2. mine[r] \in DOMAIN engines
        BY <4>1
      <4> QED BY <1>4, <2>3, <4>1, <4>2, SetJarFacts
    <3> QED BY <1>1, <1>2, <1>types, <2>1, <2>4, <3>1
            DEF RefresherInv, Refreshing, Changed, Undoing
  <2>5. pc'[r] \in Changed
    BY <2>1 DEF Changed, Undoing
  <2> QED BY <1>1, <1>2, <1>4, <2>1, <2>3, <2>4, <2>5, JarKeeps DEF Refreshing
<1> QED BY <1>3, <1>4 DEF RefreshEngine

LEMMA RollbackKeeps ==
  ASSUME IInv, NEW r \in Refreshers, Rollback(r)
  PROVE  IInv'
<1>1. r \in Threads \ Closers /\ pc[r] = "rollback" /\ pc[r] \in Working
  BY Callers DEF Rollback, Working, Refreshing, Changed, Undoing
<1>types. TypeOK /\ RefresherInv(r)
  BY DEF IInv, TypeInv
<1>2. UNCHANGED <<client, stored, locals, drops, closed>>
  BY DEF Rollback, client
<1>3. Turn(r) /\ pc'[r] = "failed"
  BY <1>1, <1>2, TurnEnds DEF Rollback
<1>4. RefresherInv(r)'
  BY <1>3 DEF RefresherInv, Refreshing, Changed, Undoing
<1>5. faults > 0 /\ previous[r] \in Cookies
  BY <1>1, <1>types DEF RefresherInv, Refreshing, Changed, Undoing
<1>6. CASE SetJar(mine[r], RollbackCookies(r)) /\ UNCHANGED faults
  BY <1>1, <1>2, <1>3, <1>4, <1>5, <1>6, JarKeeps DEF RollbackCookies
<1>7. CASE ((~Connected(mine[r]) /\ UNCHANGED faults) \/ NetworkFails) /\ UNCHANGED engines
  <2>1. Locals(r) /\ faults' > 0
    BY <1>2, <1>5, <1>7, LocalsUnchanged DEF NetworkFails
  <2> QED BY <1>1, <1>2, <1>3, <1>4, <1>7, <2>1, Elsewhere, LocalKeeps
<1> QED BY <1>6, <1>7 DEF Rollback

LEMMA SnapshotReadKeeps ==
  ASSUME IInv, NEW r \in Refreshers, SnapshotRead(r)
  PROVE  IInv'
<1>1. r \in Threads \ Closers /\ pc[r] = "snapshot" /\ pc[r] \in Working
  BY Callers DEF SnapshotRead, Working, Refreshing, Changed, Undoing
<1>types. TypeOK /\ RefresherInv(r)
  BY DEF IInv, TypeInv
<1>2. /\ UNCHANGED <<client, connectMu, engines, stored, drops, closed, engine>>
      /\ UNCHANGED <<mine, persists, picked, previous>>
  BY DEF SnapshotRead, client
<1>3. CASE saved' = [saved EXCEPT ![r] = stored] /\ Goto(r, "put cookies") /\ UNCHANGED faults
  <2>1. Turn(r) /\ pc'[r] = "put cookies"
    BY <1>1, <1>2, <1>3, TurnGoes DEF Working, Refreshing, Changed
  <2>2. saved'[r] = stored /\ stored \in Secrets /\ saved' \in [Refreshers -> Secrets \cup {None}]
    BY <1>3, <1>types DEF TypeOK, Secrets
  <2>3. Locals(r)
    <3>1. \A u \in Refreshers \ {r} : saved'[u] = saved[u]
      BY <1>3, <1>types DEF TypeOK
    <3>2. UNCHANGED <<mine, persists, picked, previous, faults>>
      BY <1>2, <1>3
    <3>3. faults <= faults
      BY <1>types, ClientAssumption DEF TypeOK
    <3> QED BY <1>types, <2>2, <3>1, <3>2, <3>3 DEF TypeOK, Locals
  <2>4. RefresherInv(r)'
    BY <1>1, <1>2, <1>types, <2>1, <2>2 DEF RefresherInv, Refreshing, Changed, Undoing
  <2> QED BY <1>1, <1>2, <2>1, <2>3, <2>4, Elsewhere, LocalKeeps DEF Refreshing, Changed
<1>4. CASE StoreFails /\ Goto(r, "rollback") /\ UNCHANGED saved
  <2>1. Turn(r) /\ pc'[r] = "rollback"
    BY <1>1, <1>2, <1>4, TurnGoes DEF Working, Refreshing, Changed, Undoing
  <2>2. Locals(r) /\ faults' > 0
    <3>1. faults' > 0
      BY <1>4, <1>types DEF StoreFails, TypeOK
    <3> QED BY <1>2, <1>4, <3>1, LocalsUnchanged DEF locals
  <2>3. RefresherInv(r)'
    BY <1>1, <1>2, <1>4, <1>types, <2>1, <2>2 DEF RefresherInv, Refreshing, Changed, Undoing
  <2> QED BY <1>1, <1>2, <2>1, <2>2, <2>3, Elsewhere, LocalKeeps DEF Refreshing, Changed, Undoing
<1> QED BY <1>3, <1>4 DEF SnapshotRead

\* One of the two secrets is replaced, and the other is not.
LEMMA StoredFacts ==
  ASSUME stored \in Secrets, NEW key \in {"cookies", "session"}, NEW value \in Cookies \cup {None},
         stored' = [stored EXCEPT ![key] = value]
  PROVE  /\ stored' \in Secrets
         /\ key = "cookies" => stored'.cookies = value /\ stored'.session = stored.session
         /\ key = "session" => stored'.session = value /\ stored'.cookies = stored.cookies
BY DEF Secrets

LEMMA SameSecrets ==
  ASSUME NEW a \in Secrets, NEW b \in Secrets, a.cookies = b.cookies, a.session = b.session
  PROVE  a = b
BY DEF Secrets

\* A Put of a refresh that remains on its way.
LEMMA PutKeeps ==
  ASSUME IInv, NEW r \in Refreshers, pc[r] \in Changed \ {"store"},
         NEW key \in {"cookies", "session"}, NEW value \in Cookies \cup {None},
         NEW next \in Changed, NEW onError \in Changed, Put(r, key, value, next, onError),
         \* what it leaves in the store, in either case
         /\ stored' \in Secrets /\ stored' = [stored EXCEPT ![key] = value] /\ faults' = faults
            /\ pc'[r] = next => RefresherInv(r)',
         stored' = stored /\ faults' = faults + 1 /\ pc'[r] = onError => RefresherInv(r)'
  PROVE  IInv'
<1>1. r \in Threads \ Closers /\ pc[r] \in Working /\ {next, onError} \subseteq Working
  BY Callers DEF Working, Refreshing
<1>types. TypeOK /\ stored \in Secrets
  BY DEF IInv, TypeInv, TypeOK, Secrets
<1>2. /\ UNCHANGED <<client, connectMu, engines, locals, drops, closed, engine, cookies, source, profile>>
      /\ UNCHANGED <<mine, persists, picked, previous, saved>>
  BY DEF Put, client, locals
<1>3. CASE stored' = [stored EXCEPT ![key] = value] /\ Goto(r, next) /\ UNCHANGED faults
  <2>1. Turn(r) /\ pc'[r] = next
    BY <1>1, <1>2, <1>3, TurnGoes
  <2>2. stored' \in Secrets
    BY <1>3, <1>types, StoredFacts
  <2>3. TypeOK'
    <3>1. DOMAIN pc' = Threads /\ connectMu' \in (Threads \ Closers) \cup {Free}
      BY <1>1, <2>1, TurnTypes
    <3> QED BY <1>2, <1>3, <1>types, <2>2, <3>1 DEF TypeOK, Secrets
  <2>4. \A e : Over(e) => Over(e)'
    <3> SUFFICES ASSUME NEW e, NEW c \in Connectors, pc[c] \in {"dial", "publish"}, mine[c] = e
                 PROVE  pc'[c] \in {"dial", "publish"} /\ mine'[c] = e
      BY <1>2 DEF Over
    <3>1. c \in Threads \ {r}
      BY DEF Threads, Changed, Undoing
    <3> QED BY <1>2, <2>1, <3>1 DEF Turn
  <2>5. OverStays /\ LastInv' /\ ClosedHoldsNothing' /\ LoginInv'
    BY <1>2, <2>4 DEF IInv, OverStays, LastInv, ClosedHoldsNothing, LoginInv
  <2>6. LiveInv'
    BY <2>1 DEF LiveInv
  <2>7. pc'[r] \in Refreshing /\ RefresherInv(r)'
    BY <1>3, <2>1, <2>2 DEF Refreshing
  <2> QED BY <1>1, <1>2, <2>1, <2>3, <2>5, <2>6, <2>7, Elsewhere, TurnKeeps
<1>4. CASE StoreFails /\ Goto(r, onError) /\ UNCHANGED stored
  <2>1. Turn(r) /\ pc'[r] = onError
    BY <1>1, <1>2, <1>4, TurnGoes
  <2>2. Locals(r)
    BY <1>2, <1>4, LocalsUnchanged
  <2>3. pc'[r] \in Refreshing /\ RefresherInv(r)'
    BY <1>4, <2>1 DEF Refreshing, StoreFails
  <2>4. pc[r] \notin {"dial", "publish"} /\ pc'[r] \notin {"dial", "publish"}
    BY <2>1 DEF Changed, Undoing
  <2> QED BY <1>1, <1>2, <1>4, <2>1, <2>2, <2>3, <2>4, Elsewhere, LocalKeeps
<1> QED BY <1>3, <1>4 DEF Put

LEMMA SnapshotPutKeeps ==
  ASSUME IInv, NEW r \in Refreshers, SnapshotPut(r)
  PROVE  IInv'
<1>types. TypeOK /\ RefresherInv(r) /\ stored \in Secrets /\ faults \in Nat
  BY ClientAssumption DEF IInv, TypeInv, TypeOK, Secrets
<1>1. /\ "put cookies" \in Changed /\ "put session" \in Changed /\ "undo cookies" \in Changed
      /\ "undo session" \in Changed /\ "rollback" \in Changed /\ "store" \in Changed
  BY DEF Changed, Undoing
<1>2. pc[r] \in {"put cookies", "put session", "undo cookies", "undo session"}
  BY DEF SnapshotPut
<1>3. /\ picked[r] \in Cookies /\ saved[r] \in Secrets
      /\ saved[r].cookies \in Cookies \cup {None} /\ saved[r].session \in Cookies \cup {None}
  BY <1>2, <1>types DEF RefresherInv, Refreshing, Changed, Undoing, Secrets
<1>4. /\ UNCHANGED <<engines, engine, closed, mine, picked, previous, saved>>
      /\ engines[mine[r]].jar = picked[r] /\ previous[r] \in Cookies /\ mine[r] \in 1 .. Len(engines)
      /\ ~closed => mine[r] = engine
  <2>1. UNCHANGED <<engines, engine, closed, mine, picked, previous, saved>>
    BY DEF SnapshotPut, Put, client, locals
  <2>2. pc[r] \in Changed /\ pc[r] \in Refreshing \ {"read"}
    BY <1>2 DEF Refreshing, Changed, Undoing
  <2> QED BY <1>types, <2>1, <2>2 DEF RefresherInv
\* What a refresh on its way through the secrets still has to know about them.
<1>rest. ASSUME pc'[r] \in {"put cookies", "put session", "undo cookies", "undo session", "rollback", "store"},
                pc'[r] # "put cookies",
                pc'[r] \in Undoing => faults' > 0,
                pc'[r] \in {"put session", "undo cookies"} => stored'.session = saved[r].session,
                pc'[r] = "undo session" /\ faults' <= 1 => stored'.cookies = saved[r].cookies,
                pc'[r] = "rollback" /\ faults' <= 1 => stored' = saved[r]
         PROVE  RefresherInv(r)'
  BY <1>3, <1>4, <1>rest DEF RefresherInv, Refreshing, Changed, Undoing
<1>5. CASE pc[r] = "put cookies" /\ Put(r, "cookies", picked[r], "put session", "rollback")
  <2>1. stored = saved[r]
    BY <1>5, <1>types DEF RefresherInv
  <2>2. ASSUME stored' \in Secrets, stored' = [stored EXCEPT !["cookies"] = picked[r]], faults' = faults,
               pc'[r] = "put session"
        PROVE  RefresherInv(r)'
    <3>1. stored'.session = saved[r].session
      BY <1>3, <1>types, <2>1, <2>2, StoredFacts
    <3> QED BY <1>rest, <2>2, <3>1 DEF Undoing
  <2>3. stored' = stored /\ faults' = faults + 1 /\ pc'[r] = "rollback" => RefresherInv(r)'
    BY <1>rest, <1>types, <2>1
  <2> QED BY <1>1, <1>3, <1>5, <2>2, <2>3, PutKeeps
<1>6. CASE pc[r] = "put session" /\ Put(r, "session", picked[r], "store", UndoStart)
  <2>1. stored.session = saved[r].session
    BY <1>6, <1>types DEF RefresherInv
  <2>2. ASSUME pc'[r] = "store" PROVE RefresherInv(r)'
    BY <1>rest, <2>2 DEF Undoing
  <2>3. ASSUME stored' = stored, faults' = faults + 1, pc'[r] = "undo cookies"
        PROVE  RefresherInv(r)'
    <3>1. faults' > 0 /\ (faults > 0 => ~(faults' <= 1))
      <4>1. faults \in Nat /\ faults' = faults + 1
        BY <1>types, <2>3
      <4> QED BY <4>1
    <3>2. stored'.session = saved[r].session
      BY <2>1, <2>3
    <3> QED BY <1>rest, <2>1, <2>3, <3>1, <3>2
  <2>4. Put(r, "session", picked[r], "store", "undo cookies")
    BY <1>6 DEF UndoStart
  <2> QED BY <1>1, <1>3, <1>6, <2>2, <2>3, <2>4, PutKeeps
<1>7. CASE pc[r] = "undo cookies" /\ Put(r, "cookies", saved[r].cookies, "undo session", "undo session")
  <2>1. stored.session = saved[r].session /\ faults > 0
    BY <1>7, <1>types DEF RefresherInv, Undoing
  <2>2. ASSUME stored' \in Secrets, stored' = [stored EXCEPT !["cookies"] = saved[r].cookies],
               faults' = faults, pc'[r] = "undo session"
        PROVE  RefresherInv(r)'
    <3>1. stored'.cookies = saved[r].cookies
      BY <1>3, <1>types, <2>2, StoredFacts
    <3> QED BY <1>rest, <2>1, <2>2, <3>1
  <2>3. ASSUME stored' = stored, faults' = faults + 1, pc'[r] = "undo session"
        PROVE  RefresherInv(r)'
    <3>1. faults' > 0 /\ (faults > 0 => ~(faults' <= 1))
      <4>1. faults \in Nat /\ faults' = faults + 1
        BY <1>types, <2>3
      <4> QED BY <4>1
    <3>2. stored'.session = saved[r].session
      BY <2>1, <2>3
    <3> QED BY <1>rest, <2>1, <2>3, <3>1, <3>2
  <2> QED BY <1>1, <1>3, <1>7, <2>2, <2>3, PutKeeps
<1>8. CASE pc[r] = "undo session" /\ Put(r, "session", saved[r].session, "rollback", "rollback")
  <2>1. (faults <= 1 => stored.cookies = saved[r].cookies) /\ faults > 0
    BY <1>8, <1>types DEF RefresherInv, Undoing
  <2>2. ASSUME stored' \in Secrets, stored' = [stored EXCEPT !["session"] = saved[r].session],
               faults' = faults, pc'[r] = "rollback"
        PROVE  RefresherInv(r)'
    <3>1. stored'.session = saved[r].session /\ stored'.cookies = stored.cookies
      BY <1>3, <1>types, <2>2, StoredFacts
    <3>2. faults' <= 1 => stored' = saved[r]
      BY <1>3, <2>1, <2>2, <3>1, SameSecrets
    <3> QED BY <1>rest, <2>1, <2>2, <3>2
  <2>3. stored' = stored /\ faults' = faults + 1 /\ pc'[r] = "rollback" => RefresherInv(r)'
    BY <1>rest, <1>types, <2>1
  <2> QED BY <1>1, <1>3, <1>8, <2>2, <2>3, PutKeeps
<1> QED BY <1>5, <1>6, <1>7, <1>8 DEF SnapshotPut

\* The live cookies become the client's.
LEMMA CookiesKeep ==
  ASSUME IInv, NEW t \in Refreshers \cup Exporters, Turn(t), ~closed,
         pc[t] \in {"store", "keep"}, pc'[t] \in {"done", "end"},
         cookies' = picked[t], source' = "cookies",
         picked[t] \in Cookies, mine[t] \in 1 .. Len(engines), mine[t] = engine,
         engines[mine[t]].jar = picked[t],
         UNCHANGED <<closed, engine, profile, engines, stored, locals, faults, drops>>
  PROVE  IInv'
<1>1. t \in Threads \ Closers
  BY Callers
<1>types. TypeOK
  BY DEF IInv, TypeInv
<1>2. UNCHANGED <<mine, persists, picked, previous, saved>>
  BY DEF locals
<1>3. TypeOK'
  <2>1. DOMAIN pc' = Threads /\ connectMu' \in (Threads \ Closers) \cup {Free}
    BY <1>1, TurnTypes
  <2> QED BY <1>2, <1>types, <2>1, ClientAssumption DEF TypeOK
<1>4. \A e : Over(e) => Over(e)'
  <2> SUFFICES ASSUME NEW e, NEW c \in Connectors, pc[c] \in {"dial", "publish"}, mine[c] = e
               PROVE  pc'[c] \in {"dial", "publish"} /\ mine'[c] = e
    BY DEF Over
  <2>1. c \in Threads \ {t}
    BY DEF Threads
  <2> QED BY <1>2, <2>1 DEF Turn
<1>5. OverStays /\ LastInv' /\ ClosedHoldsNothing' /\ LoginInv' /\ LiveInv'
  BY <1>4 DEF IInv, OverStays, LastInv, ClosedHoldsNothing, LoginInv, LiveInv, Reconnect
<1>6. t \in Connectors => ConnectorInv(t)'
  BY DEF ConnectorInv
<1>7. t \in Refreshers => RefresherInv(t)'
  BY DEF RefresherInv, Refreshing, Changed, Undoing
<1>8. t \in Exporters => ExporterInv(t)'
  BY DEF ExporterInv, Exporting
<1> QED BY <1>1, <1>2, <1>3, <1>5, <1>6, <1>7, <1>8, TurnKeeps

LEMMA StoreRefreshedKeeps ==
  ASSUME IInv, NEW r \in Refreshers, StoreRefreshed(r)
  PROVE  IInv'
<1>1. r \in Threads \ Closers /\ pc[r] = "store" /\ pc[r] \in Working /\ pc[r] \in Changed
  BY Callers DEF StoreRefreshed, Working, Refreshing, Changed, Undoing
<1>2. UNCHANGED <<closed, engine, profile, engines, stored, locals, faults, drops>>
  BY DEF StoreRefreshed
<1>3. /\ mine[r] \in 1 .. Len(engines) /\ (~closed => mine[r] = engine)
      /\ picked[r] \in Cookies /\ engines[mine[r]].jar = picked[r]
  BY <1>1 DEF IInv, RefresherInv, Refreshing
<1>4. CASE closed
  <2>1. Turn(r) /\ pc'[r] = "failed"
    BY <1>1, <1>2, <1>4, TurnEnds DEF StoreRefreshed, ClosedMeanwhile
  <2>2. Locals(r) /\ UNCHANGED client
    BY <1>2, <1>4, LocalsUnchanged DEF StoreRefreshed, ClosedMeanwhile, client
  <2>3. RefresherInv(r)'
    BY <2>1 DEF RefresherInv, Refreshing, Changed, Undoing
  <2> QED BY <1>1, <1>2, <1>4, <2>1, <2>2, <2>3, Elsewhere, LocalKeeps
<1>5. CASE ~closed
  <2>1. Turn(r) /\ pc'[r] = "done" /\ cookies' = picked[r] /\ source' = "cookies"
    BY <1>1, <1>2, <1>5, TurnEnds DEF StoreRefreshed, ClosedMeanwhile, RefreshedCookies
  <2> QED BY <1>1, <1>2, <1>3, <1>5, <2>1, CookiesKeep
<1> QED BY <1>4, <1>5

-----------------------------------------------------------------------------
(* AuthSnapshot *)

LEMMA ExportBeginKeeps ==
  ASSUME IInv, NEW x \in Exporters, ExportBegin(x)
  PROVE  IInv'
<1>1. x \in Threads \ Closers /\ pc[x] = "new" /\ pc[x] \notin Changed
  BY Callers DEF ExportBegin, Changed, Undoing
<1>types. TypeOK
  BY DEF IInv, TypeInv
<1>2. UNCHANGED <<client, engines, stored, persists, picked, previous, saved, faults, drops, closed, engine>>
  BY DEF ExportBegin, client
<1>3. CASE closed \/ ~Connected(engine)
  <2>1. Turn(x) /\ pc'[x] = "end"
    BY <1>1, <1>2, <1>3, TurnBegins DEF ExportBegin
  <2>2. Locals(x)
    BY <1>2, <1>3, LocalsUnchanged DEF ExportBegin, locals
  <2>3. ExporterInv(x)'
    BY <2>1 DEF ExporterInv, Exporting
  <2> QED BY <1>1, <1>2, <2>1, <2>2, <2>3, Elsewhere, LocalKeeps
<1>4. CASE ~(closed \/ ~Connected(engine))
  <2>1. Turn(x) /\ pc'[x] = "export"
    BY <1>1, <1>2, <1>4, TurnBegins DEF ExportBegin
  <2>2. engine \in 1 .. Len(engines)
    BY <1>4, <1>types DEF Connected, TypeOK
  <2>3. mine' = [mine EXCEPT ![x] = engine]
    BY <1>4 DEF ExportBegin
  <2>4. Locals(x) /\ mine'[x] = engine
    BY <1>1, <1>2, <1>types, <2>2, <2>3, ClientAssumption DEF TypeOK, Locals, Secrets
  <2>5. ExporterInv(x)'
    BY <1>2, <2>1, <2>2, <2>4 DEF ExporterInv
  <2> QED BY <1>1, <1>2, <2>1, <2>4, <2>5, Elsewhere, LocalKeeps DEF Exporting
<1> QED BY <1>3, <1>4

LEMMA ExportReadKeeps ==
  ASSUME IInv, NEW x \in Exporters, ExportRead(x)
  PROVE  IInv'
<1>1. x \in Threads \ Closers /\ pc[x] = "export" /\ pc[x] \in Working \ Changed
  BY Callers DEF ExportRead, Working, Exporting, Changed, Undoing
<1>types. TypeOK /\ ExporterInv(x)
  BY DEF IInv, TypeInv
<1>2. UNCHANGED <<client, engines, stored, mine, persists, previous, saved, drops, closed, engine>>
  BY DEF ExportRead, client
<1>3. CASE /\ (~Connected(mine[x]) /\ UNCHANGED faults) \/ NetworkFails
           /\ Leave(x, "end") /\ UNCHANGED picked
  <2>1. Turn(x) /\ pc'[x] = "end"
    BY <1>1, <1>2, <1>3, TurnEnds
  <2>2. Locals(x)
    BY <1>2, <1>3, LocalsUnchanged DEF locals, NetworkFails
  <2>3. ExporterInv(x)'
    BY <2>1 DEF ExporterInv, Exporting
  <2> QED BY <1>1, <1>2, <2>1, <2>2, <2>3, Elsewhere, LocalKeeps
<1>4. CASE /\ picked' = [picked EXCEPT ![x] = engines[mine[x]].jar]
           /\ Goto(x, "keep") /\ UNCHANGED <<connectMu, faults>>
  <2>1. Turn(x) /\ pc'[x] = "keep"
    BY <1>1, <1>2, <1>4, TurnGoes DEF Working, Exporting
  <2>2. engines[mine[x]].jar \in Cookies
    <3>1. mine[x] \in 1 .. Len(engines) /\ engines \in Seq(Engines)
      BY <1>1, <1>types DEF ExporterInv, Exporting, TypeOK, Engines, Links
    <3>2. engines[mine[x]] \in Engines
      BY <3>1
    <3> QED BY <3>2 DEF Engines
  <2>3. picked' \in [Threads -> Cookies \cup {None}] /\ picked'[x] = engines[mine[x]].jar
    BY <1>1, <1>4, <1>types, <2>2 DEF TypeOK
  <2>4. Locals(x)
    BY <1>2, <1>4, <1>types, <2>3, ClientAssumption DEF TypeOK, Locals, Secrets
  <2>5. ExporterInv(x)'
    BY <1>1, <1>2, <1>types, <2>1, <2>2, <2>3 DEF ExporterInv, Exporting
  <2> QED BY <1>1, <1>2, <2>1, <2>4, <2>5, Elsewhere, LocalKeeps DEF Exporting
<1> QED BY <1>3, <1>4 DEF ExportRead

LEMMA ExportKeepKeeps ==
  ASSUME IInv, NEW x \in Exporters, ExportKeep(x)
  PROVE  IInv'
<1>1. x \in Threads \ Closers /\ pc[x] = "keep" /\ pc[x] \in Working \ Changed
  BY Callers DEF ExportKeep, Working, Exporting, Changed, Undoing
<1>2. UNCHANGED <<closed, engine, profile, engines, stored, locals, faults, drops>>
  BY DEF ExportKeep
<1>3. /\ mine[x] \in 1 .. Len(engines) /\ (~closed => mine[x] = engine)
      /\ picked[x] \in Cookies /\ engines[mine[x]].jar = picked[x]
  BY <1>1 DEF IInv, ExporterInv, Exporting
<1>4. Turn(x) /\ pc'[x] = "end"
  BY <1>1, <1>2, TurnEnds DEF ExportKeep
<1>5. CASE closed
  <2>1. Locals(x) /\ UNCHANGED client
    BY <1>2, <1>5, LocalsUnchanged DEF ExportKeep, ClosedMeanwhile, client
  <2>2. ExporterInv(x)'
    BY <1>4 DEF ExporterInv, Exporting
  <2> QED BY <1>1, <1>2, <1>4, <2>1, <2>2, Elsewhere, LocalKeeps
<1>6. CASE ~closed
  <2>1. cookies' = picked[x] /\ source' = "cookies"
    BY <1>6 DEF ExportKeep, ClosedMeanwhile, RefreshedCookies
  <2> QED BY <1>1, <1>2, <1>3, <1>4, <1>6, <2>1, CookiesKeep
<1> QED BY <1>5, <1>6

-----------------------------------------------------------------------------
(* The transport and Close, which meet every operation *)

\* A step that leaves the operations alone and changes the link of one engine.
LEMMA LinkKeeps ==
  ASSUME IInv, NEW e \in DOMAIN engines, NEW link \in Links, SetLink(e, link),
         UNCHANGED <<client, connectMu, stored, locals, faults>>,
         pc' \in [Threads -> Labels],
         \A t \in Threads \ Closers : pc'[t] = pc[t],
         \A k \in Closers :
           pc'[k] = pc[k] \/ (pc[k] = "engine" /\ pc'[k] = "wait" /\ e = mine[k] /\ link = "closed"),
         drops' \in 0 .. MaxDrops, drops' >= drops,
         engines[e].link \in {"up", "down"} \/ link = "closed",
         \* it does not go down unless that is counted, or the client is closed
         drops' = 0 /\ ~closed => link = "up",
         \* and no connect is dialling this engine
         \A c \in Connectors : pc[c] = "dial" => mine[c] # e,
         \A c \in Connectors : pc[c] = "publish" /\ mine[c] = e => drops' > 0 \/ link = "up"
  PROVE  IInv'
<1>types. TypeOK /\ engines \in Seq(Engines) /\ drops \in Nat
  BY ClientAssumption DEF IInv, TypeInv, TypeOK, Engines, Links
<1>1. /\ UNCHANGED <<closed, engine, cookies, source, profile>>
      /\ UNCHANGED <<mine, persists, picked, previous, saved>>
  BY DEF client, locals
<1>2. /\ engines' \in Seq(Engines) /\ Len(engines') = Len(engines)
      /\ engines'[e].link = link /\ \A f \in DOMAIN engines : engines'[f].jar = engines[f].jar
      /\ \A f \in DOMAIN engines \ {e} : engines'[f] = engines[f]
  BY <1>types, SetLinkFacts
<1>3. DOMAIN engines' = DOMAIN engines /\ DOMAIN engines = 1 .. Len(engines)
  BY <1>2, <1>types
<1>4. \A f \in DOMAIN engines : engines[f].link = "closed" => engines'[f].link = "closed"
  BY <1>2
<1>5. ASSUME NEW f \in DOMAIN engines, Over(f) PROVE Over(f)'
  <2>1. \A c \in Connectors : pc'[c] = pc[c]
    BY Callers
  <2> QED BY <1>1, <1>4, <1>5, <2>1 DEF Over
<1>6. drops' = 0 => drops = 0
  BY <1>types
<1>7. TypeInv'
  <2>1. DOMAIN pc' = Threads
    OBVIOUS
  <2> QED BY <1>1, <1>2, <1>types, <2>1 DEF TypeInv, TypeOK, Engines, Links
<1>8. LockInv'
  <2> SUFFICES ASSUME NEW t \in Threads PROVE pc'[t] \in Working <=> connectMu' = t
    BY DEF LockInv
  <2>1. CASE t \in Closers
    <3>1. pc[t] \in {"new", "noop"} \cup Closing /\ pc'[t] \in {"new", "noop"} \cup Closing
      BY <2>1 DEF IInv, CloserInv, Closing
    <3>2. pc[t] \notin Working /\ pc'[t] \notin Working
      BY <3>1 DEF Closing, Working, Connecting, Refreshing, Changed, Undoing, Exporting
    <3> QED BY <3>2 DEF IInv, LockInv
  <2>2. CASE t \notin Closers
    BY <2>2 DEF IInv, LockInv
  <2> QED BY <2>1, <2>2
<1>9. ClosedHoldsNothing' /\ LoginInv'
  BY <1>1 DEF IInv, ClosedHoldsNothing, LoginInv
<1>10. LastInv'
  <2>1. engine # 0 => engine \in DOMAIN engines
    BY <1>3, <1>types DEF TypeOK
  <2>2. ~closed /\ engine # 0 /\ drops' = 0 => engines'[engine].link = "up"
    BY <1>2, <1>6, <2>1 DEF IInv, LastInv
  <2> QED BY <1>1, <1>3, <1>5, <2>2 DEF IInv, LastInv
<1>11. LiveInv'
  <2>1. engine # 0 => engine \in DOMAIN engines
    BY <1>3, <1>types DEF TypeOK
  <2>2. \A r \in Refreshers : pc'[r] = pc[r]
    BY Callers
  <2> QED BY <1>1, <1>2, <2>1, <2>2 DEF IInv, LiveInv, Reconnect
<1>12. \A c \in Connectors : ConnectorInv(c)'
  <2> SUFFICES ASSUME NEW c \in Connectors PROVE ConnectorInv(c)'
    OBVIOUS
  <2>1. ConnectorInv(c) /\ pc'[c] = pc[c]
    BY Callers DEF IInv
  <2>2. \A k \in Closers : pc'[k] \in Closing => pc[k] \in Closing
    BY DEF Closing
  <2>3. pc[c] \in {"dial", "publish"} => mine[c] \in DOMAIN engines
    <3>1. pc[c] \in {"dial", "publish"} => mine[c] \in Nat /\ mine[c] = Len(engines) /\ engine < mine[c] /\ engine \in Nat
      BY <1>types, <2>1 DEF ConnectorInv, TypeOK
    <3> QED BY <1>3, <3>1
  <2>4. pc[c] = "dial" => engines'[mine[c]].link = "dialling"
    BY <1>2, <2>1, <2>3 DEF ConnectorInv
  <2>5. pc[c] = "publish" /\ drops' = 0 => engines'[mine[c]].link = "up"
    BY <1>2, <1>6, <2>1, <2>3 DEF ConnectorInv
  <2>6. pc[c] \in {"dial", "publish"} => engines'[mine[c]].jar = picked[c]
    BY <1>2, <2>1, <2>3 DEF ConnectorInv
  <2> QED BY <1>1, <1>2, <2>1, <2>2, <2>4, <2>5, <2>6 DEF ConnectorInv, Reconnect
<1>13. \A r \in Refreshers : RefresherInv(r)'
  <2> SUFFICES ASSUME NEW r \in Refreshers PROVE RefresherInv(r)'
    OBVIOUS
  <2>1. RefresherInv(r) /\ pc'[r] = pc[r]
    BY Callers DEF IInv
  <2>2. pc[r] \in Refreshing => engines'[mine[r]].jar = engines[mine[r]].jar
    BY <1>2, <1>3, <2>1 DEF RefresherInv
  <2>3. pc[r] = "refresh" => engines'[mine[r]].jar = previous[r]
    BY <2>1, <2>2 DEF RefresherInv, Refreshing
  <2>4. pc[r] \in Changed => engines'[mine[r]].jar = picked[r]
    BY <2>1, <2>2 DEF RefresherInv, Refreshing
  <2> QED BY <1>1, <1>2, <2>1, <2>3, <2>4 DEF RefresherInv
<1>14. \A x \in Exporters : ExporterInv(x)'
  <2> SUFFICES ASSUME NEW x \in Exporters PROVE ExporterInv(x)'
    OBVIOUS
  <2>1. ExporterInv(x) /\ pc'[x] = pc[x]
    BY Callers DEF IInv
  <2>2. pc[x] \in Exporting => engines'[mine[x]].jar = engines[mine[x]].jar
    BY <1>2, <1>3, <2>1 DEF ExporterInv
  <2> QED BY <1>1, <1>2, <2>1, <2>2 DEF ExporterInv, Exporting
<1>15. \A k \in Closers : CloserInv(k)'
  <2> SUFFICES ASSUME NEW k \in Closers PROVE CloserInv(k)'
    OBVIOUS
  <2>1. CloserInv(k) /\ mine[k] \in 0 .. Len(engines)
    BY <1>types DEF IInv, TypeOK, Threads
  <2>2. pc'[k] \in Closing => pc[k] \in Closing
    BY DEF Closing
  <2>3. pc'[k] \in Closing => \A f \in DOMAIN engines' : f > mine[k] => Over(f)'
    BY <1>3, <1>5, <2>1, <2>2 DEF CloserInv
  <2>4. pc'[k] \in {"wait", "end"} /\ mine[k] # 0 => engines'[mine[k]].link = "closed"
    <3>1. mine[k] # 0 => mine[k] \in DOMAIN engines
      BY <1>3, <2>1
    <3>2. pc'[k] # pc[k] => engines'[mine[k]].link = "closed"
      BY <1>2
    <3> QED BY <1>4, <2>1, <3>1, <3>2 DEF CloserInv
  <2> QED BY <1>1, <2>1, <2>2, <2>3, <2>4 DEF CloserInv, Closing
<1> QED BY <1>7, <1>8, <1>9, <1>10, <1>11, <1>12, <1>13, <1>14, <1>15 DEF IInv

LEMMA LinkDropsKeeps ==
  ASSUME IInv, NEW e \in DOMAIN engines, LinkDrops(e) \/ LinkReturns(e)
  PROVE  IInv'
<1>types. TypeOK /\ drops \in Nat
  BY ClientAssumption DEF IInv, TypeInv, TypeOK
<1>1. UNCHANGED <<client, connectMu, stored, pc, locals, faults>>
  BY DEF LinkDrops, LinkReturns
<1>2. \A c \in Connectors : pc[c] = "dial" => engines[mine[c]].link = "dialling"
  BY DEF IInv, ConnectorInv
<1>3. pc \in [Threads -> Labels]
  BY DEF IInv, TypeInv
<1>4. CASE LinkDrops(e)
  <2>1. engines[e].link = "up" /\ SetLink(e, "down") /\ drops' = drops + 1 /\ drops < MaxDrops
    BY <1>4 DEF LinkDrops
  <2>2. drops' \in 0 .. MaxDrops /\ drops' >= drops /\ drops' > 0 /\ ~(drops' = 0)
    BY <1>types, <2>1, ClientAssumption
  <2>3. "down" \in Links
    BY DEF Links
  <2>4. \A c \in Connectors : pc[c] = "dial" => mine[c] # e
    BY <1>2, <2>1
  <2> QED BY <1>1, <1>3, <2>1, <2>2, <2>3, <2>4, LinkKeeps
<1>5. CASE LinkReturns(e)
  <2>1. engines[e].link = "down" /\ SetLink(e, "up") /\ drops' = drops
    BY <1>5 DEF LinkReturns
  <2>2. drops' \in 0 .. MaxDrops /\ drops' >= drops
    BY <1>types, <2>1 DEF TypeOK
  <2>3. "up" \in Links
    BY DEF Links
  <2>4. \A c \in Connectors : pc[c] = "dial" => mine[c] # e
    BY <1>2, <2>1
  <2> QED BY <1>1, <1>3, <2>1, <2>2, <2>3, <2>4, LinkKeeps
<1> QED BY <1>4, <1>5

\* The first closer takes everything the client holds; what was the client's last engine is
\* the one it closes.
LEMMA CloseBeginKeeps ==
  ASSUME IInv, NEW k \in Closers, CloseBegin(k)
  PROVE  IInv'
<1>types. /\ TypeOK /\ pc \in [Threads -> Labels] /\ k \in Threads /\ k \notin Connectors \cup Refreshers \cup Exporters
          /\ {"noop", "engine"} \subseteq Labels
  BY ClientAssumption DEF IInv, TypeInv, Threads, Labels, Closing
<1>1. /\ pc[k] = "new" /\ closed' = TRUE
      /\ UNCHANGED <<connectMu, engines, stored, persists, picked, previous, saved, faults, drops>>
  BY DEF CloseBegin
\* The operations under way only learn that the client is closed.
<1>2. ASSUME pc'[k] \in {"noop", "engine"}, pc' \in [Threads -> Labels],
             \A u \in Threads \ {k} : pc'[u] = pc[u],
             mine' \in [Threads -> 0 .. Len(engines)], \A u \in Threads \ {k} : mine'[u] = mine[u],
             engine' = 0, cookies' = None, source' = "none", profile' = FALSE,
             pc'[k] = "engine" => mine'[k] = engine, CloserInv(k)'
      PROVE  IInv'
  <2>1. TypeInv'
    <3>1. DOMAIN pc' = Threads
      BY <1>2
    <3>2. cookies' \in Cookies \cup {None} /\ (source' = "cookies" <=> cookies' # None)
          /\ source' \in {"none", "cookies", "credentials"} /\ engine' \in 0 .. Len(engines')
      BY <1>1, <1>2, <1>types DEF TypeOK
    <3> QED BY <1>1, <1>2, <1>types, <3>1, <3>2 DEF TypeInv, TypeOK
  <2>2. LockInv'
    <3>1. pc[k] \notin Working /\ pc'[k] \notin Working
      BY <1>1, <1>2 DEF Working, Connecting, Refreshing, Changed, Undoing, Exporting
    <3> QED BY <1>1, <1>2, <3>1 DEF IInv, LockInv
  <2>3. ClosedHoldsNothing' /\ LoginInv' /\ LastInv' /\ LiveInv'
    BY <1>1, <1>2 DEF ClosedHoldsNothing, LoginInv, LastInv, LiveInv
  <2>4. \A t \in Connectors \cup Refreshers \cup Exporters : pc'[t] = pc[t] /\ mine'[t] = mine[t]
    BY <1>2, <1>types DEF Threads
  <2>5. \A e : Over(e) => Over(e)'
    BY <1>1, <2>4 DEF Over
  <2>6. \A c \in Connectors : ConnectorInv(c)'
    <3> SUFFICES ASSUME NEW c \in Connectors PROVE ConnectorInv(c)'
      OBVIOUS
    <3>1. ConnectorInv(c)
      BY DEF IInv
    <3>2. pc[c] \in {"dial", "publish"} => engine' < mine[c]
      BY <1>2, <1>types, <3>1 DEF ConnectorInv, TypeOK
    <3>3. pc[c] \in {"dial", "publish"} => \A j \in Closers : pc'[j] \in Closing => mine'[j] < mine[c]
      <4> SUFFICES ASSUME NEW j \in Closers, pc'[j] \in Closing, pc[c] \in {"dial", "publish"}
                   PROVE  mine'[j] < mine[c]
        OBVIOUS
      <4>1. CASE j = k
        BY <1>2, <3>1, <4>1 DEF ConnectorInv, Closing
      <4>2. CASE j # k
        <5>1. pc'[j] = pc[j] /\ mine'[j] = mine[j]
          BY <1>2, <4>2 DEF Threads
        <5> QED BY <3>1, <5>1 DEF ConnectorInv
      <4> QED BY <4>1, <4>2
    <3> QED BY <1>1, <1>2, <2>4, <3>1, <3>2, <3>3 DEF ConnectorInv
  <2>7. \A r \in Refreshers : RefresherInv(r)'
    <3> SUFFICES ASSUME NEW r \in Refreshers PROVE RefresherInv(r)'
      OBVIOUS
    <3>1. RefresherInv(r) /\ pc'[r] = pc[r] /\ mine'[r] = mine[r]
      BY <2>4 DEF IInv
    <3> QED BY <1>1, <3>1 DEF RefresherInv
  <2>8. \A x \in Exporters : ExporterInv(x)'
    BY <1>1, <2>4 DEF IInv, ExporterInv
  <2>9. \A j \in Closers : CloserInv(j)'
    <3> SUFFICES ASSUME NEW j \in Closers \ {k} PROVE CloserInv(j)'
      BY <1>2
    <3>1. CloserInv(j) /\ pc'[j] = pc[j] /\ mine'[j] = mine[j]
      BY <1>2 DEF IInv, Threads
    <3> QED BY <1>1, <2>5, <3>1 DEF CloserInv
  <2> QED BY <2>1, <2>2, <2>3, <2>6, <2>7, <2>8, <2>9 DEF IInv
<1>3. CASE closed
  <2>1. /\ Goto(k, "noop") /\ UNCHANGED <<engine, cookies, source, profile, mine>>
        /\ engine = 0 /\ cookies = None /\ source = "none" /\ ~profile
    BY <1>3 DEF CloseBegin, IInv, ClosedHoldsNothing
  <2>2. pc'[k] = "noop" /\ pc' \in [Threads -> Labels] /\ \A u \in Threads \ {k} : pc'[u] = pc[u]
    BY <1>types, <2>1, GotoFacts
  <2>3. CloserInv(k)'
    BY <1>1, <2>2 DEF CloserInv, Closing
  <2>4. profile' = FALSE /\ mine' \in [Threads -> 0 .. Len(engines)]
    BY <1>types, <2>1 DEF TypeOK
  <2> QED BY <1>2, <2>1, <2>2, <2>3, <2>4
<1>4. CASE ~closed
  <2>1. /\ mine' = [mine EXCEPT ![k] = engine] /\ Goto(k, "engine")
        /\ engine' = 0 /\ cookies' = None /\ source' = "none" /\ profile' = FALSE
    BY <1>4 DEF CloseBegin
  <2>2. pc'[k] = "engine" /\ pc' \in [Threads -> Labels] /\ \A u \in Threads \ {k} : pc'[u] = pc[u]
    BY <1>types, <2>1, GotoFacts
  <2>3. /\ mine' \in [Threads -> 0 .. Len(engines)] /\ mine'[k] = engine
        /\ \A u \in Threads \ {k} : mine'[u] = mine[u]
    BY <1>types, <2>1 DEF TypeOK
  <2>4. \A e \in DOMAIN engines : e > engine => Over(e)'
    <3>1. \A c \in Connectors : pc'[c] = pc[c] /\ mine'[c] = mine[c]
      BY <1>types, <2>2, <2>3 DEF Threads
    <3>2. \A e \in DOMAIN engines : e > engine => Over(e)
      BY <1>4 DEF IInv, LastInv
    <3> QED BY <1>1, <3>1, <3>2 DEF Over
  <2>5. CloserInv(k)'
    BY <1>1, <2>2, <2>3, <2>4 DEF CloserInv, Closing
  <2> QED BY <1>2, <2>1, <2>2, <2>3, <2>5
<1> QED BY <1>3, <1>4

\* A closer goes on and changes nothing else.
LEMMA CloserGoes ==
  ASSUME IInv, NEW k \in Closers, pc[k] \in {"engine", "wait"},
         NEW label \in {"wait", "end"}, Goto(k, label),
         UNCHANGED <<client, connectMu, engines, stored, locals, faults, drops>>,
         mine[k] # 0 => engines[mine[k]].link = "closed",
         label = "end" => connectMu = Free
  PROVE  IInv'
<1>types. /\ TypeOK /\ pc \in [Threads -> Labels] /\ k \in Threads
          /\ k \notin Connectors \cup Refreshers \cup Exporters /\ label \in Labels
  BY ClientAssumption DEF IInv, TypeInv, Threads, Labels, Closing
<1>1. /\ UNCHANGED <<closed, engine, cookies, source, profile, connectMu, engines, stored, faults, drops>>
      /\ UNCHANGED <<mine, persists, picked, previous, saved>>
  BY DEF client, locals
<1>2. pc'[k] = label /\ pc' \in [Threads -> Labels] /\ \A u \in Threads \ {k} : pc'[u] = pc[u]
  BY <1>types, GotoFacts
<1>3. TypeInv'
  <2>1. DOMAIN pc' = Threads
    BY <1>2
  <2> QED BY <1>1, <1>2, <1>types, <2>1 DEF TypeInv, TypeOK
<1>4. LockInv'
  <2>1. pc[k] \notin Working /\ pc'[k] \notin Working
    BY <1>2 DEF Working, Connecting, Refreshing, Changed, Undoing, Exporting
  <2> QED BY <1>1, <1>2, <2>1 DEF IInv, LockInv
<1>5. \A t \in Connectors \cup Refreshers \cup Exporters : pc'[t] = pc[t]
  BY <1>2, <1>types DEF Threads
<1>6. \A e : Over(e) => Over(e)'
  BY <1>1, <1>5 DEF Over
<1>7. ClosedHoldsNothing' /\ LoginInv' /\ LastInv' /\ LiveInv'
  BY <1>1, <1>5, <1>6 DEF IInv, ClosedHoldsNothing, LoginInv, LastInv, LiveInv, Reconnect
<1>8. \A j \in Closers : pc'[j] \in Closing => pc[j] \in Closing
  BY <1>2 DEF Closing, Threads
<1>9. \A c \in Connectors : ConnectorInv(c)'
  BY <1>1, <1>5, <1>8 DEF IInv, ConnectorInv, Reconnect
<1>10. \A r \in Refreshers : RefresherInv(r)'
  <2> SUFFICES ASSUME NEW r \in Refreshers PROVE RefresherInv(r)'
    OBVIOUS
  <2>1. RefresherInv(r) /\ pc'[r] = pc[r]
    BY <1>5 DEF IInv
  <2> QED BY <1>1, <2>1 DEF RefresherInv
<1>11. \A x \in Exporters : ExporterInv(x)'
  BY <1>1, <1>5 DEF IInv, ExporterInv
<1>12. \A j \in Closers : CloserInv(j)'
  <2> SUFFICES ASSUME NEW j \in Closers PROVE CloserInv(j)'
    OBVIOUS
  <2>1. CloserInv(j) /\ CloserInv(k)
    BY DEF IInv
  <2>2. CASE j = k
    BY <1>1, <1>2, <1>6, <2>1, <2>2 DEF CloserInv, Closing
  <2>3. CASE j # k
    <3>1. pc'[j] = pc[j]
      BY <1>2, <2>3 DEF Threads
    <3> QED BY <1>1, <1>6, <2>1, <3>1 DEF CloserInv
  <2> QED BY <2>2, <2>3
<1> QED BY <1>3, <1>4, <1>7, <1>9, <1>10, <1>11, <1>12 DEF IInv

LEMMA CloseKeeps ==
  ASSUME IInv, NEW k \in Closers, Close(k)
  PROVE  IInv'
<1>types. /\ TypeOK /\ pc \in [Threads -> Labels] /\ k \in Threads /\ CloserInv(k) /\ "wait" \in Labels
          /\ k \notin Connectors \cup Refreshers \cup Exporters
  BY ClientAssumption DEF IInv, TypeInv, Threads, Labels, Closing
<1>1. CASE CloseBegin(k)
  BY <1>1, CloseBeginKeeps
<1>2. CASE CloseEngine(k)
  <2>1. /\ pc[k] = "engine" /\ Goto(k, "wait")
        /\ UNCHANGED <<client, connectMu, stored, locals, faults, drops>>
    BY <1>2 DEF CloseEngine
  <2>2. CASE mine[k] = 0
    BY <1>2, <2>1, <2>2, CloserGoes DEF CloseEngine
  <2>3. CASE mine[k] # 0
    <3>1. SetLink(mine[k], "closed") /\ "closed" \in Links
      BY <1>2, <2>3 DEF CloseEngine, Links
    <3>2. mine[k] \in DOMAIN engines
      BY <1>types, <2>3 DEF TypeOK
    <3>3. \A c \in Connectors : pc[c] \in {"dial", "publish"} => mine[c] # mine[k]
      <4>1. \A c \in Connectors : pc[c] \in {"dial", "publish"} => mine[k] < mine[c]
        BY <2>1 DEF IInv, ConnectorInv, Closing
      <4>2. mine[k] \in Nat
        BY <1>types DEF TypeOK
      <4> QED BY <4>1, <4>2
    <3>4. pc'[k] = "wait" /\ pc' \in [Threads -> Labels] /\ \A u \in Threads \ {k} : pc'[u] = pc[u]
      BY <1>types, <2>1, GotoFacts
    <3>5. closed /\ drops' \in 0 .. MaxDrops /\ drops' >= drops
      BY <1>types, <2>1, ClientAssumption DEF CloserInv, TypeOK
    <3>6. \A j \in Closers : pc'[j] = pc[j] \/ (j = k)
      BY <3>4 DEF Threads
    <3> QED BY <2>1, <3>1, <3>2, <3>3, <3>4, <3>5, <3>6, LinkKeeps
  <2> QED BY <2>2, <2>3
<1>3. CASE CloseWait(k)
  BY <1>3, <1>types, CloserGoes DEF CloseWait, ConnectIsOver, CloserInv
<1> QED BY <1>1, <1>2, <1>3 DEF Close

-----------------------------------------------------------------------------
(* Every step *)

LEMMA InitIInv == Init => IInv
<1> SUFFICES ASSUME Init PROVE IInv
  OBVIOUS
<1>1. /\ \A t \in Threads : pc[t] = "new"
      /\ pc \in [Threads -> Labels] /\ DOMAIN pc = Threads
  BY DEF Init, Labels
<1>2. TypeOK
  <2>1. engines = <<>> /\ engine = 0 /\ Len(engines) = 0
    BY DEF Init
  <2>2. engines \in Seq([link : {"dialling", "up", "down", "closed"}, jar : Cookies])
    BY <2>1
  <2>3. /\ mine \in [Threads -> 0 .. Len(engines)] /\ persists \in [Threads -> BOOLEAN]
        /\ picked \in [Threads -> Cookies \cup {None}]
        /\ previous \in [Refreshers -> Cookies \cup {None}]
        /\ saved \in [Refreshers -> Secrets \cup {None}]
    BY <2>1 DEF Init
  <2>4. faults \in 0 .. MaxFaults /\ drops \in 0 .. MaxDrops
    BY ClientAssumption DEF Init
  <2>5. stored \in Secrets /\ "first" \in Cookies
    BY DEF Init, Cookies, Secrets
  <2>6. /\ closed \in BOOLEAN /\ profile \in BOOLEAN /\ cookies \in Cookies \cup {None}
        /\ source \in {"none", "cookies", "credentials"} /\ (source = "cookies" <=> cookies # None)
    BY <2>5, ClientAssumption DEF Init
  <2>7. connectMu \in (Threads \ Closers) \cup {Free} /\ engine \in 0 .. Len(engines)
    BY <2>1 DEF Init
  <2> QED BY <1>1, <2>2, <2>3, <2>4, <2>5, <2>6, <2>7 DEF TypeOK
<1>3. LockInv
  BY <1>1, ClientAssumption
     DEF Init, LockInv, Working, Connecting, Refreshing, Changed, Undoing, Exporting
<1>4. ClosedHoldsNothing /\ LoginInv /\ LastInv /\ LiveInv
  BY DEF Init, ClosedHoldsNothing, LoginInv, LastInv, LiveInv
<1>5. \A c \in Connectors : ConnectorInv(c)
  BY <1>1 DEF ConnectorInv, Threads
<1>6. \A r \in Refreshers : RefresherInv(r)
  <2>1. \A r \in Refreshers : pc[r] = "new" /\ saved[r] = None
    BY <1>1 DEF Init, Threads
  <2> QED BY <2>1 DEF RefresherInv, Refreshing, Changed, Undoing
<1>7. \A x \in Exporters : ExporterInv(x)
  BY <1>1 DEF ExporterInv, Exporting, Threads
<1>8. \A k \in Closers : CloserInv(k)
  BY <1>1 DEF CloserInv, Closing, Threads
<1> QED BY <1>1, <1>2, <1>3, <1>4, <1>5, <1>6, <1>7, <1>8 DEF IInv, TypeInv

LEMMA StepIInv == IInv /\ [Next]_vars => IInv'
<1> SUFFICES ASSUME IInv, [Next]_vars PROVE IInv'
  OBVIOUS
<1>1. CASE \E c \in Connectors : Connect(c)
  BY <1>1, ConnectBeginKeeps, ResolveCookiesKeeps, LoginKeeps, KeepLoginKeeps, CreateEngineKeeps,
     DialEngineKeeps, PublishEngineKeeps DEF Connect
<1>2. CASE \E r \in Refreshers : RefreshAuth(r)
  BY <1>2, RefreshBeginKeeps, RefreshReadKeeps, RefreshEngineKeeps, SnapshotReadKeeps, SnapshotPutKeeps,
     RollbackKeeps, StoreRefreshedKeeps DEF RefreshAuth
<1>3. CASE \E x \in Exporters : AuthSnapshot(x)
  BY <1>3, ExportBeginKeeps, ExportReadKeeps, ExportKeepKeeps DEF AuthSnapshot
<1>4. CASE \E k \in Closers : Close(k)
  BY <1>4, CloseKeeps
<1>5. CASE \E e \in DOMAIN engines : LinkDrops(e) \/ LinkReturns(e)
  BY <1>5, LinkDropsKeeps
<1>6. CASE UNCHANGED vars
  <2>1. /\ UNCHANGED <<closed, engine, cookies, source, profile, connectMu, engines, stored, pc>>
        /\ UNCHANGED <<mine, persists, picked, previous, saved, faults, drops>>
    BY <1>6 DEF vars, client, locals
  <2>2. TypeInv' /\ LockInv' /\ ClosedHoldsNothing' /\ LoginInv' /\ LastInv' /\ LiveInv'
    BY <2>1 DEF IInv, TypeInv, TypeOK, LockInv, ClosedHoldsNothing, LoginInv, LastInv, LiveInv, Over, Reconnect
  <2>3. \A c \in Connectors : ConnectorInv(c)'
    BY <2>1 DEF IInv, ConnectorInv, Reconnect
  <2>4. (\A r \in Refreshers : RefresherInv(r)') /\ (\A x \in Exporters : ExporterInv(x)')
    BY <2>1 DEF IInv, RefresherInv, ExporterInv
  <2>5. \A k \in Closers : CloserInv(k)'
    BY <2>1 DEF IInv, CloserInv, Over
  <2> QED BY <2>2, <2>3, <2>4, <2>5 DEF IInv
<1> QED BY <1>1, <1>2, <1>3, <1>4, <1>5, <1>6 DEF Next

\* A refresh becomes "failed" by one of three steps of its own.
LEMMA WhoFails ==
  ASSUME IInv, Next, NEW r \in Refreshers, Fails(r)
  PROVE  RefreshEngine(r) \/ Rollback(r) \/ StoreRefreshed(r)
<1>types. pc \in [Threads -> Labels] /\ r \in Threads /\ r \notin Closers
  BY Callers DEF IInv, TypeInv
<1>1. ASSUME NEW t \in Threads, NEW label, Goto(t, label), label # "failed" \/ t # r
      PROVE  FALSE
  <2>1. pc' = [pc EXCEPT ![t] = label]
    BY <1>1 DEF Goto
  <2>2. pc'[r] = IF t = r THEN label ELSE pc[r]
    BY <1>types, <2>1
  <2> QED BY <1>1, <2>2 DEF Fails
<1>2. ASSUME NEW c \in Connectors, Connect(c) PROVE FALSE
  <2>1. \E label \in {"resolve", "login", "create", "dial", "publish", "end"} : Goto(c, label)
    <3>1. CASE ConnectBegin(c)
      BY <3>1 DEF ConnectBegin
    <3>2. CASE ResolveCookies(c)
      BY <3>2 DEF ResolveCookies, ConnectReturns, Leave
    <3>3. CASE Login(c)
      BY <3>3 DEF Login, ConnectReturns, Leave
    <3>4. CASE KeepLogin(c)
      BY <3>4 DEF KeepLogin, ConnectReturns, Leave
    <3>5. CASE CreateEngine(c)
      BY <3>5 DEF CreateEngine, ConnectReturns, Leave
    <3>6. CASE DialEngine(c)
      BY <3>6 DEF DialEngine, ConnectReturns, Leave
    <3>7. CASE PublishEngine(c)
      BY <3>7 DEF PublishEngine, ConnectReturns, Leave
    <3> QED BY <1>2, <3>1, <3>2, <3>3, <3>4, <3>5, <3>6, <3>7 DEF Connect
  <2> QED BY <1>1, <2>1 DEF Threads
<1>3. ASSUME NEW x \in Exporters, AuthSnapshot(x) PROVE FALSE
  <2>1. \E label \in {"export", "keep", "end"} : Goto(x, label)
    BY <1>3 DEF AuthSnapshot, ExportBegin, ExportRead, ExportKeep, Leave
  <2> QED BY <1>1, <2>1 DEF Threads
<1>4. ASSUME NEW k \in Closers, Close(k) PROVE FALSE
  <2>1. \E label \in {"noop", "engine", "wait", "end"} : Goto(k, label)
    BY <1>4 DEF Close, CloseBegin, CloseEngine, CloseWait
  <2> QED BY <1>1, <2>1 DEF Threads
<1>5. ASSUME NEW e \in DOMAIN engines, LinkDrops(e) \/ LinkReturns(e) PROVE FALSE
  BY <1>5 DEF LinkDrops, LinkReturns, Fails
<1>6. ASSUME NEW u \in Refreshers, RefreshAuth(u)
      PROVE  u = r /\ (RefreshEngine(r) \/ Rollback(r) \/ StoreRefreshed(r))
  <2>t. u \in Threads
    BY DEF Threads
  <2>1. ~RefreshBegin(u)
    BY <1>1, <2>t DEF RefreshBegin
  <2>2. ~RefreshRead(u)
    BY <1>1, <2>t DEF RefreshRead, Leave
  <2>3. ~SnapshotRead(u)
    BY <1>1, <2>t DEF SnapshotRead
  <2>4. ~SnapshotPut(u)
    BY <1>1, <2>t DEF SnapshotPut, Put, UndoStart
  <2>5. CASE u # r
    <3>1. RefreshEngine(u) \/ Rollback(u) \/ StoreRefreshed(u)
      BY <1>6, <2>1, <2>2, <2>3, <2>4 DEF RefreshAuth
    <3>2. \E label : Goto(u, label)
      BY <3>1 DEF RefreshEngine, Rollback, StoreRefreshed, Leave
    <3> QED BY <1>1, <2>5, <2>t, <3>2
  <2> QED BY <1>6, <2>1, <2>2, <2>3, <2>4, <2>5 DEF RefreshAuth
<1> QED BY <1>2, <1>3, <1>4, <1>5, <1>6 DEF Next

LEMMA StepRestores ==
  ASSUME IInv, [Next]_vars, NEW r \in Refreshers,
         Fails(r), faults' <= 1, drops = 0, ~closed
  PROVE  Restored(r)
<1>types. TypeOK /\ RefresherInv(r) /\ faults \in Nat
  BY ClientAssumption DEF IInv, TypeInv, TypeOK
<1>1. RefreshEngine(r) \/ Rollback(r) \/ StoreRefreshed(r)
  <2>1. Next
    BY DEF Fails, vars
  <2> QED BY <2>1, WhoFails
<1>2. CASE RefreshEngine(r)
  <2>1. pc[r] = "refresh" /\ saved[r] = None /\ engines[mine[r]].jar = previous[r]
    BY <1>2, <1>types DEF RefreshEngine, RefresherInv
  <2>2. engines' = engines
    <3>1. ASSUME NEW label, Goto(r, label), label # "failed" PROVE FALSE
      <4>1. pc'[r] = label
        BY <3>1 DEF Goto, IInv, TypeInv, Threads
      <4> QED BY <3>1, <4>1 DEF Fails
    <3> QED BY <1>2, <3>1 DEF RefreshEngine
  <2> QED BY <2>1, <2>2 DEF Restored
\* One call has failed before the rollback, so that the rollback does not.
<1>3. CASE Rollback(r)
  <2>1. /\ pc[r] = "rollback" /\ faults > 0 /\ mine[r] = engine /\ mine[r] \in 1 .. Len(engines)
        /\ previous[r] \in Cookies /\ (faults <= 1 /\ saved[r] # None => stored = saved[r])
    BY <1>3, <1>types DEF Rollback, RefresherInv, Refreshing, Changed, Undoing
  <2>2. mine[r] # 0 /\ mine[r] \in DOMAIN engines /\ engines \in Seq(Engines)
    BY <1>types, <2>1 DEF TypeOK, Engines, Links
  <2>3. Connected(mine[r])
    BY <2>1, <2>2 DEF IInv, LastInv, Connected
  <2>4. ~NetworkFails
    BY <1>types, <2>1 DEF NetworkFails, StoreFails
  <2>5. SetJar(mine[r], previous[r]) /\ faults' = faults /\ stored' = stored
    BY <1>3, <2>3, <2>4 DEF Rollback, RollbackCookies
  <2>6. engines'[mine[r]].jar = previous[r]
    BY <2>1, <2>2, <2>5, SetJarFacts
  <2> QED BY <2>1, <2>5, <2>6 DEF Restored
<1>4. CASE StoreRefreshed(r)
  <2>1. pc'[r] = "done"
    <3>1. Goto(r, "done")
      BY <1>4 DEF StoreRefreshed, ClosedMeanwhile, Leave
    <3> QED BY <3>1 DEF Goto, IInv, TypeInv, Threads
  <2> QED BY <2>1 DEF Fails
<1> QED BY <1>1, <1>2, <1>3, <1>4

-----------------------------------------------------------------------------
(* Theorems *)

\* One operation at a time, and each knows which engine and which cookies are the client's.
THEOREM ClientKeepsItsInvariant == Spec => []IInv
<1>1. Init => IInv
  BY InitIInv
<1>2. IInv /\ [Next]_vars => IInv'
  BY StepIInv
<1> QED BY <1>1, <1>2, PTL DEF Spec

\* Every field of the client has its type; connectMu is never held by a Close.
THEOREM ClientTypes == Spec => []TypeOK
<1>1. IInv => TypeOK
  BY DEF IInv, TypeInv
<1> QED BY <1>1, ClientKeepsItsInvariant, PTL

\* A closed client holds no engine, cookies, source or secret store, for any number of
\* operations that were about to store one.
THEOREM AClosedClientHoldsNothing == Spec => []ClosedHoldsNothing
<1>1. IInv => ClosedHoldsNothing
  BY DEF IInv
<1> QED BY <1>1, ClientKeepsItsInvariant, PTL

\* When Close has returned, every engine from the client's last one on is closed: also one
\* that a Connect was creating at that time.
THEOREM CloseLeavesNoEngine == Spec => []CloseEndsEngines
<1>1. IInv => CloseEndsEngines
  <2> SUFFICES ASSUME IInv, NEW k \in Closers, pc[k] = "end"
               PROVE  /\ connectMu = Free
                      /\ \A e \in DOMAIN engines : e >= mine[k] => engines[e].link = "closed"
    BY DEF CloseEndsEngines
  <2>1. CloserInv(k) /\ connectMu = Free /\ mine[k] \in Nat /\ engines \in Seq(Engines)
    <3>1. CloserInv(k) /\ k \in Threads /\ TypeOK
      BY DEF IInv, TypeInv, Threads
    <3> QED BY <3>1 DEF CloserInv, TypeOK, Engines, Links
  <2>2. \A c \in Connectors : pc[c] \notin {"dial", "publish"}
    <3>1. \A t \in Threads : pc[t] \notin Working
      BY <2>1, ClientAssumption DEF IInv, LockInv
    <3>2. \A c \in Connectors : c \in Threads
      BY DEF Threads
    <3> QED BY <3>1, <3>2 DEF Working, Connecting
  <2>3. ASSUME NEW e \in DOMAIN engines, e >= mine[k] PROVE engines[e].link = "closed"
    <3>1. e \in Nat /\ e # 0
      BY <2>1
    <3>2. CASE e = mine[k]
      BY <2>1, <3>1, <3>2 DEF CloserInv
    <3>3. CASE e > mine[k]
      BY <2>1, <2>2, <3>3 DEF CloserInv, Closing, Over
    <3> QED BY <2>1, <2>3, <3>1, <3>2, <3>3
  <2> QED BY <2>1, <2>3
<1> QED BY <1>1, ClientKeepsItsInvariant, PTL

\* Between operations a reconnect would use the live cookies, unless a call has failed.
THEOREM ReconnectsWithLiveCookies == Spec => []ReconnectUsesLiveCookies
<1>1. IInv => ReconnectUsesLiveCookies
  <2> SUFFICES ASSUME IInv, connectMu = Free, engine # 0, faults = 0
               PROVE  engines[engine].jar = Reconnect
    BY DEF ReconnectUsesLiveCookies, Reconnect
  <2>1. \A r \in Refreshers : pc[r] \notin Changed
    BY ClientAssumption DEF IInv, LockInv, Working, Refreshing, Threads
  <2> QED BY <2>1 DEF IInv, LiveInv
<1> QED BY <1>1, ClientKeepsItsInvariant, PTL

\* A refresh that fails because of one failing call leaves the jar and both secrets as they
\* were, whatever the other callers do.
THEOREM AFailedRefreshRestores == Spec => RefreshRestores
<1>1. IInv /\ [Next]_vars =>
        [\A r \in Refreshers : Fails(r) /\ faults' <= 1 /\ drops = 0 /\ ~closed => Restored(r)]_vars
  BY StepRestores
<1> QED BY <1>1, ClientKeepsItsInvariant, PTL DEF Spec, RefreshRestores
=============================================================================
