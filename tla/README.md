# A TLA+ model of meta.go

meta.go is a Go client for Messenger and Facebook: a library (`client.go`), a command line, and
a runtime process that Node and Python programs drive over gRPC. This directory models the parts
of it whose correctness depends on order — goroutines, closed channels, failing calls, crashes,
processes that start and stop each other — and the message format the processes share. TLC checks
the models on small instances; TLAPS proves every safety property of theirs, the two refinements
and one composition, for every instance.

Paths below are relative to the repository. `PROJECT.json` names, for every definition, the
lines it models.

## 1. The system

| Component | State | Operations | Talks to |
|---|---|---|---|
| Session event fan-out (`internal/runtime/session/events.go`) | `closed`, subscribers and their bounded channels, `sequence`, drop counters | `Subscribe`, `publish`, `Subscription.Close`, `Session.Close` | called by the client's transport goroutines and by gRPC streams |
| Session manager (`internal/runtime/session/manager.go`) | map of sessions | `Create`, `Get`, `Close`, `CloseAll` | owns one client per session |
| Runtime server (`internal/runtime/server`, `cmd/meta-runtime`) | gRPC server, manager, the phase of `main` | bootstrap line, `Serve`, signal, `Shutdown`, one handler per call | SDKs |
| Transport engine (`internal/meta/engine.go`, `events.go`, `messagix_backend.go`) | atomic flags and states, `connectMu`, one bounded channel, handlers | `Connect`, `ConnectE2EE`, `Close`, `emit`, 60 request operations | messagix and whatsmeow call its handler |
| Client (`client.go`) | `closed`, `engine`, cookies and their source, profile, `connectMu` | `Connect`, `RefreshAuth`, `AuthSnapshot`, `Close`, `On` | creates engines, reads and writes a profile |
| Profile manager (`auth/profile.go`) | none of its own | `Rename`, `Remove`, `Logout`, `SaveAuthSnapshot`, imports | the two stores |
| Stores (`storage/`, `internal/fsutil`) | a map in memory or one file | `Get`, `Put`, `Delete`, each atomic | – |
| E2EE device store (`internal/meta/device_store.go`, `device_state.go`) | identities, sessions, sender keys, pre-keys with counter and uploaded set | the store interfaces of whatsmeow; every change writes a snapshot | whatsmeow, the secret store |
| Node SDK (`sdk/node/src`) | the child process, one pump, listeners, iterators with a queue each | start, handshake, stop; `on`, iterate, `close` | runtime server |
| Python SDK (`sdk/python/src/mewisme_meta`) | the same with `asyncio` queues and tasks | the same | runtime server |
| Generated protocol (`sdk/node/src/gen`, `proto/`) | none | `fromPartial`, `encode`, `decode`, `toJSON`, `fromJSON` per message | SDK and runtime of different versions |
| Requests, parsing, services, CLI, login | little or none | request building and response parsing | Facebook |

What is hard in each, and what makes it correct:

* **Fan-out.** Publishers, consumers and `Close` meet in one channel per subscriber. Nobody may send
  on or close a closed channel (Go panics, the whole runtime dies); a slow consumer loses the oldest
  events, never the newest, and every loss is counted; nothing survives `Close`.
* **Server.** A signal may come at any moment: before the process catches it, during a call that
  will create a session, with streams open that nobody closes or whose clients have stopped
  reading. A runtime that exits by itself must
  have closed every client.
* **Engine.** Emitters share a read lock and evict for each other; `Close` may be called by a
  handler that runs inside `emit`, and must cancel a connect in flight rather than wait for it.
* **Client.** `Close` changes the state first and then waits; each operation in flight has to look
  again before it stores a result. `RefreshAuth` changes three places and must undo them.
* **Profiles.** `Rename` is a transaction over seven or more independent store operations.
* **Device store.** What peers were told must be what the next process loads.
* **SDKs.** A bounded buffer per iterator, listeners that run arbitrary code between two events, a
  stream that ends while consumers wait, a process that must not be left behind.
* **Protocol.** Absent and zero are different values, and either side may be of a later version.

The hazards that follow from this are listed in `PROJECT.json`, each at its line with the
properties that cover it, or with the reason none does.

## 2. Modules

| Module | Models | State → code |
|---|---|---|
| `EventStream` | the promise of `docs/runtime-architecture.md` to a consumer of the runtime: numbered events, at most once, in order, none after the end | abstract |
| `SessionEvents` | the fan-out, one step per critical section or `select` | the variables carry the names of the Go fields; `pc` is each goroutine's place |
| `RuntimeServer` | `main`, `Shutdown`, the session manager and the handlers that reach a session | `phase` is where `main` is, `rpc` the state of each handler, `sessions` is `Manager.sessions`, `sweep` what `CloseAll` has still to close |
| `ManagedRuntime` | the Node SDK's `ManagedRuntime` and `MetaClient` as owner of that process | `owner` is where `MetaClient.create`, later `close`, stands |
| `IteratorPromise` | what either SDK promises to an iterator: no gap, "done" only after everything, an error only for a reason | abstract |
| `SdkEvents` | the `EventStream` classes of both SDKs, one step per stretch of code without an `await` | `sdk` says whose code runs; `queue[i]` is an iterator's buffer, flags and what its consumer is doing; `turn` is the response being handed out |
| `Engine` | connect, transport handlers, `emit`, gated requests, `Close` | `connected`, `regular`, … are the atomics; `readers` are the holders of `eventMu.RLock`; `socket` and `e2eeLink` say what messagix and whatsmeow do |
| `Client` | `Connect`, `resolveAuth`, `RefreshAuth` with `SaveAuthSnapshot`, `AuthSnapshot`, `Close` | an engine is its link and its cookie jar; `stored` are the profile's two secrets |
| `Profiles` | `Rename` with both rollbacks, `Remove` with `Logout` | `metadata` is the profile store, `secrets` the secret store |
| `DeviceStore` | pre-keys, uploaded set, counter, snapshot, rollback, crash, legacy import | `mem` is the process, `disk` the snapshot |
| `Schema`, `WireCommon`, `WireE2EE`, `WireEvents`, `WireFacebook`, `WireMessenger`, `WireSession` | the field table of every message and the numbers of every enum of the generated code, one module per file | a record per field: property, slot, number, kind, rule of presence |
| `Wire` | the functions the generator repeats for each table, once for all tables; the tables, the messages and the width of a varint are its constants | `wire` are the bytes as tokens, `json` the JSON object, `received` the message being built |
| `SessionEvents_proofs`, `ManagedRuntime_proofs`, `SdkEvents_proofs`, `Engine_proofs`, `Client_proofs`, `DeviceStore_proofs`, `Profiles_proofs`, `Wire_proofs` | theorems about the module they are named after | – |
| `MC…` | instances for TLC | – |

**Composition.** `RuntimeServer` extends `SessionEvents`: the fan-out's steps happen inside the
handlers of one traced session, the other sessions are only created and closed. `ManagedRuntime`
extends `RuntimeServer`: the two processes meet in the bootstrap line, in calls and in signals.
`Client` contains what it needs of `Engine` (a link that is dialling, up, down or closed) instead of
composing it: `Engine` shows that `Close` disconnects and returns, which `Client`'s `CloseEngine`
takes as one step. The session's `CloseClient` step likewise stands for `Client`'s `Close`.

**Refinement.** `SessionEvents` implements `EventStream` (`ImplementsStream`: `published <-
sequence`, `ended <- Swept`). `SdkEvents` implements `IteratorPromise` for either SDK
(`KeepsThePromise`: the history variables are the promise's, `end <- outcome`).

**Slips.** Each module defines the small decisions of the code as operators of their own (`Room`,
`ClosedMeanwhile`, `StillThere`, …) and beside each one the slip it might have been (`Bug…`). No
specification uses a `Bug…` operator; `PROJECT.json` pairs each property with the one that breaks
it, so that every property is known to be able to fail.

### Granularity

A step is what others can tell apart. A critical section whose effects nobody sees before the
unlock is one step; sections that others look into, because a channel is drained without the
mutex or an atomic is read without it, are several. Two stores to different atomics are two steps
where another thread's store in between shows (`ConnectStoreFlag`/`ConnectStoreState`); `Close`'s
stores are grouped in pairs that no modelled reader separates. The SDKs run on one thread: a step
is the code between two `await`s, except that handing one response to its listeners is a step per
listener, since each runs the caller's code.

## 3. Runs

| Run | Instance | Shows |
|---|---|---|
| `session_events` | 2 publishers, 2 subscriptions, 1 closer, buffer 2, 3 events; publishers and subscriptions symmetric | the types, 7 safety properties and the refinement to `EventStream` |
| `runtime_server` | a Node owner; `main`, 2 `CreateSession` calls, 1 stream, 1 `CloseSession`, 1 publisher, buffer 1, 2 events | a runtime that exits leaves no session, shutdown ends, no runtime is left behind, `publish` never waits for a consumer, closing ends every stream whose client reads or cancels |
| `sdk_events` | both SDKs; 2 iterators, 2 listeners, buffer limit 2, 4 events | the refinement to `IteratorPromise`, the sentinel fits, a Node iterator keeps what it has buffered and ends with an error only after handing all of it out, no consumer waits for ever |
| `engine` | 1 connector, 1 closer, both transports with every kind of event, buffer 1, 3 events | no panic, every event accounted for, nothing on the network after `Close` |
| `engine_live` | 1 connector, 1 requester, both transports; a failing connect or a handler closes | `Close`, `emit`, requests and consumers come to their end |
| `client` | 2 connectors, 2 refreshers, 1 exporter, 1 closer, 2 failing calls, 1 drop; a profile with no secret, with cookies, or with cookies and a session | a closed client holds nothing, refresh restores, reconnect uses the live cookies, `Close` returns |
| `profiles` | 2 renames of one profile to different names, removal of another, 1 failing operation | nothing is lost at any moment, one home afterwards, no orphaned secrets |
| `device_store` | 2 callers, 4 IDs, 1 failing write, 1 crash; every initial snapshot | memory equals snapshot, an ID names one key, handed keys are kept, only handed ones are marked |
| `wire` | every message; up to two slots given at a time, or all of them, 64-bit numbers up to one beyond either end of their range; one field or oneof variant that only one side knows | values and their presence survive bytes and JSON; other v1 versions are understood |
| `client_refresh` | 1 connector, 1 refresher, 1 failing call, 1 drop | **violated**: an undo that is refused (finding 1) |
| `client_reconnect` | 2 connectors, 1 drop | **violated**: two engines deliver (finding 2) |
| `profiles_race` | the same rename twice, no failure | **violated**: the profile's secrets are gone (finding 3) |

Every module that models code over several steps has a type invariant, but for `Wire`, whose messages
are typed by its assumption, and `ManagedRuntime`, which adds only the place its owner is at.
`session_events` checks the one of its module. All are proved: those of `SdkEvents`, `RuntimeServer`, `Engine`, `Client`, `DeviceStore` and `Profiles` are part of the inductive invariants of
section 4 (for `Profiles` under its hypothesis).

**Bounds.** `session_events`: three events fill a buffer of two and evict from it; two publishers
and two subscriptions let each thread meet another of its own kind and one of every other kind. In
`runtime_server` a buffer of one makes every second event evict; one stream and one closer meet
`main` in every phase, and the second creator is a session nobody subscribes to. In `sdk_events`
four events overflow a buffer of two with one taken by a waiting consumer; two iterators show that
one is failed without the other, two listeners that one is taken off, throws or closes while the
other is still to be called. In `client` two failing calls allow a failing save with a failing undo;
one drop allows the link to be down at any one place. In `profiles` one failing operation reaches
every rollback; two renames and one removal reach every pair of operations. `device_store` needs two
callers for batches that overlap and four IDs for a batch that mixes old and new keys. In `wire` two
slots at a time reach every pair of fields of a message in either order. `Half = 2` stands for 2^63: an
`int64` is then -2 to 1 and a `uint64` 0 to 3, all of which are tried with the first number beyond
either end. Bytes of every length from 0 to 4 reach each padding of base64; dates lie before, at and
after 1970, with milliseconds (`MCWire` holds the tables, their later versions and the messages tried; in
`Wire` they are constants). Deadlock is not checked, because every thread does its
work and stops; that nobody waits for ever is stated as liveness instead.

**Fairness.** Code that runs goes on (weak fairness per goroutine or task).

* `SessionEvents` and `RuntimeServer` assume strong fairness where a thread waits for `eventMu`, which
  others may take infinitely often: Go's mutex hands itself to a waiter that has waited long enough.
  Main's steps, its ten-second timer included, are strongly fair too, since new calls and a stream's
  progress may disable and enable them (`Quiet`). `CreateSession` returns: it reads stores and makes a
  client, and logs nobody in. A stream at its channel goes on when that is closed, and one anywhere
  returns when `Stop` has cancelled its context. A stream inside `stream.Send` need not return, since gRPC's
  flow control makes it wait for a client that does not read, and closing the session's channel does
  not release it. `CloseEndsStreams` alone has, as the premise `SendReturns`, that the client of the
  stream reads or cancels; `ShutdownEnds` and `PublishReturns` hold without it.
* `ManagedRuntime`: what is ready on the owner's event loop runs and its timers fire (weak fairness).
  Nothing makes the owner start a runtime or close its client.
* `SdkEvents`: settled promises, woken tasks and the turn in progress are run by the event loop; that
  a listener returns is the only assumption about the caller's code.
* `Engine`: a call into the transport is only sure to return when its context is cancelled, which is
  all `CloseReturns` and `RequestsEnd` may use. `Client`: every network and store call returns. The
  engine's calls end with their timeout or with `Close` (`requestContext`); a login (`client.go:255`) and
  the validation of a source (`client.go:321`) have the caller's context only and rest on the timeouts
  of the HTTP clients they use (`auth/login.go:423`, messagix).

Never assumed: that a consumer receives, that a client reads its stream (but for the premise above), that the source of a stream speaks, that anyone connects,
closes, publishes, cancels or sends a signal.

## 4. Proofs

Every theorem holds for every finite or infinite set of threads, sessions, iterators, …, every buffer
and every number of events, failing calls, drops and crashes, under the assumptions each module
states about its constants: buffers and limits are positive, bounds are numbers, and threads of
different kinds are different threads (`SessionEvents`, `Engine`, `Client`, `Profiles`,
`RuntimeServer`). In each
module the properties are not inductive; what is added, and why, is this.

**Fan-out** (`SessionEvents_proofs`: the types, all safety properties, the action property and the
refinement).

* `MutexInv`, `FanInv`: a thread inside a loop under `eventMu` holds it, `closed` is stable knowledge
  for a closer that has begun, the subscribers still to serve are registered, and the one being
  served is among them. So a send never meets a closed channel.
* `ChanInv`, `FreshInv`: open channels are exactly those registered; one that has not registered has
  no history. So a close never meets a closed channel.
* `ServedInv`: a registered subscriber has been offered everything up to `sequence`, but for the
  event that is being fanned out and has not reached it. So queues stay consecutive.
* `ClosedInv`: after the sweep nobody is in a loop and nobody is registered; a `publish` or
  `Subscribe` that waited for the mutex looks at `closed` again.

The refinement (`StepStream`) maps the publisher's lock step to `Emit`, the subscriber's to `Join`,
`Receive` to `Deliver`, the closer's unlock to `End`, and everything else to a stutter.

**Runtime** (`ManagedRuntime_proofs`). `RuntimeRunsTheSession` is the composition theorem: every step
of the owner, the process and its handlers is a step of `SessionEvents` or leaves it alone, so the
theorems above hold inside the process: it does not panic (`RuntimeNeverPanics`), its consumers' buffers
and counters are right (`RuntimeDeliversInOrder`), and it implements `EventStream` for each of them
(`RuntimeKeepsThePromise`), whatever signals, failing calls and closers do around it. `ExitLeavesNoSession` rests on `RInv`:
either the process died (`killed`, `failed`), or a live session is in the map, in the sweep, or in the
hands of a `CloseSession` that has taken it out (`PlaceInv`), at most one closer works on the traced
session (`OneCloserInv`), and from `drained` on no handler runs (`QuietInv`) — so that a session
cannot be registered after `CloseAll` has emptied the map.

**SDK streams** (`SdkEvents_proofs`). The invariant is, per iterator, `Shape` (where the end marker
may be, what each state of the consumer implies), `InOrder` (the event in hand and the buffer are a
gapless stretch of the log) and `Complete` (the stretch reaches to the end of the log unless the
iterator has given up). There is one lemma per queue operation of the code, used for both SDKs. The
refinement maps the end of a turn to `Offer`, the ends of the stream to `Stop`, `Begin` to `Join`,
`Deliver` to `Receive` or `End`, `Leave` to `End`, and everything else to a stutter.

`NodeDrains` proves the action property of the Node iterator for every step: what has been handed out
and what is buffered together only ever grow (`ReachGrows`: neither overflow, nor a failing stream, nor
`close` takes an event back, where Python discards its queue), and an error is handed out only over an
empty buffer (`HeldFacts`), with nothing missing at all when it is the stream that failed and the
iterator had not overflowed.

**Engine** (`Engine_proofs`). `DialInv`: `connectMu` is held exactly by the connector that dials;
`ReaderInv`: `eventMu` is held for reading exactly by the emitters at the channel; `OnceInv`: one
thread at a time runs what `closeOnce` guards, and when it is done no emitter is at the channel;
`OffInv`: once disconnected, nothing reconnects. The events in the emitters' hands are counted by
`Hand`, and each step of `emit` moves one of them between hand, channel and drops (`Balance`).

**Client** (`Client_proofs`). The profile may have no session yet, or no secret at all; the undo
of a save then deletes what the save had put. Every operation but `Close` runs under `connectMu`, so a step belongs to
the one operation under way (`Turn`, `Alone`) and what is known of the others is kept (`TurnKeeps`).
`ConnectorInv`, `RefresherInv`, `ExporterInv` and `CloserInv` say what each thread knows in each
place: a `Connect` owns the newest engine and will publish the cookies a reconnect would use; a
refresh knows its engine's jar before and after, which secrets it has put, and that it undoes only
after a fault; a closer knows that every engine beyond its own is closed or still owned by a
`Connect` that will close it (`Over`, `LastInv`). `LiveInv` is the jar's side of
`ReconnectUsesLiveCookies` while a refresh is on its way.

**Device store** (`DeviceStore_proofs`). An ID at or beyond the counter was never in use (`CounterInv`),
every key pair still there is the one its ID was handed out for (`KeyInv`), and a batch being
collected leaves out no key below its own that nobody was given (`BatchInv`); memory is always the
snapshot, so a crash changes nothing of this. A legacy list of uploaded keys is loaded as it is and may
name keys that were consumed before. Its IDs are taken to lie below the counter that is loaded
with it: the import moves the counter past the keys there are (`device_state.go:212`), not past that list, so
this rests on the program that wrote it having marked only IDs it had generated.

**Profiles** (`Profiles_proofs`). These theorems have a hypothesis, `Apart`: every rename has a target
of its own, which no other call renames or removes, and at most one store operation fails. Without
either part `NothingLost` is false (finding 3).

A rename reads, for each secret, first the new name and then the old one, two operations of the store
(`RenameProbe`, `RenameRead`) between which others come.

* `RenamesLoseNothing`: `SafeInv` says where a secret is: under the old name, or carried by a rename
  that has deleted it there (`Carries`) and has it under the new name (`RenameInv`). The case that
  needs the bound on faults is a rollback that cannot restore a secret: `MoveInv` shows that without
  a fault at most one rename of a profile gets as far as deleting and none goes back, so that a
  rename which does has used up the fault.
* `ProfilesHaveOneHome` needs to know what is at every name, not only that it is somewhere:
  `PlaceInv`. The new name of a rename holds what that rename has put there and nothing else
  (`ToInv`); the old name holds all it had, minus what the one rename that is past the copying has
  taken (`HomeInv`, `TakenFrom`), provided that what a rename reads is what the profile held
  (`Clear`: it is alone, or nothing has failed and the profile is still under its old name).
  `Quiet` is the side condition of `Settled`, which the property has too: once an operation has
  failed, only one rename of that profile has begun to write. Each action's lemma shows which names
  it touches (`Frame`) and that these still obey `PlaceInv`.
* `NothingIsOrphaned` needs one hypothesis more, that nobody removes a profile which is being renamed:
  a removal between a rename's reads and its writes leaves secrets under a name without a profile. `OtherInv` covers the names that nobody renames.

**Protocol** (`Wire_proofs`: all three properties). The theorems hold for every two tables in which a
number and a slot mean the same field (`Table` of their union: the additive versions of
CONTRIBUTING.md), every message whose slots hold what their fields may hold, and every size of the
64-bit types (`Half`). `WireInv` says where the tokens of each field are in the bytes: `at[f]` is the place before
its first, `taken[f]` of them have been read. Encoding puts a field's tokens behind what is there
(`AddTokens`), so the order of the fields does not matter; decoding finds at the front the next token
of exactly one field (`TakeToken`), because a tag tells the number (`OneTag`), and stores its entry
behind those it has (`StoreEntry`), or skips it. When the bytes are used up every token has been
read, and `OwedIs` says, slot by slot, that this is what the reader is owed: an entry that was not
written is a zero, which is what the reader's default is. The values survive because each conversion
has an inverse on what a field may hold. In bytes, a date is rebuilt from its seconds and nanoseconds
whatever its sign (`DateSurvives`), and a number that fits comes back from its two's complement
(`LowBits`), a negative one too. In JSON, each of the conversions of the generated code is modelled by what
it does and shown to be undone: decimal text of a signed number (`TextSurvives`), the ISO time (`TimeSurvives`), base64 group by
group and with its padding (`GroupSurvives`, `OctetsSurvive`), names of enums and rounding, which leaves whole
numbers alone (`JsonBack`). The one thing JSON does change, an enum value without a name, the
property says (`Arriving`).

Only model-checked: every liveness property and every property of a run that expects a violation,
the former because fairness and ENABLED are out of the prover's reach. That the tables of the
generated code satisfy the assumptions of `Wire` (`WireAssumption`) is evaluated by TLC for every
message and every version the run `wire` tries.

## 5. Findings

1. `client_refresh`: the rollback of a refresh that could not be saved goes through
   `Engine.RefreshAuth`, which refuses on a link that has dropped; the live jar keeps the new cookies.
   `docs/authentication.md:72` says failed refreshes restore the previous state. `RefreshRestores`
   states what does hold: a single failing call with the link up and no `Close` meanwhile is undone.
   (TLC's trace may take another way to the same refused rollback, the answer for another account.)
2. `client_reconnect`: `Connect` on a client whose link is down replaces the engine without closing it.
   Both reconnect, and every event is delivered twice. (`docs/runtime-architecture.md:88` promises
   "at-most-once" for the protocol, whose events are those such a client hands to its session.)
3. `profiles_race`: of two concurrent equal renames the second rolls back by deleting the new name,
   where the first has just moved the only copy. The same loss follows from a single `Rename` with
   two failing operations (a secret that cannot be deleted, then one that cannot be restored,
   `auth/profile.go:313`), which is why `profiles` allows one.

Without a run, because nothing in the repository promises otherwise: `Engine.Connect` stores
`connected` and the state `Health` shows without a lock against the transport's handler
(`internal/meta/engine.go:219`), so the two may disagree until the next transport event.

## 6. Not modelled

* Requests, response parsing, services, cookies and sources, credential login, the CLI, logging:
  sequential code whose state, if any, is the client's or a profile's. `Client` keeps of a login that
  it succeeds or fails, and of cookies where they came from.
* The upload of media through the runtime (`receiveMedia`): two goroutines and a pipe, planned.
* In the SDKs: the request helpers of `client.ts` (a `timeoutMs` between 0 and 1 becomes 0 there),
  `distribution.ts`, conversion of authentication sources; in Python coroutine listeners, which run as
  tasks of their own and may meet their own cancellation (a hazard), and the managed process, which
  does what `runtime.ts` does. A listener registered while a response is being handed out.
* In the protocol: the encodings the protobuf library does for strings, 32-bit integers, doubles and
  nested messages; that a 32-bit field holds a whole number within its range, which `encode` does not
  check and `toJSON` rounds, is a precondition (`Value`). A day of an ISO time is its number, not its calendar
  date; `JSON.stringify`, which turns NaN into null, and what `fromPartial` makes of a string given for a
  number are outside. The recursion limit of 100, the snake_case names `fromJSON` also takes, service definitions, and the code generated for Go and
  Python. A nested message is one opaque value; it is a message of its own elsewhere in the tables.
* Time. Deadlines appear as calls that may fail and timers as steps that may come at any moment; how
  long `Close` waits for a login that has only the caller's context (`client.go:255`) is not expressed.
* Handler registration (`On`), the timestamps and counters of Health other than drops.
* The server's own changes to an engine's cookies (Set-Cookie): a jar changes with a refresh only, so
  `ReconnectUsesLiveCookies` says nothing of a rotation since the last export or refresh.
* `PutDevice`, which writes the fields of the device: of what `DeviceStore` keeps it changes nothing, and
  memory is the snapshot already.
* The bytes of keys and sessions: `DeviceStore` tells keys apart by number and treats identities,
  sessions and sender keys as one set of users.
* Two processes on one file (`storage/file.go`), two sessions on one profile.

## 7. What could be added

In this order:

1. `MediaStream`: the pipe of `receiveMedia`, its early returns and its cancellation.
2. `FileStores`: two processes on one file; then a composition of `Profiles` with the device store's
   persistence hook, which keeps the name a profile had when the client was made.
3. Pure decisions as operators against reference definitions: transport choice in
   `messenger/service.go`, the media size limit, error classification, login steps.
4. A refinement proof that `Engine`'s `Close` is what `Client` takes as one step.
