# Verification of the Manisa hub

TLA+ models of the Manisa hub (`cmd/manisa-core`, `internal/...`) and of the app
that talks to it (`apps/mobile`), the TLC runs that check them on small
instances, and TLAPS proofs for every value of the constants.

## 1. Inventory

The hub is one Go process between a **Matter server** (a separate service,
reached over WebSocket) and the **apps** (REST and one WebSocket). SQLite holds
what must survive.

| Component | State | Operations | Works with |
| --- | --- | --- | --- |
| Event bus (`application/eventbus.go`), sessions (`serveEvents` in `httpapi/router.go`) | sequence, subscriber map under an RWMutex, one buffered channel per client | publish, subscribe, unsubscribe; receive, write, leave | called by ApplyMatterAttribute; feeds the apps |
| Matter event stream (`matterjs/listener.go`, `runMatterEvents` in `main.go`, `ApplyMatterAttribute`) | one connection, the message being dispatched, `device_states` | dial, start_listening, dispatch, persist, publish, back off | Matter server, SQLite, bus |
| Commissioning (`CommissionDevice`, `createDevice`, `matterjs/client.go`) | a request's progress, the fabric, `devices` | validate, commission, insert, roll back | Matter server, SQLite, app |
| SQLite pool and schema (`storage/sqlite`) | pooled connections with their pragmas, tables | open, migrate, one statement per call | everything above |
| Capability model (`capability`, `mapDeviceCommand`) | none (pure) | attribute to state, command to Matter command | event stream, commands |
| Commands (`ExecuteDeviceCommand`, `Execute`) | one connection per command | validate, send, wait | Matter server, app |
| Process and REST requests (`main.go`, `router.go`, `auth`, `auth_store.go`, the rest of `service.go` and `store.go`) | homes, rooms, devices, `local_clients`; the requests under way | start, signal, Shutdown, Close, crash; authenticate, pair, create, list | SQLite pool, app |
| Mobile app (`app_controller.dart`, `manisa_realtime.dart`) | selected home, lists, states, subscription | initialize, pair, select, load, listen | REST, WebSocket |
| Discovery, configuration, ids, user interface | none | I/O; widgets | |

What is hard, and the property it calls for:

- **Slow clients.** `publish` is on the goroutine that reads the device events
  and holds a read lock while it sends. It must never wait, and what it drops
  must be the oldest. Its three `select` statements are not one step.
- **A mirror kept over an unreliable stream.** Lost connections, messages cut
  short, failed writes, restarts: the stored states must never go back, must be
  current when the stream is quiet, and must become current again after any
  failure. What is announced must be stored already.
- **One device in two stores.** The node is on the fabric before its row is in
  the table; a timeout, a client that leaves, a failed insert or a failed
  rollback may separate them.
- **Events before registration.** The events of a node are ignored until its
  row exists, and the node announces itself first.
- **A screen fed by two channels.** The app's calls overlap and share one
  loading flag; lists, states and events reach it in any order, and may have been
  read long before. It must settle, show the home that is selected, and show
  states that are current.
- **Commands without an order.** Each is a goroutine and a connection of its own,
  and the app's slider posts one for every move. What is refused must not reach
  a device, and a level goes to 0..254 and back without changing.
- **One set of network credentials.** A commissioning request sets them in one
  call and relies on them in the next, and the Matter server keeps one set for
  all. A device should join the network its own request named.
- **Pragmas on one connection of a pool.** `foreign_keys` holds where it was set;
  the connections that are opened later, because that one was taken or was closed
  after an interrupt, do not have it.
- **A process that ends at any time.** What a client was told must be true after a
  restart, its token must still work; a shutdown must neither cut a request off
  early nor wait for one for ever.

`PROJECT.json` lists each of these under "hazards" with its line and the
properties that cover it.

## 2. Plan

In this order, the most important behaviour first.

1. [done] `RealtimeFeed`, `EventBus`, `EventBusProofs`: the bus implements an abstract feed.
2. [done] `StateMirror`, `MatterEvents`, `MatterEventsProofs`, `MatterSyncProofs`:
   the event stream and its failures; the hub implements an abstract mirror of the devices' states.
3. [done] `Commissioning`, `CommissioningProofs`: two stores, late answers,
   rollbacks, network credentials.
4. [done] `MobileApp`, `MobileAppProofs`: overlapping calls, late answers, the realtime stream and the
   hub's bounded buffer.
5. [done] `Capability`, `Commands`, `CommandsProofs`: the catalog and the level
   scale, concurrent commands and their way back.
6. [done] `HubApi`, `HubApiProofs`: the process, the connection pool and the REST
   requests.
7. [done] Proofs of every safety property the passing runs check.

## 3. The modules

**`RealtimeFeed`** is the abstract feed of `WS /api/v1/events`: announced events
are numbered, a connected client only moves forward, may skip, and is not left
behind.

**`EventBus`** is `eventbus.go` and `serveEvents`. `publish` is one action per
statement a goroutine can be stopped at: `Publish` takes the number,
`AcquireRead` the read lock, then for each subscriber in any order (`range` over
a map) `Send`, or `SendFull`, `Drain` and `Resend`; `ReleaseRead` ends it. A
session is `Subscribe`, `Receive`, `WriteDone` or `WriteFails`, `Leave`,
`Unsubscribe`. The lock is `WriteLockFree`: subscriptions change only when no
publisher is between `AcquireRead` and `ReleaseRead`. An event is its number.
There is one publisher, because `publish` is only called by
`ApplyMatterAttribute`, which only the goroutine started in `main` calls.

**`StateMirror`** is what the hub promises of device states, with connection,
messages and failures left out: a copy that may miss values and be late, never
goes back or shows a value that never was, announces only what is stored, and
catches up.

**`MatterEvents`** is the path of a state into the hub. A value is the number of
the change that made it, so that order and loss show. The listener is `Dial`,
`SkipUnmatched` (`call` passes over what is not its answer), `TakeResult`,
`TakeEvent`, `TakeShutdown`, `ReadFails`, `EndBatch`; each attribute of the
message in dispatch goes through `Ignore`, or `Accept`, `Persist`, `Announce`, in
any order (`range` over a map). `Close` is the deferred end of `Listen`, `Retry`
the loop in `runMatterEvents`. `Import` is the insert by `CommissionDevice`.
`Ignored` stands for the values `FromMatterAttribute` turns away. The Matter
server is external: it answers `start_listening` with a snapshot of all nodes and
sends the changes from then on; node events carry all attributes of a node. `Mirror` is the instance of
`StateMirror`; due are the attributes of the devices registered from the start,
with a value the hub reports (for the others see section 6).

**`Commissioning`** is `POST /api/v1/matter/commission`. Each request is a
goroutine at a `step`. The Matter server carries out a command also when the
connection it came by is gone, answers late or never, and never reuses a node id.
`InsertCancelled` is a statement that took effect although its context was
cancelled. `BadHome` are requests the foreign keys turn away. `SendCredentials` and
`ServerSets` are the call before the commissioning, for the requests that name a
network; `credentials` is the one set the server keeps (of the one transport that
`Network` is about), `joined` the network a node got. `mixed` is history: the
requests that had another network's credentials set between their own and their
commissioning. When the process ends (`HubStops`), an insert under way may still
take effect.

**`MobileApp`** is `AppController` with the requests and the stream it awaits. A
call is a coroutine in `call`: what was called (`op`) and what it awaits (`at`).
Dart interrupts code only at an `await`, so an action goes from one to the next:
`TokenRead`, `PairAccepted`, `HomesArrive`, `HomeCreated`, `DeviceCommissioned`,
`ListsArrive`, `StatesArrive`, `AllLoaded`. `HubLists` and `HubReads` are the hub
reading its tables, which happens before the answer arrives; `Decodes` is what an
empty list does to the app (the hub sends null). `Throw` and `Return` are the two
ways a call ends, with the shared `Finally`. `Tap` and `Select` are the user, who
touches what was built at the last `notifyListeners` (`Build`): the menu and the
pull to refresh work while something loads, the buttons do not. `Connected`,
`EventArrives` and `StreamEnds` are the realtime stream, and `Store`
and `Publish` the two steps by which the hub takes a new value; `MakeRoom` is
`publish` on a full buffer. A device has one state here; `feed` is what the hub
buffers and what is on the wire, in that order from its end. `overlapped` and
`raced` record which calls and changes met; the code has neither. `raced` is set
in four places: by `Store` while an answer with the old value is on its way, by
`Publish` while the stream is not open, by `MakeRoom` when it drops the last event
of a device, and by `StreamEnds` with unread events.

**`Capability`** is the catalog, `FromMatterAttribute` and `mapDeviceCommand` as
operators. An attribute path is a record, a JSON value a number, a boolean or
something else. `PercentOf` is `math.Round` in whole numbers (no value of 0..254
is half way), `MatterLevel` the truncation in `mapDeviceCommand`.

**`Commands`** is `POST /api/v1/devices/{deviceID}/commands`, one goroutine per
request: `Post`, then `Reject` with the `Verdict` of `ExecuteDeviceCommand`, or
`Send`, `Answer`, and `Fail` at any time. `Execute` and `Refuse` are the Matter
server, in any order, because every command comes by a connection of its own, and
also when the request has failed. `Touch` is a button on a device. `Apply` is
`ApplyMatterAttribute` for the next event; the stream does not fail here.
`asked`, `executed` and `overlapped` are history. A device sets the level it is
told to (the minimum level 1 that some keep also reads as 0 percent).

**`HubApi`** is the process and its REST requests. `Open`, `Signal`,
`DeadlinePasses`, `Close` and `Exit` are `main` from `sqlite.Open` to its return;
`Die` is the end at any other time. A request is a goroutine at a `step`:
`Accept` is `requireLocalAuth` and the routing, `Lookup` and `Touch` are the two
statements of `Authenticate`, `Refuse` an input the service turns away, `Handle`
the one statement of the handler. Each statement first takes a connection
(`Begin`), a free one or a new one, and gives it back (`Release`); `free` counts
those with and without foreign keys. A client that leaves cancels the context of
its request, which interrupts the SQLite connection; the driver (modernc.org/sqlite
1.58.0, `go.mod:8`, not in the repository) then reports it as not valid and
database/sql closes it instead of taking it back. The interrupt may also come too
late, so `Release` leaves both open for a client that left. `Fail` is any error of a statement,
`Leave` a client that goes, after which an insert may have taken effect and still
report an error (`Uncertain`). Lists and other reads are requests of one kind. A
row is known by the request that made it, a token by the pairing that gave it.
The background listener's statements use the same pool; for the pool they are
the same as those of a request, and its context, cancelled at the signal, is a
client that leaves. `disturbed` (two statements have overlapped, or a client left
during one) and `faulted` are history.

**`*Proofs`** hold the theorems of each; **`MC*`** give the constants for TLC.

## 4. The runs

| Run | Shows | Bounds |
| --- | --- | --- |
| `bus` | `NewestKept`: a buffer is always the unbroken run of the newest events. `EmptyMeansCurrent`: who has read everything has read the newest. `PublishReturns`: without any fairness of clients. `ImplementsFeed`: the bus is a `RealtimeFeed`, its liveness included when the sessions run | 2 clients with buffers 2 and 0 (so 1), 6 events |
| `matter_stream` | `AnnouncedIsDurable`; `Synced`: a quiet, connected listener has current states. `ImplementsMirror`: the hub is a `StateMirror`, which never goes back and catches up | 2 nodes (1 registered at the start), 3 values (1 of them null), 2 failures |
| `matter_import` | expected violation of `RegisteredConverges`, see section 6 | 2 nodes, the second commissioned while the listener waits for an event (`ReadingSpec`), no change and no failure |
| `commission` | `CreatedIsReal`, `FailureLeavesNothing`, `NoDeadDevice`, `JoinsItsNetwork`: a device is on the network its request named, unless another network's credentials were set between the request's own and its commissioning; `Answered` | 3 requests, 2 nodes, 2 networks |
| `app_load` | `Settles`: loading ends. `OneByOneShowsHome`: without overlaps and errors the right devices are shown. `PairingHoldsWithHomes`: on a hub that has a home only a failed request leaves an app with a token unpaired. | a hub with 2 homes or none, app paired or not, 4 homes, 2 devices (1 or both to commission), 2 calls at a time, 2 failures |
| `app_live` | `CurrentUnlessRaced`: a state shown is current, unless one of the four things that set `raced` happened | 2 homes, 2 devices, 3 values, buffer 1, 2 calls, 1 failure |
| `commands` | `OnlyOffered`: what reaches the Matter server fits a writable descriptor. `ShowsExecuted`: the stored level is the percent executed last. `AwaitedWins`: who waits for each answer gets what was asked last. | 2 requests, 4 devices, 18 bodies, 1 press |
| `serve` | `AnswersTrue`: an answer is true of the tables, for good. `PairingLasts`: a token stays valid. `ReferencesHoldUndisturbed`: references hold until statements overlap or a client leaves during one. `GracefulStop`, `Stops`: the database is not closed under a request before the deadline, and the process ends | 3 requests of 7 kinds, any number of crashes and restarts |
| `keys` | expected violation of `ReferencesHold`, see section 6 | 3 requests |
| `app_pair`, `app_select`, `app_stale` | expected violations, see section 6 | the least that shows each, no failure |

Why the bounds are enough. A buffer of 2 with 6 events overflows, drops and
overflows again, and a client can leave and return in between; buffer 0 covers
the correction to 1, and the two clients make the loop over subscribers meet a
full and a free one in either order. In `MatterEvents` two failures allow a
failure during the recovery from the first, three values a value that is
overtaken twice, and the second node one that is registered late; the ignored
values make an attribute that passes through an unusable value (null). Three
requests are a good one, one whose insert fails and one that is invalid, which
may all overlap; a request takes at most one node, so two nodes let both others
have one and make them share the server, and two networks are enough to mix up.
Two calls at a time are all that two answers need to cross, and each ended call
makes room for another; two failures may hit any request of any call, also the
one that follows a failed one; four homes leave one to create after two lost
answers. In `app_live` a device is in the home that is not selected, so that
events for devices that are not listed happen, and a buffer of 1 is full after
one event. In `commands` two requests are enough to cross, the bodies have each
reason to be refused, and the levels those that truncation would change (33) and
both ends; every level is covered by a proof. In `HubApi` a dangling reference
takes a pairing, a request that holds the first connection and one that inserts;
a reference that holds takes a pairing, a home and a room. Which request crashes
or leaves is free, and the pool keeps `MaxIdle` = 2 connections as database/sql
does, so that three requests also close one. `MaxStream` only bounds spontaneous
`node_updated` events.

Deadlock is checked except where a system really stops: all requests ended
(`commission`, `commands`), all values sent and nothing failing (`matter_import`).
`HubApi` never stops: the process can always be started or end.

Fairness. `PublisherSpec`: the publisher's goroutine runs; nothing is asked of
clients, which is the point of `PublishReturns`. `SessionsRun`, under which
`ImplementsFeed` promises that clients catch up, says that
a session's goroutine runs and its write ends, which the five-second context of
`serveEvents` guarantees. `FairSpec` of `MatterEvents`: the listener's goroutine
and its backoff timer run and the server answers `start_listening`; values,
failures and registrations are never forced. `FairSpec` of `Commissioning`: a
request's goroutine runs, as every call it makes has a deadline (60 s in
`withConnection`, 15 s for the rollback); the server may do nothing for ever.
`FairSpec` of `MobileApp`: each call is answered or fails. The app sets no timeout,
so this is an assumption on the network, and a hub that vanishes silently is
listed as a hazard; the user, the stream and changes are not forced.
`FairSpec` of `HubApi`: the deadline of Shutdown passes, Shutdown then returns and
main with it; no request need ever make a step.

## 5. The proofs

For any constants that satisfy the named assumptions (`BusAssumption`,
`EventsAssumption`, `CommissioningAssumption`, `CommandsAssumption`,
`ApiAssumption`, `AppAssumption`):

- `EventBusProofs`: `TypeCorrect`, `NewestKeptHolds`, `EmptyMeansCurrentHolds`,
  `ImplementsFeedSafety`. The invariant must add what the lock guarantees
  (`LockInv`: subscriptions do not change inside the loop) and that nobody can
  fill the slot the drain has made (`RoomInv`), as there is one publisher.
- `MatterEventsProofs`: `TypeCorrect`, `AnnouncedIsDurableHolds`,
  `ImplementsMirrorSafety`: every step is one of `StateMirror` or a stutter. Along the pipeline — stored, in dispatch, unread,
  actual — the values of an attribute never decrease (`OrderInv`). A sent value
  is an actual one, taking a message keeps the order, and what is persisted is
  at least what was stored.
- `MatterSyncProofs`: `SyncedHolds`. The order says that nothing on its way is too
  new; here something on its way is new enough. `Followed`: behind an outdated
  value, in the stream or in dispatch, a message with the actual one waits.
  `Answered`: the answer to `start_listening`, or what follows it, has every actual
  value, so what changed without a connection is not lost. `Covered`: from then
  on each value is on its way or has arrived. `Registered` is why a device whose
  row comes late may stay without a state: its node announced itself before.
- `CommissioningProofs`: `TypeCorrect`, `CreatedIsRealHolds`,
  `FailureLeavesNothingHolds`, `NoDeadDeviceHolds`, `JoinsItsNetworkHolds`. `Path` relates a request's
  step to the server's side of it, `Fabric` that side to the fabric, and
  `Distinct` keeps one request's rollback off another's node. For the networks,
  `Own` says that from a request's own credentials to its node the server has
  those, unless the request is in `mixed`; only `ServerSets` changes them, and
  marks in the same step the requests for which that comes too soon.
- `CommandsProofs`: `LevelRoundTrip` (arithmetic over all percents), and of the
  machine `TypeCorrect`, `OnlyOfferedHolds`, `ShowsExecutedHolds`,
  `AwaitedWinsHolds`. `CatalogFacts`
  goes through the catalog: what supports `on_off` or `level` has it writable,
  and a dimmer has both. `Mirrored` says that the last event of an attribute
  carries its value, or there is none and the table has it; `Levels` that a
  level is at what its last command made of the percent; `Sent` that a command
  at the server has passed the checks. For the client that waits, `Alone` says
  that one request at most is under way and that a 204 is the server's answer;
  `Kept`, that what was asked for is what the pending request expects or, if it
  leaves that key alone, what the hub stores for the attribute as it is. It is
  kept only while nothing failed (`Orderly`): a command whose request failed may
  still be carried out, after later ones.
- `MobileAppProofs`: `TypeCorrect`, `OneByOneShowsHomeHolds`,
  `CurrentUnlessRacedHolds`, `PairingHoldsWithHomesHolds`, `LoadingRunsHolds`. `TypeOK` has `KeepsWhatItAwaits`, which says what a call
  holds at each `await`. `OneCall`: without overlapping selections one call runs
  at most, what it asks for is of the selected home, and so are the devices on the
  screen once their states are asked for. `Followed`: until a value misses the
  screen, answers on their way and the last event of a device are current (unless
  its next event is about to be published), and what is shown of a device with no
  event on its way is too; `Orderly` adds that a stream that is not open is empty
  and that one state is published before the next is stored. `AloneAtFirst`: a call
  that has no homes yet runs alone, so nothing but its own failure can undo a
  pairing. `LoadingRuns` is the safety half of `Settles`: loading is never left set
  with no call to reset it.
- `HubApiProofs`: `TypeCorrect`, `ReferencesHoldUndisturbedHolds`, `AnswersTrueHolds`,
  `PairingLastsHolds`, `GracefulStopHolds`. What a client knows was answered, what was
  answered is stored and nothing deletes a row, so a token's row is there
  whenever it is looked up. `Single`: until statements overlap or a client leaves
  during one, the only connection there is, in use or free, is that of `Open`, so an
  insert with a dangling reference does not pass.

Every invariant of a passing run is proved. Model-checked only is liveness
(`PublishReturns`, `Reaches` in `ImplementsFeed`, `CatchesUp` in `ImplementsMirror`,
`Answered`, `Settles`, `Stops`), which is outside the prover's reach.

## 6. Findings

`matter_import`. `ApplyMatterAttribute` ignores the events of a node "until they
are explicitly imported" (`service.go:120-121`). The node announces its
attributes while `CommissionDevice` is still waiting for the server, so they are
ignored, and nothing reads them once the row is inserted. The new device has no
state until one of its values changes or the stream happens to reconnect.

`app_pair`. On a hub without homes `ListHomes` returns a nil slice, which goes out
as `null` and which the app's `_list` cannot cast. `pair` has one `try` for the
pairing and the first load, so the app falls back to unpaired although the hub
took the code and the token is stored. With a home on the hub only a failed request
can do that (`PairingHoldsWithHomes` in `app_load`, which is also proved). After a restart the app is paired and can
create a home; the same null then makes every load of a home without rooms fail
(`ListsUnreadable`, in `app_load`), and the app has no way to create a room.

`app_select`. `selectHome` assigns what arrives without looking whether its home
is still selected. Two selections whose answers cross leave the devices of one
home under the name of the other.

`app_stale`. States are loaded first and events subscribed to afterwards; what
changes in between is in neither. Also, `_loadDevice` replaces values that events
brought by those of an answer that was read before. `CurrentUnlessRaced` in
`app_live`, which is also proved, shows that there are only two ways more: the hub
drops an event from the full buffer of a slow app, and the stream ends: what was
not read by then, or is published afterwards, is lost to the app.

`keys`. SQLite keeps `foreign_keys` per connection, and `Open` sets it on the one
connection that the pool has then. A second statement at the same time gets a new
connection without it, and so does the next statement after the pool has closed
that one because a client left during its statement. So the "SQLite with WAL and
foreign keys" of README.md:69 holds only until then: a room or a device is stored
for a home that does not exist, and answered with 201. `ReferencesHoldUndisturbed` in `serve`, which is also
proved, shows that these are the only two ways to it. The run's trace has the
first, `/health/ready` overlapping a pairing.

## 7. What is not modelled

Discovery, configuration, identifiers, the app's widgets and HTTP client: I/O and
formatting without state of their own. Of the app, `sendCommand` is in
`Commands`, its descriptors are not modelled. The slider of the app posts a level
for every move and waits for none: `Commands` has these requests, whose order
nothing in the code or its documents promises (`AwaitedWins` is about a client
that waits). Of the tables' contents `HubApi` has ids and references; names, times
and the order of lists, which is by the text of a time, are left out. Backoff
durations are abstracted to "later". A half-open connection that is never
noticed, and a message above the WebSocket library's read limit, are listed as
hazards but not modelled: the code states nothing for them that could be checked.
Statements are atomic, as SQLite makes them; `busy_timeout` and the write lock
between two connections are part of a statement that waits or fails.
