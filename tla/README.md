# A TLA+ model of the OCPP simulator

The repository simulates OCPP 1.6J charge points in the browser and runs a small
central system for them. This directory holds TLA+ modules that model its
components, TLC configurations that check them on small instances, and theorems
about them that TLAPS checks for every value of the constants. `PROJECT.json`
lists components, runs, mutants, findings, hazards and theorems, and maps every
definition to the source lines it stands for.

Paths below are relative to the repository; `src/` is its root.

## 1. The system

```
 browser (apps/web)                 ocpp-gateway              message-processor
 chargePointStore ─ GatewayClient ══ WebSocket ══ Registry ── MQTT ocpp/{id}/in ──> Handler
   │    ^                                            ^                               │ HTTP
   │    └────────────── frames ──────────────────────┴── MQTT ocpp/{id}/out <────────┤
 realtimeStore, browserDb (IndexedDB)                         ^          ^           v
                                                              │          │        ocpp-core
                                                     csms.Service   answers   transaction.Service
                                                              └── canonlog.Service (reads both topics)
                                                                              PostgreSQL
```

| component | state it keeps | operations |
|---|---|---|
| charge point runtime (`apps/web/src/stores/chargePointStore.ts`) | per charge point: registration, connectors (status, cable, scheduled availability), transactions by connector, pending calls, timers | buttons, answers of the central system, remote commands, timer callbacks, socket events |
| gateway client (`apps/web/src/ocpp/gatewayClient.ts`, connection part of the store) | a WebSocket, the reconnect timer, whether it was closed on purpose; the status shown | connect, close, socket events, reconnect |
| browser database (`apps/web/src/db/browserDb.ts`, `api/chargePointsApi.ts`) | IndexedDB stores of charge points, connectors and logs | create, update, delete, import, clear, each of several transactions |
| live log (`apps/web/src/stores/realtimeStore.ts`) | the list of events on the page | append (and store, and prune), load, delete |
| ocpp-gateway (`apps/ocpp-gateway/internal/gateway`) | registry: one connection per charge point id, each with an outbound channel and a `closed` channel; the MQTT subscriptions | WebSocket handler (subscribe, register, read, disconnect), writer, MQTT callback |
| message-processor (`apps/message-processor`) | none but ocpp-schemas' cache of compiled schemas; the audit log it writes | one goroutine per frame: decode, answer locally or ask ocpp-core, validate, publish |
| transaction service (`apps/ocpp-core/internal/transaction`, `api/server.go`, `db/transaction_repo.go`) | the counter `nextID`; the table `transactions` | start (allocate, INSERT, roll back), stop (look up, UPDATE), seed the counter |
| CSMS commands (`apps/ocpp-core/internal/csms`) | the counter `uniqueID` | one HTTP handler per command |
| canonical log (`apps/ocpp-core/internal/canonlog`, `db/message_log_repo.go`) | the table `ocpp_message_logs` | one goroutine per frame |
| ocpp-protocol, ocpp-schemas, `ocpp/callResponses.ts` | none (the schema cache apart) | encode, decode, build, parse, validate, answer |

Not modelled: the 2.0.1 placeholder, the pending-call registry and the factory of
ocpp-protocol, runtime events, migrations, settings, the Vue pages. Section 7 says why.

### What is hard here

* **Goroutines between two critical sections.** `Service.Start` holds its mutex to
  allocate an id and again to roll it back, and talks to the database in between.
  `Registry.Register` and `Registry.Disconnect` take a connection out under the mutex
  and tear it down after it.
* **One name for several objects.** The gateway finds connections by charge point id,
  the store finds runtimes by charge point id and the MQTT client has one subscription
  per topic, while old and new objects with the same name overlap in time.
* **Answers in any order, late, or never.** The browser's calls are not serialised:
  between a call and its answer the user, the central system and timers change the
  connector.
* **Read, await, write.** An operation of the browser's database reads in one
  transaction and writes whole records in later ones; other operations, an import or a
  reload of the page come in between.
* **Crash and partial failure.** An INSERT may commit and be reported as failed; the
  counter dies with the process; the HTTP timeout of the processor does not stop
  ocpp-core; either process ends and restarts while the other goes on.
* **Several readers of one frame.** Go's codec, ocpp-core's log and the browser decode
  the same bytes with different code, from bodies in which members are missing, null or
  of another type.
* **Undefined behaviour.** ocpp-schemas' cache is a Go map shared by concurrent
  goroutines without a lock.

`PROJECT.json`'s `hazards` lists these places line by line with the properties that
are aimed at them.

### What makes each component correct

* transaction service: ids are fresh and unique; what the charge point was told is in
  the table and stays there; a stop changes the row it names.
* gateway: every connection is torn down exactly once; a new session replaces the old
  one and works; frames keep their order; nobody is stuck for good.
* processor: every CALL is answered once; a result is backed by ocpp-core's table; the
  audit log agrees with the wire.
* charge point: one transaction per connector; an id belongs to the transaction that
  asked for it; a stop is sent once and ends; status is reported as it is; nothing is
  sent before registration.
* gateway client: one live socket per charge point; it comes back; the status shown is
  the socket's.
* CSMS and log: call ids are distinct; the log says what was on the wire.
* codec, schemas and answers: a queued command says to the charge point what its schema
  allows; an answer is one its schema knows; no decoder takes an answer for a CALL.
* browser database and live log: connector numbers and counts are right; the newest
  events are kept and shown in order.

## 2. Modules

| module | models | state ↔ code |
|---|---|---|
| `TransactionLedger` | (abstract) what the transaction service promises | keys (charge point, transactionId) that are `active` or `stopped`; `started`, `ended` are those a charge point was told of |
| `TransactionService` | `service.go`, the start and stop handlers of `server.go`, `transaction_repo.go` | `nextID` is `Service.nextID`; `row`, `writer`, with `cp` and `numericID`, are the table; `pc` is where a request's handler is |
| `Processor` | `handler.go`, `core_client.go`, `audit.go`, `paho_broker.go`, `validator.go` | `pc` is the goroutine of a frame; `cache` is `schemaCache`; `audit` is the last audit event of a frame; `core`, `effect` are the request at ocpp-core |
| `CentralSystem` | the two above together, and `handleAuthorize` | a frame's request at ocpp-core is the request of `TransactionService` of the same name |
| `Gateway` | `ws.go`, `gateway.go`, `registry.go`, `paho_broker.go` | `registry` is `Registry.conns`; `outbound`, `closed` are the channels of a `Connection`; `pc`, `writer`, `dispatch` are the three kinds of goroutine; `subscribed`, `link` are the MQTT client |
| `ChargePoint` | the session half of `chargePointStore.ts` | `conn` is `connectorStates`; `tx` and `older` are the Map `transactions` and its order; `pending` is `pendingCalls`; `timers` are the armed `setTimeout`s |
| `GatewayClient` | `gatewayClient.ts`, the connection half of the store | `runtime`, `status`, `registration`, `heartbeat` are the entry of `cpStates`; `ws`, `intentional`, `timer` are the fields of each client |
| `CoreMessaging` | `csms/service.go`, `canonlog/service.go`, `message_log_repo.go` | `uniqueID` is `Service.uniqueID`; `row`, `createdAt` are the table; `wire` is what the broker saw |
| `OcppJ` | `codec.go`, `protocol.go`: JSON values, frames, encode and decode | operators |
| `V16` | `pkg/v16`, the structs of the programs, the schemas they validate with | operators |
| `CommandPath` | what a frame says on the way from an HTTP body to the charge point and back, and from pkg/v16 to message-processor and back | `out`, `in` are the frames on the two topics |
| `BrowserDb` | `browserDb.ts` and `chargePointsApi.ts`, charge points and connectors | `chargePoint`, `connectors`, `nextId` are the stores; `pc`, `got`, `rows`, `number` are the async functions under way |
| `LiveLog` | `realtimeStore.ts`, the logs of `browserDb.ts` | `live` is `events`; `stored` is the store `ocppLogs`; the rest are async functions under way |

`MC…` modules only add symmetry sets and the JSON values of `command_path`.
The theorems are in eight modules: `TransactionServiceProofs`, `CentralSystemProofs`
(about `Processor` and `CentralSystem`), `GatewayProofs`, `ChargePointProofs`,
`CommandPathProofs` (about `GatewayClient` and `CommandPath`), `CoreMessagingProofs`,
`BrowserDbProofs` and `LiveLogProofs`.

An action is one atomic piece of the code: a critical section, a statement at the
database, one channel operation, one JavaScript callback, one IndexedDB transaction.
Between two pieces of one goroutine or async function any other may move. What
PostgreSQL, the MQTT broker, the paho client, the browser's WebSocket, the network and
the user do is external: it is the weakest behaviour the code can meet (a publish may
be lost, a call may time out with or without effect, an event may come late).

Definitions that a comment introduces as a *mutated form* or *mutant* are not part of
the specifications: each changes one action the way a plausible mistake would, and
stands next to the action it changes. `PROJECT.json` pairs each property with a mutant
that breaks it.

### Choices worth knowing

* **TransactionService.** A request stands for the row it creates. `tainted` is a
  history variable: some roll-back since the process started was *unsafe*, that is,
  another id was handed out since the allocation it undoes, or the id did reach the
  table; or an INSERT took effect after its caller was gone (`LateCommit`). It appears
  in no guard. `Restart` clears it, because `InitCounter` reads the table afresh.
  `ImplementsLedger` does not depend on it: the unique index over charge point and id
  keeps the keys of the ledger apart whatever the counter does. A statement whose
  process ended, or whose caller was told of an error, is *adrift*: it may still take
  effect at any later time (`Late`), after `InitCounter` has read the maximum too. So a
  500 means nothing about the table.
* **CentralSystem.** `Processor` has an abstract ocpp-core: a queued request is
  answered in either way, with or without effect, or not at all. `CentralSystem` puts `TransactionService` in its place, and
  `ProcessorAlone` says that the processor cannot tell the difference. Each process
  crashes and restarts on its own; a request outlives the processor that made it.
* **Gateway.** `CloseOnce` is left out; `TeardownOwned` shows that it is never
  contended. `Unsubscribe` drops the topic's only subscription whoever made it, as
  paho does. The broker keeps subscriptions over a lost link (`CleanSession` false).
  What a charge point sends is not bounded; frames to it are.
* **Processor.** A goroutine is at `lookup` while it reads the map and at `store`
  while it writes it. If two overlap and one writes, the runtime may end the process
  (`RaceCrash`), or nothing is noticed.
* **ChargePoint.** A call keeps the number of the StartTransaction it is, so that
  properties can say whose answer an id came from; the code's own matching (`Unbound`,
  `IsFirst`) does not look at it. Meter values, idTags and fault codes are data no
  property looks at. Timers carry no durations: any armed timer may fire next. The
  `await` in `sendInitialStatusNotifications` is such a timer.
* **GatewayClient.** Sockets that ended keep their undelivered events: `failed` has an
  error and a close event to come, `closed` a close event. Of the heartbeat interval in
  an accepted boot answer only whether it is other than 0 is kept (`interval`):
  `scheduleHeartbeat` arms nothing for 0, and leaves a timer of an earlier registration.
* **CoreMessaging.** A unique id is the number drawn from the counter and random bytes.
  The increment is a read (`Load`) and a write (`Store`) between `Lock` and `Unlock`, so
  that the mutex does the work it does in the code. The counter begins anew with the
  process; ids of two lives differ only as far as the random bytes do, so nothing is
  claimed of them, and the run has one random value, the worst case.
* **OcppJ, V16, CommandPath.** A JSON value is a tagged tuple, an object a function from
  member names. Binding a body to a struct, with zero values for missing and null
  members and errors for ill-typed ones, `omitempty`, and defaults are operators; of a
  schema, `required`, types, `enum` and lengths of the members the programs use are kept.
  One frame is under way at a time: order, loss and crashes are in the other modules.
  `IsJSON` says which tuples are JSON values; the constants `Values` and `Elements` are
  any such values, not only those of the run.
* **BrowserDb.** One charge point id; any operation may run in any slot at any time. An
  import brings any records a file can hold. `solo`, `exact` and `clashed` are history.
* **LiveLog.** IndexedDB runs overlapping transactions in the order in which they were
  created, and an event's `put` is created by the append itself: the two are one step.
  The clock does not go backwards; several events may have one timestamp, and the store
  then gives them in the order of their random keys. `InOrder` gives a set as a sequence
  by the rank of each element: what the sorts and filters of the code return, in a form
  that can be reasoned about (no fact about the library's `SelectSeq` and `SetToSortSeq`
  is within the provers' reach). `Clear` empties the store and reloads the page. An
  import is in `BrowserDb` only, with charge points and connectors: that it replaces the
  stored log as well is in neither module.

## 3. Runs that pass

| run | instance | what it shows |
|---|---|---|
| `transactions` | 4 requests, 2 charge points, stops naming 1 or 2 | while no unsafe roll-back and no late INSERT happened, the counter is ahead of every id in use and INSERTs bring new ids (`IdsFresh`, `InsertBringsNewId`); a duplicate-key error implies one of the two (`DuplicateOnlyIfTainted`); rows are stopped by whoever named them (`StopsNamedRow`); and, whatever happened, the service implements the ledger (`ImplementsLedger`): a key is entered once, never leaves, stays stopped, and is confirmed only when it is there |
| `central` | 2 frames, a local and three core actions, either process crashing and restarting, failing publishes, failing and half-failing statements | at most one answer per CALL, none to anything else; a result is backed; the audit log agrees with the wire; what a `.conf` says is in the table (`ToldIsSo`); `CentralSystem` implements `Processor` (`ProcessorAlone`); no goroutine waits for ever (`CallSettles`) |
| `gateway` | 2 sessions, 1 id, channel of 1, 2 frames out, any number in, link faults | a registered connection is in the registry, owned by one goroutine, or closed (`TeardownOwned`); frames reach sockets in order, none twice; a closed session publishes at most one more frame; the shared callback returns, closed sessions end, dead ones leave the registry |
| `cp_session` | 1 connector, 1 start, all buttons, all commands but RemoteStop, socket faults, call errors | a StopTransaction is sent once, has a deadline and ends (`StopOnce`, `StopHasDeadline`, `StopSettles`); a connector shown as Charging has a live transaction |
| `cp_two` | 2 connectors, 2 starts, session buttons, RemoteStop, socket faults, call errors | an id is held once, and the shared meter timer runs |
| `client` | 4 Connects | one live client; shown as connected only with a socket; heartbeat armed while registered with an interval other than 0; a lost socket is reopened unless the user gives up |
| `core_messaging` | 2 commands, 1 random value, 1 other frame of any kind, a crash and restart, 1 clock tick | the ids of one life of the process are distinct because of the mutex, were the random bytes all equal (`CallIDsDistinct`); the log is faithful, frames that are no OCPP included (`LogIsFaithful`) |
| `command_path` | every command with bodies of up to all its members from 12 JSON values, foreign frames of up to 5 elements, every CALL of pkg/v16 | what ocpp-core queues, the charge point understands, with the same content (`QueuedIsUnderstood`); answers pass their schema (`AnswerIsSpecExact`); what the codec takes for a CALL is answered under its id, with a result exactly for the eight commands, and what it takes for an answer is not answered, so the two ends never answer each other's answers (`AnswerFollowsCall`); a CALL of pkg/v16 gets an answer pkg/v16 reads, and an error only if ocpp-core failed or the idTag is empty (`LibraryCallIsAnswered`) |
| `browser` | 2 operations at a time, any number after each other, at most 2 connectors ever created, imports, clears, reloads | after a change made on its own `connectorCount` is the number of connectors, whatever was mixed up before (`CountIsExact`); connector numbers are distinct until two `createConnector`s, or one and an import, meet between list and insert, or an import brings a clash; of the time after that nothing is said (`NumbersClashOnlyIfStale`) |
| `live_log` | 3 events of 2 charge points, 1 log kept per charge point, a live list of 2, reloads and clearings | once the prune of a charge point's last event is over, no more than the limit and all of the newest events are stored, whatever older prunes are still under way (`NewestKept`); the live list has each event once and in order per charge point (`LiveInOrder`) |

### Bounds, and why they are enough

* Four requests are what the deepest transaction history needs: two allocations that
  overlap, a third that repeats the rolled-back id, and a stop, or a fourth start that
  repeats the id of the second one. Requests are never
  reused, so the counter is bounded by their number.
* Two sessions of one charge point are a replaced and a replacing one; each may tear
  down the other. One frame fills the channel and a second blocks the callback. More
  sessions, sessions of several charge points, more frames and larger channels are
  covered by the proofs.
* Two frames are two goroutines that race on the cache, two transactions, or a start
  and the stop that names it. More are covered by the proofs; a third finds the cache
  filled, which a goroutine after a restart of the other process does too.
* Two connectors are what mixed-up answers need, two starts are what a second session
  on the same connector needs (`cp_two`). `cp_session` is about everything that can
  happen around one session. One unanswered call and one armed timer per kind and
  connector (`MaxCalls`, `MaxTimers`) keep the instances small; the 15 s timers of stops
  are not bounded, so that leftovers of earlier stops meet later ones.
* Four clients are a current one, one discarded with its events still queued, and two
  more for what those events hit. The proofs have no bound.
* The JSON values have one of each type, null, numbers below, at and above the schemas'
  limits, an empty, a good and a too long string and a member of each kind of
  enumeration; the lengths themselves are one model value (`TooLong`). The CALLs of
  pkg/v16 have an empty or a good idTag (`IdTags`) and numbers 0 and 1 (`Numbers`). The
  proofs have any JSON, any strings and any integers.
* Two operations are a reader with an outdated list and whoever outdated it. With two
  connectors a number is free, taken, or freed (`MaxIds`); the proofs have any bound.
* With one log kept, two events make a prune, and a third one that overlaps it; a live
  list of two is exceeded by three.
* Symmetry is used where a set of model values is interchangeable, never in a run with
  a liveness property.

### Fairness

Liveness is checked under weak fairness of goroutines that can run
(`Gateway!Fairness`, `Processor!FairSpec`, `CentralFairSpec`), and of queued events and
due timers in the browser (`ChargePoint!FairSpec`, `GatewayClient!FairSpec`): the Go
scheduler and the event loop give that. Nothing is assumed of peers, users, the broker,
the link, the restart of a process, or of ocpp-core in `CallSettles`. A WebSocket read is
not fair while the socket is open; it returns once the socket is closed. The 60 s write
deadline and the 5 s HTTP timeout are steps the goroutine itself takes.

`CHECK_DEADLOCK FALSE` is set where the environment may simply stop: all
bounded inputs are used up and the process is down or idle.

## 4. What the documents say and the code does not do

Each of these runs checks one statement of the repository's documentation, comments or
tests, and TLC finds it violated. `PROJECT.json`'s `findings` quotes the statement.

| run | property | in short |
|---|---|---|
| `transactions_unique` | `UniqueTransactionId` | a start that failed rolls the counter back behind the id of a concurrent start; both that start and a later one of another charge point are told the same id |
| `gateway_survives` | `NewSessionSurvives` | the deferred `Disconnect(cpID)` of a replaced session closes its successor |

The modules state more of what the documents ask for, or a limit in the code suggests,
and the code does not guarantee. They are not among the runs; put one of them into the
cfg named here, in the place of its properties, to see the behaviour that breaks it.

| property | cfg | statement | in short |
|---|---|---|---|
| `NextCallSucceeds` | `MCTransactionUnique` | `service.go:84` "The next call will reuse the same numeric value" | after an unsafe roll-back the next start fails on the unique index |
| `ServingIsSubscribed` | `MCGatewaySurvives` | `gateway_test.go:165`: the new connection goes on receiving | evicting the old session unsubscribes the topic of the new one |
| `EveryCallAnswered` | `MCCentralSystem`, `LinkFaults` and `Crashes` FALSE | `message-processor/README.md:8` | the race on `schemaCache` ends the process with CALLs unanswered |
| `ErrorStartsNothing` | `MCCentralSystem` | (what a CALLERROR suggests) | after a timeout, or an INSERT reported as failed, an active row stays that no charge point knows |
| `DecodersAgree` | `MCCommandPath` | `codec.go:66` "CALL frame must have 4 elements" | the browser answers CALLs of three and of five elements, which the codec refuses |
| `RegisteredBeats` | `MCGatewayClient` | `docs/bootnotification_flow.md:46` | a boot answer with interval 0 leaves a registered charge point without a heartbeat |
| `RequiredIsGiven` | `MCCommandPath` | `docs/ocpp_initiated_api_mapping_flow.md:179` "REQUIRED" | a missing `connectorId` is filled in with 0, the whole charge point, before the schema is checked |
| `BindsOwnId` | `MCChargePointTwo` | `plan.md:482` "Match by unique ID" | ids go to the first transaction without one, not to the one that asked |
| `NoDuplicateStart` | `MCChargePointTwo`, `MaxCalls = 2` | `OCPP_RULES.md:1235` | two Authorize calls in flight start two transactions on one connector |
| `FaultBlocksStart` | `MCChargePointSession` | `OCPP_RULES.md:607` | a fault during Authorize does not stop StartTransaction |
| `NoCallBeforeAccepted` | `MCChargePointSession` | `docs/bootnotification_flow.md:45` | a remote start makes an unregistered charge point send Authorize |
| `ReportsCurrentStatus` | `MCChargePointTwo` | `docs/heartbeat_statusnotificaiton_flow.md:104` | after each boot every connector is reported Available |
| `StatusChangeReported` | `MCChargePointTwo` | the same, line 105 | error paths change the status silently |
| `StartSettles` | `MCChargePointSession` | `plan.md:487` | a StartTransaction without an answer is waited for for ever |
| `ReconnectClears` | `MCChargePointSession` | `OCPP_RULES.md:221` | pending calls survive a reconnect |
| `OpenIsShown` | `MCGatewayClient` | `plan.md:1370` | a late event of an old client marks the new one as disconnected |
| `NewestFirst` | `MCCoreMessaging` | `message_log_repo.go:65` | rows of the log may be stamped in another order than the frames came |
| `NumbersDistinct` | `MCBrowserDb` | (what a connector number is for) | two clicks in quick succession create two connectors of one number |
| `LiveBounded` | `MCLiveLog` | the 100 of `realtimeStore.ts:14` | a load takes the list beyond its limit, and no append brings it back |
| `DeleteLeavesNothing` | `MCLiveLog` | (what deleting a charge point is for) | an event logged between the deletion's read and its deletes stays |

## 5. Proofs

All theorems hold for every value of the constants that satisfies the named
assumptions of the modules. These only say that bounds are numbers and switches Booleans,
that `None` is not a session, request, number or charge point, that no connector is 0,
that the kinds of actions do not overlap, and, in `OcppJ` and `CommandPath`, that strings
are strings, JSON values JSON values, and that neither the empty string nor a timestamp
is too long for the schemas.

Every invariant, action property and refinement that a passing run checks is also a
theorem. An invariant is seldom inductive alone; each bullet says what was added.

* **TransactionServiceProofs.** `TypeCorrect`; `CounterStaysAhead` (`IdsFresh`),
  `DuplicatesAreRollbacks`, `TableIsFaithful`, `InsertsAreFresh`. The invariants are
  not inductive alone. `IInv` adds `Lifecycle`: a handler that has not inserted has no
  row, one that has been told so has one, no handler is in flight while the process is
  down, a stop, adrift or not, holds a row that matches its own charge point and id, and
  a request that has not begun wrote nothing. The hard steps are `Restart` (the maximum
  of the table is ahead of everything because nobody who can still answer holds an id)
  and `Rollback` (a safe roll-back makes the counter equal to an id that only the caller
  held).
  `RefinesLedger` proves `ImplementsLedger` from `IInv` and `UniqueKeys` (no two rows
  have one charge point and id, which the unique index gives): an INSERT enters a key, an
  answer confirms one, an UPDATE stops one, late or not, everything else stutters.
* **CentralSystemProofs.** About `Processor`: `AtMostOneAnswer`
  (`AnsweredOnce`), `ResultsAreBacked` (`ResultIsBacked`), `AuditAgrees` (`AuditIsTrue`).
  `IInv` ties, frame by frame, how far the goroutine is to what it has published and
  audited (`Progress`) and to what ocpp-core did (`Backed`). About `CentralSystem`: every step of `CentralSystem` is a step of `TransactionService`
  or leaves it alone, so its theorems are cited through an INSTANCE. `Joint` relates, per
  frame, the handler at ocpp-core to what the processor sees of it; with it
  `CentralRefinesProcessor` (`ProcessorAlone`) shows that every step maps to one of
  `Processor`, and `ToldIsAlwaysSo` (`ToldIsSo`) joins what the processor published to
  what the table holds.
* **GatewayProofs.** `ExactlyOneOwner` (`TeardownOwned`). `IInv` adds that a session
  past its upgrade has a charge point, that a goroutine in a tear-down has a connection,
  and that only registered connections are closed. Most actions are `QuietMove`s, which
  one lemma covers; `Register`, `Disconnect` and the two closes hand ownership on and
  have a lemma each. `LateFramesAreFew` (`AtMostOneLateFrame`): a session that has
  published late is past the states from which it can publish, because it looks at
  `Closed()` before it reads again. `FramesKeepOrder` (`FramesInOrder`): `FrameInv` says
  that the written frames come before the waiting ones, that the frame in the callback's
  hands is newer than all frames of its charge point's sessions, and that frames belong
  to registered sessions, which keep their charge point.
* **ChargePointProofs.** `TypeCorrect`, `IdHeldOnceHolds`, `StopOnceHolds`,
  `StopHasDeadlineHolds`, `MeterTimerRunsHolds`, `ChargingIsBackedHolds`, for any
  connectors and any number of starts. `IInv` has two halves. `Numbers` says that the
  number of an unanswered StartTransaction is in one call, held by no connector and never
  named in a StopTransaction (`CallsOK`, `StartsUnused`), and that a transaction that
  charges has not been stopped before (`StopsStarted`): with it an answer brings an id
  nobody has, whichever transaction it is given to. `Session` relates a connector's
  status, its transaction, the meter interval and the armed timers. Most actions have one
  of three shapes, each with a lemma: they touch no transaction (`QuietKeeps`), they free
  connectors (`FreesKeeps`), or they stop some transactions (`StopsAllKeeps`). The
  accepted answers, which start transactions, have lemmas of their own.
* **CommandPathProofs.** About `GatewayClient`: `NoClientRevives`, `ConnectedHasSocket`,
  `RegisteredHasHeartbeat`. `OnlyCurrentLives` needs `ClosedOnPurpose`: a socket that
  outlives its runtime was closed on purpose, so its close event schedules nothing; and
  a client whose timer is set has no socket.
  About `CommandPath`: `CommandsArrive` (`QueuedIsUnderstood`), `AnswersAreExact`
  (`AnswerIsSpecExact`), `AnswersFollowCalls` (`AnswerFollowsCall`),
  `LibraryCallsAnswered` (`LibraryCallIsAnswered`). The argument is in the lemmas about
  operators: what `Encode` writes `Decode` reads (`CallRoundTrip`, `ResultRoundTrip`,
  `ErrorRoundTrip`); reading into a struct and writing again gives what was read, and
  doing it twice gives the same (`RewrittenBinds`, `RewrittenTwice`); what the checks and
  the schema let through pkg/v16 parses (`FilledIsUnderstood`); every branch of
  `buildResponse` gives an answer the schema has (`AnswerIsValid`); the browser answers
  the foreign frames that are CALLs to the codec, and none that are answers to it
  (`ForeignIsAnswered`). `PathInv` only
  says where the frames under way came from.
* **CoreMessagingProofs.** `IDsAreDistinct` (`CallIDsDistinct`): only the holder of the
  mutex is between `Load` and `Store`, and what it loaded is the counter (`Exclusive`);
  no id of this life is ahead of the counter (`IdsBehind`). `LogIsAlwaysFaithful`
  (`LogIsFaithful`): only a command with an id is on the wire, and a goroutine of the log
  only runs for a frame that is.
* **BrowserDbProofs.** `NumbersClashOnlyThroughStaleLists` (`NumbersClashOnlyIfStale`):
  until a list is outdated, at most one `createConnector` is before its insert and its
  number is still free. That `FirstFree` gives a free number at all is the lemma
  `FirstFreeIsFree`, from a pigeonhole argument over the library's finite-set theorems.
  `CountHeals` (`CountIsExact`): `CInv` follows a change that has been alone since it
  began, transaction by transaction: what it read is still what is stored, so that the
  count it writes is the number of connectors it leaves; and new keys are ahead of all
  stored ones, so that an insert adds a record and replaces none.
* **LiveLogProofs.** `NewestKeptHolds` (`NewestKept`): what a prune is about to delete,
  and what is gone, is overtaken by as many newer events of its charge point as the
  limit allows (`VictimsOvertaken`, `GoneOvertaken`), which stays true however old the
  list is; and the prune of the last event leaves no more than the limit
  (`LastPrunes`). `LiveInOrderHolds` (`LiveInOrder`) rests on lemmas about `InOrder`:
  ranks are a bijection to an initial segment of the numbers (`Ranks`), so sorting and
  filtering lose nothing, repeat nothing and keep the order (`SortedInOrder`,
  `OthersInOrder`).

Only model-checked are the liveness properties, because fairness and `ENABLED` are
beyond the prover: `CallbackReturns`, `ClosedSessionEnds`, `DeadSessionLeaves`,
`StopSettles`, `CallSettles` and `Reconnects`. `StopHasDeadline` and `TeardownOwned` are
the safety half of some of them: there is always a timer, or a goroutine, whose next step
makes progress.

## 6. Plan

Done: the component modules, the composition of message-processor and ocpp-core, the
ledger and its refinement, and proofs of all safety properties of the runs. What is left, in this order:

1. **End to end.** The charge point and the gateway joined to `CentralSystem` at the
   level of messages: a transaction the charge point holds is in the table, unless
   `BindsOwnId` or `UniqueTransactionId` failed on the way.
2. **Heartbeat** with time: the longest gap between messages in terms of the interval.
3. **DcMeter** (`advanceDcMeter`) as operators checked against a reference definition.

## 7. Not modelled, and why

* `pkg/v201`: every operation returns `ErrNotImplemented`. `pendingcalls`, and the
  factory of `protocol.go`: used by no application of the repository.
* `uniqueId.ts` and `GenerateUniqueID`: random ids, assumed fresh.
* Runtime events: `handleAuthorize` writes one per accepted idTag; nothing reads them and
  a failure is only logged. Migrations, configuration, signal handling: I/O.
* `appState` and settings: stores of single values. `realtimeClient.ts`: empty functions.
  `totalLogCounts`: a number shown beside the list. Two loads of one charge point's log
  at the same time. The logs in a file that is imported (`importBrowserDb` replaces the
  stored ones by them).
* `advanceDcMeter`'s numbers and the heartbeat's timing: planned (section 6). A charge
  point or connector that is added or deleted while its runtime runs.
* Vue templates: presentation. Which button is offered in which status is taken over
  from `ChargePointDetail.vue` into `ChargePoint`'s guards.
* A restart of the gateway: it keeps nothing, so it begins again in `Init`.

## 8. Running

```
tlc -workers 2 -config MCGateway.cfg MCGateway
tlapm GatewayProofs.tla
```

The passing runs take from a second to about two and a half minutes each.
