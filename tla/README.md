# Verification of the webhooks control plane

TLA+ models of `@xtandard/webhooks` (the TypeScript package under `src/`), their
TLC configurations, and TLAPS proofs about them. Paths below are relative to the
package's `src/` directory; `docs/` and the ADRs are those of the repository.

## The system

The package is a webhooks control plane over a key-value storage of four
asynchronous calls (`getItem`, `setItem`, `removeItem`, `getKeys`), with optional
capabilities a storage may add: `compareAndSwap`, `watch`, and a native delivery
queue (`claimDue`). It runs as one or more Node processes on a shared storage.
Inside a process nothing runs in parallel, but every `await` lets everything
else run, and several processes interleave at every storage call. This is the
grain of the models: **one action per storage call**, everything between two
awaits in one step.

### Components, their state and their operations

| Component | Source | State | Operations |
| --- | --- | --- | --- |
| Delivery queue | `core.ts`, `dispatcher.ts`, `storage/memory.ts` | delivery records, due index, attempt records; per worker the claimed copy and the planned outcome | claim, process a claim, hold, record an attempt, publish fan-out, `retryDelivery`, `recoverEndpoint` |
| Claiming on KV storages | `core.ts` `claimDueDeliveries` | the same, reached by a scan of due keys | scan, compare-and-swap (or plain write), reposition the due entry |
| Redis queue | `storage/redis.ts` | due keys and a sorted set mirrored beside them | set, remove, claim script, claim of each member |
| Publish, idempotency, retention | `core.ts` `publish`, `prune*` | messages, idempotency keys, by-message and by-endpoint indexes | publish, deduplicate, prune pass |
| Applications and event types | `core.ts` | metadata records, index lists, audit logs | create, update, delete, audit append |
| Endpoints and failure policy | `core.ts` | endpoint record: disabled, reason, failing since, secrets | create, update, enable, disable, delete, rotate secret, note an outcome |
| Dispatcher loop | `dispatcher.ts` | timer, tick in flight, workers | start, stop, tick |
| Processes | `cli.ts`, `server/create-fetch-handler.ts` | which storage and queue a process opened, its exit | serve, dispatch, publish, retry, list |
| Attempt and signing | `core.ts` `rotateSecret`, `deliver.ts`, `signing.ts`, `receiver.ts` | the endpoint's secrets, the receiver's | rotate, build and send a signed request, verify |
| Hooks and delivery sink | `hooks/contract.ts`, `delivery-sink.ts` | none | run before hooks (may deny), after hooks and sinks (never fail) |
| HTTP API, authorization, portal | `server/`, `authorization/`, `portal.ts`, `auth/` | none; a portal token carries its own | authenticate, route, scope a portal token, authorize, call the core |
| Admin UI | `ui/` | the location, fetched data, drafts, the navigation blocker, requests on their way, pages of a list | navigate, edit, save, delete, refetch, page |
| Storages | `storage/` | the data, the shared connection | the four calls, compare-and-swap (memory), connect |
| Adapters, validation, watch | `adapters/`, `validation.ts`, `storage/watch.ts` | none the core reads | wiring |

### How they interact

* `publish` writes one delivery record and one *due entry* per matching endpoint.
  The due entry, a key that starts with a time, is the only thing a dispatcher
  looks for: a record without one is never attempted again.
* A dispatcher's tick claims due deliveries: the record becomes `delivering`
  with a lease, and the due entry moves to the lease's expiry, where it makes
  the delivery visible again if the claimer dies. A pool of workers then sends
  each claim and records the outcome, which removes the entry at the lease and,
  for a retry, writes one at the next attempt's time.
* The write of an outcome does not compare anything: it relies on the lease for
  its exclusivity, hence on clocks and timeouts.
* Dispatchers read endpoints that control-plane calls change, and change them
  themselves (failure streak, auto-disable). A disabled endpoint holds its
  deliveries, a deleted one fails them.
* Replay (`retryDelivery`, `recoverEndpoint`) writes dead letters back to
  `pending` with a mark that the next attempt is manual.
* Retention and `deleteApplication` delete what the others write.
* A panel, a split worker and a one-shot command are processes that share stores
  by their driver and role; a delivery is found only by the dispatchers of the
  queue it was published to.
* The panel's API answers a request in awaited stages (route, sender, portal
  scope, authorization, operation) while the embedding application calls the core
  beside it. The admin UI is a client of that API and keeps copies of what it read.

### What is hard about it

* Record and due entry are two keys written by separate calls, by three kinds of
  writers, and removed by a fourth: crashes, failing calls and interleavings
  between the two halves.
* Copies read before an `await` and written back after it: claims against the
  lease, replays against each other and against the dispatcher, endpoint updates
  against the failure policy, index lists and audit logs.
* Time: the lease against the timeout, the batch and the worker pool; due keys
  that differ from the time in the record; the end of the retry schedule.
* Idempotency across a crash, and pruning what another call still uses.
* A poller, manual ticks and `stop` that share one in-flight tick.
* Two commands for one entry (the due key and its member of Redis's sorted set).
* A connection, a listing, or a file that is half there when somebody else looks.
* Rotations, clocks that differ, and a network that repeats and mixes requests.
* A user interface whose callbacks were made by an older render.

`PROJECT.json` lists these as hazards, each at its line, with the properties that
cover it, and what of it they leave out or why none does.

### What makes each component correct

* *Queue*: no delivery is stranded; none is scheduled twice; one dispatcher works
  on a delivery at a time; the attempt log agrees with the record; replays are
  accounted for; the record moves along the documented lifecycle.
* *Other claim paths*: the same exclusivity, from compare-and-swap or the claim
  script; with Redis, due keys and sorted set name the same entries.
* *Publish and retention*: one message per idempotency key; a message accepted
  has its deliveries; nothing a dispatcher needs is pruned.
* *Endpoints*: no control-plane change is lost to the failure policy or the other
  way round; a rotation keeps the previous secret valid for its grace.
* *Registry*: the index lists exactly what exists; every change is audited.
* *Loop*: ticks never overlap, `stop` leaves nothing running, a due delivery is
  eventually attempted.
* *API*: a portal request stays in its application, readers change nothing, and
  what the OpenAPI document says is what the routes answer.
* *Signing*: a rotation never makes a receiver reject a genuine attempt within the
  grace; what is accepted was signed, as it is and lately.
* *UI*: the panel drops no edits without a question, saves no draft into another
  item, and lists each record once.
* *Storages*: each adapter keeps one contract, and works again after an outage.

## Modules

| Module | Models |
| --- | --- |
| `DeliveryLifecycle` | What the queue promises of one delivery: the state diagram of `docs/DELIVERY.md` with the number of attempts. Abstract; no storage, leases or dispatchers. |
| `DeliveryQueue` | The queue, one storage call per action. Implements `DeliveryLifecycle`. |
| `MCDeliveryQueue` | Values for its constants. |
| `DeliveryQueueProofs` | Theorems about it. |
| `KvQueue`, `MCKvQueue` | The same queue on a storage without `claimDue`: the scan of the due index, call by call, in place of the native claim. `EXTENDS DeliveryQueue`, implements `DeliveryLifecycle`. |
| `MessageStore`, `MCMessageStore` | Messages, idempotency keys and retention: publish, prune and replay against each other, with a delivery's attempts as one step. |
| `EndpointPolicy`, `MCEndpointPolicy` | One endpoint record: the accounting of outcomes against control-plane calls. |
| `EndpointPolicyProofs` | Theorems about it. |
| `RedisQueue`, `MCRedisQueue` | The queue on Redis: due keys and sorted set command by command, the claim script. `EXTENDS DeliveryQueue`. |
| `Deployment`, `MCDeployment` | Processes and the stores they share, with the dispatcher loop of each: poller, `tick`, `start`, `stop`, workers; liveness. |
| `Registry`, `MCRegistry` | The control plane: applications, event types, endpoints, their lists, audit logs and hooks, `deleteApplication` beside publish and a dispatcher; liveness. |
| `ApiGate`, `MCApiGate` | One request through the admin API: routes, senders, portal scope, authorization, operation, documented answers. |
| `Signatures`, `MCSignatures` | One endpoint's secrets, signed attempts, the network and a receiver. |
| `Console`, `MCConsole` | One tab of the admin UI against the server's data. |
| `ClaimProofs` | Theorems about `KvQueue` and `RedisQueue`. `EXTENDS DeliveryQueueProofs`, whose lemmas about workers and callers it uses. |
| `MessageStoreProofs`, `RegistryProofs`, `SignaturesProofs`, `StorageAdaptersProofs` | Theorems about the module they name. |
| `ServerProofs` | Theorems about `Deployment`, `ApiGate` and `Console`, each by itself. |
| `KeyValueStore` | The contract of a storage. Abstract; no connections, statements or files. |
| `StorageAdapters`, `MCStorageAdapters` | The eleven adapters as records of their differences, call by call. Implements `KeyValueStore`; liveness. |

`KvQueue` and `RedisQueue` compose their claim with every other operation of
`DeliveryQueue`. The others stand beside it: `Registry`, `MessageStore` and
`Deployment` have a coarse delivery of their own and name what they leave to it.

### DeliveryQueue and the code

* `rec`, `due`, `attempts` are the keys `deliveries/`, `due/` and `attempts/` of
  the storage. A due entry is the pair of its time and its delivery.
* `clock` is `now()`, one for all processes. `Tick` advances it; `MaxTime` bounds
  it for TLC only.
* Per dispatcher and delivery, `pc` is the storage call that comes next, `snap`
  the record the claim returned (which `processClaim` and `recordAttempt` carry
  along and write back), `plan` the outcome and the next due time, and `begun`
  when a worker took the claim up.
* `Claim` is `claimDue` of `storage/memory.ts`: it has no `await`, so the whole
  scan is one step: ripe entries in order, orphans swept, at most `BatchSize`
  claimed, records leased and entries repositioned. The order of entries with
  the same time (by id in the code) is left open.
* `StartAttempt`, `FailTerminal` and `HoldDisabled` are the three ways
  `processClaim` can go after reading message and endpoint; a worker takes a
  queued claim up only while fewer than `Concurrency` are in work. A message that
  is missing has the same effect as a deleted endpoint.
* `Respond` is the HTTP attempt and `nextDelayMs`; the receiver's answer is open.
  Delays, jitter included, are the constant `Delays`.
* `LogAttempt`, `UnindexNext`, `UnindexLease`, `WriteOutcome`, `IndexNext` are the
  storage calls of `recordAttempt` in their order, `HoldUnindex`, `HoldWrite`,
  `HoldIndex` those of holding.
* `NoteOutcome` is `noteEndpointOutcome` as far as the queue sees it: a failure
  may disable the endpoint.
* `StepFails` is a storage call that rejects (the worker's `catch`), `Crash` the
  death of a process with every claim it holds. `CrashPoints` names the steps
  before which either may happen.
* `Publish*`, `RetryRead`, `RecoverRead`, `RequeueWrite` and `CallIndex` are the
  control-plane calls on one delivery, again one step per call. The value
  `recoverEndpoint` uses for its due keys was read before its loop, so it may be
  any earlier time.
* `Prompt` states the assumption the lease rests on: a free worker takes up a
  queued claim at once and is done with it within `AttemptTimeout + Headroom`.
  The code gives the request `timeoutMs` and sizes the lease with 10 s of
  headroom for recording; nothing enforces the latter, so the theorems that do not
  need it are proved without it.

### KvQueue and the code

* `scan` holds, per dispatcher, the locals of `claimDueDeliveries`: `now` as it
  began, the due keys listed, the one being visited, the record read for it, and
  what has been claimed. `ScanKeys`, `ScanEntry`, `ScanRecord`, `ScanSweep`,
  `ScanClaim`, `ScanUnindex`, `ScanIndex` are its storage calls in their order;
  `Continue` is the loop. One application.
* `Wins` is the compare-and-swap: it compares the whole record, of which the
  model leaves out `updatedAt`. No record of a delivery comes back the same after
  a claim, so the outcome is the same.
* `ScanFails` is a call that rejects or a process that dies inside a scan.
* Everything else is `DeliveryQueue`'s, used unchanged in `KvNext`.
  `DistinctMillis` excludes a replay that writes the very millisecond key a scan
  is at; in this clock a tick is many milliseconds.

### EndpointPolicy and the code

* `ep` is the record: alive or deleted, disabled and why, `firstFailingAt`
  (`failingSince`), the secrets with their expiry, and `updatedAt`, which
  control-plane writes and the automatic disabling set to the clock. `settings`, the
  number of the last control-plane write, stands for an edited URL or header: it is
  what a compare-and-swap sees of one, and what `Controlled` asks to survive.
* `NoteBegin`, `NoteRead`, `NoteCommit` are `noteEndpointOutcome`: the record read
  and `Plan`ned on, then swapped if unchanged, for at most `MaxTries` rounds. An
  accounting that finds nothing to note, or no endpoint, ends.
* `ControlRead` is `requireEndpoint`, after which the before hook is awaited;
  `ControlDenied` is a hook that throws or a process that dies; the `*Write`
  actions are the whole-record write of each call.
* `promised`, `enabledAt`, `rivals` and `okSince` are history for the properties.

### MessageStore and the code

* `messages`, `idem`, `status`, `byMessage` are the keys `messages/`, `idempotency/`,
  `deliveries/` and the by-message index. `about` keeps what a message says, also
  after it is gone, for the caller or the pass that has read it. There is at most
  one delivery per message and endpoint, so their pair names it.
* `pub` is a publish call: `PubLookup`, `PubExisting`, `PubHook`, `PubMessage`,
  `PubKey`, then `PubRecord` and `PubByMessage` per endpoint, `PubReturn`. `PubDenied` is
  a hook that denies, and `PubCrash` a death or a rejected call.
* `pruning` is a pass of `pruneMessagesForApp`: `PruneRead` applies the rules (union of
  keeps), `PruneList` and `PruneCheck` look at a message's deliveries, then
  `UnMessage`, `UnRecord`, `UnKey`, `UnStore` delete. The messages are read in
  one step; they never change once stored.
* `Dispatch` takes a due delivery to its end in one step (`DeliveryQueue` has what
  happens in between), a record is written together with its due entry, and the
  by-endpoint index, attempts and audit entries are left out: no step here reads them.
* `Sequential` and `Prompt` name two assumptions: a caller repeats a key only after
  its call ended, and a publish call is over before its message reaches `MaxAge`.
  Without the first, two calls both find the key unused; without the second (retention
  by count only) a pass prunes a message whose deliveries are not written yet.

### RedisQueue and the code

* `zset` is the sorted set, `mirror` the second command that `setItem` or
  `removeItem` of a due key still has to send. `MirrorSent` sends it; `MirrorLost`
  is a failure between the two.
* `pop` is one `claimDue`: `RunScript` is the Lua script (atomic: pop what is due,
  reposition it to the lease's end), then `PopEntry` to `PopZadd` the commands for
  each popped member, with `SweepZrem` for members without a key or a record.
  `PopFails` is a command that rejects or a process that dies.
* `FreshKey` excludes a replay in the very millisecond of an entry being popped.
* `Leftover` are due keys of an application that was deleted by a process that died between
  the two commands of their removal: their members are there from the start, to be swept.

### Deployment and the code

* `setup` is a process's command line and environment (`storageFromEnv`,
  `queueStorageFromEnv`, the `DISPATCHER` switch). `Store` says what two
  processes share: a driver and a role, or nothing when it is memory.
* `timer`, `inFlight`, `runs` are the closure of `createDispatcher`. The poller
  and each caller of `tick()` may start a run; `TimerFires` is the interval,
  `AskTick`/`WakeTick` the `while (inFlight) await inFlight` of `tick()`, `RunStep`
  the next step of `runTick`: claim, a worker taking, leaving or recording.
* A promise callback runs before the next interval (`Busy`): JavaScript runs all
  microtasks before another timer.
* `ClaimFails`, `WorkerThrows` and `Killed` are the failures; `LeaseExpires` and
  `Ripens` are what time does to a leased or waiting delivery.
* `CommandPublishes`, `CommandRetries`, `CommandReads` are the one-shot commands,
  which exit; a `retry` re-opens a delivery of the shared store only.

### Registry and the code

* `records`, `list`, `log` are the metadata keys, the index values and the audit
  logs. A call goes `Begin` (checks), `BeforeHook` (may deny), `Write` or `Erase`,
  `IndexRead`, `IndexWrite`, `AuditRead`, `AuditWrite`, `AfterHook`; the update of an
  application or an endpoint skips the list. A storage call that rejects half-way is
  left out: it leaves record and list as they are, which nothing repairs.
* `Erase` deletes, for an application, the keys listed under its prefix.
  Its list and its log are among them, whatever they hold.
* `PruneRead` and `PruneWrite` are `pruneAuditLog`. A pass may drop any entries.
* `job` is a worker beside all that: a publish that read its endpoint, or a claim
  from `Claim`, which needs the native queue's due entry only, to `Records`. What it
  leaves of the delivery is in `Outcomes`: an attempt succeeds, is scheduled anew or was
  the last, a held delivery goes back into the queue, one without message or endpoint
  fails. `delivery` has the status, and pending stands for record and due entry.
* `NoteReads`, `NoteWrites`, `NoteAudit` are `noteEndpointOutcome` after an attempt: the
  endpoint read anew, swapped (or, without `compareAndSwap`, written), and an automatic
  disabling logged by `appendAudit`. Whether there is something to note is left open.
* `restored` is history: the applications whose erased log was written again.
* Messages and idempotency keys are not here: the delivery stands for what publish writes.
* `Apart` is an assumption: two calls at the same time write different lists and
  concern different applications. Two that do not can lose one's list entry
  (`indexAdd` reads and writes back a whole list); the code does not prevent it.

### ApiGate and the code

* A route is a record of path, method, action, whether it has a body, and the core
  call; `Calls` says what each call needs, writes, shows, and its status. Both are
  read off `routes.ts`, `OpenApi` off `openapi.ts`.
* `Authenticate`, `Bootstrap` (`/config`), `Parse`, `Authorize`, `Operate` are the
  awaited stages of the handler; `Embedder` creates and deletes resources between
  them, `Tick` lets a token run out.
* A resource is a kind and its owner. Which field of a request names which
  application is decided as in the code: path, portal claim, or none for the catalog.
* `Guarded` are the operations that call `guard()`, listed as they are and not derived
  from what an operation writes.
* An id behind a path segment is decoded by `match()` (`server/routes.ts:102`), and the
  core checks no id but names and idempotency keys. `asked.leads` says where it leads:
  nowhere, if it is an id as the core makes them, or to some owner. A storage is `opaque` if it takes a key
  as one name; the file storage resolves it as a path (`storage/file.ts:31`). There
  `OperateAstray` reads and writes any record of the owner the id leads to.

### Signatures and the code

* `secrets` is the endpoint's list as a set of keys with their expiry: keys are
  numbered as they are minted and the list is newest first, so the newest is the
  current one. `Previous` and `Rotated` are what `rotateSecret` keeps and writes,
  `Signed` what `activeSecrets` leaves and `sign`
  produces, `Accepts` is `verify` with `Fresh` (the tolerance) and `Matches`.
* An attempt reads the endpoint (`ReadEndpoint`), sends at a later time (`Send`), and
  ends. `wire` keeps every request sent; `Arrivals` are the ways one arrives: as it
  was, or with another id, body or timestamp and an entry nobody signed.
* `Playground`, `Listen` and `VerifyFiles` are the `sign`, `listen` and `verify`
  commands. `sign` takes any secret that was minted and any timestamp; `MaxSamples`
  bounds how often. `Install` is the receiver's operator installing the current secret.
* An HMAC is the record of key and content: equal only if both are.

### Console and the code

* `place` is the location (page, `?app=`, id); without `?app=`, `appKey` is the portal's
  application or `DefaultApp` (the prop, or the first application). `cache` what React Query holds, `draft`
  the form's `useState`, `blocker` the closure given to `useNavGuard`. `Render` is a
  render and its effects, including the reset of the form when the id changes.
* Every link of the panel that navigates is an action (`OpenTab` to `OpenOfDelivery`,
  `setAppKey`), and asks `canLeave`; `Browse` is the browser, which does not ask.
* `Request` sends a mutation; `Answered` is its success with `onSuccess`, which
  navigates from wherever the user is by then. `Another` is another operator.
* `LoadMore`, `PageArrives`, `RefetchPages` are the infinite query, `paginate` the
  server's page, `Publishes` and `Moves` the records changing under it.
* `lost` is history: the panel itself dropped edits without a question.

### KeyValueStore, StorageAdapters and the code

* An adapter is a record: whether and how it connects, where it is, whether a
  listing is one statement or pages, and how a prefix becomes a pattern.
* `Begin`, `ConnectionOpens`, `ConnectionFails` are the shared connection promise, then
  one statement per call. `Page` is one page of a paged listing.
* `FileTruncated` and `FileWritten` are the two halves of `writeFile`: two writers of
  one file may leave what does not parse, and an `unlink` takes the file away from
  under an open handle. The contract says so with `inDoubt`: a read of such a key
  may fail, a listing may show it, until a write or removal is over.
* `compareAndSwap` is that of memory: no other adapter has one.

## Runs

| Run | Instance | Result |
| --- | --- | --- |
| `queue` | 1 delivery, 2 dispatchers, 1 caller, a schedule of 2, a configured lease shorter than the timeout, crashes before a removal, 1 replay, 6 ticks of time | all invariants and the refinement hold |
| `crash_strands` | `queue` with crashes and failing calls at every dispatcher step | `DueCoverage` is violated |
| `kv_queue` | 1 delivery, 2 dispatchers, 1 caller, compare-and-swap, a schedule of 2, crashes before a removal, 1 replay, 3 ticks | invariants and the refinement hold |
| `endpoint` | 2 workers, 1 control-plane call at a time, compare-and-swap, 2 rounds, a grace and a failure limit of 1 tick, 2 writes, 2 ticks | all properties hold |
| `messages` | 2 publish calls, 1 pruner, 1 key, 2 payloads, 2 endpoints, retention by age, crashes before a first write or removal, 2 messages, 1 replay, 2 ticks | all properties hold |
| `redis_queue` | 1 delivery and the leftover of another, deleted before, 2 dispatchers, 1 caller, a batch of 2 and a pool of 2, deaths before a removal, a lost mirror command, 1 replay, 6 ticks | all invariants hold |
| `deployment` | 2 processes in 6 setups, 2 deliveries, 2 callers in one process, a batch of 2, one worker, 1 failure, 1 retry | 3 invariants and `DueIsAttempted` hold |
| `registry` | 1 application, 1 event type, 1 endpoint, 1 delivery, 2 callers, 1 worker, compare-and-swap, 3 calls | 3 invariants and `LeftoversSettle` hold |
| `gate` | 2 applications, an admin and a viewer, good, expired and forged tokens, ids that lead to either application or the catalog, 4 panels (two kinds of storage), 1 request | all invariants hold |
| `signatures` | 2 rotations, a grace and a tolerance of 2, a skew of 1, 1 attempt, 1 sample, 4 ticks | both invariants hold |
| `console` | 2 applications, 2 endpoints (one created later), 1 event type, pages of 1, 2 records published before (one of them a dead letter) and one later, 1 request, 1 change of the server's data, with and without `?app=` | all invariants hold, no deadlock |
| `storage` | 11 adapters, 2 clients, 3 keys of 3 applications, 1 value | the refinement and `Recovers` hold, no deadlock |

Bounds. Deliveries interact only through the batch, the worker pool and the
endpoint they share, so one delivery shows the interleavings of dispatchers and
callers; `deployment` has the two that make a batch, and `redis_queue` a live one beside
a leftover. Two dispatchers show every race for a claim. Six
ticks hold two full leases (of two ticks) with a backoff before, between and after
them, so that expiry, takeover, hold, dead letter and replay all happen in one
behaviour. A schedule of two has an attempt before its end and one at it.
In `kv_queue` a lease is two ticks,
so three let it expire while a scan, an attempt or a replay is under way. In
`endpoint` two ticks exceed the failure limit by one and let a grace end; two
rounds stand for the five of the code (a worker gives up after losing the last,
whatever their number), and two control-plane writes let one fall between the
read and the commit of an accounting of the other. In `messages` two messages are
enough for a key to be pruned and used again, two endpoints for a fan-out that is
half done, and a second tick for a message to become prunable while another is
published.
In `redis_queue` six ticks are three leases, and the leftover comes due with the end of the
first, in one batch with a live delivery. In
`deployment` two callers and the poller are the least that can race for one tick,
two deliveries with one worker make a tick outlast an interval, and the setups pair a
panel with each kind of other process. In `registry` three calls create an application and an endpoint and delete or
change either, or create what was deleted anew, beside a worker that publishes and
attempts as often as its delivery is put back; lists and logs are per application, and calls on two applications
share only what calls on an event type and an endpoint share. In `gate` one
request suffices: the handler keeps nothing from one to the next. In
`signatures` two rotations fall within one grace, and four ticks are twice the
grace and twice the tolerance. In `console` one request answers late, one change is the
user's or somebody else's, beneath a form or between two pages, and pages of one record put a
boundary between any two of three; more changes are covered by the theorems. In `storage` the keys are one of the application listed, one of an
application whose name differs in case, one that an unescaped wildcard would match.
`CHECK_DEADLOCK FALSE` is set where the clock or the number of calls is bounded, or
where a system whose deliveries are all terminal stops.

Fairness. Three specifications state it, of the program's own steps only:
`Deployment` (weak fairness of the interval, of the next step of a run, of a caller
waking up, of time passing for a leased or waiting delivery), `Registry` (of each call
and of the worker), `StorageAdapters` (of each call and of a connection being
made). A Node event loop runs every callback that is ready, and every await here
ends: requests have a timeout. A step that may fail counts as taken when it fails.
No fairness is assumed of users, receivers, embedders, servers or failures.

The properties:

* `DueCoverage`: a non-terminal delivery has a due entry or a live actor about to
  write one.
* `ExactlyOneDue`: when nobody is between the calls that move them, there is one
  entry per non-terminal delivery and none for a terminal one (ADR 0005).
* `OneOwner`: two dispatchers never work on one delivery.
* `AttemptLogComplete`: attempts are numbered without gaps and only the last one
  of a succeeded delivery is a success.
* `ManualAccounting`: each replay is answered by exactly one manual attempt.
* `ImplementsLifecycle`: refinement of `DeliveryLifecycle`.
* `KvDueCoverage`, `KvOneOwner`: the same for the KV claim. An owner is
  a dispatcher that will still write the record: on a KV storage another scan may
  claim a delivery whose outcome is recorded while the first one still writes the
  next due entry.
* `ControlChangesSurvive`: an accounting never undoes what an operator did.
* `GivesUpOnlyUnderContention`: an outcome is dropped only after `MaxTries` writes by
  others.
* `EnableRestartsStreak`: no endpoint is disabled automatically within the failure
  limit after being enabled.
* `GraceKept`: a rotated secret signs until its grace ends.
* `IdempotentOnce`: a stored message with a key is the one its key leads to.
* `AcceptedIsDelivered`: every answer of `publish` has its deliveries.
* `NothingNeededIsPruned`: no pass removes what a dispatcher or a publish call still
  needs (a replay that read before the pass may put a deleted record back).
* `RetentionReaches`: a delivery at rest has its message and its index entry, by
  which the next pass finds it. A replayed one may not: see the hazard at
  `core.ts:1352`.
* `MemberCoverage`, `MirrorAgrees`, `RedisOneOwner`: the queue's coverage and exclusivity
  on Redis: the sorted set reaches every delivery that is not terminal, it
  and the due keys name the same entries at rest, one claimer at a time.
* `NoOverlap`, `OwnPass`, `StoppedIsQuiet`: ticks of one process never overlap; `tick()`
  gives its caller a pass that began after the call; after `stop()` nothing runs.
* `DueIsAttempted` (liveness): what is due, or leased by somebody who failed, is
  attempted as long as some process polls its queue.
* `ListsAgree`, `AuditIsTrue`: lists and records agree when no call writes them; the audit
  logs name no change that was not made.
* `NothingLeftToCall`, `LeftoversSettle` (liveness): after a deletion no record of the
  application, no list of its endpoints and no log is left, but for a log that was written
  after its erasure (see below), and deliveries written meanwhile, also those that are
  scheduled anew, become terminal.
* `PortalConfined`, `ReadersOnlyRead`, `AnswersAreDocumented`: of the admin API. What a
  portal token reaches, and whether a reader sees a secret, is stated for storages that
  take a key as one name; on the others, for ids as the core makes them.
* `SeamlessRotation`, `AcceptedIsGenuine`: of signing and verifying.
* `EditsNeedConsent`, `SaveIsOwn`, `NewestFirstOnce`: of the admin UI.
* `ImplementsStore`, `Recovers` (liveness): every adapter implements the contract; once
  its server stays up calls stop failing.

What the violation shows: `recordAttempt` removes the due entry at the lease before it
writes the record. A crash in between leaves a record that is `delivering` and that
no scan will ever reach. `queue` has crashes at every step before a removal: there
the lease does what the documentation says.

### Where the code and its promises part

Assumptions of the passing runs that the code does not enforce, and what happens
without them:

* *Batches the lease outlasts* (`queue`, with one wave). The lease covers one attempt, but
  the time a claim waits for a worker counts against it (`dispatcher.ts:108`, `:198`):
  with a batch of more waves than the lease has room for, the 20 of the default among
  them, a second dispatcher may send the same delivery.
* *One replay at a time* (`queue`). The status check of a replay and its write are
  separated by the before hook, and the write compares nothing (`core.ts:1352`): the
  slower of two moves a delivery back to `pending` after it succeeded.
* *One control-plane call at a time on an endpoint* (`endpoint`). Such calls write back
  the record they read (`core.ts:979`): one that read before a success restores the
  failure streak it cleared, one that read before a rotation takes the new secret away.
* *Calls on different lists* (`registry`, `Apart`): see there.
* *Compare-and-swap for what a worker notes* (`registry`, `endpoint`). Without it the
  outcome is written over the endpoint (`core.ts:1676`): one that was deleted is back,
  without a list that names it, also below a deleted application. The comment above
  the loop names the window.
* *Keys that are names* (`gate`, `PortalConfined`). A path segment is decoded after the path was
  split (`server/routes.ts:102`), and `getEndpoint`, `getSecrets`, `rotateSecret` and the
  like do not check the id they put into a key. On the file storage, which resolves a key
  as a path (`storage/file.ts:31`), such an id may name a record of another
  application, although the portal's scope was checked. The core does validate
  idempotency keys for this reason (`core.ts:1139`).
* *No crash inside publish after its first write* (`messages`). The idempotency key is stored
  before the deliveries (`core.ts:1216`): after a crash the repeated call is
  answered as deduplicated.
* *One publish per key at a time* (`messages`, `Sequential`). The key is read before the hook
  and written after it (`core.ts:1148`).
* *A publish is over before its message may be pruned* (`messages`, `Prompt`). With retention
  by count only it need not be (`core.ts:668`).

Met while modelling, and left out of the properties because the code does it
deliberately or no promise forbids it:

* A panel mounted with `readonly: true` over a prebuilt writable core blocks nothing
  (`server/create-fetch-handler.ts:171`), though line 51 says "Block all mutating
  operations when true." `gate` has the read-only core. Portal requests
  are not subject to the host's authorizer. `/deliveries/{id}/request` is routed and
  not in the OpenAPI document. A portal token outlives the deletion of its
  application and works on one created anew under its key (`portal.ts:171`).
* The audit log of a deleted application may come back. A pass that read it before the
  deletion writes the rest over the erased one (`core.ts:686`, `:701`), and so does a
  worker whose attempt disabled an endpoint, which asks for no application
  (`core.ts:1687`). `NothingLeftToCall` excepts such a log, and nothing else. The messages and
  idempotency keys of a publish that ran into the deletion are left as well;
  `Registry` does not have them.
* On a KV storage a delivery of an application that left the list is never claimed,
  because the scan walks that list (`core.ts:1494`); `LeftoversSettle` is about native
  queues.
* `storage/postgres.ts:131` and `storage/libsql.ts:88` keep a rejected promise: after one
  failed connection the adapter fails for good. `Recovers` is about the others.
* SQLite's `LIKE` folds case, so that a listing of `acme` also shows keys of `Acme`
  (`storage/sqlite.ts:67`, libsql, drizzle on SQLite); the interface says "List all keys
  beginning with `prefix`" (`storage/contract.ts:21`). The contract here allows
  another application's keys only when the names differ in case.
* Files are truncated and then written (`storage/file.ts:98`): a read at that moment
  fails, overlapping writers may leave what does not parse, and a write may be lost
  to a removal. Paged listings (Redis, MongoDB, Cloudflare, unstorage, files) are not
  snapshots. The file watch reports a created file as removed (`storage/file.ts:129`).
* In the UI a field cannot be cleared (an empty one is sent as undefined and merged
  away), nor a type un-deprecated; saving the form of a type that another operator
  deleted creates it again; a draft overwrites what another operator saved meanwhile;
  the history and a remote deletion drop edits without asking; the answer of a
  deletion navigates wherever the user is. The rotation dialog and the shown
  secrets stay open over another endpoint (`ui/views/EndpointsView.tsx:222`). When a
  page's last record leaves a filtered list, the next page is empty.
* `stop()` may return while a caller that was waiting in `tick()` starts its own run
  (`dispatcher.ts:244`); `StoppedIsQuiet` is about dispatchers nobody calls.
* A `prune()` that waits for another's pass rejects with that pass's failure and never
  runs its own (`core.ts:724`).

One thing the KV claim does not give, and that no property asks of it: a scan that
listed a due key before another dispatcher's whole attempt may claim the retried
delivery before its backoff is over (the record is `pending`, and the scan does not
look at `nextAttemptAt`). The entry at the backoff stays beside the one at the
lease until the early attempt is recorded, which removes both.

## Proofs

Every theorem holds for every value of the constants that satisfies the named
assumptions of its module: any number of deliveries, dispatchers, callers,
applications, rounds, any clock. A hypothesis beyond those is in the statement of
the theorem under a name, and the configuration of the run that checks the same
property satisfies it. Hypotheses are assumptions about the deployment that the
code does not enforce; "Where the code and its promises part" says at which line.

| Theorem | States | Hypotheses |
| --- | --- | --- |
| `TypeCorrect` | `TypeOK` of the queue | |
| `NothingStranded` | `DueCoverage` | `CrashesOutsideWindows` |
| `LeaseIsExclusive` | `OneOwner` | `WorkersKeepUp`, `[]ReplaysApart` |
| `ScheduledExactlyOnce` | `ExactlyOneDue` | the same, `CrashesOutsideWindows` |
| `LogIsComplete`, `ReplaysAreAnswered` | `AttemptLogComplete`, `ManualAccounting` | as `LeaseIsExclusive` |
| `QueueImplementsLifecycle` | `ImplementsLifecycle` | as `LeaseIsExclusive` |
| `SwapKeepsOneOwner` | `KvOneOwner` | the same, `HasCompareAndSwap` |
| `KvQueueImplementsLifecycle` | `ImplementsLifecycle` of `KvSpec` | the same |
| `LogIsCompleteOnKv`, `ReplaysAreAnsweredOnKv` | `AttemptLogComplete`, `ManualAccounting` of `KvSpec` | the same |
| `NothingStrandedOnKv` | `KvDueCoverage` | the same, `KvCrashesOutsideWindows`, `RetriesWait` |
| `RedisOwnership` | `RedisOneOwner` | as `LeaseIsExclusive` |
| `NothingStrandedOnRedis`, `MirrorIsConsistent` | `MemberCoverage`, `MirrorAgrees` | the same, `RedisCrashesOutsideWindows` |
| `RedisQueueImplementsLifecycle` | `ImplementsLifecycle` of `RedisSpec` | as `LeaseIsExclusive` |
| `LogIsCompleteOnRedis`, `ReplaysAreAnsweredOnRedis` | `AttemptLogComplete`, `ManualAccounting` of `RedisSpec` | the same |
| `EndpointTypeCorrect` | `EndpointTypeOK` | |
| `ControlKept` | `ControlChangesSurvive` | `HasCompareAndSwap` |
| `GivingUpTakesContention` | `GivesUpOnlyUnderContention` | |
| `RotatedSecretsKeepTheirGrace`, `EnablingRestartsTheStreak` | `GraceKept`, `EnableRestartsStreak` | `HasCompareAndSwap`, `OneCaller` |
| `AcceptedMeansDelivered` | `AcceptedIsDelivered` | `Sequential`, `FanOutIsWhole` |
| `RetentionReachesAll`, `PruneSparesTheNeeded` | `RetentionReaches`, `NothingNeededIsPruned` | `KeepsPace`, `EntriesWithRecords` |
| `KeysLeadToMessages` | `IdempotentOnce` | `KeepsPace`, `Sequential`, `OnePass`, `KeysWithMessages` |
| `TicksNeverOverlap`, `StopIsQuiet`, `TicksAreFresh` | `NoOverlap`, `StoppedIsQuiet`, `OwnPass` | |
| `PortalStaysInside`, `ReadersChangeNothing`, `DocumentIsTrue` | `PortalConfined`, `ReadersOnlyRead`, `AnswersAreDocumented` | |
| `EditsAreNotDropped`, `SavesAreOwn`, `ListsAreInOrder` | `EditsNeedConsent`, `SaveIsOwn`, `NewestFirstOnce` | |
| `ControlPlaneTypes`, `AuditLogsAreTrue` | `RegistryTypeOK`, `AuditIsTrue` | (`Apart` is a guard of the model) |
| `ListsAgreeWithRecords`, `DeletionIsComplete` | `ListsAgree`, `NothingLeftToCall` | `HasCompareAndSwap` |
| `OnlyGenuineIsAccepted`, `RotationIsSeamless` | `AcceptedIsGenuine`, `SeamlessRotation` | |
| `OpenCallsAwait` | `TypeOK` of the adapters; a call is open exactly while its client is at an await | |
| `AdaptersImplementStore` | `ImplementsStore` | |

### The hypotheses

* `WorkersKeepUp`: `Prompt`, a finite set of deliveries, and a number of waves in which
  the pool works a batch off before its lease is over (`WavesFit`). The lease is
  counted from the claim, and the claims of a later wave wait for those before them;
  an attempt lasts `Longest`, a tick less than timeout and headroom. A batch that
  fits the pool is one wave and always in time. With the pool of 8, the timeout
  of 20 s and the lease of 60 s the code defaults to, 16 deliveries are two waves,
  and those are in time; the default batch of 20 is three, which is too many. That is
  the hazard at `dispatcher.ts:108`, and the reason why the theorem says so. The
  bound is sharp: with a batch of two, one worker and a lease a tick shorter than
  the hypothesis allows, TLC finds two owners.
* `ReplaysApart`: two replays of one delivery do not overlap between read and write.
  It is a state predicate assumed at every step, and not a constant, because any
  number of callers may replay different deliveries.
* `CrashesOutsideWindows`: no crash between the removal of a due entry and the write of
  the record or the next entry. `crash_strands` shows that it is needed.
  `KvCrashesOutsideWindows` adds the same step of a scan, between removing the ripe
  entry and writing the one at the lease. `RedisCrashesOutsideWindows` leaves out the
  same windows, with the commands of a claim between the removal of the due key and
  the member of the next one; a connection that breaks between a key and its member
  (`MirrorCrashPoints`) may do so at the removal of the lease's key, and not at that of the
  first key or after the key of a retry was written.
* `RetriesWait`: no delay of the schedule is zero. A retry due in the millisecond
  of a scan could have its entry swept by that scan.
* `FanOutIsWhole`, `EntriesWithRecords`, `KeysWithMessages`: no crash between the first
  write of a publish and its last delivery; between an index entry and its
  record; between a message and its key. Each theorem takes only the ones it
  needs.
* `KeepsPace`: a publish is over before its message reaches a `maxAge` that is set.
* `OnePass`: one prune at a time. Of two passes the slower removes a key by its name
  (`core.ts:672`), and meanwhile a new message may have taken that name.
* `OneCaller`: control-plane calls on one endpoint do not overlap (`core.ts:979`).

Some assumptions on constants serve the proofs and say nothing of the code: the
`NamesAssumption`s of `Deployment`, `Registry` and `EndpointPolicy` keep the names the models
use for themselves apart from those of actors and applications, `ActorsAssumption` of
`RedisQueue` dispatchers apart from callers, `ConsoleAssumption` the names of applications,
endpoints and event types; `WorkAssumption` takes a finite set of deliveries, without
which "one batch reaches that far" would mean nothing; `CrashAssumption`, `ScanAssumption` and
`MirrorAssumption` say that only an actor that is doing something can crash.

### The arguments

`DeliveryQueueProofs`. `TypeOK` is not inductive: a step that writes a due entry must
know that the time it carries is one. `TypeInv` adds `TimesPlanned`, which says so
for the steps that lead to such a write. One lemma per operation shows that it is
preserved. `NothingStranded` needs no promptness: even late writers that overwrite
each other leave the delivery covered, because whoever removes an entry is in the
window until it has written a terminal record or a new entry. `KeepsCover` is the
argument for every step that does not touch the entries of a delivery.

Exclusivity rests on `LeaseInv`: types, `WavesInTime` (a dispatcher whose claims wait is in
some wave of its batch, early enough, and what is left, waiting or begun in this wave,
fills no more than the waves to come: `InWave`; a wave ends with every worker busy
on a claim of it, which is why the next one has a pool less to do),
and of each delivery `Sound`:

* `Leased`, `Released`: the record is what the claim returned until its owner writes it,
  and pending from then until the entry is written;
* `OwnedOnce`: one owner;
* `ScheduledOnce`: a due entry is the only one, is at the lease's end while somebody
  owns the delivery, and nobody is about to write another;
* `CallsInTurn`: what a control-plane call read still holds when it writes;
* `OnTime`: an owner's lease runs at least as long as `Prompt` lets it work;
* `Planned`: only failed attempts within the schedule are repeated.

They only hold together: a second owner would need a ripe entry (`ScheduledOnce`), which
is at the lease's end, which the clock has not reached (`OnTime`); the entry agrees
with the record because nobody but the owner writes it (`Leased`), and that is
`OwnedOnce`. `LogInv` adds the history: attempt numbers are `1 .. attemptCount` or one
more (a logged attempt whose record is not written), and manual attempts are as many
as replays, but for the one that is open. The refinement needs no more than `LeaseInv`:
a write of the record is a step of `DeliveryLifecycle` because the writer knows the
record it replaces.

`ClaimProofs`, on a KV storage. Without a native claim the entries prove nothing: a delivery may have two
while an early attempt is under way. What is exclusive is the record: a scan swaps
exactly the record it read, and no record comes back. `ExclInv` replaces
`ScheduledOnce` by `ScanInv` and `ScanLeased` (what a scan has won is as it wrote it; a
scan is over before the clock moves on), and the proofs of the other parts are
those of the native queue, cited. For `NothingStrandedOnKv` the difficulty is the sweep:
a scan that read a terminal record removes the entry it was visiting, and the delivery
may have been replayed since. `KvCovered` therefore counts only entries that no scan is
about to remove; `PlannedLater` and `Fresh` show that whatever is written meanwhile lies
after the `now` of that scan, and so at another entry.

`ClaimProofs`, on Redis. The claim writes the record without comparing it, so nothing in
the records keeps two claimers apart, and `LeaseInv` alone is not preserved. What does is
that they pop different members, and that a delivery has one due key: the key is the
lock, the script that pops a member hides it from the others until the lease's end, and
a member whose key is gone opens nothing. `RedisInv` is `LeaseInv` with the types of a claim
(`PopTypes`: it is over before the clock moves on), a member per key that does not surface
before its time (`ZsetSound`), and of each delivery `RedisSound`:

* `PoppedOnce`: who has found the due key has the delivery to itself, and what it knows
  of it command by command (`Step`): the key is there until it is removed, the record
  is the one it read, and then the one it wrote;
* `HandsApart`: who has popped a member has hidden it from the others;
* `MirrorSound`: a mirror command that is still to be sent either removes the member of
  its owner, or adds the only member of the only due key;
* `MembersSound`: a member without a due key is about to be removed, or is of a delivery
  that is `Lost` (its writer died between the key it removed and the key it would have
  written) or `Deleted`;
* `Untouched`: of a deleted application nothing comes back.

No crash is excluded: a lost delivery never becomes anybody's again, which is what
`MemberCoverage` is about, and does no harm to ownership.

`MemberCoverage` and `MirrorAgrees` need the crash points, and `RedisCovered` of each delivery:

* `Indexed`: not terminal means a due key, or somebody about to write one;
* `Listed`: a due key has its member, or somebody is about to add it;
* `RemovedFirst`: a member's removal is sent only after its key is gone;
* `Reached`: the time at which a claimed delivery was due has come. The first key a worker
  removes is the one of that time, and so never the key at the lease's end, which
  must stay until the second removal: a connection that breaks in between leaves it.

The log and the lifecycle are the same argument for the three queues: `LogKeeps` for whatever
a claim or a crash does, `LogProcess`, `LogCall`, `ProcessSeen` and `CallSeen` for workers and
calls, of which they need only that attempts of one delivery do not overlap and
that a call writes over what it read (`AttemptsApart`, `ReadsHold`). `LeaseInv` gives both on the
native queue and on Redis, `ExclInv` on a KV storage.

`EndpointPolicyProofs`. `CopiesInv`: not only the record but every copy that somebody
may still write is well-formed. `PlansInv`: a plan respects the record it was made
from; the swap makes that the record that is replaced. `TriesInv` counts at least one
write by another per lost round. `SoloInv`, for calls that do not overlap, says that a
streak on the record or in a plan began after the last enabling, and that what a
caller read is still the record but for what a worker may change.

`MessageStoreProofs`. `Base` are the types and what the locals of a call and a pass mean.
`DelInv`: a delivery is there, or was removed by a pass, for every endpoint the
fan-out has left behind. `ApartInv`: no pass reads a message that is being written, since
it is too young. `ReachInv`: a delivery at rest has its entry and its message, or
is the one a pass or a publish is at. `KeyInv`: a stored message's key leads to it or
its call is about to write the key.

`ServerProofs`, the loop. `SlotNamesRun`: the in-flight slot names the one run there is;
`CallersOwnTheirRuns`, `StopsAwaitPolls` (a `stop()` waits exactly while a poll is
in flight) and `NothingRunsElsewhere` (in no process that is not running). `OwnPass` needs
what the runs hold as well: what is on a worker's list or worked on is leased
(`HeldIsLeased`), and nothing is held twice (`HeldApart`); then what a caller of `tick()` is
owed is due (`OwedIsDue`) until its pass claims, and `BatchTakesAll`: a batch at least as
large as the set of deliveries leaves nothing that the process can claim, so that claim
pays the whole debt (`ClaimPaysAll`). `StopsAwaitPolls` and the slot keep a run that
began before the call from being taken for the caller's own.

`ServerProofs`, the API. `RouteFits` is checked row by row over the routing table, against
`Calls` and the document: a route whose operation changes something names a mutating
action, one that shows a secret no reading action, and on the path of an application
an operation reaches only that application's resources. For an id that leads elsewhere
`GateReachesAstray` shows what remains true: the action was still allowed, so that who may only
read writes nothing wherever it leads. `GateInv` carries the decision
through the stages: `Identified` (whom the sender is taken for is whom the token or the
provider names) and `Authorized` (who comes to the operation was allowed its action).
The three properties follow at the step that answers.

`ServerProofs`, the UI. `FormInv`: the form on the page is of the item the last render showed
(`DraftOfShown`), and the registered blocker knows of unsaved edits (`BlockerIsFresh`), although
answers and refetches come between. `ListInv`: the pages fetched so far descend, and the
fetch goes on after the last record of the last of them; what `paginate` returns
for that cursor is older, whatever was published, moved or pruned meanwhile.

`RegistryProofs`. `ChecksStillHold` (what a call checked before its hook is still so when
it writes) follows from `CallsApart`, `IndexIsCurrent` (the list a call read is the list)
from the same, `RestAgrees` is `ListsAgree` for what no call is at, `GoneIsGone` that a
deleted application's records and list stay away, and its log is empty, restored, or that of
its creation anew. The workers and the audit pass disturb little of that on a storage with
`compareAndSwap`: a swap changes no set of records, and whoever writes a log writes only
what was committed (`LogsAreTrue`), which is all that types and audit need and holds on
any storage.

`SignaturesProofs`. `InstalledInTime`: the receiver's secret is the current one or its
grace is not over; `ListsComplete`: an endpoint's list, and the copy an attempt
carries, has every secret whose grace is not over; so every request on `wire` has an
entry for the receiver's (`WireSound`).

`StorageAdaptersProofs`. `Awaits` is what makes each action of the adapters map to one
step of the contract or a stutter.

### Only model-checked

* Liveness under fairness, which the provers cannot do: `DueIsAttempted`,
  `LeftoversSettle`, `Recovers`.
* The runs have batches of one wave; those of more are covered by the theorems. A batch
  the lease does not outlast is covered by neither.
* That each hypothesis of a theorem is needed, but for the crash window that
  `crash_strands` shows.

Every invariant and every action property of the runs is stated by a theorem.

## Plan

Every module planned is written. What is left to prove:

1. The type invariants the runs do not need: `RedisTypeOK` and `DeployTypeOK` as they
   stand; the proofs so far carry the parts they use.
2. A weaker guard: `Apart` of `Registry`, so that calls on one application may overlap
   when they write different lists.

## Not modelled

* Framework adapters and CORS: they hand requests to the fetch handler.
* Basic authentication, validation and durations: pure functions of strings.
* `storage/watch.ts` and the watches of the storages: the core never reads them.
* The cryptography, the drivers and servers of the storages, React and the browser:
  external, modelled by what the code may rely on.
* The MySQL dialect of drizzle, the creation and secret dialogs and the contents of
  the overview and audit pages of the UI, argument parsing and output of the CLI.
