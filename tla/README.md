# Formal models of metrics-tpl

TLA+ models of the metrics server and its agent, TLC configurations that check
them, and TLAPS proofs. Paths are relative to `src/`.

## The system

| Component | Code | State | Operations |
|---|---|---|---|
| Store contract | `internal/interfaces/store.go` | counters and gauges | SetMetrics, IncrementCounter, SetGauge, four reads |
| In-memory store | `internal/storage/memstorage` | two maps, one `sync.RWMutex` | the same, under the lock |
| PostgreSQL store | `internal/storage/dbstorage` | two tables, a connection pool | the same, as SQL statements with `retryCtx` |
| Service | `internal/service` | none of its own | Update, UpdateBatch, Get, List, Ping |
| Connection | `internal/postgres` | the global `Pool`, the tables | Connect, initDB, Close |
| Backup | `internal/storage/filemanager`, `internal/storage/storage.go` | the backup file, `Done`, the loop | NewStorage, LoadData, RunBackup, SaveData, Close |
| HTTP handlers | `cmd/server/handlers` | two `sync.Pool`s | one handler per route |
| Middleware | `internal/router`, `compressor`, `crypto`, `logger` | gzip writer pool | gzip, logging, HMAC check |
| Audit | `internal/audit` | observers, the audit file | NotifyAll, Notify, Close |
| Agent | `cmd/agent` | `pollCount`, the channel `jobs` | poller, reporter, system collector, workers, `MetricsSender` |
| Object pool | `internal/pool`, `internal/dto/reset.gen.go` | a `sync.Pool` | New, Get, Put; Reset of each structure |
| Generator | `cmd/reset` | none | which structures get a Reset, and its statements |

How they interact. The agent's collectors put batches into a bounded channel;
workers post them over HTTP, with retries and a fallback to single metrics. The
server's handlers call the service, the service calls the store once or twice
per request, and an accepted update starts one goroutine per audit observer.
Beside the requests, RunBackup reads the store at every tick and writes the
backup file, from which NewStorage restores at the next start. The object pool
stands by itself: no program of the repository uses it yet.

What is hard here: requests interleave between the two store calls of one
request; the batch of a writer is half done for a while; `SetMetrics` of the
database holds one connection and waits for another; saves read two maps in two
steps and write a file that was truncated before; a crash may come anywhere;
posts are lost, late or answered and repeated; `pollCount` is shared without
synchronization; pooled slices outlive the request that filled them; a Reset
follows pointers into structures that somebody else has.
`PROJECT.json` lists these hazards with their lines.

## The modules

`Metrics` holds what all share: a metric, a store's contents, `Put` (what storing
one metric does) and `Wrap` (int64 arithmetic; `Half` stands for 2^63). A gauge
is only copied, so its values are an arbitrary set. `nil` and a missing map key
are `Nil`.

`MetricsStore` is the abstract contract of `interfaces.Store`: a write call takes
a private copy, stages its metrics and publishes the copy in one step, provided
nobody published in between; a read answers from what is published.

`MemStorage` is the in-memory store. Each goroutine makes one call at a time.
`CallWrite` is the entry of SetMetrics (a batch) or of IncrementCounter, SetGauge,
UpdateCounter and UpdateGauge (one metric); `Announce` and `Enter` are the two
halves of `mu.Lock`, `PutItem` is one round of the loop, `Unlock` admits the
waiting readers. `CallRead` and `Read` are the getters. The module implements
`MetricsStore`: while a writer is inside, `Published` is what it found, and its own
`mem` is the private copy of the contract. `CallWrite` does not yet read the store,
so the abstract call begins at `Enter`.

`MetricsService` adds the service's logic to `MemStorage`: `stage` is how far a
request is, and each `CallWrite`/`CallRead` is made by a service step. Update is a
write and then a read in a second critical section (`ReadBack`); List is two reads
in the order `ListOrder`. The history `log` keeps what was published.

`DBStorage` models the PostgreSQL store. `tx[p]` and `conn[p]` are the connections
a goroutine holds; `Acquire` needs a free one. A statement takes effect and is
answered, is refused, or breaks with unknown effect (`RunOk`, `RunRefused`,
`RunBroken`); `Outcome` is what each kind of call makes of it. `Begin` has no guard
on `ctx`, as the code passes `context.Background()`. `IsRetryable` models the test for
class 08 as never true: it names the error type of another version of the driver
(`dbstorage.go:19,242`). BIGINT refuses an overflow.

`Backup` models FileManager, `storage.NewStorage`, `storage.Close`, the connection of
`postgres.Connect`, and the process. `cfg` is the configuration, chosen at the start.
`Start` chooses the store: `Connect` yields a pool and two tables, or fails half-way and
leaves the memory. `OpenFile` is LoadData up to its loop: the file is read and decoded, or
there is nothing to load, or the disk fails on a good file (history `unread`), an error
NewStorage ignores. `LoadItem` is one round of the loop, and `NewStorage` what follows it. A save is `StartSave`, `ReadMap` for the counters and for the gauges,
`Create` (truncate) and `Encode`; the three callers of SaveData may run at once. The
database may fail any call: GetCounter then answers that there is no such counter,
GetAllCounters and GetAllGauges nil, and a write is lost or has taken effect; after
`Closed` its pool answers nothing. `Crash` may come at any time; `Exit` is the end of
`main`. A write of a client is one step, as the store's contract has it.

`MetricsSender` is one call of `SendBatchJSONCtx` in seconds: the client's timeout of
five, the worker's deadline of three, the pauses of one, three and five. `Store` is what the
server keeps of a post it accepts: all of it, or, of a batch on the database, any part
(`MayBePartial`; `backend` is the server's store). A single post is kept whole, since
retryCtx returns the error. The network is external.

`Agent` models the goroutines of `Agent.Start`. `pollCount++` is two steps,
`PollLoad` and `PollStore`; the reporter reads, queues and resets in three. A
worker's send either has its batch accepted or gives it up (`Sent`); what happens in
between is `MetricsSender`'s subject. Both may leave a post behind whose answer nobody
waits for any more (`adrift`); the server may come to it at any later time (`Land`).

`Audit` models the handlers' name slices and the audit. `Arrays` are the arrays
behind `stringSlicePool`; `MarshalName` reads a name while the array may already
belong to another request. `Lock` takes the mutex of FileAuditObserver, `Record` and `Drop`
are the two ways Notify ends, both with the unlock. `Shutdown` is `server.Shutdown`, `Close`
the deferred Close of the publisher, `Exit` the end of main or of the process. The guard
`fileOpen` of `Record` is os.File's, which refuses to write to a nil file; Notify has none.

`Pipeline` takes a request through gzip, logger, hash check and handler and back:
`pc` is how far it is, `resp` the status and the parts of the body in order, `seen` and
`logged` what the logger's wrapper saw and wrote. `target` is the response a pooled
`gzip.Writer` was `Reset` to, `content` whose JSON is in a pooled buffer. A body is
described by its `coding` (plain, gzip, no gzip stream, broken off, wrong checksum) and
by what its HMAC was computed of. `HashCheck` includes the logger's reading of the body,
after which a damaged body yields its error again. `SetOne` and `Get` are the service's
calls; the `...Fails` actions are those of the database when it fails. A batch is one step
on the memory (`SetMany`). On the database it is `BeginBatch`, one `SetItem` for each item,
which is stored or not and reported or not, judged against what is there at that moment, and
`CommitBatch`, or `SetManyFails`, which takes nothing back; other requests come in between.

`lost` are the items whose statement failed. `missed` and `past` are histories: another call
of the database failed, and what each metric has been worth.

`ResetGen` is the generator. A type is the node of its expression; `Generated` are the
structures that get a method, `FieldReset` is the statement of a field, `Method` the body.
`Compiles` is what the Go compiler accepts of the result. `Emptied` are the structures a Reset
leaves nothing in: a nested structure is as empty as its own Reset makes it, with its
embedded fields and those without a Reset. `example.go`'s structures are written out.

`ResetPool` runs these bodies in `Put`, one statement at a time: `stack[u]` are the calls
of Reset goroutine `u` is in, `val` the fields of each structure ("zero", "used" or a
link), `held` and `pool` who has it. A link is a pointer to any structure with a generated
Reset; `Kind` gives each object its type, and `Allocate` is a user's new structure of a type
that is not the pool's, to be linked. `GetPooled`, `GetNew` and `Drop`
are what `sync.Pool` may do: hand out anything it has, or a new one, and forget. `Use` and
`Link` are the users of the pool, who put a structure back once and write only to those
they hold. `ResetLinked` calls the Reset of a linked structure; a stack with more calls than
structures were allocated is taken to overflow, and the process dies (`fatal`). The histories
`kept` and `relinked` are the links that were there when a structure was put, and the
structures whose links were set while a Reset was in them.

Definitions marked "Faulty variant" are not part of any specification. Each is a
plausible bug, and shows that a property can fail.

## The runs

| Run | Question | Bounds |
|---|---|---|
| `mem_storage` | Does the in-memory store keep the contract, and does nobody starve? `ImplementsContract`, `LockInv`, `CallsReturn` | 3 goroutines (writer, waiting writer, reader), batches of up to 3, int64 of 2 bits |
| `service` | Are answers real, and do only whole valid requests become visible? `ServiceInv` (`MetricAnswersReal`, `ListCountersNotOlder`), `WholeRequestsOnly` | 3 goroutines, 4 requests of 7 kinds, symmetric |
| `db_storage` | Are connections returned on every path, is nothing counted twice, is success honest, does every call return? `PoolAccounted`, `DBInv` (`NoItemTwice`, `SuccessIsApplied`), `DBCallsReturn` | 2 goroutines, 2 connections: both can be held by transactions; the third increment overflows |
| `backup` | Is the connection whole, is a saved file a cut, is it restored, does the save at the start keep it, when is it unusable, is everything saved in the end? `BackupInv` (`DatabaseIsReady`), `SavedIsCut`, `RestoreBringsBack`, `StartKeepsBackup`, `BrokenHasCause`, `WritesGetSaved` | 6 configurations (memory and database, loop and single save, with and without Close, Restore, path), 2 writes, 2 starts, 1 failure of disk or database, one gauge JSON cannot express |
| `sender` | Is success honest, and how often may a metric be stored? `SuccessIsStored`, `SenderInv` (`CopiesNeedDoubt`), `ThreeSecondsBound`, `SendReturns` | batch of 2, deadline 3 s, server on memory and on database |
| `agent` | Does the queue keep and order the reports, is none lost unnoticed, do collectors and reports get on? `QueueInv` (`QueueKeepsOrder`), `GaugesMoveForward`, `ReportsAccounted`, `AgentGoesOn` (`CollectorsGoOn`, `ReportsAreTried`) | 1 and 2 workers, 2 reports, 2 system batches, 1 poll: one worker's queue of 2 fills up; posts land late while the server has fewer than 2 reports |
| `http` | Do status, audit event, log and body tell what happened? `StatusIsTrue` (`RefusedChangesNothing`, `OkIsStored`, `EventsAreTrue`, `ErrorsHideNothing`), `ServerErrorHasCause`, `DamagedIsNotStored`, `AnswersAreReal`, `ResponseIsOwn`, `LogIsHonest`, `AgentIsHeard` | 2 concurrent requests of 18 kinds, among them batches of 2 and 3, 2 writers, 2 buffers, memory with and without key, database; symmetric |
| `audit` | Who owns a slice, what do the observers record, and is every event handled? `ArrayInv` (`ArrayHasOneHandler`, `SentEventIsRight`), `RecordsAreHonest`, `EventsAreHandled` | 2 handlers, 2 arrays, 2 observers, 2 kinds of requests (3 in `audit_names`), 2 events |
| `pool` | Who owns a structure and who changes it, what does its next user find, when does a Reset not end? `OneOwner`, `OthersNeedLink`, `GetIsClean`, `FatalNeedsCircle` | 2 goroutines, 2 structures of the pool's type and one of a type linked to it (circles of one and of two, also over two types), pools of 4 structs with every kind of field the generator tells apart, and a nested structure that stays partly full |

A name in parentheses is a conjunct of the name before it. Every passing run also checks the
type invariant of its module, as an invariant of its own or as the first conjunct of
the module's `...Inv`.

Three runs end in a violation, each of something the repository says of itself:

* `agent_polls`: the reporter resets `pollCount` after a send that may block; what
  was polled meanwhile is lost (`cmd/agent/main.go:345-351`).
* `db_atomic`: the items of a batch are committed one by one, outside the
  transaction that was begun for them (`dbstorage.go:167,172`).
* `audit_names`: the slice of an audit event goes back to the pool before the
  observers have read it; a later request overwrites it (`handlers.go:338`).

Why the bounds are enough. The lock, the pool and the queue have no behaviour
that needs more participants than one of each role: the holder, one that waits,
and one in the other role. Batches of three have a first, a middle and a last
item. Two starts are one restart. The models' counters wrap after two or three
increments, so that overflow happens.

### Fairness

* `MemStorage`: a goroutine that can run does run (weak), and a writer that finds the
  lock free again and again gets it (strong on `Announce`): `sync.Mutex` hands the
  lock to a writer that has waited for long. Readers need nothing of that kind.
* `DBStorage`: weak for every step; strong for getting a connection, since the pool
  serves its waiters in order; and `CtxDone`, a timeout on every request. The last
  is what the service gives when `StoreInterval > 0`, and the agent's three seconds
  otherwise. Without it the calls need not return: two transactions may wait for each
  other's connection.
* `Backup`: goroutines run, a started process gets through NewStorage, and the ticker ticks. Nothing makes clients write, files
  fail, or the process stop.
* `MetricsSender`: the call goes on; a post ends at the latest with its timeout.
* `Agent`: workers go on, and a collector blocked in the channel send gets room that
  comes up again and again (the channel serves its senders in order). Nothing makes
  tickers tick, the server come to a post that was left, or the agent stop.
* `Audit`: a goroutine of NotifyAll goes on when it can (weak), which also gets it the mutex,
  as finitely many others want it. Nothing makes handlers return or the server shut down.

## What is proved

Every safety invariant and every action property of the runs is a theorem, for all
values of the constants that the modules' assumptions admit (sets of goroutines, requests,
names and values of any size, batches of any length, int64 of any width), and so is the
refinement of the contract. `PROJECT.json` lists the theorems; each `...Proofs` module
EXTENDS the module it is about.

The assumptions say that the markers (`Nil`, `Nobody`, `NoConn`, `NoObject`, ...) are not data,
that bounds are numbers, and what the callers in the code guarantee of their inputs:
that a write is a sequence of metrics and a single one has length one, that a body that is not
compressed cannot be signed in its compressed form, that a package's structures are well
formed, their generated methods compile, and a structure nested by value holds no links
(`NestedHasNoLinks`: a link is a field of its own). Four of them became explicit with the proofs:
`DBAssumption` (items are metrics), `AuditAssumption` (one longest batch), `ServiceAssumption`
and `ResetPoolAssumption` (`WellFormed`).

Few of the properties are inductive as they stand. For each module there is an
invariant that is, made of named parts; every action has a lemma that it keeps the parts
it can disturb, and the property follows. What the parts are for:

| Module | Theorems | The inductive invariant, and why it takes more than the property |
|---|---|---|
| `MetricsServiceProofs`, the store | `MemTypeCorrect`, `LockCorrect`, `MemImplements` | `MemInv`: types and lock together. Typing needs which calls still carry all their metrics; the lock relates `writer`, `readers` and `waiting` to the program counters |
| `MetricsServiceProofs`, the service | `ServiceCorrect`, `WholeRequests`, `ServiceUsesStore` | `IInv`: the history ends with what is published (`LogInv`), the handler's `stage` fits its call (`StageInv`), the metrics stored so far are a prefix of the request (`WriteInv`), and what was read is in the history since the request came (`ReadInv`) |
| `DBStorageProofs`, the pool | `PoolCorrect` | `PoolInv`: only a batch is between two items, only a single write waits for a retry (`PoolShape`); else the outcome of a statement could lose a transaction's connection |
| `DBStorageProofs`, the calls | `RetryCorrect` | `CallInv`: the items that are left have not taken effect, and a single write that waits for another attempt has not either, unless its context lets no attempt start (`HistoryOf`) |
| `BackupProofs` | `StorageCorrect`, `BrokenCorrect`, `CutCorrect`, `RestoreCorrect`, `StartCorrect` | `Inv`: who may save in which phase (`Phases`), what a save has read is in the log in the order of its reads (`SavesAreCuts`), what LoadData has been through is back (`LoadInv`), the save at the start sees the store LoadData left (`StartInv`) |
| `MetricsSenderProofs` | `SenderCorrect`, `SuccessCorrect`, `ThreeSeconds` | `CallInv`: how many copies there may be before and after a metric's own post, what must be stored while there is no error; for the three seconds `BoundInv`, where the clock bounds the attempts |
| `AgentProofs` | `QueueCorrect`, `GaugesCorrect`, `ReportsCorrect` | `FlowInv`: everything from the reporter's hand over the queue and the workers to the server is ordered by when it was taken, and in one place only |
| `AuditProofs` | `ArrayCorrect`, `RecordsCorrect` | `AuditInv`: what a goroutine has read so far is part of its event (`NotesInv`); a handler that fills a slice has one of the events left (`EventsBound`) |
| `PipelineProofs` | `PipelineTypeCorrect`, `StatusCorrect`, `ServerErrorCorrect`, `DamagedCorrect`, `ResponseCorrect`, `LogCorrect`, `AgentHeard`, `AnswersCorrect` | `PInv`: types, and of each request what it holds of the pools (`Shared`), what it has at each point (`Flow`), what it must be to have stored something (`Work`), its answer (`Outcome`, `End`) and what its answer was taken from (`History`) |
| `ResetPoolProofs` | `ResetTypeCorrect`, `OwnerCorrect`, `LinkCorrect`, `CleanCorrect`, `FatalCorrect` | `PoolInv`: what is being put was allocated and is linked as when it was put; `CleanInv`: the fields whose statement has run are clean, and so is all that nobody got yet; `MadeInv`: whatever a link leads to was allocated; `WalkInv`: each stack follows links |

How the longer arguments go.

* *The contract.* `InitMaps` and `StepMaps` map each step of the store: `Enter` is the
  contract's `Begin`, `PutItem` its `Stage`, `Unlock` its `Publish`, `Read` and `Forget`
  themselves, every other step a stutter. `Unlock` may publish because no other writer was
  inside (`OneWriter`). `ServiceUsesStore` adds that every step of the service is one of the
  store or leaves it alone (`IsMemStep`).
* *One request at a time.* In the service and the pipeline a step belongs to one
  goroutine. Lemmas of the form `...Moves` show that it keeps its own part of the
  invariant, `UntouchedKeeps` that it keeps everybody else's: other requests only
  lengthen the history and never remove a metric (`Keeps`).
* *Batches of any length.* The library's induction theorems cannot be used (they take an
  operator). `Induction` restates them for a set of numbers, from the least element of
  what is not in it (`WFMin`); `FoldExists` and its like show that the recursive function
  inside the community modules' folds exists, and `UptoFacts`, `FoldType`, `BatchKeeps` and
  `ExtractedFacts` what a batch or a structure's fields, taken one by one, amount to.
  The three or four lemmas about induction and folds stand in each module that needs them.
* *A save is a cut.* The log only grows, so that a moment a save has read stays one it may
  have read (`CutStays`), also when the final save reads beside the loop's.
* *The pool's data.* `BodyFacts` shows by induction over the fields that each field but the
  embedded has one statement, `TidyIsEmptied` that a structure no field of which carries is
  empty after its Reset, and `WhatIsLeftCarries` that the statement empties its field or the
  field is one that `Carries`. A Reset writes no "used", so that a statement that has run stays run,
  also if another Reset walks over the same structure meanwhile.
* *The circle.* A stack that overflowed has more calls than structures were allocated, so
  that one occurs twice (pigeonhole); by `StacksFollow` there are links from the one to the
  other. This is where a proof attempt found a mistake: that the links are *still there* holds
  with two structures, but with three a goroutine may set the link of a structure it holds
  while another's Reset is behind it. `FatalNeedsCircle` now says so, with the history
  `relinked`.

Only model-checked are the liveness properties, `CallsReturn`, `DBCallsReturn`,
`WritesGetSaved`, `SendReturns`, `AgentGoesOn` and `EventsAreHandled`: fairness and
ENABLED are outside the prover's reach. The three violations are TLC's.

## What is not modelled, and known divergences without a run

* The hash of a response: `responseHashWriter` sets the header only if the body was
  written before `WriteHeader`, which no handler does, so that no response has one
  (`crypto.go:76-83`). `HandlerLog` is unused.
* A request rejected as not being gzip is not logged; a text answer is logged with
  status 0 (`LogIsHonest` says so); after a gzip body that broke off a line of text
  follows the response, behind the end of its own gzip stream (`closeError`).
* `SetMetrics` begins its transaction with `context.Background()` (`dbstorage.go:152`):
  although a cancelled call should return (`service/metrics.go:30-31`), it waits for a
  connection until others give one back. `Begin` has no guard on `ctx` for that reason.
* `GET /ping` without a database: `main` pings a nil pool, the handler panics and the client
  gets no answer (`cmd/server/main.go:54`; `handlers.go:58` promises 200 or 500).
  `ResponseIsOwn` says that nothing else goes unanswered.
* `Pool.Put(nil)` does not "just return" (`pool.go:96-97`): a nil pointer in an interface is
  not nil, goes into the pool, and a later Get returns it. `GetIsClean` says that only then
  Get returns nil.
* An embedded field, and a field of a named type without a Reset, keep the data of the last
  user, although Get's object should be in the initial state (`pool.go:78-79`), and so does a
  nested structure that has such a field; links to other structures stay. `Carries` lists these fields, and `GetIsClean` says there are no
  others.
* Links may be set by the holder of a structure while the Reset of another one walks over
  it, a data race of the users of the pool; `relinked` in `FatalNeedsCircle` is there for it.
* The generated method of an array field does not compile (`Compiles`), nor that of a pointer
  to an array, of an anonymous structure or of an instantiated generic one: the pool's
  packages have none.
* `main` ends without `storage.Close`, as `storage.go:72-73` recommends; what was written
  since the last tick is lost (`cfg.closes = FALSE` in `Backup`).
* Configuration: flags and environment are read once, before anything runs; the values are
  constants here. `normalizeDSN` and the text of the generated file: strings. The static
  checker and the profiler: tools outside the system.
* If the query for one of the maps fails, SaveData writes a file without it over the good
  one (`filemanager.go:39-46`), also when `storage.Close` closes the pool under a save of
  the loop. `SavedIsCut` says exactly when.
* If the database fails GetCounter, LoadData adds the whole value to what is there
  (`filemanager.go:90-96`); `RestoreBringsBack` leaves out such metrics, and only them.
* A database's counter that an older backup knows is set back to it; an increment BIGINT
  refuses is lost, and LoadData reports nothing.
* Deltas may be negative: nothing checks their sign, although `store.go:15` says that
  counters only increase. `LoadData` lowers a database's counter to an older backup's
  value in the same way (`filemanager.go:93`).
* A batch in the database returns nil although an item failed (`dbstorage.go:165-187`), is
  answered with 200 and audited whole; `handlers.go:313` promises 200 for an update of all
  metrics. `OkIsStored` and `SuccessIsStored` except these items. A failed query reads as an
  absent metric (`dbstorage.go:79-92`); both are also in `Outcome`.
* If the disk fails while a good backup is read, NewStorage goes on with an empty store
  (`storage.go:61`), and with `StoreInterval = 0` it saves that over the backup
  (`storage.go:65-66`). `RestoreBringsBack` and `StartKeepsBackup` except it (`unread`).
* A batch whose commit fails is answered with 500 although its items are stored, and is then
  sent again by the agent: counters count twice (`ErrorsHideNothing` says when).
* Errors of class 08 are returned at once, although `dbstorage.go:244` says they are
  retried.
* `StoreInterval = 0` is called "sync mode" (`config/server.go:27`), but the file is
  written once, at the start.
* A counter that is 0 in the file is not created by `LoadData`; it reads as 0 only where
  an absent counter does (`OrZero` in `RestoreBringsBack`).
* `storage.Close` does not wait for a save of the loop under way, which may overwrite
  the final one with older data.
* A crash between `Create` and `Encode`, or a gauge that is NaN, leaves no backup
  (`BrokenHasCause` lists the causes).
* A report of which a post was left to itself may overwrite a newer one at the server, or
  be stored twice (`adrift` in `QueueKeepsOrder` and `GaugesMoveForward`).
* The sender's fallback uses a context that has often ended (`main.go:257,312`).
* Audit events in flight at shutdown are lost (`audit.go:70`, `main.go:58`);
  `EventsAreHandled` allows it, and nothing else. What is in the agent's queue at its
  shutdown is dropped (`cmd/agent/main.go:375`).
* What the home page lists, and retries cut off because `StoreInterval` is the timeout of a
  request (`service/metrics.go:70`), no property is about. The error places of the handlers
  are one definition (`Fail`), so that one missing return among them would not show.

## Plan

1. Done: the store and its contract, the service, the database, the backup with the
   connection, the agent and its sender, the audit, the HTTP pipeline, the object pool and
   its generator; proofs of every safety and action property of the runs.
2. Then proofs: the lemmas on induction and folds in one place; shorter leaves where one
   rests on many facts; that the database's batches, though not atomic, publish only whole
   items in their order.
3. Open: LoadData item by item against the detailed database; the agent's sender composed
   with the server, so that `CopiesNeedDoubt` speaks of counters.
