# rtmetrics: models, checks and proofs

rtmetrics is a metrics server and its agent. The agent samples the Go runtime and
the machine, and reports batches over HTTP or gRPC. The server keeps counters
(added to) and gauges (replaced) in memory, in memory with a snapshot file, or in
PostgreSQL, and notifies an audit of every accepted update. This directory holds
TLA+ models of the parts where concurrency, failure and ordering matter, the TLC
configurations that check them, and TLAPS proofs: every safety property that a passing
run checks is also a theorem.

    tlc -config SnapshotPeriodic.cfg MCSnapshotServer.tla     # one run
    tlapm SnapshotServerProofs.tla                            # the proofs

`PROJECT.json` lists components, runs, mutants, hazards, theorems, and for every
definition the lines of the source it models.

## 1. The system

| Component | State | Operations | Talks to | Hard behaviour | Correct when |
|---|---|---|---|---|---|
| In-memory storage (`internal/storage/mem_storage.go`) | two maps under one RWMutex | SaveCounter, SaveGauge, SaveBatch, Get*, GetAll*, Restore | handlers, savers | the two GetAll calls of a snapshot take the lock twice | a batch is applied whole; a read sees what was answered |
| Snapshot file (`internal/storage/file.go`, `internal/server/snapshot.go`) | one JSON file, temporary files | SaveSnapshot, RestoreIfNeeded, RunPeriodicSave | memory, disk | crash, failed write or rename, values JSON cannot hold | the file is a state memory was in, and only moves forward |
| Synchronous persistence (`internal/server/sync_repo.go`) | none of its own | save after every write | handlers, file | handlers save concurrently | what was acknowledged is in the file |
| Server life cycle (`cmd/server/main.go` `run`) | goroutines, listeners, contexts | start, serve, drain, final save, exit | everything | signal during a save, drains that time out, listener failing | an orderly exit loses nothing and ends |
| PostgreSQL storage (`internal/storage/postgres`, `internal/database`) | a table, a pool of connections | the same as memory, plus retries | PostgreSQL | lost connections around a commit, deadlock, pool exhausted, client gone | counters add up, calls return, nothing leaks |
| Retries (`internal/retry`) | attempt, context | Do | both clients of a network | repeating what was already done | bounded, stops with its context |
| Router and middleware (`createRouter`, `internal/middleware/*`, `internal/hash`, `internal/rsaenc`, `internal/realip`) | configuration | decrypt, decompress, check signature and subnet; sign and compress the answer | agent, handlers | order of the stages on the way in and out | compatible configurations understand each other, answers can be read |
| Handlers (`internal/handler/*`) and gRPC service (`internal/grpcmetrics`, `internal/proto/convert.go`) | none | validate, save, notify, answer; read | storage, audit | partly invalid batches, failing storage | the answer tells what happened |
| Audit (`internal/audit`) | observers, channel of 64, closed flag, a goroutine | Subscribe, Notify, Close, dispatch | handlers, file, URL | Notify racing Close, slow observers, full queue | never panics or blocks; accepted events are delivered before Close returns |
| Agent (`internal/agent`, `cmd/agent`) | last samples, PollCount, queue, workers | poll, report, flush, submit, send, stop | server | lost answers, timeouts, shutdown with batches queued | every poll is accounted for; shutdown delivers and ends |
| Configuration (`internal/config`) | the settings | defaults, JSON file, flags, environment | everything, at start | values that mean "not set" in one source and something in another; sub-second intervals | the documented precedence holds for each setting |
| TLS for gRPC (`internal/grpctls`) | certificates | ServerCredentials, ClientCredentials | gRPC on both sides | half a configuration; a client that trusts another certificate | who is not trusted is not talked to |
| Logging, `internal/pool`, generated code, `cmd/reset`, `cmd/staticlint` | - | - | - | - | not modelled, see section 8 |

The storage is chosen once at start: PostgreSQL if the DSN is set and works, else
memory with a file if a path is set, else memory. With a file, `store_interval`
0 means synchronous persistence, a positive one periodic saves, a negative one
only the save at exit.

## 2. Modules

| Module | Models | Checked by | Proofs |
|---|---|---|---|
| `SnapshotStore` | abstract: a memory with a checkpoint | as `ImplementsStore` | |
| `SnapshotServer` | memory, file, savers, handlers, shutdown | the five `Snapshot*` runs | `SnapshotServerProofs` |
| `AgentReport` | abstract: polls reported until delivered or given up | as `ImplementsReport` | |
| `AgentRunner` | the agent, and the server as it sees it | `Agent*`, `System` | `AgentRunnerProofs` |
| `Config` | how both programs arrive at their settings | `Deployment`, `System` | |
| `Deployment` | server processes one after another, from their settings to their exit | `Deployment` | `DeploymentProofs` |
| `System` | `AgentRunner` and `Config` with a server that saves, crashes and comes back | `System` | `SystemProofs` |
| `AuditLog` | abstract: a best-effort log | as `ImplementsLog` | |
| `AuditSubject` | the audit at the grain of lock, flag and channel | `Audit` | `AuditSubjectProofs` |
| `PostgresStore` | concurrent calls over a pool, and GET / | `Postgres` | `PostgresStoreProofs` |
| `Gateway` | a request from the agent to the answer | `Gateway` | `GatewayProofs` |
| `Sums` | sums over sequences and sets, for `AgentRunner` and `PostgresStore` | both | `SumProofs` |

`MC*` modules only give constants values. Definitions whose comment begins with
"Mutant of" are not part of a specification: each is a plausible bug in the
definition it names, kept to show that a property would notice it.

**SnapshotServer.** A map of counters is represented by the set of requests whose
deltas it has absorbed (additions commute), a map of gauges by the set of requests
that have written to it: "newer" is then set inclusion. Of values it keeps only
which gauges JSON cannot encode. `phase` is where `run()` is; `pc` is where every
handler, the ticker (`Ticker`) and the final save (`Main`) are; `copy` is what each
has read. `ReadFirst`, `ReadSecond`, `WriteTemp`, `Rename`, `RemoveTarget` and
`RenameAgain` are `SaveSnapshot` and `Save`, shared by all three kinds of saver;
`Accept`, `Apply` and `Reply` are a handler through `SyncSaveRepo`; `Boot`,
`ShutdownSignal`, `ListenerFailed`, `HttpDrained`, `GrpcDrained`, `FinalSave` and
`Exit` are `run()`; `Crash` is the death of the process at any point.

**AgentRunner.** The n-th runtime sample is the number n. `loops` are the three
goroutines of `Run`, `main` is `Run` itself, `flush` the call of
`submitCurrentMetrics` in progress, with the two selects of `Submit` as separate
steps; `jobs` and `workers` are `WorkerPool`; `limbo` holds requests that their
client has given up and that may still arrive. `server` is what the server has
applied. `AgentReport` sees of all this the number of polls pending, delivered, given up
and doubtful.

**Config.** A source (file, flags, environment) is a function whose domain is the
settings it gives; `Merged` overlays them as `parse` does, `ApplyStoreFile` is
`applyStoreFileEnv`, `NonBlank` is what `env.Parse` makes of a variable set to nothing.
`Given` says the documented precedence again, for one setting at a time, and is what the
overlay is compared with. The module has no state: `Deployment` and `System` read their
settings through it.

**Deployment.** `stage` is where `run()` of the server is, from `config.Load` to `exit`;
each step of the start either goes on or takes the early return of the code
(`StartFails`, with the deferred calls), or falls back (`ConnectDatabase`, `UseMemory`,
`OpenAudit`). `repo` is the storage chosen, `stored` the table and the files, which
outlive the process, `handler` where the handler of each update is. In synchronous mode a
handler writes to memory (`Apply`), copies it (`CopyMemory`) and renames its file (`Rename`)
in three steps without a lock, beside other handlers and, if a drain gave up on it, beside
the final save (`FinalCopy`, `FinalRename`). The ticker saves in one step: it is alone, and
`SnapshotServer` has its parts. `promised` is history: what a client was told is in a
durable storage, and what a snapshot has held. An update that was written while an older
copy of memory was on its way to the file (`overtaken`) is not promised by its answer, and
what the final save writes beside such a copy is not either: this is what
`SnapshotSyncConcurrent` shows of the code.

**System.** `AgentRunner` with another server: `ServerApplies`, `ServerSaves` and
`ServerAnswers` take the place of `SendSucceeds`, the server may crash between them,
exit, and start again from what it has saved. When the client gives a request up after it
was applied, the handler goes on and saves it (`LeftoverSaves`). The save is one step, which
is right while one is in progress at a time; so the next request is applied when such a
save is over. `LaunchAgent`, `NewSender` and `NewRunner`
are `run()` of the agent before `Runner.Run`; `RunnerStep` is every other action of
`AgentRunner`.

**AuditSubject.** `readers`, `writer` are the RWMutex, `events`, `chan` the channel,
`closed` the flag beside it, `worker` the goroutine of `dispatch`. `Notify` is three
steps (read lock, select, unlock), `Close` six.

**PostgresStore.** Callers make one call each; `Begin`, `Prepare`, `Execute`,
`Commit` are the statements of `saveBatch`, `Call`, `Retries` and `Fail` are
`retry.Do`. PostgreSQL is what the code relies on: row locks until the end of the
transaction, deadlock detection, no wrap of a bigint, read committed. `CommitLost`
is a commit that took effect and whose answer did not come. A lost connection gives an error
that `isRetriable` knows (class 08, network) or one that it does not. Deltas may be
negative, and a counter may leave its range at either end. A page (`GET /`) is two
queries, again and again.

**Gateway.** A body is what it holds under a sequence of layers (gzip, encryption);
a signature is a key and the layers of the bytes it was computed over. `AgentPost`
puts the layers on as `client.go` does (for a batch and for single metrics);
`CheckCertificate` is the handshake of gRPC; `Admitted` is the middleware in the order of
`createRouter`; `Refusal` the validation of each handler; `Answered` takes the answer
back through the stages that are outside of whoever gave it. A body may be cut short inside
its gzip stream: it is then refused by `CheckSignature` or by the decoder of a handler, who
answers with a bare status where others use `http.Error`. Over PostgreSQL a save whose answer
was lost is repeated (`SaveRepeats`), up to `MaxAttempts` times in all. Cryptography is ideal.

## 3. Runs

| Run | Instance | Shows |
|---|---|---|
| `SnapshotPeriodic` | three writes in progress at once (one over gRPC, two with the same gauge), two process starts, a crash, drains that may give up on handlers, fair | `FileWithinMemory`, `SnapshotNeverRegresses`, `ImplementsStore`, `ExitPersistsEverything`, `WritesReachTheFile`, `ShutdownCompletes` (and `TypeOK`) |
| `SnapshotSync` | synchronous mode, four writes, one at a time, crashes and a restart | `AckedIsDurable` |
| `SnapshotFaults` | two concurrent synchronous saves, every fault | `TornOneWay` |
| `SnapshotSyncConcurrent` | two concurrent synchronous writes | **violates** `AckedIsDurable` |
| `SnapshotNaN` | a gauge set to NaN | **violates** `ExitPersistsEverything` |
| `AgentFaults` | two workers, two polls and one report besides the final flush, every fault | `EveryPollCounted`, `ShutdownDeliversEverything`, `NoSubmitAfterClose`, `ImplementsReport` (and `TypeOK`) |
| `System` | one worker, two polls, two reports, two attempts, a server that crashes and restarts at will, synchronous or periodic, and saves what a client gave up; 39 launches of the agent; fair | `AnsweredSurvives`, `SamplesInOrder`, `AgentStops`, `AgentSettingsAsGiven` |
| `AgentPartialFlush` | two workers, a flush that times out | **violates** `ServerNeverOvercounts` |
| `Audit` | three handlers, two closers, a late subscriber, a queue of two | `NeverPanics`, `CloseDelivers`, `ImplementsLog`, `NotifyReturns`, `CloseReturns` (and `TypeOK`) |
| `Postgres` | two batches over the same rows in opposite orders, a single negative update whose client may leave, two connections, two lost connections | `CountersAddUp`, `CommitsAccounted`, `NothingLeaks`, `PageIsRecent`, `EveryCallReturns` (and `TypeOK`) |
| `Deployment` | three launches out of 52 (every combination of three files, three command lines and five environments, and the special cases), two updates over HTTP and one over gRPC, saved side by side in synchronous mode, fair | `SettingsAsGiven`, `PromisesKept`, `AuditComplete`, `ShutdownEnds` (and `TypeOK`) |
| `Gateway` | two requests, each the agent's (a batch or a single metric over HTTP, a batch over gRPC) or one of eighteen others, in 125 configurations of keys, certificates, subnet and storage; two attempts of a save over PostgreSQL | `AgentUnderstood`, `AnswersTellTheTruth`, `ReadYourWrites`, `AnswerReadable` (and `TypeOK`) |

The passing runs together take about ten minutes on two cores.

**Bounds, and why they are enough.**
`MaxBoots` 2 is a crash and a restart, which is where a file meets a memory it was
not copied from; a third start repeats the second. Three requests are the least that
let a batch fall between the two reads of one save and another between two saves.
`MaxPolls`, `MaxReports` and `MaxLimbo` bound the ticks and the requests in flight of
the agent; two polls, one of them after the report, are what a takeBatch can mix up,
and the final flush is always a second one. With two runtime gauges and two system
ones, a batch is cut into chunks of which only one carries PollCount, as with the
28 of the code. A queue of two for three handlers is full at some point, as 64 is.
Two connections for three calls is an exhausted pool; `MaxBigint` 2 (a range from -3 to 2)
is left, above and below, only when a commit whose answer was lost is repeated.
`MaxFaults` 2 exhausts `MaxAttempts` 2, which in `Gateway` is one repeated save.
In `Gateway` two keys are a right one and a wrong one. `AgentFaults`
and `Gateway` use symmetry (workers, requests); no liveness is checked there. `MaxLimbo`
2 lets two late requests pass each other. `MaxLaunches` 3 is a server, one with other
settings on the same machine, and the first kind again, which is what it takes to find
out that the one in between has overwritten something. In `System` the server has no
bound: it may crash and restart any number of times, as its state is finite; one worker
is the default, and what `SamplesInOrder` needs.

**Fairness.** `SnapshotServer`: handlers, savers and the sequence of `run()` are
weakly fair, because goroutines run; `StopTicker` is strongly fair, because a select
with two ready cases picks at random and the ticker may always be ready. `System`
has the same for the loops of the agent; requests and pauses end (they have timeouts),
and nothing is asked of the server. `Deployment`: only the steps of `run()` itself. `AuditSubject`:
`NotifyReturns` assumes nothing of the observers; `CloseReturns` has "the dispatcher
runs and Observe returns" (a file write, an HTTP client with a timeout of 3 s) as its
hypothesis, and closers are strongly fair because a waiting writer blocks new readers
of an RWMutex. `PostgresStore`: statements end and the server detects deadlocks (only `Step(c)` is fair:
clients need not call, and nothing is asked of the page).
Nowhere is a signal, a crash, a fault, a client's request or a late arrival fair.

## 4. What the properties say

* `TornOneWay`: a snapshot is two copies under two locks, so a batch may be half in
  the file, but never its counters without its gauges, because counters are copied first.
* `SnapshotNeverRegresses`, `FileWithinMemory`, `ImplementsStore`: with one saver at a
  time the file is a checkpoint. The hazard is the ticker in the middle of a save when
  the signal comes; `saveWG.Wait()` before the final save is what the mutant
  `SaverNotAwaited` removes. Drains may give up: what the handlers left behind write after
  the final save stays in memory, and none of the three minds.
* `ExitPersistsEverything`: an orderly exit leaves all of memory in the file. It says
  nothing of a shutdown in which a drain gave up on a handler (`gaveUp`), which may write
  after the final save.
* `EveryPollCounted`: an accounting of polls over PollCount, chunks, queue, workers,
  server and batches given up. `repeated` counts the two known ways of counting twice.
* `ImplementsReport`: polls move from pending to delivered or given up; only a late
  request delivers a poll that was given up, only an interrupted flush reports one twice,
  and when `Run` has returned nothing but a late request changes anything.
* `AnsweredSurvives`: apply, save and answer are three steps, and a crash may come between
  any two. In synchronous mode what the agent was told is there after the restart; in
  periodic mode what is missing is what crashes have taken, and never an orderly exit.
* `PromisesKept`: a database that is unreachable at one start and back at the next, a file
  named by another source, a listener that fails, a start that fails half way: none of it
  takes away what a durable storage held. Only `-r=false` on the same file does. Synchronous
  handlers save side by side; an answer promises its update unless it was written while an
  older copy was on its way to the file. Without this exception, or without the same one for
  the final save, TLC finds the history of `SnapshotSyncConcurrent`.
* `SettingsAsGiven`, `AgentSettingsAsGiven`: the merge, source by source, against the
  documented order, setting by setting.
* `AuditComplete`: the auditor is closed by a deferred call, which must come after both
  drains.
* `CommitsAccounted`: what is committed beyond the calls answered with success is
  exactly the commits whose answer was lost. Retrying such a commit repeats it; the
  property makes the number of repetitions explicit instead of hiding it.
* `PageIsRecent`: the counters of a page are those of whole calls, each as often as it had
  been committed, and the gauges are no older.
* `NeverPanics`, `CloseDelivers`: Notify holds the read lock over check and send, Close
  sets the flag and closes the channel under the write lock, and waits outside of it.
* `AgentUnderstood`: acceptance of the agent's batch is equivalent to `Compatible`:
  same key or no key on one side, the private key of the agent's public key, an
  address inside the subnet.
* `AnswersTellTheTruth`: 200 means saved, whole, and notified once; 4xx means nothing was
  touched. Over memory "saved" is exactly once; over PostgreSQL it is at least once and at
  most as often as `retry.Do` tries, because a commit that took effect and whose answer was
  lost is run again. (500 says nothing about the save, see `SaveFails`.)
* `ReadYourWrites`: over memory an acknowledged metric is found. POST /value may answer 500
  instead only if some request has set the metric to NaN.

## 5. Findings

* `SyncSaveRepo` writes and saves without a common lock; concurrent handlers may rename
  an older snapshot last (`SnapshotSyncConcurrent`).
* A NaN gauge is accepted and acknowledged, after which no snapshot can be written, the
  final one included (`SnapshotNaN`).
* A flush interrupted after its first chunk gives back polls that are already queued
  (`AgentPartialFlush`).

Seen while modelling, without a run of their own: a failed rename removes the previous
snapshot (`RemoveTarget`; the theorems exclude it by assumption); a snapshot that cannot be
read is overwritten; GET answers 404 for any error of the storage; with more than one
worker gauges may arrive out of order; Notify before any Subscribe queues the event,
where a comment calls it a no-op. An interval of less than a second in a JSON file is 0:
the server then saves after every update, and the agent does not start. An empty
FILE_STORAGE_PATH is as good as none, while an empty STORE_FILE turns the file off, and
the first, although empty, keeps the second from being read. When the HTTP
port is taken `run()` still takes the final save, and returns nil, so that the process
exits with 0; started without `-r`, or beside another process on the same path, it
replaces the file by one without what it held.

## 6. What is proved

All theorems hold for every value of the constants that satisfies the named
assumptions of the modules (`SaversAssumption`, `WritesAssumption`, `ConfigAssumption`,
`AuditAssumption`, `PostgresAssumption`, `AgentAssumption`, `DeploymentAssumption`,
`LaunchAssumption`, `IntervalAssumption`, `TextAssumption`, `GatewayAssumption`,
`AgentLaunchAssumption`, `NoLateDelivery`). Those about launches say which files a launch
may name, that an interval that can be parsed is a number, and that there are as many
workers as the settings of the agent say; `NoLateDelivery` leaves requests that arrive
after their client has left to `AgentRunner`.

`SnapshotServerProofs`:

* `TypeCorrect`, and `TornOneWayHolds` in every configuration and under every fault.
  `TornOneWay` speaks of the file only; it is inductive as `TornInv`, which adds that
  memory is whole, that a finished copy is, and that between the two reads memory has
  the gauges of the counters already copied.
* Under `OneSaver` (no synchronous mode, `-r`, renames and loads succeed):
  `FileWithinMemoryHolds`, `SnapshotNeverRegressesHolds`, `ServerImplementsStore`. The
  invariant `CheckpointInv` orders file, copy and memory while somebody saves, and says
  that the final save starts when the ticker is gone. Each step is a `Checkpoint`, an
  `Absorb`, a `Restart` or a stutter of `SnapshotStore`.
* Under `OneClient` (synchronous mode, `MaxInFlight` = 1, no faults but crashes):
  `AckedIsDurableHolds`. `AloneInv` says nobody else is active, `DurableInv` that memory
  does not move while a copy is on its way to the file. `SnapshotSyncConcurrent` shows
  that `MaxInFlight` = 1 is needed.
* Under `OrderlyExit` (a file, a disk that works, no NaN and a listener that does not
  fail; any interval, any number of requests at once, with or without `-r`, drains that may
  give up, with crashes before): `ExitPersistsEverythingHolds`, from `DrainedInv` (nothing
  is in progress once drains that did not give up are over, and the ticker has gone before
  the final save) and `FinalInv` (during that save memory does not move, and
  nobody else writes the file). `SnapshotNaN` shows that the assumption about NaN is needed.

`AuditSubjectProofs`:

* `TypeCorrect`; `NeverPanicsHolds` from `LockInv` (who holds the RWMutex) and `ChanInv`
  (the flag agrees with the channel, and a handler about to send has seen it unset).
* `CloseDeliversHolds` and `SubjectImplementsLog` from `DeliveryInv`: for every early
  observer, the accepted events are what it has, then what the worker holds for it, then
  what is in the channel.

* `NobodyStuckHolds` from `WaitInv` (a Close that holds the lock for writing is about to set
  the flag, one past that has set it): who waits for whom has no cycle. A handler in
  `Notify` waits for nothing but the one step `mark` of a Close, a Close for handlers or a
  worker that can take their next step. `HandlerReady`, `CloserReady` and `WorkerReady` are the
  guards of these steps. It is the part of `NotifyReturns` and `CloseReturns` that is safety.

`SumProofs` has what the accounts below need: a sum over two sequences one after the
other, over a set of which one member changes, and so on. They rest on induction over
the numbers, proved once for sets (`SetInduction`, from the well-foundedness of strict
inclusion of finite sets) because the library's theorem takes an operator.

`PostgresStoreProofs`, for any number of calls, of rows per call, of connections and of
lost connections:

* `NothingLeaksHolds` (invariant `IInv`): with `ConnInv`, which says that a call past Begin
  holds its connection, so that the row locks it takes are covered by one.
* `CommitsAccountedHolds` (the same): a call that ends, in any of its six ways, releases
  everything and moves alone; the lemma `EndKeepsIInv` says that this keeps the account.
* `TypeCorrect` from `HoldInv`: the rows a transaction has executed are locked by it, and
  what it will add stays in the range of a bigint. Without the locks the type of `sum` is not
  inductive: a commit would add to what another has added since.
* `CountersAddUpHolds` and `PageIsRecentHolds` from `HistoryInv`, which relates the table
  to the commits (`LastInv`), and the page to the calls acknowledged when it was asked
  for, after each of its two queries (`PageInv`).
* `SomebodyReadyHolds` and `CallsAdvanceAlways`, the two halves of `EveryCallReturns` that are
  safety. The first: if nobody holds a connection there is a free one, otherwise who holds
  one and cannot go on is blocked by another that holds one, and if all of them are, they
  are deadlocked and PostgreSQL breaks it; the steps meant are those that need neither a
  fault nor a client that leaves. The second: `StepsLeft`, the statements left in this
  attempt and in the attempts left, goes down with each step of its call and up with none.

`AgentRunnerProofs`, for any number of workers, gauges, polls, reports and attempts:

* `ChunkBatchPolls`: cutting a batch of any length into any number of chunks keeps its
  elements and its polls. `CutPolls`, under it, is an induction over the chunks.
* `TypeCorrect` from `TypeInv`, with `FlushInv` (what is left of a batch carries no more
  polls than it had) and `WorkerInv` (who does not send has no chunk).
* `NoSubmitAfterCloseHolds` from `ShutdownInv`: once `Run` is past its `wg.Wait` the loops
  are done, a flush in progress belongs to the report loop or to `Run`, `jobs` is closed
  only when `Run` has come back from its own, a worker leaves when it is closed and empty,
  and `Run` returns when all have left.
* `EveryPollCountedHolds`, `ShutdownDeliversEverythingHolds` and `ReportImplemented`: one
  lemma per action (`TakeBatchBooks`, `SubmitFailsBooks`, ...) says what it moves in the
  account and which step of `AgentReport` it is, or a stutter.
* `ShutdownGoesOnHolds`: from the signal until `Run` has returned somebody can take a step
  that is not a failure. `PlaceInv` adds that a loop that is done has seen the signal and
  that whoever is in a flush has one; a flush that waits for room in the queue has a
  worker, because none leaves while the queue is not empty.
* `ShutdownAdvancesHolds`: once `Run` is past its `wg.Wait`, every step makes `StepsLeft`
  smaller. It counts, per worker, three steps for each attempt left (the attempt, its late
  arrival, the next one), per queued chunk all attempts, per chunk not yet submitted two
  selects more, the expiry of the flush, and what `Run` has left. Together: from there on
  the agent stops after at most that many steps, provided only that somebody who can go
  on does. Before, a poller may choose its tick over the signal any number of times, which
  is what the fairness of `AgentStops` is for.

`GatewayProofs`, for any set of configurations, batches, clients and requests at once:

* `TypeCorrect` from `RequestInv`: what goes past the middleware has not been refused and
  has no layer left that the handler would have to decode.
* `AgentUnderstoodHolds` from `AgentInv`: a request of the agent that has got past the
  middleware, or past the certificate check, was `Compatible` with the configuration,
  and one that was refused was not. The lemmas about the stages say, for each
  combination of layers and keys, what `Admitted` makes of it.
* `AnswerReadableHolds`: each answer, from whatever stage, through those outside of it.
* `AnswersTellTheTruthHolds`, `ReadYourWritesHolds` from `HistoryInv`: where a request is
  in its handler says how often it was saved and notified (`TruthInv`), what was
  acknowledged is stored, and a read that was sent later sees it (`ReadInv`). `NaNInv` says
  that whatever is stored as NaN was set to it by a request.

`DeploymentProofs`, for any number of servers launched one after the other with any
settings, of files and of updates:

* `TypeCorrect` from `PhaseInv`: the storage is chosen once, before anybody listens, and
  gone when the process is.
* `PromisesKeptHolds` from `PromiseInv`, for handlers that copy and rename in any order. It
  adds that copies are not ahead of memory (`CopyInv`), where an update is before it is
  answered, and that an update which is not `overtaken` is in every copy still on its way
  (`WrittenInv`), and that such a copy has all that was promised (`CoveredInv`), so that its
  rename, however late, takes nothing away.
* `AuditCompleteHolds` from `DrainInv` (a transport that has drained without giving up has
  nothing in flight and takes nothing new) and `AuditInv` (the auditor is open for
  whatever a drain waits for).
* `SettingsAsGivenHolds`: `MergedIsGiven`, that overlaying the four sources in turn gives
  what the strongest source says, and `LoadedInv`, that this is what a server starts with.

`SystemProofs`, for any launch, any number of requests, crashes and restarts:

* `SysTypeInv` is the types of `AgentRunner` and `HandlingInv`: a request is handled only
  while its worker waits, by a server that is there, and is saved only in synchronous mode.
* `AnsweredSurvivesHolds` from `SurviveInv`. The property is about answers given; it is
  inductive with the requests applied and not yet answered (`ToAnswer`) and with those
  already saved (`SafeAnswer`), against memory and against what is saved: a crash may
  forget the first and never the second. The save of a request that was given up
  takes no part in it. It holds for any number of workers, but the save is one step in
  this module, which is what the code does for one request at a time; with more,
  `SnapshotSyncConcurrent` is what happens.
* `SamplesInOrderHolds`, for one worker: `OrderInv` says that what the worker holds, the
  queue and what is left of the flush are one line of chunks, older samples first, behind
  what the server has and has saved. A chunk that is submitted or received keeps its place
  in the line (`LineSubmits`, `LineReceives`), a new batch joins at its end (`LineGrows`),
  what is given up leaves it (`LineStays`, `LineShrinks`), and the server takes from its
  head (`AppliedInOrder`). It is an action property: a restart alone may bring older
  samples back.
* `AgentSettingsAsGivenHolds`, as for the server.

## 7. Only model-checked

Liveness (`WritesReachTheFile`, `ShutdownCompletes`, `AgentStops`, `ShutdownEnds`, `NotifyReturns`,
`CloseReturns`, `EveryCallReturns`), and anything that needs ENABLED, are out of the
prover's reach and are checked on the instances above only. What is proved towards them are
their parts that are safety: that nobody waits in a circle (`NobodyStuckHolds`,
`SomebodyReadyHolds`, `ShutdownGoesOnHolds`) and that work runs out (`CallsAdvanceAlways`,
`ShutdownAdvancesHolds`); that these, with weak fairness, give the liveness properties is an
argument on paper. No run checks these five statements; the guards they are made of were
compared with the actions they stand for on the instances of section 3. The three violations
are TLC's counterexamples. Induction over numbers is within reach in the form of
`SetInduction`, so nothing about the recursive functions of `Sums` is left to TLC.

## 8. Not modelled

The access log and the logger, request ids and `/debug`; `internal/pool` (used by no
program here); generated code; the developer tools `cmd/reset` and `cmd/staticlint`,
which are pure functions of source text. Generating and writing certificates
(`grpctls.Generate`, `Write`), and the names in them. Settings nothing in the models
depends on (addresses, pool sizes, idle times) follow the code of those in `Config`.
Values of counters in memory, which wrap at 2^63 silently. Two server processes at once.
The data race on the captured logger of the handlers has no effect on any state modelled
here.

## 9. Plan

Written, in this order, because persistence is where the server can lose what it has
acknowledged: SnapshotStore and SnapshotServer with proofs; AgentRunner; AuditLog and
AuditSubject with proofs; PostgresStore; Gateway; the first theorems of AgentRunner and
PostgresStore; AgentReport; Config and Deployment with proofs; System.

Then the sums and the proofs of the remaining safety properties: AgentRunner, PostgresStore,
Gateway, the settings of Deployment, SnapshotServer's orderly exit, System. Last, what the
liveness properties of AuditSubject, PostgresStore and AgentRunner rest on.

Next:

1. Narrower assumptions: what of `OneSaver` and `OneClient` still holds when a load or a
   rename fails (a snapshot is missing or older, never newer than memory).
2. That the ticker of `Deployment` and the server of `System`, where a save is one step, are
   what `SnapshotServer` allows when there is one saver.
3. What `AuditSubject` and `PostgresStore` have of it for the shutdown of the server too
   (`ShutdownCompletes`, `ShutdownEnds`): that no drain waits for somebody who waits for it.
4. Two server processes over one table or one file.
