# A TLA+ model of the API linter service

The API linter service lints the API documents of package versions that are
published in API Hub. It runs as several replicas over one PostgreSQL database;
the replicas do not talk to each other, everything they share is a row. This
directory holds TLA+ modules for its parts, the configurations that model-check
them with TLC, and proofs of the main invariants that TLAPS checks for every value
of the constants. `PROJECT.json` maps each definition to the lines it models.

Paths below are relative to `src/qubership-api-linter-service/`.

## The system

| part | state | operations | hard about it |
|---|---|---|---|
| Publish event listener `service/publish_event_listener.go` | none of its own; a distributed topic | `listen` hands an event to the validation service | every replica hears every event, in any order; a failing one drops it |
| Validation service `service/validation.go` | inserts into `version_lint_task`, reads all results | `ValidateVersion`, `GetVersionSummary`, `GetValidationResult` | reads at several times while lint goes on; errors read as "no rows" |
| Version lint queue `repository/version_lint_task.go`, `service/version_task_processor.go` | `version_lint_task`, `linted_version` | two loops per replica: acquire a task and plan its documents; check which waiting tasks are ready | leases, every replica decides every waiting task, unlocked read-modify-write |
| Document lint queue `repository/doc_lint_task.go`, `doc_lint_result.go`, `service/doc_task_processor.go` | `document_lint_task`, `linted_document`, `lint_file_result` | one worker per replica and a goroutine that refreshes its lease | a run may outlive its lease; a result may be saved late, twice or not at all |
| Rulesets `service/ruleset.go`, `repository/ruleset.go`, `service/linter_selector.go` | `ruleset`, `ruleset_activation_history` | create, activate, delete, list; the lint side selects the active one | requests overlap; foreign keys and `for update skip locked` decide the races |
| Clean-up of test data `service/cleanup.go` | all of the above | `ClearTestData`, one transaction of many statements | read committed: what it selected changes before it deletes it |
| Database migration `service/db_migration.go` | `schema_migrations`, `stored_schema_migration`, the schema | `Migrate` at every start | replicas start together; the plan is made without a lock |
| Start-up `service.go`, `controller/health.go`, `client/olric.go` | channels between the goroutines of main, `readiness` | init server, migration, service, readiness probe, Olric node, listener | goroutines hand on to each other over channels without a buffer, in an order only the channels fix |
| Document worker in a replica, Spectral executor `service/doc_task_processor.go`, `service/spectral_executor.go` | a flag, a semaphore, temporary files | a ticker starts runs; `LintLocalDoc` | the flag is set by the run, not by the ticker: runs overlap; a run that panics never clears it |
| API Hub and Olric clients, controllers, security | none | network calls, parsing, permissions | |

Interaction: an event or a request inserts a version task. A replica takes it,
reads the documents of the version and the active rulesets, and inserts a batch of
document tasks, the version task waiting meanwhile. Replicas take the document
tasks, lint, and save results, each time setting the linted version to
`inProgress`. Every replica's readiness loop looks at all waiting tasks and, when
the documents are done, writes the verdict. Clients read the tables at any time.
A task that is taken is leased: its `last_active` is refreshed while it is worked
on, and after 30 seconds of silence another replica may take it, at most two times
(`restart_count`), after which it is failed.

What makes each part correct:

* document queue: a success has its whole result, only the owner of a task writes,
  every task ends;
* version queue: no verdict from nothing, a success left a version row, every task
  ends;
* rulesets: one active ruleset per API type and linter, a history that agrees,
  nothing removed that something refers to;
* validation: one task per event, no event lost to one failing replica, no answer
  that denies what was accepted, and none that hides an issue because of one failure;
* migration: the three records of what is applied agree, a plan is never carried out
  in part, with two builds at once too, and a replica serves on the schema of its
  build, or else because of an edit that the walk over the migrations does not notice;
* start-up: one server at a time has the address, ready means migrated and drained,
  and the goroutines do not wait for each other for ever;
* worker: one linter at a time, and polling that goes on.

## The modules

Each transaction of the code is one step, and so is each read outside one; steps of
different replicas, goroutines and requests interleave freely. An update whose
answer is lost has its effect and is an error to its caller. A definition marked
`(mutation)` is a plausible bug in the definition that follows it: replacing the
one by the other must break a property, which shows that the property depends on
the code. Nothing else uses them.

| module | extends | abstract specification | proofs |
|---|---|---|---|
| `DocLint` | | `DocResults` (`ImplementsResults`), `Batch` (`ImplementsBatch`) | `DocLintProofs`, `DocResultsProofs` |
| `VersionLint` | | takes the steps of `Batch` (`DocumentsAreBatches`) | `VersionLintProofs` |
| `Rulesets` | | `RulesetSlots` (`ImplementsSlots`) | `RulesetsProofs` |
| `LintWorker` | `Rulesets` | | `LintWorkerProofs` |
| `Validation` | | | `ValidationProofs` |
| `Migration` | | | `MigrationProofs` |
| `StartUp` | `Migration` | | `StartUpProofs` |

**`DocLint`** models the document tasks of one version. `task` is the
`document_lint_task` row, `linted`, `fileResult` and `lintedVersion` are what
`SaveLintResult` writes, `worker` is the position of each replica's worker,
`armed` and `checked` are the refresh goroutines in their `select` and between the
two statements of `SetDocTaskStatus`. `TakeDocTask`, `FailDocTask`, `FindNoDocTask`
and `FindFails` are the rounds of `FindFreeDocTask`, with the result variable it
keeps between them (`leftover`), which stays set also when the commit that fails a
task does not go through; `LintDocument`, `AbortRun`, `SaveRun` and
`HandleError` are `processDocTask`; `Expire` lets a lease lapse and `Crash` removes
a replica. A restarted replica is a new executor id. What the linter finds in a
document is reduced to "there is a report or there is not".

**`DocResults`** is what the document queue promises to those who read its results:
no replicas, leases, refreshes or errors, a document is recorded in one step with
its task, row, report and version row, failed for its restarts, or reopened by a
late refresh. `DocLint` implements it with `status` the task as its readers see it
(`Status`). **`Batch`** is what is left of that for the version side: the outcome
`checkDocReady` counts and the version row. A batch is saved to, settled, reopened
or rewritten; it is never a success without a version row.

**`VersionLint`** models the tasks of one version and both loops of every replica.
The document tasks are batches that take the steps of `Batch`, reopened and
rewritten ones included. `LoadTask` and `SavePlan` are `processVersionLintTask`;
`ListWaiting`, `ReadDocTasks` and the three decisions (`RefreshWaiting`,
`CompleteVersion`, `CheckerPanics`) are `checkDocReady`, which works from a list and
counts it read before; `IncRestartRead` and `IncRestartWrite` are the two statements
of `IncRestartCount`; `VersionLintFailed` does what the code does, that is nothing,
because it looks the version up with the fields of an entity it has not read and
rolls back.

**`Rulesets`** models rulesets per slot (API type and linter), the activation
history as the set of recorded ids and the number of open records, requests with
what they read in the service before their transaction, the lint side that selects
a ruleset and refers to it later, and the statements of `ClearTestData` one by one.
`Spec` is a production system; `TestSpec` adds the steps of `ClearTestData`, which
`rulesets_cleanup_race` and `lint_worker` take.
**`RulesetSlots`** is what its readers rely on: a slot has one active ruleset, an
activation switches the slot in one step whatever was active, and only a ruleset
that was never active can be removed, which is more than the API description says
(see below). A ruleset that is gone is "deleted" by `DeleteRuleset` or "cleaned" by
`ClearTestData`, so that the properties can tell the two apart.

**`LintWorker`** adds to `Rulesets` the document worker of one replica: the ticker,
the flag `running` that a run sets and clears itself, so that two runs may overlap,
the semaphore of the Spectral executor, and the recover that ends a run which
panics over a ruleset that is gone. Of a document task a run keeps the ruleset;
the task row is the subject of `DocLint`.

**`Validation`** models how version tasks come to be and what a client is told:
events in the inbox of every replica, manual requests, and the reads of a summary or of one
document, one by one, while the lint side writes. The lint side appears as the
transactions it writes these tables with, without the question who runs them; a
document saved after the verdict is among them. `noRows` is the global variable
`sql.ErrNoRows` of each process that clients ask: the queries of
`repository/version_result.go` assign to it whatever error they get (`AsNoRows`), the
readiness loop's `LookUpVersion` included, and those of `repository/lint_result.go`
compare with it (`IsNoRows`). `Errors` are what these queries may get: no row, a
failure that is one value whenever it happens, such as that of a full pool, and one
that equals no other. Whoever reads the variable in the middle of an assignment finds
an error that equals none, which any failing call may find as well.

**`Migration`** models `Migrate` on every replica against the database an older or
newer build left, with stored migrations or, as long ago, without. The replicas run
one build or, during a rolling update, two. `Common` is where the walk of
`getRequiredMigrations` stops. A script is a number and a variant, and a variant may
come without a down script (`NoDown`), as the shipped `1_init` does: taking it down
deletes its row and leaves its effect. What the scripts do is reduced to one effect
each: an up script fails if its effect is there, a down script if it is not. The new
build may have edited any migration of the older one. `applied` remembers the build
the database was on at first; the walk from the top leaves everything below the last
unchanged migration as it is, so what an update reaches is `Reached(applied, build)`,
with what was left behind `Updated`, and that is the schema of the build exactly if the
update is `Clean`.

**`StartUp`** adds to `Migration` the goroutines of `main`: the init server with the
requests it answers, the goroutine that waits for the migration and stops the init
server (`waiter`), main itself, the health controller that receives `readyChan`, the
Olric node and the listener of publish events. A process that ends is started again
from the beginning.

`MC*` modules give the constants their model values.

## The runs

| run | configuration | states | shows |
|---|---|---|---|
| `doc_live` | 1 document, 2 replicas, 2 restarts, 2 failing calls | 43 600 | `SuccessHasResult`, `OnlyOwnerRecords`, `StrayRunsAreExhausted`, `EventuallySettled`, and that the queue implements `DocResults` and, through it, `Batch` |
| `doc_reopened` | 1 document, 2 replicas, 2 restarts, 1 failing call | | counterexample to `FinishedStaysFinished` |
| `doc_runs_failed_task` | the same | | counterexample to `RunsOnlyItsTask` |
| `version_one_task` | 1 task, 2 replicas, 1 restart, 1 failing call or changing batch | 334 000 | `WaitingHasDocs`, `SuccessHasVersion`, `SuccessHasEvidence`, `EventuallyFinished` |
| `version_completed_early` | 1 task, 2 replicas, 2 restarts | | counterexample to `CompletedWhenReady` |
| `rulesets_concurrent` | 2 slots, 4 rulesets, 2 names, 2 requests, symmetric | 85 000 | `OneActivePerSlot`, `HistoryAgrees`, `KnownRulesetsStay`, and that the rulesets implement `RulesetSlots` |
| `rulesets_cleanup_race` | 1 slot, `TestSpec`: with the clean-up | | counterexample to `OneActivePerSlot` |
| `lint_worker` | 1 slot, 2 rulesets, 2 names of which one is of a test ruleset, 2 requests, the clean-up, 2 overlapping runs | 441 000 | `OneLinter`, `PanicsOnlyAfterCleanup`, `PollsAgain`, that `HistoryAgrees` survives the clean-up and what it leaves of `OneActivePerSlot` (`SlotKeptOrCleaned`) |
| `validation_requests` | 1 version, 2 tasks, 1 event, 2 replicas, 2 rulesets, 1 client, 2 failures | 733 000 | `OneTaskPerEvent`, `EventNotLost`, `AcceptedIsKnown`, `LintedIsShown`, `EventHasTask` |
| `summary_of_another` | the same with 2 versions and no failure | | counterexample to `InProgressHasTask` |
| `migration` | all builds of up to 3 migrations with 2 contents each, one of them without a down script, 2 replicas of one build or of two, 1 crash | 29 500 | `RecordsAgree`, `ReadyOnBuild`, `LandsOnBuild`, `EventuallyReady` |
| `start_up` | 1 migration of 2 contents, 2 replicas, 1 crash or failing call | 114 000 | `OneServer`, `ReadyIsStarted`, `NoneStuck`, `EventuallyServing` |

Every module's type invariant is checked by one of its runs as well.

### The bounds

* **Replicas.** Two are enough for every race found: the races are between the one
  that held a row and one that took it. A crashed replica does not come back under
  its executor id. The last one never crashes in `DocLint` and `VersionLint`:
  without any replica nothing happens and nothing can be promised. In `Migration`
  and `StartUp` a replica that dies is started again.
* **Restarts.** The code allows two (`restart_count < 2`). `doc_live` uses two;
  `version_one_task` one, which still has a takeover, its failure and the failing of
  the task.
* **Failing calls.** One or two at any place, in particular a commit whose answer is
  lost. Runs without one are included. The proofs hold for any number.
* **Documents and tasks.** What the run shows of one document the theorems show of
  any number; that several documents make up a batch is the theorem
  `ResultsMakeABatch`. Version tasks of one version share the version row; the run
  has one task, the theorems have any number.
* **Rulesets.** Two slots with their defaults and two more rulesets let an
  activation, an opposite activation and a deletion overlap on any of them.
* **Worker.** Two runs overlap, and of three runs two do. The second ruleset is created
  with a test ruleset's name or an ordinary one. The clean-up removes only the former,
  `DeleteRuleset` both, and of two requests one may activate it while the other deletes.
  Ids are never used again, so with the clean-up they run out; that and a worker whose
  run has panicked may leave the system without a step, hence no check for deadlock in
  `lint_worker`.
* **Validation.** A client asks once; another question is another client's. Two calls may
  fail, or replicas crash: the fewest that lose an event with two replicas, and the
  fewest that make a failure read as no row. `EventNotLost`, `EventHasTask` and
  `LintedIsShown` say what holds until then. One event and one manual request
  give two tasks of one version; the counterexample needs a second version.
* **Migration.** Three numbers with two contents have every case: new, removed,
  edited, edited below one that is unchanged, several of each, each with and without a
  down script. Replicas that serve are done, and so is the model, so
  deadlock is not checked in `migration` and `start_up`: that everything goes on until
  then is what `EventuallyReady` and `EventuallyServing` say.
* **Start-up.** One migration, new, edited or removed, is enough for a replica to be
  late, overtaken or started again, and for the schema to be another build's; the
  migrations themselves are the subject of `migration`.
* **Symmetry** is used in safety runs only.

### Fairness

Weak fairness of the loops: a ticker restarts them every 5 seconds, calls to the
database and to API Hub return (the client has a timeout of a minute), the linter is
killed after ten minutes, and goroutines are scheduled. Weak fairness of `Expire`:
time passes. Strong fairness of `KeepaliveStop`: when a run is over, the `select` of
its refresh goroutine finds a closed channel ready every time, perhaps beside the
ticker, and Go picks among the ready ones at random. In `Validation` only listening
to a delivered message is fair, in `Migration` the migration of a replica and its
restart after a panic, in `LintWorker` the ticker and each run, and in `StartUp` each
goroutine and the answer to a request, for the servers have timeouts. Nothing is
assumed of crashes, failing calls, requests, the clean-up or clients. `VersionLint`
assumes that a pending batch settles, which is `EventuallySettled` of `DocLint`.

## What the counterexamples show

* **`doc_reopened`.** `SetDocTaskStatus` reads the row on a connection of its own
  (`repository/doc_lint_task.go:33`), sees that it is unfinished, and updates it in
  its transaction by id and executor only. A result saved in between is overwritten
  by `processing`, and the document is linted again after the lease lapses. The
  restart limit is what ends it: `EventuallySettled` holds because each reopening
  needs a new run.
* **`doc_runs_failed_task`.** `FindFreeDocTask` fails a task that is out of restarts
  and goes for another round with `result` still set
  (`repository/doc_lint_task.go:131`). If that round finds nothing, the failed task
  is returned and run. If its executor is still this replica's, its failure becomes
  a success. What the code does keep to is `StrayRunsAreExhausted`: such a run is
  always on a task without restarts, which nobody takes any more.
* **`version_completed_early`.** The readiness loop counts the documents of a task,
  another replica adopts the task, which sets it back to processing, and gives it a
  second batch; the verdict from the first count then completes the task by its id
  (`service/version_task_processor.go:301`).
* **`rulesets_cleanup_race`.** `ClearTestData` deletes the rulesets it selected while
  they were inactive. One activated in between is deleted, history and all, and its
  slot has no active ruleset (`service/cleanup.go:121`). Version tasks of that API
  type then fail. No other slot can come to be empty, and none gets two active
  rulesets: that is `SlotKeptOrCleaned`.
* **`summary_of_another`.** `WhereOr` binds weaker than `Where`, so
  `GetRunningTaskForVersion` returns the tasks of this version in any status and
  the unfinished tasks of all versions (`repository/version_lint_task.go:219`). It
  has one good effect, which `AcceptedIsKnown` depends on: a lint that ends between
  the two reads of a summary is still found by the second. Joining the conditions
  with AND alone would make an accepted version read as unknown.

One more disagreement has no run of its own, for no reachable state is wrong in
itself, only a step that should exist does not. The API description says that a
ruleset can be deleted "if it is in inactive status and no version validated against
this ruleset exist" (`docs/api/linter_service_api.yaml:175` at the root of the
repository, and lines 585-590 of `canBeDeleted`). In the code `can_be_deleted` is
false for ever once a ruleset was activated (`repository/ruleset.go:69`), and its rows
in `ruleset_activation_history` would keep it by a foreign key even if it were not, so
a ruleset that is inactive again and was never used stays. `KnownRulesetsStay` is
therefore about rulesets that are active or used, on which code and description agree;
`RulesetSlots`, which says what the code does, lets only a ruleset go that was never
active.

Further observations, which nothing in the repository states the opposite of:

* The refresh goroutine has a `select` but no loop around it
  (`service/doc_task_processor.go:134`): a lease is refreshed once, so every run of
  more than about 65 seconds is taken over while it goes on. The models have it so.
* A document saved after the verdict, or a version task failed for its restarts after
  its first document, leaves the version `inProgress` although all of its tasks are
  finished; nobody changes it any more. `VersionLint` has these behaviours.
* Adopting a waiting task sets it to `processing` without processing it
  (`repository/version_lint_task.go:256`); it is processed after another lapse.
* `errors.As(err, &sql.ErrNoRows)` in `repository/version_result.go` holds for any
  error and stores it in the global variable. A failing query reads as "not linted";
  in the readiness loop it is a nil pointer, which ends the loop for good
  (`CheckerPanics`), and the tasks are saved only by the lease. A later failure that
  equals the stored one reads as "no report" in `repository/lint_result.go:31` and
  `:46`, and a document that was linted is left out of the summary, or not found, with
  no error told: the exception in `LintedIsShown`, which needs two failures. Until some
  query has found no row, the variable is not what the driver answers for that, and a
  report that is not there reads as a failure.
* A migration edited below an unchanged one is not noticed: the walk from the top ends
  at the first that is the same (`service/db_migration.go:274-275`), no plan is made
  for what is below, and the replica serves on a schema that is not its build's, which
  nothing records. `ReadyOnBuild` says exactly when that is so.
* A migration without a down script that has to be taken down loses its row and keeps
  its effect (`service/db_migration.go:138-146`). With one build in use the schema then
  has more than the build knows of (`LeftBehind`). With two, the newer one cannot come
  back after the older one has undone it, for its up script finds the effect; the
  properties ask that what two builds in use take down of each other has a down script
  (`Undoable`).
* Two builds in use at once that disagree on a migration that is applied may carry out
  plans made against each other's schema; `Extends` leaves that out of the properties.
  Builds of which one only adds to the other are safe: that is `LandsOnBuild`.
* Two ticks may start two runs in one replica (`service/doc_task_processor.go:63`: the
  flag is set by the run), and the first of them to end clears the flag of the other.
  The semaphore keeps the linters apart (`OneLinter`), but the runs share an executor
  id, so on one task, after its lease has lapsed, nothing tells them apart.
* A run whose ruleset is gone dies of a nil pointer before `running.Store(false)`, and
  its replica never looks for documents again. Only the clean-up of test data removes
  such a ruleset (`PanicsOnlyAfterCleanup`).
* When the topic of publish events cannot be made, `AddListener` on nil panics, the
  panic is dropped, and the replica serves without ever hearing an event
  (`service/publish_event_listener.go:97`; `listener = "lost"` in `StartUp`).
* `service/ruleset.go` says that the list of rulesets has those that were never
  activated second; a default ruleset that was replaced has no `last_activated` either
  and is listed with them. Pages count from 0 in the code and from 1 in the API description.
* `controller/cleanup.go:44` and `controller/validation_result.go` go on after they
  have responded with an error.

## What is proved

TLAPS checks every step of the proofs; they rest on the constants' assumptions in
the modules (the null values are not members of the sets they extend, bounds are
naturals, the defaults of two slots differ, there is a version, the replicas are
finitely many, a client is answered by one of them, the contents without a down script
are contents) and on nothing else.

* `DocLintProofs`: `TypeCorrect`; `SuccessIsWhole` (`SuccessHasResult`), which is
  inductive with the types, because `SaveLintResult` is one transaction fenced by
  the executor id and no other step makes a success or takes a result away;
  `OwnerRecords`, the action property `OnlyOwnerRecords`, step by step;
  `StrayRuns` (`StrayRunsAreExhausted`), from the invariant that whatever
  `FindFreeDocTask` keeps between its rounds is a task whose restarts are used up
  (`LeftoverExhausted`), which stays so because restarts are never reset; and
  `QueueKeepsResults`, the refinement of `DocResults`: a step saves a result, or moves
  one task in a way its readers see as nothing, a failure or a reopening.
* `DocResultsProofs`: `ResultsMakeABatch`, the refinement of `Batch` by `DocResults`, for
  any number of documents but none. `QueueMakesABatch` of `DocLintProofs` instantiates
  it with the refinement mapping of `QueueKeepsResults`: the queue implements `Batch`.
* `VersionLintProofs`: `TypeCorrect`, `WaitingOnDocs`, `VersionRecorded` and
  `VerdictEarned`. The inductive invariant `IInv` adds what the loops remember: a
  row that `IncRestartCount` will write back as success had its version
  (`RetryHasVersion`), a success a readiness loop is about to decide has a
  successful batch (`VerdictHasEvidence`), and only a version without documents is
  planned empty (`EmptyPlan`). The proof first says what a step may do to each
  variable (`TaskStep`, `BatchStep`, `LintedStep`, `TodoStep`, `RetryStep`,
  `PlanStep`) and then derives each invariant from that. `DocumentsAreBatches` is the
  other half of `QueueMakesABatch`: what `VersionLint` lets happen to a batch is exactly
  what `Batch` allows, so it reckons with everything the queue may do to it (apart from
  the bound on how often a settled batch changes).
* `RulesetsProofs`: `TypeCorrect`, also of `TestSpec`, which has the clean-up;
  `OneActive`, `HistoryInStep`, `KnownStay` (no step removes a ruleset that is active or
  used) and `SlotsAreSwitched`, the refinement of
  `RulesetSlots`, each of `Spec`, the system in which the clean-up of test data is not
  called. `IInv` adds that every active ruleset is recorded, which keeps its row, and
  that a pending activation names two rulesets of one slot. Of `TestSpec`:
  `SlotsUnderCleanup` (`SlotKeptOrCleaned`) and `HistoryUnderCleanup`
  (`HistoryAgrees`). Their invariant `TestInv` replaces the idle clean-up of `IInv`
  by what one that is under way may do: the rulesets it has selected bear the name of
  a test ruleset, whatever has become of them since (`CleanupOfTests`), and lint data
  refers to rulesets that are there. `KeepStep` is what any step leaves of a row.
* `LintWorkerProofs`: `WorkerTypeCorrect`, `LinterAlone` (`OneLinter`) and
  `PanicsAreCleanups`, with the clean-up. `PermitHeld` ties the semaphore to the one
  run that is linting; for the panics the proof follows what a step of `Rulesets` may
  do to a ruleset that lint data refers to. `WorkerOnlyReads` shows that the worker
  takes steps of `TestSpec` or none as far as the rulesets go, which gives
  `RulesetsBesideWorker`: both theorems of `TestSpec` hold beside it.
* `ValidationProofs`: `TypeCorrect`, `OneTask` (`OneTaskPerEvent`), `EventsKept`
  (`EventNotLost`), `AcceptedKnown` and `LintedShown`. A step leaves the task table alone, inserts a task that is no
  duplicate or closes one (`TableSteps`), so tasks stay and the event id stays
  unique. An event without a task is missing from as many inboxes as faults have
  happened at most (`MissedByFaults`), so one that is still due somewhere is not
  lost before every replica has failed it. `AcceptedHasTask` and `LintedHasReport` say what a client may rely on
  between its reads: its version keeps a task, and a report that was there when the
  document was read is never removed. So a report that is missed was missed by a
  failing call, and `StoredFailed` says what it takes for that to read as no report:
  a failure can only equal what `sql.ErrNoRows` holds if an earlier one was stored
  there, and each has been counted.
* `MigrationProofs`: `TypeCorrect`, `RecordsInStep`, `ServesOnItsBuild` and `PlansLand`.
  None of the properties is inductive, for they do not speak of the plans. The
  invariant `MInv` says that while the builds in use are `Orderly` there are two
  builds, never to change, the one applied at first, `o`, and what the newer one makes
  of it, `Reached(o, n)`, such that the database is on one of them in all three
  records, save that the older one may not be stored yet and that effects without a
  down script may be left behind (`DatabaseOK`); that every plan was made against one
  of them (`PlannedFrom`); and that until the first replica has updated the database
  every plan is made against the older one and nobody is ready (`Behind`). `Updates`
  shows that a plan made against the database carries it to `Updated`. A plan that was
  made against the other one has a script that fails: always with two builds in use
  (`PlannedFromDatabase`), and with a single one unless all it does is to take down
  once more what has no down script, which changes nothing (`Overtaken`).
  `CleanUpdates` proves that `Clean` is exactly the condition on which `Updated` is the
  schema of the build.
* `StartUpProofs`: `StartTypeCorrect`, `ServersTakeTurns` (`OneServer`) and
  `ReadyAfterMigration` (`ReadyIsStarted`). A step of the start-up is one of `Migration` or
  leaves it alone (`MigrationGoesOn`), so `MInv` holds of the composition, and with it
  `RecordsAgree` and `LandsOnBuild` (`MigrationAmongServers`). `HandsOn` is the order in
  which the goroutines of a replica hand on to each other; that what one waits for is
  still to come makes `StartsWithoutDeadlock` (`NoneStuck`). It is the safety half of
  `EventuallyServing`: `CanGoOn` states the guards, for `ENABLED` is beyond the prover.

Only model-checked: liveness (`EventuallySettled`, `EventuallyFinished`, `EventHasTask`,
`PollsAgain`, `EventuallyReady`, `EventuallyServing`), which is beyond the prover. Every
other property of a passing run is a theorem.

## What is not modelled

* The API Hub client and the requests of controllers: network calls, parsing,
  permissions and responses have no state the properties could speak of. Calls are
  answers or errors in the modules that make them.
* The ruleset list, its order and its pages: it changes nothing.
* What `ClearTestData` removes from the task and result tables is one set of references
  in `Rulesets` and `LintWorker`; which rows it removes is not told apart.
* Two runs of one replica on the same document task, which share the executor id and
  the temporary directory: `DocLint` gives a replica one worker, `LintWorker` leaves out
  the task rows.
* What becomes of two builds in use at once that disagree on a migration that is applied,
  or that take down of each other what has no down script, as a property: `Migration` has
  the behaviour, the properties ask for `Orderly` builds.
* Of the reads of `getRequiredMigrations` the stored rows are read at once, in the code
  one by one.
* Several version tasks of one version that run side by side, in a run: the proof of
  `VerdictEarned` and of the other invariants has any number, `version_one_task` has one.
  A query that fails to insert the document tasks because no ruleset is active is there
  as a failing call only.
* A document saved after the verdict, as a property: `VersionLint` has the behaviour, but
  nothing in the repository says that it does not happen.

## What could come next

1. The composition of `DocLint` and `VersionLint` over one set of tables, with several
   runs per replica, instead of `Batch` between the two; several batches of one version
   then share its row, which `DocLint` has for one batch.
2. The ruleset list as operators against a reference definition of its order.
3. The tables of `ClearTestData` one by one.
