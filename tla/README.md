# A TLA+ development of go-job-runner

go-job-runner stores jobs (a container image and a schedule) in SQLite, creates
a *run* for every slot that comes due or is triggered by hand, and executes runs
in Docker on a bounded number of goroutines. This directory holds TLA+ models of
its scheduler, its Docker executor, its retention and its registry client, the
TLC instances that check them, and proofs for TLAPS.

    tlc -config MCDispatch_runs.cfg MCDispatch     # a run of TLC
    tlapm ClaimProofs.tla                             # the proofs of a module

`PROJECT.json` is the index: components, runs, the source lines behind each
definition, the hazards of the code and the properties that cover them.

## 1. The system

| component | source | state it keeps | operations | correct when |
|---|---|---|---|---|
| store | `internal/store` | tables `jobs`, `runs`, `run_events`; one connection | row operations, transactions | ids never come back, `UNIQUE(job, slot, attempt)`, no run without its job |
| dispatch loop, tokens | `scheduler/dispatch.go`, `scheduler.go` | channels `workerTokens`, `dispatchWakeup` | tick, wakeup, scan, acquire, spawn | tokens = live goroutines; never blocks; every pending run is taken |
| worker goroutine | `scheduler/worker.go` | locals: run, loaded job, outcome | load, claim, execute, finalize, retry, signal, release | a run executes at most once, its outcome is recorded once, retries are bounded |
| due-job loop | `scheduler/due_job.go` | listed rows, channel `dueWakeup` | scan, sweep, skip, create, advance | a slot is handled once, skipped only for a live run, and never lost |
| job service | `service/job_service.go` | none | create, update, delete, trigger | reads and writes are consistent with the loops |
| run service | `service/run_service.go` | none | cancel, read | a cancellation takes effect or does no harm |
| process | `cmd/main.go`, `api/router.go` | signal context | start, signal, return | restart finds a store it can go on from |
| Docker executor | `executor/docker.go` | containers, `docker run` children, result files | execute, stop, clean up, recover orphans | no container outlives its run unnoticed; a success is whole; the end of the context ends the execution |
| retention pruner | `retention/pruner.go` | log and result files | prune by age, count and size | never touches a live run |
| configuration | `internal/config` | a static record | load, validate | what is accepted is what is applied |
| image sources | `internal/image` | the tag cache | list, resolve candidates | a list is complete, its tags are fresh, calls and goroutines end |
| run logs | `internal/log` | files | write, read a window | windows stay inside the file |
| HTTP handlers, web UI | `internal/api` | none | one service call each | - |

How they interact: the API services and both scheduler loops meet only in the
store and in two channels of capacity one, `dueWakeup` and `dispatchWakeup`,
which are hints (a full channel drops the message; a ticker covers the loss).
The dispatch loop starts a goroutine per run; goroutines and loop meet in the
channel `workerTokens`. A goroutine executes its run through a child `docker run`,
which it stops, kills and cleans up after when its context ends; containers and
children outlive the process, and the next one removes what it finds before it
dispatches. Requests for candidates share one cache of tags. `db.go` opens the pool with one connection, so two
transactions never overlap, but several operations read in one statement
and write in another: `CancelRun` and `UpdateJob` decide on an older
row or clock reading, `processDueJobs` works through rows listed before, `runWorker` keeps the
job it loaded.

What is hard: a run handed to several goroutines (the scan repeats while tokens
are left); a cancellation between claim, execution and outcome; a transaction
that fails after the side effect; process end at any point, with `main` not
waiting for the workers; a schedule that is edited while it is worked on; the
sweep of runs past their timeout racing with the goroutine that times out.
In the executor four actors end in any order: goroutine, child, container and
deadline. The registry client is a fan of goroutines with a semaphore, two
channels and a cancellation that must not lose, duplicate or half-return anything.
The list, line by line, is under `hazards` in `PROJECT.json`.

## 2. Modules

    RunStore  <-- Dispatch <-- DueJobs --> JobValues      EXTENDS
                     |
                  RunQueue                      INSTANCE ... WITH (refinement)

    Executor          what Execute and RecoverOrphans do
    RemoteSource      ListCandidates of a registry
    Retention         rows and files

    DispatchProofs <-- ClaimProofs <-- QueueProofs <-- DueJobsProofs
                            ^--------- HistoryProofs
    ExecutorProofs, RemoteSourceProofs, RetentionProofs

**RunStore** - the tables as functions from ids to rows, the keys, and the row
operations as operators from old to new table. One transaction or one bare
statement is one step. Payload columns are dropped; a timestamp that is only
tested for NULL is a Boolean; a run's events are the field `log` of its row.
`lastRunId` is the AUTOINCREMENT counter: a deleted id does not come back.

**Dispatch** - the dispatch loop, the goroutines, the requests that race with
them and the life of the process.

| code | variable | values |
|---|---|---|
| `dispatchLoop` | `loop`, `batch` | off, wait (in `select`), scan, spawn (handing out `batch`), done |
| `workerTokens` (its length) | `tokens` | 0 .. `MaxConcurrentRuns` |
| `dispatchWakeup` | `wakeup` | a message is there or not |
| `runWorker`, one per goroutine | `pc`, `target`, `limit`, `outcome` | load -> start (first transaction) -> check -> exec -> final (second transaction) -> signal -> release -> idle |
| `CancelRun` between `Get` and `UpdateStatus` | `request` | the run, the status to write, the `finished_at` it read |
| signal context, process | `ctxDone`, `up`, `exits` | |
| - (history) | `executed` | runs for which `Execute` was called |

Every early return of `runWorker` is an action: the run or job cannot be loaded
(`LoadFails`), the claim transaction fails (`StartTxFails`), finds the run
cancelling (`CloseCancelling`) or no longer pending (`LeaveUnclaimed`), the
context is gone after the claim (`CloseClaimed`), the outcome transaction is rolled back
(`FinalizeTxFails`). The pruner shares the table: `DeleteTerminalBefore` deletes any set of finished
rows, since there is no clock here, when the constant `HistoryLimit` says that `run_history_days` is set. A
trigger has an instant of which nothing is left (`NewInstant`): rows are deleted days after their slot. The constant `StoreFaults` adds I/O errors to the failures that
follow from the state of the tables. `Execute` is a call with the outcomes
success, timeout, failed.

**DueJobs** - Dispatch with a discrete clock and the due-job loop. It takes over the
steps of Dispatch and adds what depends on time: the claim records its instant,
an execution times out no earlier than its timeout, a trigger's slot is
the present instant. `ScheduleSlot` is the whole transaction of `processDueJob`: sweep,
skip or create, advance. `UpdateJob` is two steps, `UpdateRead` (the clock, the next
slot) and `UpdateWrite` (the row), between which `edits` holds what will be written.
Calendars are multiples of a period, or never fire: for these the library returns the zero time,
which is stored like any instant (`ZeroTime`). All jobs share one timeout, which is what
`JobValues!Effective` makes of configuration and job row.

**JobValues** - values that one component writes and another reads: the timeout, as
`Config.Validate`, `resolveTimeoutSec` and `effectiveTimeoutSec` see it, and instants
as the store writes and compares them, in texts. Pure operators; an instant
is its second and the decimals of its fraction without trailing zeros, since
RFC3339Nano leaves these out and "12:00:00Z" sorts after "12:00:00.5Z".

**RunQueue** - the abstract specification of dispatch: runs enter a queue, begin to
execute (at most `Capacity` at a time, each at most once), end, perhaps with a
retry that enters the queue in the same step, or are dropped; a run may also be
refused at once, which is what a skipped slot is.
`Dispatch!ImplementsQueue` states the refinement mapping, for Dispatch alone and for
DueJobs, which extends it.

**Retention** - the pruner against the other actors, these reduced to what they do to
a row (`status`, `finished_at`, whether the paths are recorded) and to its two files
(size, modification time).  A pass is the sequence `StartPass` (the one listing),
`PruneRunFiles` per row, `StartHistory`, `RemoveAllRunFiles` per row, `DeleteRows`,
`StartCap`, `RemoveOldest` per file, `EndPass`; between any two of them any other
actor may step, and at each the pass may fail or the process end. The next process may have other
roots: `files` are those under the roots of the present one, as the pruner passes over the rest. A tick is a
day, and a pass takes less than one. It does not extend RunStore: ids and keys do
not matter here, and the steps of a worker are too fine.

| code | variable |
|---|---|
| table `runs` | `rows` |
| files under the log and artifact roots | `files` |
| goroutines in `Execute` | `executing` |
| `runs`, the cutoff and the total of a pass | `listed`, `cutoff`, `total` |
| the loops of a pass | `pc`, `todo` (what is left of the loop) |

**Executor** - an execution as four actors: the goroutine in `Execute` and
`RunContainer`, the child `docker run`, the container in the daemon, and the
goroutine that waits for the child; over all of them the deadline, the signal, the
end of the process and the orphan recovery of the next one.

| code | variable | values |
|---|---|---|
| `Execute`, `RunContainer` | `pc` | idle -> prepare -> launch -> fork (before the `select`) -> parked (in it) -> cleanup -> write -> record -> done; on cancellation stop -> kill -> reap -> cleanup; gone with its process |
| its context | `ctx` | live, deadline, canceled |
| child `docker run` | `cli` | none, creating, starting, attached, zero, error, killed |
| `waitCh` | `waited` | what `cmd.Wait` returned: no, nil, exit, ctx |
| container | `box`, `exit` | absent, created, running, exited; its exit code |
| error, result file, row of the run | `err`, `result`, `row` | |
| - (history) | `silent` | the process start in which `docker rm` last failed without output |
| `main`, `Start`, `RecoverOrphans` | `proc`, `orphans` | down, scan, recover, serve, stopping, off |
| `cleanup_containers` | `cleanup` | chosen initially |

`Select` and `WaitReturns` together are the `select` of Go: a goroutine that reaches it
with both channels ready takes either; one parked there is handed the first
message. A `docker rm -f` that fails without output counts as done (`FailsSilently`). `os/exec` kills the child on its own when the context ends (`WatchKill`), and
`cmd.Wait` may report that end or the exit of the child. `docker` commands and
writes fail by `Fault`.

**RemoteSource** - concurrent calls of `ListCandidates`. `main[c]` is the goroutine of
the call (catalog pages, then the `select` over `errCh`, `results` and `ctx.Done()`),
`fetcher[c][r]` that of a repository (slot, cache, request, store, check, send), `over`
the derived context, `left` whether the caller's own context ended, `cut` (history) whether
a link that could not be parsed ended its catalog, `cache`
the tag cache all calls share. A list of tags is the instant at which the
registry gave it, which is what freshness is about.

**MCDispatch, MCDueJobs, MCExecutor, MCRemoteSource, MCRetention** - the instances.
Operators named `Name_What` beside an action
`Name` are variants of it with a plausible bug; nothing refers to
them, they serve to show that a property can fail. `MCDueJobs` also evaluates, as
assumptions, the theorems about `JobValues` on small values.

## 3. What the TLC runs show

| run | shows | bounds |
|---|---|---|
| `runs` | `TypeOK`, `ClaimInv`; no run executes twice (`ExecutedOnce`), none becomes pending again, the event log tells one execution; an attempt follows one of its slot that was executed and that nobody executes any more (`RetriesFollowAttempts`); the retry's key is always free (`RetryKeyFree`), so a retry never rolls the outcome back; tokens = live goroutines, and a listed batch fits the tokens left | 1 trigger + its retry, 2 tokens and goroutines, 1 canceller, failing transactions, 1 process end; 0.9 million states |
| `queue` | pending runs are taken and running runs closed; no attempt goes beyond every limit the job was given, and none stands beside an earlier one that was not executed and let go (`RetriesFollowAttempts`); dispatch implements `RunQueue` with retry, deletions and restart | 1 token, 2 goroutines, 1 run + its retry, limit edited between 0 and 1 while goroutines keep the one they loaded, rows deleted by the history limit, 1 canceller, 1 process end; 0.2 million states |
| `slots` | the loop never comes back to a slot it handled, whatever updates race with it (`FreshSlot`; only an update that computed the slot before can bring it back, and a calendar that never fires comes back to the zero time); a slot is skipped only for a run within its timeout; the log of a run that the sweep closed under its goroutine tells one start, the timeout of the sweep and at most one outcome after it (`LogTellsSweep`); dispatch implements `RunQueue` beside the due-job loop, too: no swept, skipped or rescheduled run executes twice | clock to 2, three schedules (an interval, a calendar, a calendar that never fires), timeout 1, 1 token, 1 update, 1 process end; 1.7 million states |
| `due_liveness` | a due slot with a free key is handled although another job fails at every scan (until the history limit deletes the run that has its key) | 2 jobs, clock to 1; 0.3 million states |
| `executor` | with cleanup on, a container without an attending goroutine is left by a process end or a failed command only; recovery removes what the process found, for good, and nothing that is alive; a success is whole; both but for containers whose `docker rm -f` failed without output; an execution whose context is over ends | 2 executions one after the other or in 2 processes, with and without cleanup, 1 failing command or write, with an error or in silence; 0.9 million states |
| `remote` | a list without an error is complete unless the caller left or a link could not be parsed; cached tags are younger than the TTL; call and goroutines end | 2 calls, 2 repositories on 2 pages (one call filters one out), 1 slot, room for 1 result, TTL 1, clock to 1; 0.15 million states |
| `retention` | no file of a running execution is removed or truncated (runs can be swept, listed and pruned while they execute); no row is deleted whose recorded files are left under the present roots; the cap removes a file only while the storage is over it | 2 runs, clock to 2, all limits at one day or one byte (logs of successful runs: no limit), 1 failed pass or process end, after which log root, artifact root, both or none are new; 4.6 million states |

The bounds: two goroutines for one run are what a duplicate needs; one retry reaches every branch of
`buildRetryRun` (limit 0, below, at the limit), and a second one would repeat the step from
attempt 0 to 1; limits that change are left to `queue`; one process end followed by a restart
reaches every point at which a process can stop, with at least one run in
every state, and a second end only repeats it, as nothing but the store
survives. In `executor` the second execution meets what the first one left, in
the same process or in the next; one token suffices, as executions share nothing
but the recovery, and one fault per run of the model shows each command failing at each place.
In `remote` one slot for two repositories makes one wait, room for one result makes
the second sender wait, and two calls meet in the cache; a second tick would only
age entries further. With period and timeout 1 a clock to 2 is
enough for the due-job loop: the run of slot 1 is claimed at 1 and is past its timeout when slot 2 comes
due, so that it is swept, and what it was swept from may end before or after. One update in `slots` meets
every step of a pass, between any two of the schedules; a second one starts from a row like
that of the creation or of the first. `Worker` must not be smaller than `MaxConcurrentRuns`, or runs
would be held back by the model and not by tokens; one canceller suffices for
each race of one request against the others' steps. `MaxRuns`
and `MaxExits` bound triggers and process ends, `MaxTime` the clock. In `retention`
two runs are what it takes for one to change while the pass is at the other; two
days pass a limit of one day; a log of two bytes is over its limit of one, and
two files are over the cap. Worker symmetry is used for safety only. Deadlock is not checked: the process may
be down for good, a bounded clock stops, and an idle server waits for requests.

Fairness (`FairSpec`, `DueFairSpec`) in the scheduler: weak fairness for the loops and for each
goroutine, which the Go scheduler gives; for the tick, because a
`time.Ticker` keeps firing; and for the return of `Execute`, because its context
has a deadline (`worker.go:109-116`; with `allow_unlimited_timeout` a run
may take for ever, and the property does not hold for it). None
for requests, for receiving a wakeup (`select` may always prefer the
ticker) and for the end of the process. In the executor: weak fairness of the goroutine once its context is over (its
commands are killed with that context, and `docker stop` has its own), of `os/exec`, which
kills the child, and of `cmd.Wait`; none of the container, of the child before, or of a deadline.
`docker rm -f` in the cleanup has no timeout: the property assumes that the daemon answers. In the
registry client: of every goroutine, as the HTTP client gives up after 30 seconds (a
catalog whose pages link in a circle would be read until the caller leaves; `Pages` is finite); none of
callers that leave. `PendingIsTaken` excludes a process
that is shutting down or whose orphan recovery failed: `Start` returns its error,
the API goes on accepting triggers, and nobody executes them.

### Where the documents and the code differ

Five runs end in a counterexample, each to a sentence of the README or of
`docs/design.txt`; the property is the document's statement.

| run | the documents say | the code does |
|---|---|---|
| `cancel` | a worker polls for `cancelling`, stops the container, marks the run `cancelled` | nothing reads the status after the claim; the outcome overwrites `cancelling` and may insert a retry |
| `final` | a final status is final | `CancelRun` writes what it decided on before |
| `forbid` | `forbid` skips a slot if the job is running | pending and cancelling runs do not count; they pile up and execute together |
| `stuck` | jobs whose `next_run_at` has come get a run | `UpdateJob` may store a slot again that the loop handled meanwhile; `UNIQUE(job_id, scheduled_at, attempt)` then fails every later transaction for the job |
| `retention_logs` | logs of failed, timed out and cancelled runs are deleted after `failed_log_days` | a log whose path was never recorded (container could not be prepared; process ended) is never deleted, not even with its row |

More differences show in the same models without a run of their own:

* `docs/design.txt:533-535`: the scheduler ends after its workers, which mark their runs
  cancelled. `main` waits for the API server only (`MainReturns`, `ProcessEnds`): rows stay
  running, containers may stay up until the next start.
* `docs/design.txt:482`: `next_run_at` is set by the API on update. The loop overwrites it
  with one computed from the row it had listed (`ScheduleSlot`).
* `docs/design.txt:486`: missed slots are not caught up after a restart; the first scan
  runs the first missed one (`RestartStep`, `ListDue`).
* `docs/design.txt:500`: the due-job loop wakes the dispatcher; it does not (`ScheduleSlot`
  leaves `wakeup` alone).
* The sweep records `timeout` for a run whose goroutine may then record its own outcome
  (`Swept`, `FinalizeRun`), a second way to violate `FinalStatusIsFinal`.
* A run cancelled while pending keeps `finished_at` NULL and its row is never pruned
  (`Cancel`, `TerminalBefore` of Retention).
* `README.md:220` names recovery among the uses of the grace period; it removes with
  `docker rm -f` at once (`RemoveOrphan`).
* `README.md:234`: a run whose cleanup fails is failed with the cleanup error. `removeContainer` returns
  nil when `docker rm -f` fails and prints nothing (`docker.go:276-278`: a killed client, a failed
  fork), so the run may be recorded as a success with its container left, and recovery may be over
  with one left (`README.md:236`). `SuccessIsWhole` and `FoundAreGone` except exactly these.
* `README.md:236`: startup leaves no container of an earlier process. A `docker run` child that
  outlived its process may create its container after the scan (`CreateBox`).
* A calendar that never fires (`0 0 30 2 *`): `computeNextRunAt` returns the zero time
  (`due_job.go:154`, `job_service.go:310`), which is always due. The first scan creates a run for it,
  and every later one fails on its key. `FreshSlot` excepts this slot only.
* A next link that cannot be parsed ends the catalog like the last page (`remote.go:322-325`): a list is
  cut short without an error (`FetchPage`, `cut`). `ListIsComplete` excepts these calls.
* After a restart with other roots the pruner skips the files recorded before (`pruner.go:217-220`) and
  deletes their rows (`Crash` of Retention). `NoFileLosesItsRow` is about files under the present roots.
* The history limit may delete an earlier attempt of a slot before a later one
  (`DeleteTerminalBefore`), so the attempts on record need not start at 0.
* A caller that leaves may still get a list without an error, and a partial one: the `select` may
  prefer the closed channel (`TakeClosed`), which `ListIsComplete` allows for. An error of a
  goroutine may be masked by the cancellation it causes (`TakeDone`).
* Times are compared as text; within one second their order may differ from that of the
  instants, in `ListDue`, in the order of `ListPending` and at the cutoffs of the pruner.

## 4. What is proved

Constants are arbitrary: any numbers of jobs, instants, goroutines, clients,
tokens, runs, executions, calls, repositories and restarts. Assumptions are `TimeAssumption` (instants are integers),
`RetentionAssumption` (run ids, limits and bounds are naturals; finitely many runs; the bound on sizes
admits a result) and
`DispatchAssumption` (a positive number of tokens, which `config/validate.go`
demands; finitely many goroutine identities; well-formed job inputs), `DueAssumption` and
`SlotAssumption` (a valid configuration; the slots of a job are instants), `ExecutorAssumption` and
`RemoteAssumption` (sets and bounds of the right kind, at least one page, slot and place for a result, and a
finite catalog).

* **TypeCorrect** (`DispatchProofs`): `Spec => []TypeOK`. Not inductive alone: `LoadRun`
  reads the job of a run, so the invariant is `TypeInv == TypeOK /\
  ForeignKey`. The module begins with the lemmas on the row operations: each
  turns a well-formed table into one, keeps the rows it does not mean, and
  adds at most one event to a log (`LogGrows`).
* **ClaimsExclusive** (`ClaimProofs`): `Spec => []ClaimInv`. Its part `ExclusiveInv` says that one
  goroutine holds a claimed run, which is not pending, and that what is pending was never
  executed; it is inductive relative to `TypeInv`, whoever else closes rows, and
  is what the theorems about the due-job loop use again. `ClaimInv` adds that
  the row of a held run is running, cancelling or cancelled, which holds as
  long as nobody sweeps. Most steps are *quiet* (goroutines hold only what they held, rows
  change only to a status that leaves the invariant alone), and the lemma
  `QuietStep` handles these together; `ClaimRun`, `Execute` and `FinalizeRun` are
  the ones that need an argument of their own.
  **ExecutesOnce** (`ExecutedOnce`) follows from it;
  **NeverRequeued** (`NeverPendingAgain`) follows from `TypeInv`, one step of `Next` at a time.
* **TokensExact**, **NeverBlocks** (`QueueProofs`): `TokensAreWorkers` and `BatchFits` are
  inductive only together. A scan lists at most as many runs as tokens are free
  (`ListPendingBound`, an induction-free argument on the rank of a listed run), and from
  then on tokens only return until the batch is handed out.
* **DispatchIsAQueue** (`QueueProofs`): `Spec => ImplementsQueue`, the refinement of `RunQueue`. Known
  runs are the ids given out, queued are the pending ones and those claimed but not
  yet executed, executing those whose goroutine is between `Execute` and its outcome. Most steps
  are quiet and drop runs at most (`QuietDrops`); a trigger submits, `Execute` begins,
  an outcome with a retry ends and submits at once. Two facts do the work: claims
  are exclusive (`ExclusiveInv`), so a begun run leaves the queue, and the executing
  goroutines are among those with a token (`TokensAreWorkers`), so `Capacity` holds.
* **RetriesInOrder** (`RetriesFollowAttempts`) and **RetryAlwaysFits** (`RetryKeyFree`), in `HistoryProofs`.
  `RetriesFollowAttempts` is inductive together with the uniqueness of keys (`UniqueKeys`) and with where limits come from
  (`LimitInv`). Of every step it is shown that rows keep their keys (`KeysKept`; they go with all rows of
  their job, unless there is a history limit, whose deletions are the step `RetentionKeys`), or that one row
  with a free key enters (`KeyAdded`); only `FinalizeRun` adds an
  attempt, and it lets the one before go in the same step. The free key is a consequence: a row that had it
  would follow an attempt that still executes.
* **LogsTellOneExecution** (`HistoryProofs`): `LogTellsExecution`. The invariant `LogInv` adds what makes it
  inductive: a pending run has neither start nor result in its log, and a held run has
  a start and no result yet. The lemma `LogSteps` says what any step does to the logs: it appends
  harmless events and creates pending rows (`LogQuiet`), or is the claim (`LogStarts`), or the outcome
  (`LogEnds`). It speaks of no invariant of logs, so the theorems about the sweep use it with one of their own.
* **DueTypesCorrect** (`DueJobsProofs`): `DueSpec => []DueTypeOK`. `DueTypeInv` adds the foreign key and that both
  loops are launched together. All that DueSpec does to the variables of Dispatch is a step of
  Dispatch, except the transaction of `processDueJob` and the row of an update
  (`InheritedStep`); so lemmas about `Next` serve again, and the two others have lemmas of
  their own (`SlotStep`, `SweepType`).
* **SchedulerIsAQueue**, **SweepNeverRepeats** (`DueJobsProofs`): `DueSpec => ImplementsQueue` and `DueSpec => ExecutedOnce`.
  The transaction of a slot closes running rows and adds one that is pending (submitted) or
  skipped (refused). It is quiet, so claims stay exclusive although the sweep takes rows from
  goroutines that hold them.
* **SkipsAreJustified** (`DueJobsProofs`): `DueSpec => SkipNeedsLiveRun`. Dispatch creates pending rows only
  (`NewRunsArePending`), so a skipped row is that of a blocked job, whose live run the same transaction does not sweep.
* **SchedulerNeverBlocks** (`TokensAreWorkers`, `BatchFits`), **SweepNeverRequeues** (`NeverPendingAgain`) and
  **SweptRetriesInOrder** (`RetriesFollowAttempts`, `RetryKeyFree`), in `DueJobsProofs`: what dispatch promises
  still holds under `DueSpec`. None of the invariants behind them (`TokenInv`, `ExclusiveInv`, `RetryInv`) says that a held row
  keeps its status, which is why they survive the sweep; a slot enters with attempt 0 and a free key.
  SweptRetriesInOrder assumes `~HistoryLimit`: with deletions a slot that comes back (the zero time, or an
  update that was computed before) may find its first attempt deleted and a retry of it still there; the
  due-job loop then creates the first attempt again beside the retry.
* **SweptLogsTell** (`DueJobsProofs`): `DueSpec => []LogTellsSweep`, the counterpart of `LogTellsExecution`, which
  the sweep breaks. The invariant `SweptInv`: a running row has a start and no result, so the sweep
  adds the first one; a held row has no result but that of the sweep (`AtMostSwept`), so the outcome
  adds the second and last one, and lets go of the run.
* **SlotsStayFresh** (`DueJobsProofs`): `DueSpec => FreshSlot`. The invariant `SlotInv`: handled
  slots are not after the clock and, while a pass is at work, not after its instant;
  the next slot is computed from that instant and is later, or is the zero time (`NextIsLater`).
* **AcceptedIsApplied**, **AppliedIsWithinLimits**, **DueWithinASecond** (`DueJobsProofs`), about all
  integers and all decimals: the timeout the service accepts is the one the
  worker applies, and under any later valid configuration it stays within the limits; a
  comparison of texts is wrong about instants of the same second only.
* **NoContainerIsLeft**, **OrphansAreRemoved**, **SuccessesAreWhole**, **RecoverySparesLive**,
  **ExecutorTypes** (`ExecutorProofs`). The invariant `ExecutorInv` relates, for each execution, child,
  container and goroutine (`ChildInv`: after the `select` nobody attached is alive, and a
  container is created by a living child only), cleanup and its silent failures (`BoxInv`), what an execution without an
  error has achieved (`OutcomeInv`), and recovery (`StartInv`: nothing is active before it is
  over, and an inherited child is past creating).
* **ListsAreComplete**, **CacheIsFresh** (`RemoteSourceProofs`). `ListInv`: while a call collects,
  each goroutine that ended has delivered, or the call is over, and for that there is an error waiting or
  the caller left; and unless the catalog was cut short there is one for every wanted repository; so a closed channel without an error is complete. `TagInv`: an entry
  is dated no later than its tags, since the clock is read before the request.
* **RemoteTypesCorrect** (`RemoteSourceProofs`): `Spec => []RemoteTypeOK`, whose bounds are the work of `sem` and `results`.
  `SlotInv`: `sem` counts the goroutines between taking a slot and giving it back, so it stays between 0 and
  `Slots`; the variant that gives a slot back without having one breaks it. `SentInv`: who has sent has
  ended, so nothing is in the channel twice; `PageInv` and `DatedInv` bound pages and tags.
* **OpenFilesAreSafe** (`RetentionProofs`): `Spec => OpenFilesAreLeftAlone` of Retention. The
  invariant `OpenInv` says why: an executing run has no recorded paths, in its row or
  in a listing, since they are recorded with its outcome; and a listed run never
  executes again.
* **RetentionTypesCorrect**, **CapTakesNoFileInVain** (`RetentionProofs`): `[]RetentionTypeOK` and `OnlyAboveCap`, from `RetentionInv`.
  While the cap removes files, the storage holds at least what the pass believes (`CapInv`), for the others only add
  bytes: Execute opens its files when they are not there (`OwnFilesInv`), and a result is written once. The total
  is a number, and a removed file takes its size away (`RemovedBytes`), as storage is the
  number of bytes, a cardinality, and not a fold.
* **PrunedRowsHaveNoFiles** (`RetentionProofs`): `NoFileLosesItsRow`, if a page of the listing
  has room for every run (100000 in the code; beyond it the property fails, as rows
  are deleted without regard to pages). The invariant `PruneInv`: rows closed before the pass began are
  listed unchanged (`ListInv`), what is closed later finishes no earlier than the
  pass began, and the cutoff is not later than that (`ClockInv`), so the second query finds
  only listed rows, whose files are gone (`HistoryInv`).

Checked by TLC only: the liveness properties (`PendingIsTaken`, `RunningIsClosed`, `DueIsHandled`,
`ContextEndsExecution`, `CallEnds`), which need fairness and are out of the prover's reach. Every
invariant and action property that a passing run checks is a theorem. `ClaimInv`
and `LogTellsExecution` are theorems of Dispatch and not of DueJobs, where
the sweep breaks them on purpose (`LogTellsSweep` is what is left of the last); `ExecutedOnce`, `NeverPendingAgain`, `TokensAreWorkers`, `BatchFits`,
`RetriesFollowAttempts`, `RetryKeyFree` and `ImplementsQueue` are theorems of both. Of these TLC checks
`ImplementsQueue` with the due-job loop, too, and the others for Dispatch alone, on a larger instance than it could
reach with clock, sweep and retries together.

## 5. What is not modelled

* Loading of the configuration and its checks beyond the timeouts; `Resolve` of the image sources
  (one request, no state) and the local source (one docker command); reading of logs; HTTP and
  UI. `PROJECT.json` gives a reason for each.
* `CreateJob` while the system runs: jobs exist initially (with any
  configuration) and are updated and deleted. A created job is one that was
  disabled and is updated.
* `last_scheduled_at`, which is only displayed.
* Time zones and calendars beyond "the first slot strictly after now".
* Timeouts that differ between jobs or change with an update: the sweep uses the
  row as it is, the running goroutine the row it loaded.
* A page of 100 running rows in the sweep: more running runs of one job than that
  are not met.
* Why a docker command fails, and when it fails without a word: both may happen at any time, within the bound.
* The instants at which retention deletes rows, in Dispatch: any finished row may go.
* The log file and the time a docker command takes, in Executor; links of the catalog that go round
  in a circle, in RemoteSource.

## 6. What could come next

1. Timeouts per job in DueJobs, against updates that change them.
2. The window of the log reader against files that grow and are truncated.
3. `CreateJob` beside the loops, and more than one page of running rows in the sweep.
