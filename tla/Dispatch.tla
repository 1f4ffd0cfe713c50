------------------------------ MODULE Dispatch ------------------------------
(***************************************************************************)
(* Dispatch and execution of runs (internal/scheduler: scheduler.go,       *)
(* dispatch.go, worker.go), with the API calls that race with it           *)
(* (internal/service: TriggerJob, UpdateJob, DeleteJob, CancelRun), the    *)
(* rows that the retention loop deletes meanwhile, and the life of the     *)
(* process (cmd/main.go).                                                  *)
(*                                                                         *)
(* One dispatch loop scans the pending runs, takes a worker token for each *)
(* and starts a goroutine; the goroutine claims the run in a transaction,  *)
(* executes it, records the outcome (and the retry) in a second one, wakes *)
(* the dispatcher and gives the token back.  The loop scans again while    *)
(* tokens are left, so a run can be handed to several goroutines before    *)
(* the first of them claims it.                                            *)
(*                                                                         *)
(* The executor is a call that returns one of its possible outcomes; how   *)
(* it drives Docker is not part of this module.                            *)
(***************************************************************************)
EXTENDS RunStore

CONSTANTS
    Worker,             \* goroutine identities
    Client,             \* concurrent cancel requests
    MaxConcurrentRuns,  \* capacity of the token channel
    JobInputs,          \* the configurations jobs are given
    StoreFaults,        \* may a transaction of a worker fail (I/O error)?
    HistoryLimit,       \* retention is enabled, with run_history_days above 0
    MaxRuns,            \* bound: no trigger once this many runs were made
    MaxExits            \* bound: how often the process ends

ASSUME DispatchAssumption ==
    /\ MaxConcurrentRuns \in Nat \ {0}
    /\ IsFiniteSet(Worker)
    /\ JobInputs \subseteq JobInput
    /\ StoreFaults \in BOOLEAN /\ HistoryLimit \in BOOLEAN
    /\ MaxRuns \in Nat
    /\ MaxExits \in Nat

VARIABLES
    up,         \* the process is alive
    ctxDone,    \* the signal context of main is cancelled
    loop,       \* the dispatch loop: where it stands
    batch,      \* runs listed by the scan and not yet handed out
    tokens,     \* messages in the workerTokens channel
    wakeup,     \* a message is in the dispatchWakeup channel
    pc,         \* worker -> where its goroutine stands
    target,     \* worker -> the run it was started for
    limit,      \* worker -> retry limit of the job row it loaded
    outcome,    \* worker -> how Execute ended
    request,    \* client -> what CancelRun read and is about to write
    exits,      \* how often the process has ended
    executed    \* history: runs for which Execute was called

loopVars    == <<loop, batch>>
workerVars  == <<pc, target, limit, outcome>>
processVars == <<up, ctxDone, exits>>
vars == <<storeVars, processVars, loopVars, workerVars, tokens, wakeup,
          request, executed>>

NoRun == 0

NoRequest == [run |-> NoRun, write |-> "nothing", finished |-> FALSE]

CancelRequest(n) ==      \* of a run with an id up to n
    {NoRequest} \cup [run : 1 .. n, write : {"cancelled", "cancelling"},
                      finished : BOOLEAN]

LoopState == {"off", "wait", "scan", "spawn", "done"}

WorkerState == {"idle", "load", "start", "check", "exec", "final", "signal",
                "release"}

ControlTypeOK ==
    /\ up \in BOOLEAN /\ ctxDone \in BOOLEAN /\ exits \in Nat
    /\ loop \in LoopState
    /\ batch \subseteq 1 .. lastRunId
    /\ tokens \in Nat
    /\ wakeup \in BOOLEAN
    /\ pc \in [Worker -> WorkerState]
    /\ target \in [Worker -> 0 .. lastRunId]
    /\ \A w \in Worker : pc[w] # "idle" => target[w] # NoRun
    /\ limit \in [Worker -> Int]
    /\ outcome \in [Worker -> {"none", "success", "timeout", "failed"}]
    /\ request \in [Client -> CancelRequest(lastRunId)]
    /\ executed \subseteq 1 .. lastRunId

TypeOK == StoreTypeOK /\ ControlTypeOK

Init ==
    /\ jobs \in [Job -> [input : JobInputs, next : Time]]
    /\ runs = << >> /\ lastRunId = 0
    /\ up = TRUE /\ ctxDone = FALSE /\ exits = 0
    /\ loop = "off" /\ batch = {}
    /\ tokens = 0 /\ wakeup = FALSE
    /\ pc = [w \in Worker |-> "idle"]
    /\ target = [w \in Worker |-> NoRun]
    /\ limit = [w \in Worker |-> 0]
    /\ outcome = [w \in Worker |-> "none"]
    /\ request = [c \in Client |-> NoRequest]
    /\ executed = {}

-----------------------------------------------------------------------------
\* The dispatch loop.

\* RecoverOrphans succeeded: Start launches the loops, and the dispatch loop
\* scans before it waits for the first time.
StartLoops ==
    /\ up /\ loop = "off"
    /\ loop' = "scan"
    /\ UNCHANGED <<storeVars, processVars, batch, workerVars, tokens, wakeup,
                   request, executed>>

\* RecoverOrphans failed: Start returns its error and no loop ever runs, while
\* the API goes on serving.
RecoverOrphansFails ==
    /\ up /\ loop = "off"
    /\ loop' = "done"
    /\ UNCHANGED <<storeVars, processVars, batch, workerVars, tokens, wakeup,
                   request, executed>>

\* Variant with a bug: the loop has no ticker and relies on wakeups.
DispatchTick_NoTicker ==
    /\ up /\ loop = "wait" /\ wakeup
    /\ loop' = "scan" /\ wakeup' = FALSE
    /\ UNCHANGED <<storeVars, processVars, batch, workerVars, tokens, request,
                   executed>>

DispatchTick ==
    /\ up /\ loop = "wait"
    /\ loop' = "scan"
    /\ UNCHANGED <<storeVars, processVars, batch, workerVars, tokens, wakeup,
                   request, executed>>

DispatchWake ==
    /\ up /\ loop = "wait" /\ wakeup
    /\ loop' = "scan" /\ wakeup' = FALSE
    /\ UNCHANGED <<storeVars, processVars, batch, workerVars, tokens, request,
                   executed>>

StopLoop ==
    /\ up /\ loop = "wait" /\ ctxDone
    /\ loop' = "done"
    /\ UNCHANGED <<storeVars, processVars, batch, workerVars, tokens, wakeup,
                   request, executed>>

\* cap(workerTokens) - len(workerTokens)
Available == MaxConcurrentRuns - tokens

\* Variant with a bug: without the early return; a limit of 0 lists up to 100 runs.
ScanResult_NoEarlyReturn ==
    IF ctxDone THEN {} ELSE IF Available <= 0 THEN Pending ELSE ListPending(Available)

\* The runs this scan hands out: none without a free token, none when the
\* query fails because its context is cancelled.
ScanResult ==
    IF Available <= 0 \/ ctxDone THEN {} ELSE ListPending(Available)

Scan ==
    /\ up /\ loop = "scan"
    /\ batch' = ScanResult
    /\ loop' = IF ScanResult = {} THEN "wait" ELSE "spawn"
    /\ UNCHANGED <<storeVars, processVars, workerVars, tokens, wakeup, request,
                   executed>>

\* ListPending reports an error.
ScanFails ==
    /\ up /\ loop = "scan" /\ StoreFaults
    /\ loop' = "wait"
    /\ UNCHANGED <<storeVars, processVars, batch, workerVars, tokens, wakeup,
                   request, executed>>

\* acquireWorkerToken succeeds and the goroutine for run r starts.
Spawn(r, w) ==
    /\ up /\ loop = "spawn" /\ ~ctxDone
    /\ r \in batch /\ pc[w] = "idle"
    /\ tokens < MaxConcurrentRuns
    /\ tokens' = tokens + 1
    /\ batch' = batch \ {r}
    /\ loop' = IF batch' = {} THEN "scan" ELSE "spawn"
    /\ pc' = [pc EXCEPT ![w] = "load"]
    /\ target' = [target EXCEPT ![w] = r]
    /\ UNCHANGED <<storeVars, processVars, limit, outcome, wakeup, request,
                   executed>>

\* acquireWorkerToken returns false.
AbandonBatch ==
    /\ up /\ loop = "spawn" /\ ctxDone
    /\ batch' = {} /\ loop' = "wait"
    /\ UNCHANGED <<storeVars, processVars, workerVars, tokens, wakeup, request,
                   executed>>

-----------------------------------------------------------------------------
\* A worker goroutine.

Goto(w, state) == pc' = [pc EXCEPT ![w] = state]

\* Runs.Get and Jobs.Get; the row of the job is kept to the end of the run.
LoadRun(w) ==
    /\ up /\ pc[w] = "load" /\ ~ctxDone
    /\ target[w] \in DOMAIN runs
    /\ limit' = [limit EXCEPT ![w] = jobs[runs[target[w]].job].input.retryLimit]
    /\ Goto(w, "start")
    /\ UNCHANGED <<storeVars, processVars, loopVars, target, outcome, tokens,
                   wakeup, request, executed>>

\* Variant with a bug: this early return keeps the token.
LoadFails_KeepsToken(w) ==
    /\ up /\ pc[w] = "load"
    /\ ctxDone \/ target[w] \notin DOMAIN runs \/ StoreFaults
    /\ Goto(w, "idle")
    /\ UNCHANGED <<storeVars, processVars, loopVars, target, limit, outcome,
                   tokens, wakeup, request, executed>>

LoadFails(w) ==
    /\ up /\ pc[w] = "load"
    /\ ctxDone \/ target[w] \notin DOMAIN runs \/ StoreFaults
    /\ Goto(w, "release")
    /\ UNCHANGED <<storeVars, processVars, loopVars, target, limit, outcome,
                   tokens, wakeup, request, executed>>

\* Variant with a bug: the started event is not written.
ClaimRun_NoEvent(w) ==
    /\ up /\ pc[w] = "start" /\ ~ctxDone
    /\ Claimable(target[w])
    /\ runs' = ClaimPending(runs, target[w])
    /\ Goto(w, "check")
    /\ UNCHANGED <<jobs, lastRunId, processVars, loopVars, target, limit,
                   outcome, tokens, wakeup, request, executed>>

\* The first transaction, by the status it finds in the row.
ClaimRun(w) ==
    /\ up /\ pc[w] = "start" /\ ~ctxDone
    /\ Claimable(target[w])
    /\ runs' = AddEvent(ClaimPending(runs, target[w]), target[w], "started")
    /\ Goto(w, "check")
    /\ UNCHANGED <<jobs, lastRunId, processVars, loopVars, target, limit,
                   outcome, tokens, wakeup, request, executed>>

CloseCancelling(w) ==
    /\ up /\ pc[w] = "start" /\ ~ctxDone
    /\ HasStatus(target[w], {"cancelling"})
    /\ runs' = AddEvent(UpdateStatus(runs, target[w], "cancelled", TRUE),
                        target[w], "cancelled")
    /\ Goto(w, "signal")
    /\ UNCHANGED <<jobs, lastRunId, processVars, loopVars, target, limit,
                   outcome, tokens, wakeup, request, executed>>

\* Variant with a bug: the test of "claimed" is missing.
LeaveUnclaimed_GoesOn(w) ==
    /\ up /\ pc[w] = "start" /\ ~ctxDone
    /\ HasStatus(target[w], RunStatus \ {"pending", "cancelling"})
    /\ Goto(w, "check")
    /\ UNCHANGED <<storeVars, processVars, loopVars, target, limit, outcome,
                   tokens, wakeup, request, executed>>

LeaveUnclaimed(w) ==
    /\ up /\ pc[w] = "start" /\ ~ctxDone
    /\ HasStatus(target[w], RunStatus \ {"pending", "cancelling"})
    /\ Goto(w, "signal")
    /\ UNCHANGED <<storeVars, processVars, loopVars, target, limit, outcome,
                   tokens, wakeup, request, executed>>

\* The transaction fails: its context is cancelled, the row is gone, or the
\* store reports an error.  The goroutine returns without a wakeup.
StartTxFails(w) ==
    /\ up /\ pc[w] = "start"
    /\ ctxDone \/ target[w] \notin DOMAIN runs \/ StoreFaults
    /\ Goto(w, "release")
    /\ UNCHANGED <<storeVars, processVars, loopVars, target, limit, outcome,
                   tokens, wakeup, request, executed>>

\* Variant with a bug: a claimed run that cannot start is queued again.
CloseClaimed_Requeues(w) ==
    /\ up /\ pc[w] = "check" /\ ctxDone
    /\ target[w] \in DOMAIN runs
    /\ runs' = UpdateStatus(runs, target[w], "pending", FALSE)
    /\ Goto(w, "signal")
    /\ UNCHANGED <<jobs, lastRunId, processVars, loopVars, target, limit,
                   outcome, tokens, wakeup, request, executed>>

\* The context was cancelled after the claim: the run is closed unexecuted.
\* Its transaction fails when the row is gone (foreign key of the event).
CloseClaimed(w) ==
    /\ up /\ pc[w] = "check" /\ ctxDone
    /\ \/ /\ target[w] \in DOMAIN runs
          /\ runs' = AddEvent(UpdateStatus(runs, target[w], "cancelled", TRUE),
                              target[w], "cancelled")
       \/ /\ target[w] \notin DOMAIN runs \/ StoreFaults
          /\ UNCHANGED runs
    /\ Goto(w, "signal")
    /\ UNCHANGED <<jobs, lastRunId, processVars, loopVars, target, limit,
                   outcome, tokens, wakeup, request, executed>>

\* Variant with a bug: the goroutine ends after the claim.
Execute_Forgotten(w) ==
    /\ up /\ pc[w] = "check" /\ ~ctxDone
    /\ Goto(w, "signal")
    /\ UNCHANGED <<storeVars, processVars, loopVars, target, limit, outcome,
                   tokens, wakeup, request, executed>>

Execute(w) ==
    /\ up /\ pc[w] = "check" /\ ~ctxDone
    /\ Goto(w, "exec")
    /\ executed' = executed \cup {target[w]}
    /\ UNCHANGED <<storeVars, processVars, loopVars, target, limit, outcome,
                   tokens, wakeup, request>>

\* Execute returns: no error, an error after the deadline of its context has
\* passed, or another error.
ExecuteReturns(w, how) ==
    /\ up /\ pc[w] = "exec"
    /\ outcome' = [outcome EXCEPT ![w] = how]
    /\ Goto(w, "final")
    /\ UNCHANGED <<storeVars, processVars, loopVars, target, limit, tokens,
                   wakeup, request, executed>>

\* The branch of the second transaction: an error that is not a timeout is a
\* cancellation once the context is cancelled, a failure otherwise.
Verdict(w) ==
    CASE outcome[w] = "failed" /\ ctxDone -> [status |-> "cancelled", event |-> "cancelled"]
      [] outcome[w] = "failed" /\ ~ctxDone -> [status |-> "failed", event |-> "failed"]
      [] outcome[w] = "timeout" -> [status |-> "timeout", event |-> "timeout"]
      [] OTHER -> [status |-> "success", event |-> "completed"]

Closed(w) ==
    AddEvent(UpdateStatus(runs, target[w], Verdict(w).status, TRUE),
             target[w], Verdict(w).event)

\* Variant with a bug: one retry too many.
WantsRetry_OffByOne(w) ==
    /\ Verdict(w).status \in {"failed", "timeout"}
    /\ limit[w] > 0 /\ runs[target[w]].attempt <= limit[w]

\* buildRetryRun has a run to offer, with the limit of the loaded job.
WantsRetry(w) ==
    /\ Verdict(w).status \in {"failed", "timeout"}
    /\ limit[w] > 0 /\ runs[target[w]].attempt < limit[w]

\* Variant with a bug: attempts are counted down.
RetryRow_CountsDown(w) ==
    LET r == runs[target[w]] IN PendingRow(r.job, r.slot, r.attempt - 1)

RetryRow(w) ==
    LET r == runs[target[w]] IN PendingRow(r.job, r.slot, r.attempt + 1)

RetryFits(w) == CanInsert(RetryRow(w).job, RetryRow(w).slot, RetryRow(w).attempt)

\* The second transaction: the status is overwritten whatever it is by now.
FinalizeRun(w) ==
    /\ up /\ pc[w] = "final"
    /\ target[w] \in DOMAIN runs
    /\ \/ /\ ~WantsRetry(w)
          /\ runs' = Closed(w)
          /\ UNCHANGED lastRunId
       \/ /\ WantsRetry(w) /\ RetryFits(w)
          /\ runs' = Inserted(Closed(w), lastRunId + 1, RetryRow(w))
          /\ lastRunId' = lastRunId + 1
    /\ Goto(w, "signal")
    /\ UNCHANGED <<jobs, processVars, loopVars, target, limit, outcome, tokens,
                   wakeup, request, executed>>

\* Variant with a bug: a failed second transaction executes the run again.
FinalizeTxFails_Repeats(w) ==
    /\ up /\ pc[w] = "final"
    /\ target[w] \notin DOMAIN runs \/ StoreFaults
    /\ Goto(w, "exec")
    /\ UNCHANGED <<storeVars, processVars, loopVars, target, limit, outcome,
                   tokens, wakeup, request, executed>>

\* It is rolled back as a whole: the row is gone (foreign key of the event),
\* the key of the retry is taken, or the store reports an error.
FinalizeTxFails(w) ==
    /\ up /\ pc[w] = "final"
    /\ \/ target[w] \notin DOMAIN runs
       \/ StoreFaults
       \/ target[w] \in DOMAIN runs /\ WantsRetry(w) /\ ~RetryFits(w)
    /\ Goto(w, "signal")
    /\ UNCHANGED <<storeVars, processVars, loopVars, target, limit, outcome,
                   tokens, wakeup, request, executed>>

SignalDispatch(w) ==
    /\ up /\ pc[w] = "signal"
    /\ wakeup' = TRUE
    /\ Goto(w, "release")
    /\ UNCHANGED <<storeVars, processVars, loopVars, target, limit, outcome,
                   tokens, request, executed>>

\* The deferred releaseWorkerToken; the goroutine ends.
ReleaseToken(w) ==
    /\ up /\ pc[w] = "release"
    /\ tokens' = IF tokens > 0 THEN tokens - 1 ELSE tokens
    /\ Goto(w, "idle")
    /\ target' = [target EXCEPT ![w] = NoRun]
    /\ limit' = [limit EXCEPT ![w] = 0]
    /\ outcome' = [outcome EXCEPT ![w] = "none"]
    /\ UNCHANGED <<storeVars, processVars, loopVars, wakeup, request, executed>>

-----------------------------------------------------------------------------
\* API requests.  New ones are served until the context is cancelled.

Serving == up /\ ~ctxDone

\* No run of job j is left from instant s.
NewInstant(j, s) == \A r \in DOMAIN runs : ~(runs[r].job = j /\ runs[r].slot = s)

\* TriggerJob at instant s; a second trigger of the job at the same instant
\* is refused by the unique key and changes nothing.  s is the present: a first
\* attempt is deleted days after its instant, so none of which a retry is left has
\* the instant of a trigger to come.
TriggerJob(j, s) ==
    /\ Serving /\ lastRunId < MaxRuns
    /\ CanInsert(j, s, 0) /\ NewInstant(j, s)
    /\ runs' = Inserted(runs, lastRunId + 1, PendingRow(j, s, 0))
    /\ lastRunId' = lastRunId + 1
    /\ wakeup' = TRUE
    /\ UNCHANGED <<jobs, processVars, loopVars, workerVars, tokens, request,
                   executed>>

\* UpdateJob gives the job a new configuration and its next slot.
UpdateJob(j, input, s) ==
    /\ Serving /\ j \in DOMAIN jobs
    /\ jobs' = UpdateJobRow(jobs, j, [input |-> input, next |-> s])
    /\ UNCHANGED <<runs, lastRunId, processVars, loopVars, workerVars, tokens,
                   wakeup, request, executed>>

DeleteJob(j) ==
    /\ Serving /\ j \in DOMAIN jobs
    /\ DeleteJobRow(j)
    /\ UNCHANGED <<processVars, loopVars, workerVars, tokens, wakeup, request,
                   executed>>

\* CancelRun reads the row ...
CancelRead(c, r) ==
    /\ Serving /\ request[c] = NoRequest
    /\ HasStatus(r, {"pending", "running", "cancelling"})
    /\ request' = [request EXCEPT ![c] =
          [run |-> r,
           write |-> IF runs[r].status = "pending" THEN "cancelled"
                                                   ELSE "cancelling",
           finished |-> runs[r].finished]]
    /\ UNCHANGED <<storeVars, processVars, loopVars, workerVars, tokens,
                   wakeup, executed>>

\* ... and writes what it decided on, whatever the row holds by now.
CancelWrite(c) ==
    /\ up /\ request[c] # NoRequest
    /\ runs' = UpdateStatus(runs, request[c].run, request[c].write,
                            request[c].finished)
    /\ request' = [request EXCEPT ![c] = NoRequest]
    /\ UNCHANGED <<jobs, lastRunId, processVars, loopVars, workerVars, tokens,
                   wakeup, executed>>

-----------------------------------------------------------------------------
\* The retention loop, which Start launches beside the others.

Finished == {r \in DOMAIN runs : runs[r].status \in TerminalStatus /\ runs[r].finished}

\* Its DELETE takes the finished runs that are older than its cutoff.  There is no
\* clock here, so any of them may be; a later attempt can outlive an earlier one.
DeleteTerminalBefore(old) ==
    /\ HistoryLimit /\ up /\ ~ctxDone /\ loop \notin {"off", "done"}
    /\ old # {}
    /\ runs' = [r \in DOMAIN runs \ old |-> runs[r]]
    /\ UNCHANGED <<jobs, lastRunId, processVars, loopVars, workerVars, tokens, wakeup,
                   request, executed>>

RetentionNext == \E old \in SUBSET Finished : DeleteTerminalBefore(old)

-----------------------------------------------------------------------------
\* The process.

\* SIGINT or SIGTERM.
Shutdown ==
    /\ up /\ ~ctxDone
    /\ ctxDone' = TRUE
    /\ UNCHANGED <<storeVars, up, exits, loopVars, workerVars, tokens, wakeup,
                   request, executed>>

\* The process ends and only the store survives.
ProcessEnds ==
    /\ up /\ exits < MaxExits
    /\ up' = FALSE /\ exits' = exits + 1
    /\ ctxDone' = FALSE
    /\ loop' = "off" /\ batch' = {}
    /\ tokens' = 0 /\ wakeup' = FALSE
    /\ pc' = [w \in Worker |-> "idle"]
    /\ target' = [w \in Worker |-> NoRun]
    /\ limit' = [w \in Worker |-> 0]
    /\ outcome' = [w \in Worker |-> "none"]
    /\ request' = [c \in Client |-> NoRequest]
    /\ UNCHANGED <<storeVars, executed>>

Crash == ProcessEnds /\ ~ctxDone

\* After a signal main returns once the API server has shut down; it does not
\* wait for Start and its WaitGroup.  A crash at this stage looks the same.
MainReturns == ProcessEnds /\ ctxDone

Restart ==
    /\ ~up
    /\ up' = TRUE
    /\ UNCHANGED <<storeVars, ctxDone, exits, loopVars, workerVars, tokens,
                   wakeup, request, executed>>

-----------------------------------------------------------------------------

LoopNext ==
    \/ StartLoops \/ RecoverOrphansFails \/ DispatchTick \/ DispatchWake
    \/ StopLoop \/ Scan \/ ScanFails \/ AbandonBatch
    \/ \E w \in Worker : \E r \in batch : Spawn(r, w)

WorkerNext(w) ==
    \/ LoadRun(w) \/ LoadFails(w) \/ ClaimRun(w) \/ CloseCancelling(w) \/ LeaveUnclaimed(w)
    \/ StartTxFails(w) \/ CloseClaimed(w) \/ Execute(w)
    \/ \E how \in {"success", "timeout", "failed"} : ExecuteReturns(w, how)
    \/ FinalizeRun(w) \/ FinalizeTxFails(w)
    \/ SignalDispatch(w) \/ ReleaseToken(w)

ApiNext ==
    \/ \E j \in Job, s \in Time : TriggerJob(j, s)
    \/ \E j \in Job, input \in JobInputs, s \in Time : UpdateJob(j, input, s)
    \/ \E j \in Job : DeleteJob(j)
    \/ \E c \in Client : \E r \in DOMAIN runs : CancelRead(c, r)
    \/ \E c \in Client : CancelWrite(c)

ProcessNext == Shutdown \/ Crash \/ MainReturns \/ Restart

Next ==
    \/ LoopNext
    \/ \E w \in Worker : WorkerNext(w)
    \/ ApiNext
    \/ RetentionNext
    \/ ProcessNext

Spec == Init /\ [][Next]_vars

\* The Go runtime runs every goroutine that can run, the ticker keeps ticking,
\* and Execute returns because its context has a deadline.  No fairness for
\* requests, for the wakeup channel (select may prefer the ticker) or for the
\* life of the process.
Fairness ==
    /\ WF_vars(StartLoops)
    /\ WF_vars(DispatchTick)
    /\ WF_vars(Scan)
    /\ WF_vars(\E w \in Worker : \E r \in batch : Spawn(r, w))
    /\ \A w \in Worker : WF_vars(WorkerNext(w))

FairSpec == Spec /\ Fairness

-----------------------------------------------------------------------------
(***************************************************************************)
(* Safety.                                                                 *)
(***************************************************************************)

Holding(w) == pc[w] \in {"check", "exec", "final"}    \* claimed, not yet closed
Busy == {w \in Worker : pc[w] # "idle"}
Executing(w) == pc[w] \in {"exec", "final"}

\* Every token in the channel belongs to exactly one live goroutine, on every
\* path through runWorker, early returns and failed transactions included; so
\* at most MaxConcurrentRuns runs execute at once.
TokensAreWorkers ==
    /\ tokens = Cardinality(Busy)
    /\ tokens <= MaxConcurrentRuns

\* The runs a scan listed always fit into the tokens that are left, so the
\* dispatch loop never blocks in acquireWorkerToken, where it would neither
\* tick nor take wakeups.
BatchFits == Cardinality(batch) <= Available

\* No run is executed twice: not when several goroutines were started for
\* it, not when a cancellation races with the claim, not after a restart.
ExecutedOnce ==
    [][\A w \in Worker :
          pc[w] # "exec" /\ pc'[w] = "exec" => target[w] \notin executed]_vars

\* A run that was claimed or closed never becomes pending again.
NeverPendingAgain ==
    [][\A r \in DOMAIN runs \cap DOMAIN runs' :
          runs'[r].status = "pending" => runs[r].status = "pending"]_vars

\* The retry that FinalizeRun may insert never meets its own key, so the
\* unique constraint never rolls the outcome of an execution back.
RetryKeyFree ==
    \A w \in Worker :
        Executing(w) /\ target[w] \in DOMAIN runs =>
            LET r == runs[target[w]] IN KeyFree(runs, r.job, r.slot, r.attempt + 1)

\* Attempts of a slot are made in order: when a later one is on record, an earlier
\* one was executed and let go, or has been deleted since, which only the history
\* limit does.  None goes beyond every limit a job was ever given (a goroutine keeps
\* the limit it loaded, whatever UpdateJob does meanwhile).
RetriesFollowAttempts ==
    \A q \in DOMAIN runs :
        LET Earlier == {p \in DOMAIN runs : /\ runs[p].job = runs[q].job
                                           /\ runs[p].slot = runs[q].slot
                                           /\ runs[p].attempt < runs[q].attempt}
        IN /\ runs[q].attempt > 0 => \E i \in JobInputs : runs[q].attempt <= i.retryLimit
           /\ \A p \in Earlier : /\ p \in executed
                                 /\ \A w \in Worker : Executing(w) => target[w] # p
           /\ ~HistoryLimit => \A a \in 0 .. runs[q].attempt - 1 :
                                  \E p \in Earlier : runs[p].attempt = a

\* What keeps claims exclusive, whoever else writes the rows: a claimed run is held by
\* one goroutine, and neither a claimed nor an executed run is pending.
ExclusiveInv ==
    /\ \A v, w \in Worker :
          Holding(v) /\ Holding(w) /\ target[v] = target[w] => v = w
    /\ \A w \in Worker : Holding(w) => ~HasStatus(target[w], {"pending"})
    /\ \A w \in Worker : pc[w] = "check" => target[w] \notin executed
    /\ \A w \in Worker : Executing(w) => target[w] \in executed
    /\ executed \cap Pending = {}

\* Beyond that nobody but cancellations can take the row from the goroutine that
\* holds the run.
ClaimInv ==
    /\ ExclusiveInv
    /\ \A w \in Worker :
          Holding(w) /\ target[w] \in DOMAIN runs =>
              runs[target[w]].status \in {"running", "cancelling", "cancelled"}

ResultEvents == {"completed", "failed", "timeout"}

\* The event log of a run tells one execution: at most one start, at most one
\* result, the result after the start, and a result status only with both.
LogTellsExecution ==
    \A r \in DOMAIN runs :
        LET log == runs[r].log
            At(E) == {i \in DOMAIN log : log[i] \in E}
        IN /\ Cardinality(At({"started"})) <= 1
           /\ Cardinality(At(ResultEvents)) <= 1
           /\ \A i \in At(ResultEvents) : \E k \in At({"started"}) : k < i
           /\ runs[r].status \in {"success", "failed", "timeout"} =>
                  At(ResultEvents) # {} /\ r \in executed

\* The rows and goroutines seen as a RunQueue: a run waits from its row's
\* creation until Execute is called for it, unless its row is closed or deleted
\* unclaimed; it executes until its outcome is recorded.
Queue == INSTANCE RunQueue WITH
    Capacity  <- MaxConcurrentRuns,
    known     <- 1 .. lastRunId,
    queued    <- Pending \cup {target[w] : w \in {v \in Worker : pc[v] = "check"}},
    executing <- {target[w] : w \in {v \in Worker : Executing(v)}}

\* Dispatch with all its races, restarts and rollbacks is still a queue that
\* executes every run at most once and no more than its capacity at a time.
ImplementsQueue == Queue!QueueSpec

(***************************************************************************)
(* Liveness.                                                               *)
(***************************************************************************)

Dispatching == up /\ ~ctxDone /\ loop # "done"

\* (Run ids up to 2 * MaxRuns: the checked instance has one retry per run.)

\* A pending run is claimed or closed, whatever wakeups were lost or came too
\* early: a worker signals before it gives its token back, so the scan the
\* signal causes may find no token.
PendingIsTaken ==
    \A r \in 1 .. 2 * MaxRuns :
        (r \in Pending /\ Dispatching) ~> ~(r \in Pending /\ Dispatching)

\* A running run leaves that status unless the process ends first.
RunningIsClosed ==
    \A r \in 1 .. 2 * MaxRuns :
        (HasStatus(r, {"running"}) /\ exits = 0) ~>
            (~HasStatus(r, {"running"}) \/ exits > 0)

(***************************************************************************)
(* What the documentation says and the code does not do.                   *)
(***************************************************************************)

\* docs/design.txt:529: the worker notices "cancelling", stops the container
\* and marks the run "cancelled".
CancelIsHonoured ==
    [][\A r \in DOMAIN runs \cap DOMAIN runs' :
          runs[r].status = "cancelling" =>
              runs'[r].status \in {"cancelling", "cancelled"}]_vars

\* README.md:287: pending, then running, then one of the final statuses.
FinalStatusIsFinal ==
    [][\A r \in DOMAIN runs \cap DOMAIN runs' :
          runs[r].status \in TerminalStatus => runs'[r].status = runs[r].status]_vars
=============================================================================
