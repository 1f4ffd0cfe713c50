------------------------------ MODULE DueJobs ------------------------------
(***************************************************************************)
(* The scheduler with a clock: the due-job loop (internal/scheduler,       *)
(* due_job.go) beside the dispatch loop and its goroutines, which this     *)
(* module takes over from Dispatch step by step.                           *)
(*                                                                         *)
(* The loop lists the enabled jobs whose next_run_at has come and handles  *)
(* each in a transaction of its own: sweep running rows past their timeout *)
(* and look for a live one (policy forbid), insert a pending or a skipped  *)
(* run for the slot, advance the schedule.  The job rows it works with are *)
(* those of the scan, while the API may update or delete the jobs.  An     *)
(* update computes the next slot first and writes the row later, when the  *)
(* one connection of the pool is free.                                     *)
(*                                                                         *)
(* Abstracted: the clock is discrete, and a calendar has the multiples of  *)
(* a period or no day at all; all jobs share one timeout.                  *)
(***************************************************************************)
EXTENDS Dispatch, JobValues

CONSTANTS
    Config,     \* the timeouts of the scheduler section, in ticks
    JobTimeout, \* timeout_sec of the job rows
    MaxTime,    \* bound: the last instant of the clock
    MaxUpdates  \* bound: the number of updates made

ASSUME DueAssumption ==
    /\ Config \in SchedulerConfig /\ Valid(Config)
    /\ JobTimeout \in Nat
    /\ MaxTime \in Nat /\ MaxUpdates \in Nat
    /\ 0 .. MaxTime \subseteq Time

VARIABLES
    now,        \* the clock
    claimedAt,  \* run id -> started_at, once the run was claimed
    dueLoop,    \* the due-job loop: where it stands
    dueRows,    \* job id -> the row ListDue returned, if not yet processed
    dueNow,     \* the instant that scan used, 0 outside a pass
    dueWakeup,  \* a message is in the dueWakeup channel
    edits,      \* job id -> the row that an UpdateJob in flight will write
    updates,    \* how many updates were made
    handled     \* history: slots the loop has given a run or a skipped run

\* What the worker and the due-job loop make of it.
Timeout == Effective(Config, JobTimeout)

dueLoopVars == <<dueLoop, dueRows, dueNow>>
dueVars == <<now, claimedAt, dueLoopVars, dueWakeup, edits, updates, handled>>
allVars == <<vars, dueVars>>

NoRows == << >>

DueTypeOK ==
    /\ TypeOK
    /\ now \in 0 .. MaxTime
    /\ claimedAt \in [1 .. lastRunId -> 0 .. now]
    /\ dueLoop \in {"off", "wait", "scan", "process", "done"}
    /\ dueRows \in [DOMAIN dueRows -> JobRow] /\ DOMAIN dueRows \subseteq Job
    /\ (DOMAIN dueRows # {}) = (dueLoop = "process")
    /\ dueNow \in 0 .. now
    /\ dueWakeup \in BOOLEAN
    /\ edits \in [DOMAIN edits -> JobRow] /\ DOMAIN edits \subseteq Job
    /\ updates \in 0 .. MaxUpdates
    /\ handled \subseteq Job \X Time

-----------------------------------------------------------------------------

\* time.Time{}, which the library returns for a calendar that never fires, is stored
\* like any instant and lies before them all.
ZeroTime == -1

\* Variant with a bug: a cron slot that is exactly now counts as the next one.
NextRunAt_NotAfter(input, from) ==
    CASE input.kind = "interval" -> from + input.period
      [] input.kind = "cron"     -> ((from + input.period - 1) \div input.period) * input.period
      [] input.kind = "never"    -> ZeroTime

\* computeNextRunAt: a period from now, or the first slot of the calendar
\* strictly after it, if there is one.  Slots missed meanwhile are passed over.
NextRunAt(input, from) ==
    CASE input.kind = "interval" -> from + input.period
      [] input.kind = "cron"     -> (from \div input.period + 1) * input.period
      [] input.kind = "never"    -> ZeroTime

ASSUME SlotAssumption ==
    \A input \in JobInputs, t \in 0 .. MaxTime : NextRunAt(input, t) \in Time

\* The jobs were created (CreateJob) at instant 0.
DueInit ==
    /\ Init
    /\ \A j \in Job : jobs[j].next = NextRunAt(jobs[j].input, 0)
    /\ now = 0 /\ claimedAt = << >>
    /\ dueLoop = "off" /\ dueRows = NoRows /\ dueNow = 0 /\ dueWakeup = FALSE
    /\ edits = NoRows /\ updates = 0 /\ handled = {}

-----------------------------------------------------------------------------

Due(j) == j \in DOMAIN jobs /\ jobs[j].input.enabled /\ jobs[j].next <= now

DueTick ==
    /\ up /\ dueLoop = "wait"
    /\ dueLoop' = "scan"
    /\ UNCHANGED <<vars, now, claimedAt, dueRows, dueNow, dueWakeup, edits, updates, handled>>

DueWake ==
    /\ up /\ dueLoop = "wait" /\ dueWakeup
    /\ dueLoop' = "scan" /\ dueWakeup' = FALSE
    /\ UNCHANGED <<vars, now, claimedAt, dueRows, dueNow, edits, updates, handled>>

StopDueLoop ==
    /\ up /\ dueLoop = "wait" /\ ctxDone
    /\ dueLoop' = "done"
    /\ UNCHANGED <<vars, now, claimedAt, dueRows, dueNow, dueWakeup, edits, updates, handled>>

ListDue ==
    /\ up /\ dueLoop = "scan" /\ ~ctxDone
    /\ LET due == {j \in DOMAIN jobs : Due(j)} IN
       /\ dueRows' = [j \in due |-> jobs[j]]
       /\ dueLoop' = IF due = {} THEN "wait" ELSE "process"
       /\ dueNow' = IF due = {} THEN 0 ELSE now
    /\ UNCHANGED <<vars, now, claimedAt, dueWakeup, edits, updates, handled>>

\* The query fails: its context is cancelled, or the store reports an error.
ListDueFails ==
    /\ up /\ dueLoop = "scan"
    /\ ctxDone \/ StoreFaults
    /\ dueLoop' = "wait"
    /\ UNCHANGED <<vars, now, claimedAt, dueRows, dueNow, dueWakeup, edits, updates, handled>>

\* The listed jobs are processed in the order of next_run_at.
First(j) == \A i \in DOMAIN dueRows : dueRows[j].next <= dueRows[i].next

\* Variant with a bug: the loop does not notice the end of the list.
DoneWith_NoEnd(j) ==
    /\ dueRows' = [i \in DOMAIN dueRows \ {j} |-> dueRows[i]]
    /\ UNCHANGED <<dueLoop, dueNow>>

\* j leaves the list; the loop waits again after the last one.
DoneWith(j) ==
    /\ dueRows' = [i \in DOMAIN dueRows \ {j} |-> dueRows[i]]
    /\ dueLoop' = IF DOMAIN dueRows = {j} THEN "wait" ELSE "process"
    /\ dueNow' = IF DOMAIN dueRows = {j} THEN 0 ELSE dueNow

Running(j) == {r \in DOMAIN runs : runs[r].job = j /\ runs[r].status = "running"}

\* Variant with a bug: no running row is ever stale.
Stale_Never(r) == FALSE

\* isRunningRunStale, with the instant of the scan.
Stale(r) == Timeout > 0 /\ dueNow - claimedAt[r] >= Timeout

\* Variant with a bug: a stale run is queued again.
Swept_Requeues(j) ==
    [r \in DOMAIN runs |->
        IF r \in Running(j) /\ Stale(r) THEN [runs[r] EXCEPT !.status = "pending"]
                                       ELSE runs[r]]

\* Variant with a bug: the status is written, its event is not.
Swept_NoEvent(j) ==
    [r \in DOMAIN runs |->
        IF r \in Running(j) /\ Stale(r)
        THEN [runs[r] EXCEPT !.status = "timeout", !.finished = TRUE]
        ELSE runs[r]]

\* finalizeStaleRunningRun, for every stale run of the job.
Swept(j) ==
    [r \in DOMAIN runs |->
        IF r \in Running(j) /\ Stale(r)
        THEN [runs[r] EXCEPT !.status = "timeout", !.finished = TRUE,
                             !.log = Append(@, "timeout")]
        ELSE runs[r]]

Forbids(j) == dueRows[j].input.policy = "forbid"

Blocked(j) == Forbids(j) /\ \E r \in Running(j) : ~Stale(r)

SkippedRow(j, s) ==
    [PendingRow(j, s, 0) EXCEPT !.status = "skipped", !.finished = TRUE,
                                !.log = <<"skipped">>]

\* The row that the slot of job j gets.
SlotRow(j) ==
    IF Blocked(j) THEN SkippedRow(j, dueRows[j].next)
                  ELSE PendingRow(j, dueRows[j].next, 0)

\* The transaction of processDueJob: the row as listed decides, the row in the
\* table is advanced.
ScheduleSlot(j) ==
    /\ up /\ dueLoop = "process" /\ j \in DOMAIN dueRows /\ First(j) /\ ~ctxDone
    /\ CanInsert(j, dueRows[j].next, 0)
    /\ LET old == IF Forbids(j) THEN Swept(j) ELSE runs IN
       runs' = Inserted(old, lastRunId + 1, SlotRow(j))
    /\ lastRunId' = lastRunId + 1
    /\ claimedAt' = Append(claimedAt, 0)
    /\ jobs' = UpdateScheduling(jobs, j, NextRunAt(dueRows[j].input, dueNow))
    /\ handled' = handled \cup {<<j, dueRows[j].next>>}
    /\ DoneWith(j)
    /\ UNCHANGED <<processVars, loopVars, workerVars, tokens, wakeup, request,
                   executed, now, dueWakeup, edits, updates>>

\* Variant with a bug: the first job that fails ends the pass over the list.
ScheduleFails_EndsPass(j) ==
    /\ up /\ dueLoop = "process" /\ j \in DOMAIN dueRows /\ First(j)
    /\ ctxDone \/ StoreFaults \/ ~CanInsert(j, dueRows[j].next, 0)
    /\ dueRows' = NoRows /\ dueLoop' = "wait" /\ dueNow' = 0
    /\ UNCHANGED <<vars, now, claimedAt, dueWakeup, edits, updates, handled>>

\* It is rolled back, sweep included: the context is cancelled, the job is
\* gone, or the key of the slot is taken.  The next job is processed.
ScheduleFails(j) ==
    /\ up /\ dueLoop = "process" /\ j \in DOMAIN dueRows /\ First(j)
    /\ ctxDone \/ StoreFaults \/ ~CanInsert(j, dueRows[j].next, 0)
    /\ DoneWith(j)
    /\ UNCHANGED <<vars, now, claimedAt, dueWakeup, edits, updates, handled>>

-----------------------------------------------------------------------------
\* The steps of Dispatch, with the clock and the second loop.

Tick ==
    /\ now < MaxTime
    /\ now' = now + 1
    /\ UNCHANGED <<vars, claimedAt, dueLoopVars, dueWakeup, edits, updates, handled>>

\* Start launches both loops, or fails.
StartBoth ==
    /\ StartLoops
    /\ dueLoop' = "scan"
    /\ UNCHANGED <<now, claimedAt, dueRows, dueNow, dueWakeup, edits, updates, handled>>

StartFails ==
    /\ RecoverOrphansFails
    /\ dueLoop' = "done"
    /\ UNCHANGED <<now, claimedAt, dueRows, dueNow, dueWakeup, edits, updates, handled>>

DispatchLoopStep ==
    /\ DispatchTick \/ DispatchWake \/ StopLoop \/ Scan \/ ScanFails \/ AbandonBatch
         \/ \E w \in Worker : \E r \in batch : Spawn(r, w)
    /\ UNCHANGED dueVars

ClaimStep(w) ==
    /\ ClaimRun(w)
    /\ claimedAt' = [claimedAt EXCEPT ![target[w]] = now]
    /\ UNCHANGED <<now, dueLoopVars, dueWakeup, edits, updates, handled>>

\* The context of Execute times out no earlier than a timeout after the claim.
TimeoutStep(w) ==
    /\ ExecuteReturns(w, "timeout")
    /\ Timeout > 0 /\ now >= claimedAt[target[w]] + Timeout
    /\ UNCHANGED dueVars

FinalizeStep(w) ==
    /\ FinalizeRun(w)
    /\ claimedAt' = IF lastRunId' > lastRunId THEN Append(claimedAt, 0) ELSE claimedAt
    /\ UNCHANGED <<now, dueLoopVars, dueWakeup, edits, updates, handled>>

WorkerStep(w) ==
    \/ /\ \/ LoadRun(w) \/ LoadFails(w) \/ CloseCancelling(w) \/ LeaveUnclaimed(w)
          \/ StartTxFails(w) \/ CloseClaimed(w) \/ Execute(w)
          \/ ExecuteReturns(w, "success") \/ ExecuteReturns(w, "failed")
          \/ FinalizeTxFails(w) \/ SignalDispatch(w) \/ ReleaseToken(w)
       /\ UNCHANGED dueVars
    \/ ClaimStep(w) \/ TimeoutStep(w) \/ FinalizeStep(w)

\* A manual trigger is scheduled at the instant it is made.
TriggerNow(j) ==
    /\ TriggerJob(j, now)
    /\ claimedAt' = Append(claimedAt, 0)
    /\ UNCHANGED <<now, dueLoopVars, dueWakeup, edits, updates, handled>>

\* UpdateJob has found the job and computes its next slot; at most one update of
\* a job is in flight.
UpdateRead(j, input) ==
    /\ Serving /\ j \in DOMAIN jobs \ DOMAIN edits
    /\ updates < MaxUpdates /\ updates' = updates + 1
    /\ edits' = [i \in DOMAIN edits \cup {j} |->
                   IF i = j THEN [input |-> input, next |-> NextRunAt(input, now)]
                            ELSE edits[i]]
    /\ UNCHANGED <<vars, now, claimedAt, dueLoopVars, dueWakeup, handled>>

\* It writes the row, if it is still there, and wakes the loop.
UpdateWrite(j) ==
    /\ up /\ j \in DOMAIN edits
    /\ jobs' = UpdateJobRow(jobs, j, edits[j])
    /\ edits' = [i \in DOMAIN edits \ {j} |-> edits[i]]
    /\ dueWakeup' = TRUE
    /\ UNCHANGED <<runs, lastRunId, processVars, loopVars, workerVars, tokens, wakeup,
                   request, executed, now, claimedAt, dueLoopVars, updates, handled>>

RequestStep ==
    /\ \/ \E j \in Job : DeleteJob(j)
       \/ \E c \in Client : \E r \in DOMAIN runs : CancelRead(c, r)
       \/ \E c \in Client : CancelWrite(c)
    /\ UNCHANGED dueVars

PruneStep == RetentionNext /\ UNCHANGED dueVars

SignalStep == Shutdown /\ UNCHANGED dueVars

EndStep ==
    /\ Crash \/ MainReturns
    /\ dueLoop' = "off" /\ dueRows' = NoRows /\ dueNow' = 0 /\ dueWakeup' = FALSE
    /\ edits' = NoRows
    /\ UNCHANGED <<now, claimedAt, updates, handled>>

RestartStep ==
    /\ Restart
    /\ UNCHANGED <<now, claimedAt, dueLoopVars, dueWakeup, edits, updates, handled>>

DueLoopStep ==
    \/ DueTick \/ DueWake \/ StopDueLoop \/ ListDue \/ ListDueFails
    \/ \E j \in DOMAIN dueRows : ScheduleSlot(j) \/ ScheduleFails(j)

DueNext ==
    \/ Tick \/ StartBoth \/ StartFails
    \/ DueLoopStep \/ DispatchLoopStep
    \/ \E w \in Worker : WorkerStep(w)
    \/ \E j \in Job : TriggerNow(j) \/ UpdateWrite(j)
                      \/ \E input \in JobInputs : UpdateRead(j, input)
    \/ RequestStep \/ PruneStep
    \/ SignalStep \/ EndStep \/ RestartStep

DueSpec == DueInit /\ [][DueNext]_allVars

\* As for Dispatch: Go schedules the loop, and its ticker keeps ticking.
DueFairSpec ==
    /\ DueSpec
    /\ WF_allVars(StartBoth)
    /\ WF_allVars(DueTick)
    /\ WF_allVars(ListDue \/ ListDueFails)
    /\ WF_allVars(\E j \in DOMAIN dueRows : ScheduleSlot(j) \/ ScheduleFails(j))

-----------------------------------------------------------------------------
(***************************************************************************)
(* Safety.                                                                 *)
(***************************************************************************)

Fresh(j) == j \in DOMAIN jobs /\ <<j, jobs[j].next>> \notin handled

\* The loop never comes back to a slot it has handled, whatever updates race with it
\* (due_job.go:41-46, 125, 154): the slot would meet its own key in runs, and the
\* transaction of processDueJob would be rolled back at every scan from then on.
\* Two things do bring one back: an update that computed the slot before the loop
\* handled it, and a calendar that never fires, whose every slot is the zero time.
FreshSlot ==
    [][\A j \in DOMAIN jobs' :
          Fresh(j) /\ ~Fresh(j)' =>
              \/ j \in DOMAIN edits /\ jobs'[j] = edits[j]
              \/ jobs'[j].next = ZeroTime]_allVars

\* A run left behind by a crash blocks a job with policy forbid no longer than
\* its timeout: a slot is skipped only for a run that was younger at the scan.
SkipNeedsLiveRun ==
    [][\A r \in DOMAIN runs' \ DOMAIN runs :
          runs'[r].status = "skipped" =>
              \E q \in DOMAIN runs :
                  /\ runs[q].job = runs'[r].job /\ runs'[q].status = "running"
                  /\ Timeout = 0 \/ dueNow < claimedAt[q] + Timeout]_allVars

\* With the sweep the event log of a run may tell two results, never more: the
\* sweep's timeout (due_job.go:72) and after it what the goroutine that went on
\* executing made of the run.  Both follow the one start, and a success or a
\* failure is told of an executed run only.
LogTellsSweep ==
    \A r \in DOMAIN runs :
        LET log == runs[r].log
            At(E) == {i \in DOMAIN log : log[i] \in E}
        IN /\ Cardinality(At({"started"})) <= 1
           /\ \A i \in At(ResultEvents) : \E k \in At({"started"}) : k < i
           /\ \A i, k \in At(ResultEvents) :
                 i < k => log[i] = "timeout" /\ At(ResultEvents) = {i, k}
           /\ runs[r].status \in {"success", "failed", "timeout"} => At(ResultEvents) # {}
           /\ runs[r].status \in {"success", "failed"} => r \in executed

(***************************************************************************)
(* Liveness.                                                               *)
(***************************************************************************)

Scheduling == up /\ ~ctxDone /\ dueLoop # "done"

DueAndFree(j) == Scheduling /\ Due(j) /\ CanInsert(j, jobs[j].next, 0)

\* A slot that is due is handled, even if the transaction of another job fails
\* at every scan.  (A slot whose key is taken, by a manual trigger of that very
\* instant, is not handled: the job is stuck until it is updated, or until retention
\* deletes the run that has the key.)
DueIsHandled == \A j \in Job : DueAndFree(j) ~> ~DueAndFree(j)

(***************************************************************************)
(* What the documentation says and the code does not do.                   *)
(***************************************************************************)

\* README.md:40: policy forbid skips a slot if the job is already running.  Only
\* the status "running" counts, so runs still pending pile up and then execute
\* together.  (Stated for runs of the schedule: no triggers, no retries.)
ForbidMeansOne ==
    \A v, w \in Worker :
        /\ v # w /\ pc[v] = "exec" /\ pc[w] = "exec"
        /\ {target[v], target[w]} \subseteq DOMAIN runs
        /\ runs[target[v]].job = runs[target[w]].job
        => jobs[runs[target[v]].job].input.policy = "allow"

\* docs/design.txt:475: the scan creates runs for the jobs whose next_run_at has
\* come.  An update that read the clock before a slot and writes after the loop has
\* handled it stores that slot again: its key is taken, and the job is stuck.
DueGetsRun ==
    \A j \in Job : (Scheduling /\ Due(j)) ~> ~(Scheduling /\ Due(j))
=============================================================================
