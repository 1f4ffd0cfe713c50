------------------------------ MODULE RunStore ------------------------------
(***************************************************************************)
(* The SQLite store (internal/store): the tables jobs, runs and run_events *)
(* and the row operations that the scheduler and the API services compose  *)
(* into transactions.                                                      *)
(*                                                                         *)
(* The pool holds one connection (db.go, MaxOpenConns 1), so a transaction *)
(* or a single statement is one atomic step; the modules that extend this  *)
(* one build such a step from the operators below, which take the old      *)
(* table and return the new one.                                           *)
(*                                                                         *)
(* Abstracted: payload columns (image, parameters, messages, exit code,    *)
(* log and result paths, created_at, updated_at).  A timestamp that only   *)
(* matters as NULL or not NULL is a Boolean.  The run_events of a run are  *)
(* the field log of its row, in id order: ON DELETE CASCADE makes them     *)
(* live and die with it.                                                   *)
(***************************************************************************)
EXTENDS Integers, Sequences, FiniteSets

CONSTANTS
    Job,    \* job ids; AUTOINCREMENT never hands one out twice
    Time    \* instants a scheduled_at can hold

ASSUME TimeAssumption == Time \subseteq Int

VARIABLES
    jobs,       \* table jobs: id -> row, defined on the ids present
    runs,       \* table runs: id -> row, defined on the ids present
    lastRunId   \* AUTOINCREMENT counter of runs: ids never come back

storeVars == <<jobs, runs, lastRunId>>

-----------------------------------------------------------------------------

RunStatus == {"pending", "running", "cancelling", "success", "failed",
              "timeout", "cancelled", "skipped"}

TerminalStatus == {"success", "failed", "timeout", "cancelled", "skipped"}

EventType == {"created", "dispatched", "started", "completed", "failed", "timeout",
              "cancelled", "skipped"}

JobInput == [enabled    : BOOLEAN,
             kind       : {"interval", "cron", "never"},   \* schedule_type, and
                          \* "never": a cron expression that no day ever matches
             period     : Nat \ {0},              \* interval_sec, or the cron step
             policy     : {"allow", "forbid"},    \* concurrency_policy
             retryLimit : Int]

JobRow == [input : JobInput,    \* what the API client configured
           next  : Time]        \* next_run_at

RunRow == [job      : Job,
           slot     : Time,          \* scheduled_at
           attempt  : Nat,
           status   : RunStatus,
           finished : BOOLEAN,       \* finished_at IS NOT NULL
           log      : Seq(EventType)]

StoreTypeOK ==
    /\ lastRunId \in Nat
    /\ DOMAIN runs \subseteq 1 .. lastRunId
    /\ runs \in [DOMAIN runs -> RunRow]
    /\ DOMAIN jobs \subseteq Job
    /\ jobs \in [DOMAIN jobs -> JobRow]

-----------------------------------------------------------------------------

HasStatus(r, S) == r \in DOMAIN runs /\ runs[r].status \in S

\* No run points to a job that is gone (FOREIGN KEY, ON DELETE CASCADE).
ForeignKey == \A r \in DOMAIN runs : runs[r].job \in DOMAIN jobs

\* INSERT INTO runs succeeds: the job exists (foreign key) and the key
\* UNIQUE(job_id, scheduled_at, attempt) is free.
KeyFree(t, j, s, a) ==
    \A r \in DOMAIN t : ~(t[r].job = j /\ t[r].slot = s /\ t[r].attempt = a)

CanInsert(j, s, a) == j \in DOMAIN jobs /\ KeyFree(runs, j, s, a)

PendingRow(j, s, a) ==
    [job |-> j, slot |-> s, attempt |-> a, status |-> "pending",
     finished |-> FALSE, log |-> <<"created">>]

Inserted(t, r, row) == [q \in DOMAIN t \cup {r} |-> IF q = r THEN row ELSE t[q]]

\* UPDATE runs SET status, finished_at ... WHERE id = r: no row, no effect.
UpdateStatus(t, r, status, finished) ==
    [q \in DOMAIN t |->
        IF q = r THEN [t[q] EXCEPT !.status = status, !.finished = finished]
                 ELSE t[q]]

\* INSERT INTO run_events, for a run that is present (foreign key).
AddEvent(t, r, event) ==
    [q \in DOMAIN t |->
        IF q = r THEN [t[q] EXCEPT !.log = Append(@, event)] ELSE t[q]]

\* Variant with a bug: ClaimPending without the status in its WHERE clause.
Claimable_Unguarded(r) == HasStatus(r, {"pending", "running"})

\* The WHERE clause of ClaimPending.
Claimable(r) == HasStatus(r, {"pending"})

ClaimPending(t, r) == UpdateStatus(t, r, "running", t[r].finished)

\* ORDER BY scheduled_at, id of ListPending.
Before(q, r) ==
    \/ runs[q].slot < runs[r].slot
    \/ runs[q].slot = runs[r].slot /\ q < r

Pending == {r \in DOMAIN runs : runs[r].status = "pending"}

\* The first n pending runs in that order.
ListPending(n) ==
    {r \in Pending : Cardinality({q \in Pending : Before(q, r)}) < n}

\* UPDATE jobs SET ... WHERE id = j: no row, no effect.  JobRepo.Update writes every
\* column, UpdateScheduling next_run_at only.
UpdateJobRow(t, j, row) == [i \in DOMAIN t |-> IF i = j THEN row ELSE t[i]]

UpdateScheduling(t, j, s) ==
    [i \in DOMAIN t |-> IF i = j THEN [t[i] EXCEPT !.next = s] ELSE t[i]]

\* DELETE FROM jobs WHERE id = j, with ON DELETE CASCADE to runs and events.
DeleteJobRow(j) ==
    /\ jobs' = [i \in DOMAIN jobs \ {j} |-> jobs[i]]
    /\ runs' = [r \in {q \in DOMAIN runs : runs[q].job # j} |-> runs[r]]
    /\ UNCHANGED lastRunId
=============================================================================
