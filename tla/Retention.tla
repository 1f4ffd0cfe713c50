----------------------------- MODULE Retention -----------------------------
(***************************************************************************)
(* The retention pruner (internal/retention) against runs that change under *)
(* it.  A pass lists the completed runs, prunes the files of each, removes  *)
(* the files and then the rows of those past the history limit, and removes *)
(* further files, oldest first, until the storage fits its cap.  Nothing    *)
(* locks rows or files between these steps.                                 *)
(*                                                                          *)
(* The other actors are reduced to what they do to a row and its files: the *)
(* worker (claim, output, outcome), the sweep of the due-job loop, CancelRun *)
(* and DeleteJob.                                                           *)
(*                                                                          *)
(* Abstracted: a tick of the clock is a day; a file is its size and its     *)
(* modification time.  The executor records only paths it made under the    *)
(* storage roots of its process.  A process that starts with other roots    *)
(* skips such paths and does not count what they name: the file leaves the  *)
(* model, though not the disk, and former roots are not taken up again.     *)
(***************************************************************************)
EXTENDS Integers, FiniteSets

CONSTANTS
    Run,                    \* run ids
    RunHistoryDays, SuccessLogDays, FailedLogDays, ArtifactDays,  \* 0 disables
    MaxLogBytesPerRun, MaxTotalStorageBytes,                      \* 0 disables
    PageSize,               \* rows a pass lists at most (100000)
    MaxFaults,              \* bound: how often a pass fails or the process ends
    MaxTime,                \* bound: the last day of the clock
    MaxSize                 \* bound: the size a file may reach

ASSUME RetentionAssumption ==
    /\ Run \subseteq Nat /\ IsFiniteSet(Run)
    /\ {RunHistoryDays, SuccessLogDays, FailedLogDays, ArtifactDays,
        MaxLogBytesPerRun, MaxTotalStorageBytes, MaxTime, MaxSize, MaxFaults, PageSize}
          \subseteq Nat
    /\ MaxSize >= 1

VARIABLES
    now,        \* the clock
    rows,       \* table runs: id -> row, defined on the ids present
    files,      \* <<kind, run>> -> the file, defined on those under the roots
    executing,  \* runs whose executor is running
    pc,         \* the pass: where it stands
    listed,     \* the rows as ListTerminalBefore returned them
    todo,       \* listed runs, or their files, the present phase has to visit
    cutoff,     \* history cutoff of the pass
    total,      \* storage the pass believes is used
    passStart,  \* history: when the pass began
    faults      \* history: how often a pass failed or the process ended

worldVars == <<rows, files, executing>>
passVars  == <<pc, listed, todo, cutoff, total, passStart>>
vars == <<now, worldVars, passVars, faults>>

NULL == -1

Terminal == {"success", "failed", "timeout", "cancelled", "skipped"}

Status == Terminal \cup {"pending", "running", "cancelling"}

Row == [status   : Status,
        finished : {NULL} \cup Nat,     \* finished_at
        paths    : BOOLEAN]             \* log_path and result_path are recorded

File == {"log", "result"} \X Run

LogOf(r) == <<"log", r>>
ResultOf(r) == <<"result", r>>

RetentionTypeOK ==
    /\ now \in 0 .. MaxTime
    /\ DOMAIN rows \subseteq Run /\ rows \in [DOMAIN rows -> Row]
    /\ DOMAIN files \subseteq File
    /\ files \in [DOMAIN files -> [size : 0 .. MaxSize, mtime : 0 .. now]]
    /\ executing \subseteq Run
    /\ pc \in {"idle", "files", "history", "rows", "cap"}
    /\ DOMAIN listed \subseteq Run /\ listed \in [DOMAIN listed -> Row]
    /\ IF pc = "cap" THEN todo \subseteq File ELSE todo \subseteq DOMAIN listed
    /\ cutoff \in Int /\ total \in Int
    /\ passStart \in 0 .. now
    /\ faults \in 0 .. MaxFaults

Init ==
    /\ now = 0
    /\ rows = [r \in Run |-> [status |-> "pending", finished |-> NULL, paths |-> FALSE]]
    /\ files = << >> /\ executing = {}
    /\ pc = "idle" /\ listed = << >> /\ todo = {} /\ cutoff = 0 /\ total = 0
    /\ passStart = 0 /\ faults = 0

-----------------------------------------------------------------------------
\* The other actors.

SetRow(r, status, finished, paths) ==
    rows' = [rows EXCEPT ![r] = [status |-> status, finished |-> finished,
                                 paths |-> paths]]

With(f, size) == [g \in DOMAIN files \cup {f} |->
                    IF g = f THEN [size |-> size, mtime |-> now] ELSE files[g]]

Without(S) == [g \in DOMAIN files \ S |-> files[g]]

\* The worker claims the run and calls Execute.
Begin(r) ==
    /\ r \in DOMAIN rows /\ rows[r].status = "pending"
    /\ SetRow(r, "running", NULL, FALSE)
    /\ executing' = executing \cup {r}
    /\ UNCHANGED <<now, files, passVars, faults>>

\* The image is there; Execute opens, and so creates, both files.
OpenFiles(r) ==
    /\ r \in executing /\ ResultOf(r) \notin DOMAIN files
    /\ files' = [g \in DOMAIN files \cup {LogOf(r), ResultOf(r)} |->
                    IF g[2] = r THEN [size |-> 0, mtime |-> now] ELSE files[g]]
    /\ UNCHANGED <<now, rows, executing, passVars, faults>>

\* The container writes to the log, as much as the bound admits.
Output(r) ==
    /\ r \in executing /\ LogOf(r) \in DOMAIN files
    /\ files[LogOf(r)].size < MaxSize
    /\ files' = With(LogOf(r), MaxSize)
    /\ UNCHANGED <<now, rows, executing, passVars, faults>>

\* Execute writes the result, and the worker records the outcome and the paths;
\* for a row that is gone its transaction fails.  ("failed" stands for timeout and
\* cancelled too: the pruner tells apart only success.)
Finish(r, status) ==
    /\ r \in executing /\ ResultOf(r) \in DOMAIN files
    /\ executing' = executing \ {r}
    /\ files' = With(ResultOf(r), 1)
    /\ IF r \in DOMAIN rows THEN SetRow(r, status, now, TRUE) ELSE UNCHANGED rows
    /\ UNCHANGED <<now, passVars, faults>>

\* Execute fails before it starts the container: it returns no paths, not even of
\* files it has opened, and the worker records a failure without them.  (For the
\* pruner a skipped run, or one closed before Execute, is the same.)
FinishWithoutPaths(r) ==
    /\ r \in executing
    /\ executing' = executing \ {r}
    /\ IF r \in DOMAIN rows THEN SetRow(r, "failed", now, FALSE) ELSE UNCHANGED rows
    /\ UNCHANGED <<now, files, passVars, faults>>

\* The due-job loop closes a running row that is past its timeout.
Sweep(r) ==
    /\ r \in DOMAIN rows /\ rows[r].status = "running"
    /\ SetRow(r, "timeout", now, rows[r].paths)
    /\ UNCHANGED <<now, files, executing, passVars, faults>>

\* CancelRun writes what it decided on when the run was not closed yet, and the
\* finished_at it read then.  (A late "cancelled" is no different for the pruner
\* from a late "cancelling": finished_at is NULL.)
Cancel(r) ==
    /\ r \in DOMAIN rows
    /\ SetRow(r, IF rows[r].status = "pending" THEN "cancelled" ELSE "cancelling",
              NULL, rows[r].paths)
    /\ UNCHANGED <<now, files, executing, passVars, faults>>

\* DeleteJob takes the rows of its runs along, and leaves their files.
DeleteJob(r) ==
    /\ r \in DOMAIN rows
    /\ rows' = [q \in DOMAIN rows \ {r} |-> rows[q]]
    /\ UNCHANGED <<now, files, executing, passVars, faults>>

\* The locals of a pass are gone.
PassIsOver ==
    /\ pc' = "idle" /\ listed' = << >> /\ todo' = {}
    /\ cutoff' = 0 /\ total' = 0 /\ passStart' = 0

\* The process ends and starts again: executions and the pass are lost.  It may have
\* been given another log root or another artifact root: the pruner does not touch
\* what is recorded outside of them (cleanManagedPath, pruner.go:313-330).
Crash ==
    /\ faults < MaxFaults /\ faults' = faults + 1
    /\ executing' = {}
    /\ PassIsOver
    /\ \E moved \in SUBSET {"log", "result"} :
         files' = Without({f \in DOMAIN files : f[1] \in moved})
    /\ UNCHANGED <<now, rows>>

\* A pass takes less than a day.
Tick ==
    /\ now < MaxTime /\ (pc = "idle" \/ now = passStart)
    /\ now' = now + 1
    /\ UNCHANGED <<worldVars, passVars, faults>>

-----------------------------------------------------------------------------
\* A pass of the pruner.

TerminalBefore(t) ==
    {r \in DOMAIN rows : /\ rows[r].status \in Terminal
                         /\ rows[r].finished # NULL /\ rows[r].finished < t}

OlderThan(row, days) == days > 0 /\ row.finished # NULL /\ row.finished < now - days

\* The order of the listing: ORDER BY finished_at, id.
Before(table, q, r) ==
    \/ table[q].finished < table[r].finished
    \/ table[q].finished = table[r].finished /\ q < r

\* The first page of S.
FirstPage(S) == {r \in S : Cardinality({q \in S : Before(rows, q, r)}) < PageSize}

\* ListTerminalBefore(now): one page, the oldest rows first.
StartPass ==
    /\ pc = "idle"
    /\ pc' = "files"
    /\ todo' = FirstPage(TerminalBefore(now))
    /\ listed' = [r \in todo' |-> rows[r]]
    /\ passStart' = now
    /\ UNCHANGED <<now, worldVars, cutoff, total, faults>>

InOrder(r) == r \in todo /\ \A q \in todo \ {r} : Before(listed, r, q)

\* Variant with a bug: the paths are derived from the ids.
FilesOf_Guessed(r) == {LogOf(r), ResultOf(r)} \cap DOMAIN files

\* The files of a listed row: those whose paths were recorded when it was listed, and
\* which are under the roots.
FilesOf(r) == IF listed[r].paths THEN {LogOf(r), ResultOf(r)} \cap DOMAIN files ELSE {}

\* The files of r that pruneRunFiles deletes.
Expired(r) ==
    LET logDays == IF listed[r].status = "success" THEN SuccessLogDays ELSE FailedLogDays
    IN {f \in FilesOf(r) :
            OlderThan(listed[r], IF f = LogOf(r) THEN logDays ELSE ArtifactDays)}

\* What is left of a log above the limit.
Truncated(r) ==
    [f \in DOMAIN Without(Expired(r)) |->
        IF /\ f = LogOf(r) /\ f \in FilesOf(r)
           /\ MaxLogBytesPerRun > 0 /\ files[f].size > MaxLogBytesPerRun
        THEN [size |-> MaxLogBytesPerRun, mtime |-> now]
        ELSE files[f]]

PruneRunFiles(r) ==
    /\ pc = "files" /\ InOrder(r)
    /\ files' = Truncated(r)
    /\ todo' = todo \ {r}
    /\ UNCHANGED <<now, rows, executing, pc, listed, cutoff, total, passStart, faults>>

\* The files are pruned; the history limit, if there is one, is next.
StartHistory ==
    /\ pc = "files" /\ todo = {}
    /\ cutoff' = now - RunHistoryDays
    /\ IF RunHistoryDays > 0
       THEN /\ pc' = "history"
            /\ todo' = {r \in DOMAIN listed : listed[r].finished < cutoff'}
       ELSE pc' = "rows" /\ UNCHANGED todo
    /\ UNCHANGED <<now, worldVars, listed, total, passStart, faults>>

\* Variant with a bug: artifacts are left to their own age limit.
RemoveAllRunFiles_LogOnly(r) ==
    /\ pc = "history" /\ InOrder(r)
    /\ files' = Without(FilesOf(r) \ {ResultOf(r)})
    /\ todo' = todo \ {r}
    /\ UNCHANGED <<now, rows, executing, pc, listed, cutoff, total, passStart, faults>>

RemoveAllRunFiles(r) ==
    /\ pc = "history" /\ InOrder(r)
    /\ files' = Without(FilesOf(r))
    /\ todo' = todo \ {r}
    /\ UNCHANGED <<now, rows, executing, pc, listed, cutoff, total, passStart, faults>>

\* DeleteTerminalBefore(cutoff) looks at the rows anew.
DeleteRows ==
    /\ pc = "history" /\ todo = {}
    /\ rows' = [r \in DOMAIN rows \ TerminalBefore(cutoff) |-> rows[r]]
    /\ pc' = "rows"
    /\ UNCHANGED <<now, files, executing, listed, todo, cutoff, total, passStart, faults>>

\* managedStorageBytes: every byte of a file under the roots counts.
Bytes == UNION {{f} \X (1 .. files[f].size) : f \in DOMAIN files}

Storage == Cardinality(Bytes)

Capped == MaxTotalStorageBytes > 0 /\ Storage > MaxTotalStorageBytes

\* enforceTotalStorage; only the files of listed rows can be removed.
StartCap ==
    /\ pc = "rows" /\ Capped
    /\ pc' = "cap" /\ total' = Storage
    /\ todo' = UNION {FilesOf(r) : r \in DOMAIN listed}
    /\ UNCHANGED <<now, worldVars, listed, cutoff, passStart, faults>>

\* Variant with a bug: what was removed is not subtracted.
RemoveOldest_KeepsTotal(f) ==
    /\ pc = "cap" /\ total > MaxTotalStorageBytes
    /\ f \in todo /\ \A g \in todo : files[f].mtime <= files[g].mtime
    /\ files' = Without({f})
    /\ todo' = todo \ {f}
    /\ UNCHANGED <<now, rows, executing, pc, listed, cutoff, total, passStart, faults>>

\* The oldest file goes first (the rest of the order is that of the paths).
RemoveOldest(f) ==
    /\ pc = "cap" /\ total > MaxTotalStorageBytes
    /\ f \in todo /\ \A g \in todo : files[f].mtime <= files[g].mtime
    /\ files' = Without({f})
    /\ total' = total - files[f].size
    /\ todo' = todo \ {f}
    /\ UNCHANGED <<now, rows, executing, pc, listed, cutoff, passStart, faults>>

\* Variant with a bug: a pass that stops early leaves its list behind.
EndPass_KeepsTodo ==
    /\ \/ pc = "rows" /\ ~Capped
       \/ pc = "cap" /\ (todo = {} \/ total <= MaxTotalStorageBytes)
    /\ pc' = "idle" /\ listed' = << >>
    /\ UNCHANGED <<now, worldVars, todo, cutoff, total, passStart, faults>>

\* Both phases come to an end, or the cap is not exceeded in the first place.
EndPass ==
    /\ \/ pc = "rows" /\ ~Capped
       \/ pc = "cap" /\ (todo = {} \/ total <= MaxTotalStorageBytes)
    /\ PassIsOver
    /\ UNCHANGED <<now, worldVars, faults>>

\* A file or store operation fails, or the context is cancelled: Run returns.
PassFails ==
    /\ pc # "idle"
    /\ faults < MaxFaults /\ faults' = faults + 1
    /\ PassIsOver
    /\ UNCHANGED <<now, worldVars>>

PassStep ==
    \/ StartHistory \/ DeleteRows \/ StartCap \/ EndPass
    \/ \E r \in todo : PruneRunFiles(r)
    \/ \E r \in todo : RemoveAllRunFiles(r)
    \/ \E f \in todo : RemoveOldest(f)

WorldStep ==
    \/ \E r \in Run : Begin(r) \/ OpenFiles(r) \/ Output(r) \/ Sweep(r) \/ Cancel(r) \/ DeleteJob(r)
    \/ \E r \in Run : FinishWithoutPaths(r)
    \/ \E r \in Run, status \in {"success", "failed"} : Finish(r, status)
    \/ Crash

Next == Tick \/ WorldStep \/ StartPass \/ PassStep \/ PassFails

Spec == Init /\ [][Next]_vars

-----------------------------------------------------------------------------
(***************************************************************************)
(* Safety.                                                                 *)
(***************************************************************************)

\* A file that an executor may still have open is neither removed nor
\* truncated, although a run can be closed (swept, cancelled) while it
\* executes: its paths are recorded only with its outcome.
OpenFilesAreLeftAlone ==
    [][passVars' # passVars =>
          \A f \in DOMAIN files :
              f[2] \in executing \cap executing' =>
                  f \in DOMAIN files' /\ files'[f].size >= files[f].size]_vars

\* The rows that the history limit deletes are looked up anew, after the files
\* of the listed ones were removed.  Still no file is left without the row that
\* names it, whatever finished, was cancelled or was swept in between, as long as
\* the page of the listing holds every completed run.  (Those that a change of the
\* roots has put outside of them, pruner.go:217-220, do lose it, and are not in `files`.)
NoFileLosesItsRow ==
    [][pc = "history" /\ pc' = "rows" =>
          \A r \in DOMAIN rows \ DOMAIN rows' :
              rows[r].paths => {LogOf(r), ResultOf(r)} \cap DOMAIN files = {}]_vars

\* The cap takes no file in vain: whatever is written meanwhile, the storage is
\* over the cap whenever a further file is removed for it.
OnlyAboveCap ==
    [][pc = "cap" /\ pc' = "cap" /\ files' # files /\ todo' # todo =>
          Storage > MaxTotalStorageBytes]_vars

(***************************************************************************)
(* What the documentation says and the code does not do.                   *)
(***************************************************************************)

\* README.md:225: log files of failed, timed out and cancelled completed runs
\* older than failed_log_days are deleted.  A run that failed before its container
\* started, or whose process ended and that the sweep closed later, has a log file
\* and no log_path: no pass ever finds it.
ExpiredLogsGo ==
    [][pc = "files" /\ pc' \notin {"files", "idle"} =>
          \A r \in DOMAIN listed \ executing :
              listed[r].status # "success" /\ OlderThan(listed[r], FailedLogDays) =>
                  LogOf(r) \notin DOMAIN files]_vars
=============================================================================
