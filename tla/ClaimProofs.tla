---------------------------- MODULE ClaimProofs ----------------------------
(***************************************************************************)
(* Claims of runs are exclusive: ExclusiveInv is inductive, and with it no *)
(* run is executed twice or becomes pending again.  ClaimInv is inductive  *)
(* as long as only the actors of Dispatch write the rows.                  *)
(***************************************************************************)
EXTENDS DispatchProofs

\* What the proof needs to know of the types.
LEMMA Types ==
    TypeInv => /\ pc \in [Worker -> WorkerState]
               /\ target \in [Worker -> 0 .. lastRunId]
               /\ \A w \in Worker : pc[w] # "idle" => target[w] \in 1 .. lastRunId
               /\ lastRunId \in Nat
               /\ DOMAIN runs \subseteq 1 .. lastRunId
               /\ executed \subseteq 1 .. lastRunId
               /\ \A w \in Worker :
                     outcome[w] \in {"none", "success", "timeout", "failed"}
BY DEF TypeInv, TypeOK, StoreTypeOK, ControlTypeOK, NoRun

\* A quiet step: goroutines hold only what they held, and no row becomes pending.
QuietWorkers ==
    \A w \in Worker :
        /\ Holding(w)' => Holding(w) /\ target'[w] = target[w]
        /\ pc'[w] = "check" => pc[w] = "check"
        /\ Executing(w)' => Executing(w)

NonePending ==
    \A r \in DOMAIN runs' :
        IF r \in DOMAIN runs
        THEN runs'[r].status = "pending" => runs[r].status = "pending"
        ELSE r > lastRunId

LEMMA QuietKeepsExclusive ==
    ASSUME TypeInv, ExclusiveInv, QuietWorkers, NonePending, executed' = executed
    PROVE  ExclusiveInv'
<1>1. \A w \in Worker : Holding(w) => target[w] \in 1 .. lastRunId
  BY Types DEF Holding
<1>2. \A v, w \in Worker :
        (Holding(v) /\ Holding(w) /\ target[v] = target[w])' => v = w
  BY DEF ExclusiveInv, QuietWorkers
<1>3. \A w \in Worker : (Holding(w) => ~HasStatus(target[w], {"pending"}))'
  BY <1>1, Types DEF ExclusiveInv, QuietWorkers, NonePending, HasStatus
<1>4. \A w \in Worker : (pc[w] = "check" => target[w] \notin executed)'
  BY DEF ExclusiveInv, QuietWorkers, Holding
<1>5. \A w \in Worker : (Executing(w) => target[w] \in executed)'
  BY DEF ExclusiveInv, QuietWorkers, Holding, Executing
<1>6. (executed \cap Pending = {})'
  <2> SUFFICES ASSUME NEW r \in executed, r \in DOMAIN runs', runs'[r].status = "pending"
               PROVE  FALSE
    BY DEF Pending
  <2>1. r \in 1 .. lastRunId /\ lastRunId \in Nat
    BY Types
  <2>2. r \in DOMAIN runs /\ runs[r].status = "pending"
    BY <2>1 DEF NonePending
  <2>. QED  BY <2>2 DEF ExclusiveInv, Pending
<1>. QED  BY <1>2, <1>3, <1>4, <1>5, <1>6 DEF ExclusiveInv

\* It is quiet for ClaimInv, too, if no result is written into a row that is held.
QuietRows ==
    \A r \in DOMAIN runs' :
        IF r \in DOMAIN runs
        THEN \/ runs'[r].status = runs[r].status
             \/ runs'[r].status \in {"cancelling", "cancelled"}
             \/ /\ runs'[r].status \in {"success", "failed", "timeout"}
                /\ \A w \in Worker : Holding(w)' => target'[w] # r
        ELSE r > lastRunId

Quiet == QuietWorkers /\ QuietRows /\ executed' = executed

LEMMA QuietIsExclusive == TypeInv /\ ExclusiveInv /\ Quiet => NonePending /\ ExclusiveInv'
<1>1. QuietRows => NonePending
  BY DEF QuietRows, NonePending
<1>. QED  BY <1>1, QuietKeepsExclusive DEF Quiet

LEMMA QuietStep ==
    ASSUME TypeInv, ClaimInv, Quiet
    PROVE  ClaimInv'
<1>1. \A w \in Worker : Holding(w) => target[w] \in 1 .. lastRunId
  BY Types DEF Holding
<1>2. \A w \in Worker :
        (Holding(w) /\ target[w] \in DOMAIN runs)' =>
            runs'[target'[w]].status \in {"running", "cancelling", "cancelled"}
  BY <1>1, Types DEF ClaimInv, Quiet, QuietWorkers, QuietRows
<1>. QED  BY <1>2, QuietIsExclusive DEF ClaimInv

\* What a status written together with its event does to the rows.
LEMMA WritesRow ==
    ASSUME TypeInv, NEW r, NEW st \in RunStatus, NEW f \in BOOLEAN, NEW e \in EventType,
           runs' = AddEvent(UpdateStatus(runs, r, st, f), r, e)
    PROVE  /\ DOMAIN runs' = DOMAIN runs
           /\ \A q \in DOMAIN runs :
                 runs'[q].status = IF q = r THEN st ELSE runs[q].status
BY ClosesRow

LEMMA InitClaims == Init => ClaimInv
BY DEF Init, ClaimInv, ExclusiveInv, Holding, Executing, Pending

\* The dispatch loop claims nothing: a goroutine starts at "load".
LEMMA LoopQuiet == TypeInv /\ LoopNext => Quiet
<1> SUFFICES ASSUME TypeInv, LoopNext PROVE Quiet
  OBVIOUS
<1>1. QuietRows /\ executed' = executed
  BY DEF LoopNext, StartLoops, RecoverOrphansFails, DispatchTick, DispatchWake,
         StopLoop, Scan, ScanFails, AbandonBatch, Spawn, storeVars, QuietRows
<1>2. QuietWorkers
  <2>1. CASE UNCHANGED workerVars
    BY <2>1 DEF workerVars, QuietWorkers, Holding, Executing
  <2>2. ASSUME NEW w \in Worker, NEW r \in batch, Spawn(r, w) PROVE QuietWorkers
    BY <2>2, Types DEF Spawn, QuietWorkers, Holding, Executing
  <2>. QED
    BY <2>1, <2>2 DEF LoopNext, StartLoops, RecoverOrphansFails, DispatchTick,
       DispatchWake, StopLoop, Scan, ScanFails, AbandonBatch
<1>. QED  BY <1>1, <1>2 DEF Quiet

LEMMA ApiQuiet == TypeInv /\ ApiNext => Quiet
<1> SUFFICES ASSUME TypeInv, ApiNext PROVE Quiet
  OBVIOUS
<1>1. UNCHANGED <<pc, target>> /\ executed' = executed
  BY DEF ApiNext, TriggerJob, UpdateJob, DeleteJob, CancelRead, CancelWrite, workerVars
<1>2. QuietWorkers
  BY <1>1 DEF QuietWorkers, Holding, Executing
<1>3. ASSUME UNCHANGED runs PROVE QuietRows
  BY <1>3 DEF QuietRows
<1>4. ASSUME NEW j \in Job, NEW s \in Time, TriggerJob(j, s) PROVE QuietRows
  <2>1. lastRunId \in Nat /\ DOMAIN runs \subseteq 1 .. lastRunId
    BY Types
  <2>. QED  BY <1>4, <2>1 DEF TriggerJob, Inserted, QuietRows
<1>5. ASSUME NEW j \in Job, DeleteJob(j) PROVE QuietRows
  BY <1>5 DEF DeleteJob, DeleteJobRow, QuietRows
<1>6. ASSUME NEW c \in Client, CancelWrite(c) PROVE QuietRows
  <2>1. request[c].write \in {"cancelled", "cancelling"} /\ request[c].finished \in BOOLEAN
    BY <1>6 DEF CancelWrite, CancelRequest, TypeInv, TypeOK, ControlTypeOK
  <2>2. request[c].write \in RunStatus
    BY <2>1 DEF RunStatus
  <2>3. IsTable(runs, lastRunId) /\ lastRunId \in Nat
    BY StoreIsTable DEF TypeInv, TypeOK
  <2>4. /\ DOMAIN runs' = DOMAIN runs
        /\ \A q \in DOMAIN runs : IF q = request[c].run
              THEN runs'[q].status = request[c].write ELSE runs'[q] = runs[q]
    BY <1>6, <2>1, <2>2, <2>3, UpdateStatusType DEF CancelWrite
  <2>. QED  BY <2>1, <2>4 DEF QuietRows
<1>7. QuietRows
  BY <1>3, <1>4, <1>5, <1>6 DEF ApiNext, UpdateJob, CancelRead, storeVars
<1>. QED  BY <1>1, <1>2, <1>7 DEF Quiet

LEMMA ProcessQuiet == TypeInv /\ ProcessNext => Quiet
<1> SUFFICES ASSUME TypeInv, ProcessNext PROVE Quiet
  OBVIOUS
<1>1. UNCHANGED runs /\ executed' = executed
  BY DEF ProcessNext, Shutdown, Crash, MainReturns, ProcessEnds, Restart, storeVars
<1>2. QuietRows
  BY <1>1 DEF QuietRows
<1>3. QuietWorkers
  BY DEF ProcessNext, Shutdown, Crash, MainReturns, ProcessEnds, Restart,
     workerVars, QuietWorkers, Holding, Executing
<1>. QED  BY <1>1, <1>2, <1>3 DEF Quiet

\* Rows that retention deletes take nothing from the goroutines.
LEMMA RetentionQuiet == TypeInv /\ RetentionNext => Quiet
<1>1. RetentionNext => UNCHANGED <<pc, target, executed>> /\ QuietRows
  BY DEF RetentionNext, DeleteTerminalBefore, workerVars, QuietRows
<1>. QED  BY <1>1 DEF Quiet, QuietWorkers, Holding, Executing

\* A goroutine that moves to s keeps every other goroutine where it is.
LEMMA Moves ==
    ASSUME TypeInv, NEW w \in Worker, NEW s, Goto(w, s)
    PROVE  /\ pc'[w] = s
           /\ \A v \in Worker \ {w} : pc'[v] = pc[v]
BY Types DEF Goto

\* Steps by which w lets go of its run, keeps it, or has none.
LEMMA QuietMove ==
    ASSUME TypeInv, NEW w \in Worker, NEW s, Goto(w, s), UNCHANGED target,
           \/ s \in {"idle", "start", "signal", "release"}
           \/ s = "final" /\ pc[w] = "exec"
    PROVE  QuietWorkers
BY Moves DEF QuietWorkers, Holding, Executing

\* All steps of a goroutine are quiet but the claim and the call of Execute.
LEMMA WorkerQuiet ==
    ASSUME NEW w \in Worker, TypeInv, ExclusiveInv, WorkerNext(w), ~ClaimRun(w), ~Execute(w)
    PROVE  Quiet
<1>1. CASE LoadRun(w) \/ LoadFails(w) \/ LeaveUnclaimed(w) \/ StartTxFails(w)
           \/ FinalizeTxFails(w) \/ SignalDispatch(w)
  <2>1. QuietRows /\ executed' = executed
    BY <1>1 DEF LoadRun, LoadFails, LeaveUnclaimed, StartTxFails, FinalizeTxFails,
       SignalDispatch, storeVars, QuietRows
  <2>2. QuietWorkers
    BY <1>1, QuietMove DEF LoadRun, LoadFails, LeaveUnclaimed, StartTxFails,
       FinalizeTxFails, SignalDispatch
  <2>. QED  BY <2>1, <2>2 DEF Quiet
<1>2. ASSUME NEW how, ExecuteReturns(w, how) PROVE Quiet
  <2>1. QuietRows /\ executed' = executed
    BY <1>2 DEF ExecuteReturns, storeVars, QuietRows
  <2>2. QuietWorkers
    BY <1>2, QuietMove DEF ExecuteReturns
  <2>. QED  BY <2>1, <2>2 DEF Quiet
<1>3. CASE ReleaseToken(w)
  <2>1. QuietRows /\ executed' = executed
    BY <1>3 DEF ReleaseToken, storeVars, QuietRows
  <2>2. QuietWorkers
    BY <1>3, Moves, Types DEF ReleaseToken, QuietWorkers, Holding, Executing
  <2>. QED  BY <2>1, <2>2 DEF Quiet
<1>4. CASE CloseCancelling(w) \/ CloseClaimed(w)
  <2>1. QuietWorkers /\ executed' = executed
    BY <1>4, QuietMove DEF CloseCancelling, CloseClaimed
  <2>2. QuietRows
    <3>1. CASE UNCHANGED runs
      BY <3>1 DEF QuietRows
    <3>2. CASE runs' = AddEvent(UpdateStatus(runs, target[w], "cancelled", TRUE),
                                target[w], "cancelled")
      BY <3>2, WritesRow DEF QuietRows, RunStatus, EventType
    <3>. QED  BY <1>4, <3>1, <3>2 DEF CloseCancelling, CloseClaimed
  <2>. QED  BY <2>1, <2>2 DEF Quiet
\* The outcome is written by the only goroutine that holds the run.
<1>5. CASE FinalizeRun(w)
  <2>1. pc[w] = "final" /\ UNCHANGED <<target, executed>> /\ target[w] \in DOMAIN runs
    BY <1>5 DEF FinalizeRun
  <2>2. pc'[w] = "signal" /\ \A v \in Worker \ {w} : pc'[v] = pc[v]
    BY <1>5, Moves DEF FinalizeRun
  <2>3. QuietWorkers
    BY <1>5, QuietMove DEF FinalizeRun
  <2>4. \A v \in Worker : Holding(v)' => target'[v] # target[w]
    BY <2>1, <2>2 DEF ExclusiveInv, Holding
  <2>5. Verdict(w).status \in {"success", "failed", "timeout", "cancelled"}
    BY DEF Verdict
  <2>6. /\ DOMAIN Closed(w) = DOMAIN runs
        /\ \A q \in DOMAIN runs : IF q = target[w]
              THEN Closed(w)[q].status = Verdict(w).status
              ELSE Closed(w)[q] = runs[q]
    BY ClosedRow
  <2>7. QuietRows
    <3>1. ASSUME runs' = Closed(w) PROVE QuietRows
      BY <2>4, <2>5, <2>6, <3>1 DEF QuietRows
    <3>2. ASSUME runs' = Inserted(Closed(w), lastRunId + 1, RetryRow(w)) PROVE QuietRows
      <4>1. lastRunId \in Nat /\ DOMAIN runs \subseteq 1 .. lastRunId
        BY Types
      <4>2. /\ DOMAIN runs' = DOMAIN runs \cup {lastRunId + 1}
            /\ \A q \in DOMAIN runs : runs'[q] = Closed(w)[q]
        BY <2>6, <3>2, <4>1 DEF Inserted
      <4>. QED  BY <2>4, <2>5, <2>6, <4>1, <4>2 DEF QuietRows
    <3>. QED  BY <1>5, <3>1, <3>2 DEF FinalizeRun
  <2>. QED  BY <2>1, <2>3, <2>7 DEF Quiet
<1>. QED
  BY <1>1, <1>2, <1>3, <1>4, <1>5 DEF WorkerNext

\* What the claim does: the row was pending, so nobody held or executed the run.
LEMMA ClaimStepFacts ==
    ASSUME NEW w \in Worker, TypeInv, ExclusiveInv, ClaimRun(w)
    PROVE  /\ target[w] \in DOMAIN runs /\ runs[target[w]].status = "pending"
           /\ UNCHANGED <<target, executed>>
           /\ DOMAIN runs' = DOMAIN runs
           /\ \A q \in DOMAIN runs :
                 runs'[q].status = IF q = target[w] THEN "running" ELSE runs[q].status
           /\ pc'[w] = "check" /\ \A v \in Worker \ {w} : pc'[v] = pc[v]
           /\ \A v \in Worker : Holding(v) => target[v] # target[w]
           /\ target[w] \notin executed
<1>1. /\ target[w] \in DOMAIN runs /\ runs[target[w]].status = "pending"
      /\ UNCHANGED <<target, executed>>
  BY DEF ClaimRun, Claimable, HasStatus, workerVars
<1>2. /\ DOMAIN runs' = DOMAIN runs
      /\ \A q \in DOMAIN runs :
            runs'[q].status = IF q = target[w] THEN "running" ELSE runs[q].status
  <2>1. runs[target[w]].finished \in BOOLEAN
    BY <1>1 DEF TypeInv, TypeOK, StoreTypeOK, RunRow
  <2>. QED  BY <2>1, WritesRow DEF ClaimRun, ClaimPending, RunStatus, EventType
<1>3. pc'[w] = "check" /\ \A v \in Worker \ {w} : pc'[v] = pc[v]
  BY Moves DEF ClaimRun
<1>4. \A v \in Worker : Holding(v) => target[v] # target[w]
  BY <1>1 DEF ExclusiveInv, HasStatus
<1>5. target[w] \notin executed
  BY <1>1 DEF ExclusiveInv, Pending
<1>. QED  BY <1>1, <1>2, <1>3, <1>4, <1>5

LEMMA ExecuteStepFacts ==
    ASSUME NEW w \in Worker, TypeInv, Execute(w)
    PROVE  /\ pc[w] = "check" /\ UNCHANGED <<target, runs, lastRunId>>
           /\ executed' = executed \cup {target[w]}
           /\ pc'[w] = "exec" /\ \A v \in Worker \ {w} : pc'[v] = pc[v]
BY Moves DEF Execute, storeVars

\* The two steps that are not quiet keep claims exclusive.
LEMMA ClaimExclusive ==
    ASSUME NEW w \in Worker, TypeInv, ExclusiveInv, ClaimRun(w) PROVE ExclusiveInv'
<1>1. \A u, v \in Worker : (Holding(u) /\ Holding(v) /\ target[u] = target[v])' => u = v
  BY ClaimStepFacts DEF ExclusiveInv, Holding
<1>2. \A v \in Worker : (Holding(v) => ~HasStatus(target[v], {"pending"}))'
  BY ClaimStepFacts DEF ExclusiveInv, Holding, HasStatus
<1>3. \A v \in Worker : /\ (pc[v] = "check" => target[v] \notin executed)'
                        /\ (Executing(v) => target[v] \in executed)'
  BY ClaimStepFacts DEF ExclusiveInv, Executing
<1>4. (executed \cap Pending = {})'
  BY ClaimStepFacts DEF ExclusiveInv, Pending
<1>. QED  BY <1>1, <1>2, <1>3, <1>4 DEF ExclusiveInv

LEMMA ExecuteExclusive ==
    ASSUME NEW w \in Worker, TypeInv, ExclusiveInv, Execute(w) PROVE ExclusiveInv'
<1>1. \A u, v \in Worker : (Holding(u) /\ Holding(v) /\ target[u] = target[v])' => u = v
  BY ExecuteStepFacts DEF ExclusiveInv, Holding
<1>2. \A v \in Worker : (Holding(v) => ~HasStatus(target[v], {"pending"}))'
  BY ExecuteStepFacts DEF ExclusiveInv, Holding, HasStatus
<1>3. \A v \in Worker : (pc[v] = "check" => target[v] \notin executed)'
  BY ExecuteStepFacts DEF ExclusiveInv, Holding
<1>4. \A v \in Worker : (Executing(v) => target[v] \in executed)'
  BY ExecuteStepFacts DEF ExclusiveInv, Executing
<1>5. (executed \cap Pending = {})'
  BY ExecuteStepFacts DEF ExclusiveInv, Holding, HasStatus, Pending
<1>. QED  BY <1>1, <1>2, <1>3, <1>4, <1>5 DEF ExclusiveInv

LEMMA WorkerClaims ==
    ASSUME NEW w \in Worker, TypeInv, ClaimInv, WorkerNext(w) PROVE ClaimInv'
<1>1. CASE ClaimRun(w)
  <2>1. \A v \in Worker : (Holding(v) /\ target[v] \in DOMAIN runs)' =>
            runs'[target'[v]].status \in {"running", "cancelling", "cancelled"}
    BY <1>1, ClaimStepFacts DEF ClaimInv, Holding
  <2>. QED  BY <1>1, <2>1, ClaimExclusive DEF ClaimInv
<1>2. CASE Execute(w)
  <2>1. \A v \in Worker : (Holding(v) /\ target[v] \in DOMAIN runs)' =>
            runs'[target'[v]].status \in {"running", "cancelling", "cancelled"}
    BY <1>2, ExecuteStepFacts DEF ClaimInv, Holding
  <2>. QED  BY <1>2, <2>1, ExecuteExclusive DEF ClaimInv
<1>. QED
  BY <1>1, <1>2, WorkerQuiet, QuietStep DEF ClaimInv

\* Exclusivity needs no more than itself.
LEMMA NextExclusive == TypeInv /\ ExclusiveInv /\ [Next]_vars => ExclusiveInv'
<1>1. ASSUME ExclusiveInv, UNCHANGED vars PROVE ExclusiveInv'
  BY <1>1 DEF ExclusiveInv, Holding, HasStatus, Executing, Pending, vars, storeVars, workerVars
<1>2. ASSUME NEW w \in Worker, TypeInv, ExclusiveInv, WorkerNext(w) PROVE ExclusiveInv'
  BY <1>2, ClaimExclusive, ExecuteExclusive, WorkerQuiet, QuietIsExclusive
<1>. QED
  BY <1>1, <1>2, LoopQuiet, ApiQuiet, RetentionQuiet, ProcessQuiet, QuietIsExclusive DEF Next

LEMMA NextClaims == TypeInv /\ ClaimInv /\ [Next]_vars => ClaimInv'
<1>1. ASSUME ClaimInv, UNCHANGED vars PROVE ClaimInv'
  BY <1>1, NextExclusive DEF ClaimInv, ExclusiveInv, Holding, HasStatus, Executing, Pending,
     vars, storeVars, workerVars
<1>. QED
  BY <1>1, LoopQuiet, ApiQuiet, RetentionQuiet, ProcessQuiet, QuietStep, WorkerClaims DEF Next

-----------------------------------------------------------------------------

\* Claims are exclusive in every reachable state: runWorker's transaction hands
\* a run to one goroutine, whatever cancellations, rollbacks and restarts do.
THEOREM ClaimsExclusive == Spec => []ClaimInv
BY InitClaims, NextClaims, TypeInvariant, PTL DEF Spec

\* A goroutine calls Execute only for a run it claimed and nobody executed.
LEMMA ExecutesFresh ==
    ASSUME TypeInv, ExclusiveInv, Next, NEW w \in Worker, pc[w] # "exec", pc'[w] = "exec"
    PROVE  target[w] \notin executed
<1>1. pc[w] = "check"
  <2>1. CASE LoopNext
    BY <2>1, Types DEF LoopNext, StartLoops, RecoverOrphansFails, DispatchTick,
       DispatchWake, StopLoop, Scan, ScanFails, AbandonBatch, Spawn, workerVars
  <2>2. CASE ApiNext
    BY <2>2 DEF ApiNext, TriggerJob, UpdateJob, DeleteJob, CancelRead,
       CancelWrite, workerVars
  <2>3. CASE ProcessNext
    BY <2>3 DEF ProcessNext, Shutdown, Crash, MainReturns, ProcessEnds, Restart,
       workerVars
  <2>4. ASSUME NEW v \in Worker, WorkerNext(v) PROVE pc[w] = "check"
    BY <2>4, Types DEF WorkerNext, LoadRun, LoadFails, ClaimRun, CloseCancelling,
       LeaveUnclaimed, StartTxFails, CloseClaimed, Execute, ExecuteReturns,
       FinalizeRun, FinalizeTxFails, SignalDispatch, ReleaseToken, Goto
  <2>5. CASE RetentionNext
    BY <2>5 DEF RetentionNext, DeleteTerminalBefore, workerVars
  <2>. QED  BY <2>1, <2>2, <2>3, <2>4, <2>5 DEF Next
<1>. QED  BY <1>1 DEF ExclusiveInv

\* No step makes a row pending that was not: the quiet ones by definition, and a
\* claim writes "running".
LEMMA NextNonePending == TypeInv /\ ExclusiveInv /\ Next => NonePending
<1> SUFFICES ASSUME TypeInv, ExclusiveInv, Next PROVE NonePending
  OBVIOUS
<1>1. ASSUME NEW w \in Worker, ClaimRun(w) PROVE NonePending
  BY <1>1, ClaimStepFacts DEF NonePending
<1>2. ASSUME NEW w \in Worker, Execute(w) PROVE NonePending
  BY <1>2, ExecuteStepFacts DEF NonePending
<1>. QED
  BY <1>1, <1>2, LoopQuiet, ApiQuiet, RetentionQuiet, ProcessQuiet, WorkerQuiet,
     QuietIsExclusive DEF Next

\* Execute is called at most once for a run, restarts included.
THEOREM ExecutesOnce == Spec => ExecutedOnce
<1> DEFINE Once == \A w \in Worker :
                      pc[w] # "exec" /\ pc'[w] = "exec" => target[w] \notin executed
<1>1. TypeInv /\ ClaimInv /\ [Next]_vars => [Once]_vars
  BY ExecutesFresh DEF ClaimInv
<1>. QED  BY <1>1, TypeInvariant, ClaimsExclusive, PTL DEF Spec, ExecutedOnce

\* A run that was claimed or closed never becomes pending again: neither a late
\* cancellation nor an outcome nor a restart hands it to dispatch a second time.
THEOREM NeverRequeued == Spec => NeverPendingAgain
<1> DEFINE Kept == \A r \in DOMAIN runs \cap DOMAIN runs' :
                      runs'[r].status = "pending" => runs[r].status = "pending"
<1>1. TypeInv /\ ClaimInv /\ [Next]_vars => [Kept]_vars
  BY NextNonePending DEF ClaimInv, NonePending
<1>. QED  BY <1>1, TypeInvariant, ClaimsExclusive, PTL DEF Spec, NeverPendingAgain
=============================================================================
