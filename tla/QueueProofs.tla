---------------------------- MODULE QueueProofs ----------------------------
(***************************************************************************)
(* Dispatch is a bounded queue.  The token channel counts the live         *)
(* goroutines exactly, and the dispatch loop never lists more runs than it *)
(* has tokens for; with that and exclusive claims every step of Dispatch,  *)
(* seen through its mapping to RunQueue, submits a run, begins an          *)
(* execution, ends one with a retry, or drops runs.                        *)
(***************************************************************************)
EXTENDS ClaimProofs

TokenInv == TokensAreWorkers /\ BatchFits

LEMMA BusyIsFinite ==
    IsFiniteSet(Busy) /\ IsFiniteSet(Busy') /\ Cardinality(Busy) \in Nat
<1>1. IsFiniteSet(Worker) /\ Busy \subseteq Worker /\ Busy' \subseteq Worker
  BY DispatchAssumption DEF Busy
<1>. QED  BY <1>1, FS_Subset, FS_CardinalityType

LEMMA BatchIsFinite == TypeInv => IsFiniteSet(batch) /\ Cardinality(batch) \in Nat
<1> SUFFICES ASSUME TypeInv PROVE IsFiniteSet(batch) /\ Cardinality(batch) \in Nat
  OBVIOUS
<1>1. batch \subseteq 1 .. lastRunId /\ lastRunId \in Int
  BY DEF TypeInv, TypeOK, StoreTypeOK, ControlTypeOK
<1>2. IsFiniteSet(1 .. lastRunId)
  <2>1. 1 \in Int
    OBVIOUS
  <2>. QED  BY <1>1, <2>1, FS_Interval, Zenon
<1>. QED  BY <1>1, <1>2, FS_Subset, FS_CardinalityType

LEMMA InitTokens == Init => TokenInv
<1> SUFFICES ASSUME Init PROVE TokenInv
  OBVIOUS
<1>1. Busy = {} /\ batch = {} /\ tokens = 0
  BY DEF Init, Busy
<1>. QED
  BY <1>1, FS_EmptySet, DispatchAssumption DEF TokenInv, TokensAreWorkers,
     BatchFits, Available

\* Steps that start or end no goroutine and hand out no run.
LEMMA KeepsTokens ==
    ASSUME TokenInv, UNCHANGED <<tokens, batch>>, Busy' = Busy
    PROVE  TokenInv'
BY DEF TokenInv, TokensAreWorkers, BatchFits, Available

\* The process ends, or its context is cancelled before the batch is used up.
LEMMA DropsBatch ==
    ASSUME TokenInv, batch' = {}, tokens' = Cardinality(Busy'),
           tokens' <= MaxConcurrentRuns, tokens' \in Nat
    PROVE  TokenInv'
BY FS_EmptySet, DispatchAssumption DEF TokenInv, TokensAreWorkers, BatchFits, Available

LEMMA LoopTokens == TypeInv /\ TokenInv /\ LoopNext => TokenInv'
<1> SUFFICES ASSUME TypeInv, TokenInv, LoopNext PROVE TokenInv'
  OBVIOUS
<1>1. tokens \in Nat /\ tokens = Cardinality(Busy) /\ tokens <= MaxConcurrentRuns
  BY DEF TypeInv, TypeOK, ControlTypeOK, TokenInv, TokensAreWorkers
<1>2. CASE \/ StartLoops \/ RecoverOrphansFails \/ DispatchTick \/ DispatchWake
           \/ StopLoop \/ ScanFails
  BY <1>2, KeepsTokens DEF StartLoops, RecoverOrphansFails, DispatchTick,
     DispatchWake, StopLoop, ScanFails, workerVars, Busy
<1>3. CASE AbandonBatch
  <2>1. Busy' = Busy /\ tokens' = tokens /\ batch' = {}
    BY <1>3 DEF AbandonBatch, workerVars, Busy
  <2>. QED  BY <1>1, <2>1, DropsBatch
\* The scan lists no more runs than there are free tokens.
<1>4. CASE Scan
  <2>1. Busy' = Busy /\ tokens' = tokens /\ batch' = ScanResult
    BY <1>4 DEF Scan, workerVars, Busy
  <2>2. MaxConcurrentRuns \in Nat /\ Available \in Int
    BY <1>1, DispatchAssumption DEF Available
  <2>3. CASE Available <= 0 \/ ctxDone
    BY <1>1, <2>1, <2>3, DropsBatch DEF ScanResult
  <2>4. CASE ~(Available <= 0 \/ ctxDone)
    <3>1. Available \in Nat
      BY <2>2, <2>4
    <3>2. Cardinality(ListPending(Available)) <= Available
      BY <3>1, ListPendingBound DEF TypeInv, TypeOK
    <3>3. batch' = ListPending(Available) /\ Available' = Available
      BY <2>1, <2>4 DEF ScanResult, Available
    <3>4. BatchFits'
      BY <3>2, <3>3 DEF BatchFits
    <3>. QED  BY <1>1, <2>1, <3>4 DEF TokenInv, TokensAreWorkers
  <2>. QED  BY <2>3, <2>4
\* A run leaves the batch as its goroutine takes a token.
<1>5. ASSUME NEW w \in Worker, NEW r \in batch, Spawn(r, w)
      PROVE  TokenInv'
  <2>1. Busy' = Busy \cup {w} /\ w \notin Busy
    BY <1>5 DEF Spawn, Busy, TypeInv, TypeOK, ControlTypeOK
  <2>2. Cardinality(Busy') = Cardinality(Busy) + 1
    BY <2>1, BusyIsFinite, FS_AddElement
  <2>3. batch' = batch \ {r} /\ tokens' = tokens + 1 /\ tokens < MaxConcurrentRuns
    BY <1>5 DEF Spawn
  <2>4. Cardinality(batch') = Cardinality(batch) - 1
    BY <2>3, BatchIsFinite, FS_RemoveElement
  <2>5. Cardinality(batch) \in Nat /\ MaxConcurrentRuns \in Nat
    BY BatchIsFinite, DispatchAssumption
  <2>. QED
    BY <1>1, <2>2, <2>3, <2>4, <2>5 DEF TokenInv, TokensAreWorkers, BatchFits, Available
<1>. QED  BY <1>2, <1>3, <1>4, <1>5 DEF LoopNext

LEMMA WorkerTokens ==
    ASSUME NEW w \in Worker, TypeInv, TokenInv, WorkerNext(w) PROVE TokenInv'
<1>1. pc \in [Worker -> WorkerState] /\ tokens \in Nat
  BY DEF TypeInv, TypeOK, ControlTypeOK
<1>2. CASE ReleaseToken(w)
  <2>1. Busy' = Busy \ {w} /\ w \in Busy
    BY <1>1, <1>2 DEF ReleaseToken, Goto, Busy
  <2>2. Cardinality(Busy') = Cardinality(Busy) - 1
    BY <2>1, BusyIsFinite, FS_RemoveElement
  <2>3. Cardinality(Busy) > 0
    BY <2>1, BusyIsFinite, FS_EmptySet
  <2>4. tokens = Cardinality(Busy) /\ tokens <= MaxConcurrentRuns
    BY DEF TokenInv, TokensAreWorkers
  <2>5. tokens' = tokens - 1 /\ batch' = batch
    BY <1>2, <2>3, <2>4 DEF ReleaseToken, loopVars
  <2>6. Cardinality(batch) \in Nat /\ MaxConcurrentRuns \in Nat
    BY BatchIsFinite, DispatchAssumption
  <2>. QED
    BY <1>1, <2>2, <2>4, <2>5, <2>6 DEF TokenInv, TokensAreWorkers, BatchFits, Available
<1>3. ASSUME NEW s \in WorkerState \ {"idle"}, Goto(w, s), pc[w] # "idle",
             UNCHANGED <<tokens, loopVars>>
      PROVE  TokenInv'
  <2>1. Busy' = Busy
    BY <1>1, <1>3 DEF Goto, Busy
  <2>. QED  BY <1>3, <2>1, KeepsTokens DEF loopVars
<1>4. CASE \/ LoadRun(w) \/ LoadFails(w) \/ ClaimRun(w) \/ CloseCancelling(w)
           \/ LeaveUnclaimed(w) \/ StartTxFails(w) \/ CloseClaimed(w)
  BY <1>3, <1>4 DEF LoadRun, LoadFails, ClaimRun, CloseCancelling, LeaveUnclaimed,
     StartTxFails, CloseClaimed, WorkerState
<1>5. ASSUME NEW how, ExecuteReturns(w, how) PROVE TokenInv'
  BY <1>3, <1>5 DEF ExecuteReturns, WorkerState
<1>6. CASE Execute(w) \/ FinalizeRun(w) \/ FinalizeTxFails(w) \/ SignalDispatch(w)
  BY <1>3, <1>6 DEF Execute, FinalizeRun, FinalizeTxFails, SignalDispatch, WorkerState
<1>. QED  BY <1>2, <1>4, <1>5, <1>6 DEF WorkerNext

LEMMA NextTokens == TypeInv /\ TokenInv /\ [Next]_vars => TokenInv'
<1> SUFFICES ASSUME TypeInv, TokenInv, [Next]_vars PROVE TokenInv'
  OBVIOUS
<1>1. CASE UNCHANGED vars
  BY <1>1, KeepsTokens DEF vars, loopVars, workerVars, Busy
<1>2. CASE ApiNext \/ RetentionNext
  BY <1>2, KeepsTokens DEF ApiNext, TriggerJob, UpdateJob, DeleteJob, CancelRead,
     CancelWrite, RetentionNext, DeleteTerminalBefore, loopVars, workerVars, Busy
<1>3. CASE Shutdown \/ Restart
  BY <1>3, KeepsTokens DEF Shutdown, Restart, loopVars, workerVars, Busy
<1>4. CASE ProcessEnds
  <2>1. Busy' = {} /\ tokens' = 0 /\ batch' = {}
    BY <1>4 DEF ProcessEnds, Busy
  <2>2. 0 <= MaxConcurrentRuns /\ Cardinality(Busy') = 0
    BY <2>1, FS_EmptySet, DispatchAssumption
  <2>. QED  BY <2>1, <2>2, DropsBatch
<1>. QED
  BY <1>1, <1>2, <1>3, <1>4, LoopTokens, WorkerTokens DEF Next, ProcessNext, Crash,
     MainReturns

LEMMA TokenInvariant == Spec => []TokenInv
BY InitTokens, NextTokens, TypeInvariant, PTL DEF Spec

\* Every goroutine owns one token and no token is lost or invented on any path
\* through runWorker: at most MaxConcurrentRuns goroutines run.
THEOREM TokensExact == Spec => []TokensAreWorkers
<1>1. TokenInv => TokensAreWorkers
  BY DEF TokenInv
<1>. QED  BY <1>1, TokenInvariant, PTL

\* acquireWorkerToken never blocks the dispatch loop: a token is free for every
\* run the scan listed.
THEOREM NeverBlocks == Spec => []BatchFits
<1>1. TokenInv => BatchFits
  BY DEF TokenInv
<1>. QED  BY <1>1, TokenInvariant, PTL

-----------------------------------------------------------------------------

\* The mapping, by name.
Known     == 1 .. lastRunId
Queued    == Pending \cup {target[w] : w \in {v \in Worker : pc[v] = "check"}}
Ongoing  == {target[w] : w \in {v \in Worker : Executing(v)}}

\* What a step of dispatch has to do for each action of the queue.
LEMMA Submits ==
    ASSUME NEW r, r \notin Known, Known' = Known \cup {r}, Queued' = Queued \cup {r},
           Ongoing' = Ongoing
    PROVE  Queue!QueueNext
<1>1. Queue!Submit(r)
  BY DEF Queue!Submit, Known, Queued, Ongoing
<1>2. r \in (1 .. lastRunId)'
  BY DEF Known
<1>. QED  BY <1>1, <1>2 DEF Queue!QueueNext

LEMMA Refuses ==
    ASSUME NEW r, r \notin Known, Known' = Known \cup {r}, Queued' = Queued,
           Ongoing' = Ongoing
    PROVE  Queue!QueueNext
<1>1. Queue!Refuse(r)
  BY DEF Queue!Refuse, Known, Queued, Ongoing
<1>2. r \in (1 .. lastRunId)'
  BY DEF Known
<1>. QED  BY <1>1, <1>2 DEF Queue!QueueNext

LEMMA SameCardinality == ASSUME NEW S PROVE Queue!Cardinality(S) = Cardinality(S)
BY DEF Queue!Cardinality, Cardinality

LEMMA Begins ==
    ASSUME NEW r \in Queued, Cardinality(Ongoing) < MaxConcurrentRuns,
           Queued' = Queued \ {r}, Ongoing' = Ongoing \cup {r}, Known' = Known
    PROVE  Queue!QueueNext
<1>1. Queue!Begin(r)
  BY SameCardinality DEF Queue!Begin, Known, Queued, Ongoing
<1>. QED  BY <1>1 DEF Queue!QueueNext, Queued

LEMMA Drops ==
    ASSUME Queued' \subseteq Queued, Ongoing' \subseteq Ongoing, Known' = Known
    PROVE  Queue!QueueNext
<1>1. PICK d \in SUBSET Queued : Queued' = Queued \ d
  <2>1. Queued' = Queued \ (Queued \ Queued')
    OBVIOUS
  <2>. QED  BY <2>1
<1>2. PICK e \in SUBSET Ongoing : Ongoing' = Ongoing \ e
  <2>1. Ongoing' = Ongoing \ (Ongoing \ Ongoing')
    OBVIOUS
  <2>. QED  BY <2>1
<1>3. Queue!Drop(d, e)
  BY <1>1, <1>2 DEF Queue!Drop, Known, Queued, Ongoing
<1>. QED  BY <1>3 DEF Queue!QueueNext, Queued, Ongoing

LEMMA EndsWithRetry ==
    ASSUME NEW r \in Ongoing, NEW q, q \notin Known, Ongoing' = Ongoing \ {r},
           Known' = Known \cup {q}, Queued' = Queued \cup {q}
    PROVE  Queue!QueueNext
<1>1. Queue!EndWithRetry(r, q)
  BY DEF Queue!EndWithRetry, Known, Queued, Ongoing
<1>2. q \in (1 .. lastRunId)'
  BY DEF Known
<1>. QED  BY <1>1, <1>2 DEF Queue!QueueNext, Ongoing

-----------------------------------------------------------------------------

\* Between a step's guard and its end no more than the tokens execute: goroutines
\* that execute are busy, and so is the one that is about to call Execute.
LEMMA RoomToExecute ==
    ASSUME TypeInv, TokensAreWorkers, NEW w \in Worker, pc[w] = "check"
    PROVE  Cardinality(Ongoing) < MaxConcurrentRuns
<1> DEFINE R == {v \in Worker : Executing(v)}
           f == [v \in R |-> target[v]]
<1>1. IsFiniteSet(Busy) /\ Cardinality(Busy) \in Nat
  BY BusyIsFinite
<1>2. R \subseteq Busy \ {w} /\ w \in Busy
  BY DEF Busy, Executing
<1>3. Cardinality(Busy \ {w}) = Cardinality(Busy) - 1 /\ IsFiniteSet(Busy \ {w})
  BY <1>1, <1>2, FS_RemoveElement
<1>4. IsFiniteSet(R) /\ Cardinality(R) <= Cardinality(Busy \ {w})
  BY <1>2, <1>3, FS_Subset
<1>5. f \in Surjection(R, Ongoing)
  <2>1. f \in [R -> Ongoing]
    BY DEF Ongoing
  <2>2. \A t \in Ongoing : \E v \in R : f[v] = t
    BY DEF Ongoing
  <2>. QED  BY <2>1, <2>2 DEF Surjection
<1>6. IsFiniteSet(Ongoing) /\ Cardinality(Ongoing) <= Cardinality(R)
  <2>. HIDE DEF f
  <2>. QED  BY <1>4, <1>5, FS_Surjection
<1>7. Cardinality(R) \in Nat /\ Cardinality(Ongoing) \in Nat
  BY <1>4, <1>6, FS_CardinalityType
<1>. QED
  BY <1>1, <1>3, <1>4, <1>6, <1>7, DispatchAssumption DEF TokensAreWorkers

\* A quiet step that creates no run drops the runs that are gone.
LEMMA QuietDrops ==
    ASSUME TypeInv, TypeInv', Quiet, UNCHANGED lastRunId
    PROVE  Queue!QueueNext
<1>1. Pending' \subseteq Pending
  BY Types DEF Quiet, QuietRows, Pending, TypeInv, TypeOK, StoreTypeOK
<1>2. Queued' \subseteq Queued
  BY <1>1 DEF Queued, Quiet, QuietWorkers, Holding
<1>3. Ongoing' \subseteq Ongoing
  BY DEF Ongoing, Quiet, QuietWorkers, Holding, Executing
<1>. QED  BY <1>2, <1>3, Drops DEF Known

LEMMA TriggerSubmits ==
    ASSUME TypeInv, NEW j \in Job, NEW s \in Time, TriggerJob(j, s)
    PROVE  Queue!QueueNext
<1>1. lastRunId \in Nat /\ DOMAIN runs \subseteq 1 .. lastRunId
  BY Types
<1>2. lastRunId + 1 \notin Known /\ Known' = Known \cup {lastRunId + 1}
  BY <1>1 DEF TriggerJob, Known
<1>3. Pending' = Pending \cup {lastRunId + 1}
  BY <1>1 DEF TriggerJob, Inserted, PendingRow, Pending
<1>4. UNCHANGED <<pc, target>>
  BY DEF TriggerJob, workerVars
<1>5. Queued' = Queued \cup {lastRunId + 1} /\ Ongoing' = Ongoing
  BY <1>3, <1>4 DEF Queued, Ongoing, Executing
<1>. QED  BY <1>2, <1>5, Submits

\* The claim moves a run from its row to its goroutine: it goes on waiting.
LEMMA ClaimWaits ==
    ASSUME TypeInv, NEW w \in Worker, ClaimRun(w)
    PROVE  UNCHANGED <<Known, Queued, Ongoing>>
<1>1. /\ target[w] \in Pending /\ pc[w] = "start"
      /\ UNCHANGED <<target, lastRunId>>
  BY DEF ClaimRun, Claimable, HasStatus, Pending
<1>2. Pending' = Pending \ {target[w]}
  <2>1. runs[target[w]].finished \in BOOLEAN
    BY <1>1 DEF TypeInv, TypeOK, StoreTypeOK, RunRow, Pending
  <2>2. /\ DOMAIN runs' = DOMAIN runs
        /\ \A q \in DOMAIN runs :
              runs'[q].status = IF q = target[w] THEN "running" ELSE runs[q].status
    BY <2>1, WritesRow DEF ClaimRun, ClaimPending, RunStatus, EventType
  <2>. QED  BY <2>2 DEF Pending
<1>3. pc'[w] = "check" /\ \A v \in Worker \ {w} : pc'[v] = pc[v]
  BY Moves DEF ClaimRun
<1>4. Queued' = Queued
  BY <1>1, <1>2, <1>3 DEF Queued
<1>5. Ongoing' = Ongoing
  BY <1>1, <1>3 DEF Ongoing, Executing
<1>. QED  BY <1>1, <1>4, <1>5 DEF Known

LEMMA ExecuteBegins ==
    ASSUME TypeInv, ExclusiveInv, TokensAreWorkers, NEW w \in Worker, Execute(w)
    PROVE  Queue!QueueNext
<1>1. pc[w] = "check" /\ UNCHANGED <<target, runs, lastRunId>>
  BY DEF Execute, storeVars
<1>2. pc'[w] = "exec" /\ \A v \in Worker \ {w} : pc'[v] = pc[v]
  BY Moves DEF Execute
<1>3. target[w] \in Queued
  BY <1>1 DEF Queued
<1>4. target[w] \notin Pending
  BY <1>1 DEF ExclusiveInv, Holding, HasStatus, Pending
<1>5. \A v \in Worker \ {w} : pc[v] = "check" => target[v] # target[w]
  BY <1>1 DEF ExclusiveInv, Holding
<1>6. Queued' = Queued \ {target[w]}
  BY <1>1, <1>2, <1>4, <1>5 DEF Queued, Pending
<1>7. Ongoing' = Ongoing \cup {target[w]}
  BY <1>1, <1>2 DEF Ongoing, Executing
<1>8. Cardinality(Ongoing) < MaxConcurrentRuns /\ Known' = Known
  BY <1>1, RoomToExecute DEF Known
<1>. QED  BY <1>3, <1>6, <1>7, <1>8, Begins

\* The outcome of a run and its retry are one transaction, hence one step.
LEMMA RetryEnters ==
    ASSUME TypeInv, ExclusiveInv, NEW w \in Worker, FinalizeRun(w), lastRunId' # lastRunId
    PROVE  Queue!QueueNext
<1>1. /\ pc[w] = "final" /\ UNCHANGED target /\ target[w] \in DOMAIN runs
      /\ runs' = Inserted(Closed(w), lastRunId + 1, RetryRow(w))
      /\ lastRunId' = lastRunId + 1
  BY DEF FinalizeRun
<1>2. pc'[w] = "signal" /\ \A v \in Worker \ {w} : pc'[v] = pc[v]
  BY Moves DEF FinalizeRun
<1>3. lastRunId \in Nat /\ DOMAIN runs \subseteq 1 .. lastRunId
  BY Types
<1>4. Pending' = Pending \cup {lastRunId + 1}
  <2>1. /\ DOMAIN Closed(w) = DOMAIN runs
        /\ \A q \in DOMAIN runs : IF q = target[w]
              THEN Closed(w)[q].status = Verdict(w).status
              ELSE Closed(w)[q] = runs[q]
    BY ClosedRow
  <2>2. Verdict(w).status # "pending"
    BY DEF Verdict
  <2>3. runs[target[w]].status # "pending"
    BY <1>1 DEF ExclusiveInv, Holding, HasStatus
  <2>4. RetryRow(w).status = "pending"
    BY <1>1, RetryRowType
  <2>5. \A q \in DOMAIN runs : runs'[q].status = "pending" <=> runs[q].status = "pending"
    BY <1>1, <1>3, <2>1, <2>2, <2>3 DEF Inserted
  <2>6. /\ DOMAIN runs' = DOMAIN runs \cup {lastRunId + 1}
        /\ runs'[lastRunId + 1].status = "pending"
    BY <1>1, <2>1, <2>4 DEF Inserted
  <2>. QED  BY <2>5, <2>6 DEF Pending
<1>5. Queued' = Queued \cup {lastRunId + 1}
  BY <1>1, <1>2, <1>4 DEF Queued
<1>6. \A v \in Worker \ {w} : Executing(v) => target[v] # target[w]
  BY <1>1 DEF ExclusiveInv, Holding, Executing
<1>7. target[w] \in Ongoing /\ Ongoing' = Ongoing \ {target[w]}
  BY <1>1, <1>2, <1>6 DEF Ongoing, Executing
<1>8. lastRunId + 1 \notin Known /\ Known' = Known \cup {lastRunId + 1}
  BY <1>1, <1>3 DEF Known
<1>. QED  BY <1>5, <1>7, <1>8, EndsWithRetry

LEMMA StepIsQueueStep ==
    ASSUME TypeInv, TypeInv', ExclusiveInv, TokensAreWorkers, [Next]_vars
    PROVE  Queue!QueueNext \/ UNCHANGED <<Known, Queued, Ongoing>>
<1>1. CASE UNCHANGED vars
  BY <1>1 DEF vars, storeVars, workerVars, Known, Queued, Ongoing, Executing, Pending
<1>2. CASE LoopNext
  <2>1. UNCHANGED lastRunId
    BY <1>2 DEF LoopNext, StartLoops, RecoverOrphansFails, DispatchTick, DispatchWake,
       StopLoop, Scan, ScanFails, AbandonBatch, Spawn, storeVars
  <2>. QED  BY <1>2, <2>1, LoopQuiet, QuietDrops
<1>3. CASE ProcessNext
  <2>1. UNCHANGED lastRunId
    BY <1>3 DEF ProcessNext, Shutdown, Crash, MainReturns, ProcessEnds, Restart, storeVars
  <2>. QED  BY <1>3, <2>1, ProcessQuiet, QuietDrops
<1>4. CASE ApiNext
  <2>1. CASE UNCHANGED lastRunId
    BY <1>4, <2>1, ApiQuiet, QuietDrops
  <2>2. CASE lastRunId' # lastRunId
    <3>1. \E j \in Job, s \in Time : TriggerJob(j, s)
      BY <1>4, <2>2 DEF ApiNext, UpdateJob, DeleteJob, DeleteJobRow, CancelRead,
         CancelWrite, storeVars
    <3>. QED  BY <3>1, TriggerSubmits
  <2>. QED  BY <2>1, <2>2
<1>5. ASSUME NEW w \in Worker, WorkerNext(w)
      PROVE  Queue!QueueNext \/ UNCHANGED <<Known, Queued, Ongoing>>
  <2>1. CASE ClaimRun(w)
    BY <2>1, ClaimWaits
  <2>2. CASE Execute(w)
    BY <2>2, ExecuteBegins
  <2>3. CASE FinalizeRun(w) /\ lastRunId' # lastRunId
    BY <2>3, RetryEnters
  <2>4. CASE ~ClaimRun(w) /\ ~Execute(w) /\ UNCHANGED lastRunId
    BY <1>5, <2>4, WorkerQuiet, QuietDrops
  <2>5. UNCHANGED lastRunId \/ FinalizeRun(w)
    BY <1>5 DEF WorkerNext, LoadRun, LoadFails, ClaimRun, CloseCancelling,
       LeaveUnclaimed, StartTxFails, CloseClaimed, Execute, ExecuteReturns,
       FinalizeTxFails, SignalDispatch, ReleaseToken, storeVars
  <2>. QED  BY <2>1, <2>2, <2>3, <2>4, <2>5
<1>6. CASE RetentionNext
  <2>1. UNCHANGED lastRunId
    BY <1>6 DEF RetentionNext, DeleteTerminalBefore
  <2>. QED  BY <1>6, <2>1, RetentionQuiet, QuietDrops
<1>. QED  BY <1>1, <1>2, <1>3, <1>4, <1>5, <1>6 DEF Next

LEMMA InitIsQueueInit == Init => Queue!QueueInit
BY DEF Init, Queue!QueueInit, Pending, Executing

-----------------------------------------------------------------------------

\* Dispatch, with its duplicates, races, rollbacks and restarts, is a queue that
\* executes every run at most once and at most MaxConcurrentRuns at a time.
THEOREM DispatchIsAQueue == Spec => ImplementsQueue
<1>1. TypeInv /\ TypeInv' /\ ClaimInv /\ TokensAreWorkers /\ [Next]_vars
        => [Queue!QueueNext]_(Queue!queueVars)
  BY StepIsQueueStep DEF ClaimInv, Queue!queueVars, Known, Queued, Ongoing
<1>. QED
  BY <1>1, InitIsQueueInit, TypeInvariant, ClaimsExclusive, TokensExact, PTL
     DEF Spec, ImplementsQueue, Queue!QueueSpec
=============================================================================
