--------------------------- MODULE HistoryProofs ---------------------------
(***************************************************************************)
(* What the tables tell of the past, as long as only the actors of         *)
(* Dispatch write them: which attempt a row follows, and what its events   *)
(* say of its execution.                                                   *)
(***************************************************************************)
EXTENDS ClaimProofs

-----------------------------------------------------------------------------
(* Attempts.                                                               *)

\* UNIQUE(job_id, scheduled_at, attempt).
UniqueKeys ==
    \A p, q \in DOMAIN runs :
        /\ runs[p].job = runs[q].job /\ runs[p].slot = runs[q].slot
        /\ runs[p].attempt = runs[q].attempt
        => p = q

\* Limits come from configurations the job was given.
LimitInv ==
    /\ \A j \in DOMAIN jobs : jobs[j].input \in JobInputs
    /\ \A w \in Worker : limit[w] > 0 => \E i \in JobInputs : i.retryLimit = limit[w]

\* The three things RetriesFollowAttempts says of a row, for the proofs.
Allowed(a) == a > 0 => \E i \in JobInputs : a <= i.retryLimit

Over(p) == p \in executed /\ \A w \in Worker : Executing(w) => target[w] # p

SlotRuns(j, s) == {p \in DOMAIN runs : runs[p].job = j /\ runs[p].slot = s}

Complete(S, a) == ~HistoryLimit => \A b \in 0 .. a - 1 : \E p \in S : runs[p].attempt = b

InOrder(q) ==
    LET r == runs[q] IN
    /\ Allowed(r.attempt)
    /\ \A p \in SlotRuns(r.job, r.slot) : runs[p].attempt < r.attempt => Over(p)
    /\ Complete(SlotRuns(r.job, r.slot), r.attempt)

RetryInv == UniqueKeys /\ \A q \in DOMAIN runs : InOrder(q)

LEMMA OrderOfRows == TypeInv /\ RetryInv => RetriesFollowAttempts
<1> SUFFICES ASSUME TypeInv, RetryInv PROVE RetriesFollowAttempts
  OBVIOUS
<1>1. \A q \in DOMAIN runs : runs[q].attempt \in Nat
  BY DEF TypeInv, TypeOK, StoreTypeOK, RunRow
<1>2. \A q \in DOMAIN runs : \A b \in 0 .. runs[q].attempt - 1 : b < runs[q].attempt
  BY <1>1
<1>. QED
  BY <1>1, <1>2 DEF RetryInv, RetriesFollowAttempts, InOrder, Allowed, Over, SlotRuns, Complete

\* Which of the three keeps the retries in order: rows keep their keys, and without
\* the history limit they go together with all other rows of their job ...
KeysKept ==
    /\ DOMAIN runs' \subseteq DOMAIN runs
    /\ \A q \in DOMAIN runs' : /\ runs'[q].job = runs[q].job
                               /\ runs'[q].slot = runs[q].slot
                               /\ runs'[q].attempt = runs[q].attempt
    /\ HistoryLimit \/ \A p \in DOMAIN runs, q \in DOMAIN runs' :
                          runs[p].job = runs[q].job => p \in DOMAIN runs'

\* ... or a row with a free key enters ...
KeyAdded(row) ==
    /\ DOMAIN runs' = DOMAIN runs \cup {lastRunId + 1}
    /\ \A q \in DOMAIN runs : /\ runs'[q].job = runs[q].job
                              /\ runs'[q].slot = runs[q].slot
                              /\ runs'[q].attempt = runs[q].attempt
    /\ runs'[lastRunId + 1] = row
    /\ KeyFree(runs, row.job, row.slot, row.attempt)

\* ... and no goroutine takes up a run again that was executed.
NoneReturns ==
    /\ executed \subseteq executed'
    /\ \A w \in Worker :
          Executing(w)' => \/ Executing(w) /\ target'[w] = target[w]
                           \/ target'[w] \notin executed

LEMMA StaysOver == ASSUME NoneReturns, NEW p, Over(p) PROVE Over(p)'
BY DEF NoneReturns, Over

LEMMA KeptAttempts ==
    ASSUME TypeInv, TypeInv', RetryInv, KeysKept, NoneReturns PROVE RetryInv'
<1>1. UniqueKeys'
  BY DEF RetryInv, UniqueKeys, KeysKept
<1>2. ASSUME NEW q \in DOMAIN runs' PROVE InOrder(q)'
  <2>1. /\ q \in DOMAIN runs /\ runs'[q].attempt = runs[q].attempt
        /\ runs'[q].job = runs[q].job /\ runs'[q].slot = runs[q].slot
    BY DEF KeysKept
  <2>2. InOrder(q)
    BY <2>1 DEF RetryInv
  <2>3. ASSUME NEW p \in DOMAIN runs',
               runs'[p].job = runs'[q].job, runs'[p].slot = runs'[q].slot,
               runs'[p].attempt < runs'[q].attempt
        PROVE  Over(p)'
    <3>1. p \in SlotRuns(runs[q].job, runs[q].slot) /\ runs[p].attempt < runs[q].attempt
      BY <2>1, <2>3 DEF KeysKept, SlotRuns
    <3>. QED  BY <2>2, <3>1, StaysOver DEF InOrder
  <2>4. ASSUME ~HistoryLimit, NEW b \in 0 .. runs[q].attempt - 1
        PROVE  \E p \in DOMAIN runs' : /\ runs'[p].job = runs'[q].job
                                       /\ runs'[p].slot = runs'[q].slot
                                       /\ runs'[p].attempt = b
    <3>1. PICK p \in SlotRuns(runs[q].job, runs[q].slot) : runs[p].attempt = b
      BY <2>2, <2>4 DEF InOrder, Complete
    <3>. QED  BY <2>1, <2>4, <3>1 DEF KeysKept, SlotRuns
  <2>5. Allowed(runs[q].attempt)'
    BY <2>1, <2>2 DEF InOrder, Allowed
  <2>. QED  BY <2>1, <2>3, <2>4, <2>5 DEF InOrder, SlotRuns, Complete
<1>. QED  BY <1>1, <1>2 DEF RetryInv

\* A row enters in order above all rows of its slot, all of them over; a first attempt
\* enters where there are none.
LEMMA AddedAttempt ==
    ASSUME TypeInv, TypeInv', RetryInv, NEW row, KeyAdded(row), NoneReturns,
           Allowed(row.attempt),
           \A p \in SlotRuns(row.job, row.slot) : runs[p].attempt < row.attempt /\ Over(p)',
           Complete(SlotRuns(row.job, row.slot), row.attempt)
    PROVE  RetryInv'
<1>1. lastRunId \in Nat /\ lastRunId + 1 \notin DOMAIN runs
  BY Types
<1>2. UniqueKeys'
  BY <1>1 DEF RetryInv, UniqueKeys, KeyAdded, KeyFree
<1>3. /\ DOMAIN runs' = DOMAIN runs \cup {lastRunId + 1} /\ runs'[lastRunId + 1] = row
      /\ \A q \in DOMAIN runs : /\ runs'[q].job = runs[q].job
                                /\ runs'[q].slot = runs[q].slot
                                /\ runs'[q].attempt = runs[q].attempt
  BY DEF KeyAdded
<1>4. \A q \in DOMAIN runs' : runs'[q].attempt \in Nat
  BY DEF TypeInv, TypeOK, StoreTypeOK, RunRow
<1>5. ASSUME NEW q \in DOMAIN runs' PROVE InOrder(q)'
  <2>1. CASE q = lastRunId + 1
    <3>1. ASSUME NEW p \in DOMAIN runs', runs'[p].job = row.job, runs'[p].slot = row.slot,
                 runs'[p].attempt < row.attempt
          PROVE  Over(p)'
      <4>1. p # lastRunId + 1
        BY <1>3, <1>4, <3>1
      <4>. QED  BY <1>3, <3>1, <4>1 DEF SlotRuns
    <3>2. ASSUME ~HistoryLimit, NEW b \in 0 .. row.attempt - 1
          PROVE  \E p \in DOMAIN runs' : /\ runs'[p].job = row.job /\ runs'[p].slot = row.slot
                                         /\ runs'[p].attempt = b
      <4>1. PICK p \in SlotRuns(row.job, row.slot) : runs[p].attempt = b
        BY <3>2 DEF Complete
      <4>. QED  BY <1>3, <4>1 DEF SlotRuns
    <3>. QED  BY <1>3, <2>1, <3>1, <3>2 DEF InOrder, SlotRuns, Complete, Allowed
  <2>2. CASE q # lastRunId + 1
    <3>1. /\ q \in DOMAIN runs /\ runs'[q].attempt = runs[q].attempt
          /\ runs'[q].job = runs[q].job /\ runs'[q].slot = runs[q].slot
      BY <1>3, <2>2
    <3>2. InOrder(q)
      BY <3>1 DEF RetryInv
    <3>3. ASSUME NEW p \in DOMAIN runs',
                 runs'[p].job = runs'[q].job, runs'[p].slot = runs'[q].slot,
                 runs'[p].attempt < runs'[q].attempt
          PROVE  Over(p)'
      <4>1. p # lastRunId + 1
        <5> SUFFICES ASSUME p = lastRunId + 1 PROVE FALSE
          OBVIOUS
        <5>1. q \in SlotRuns(row.job, row.slot) /\ row.attempt < runs[q].attempt
          BY <1>3, <3>1, <3>3 DEF SlotRuns
        <5>2. runs[q].attempt < row.attempt /\ row.attempt \in Nat /\ runs[q].attempt \in Nat
          BY <1>3, <1>4, <3>1, <5>1
        <5>. QED  BY <5>1, <5>2
      <4>2. p \in SlotRuns(runs[q].job, runs[q].slot) /\ runs[p].attempt < runs[q].attempt
        BY <1>3, <3>1, <3>3, <4>1 DEF SlotRuns
      <4>. QED  BY <3>2, <4>2, StaysOver DEF InOrder
    <3>4. ASSUME ~HistoryLimit, NEW b \in 0 .. runs[q].attempt - 1
          PROVE  \E p \in DOMAIN runs' : /\ runs'[p].job = runs'[q].job
                                         /\ runs'[p].slot = runs'[q].slot
                                         /\ runs'[p].attempt = b
      <4>1. PICK p \in SlotRuns(runs[q].job, runs[q].slot) : runs[p].attempt = b
        BY <3>2, <3>4 DEF InOrder, Complete
      <4>. QED  BY <1>3, <3>1, <4>1 DEF SlotRuns
    <3>5. Allowed(runs[q].attempt)'
      BY <3>1, <3>2 DEF InOrder, Allowed
    <3>. QED  BY <3>1, <3>3, <3>4, <3>5 DEF InOrder, SlotRuns, Complete
  <2>. QED  BY <2>1, <2>2
<1>. QED  BY <1>2, <1>5 DEF RetryInv

LEMMA UnchangedKeys == ASSUME UNCHANGED runs PROVE KeysKept
BY DEF KeysKept

\* What retention deletes is deleted under its limit only.
LEMMA RetentionKeys == RetentionNext => KeysKept /\ HistoryLimit
BY DEF RetentionNext, DeleteTerminalBefore, KeysKept

LEMMA QuietReturns == Quiet => NoneReturns
BY DEF Quiet, QuietWorkers, NoneReturns, Holding, Executing

LEMMA InitRetries == Init => LimitInv /\ RetryInv
BY DEF Init, LimitInv, RetryInv, UniqueKeys

\* A goroutine loads the limit of a job row, and keeps it whatever becomes of the row.
LEMMA NextLimits == TypeInv /\ LimitInv /\ [Next]_vars => LimitInv'
<1> SUFFICES ASSUME TypeInv, LimitInv, [Next]_vars PROVE LimitInv'
  OBVIOUS
<1>1. CASE UNCHANGED <<jobs, limit>>
  BY <1>1 DEF LimitInv
<1>2. ASSUME NEW j \in Job, NEW input \in JobInputs, NEW s \in Time, UpdateJob(j, input, s)
      PROVE  LimitInv'
  BY <1>2 DEF UpdateJob, UpdateJobRow, workerVars, LimitInv
<1>3. ASSUME NEW j \in Job, DeleteJob(j) PROVE LimitInv'
  BY <1>3 DEF DeleteJob, DeleteJobRow, workerVars, LimitInv
<1>4. limit \in [Worker -> Int]
  BY DEF TypeInv, TypeOK, ControlTypeOK
<1>5. ASSUME NEW w \in Worker, LoadRun(w) PROVE LimitInv'
  <2>1. runs[target[w]].job \in DOMAIN jobs /\ UNCHANGED jobs
    BY <1>5 DEF LoadRun, storeVars, TypeInv, ForeignKey
  <2>. QED  BY <1>4, <1>5, <2>1 DEF LoadRun, LimitInv
<1>6. ASSUME NEW w \in Worker, ReleaseToken(w) PROVE LimitInv'
  BY <1>4, <1>6 DEF ReleaseToken, storeVars, LimitInv
<1>7. CASE ProcessEnds
  BY <1>7 DEF ProcessEnds, storeVars, LimitInv
<1>8. CASE UNCHANGED vars \/ LoopNext \/ Shutdown \/ Restart
  BY <1>1, <1>8 DEF vars, LoopNext, StartLoops, RecoverOrphansFails, DispatchTick,
     DispatchWake, StopLoop, Scan, ScanFails, AbandonBatch, Spawn, Shutdown, Restart,
     storeVars, workerVars
<1>9. CASE ApiNext \/ RetentionNext
  BY <1>1, <1>2, <1>3, <1>9 DEF ApiNext, TriggerJob, CancelRead, CancelWrite, RetentionNext,
     DeleteTerminalBefore, storeVars, workerVars
<1>10. ASSUME NEW w \in Worker, WorkerNext(w) PROVE LimitInv'
  BY <1>1, <1>5, <1>6, <1>10 DEF WorkerNext, LoadFails, ClaimRun, CloseCancelling,
     LeaveUnclaimed, StartTxFails, CloseClaimed, Execute, ExecuteReturns, FinalizeRun,
     FinalizeTxFails, SignalDispatch, storeVars
<1>. QED  BY <1>7, <1>8, <1>9, <1>10 DEF Next, ProcessNext, Crash, MainReturns

\* A status written together with its event leaves the keys alone.
LEMMA WriteKeepsKeys ==
    ASSUME TypeInv, NEW r, NEW st \in RunStatus, NEW f \in BOOLEAN, NEW e \in EventType,
           runs' = AddEvent(UpdateStatus(runs, r, st, f), r, e)
    PROVE  KeysKept
BY ClosesRow DEF KeysKept

LEMMA LoopRetries == TypeInv /\ TypeInv' /\ RetryInv /\ LoopNext => RetryInv'
<1>1. LoopNext => UNCHANGED runs
  BY DEF LoopNext, StartLoops, RecoverOrphansFails, DispatchTick, DispatchWake,
     StopLoop, Scan, ScanFails, AbandonBatch, Spawn, storeVars
<1>. QED  BY <1>1, LoopQuiet, QuietReturns, UnchangedKeys, KeptAttempts

LEMMA ProcessRetries == TypeInv /\ TypeInv' /\ RetryInv /\ ProcessNext => RetryInv'
<1>1. ProcessNext => UNCHANGED runs
  BY DEF ProcessNext, Shutdown, Crash, MainReturns, ProcessEnds, Restart, storeVars
<1>. QED  BY <1>1, ProcessQuiet, QuietReturns, UnchangedKeys, KeptAttempts

LEMMA RetentionRetries == TypeInv /\ TypeInv' /\ RetryInv /\ RetentionNext => RetryInv'
BY RetentionKeys, RetentionQuiet, QuietReturns, KeptAttempts

LEMMA ApiRetries == TypeInv /\ TypeInv' /\ RetryInv /\ ApiNext => RetryInv'
<1> SUFFICES ASSUME TypeInv, TypeInv', RetryInv, ApiNext PROVE RetryInv'
  OBVIOUS
<1>1. NoneReturns
  BY ApiQuiet, QuietReturns
<1>2. ASSUME NEW j \in Job, NEW s \in Time, TriggerJob(j, s) PROVE RetryInv'
  <2>1. lastRunId \in Nat /\ DOMAIN runs \subseteq 1 .. lastRunId
    BY Types
  <2>2. KeyAdded(PendingRow(j, s, 0))
    BY <1>2, <2>1 DEF TriggerJob, CanInsert, Inserted, PendingRow, KeyAdded
  <2>3. /\ PendingRow(j, s, 0).attempt = 0
        /\ SlotRuns(PendingRow(j, s, 0).job, PendingRow(j, s, 0).slot) = {}
    BY <1>2 DEF PendingRow, TriggerJob, NewInstant, SlotRuns
  <2>4. /\ Allowed(PendingRow(j, s, 0).attempt)
        /\ \A S : Complete(S, PendingRow(j, s, 0).attempt)
    BY <2>3 DEF Allowed, Complete
  <2>. QED  BY <1>1, <2>2, <2>3, <2>4, AddedAttempt
<1>3. ASSUME NEW j \in Job, DeleteJob(j) PROVE KeysKept
  BY <1>3 DEF DeleteJob, DeleteJobRow, KeysKept
<1>4. ASSUME NEW c \in Client, CancelWrite(c) PROVE KeysKept
  <2>1. request[c].write \in RunStatus /\ request[c].finished \in BOOLEAN
    BY <1>4 DEF CancelWrite, CancelRequest, TypeInv, TypeOK, ControlTypeOK, RunStatus
  <2>2. IsTable(runs, lastRunId) /\ lastRunId \in Nat
    BY StoreIsTable DEF TypeInv, TypeOK
  <2>3. /\ DOMAIN runs' = DOMAIN runs
        /\ \A q \in DOMAIN runs :
              /\ runs'[q].job = runs[q].job /\ runs'[q].slot = runs[q].slot
              /\ runs'[q].attempt = runs[q].attempt
    BY <1>4, <2>1, <2>2, UpdateStatusType DEF CancelWrite
  <2>. QED  BY <2>3 DEF KeysKept
<1>5. ASSUME UNCHANGED runs PROVE RetryInv'
  BY <1>1, <1>5, UnchangedKeys, KeptAttempts
<1>. QED
  BY <1>1, <1>2, <1>3, <1>4, <1>5, KeptAttempts DEF ApiNext, UpdateJob, CancelRead, storeVars

\* The retry follows the attempt that just ended, and its key is free.
LEMMA FinalizeRetries ==
    ASSUME TypeInv, TypeInv', ExclusiveInv, LimitInv, RetryInv, NEW w \in Worker,
           FinalizeRun(w)
    PROVE  RetryInv'
<1>1. /\ pc[w] = "final" /\ UNCHANGED <<target, executed>> /\ target[w] \in DOMAIN runs
      /\ pc'[w] = "signal" /\ \A v \in Worker \ {w} : pc'[v] = pc[v]
  BY Moves DEF FinalizeRun
<1>2. /\ DOMAIN Closed(w) = DOMAIN runs
      /\ \A q \in DOMAIN runs :
            /\ Closed(w)[q].job = runs[q].job /\ Closed(w)[q].slot = runs[q].slot
            /\ Closed(w)[q].attempt = runs[q].attempt
  BY <1>1, ClosedRow
<1>3. NoneReturns
  BY <1>1 DEF NoneReturns, Executing
<1>4. CASE runs' = Closed(w)
  <2>1. KeysKept
    BY <1>2, <1>4 DEF KeysKept
  <2>. QED  BY <1>3, <2>1, KeptAttempts
<1>5. CASE /\ runs' = Inserted(Closed(w), lastRunId + 1, RetryRow(w))
           /\ WantsRetry(w) /\ RetryFits(w)
  <2>1. lastRunId \in Nat /\ DOMAIN runs \subseteq 1 .. lastRunId
    BY Types
  <2>2. KeyAdded(RetryRow(w))
    <3>1. KeyFree(runs, RetryRow(w).job, RetryRow(w).slot, RetryRow(w).attempt)
      BY <1>5 DEF RetryFits, CanInsert
    <3>2. /\ DOMAIN runs' = DOMAIN runs \cup {lastRunId + 1}
          /\ runs'[lastRunId + 1] = RetryRow(w)
          /\ \A q \in DOMAIN runs : runs'[q] = Closed(w)[q]
      BY <1>2, <1>5, <2>1 DEF Inserted
    <3>. QED  BY <1>2, <3>1, <3>2 DEF KeyAdded
  <2>3. /\ RetryRow(w).job = runs[target[w]].job /\ RetryRow(w).slot = runs[target[w]].slot
        /\ RetryRow(w).attempt = runs[target[w]].attempt + 1
    BY <1>1, RetryRowType
  <2>4. limit[w] \in Int /\ runs[target[w]].attempt \in Nat
    BY <1>1 DEF TypeInv, TypeOK, StoreTypeOK, ControlTypeOK, RunRow
  <2>5. Allowed(RetryRow(w).attempt)
    BY <1>5, <2>3, <2>4 DEF WantsRetry, LimitInv, Allowed
  <2>6. Executing(w) /\ \A p : p = target[w] => Over(p)'
    BY <1>1 DEF ExclusiveInv, Executing, Holding, Over
  <2>7. \A p \in DOMAIN runs : InOrder(p) /\ runs[p].attempt \in Nat
    BY DEF RetryInv, TypeInv, TypeOK, StoreTypeOK, RunRow
  <2>8. ASSUME NEW p \in SlotRuns(RetryRow(w).job, RetryRow(w).slot)
        PROVE  runs[p].attempt < RetryRow(w).attempt /\ Over(p)'
    <3>1. /\ p \in SlotRuns(runs[target[w]].job, runs[target[w]].slot)
          /\ p \in DOMAIN runs /\ runs[p].attempt \in Nat
          /\ target[w] \in SlotRuns(runs[p].job, runs[p].slot)
      BY <1>1, <2>3, <2>7 DEF SlotRuns
    <3>2. ~(runs[target[w]].attempt < runs[p].attempt)
      BY <2>6, <2>7, <3>1 DEF InOrder, Over
    <3>3. runs[p].attempt < runs[target[w]].attempt => Over(p)'
      BY <1>1, <1>3, <2>7, <3>1, StaysOver DEF InOrder
    <3>4. runs[p].attempt = runs[target[w]].attempt => p = target[w]
      BY <1>1, <3>1 DEF RetryInv, UniqueKeys, SlotRuns
    <3>. QED  BY <2>3, <2>4, <2>6, <3>1, <3>2, <3>3, <3>4
  <2>9. Complete(SlotRuns(RetryRow(w).job, RetryRow(w).slot), RetryRow(w).attempt)
    <3> SUFFICES ASSUME ~HistoryLimit, NEW b \in 0 .. RetryRow(w).attempt - 1
                 PROVE  \E p \in SlotRuns(RetryRow(w).job, RetryRow(w).slot) :
                            runs[p].attempt = b
      BY DEF Complete
    <3>1. b = runs[target[w]].attempt \/ b \in 0 .. runs[target[w]].attempt - 1
      BY <2>3, <2>4
    <3>2. target[w] \in SlotRuns(RetryRow(w).job, RetryRow(w).slot)
      BY <1>1, <2>3 DEF SlotRuns
    <3>. QED  BY <1>1, <2>3, <2>7, <3>1, <3>2 DEF InOrder, Complete
  <2>. QED  BY <1>3, <2>2, <2>5, <2>8, <2>9, AddedAttempt
<1>. QED  BY <1>4, <1>5 DEF FinalizeRun

LEMMA WorkerRetries ==
    ASSUME TypeInv, TypeInv', ExclusiveInv, LimitInv, RetryInv, NEW w \in Worker,
           WorkerNext(w)
    PROVE  RetryInv'
<1>1. CASE ClaimRun(w)
  <2>1. KeysKept
    <3>1. runs[target[w]].finished \in BOOLEAN
      BY <1>1, ClaimStepFacts DEF TypeInv, TypeOK, StoreTypeOK, RunRow
    <3>. QED  BY <1>1, <3>1, WriteKeepsKeys DEF ClaimRun, ClaimPending, RunStatus, EventType
  <2>2. NoneReturns
    BY <1>1, ClaimStepFacts DEF NoneReturns, Executing
  <2>. QED  BY <2>1, <2>2, KeptAttempts
<1>2. CASE Execute(w)
  <2>1. NoneReturns
    BY <1>2, ExecuteStepFacts DEF NoneReturns, ExclusiveInv, Executing
  <2>. QED  BY <1>2, <2>1, ExecuteStepFacts, UnchangedKeys, KeptAttempts
<1>3. CASE CloseCancelling(w) \/ CloseClaimed(w)
  <2>1. NoneReturns
    BY <1>3, WorkerQuiet, QuietReturns DEF WorkerNext, ClaimRun, Execute, CloseCancelling,
       CloseClaimed, Claimable, HasStatus
  <2>2. KeysKept
    BY <1>3, WriteKeepsKeys, UnchangedKeys DEF CloseCancelling, CloseClaimed, RunStatus,
       EventType
  <2>. QED  BY <2>1, <2>2, KeptAttempts
<1>4. CASE FinalizeRun(w)
  BY <1>4, FinalizeRetries
<1>5. CASE UNCHANGED runs /\ ~ClaimRun(w) /\ ~Execute(w)
  BY <1>5, WorkerQuiet, QuietReturns, UnchangedKeys, KeptAttempts
<1>. QED
  BY <1>1, <1>2, <1>3, <1>4, <1>5 DEF WorkerNext, LoadRun, LoadFails, LeaveUnclaimed,
     StartTxFails, ExecuteReturns, FinalizeTxFails, SignalDispatch, ReleaseToken, storeVars

LEMMA NextRetries ==
    TypeInv /\ TypeInv' /\ ExclusiveInv /\ LimitInv /\ RetryInv /\ [Next]_vars => RetryInv'
<1>1. ASSUME TypeInv, TypeInv', RetryInv, UNCHANGED vars PROVE RetryInv'
  BY <1>1, UnchangedKeys, KeptAttempts DEF vars, storeVars, workerVars, NoneReturns, Executing
<1>. QED
  BY <1>1, LoopRetries, ProcessRetries, RetentionRetries, ApiRetries, WorkerRetries DEF Next

LEMMA RetryInvariant == Spec => [](ExclusiveInv /\ RetryInv)
<1>1. ClaimInv => ExclusiveInv
  BY DEF ClaimInv
<1>. QED
  BY <1>1, InitRetries, NextLimits, NextRetries, TypeInvariant, ClaimsExclusive, PTL DEF Spec

\* A row with a later attempt stands for a retry that was due: whatever row of an earlier
\* attempt retention has left was executed and is over, without the history limit none of
\* them is missing, and some configuration of the job allowed as many.
THEOREM RetriesInOrder == Spec => []RetriesFollowAttempts
BY OrderOfRows, RetryInvariant, TypeInvariant, PTL

LEMMA RetryFitsThere == TypeInv /\ RetryInv => RetryKeyFree
<1> SUFFICES ASSUME TypeInv, RetryInv, NEW w \in Worker, Executing(w),
                    target[w] \in DOMAIN runs, NEW q \in DOMAIN runs,
                    runs[q].job = runs[target[w]].job, runs[q].slot = runs[target[w]].slot,
                    runs[q].attempt = runs[target[w]].attempt + 1
             PROVE  FALSE
  BY DEF RetryKeyFree, KeyFree
<1>1. runs[target[w]].attempt \in Nat
  BY DEF TypeInv, TypeOK, StoreTypeOK, RunRow
<1>2. target[w] \in SlotRuns(runs[q].job, runs[q].slot)
      /\ runs[target[w]].attempt < runs[q].attempt
  BY <1>1 DEF SlotRuns
<1>. QED  BY <1>2 DEF RetryInv, InOrder, Over

\* finalizeRun's INSERT never meets the unique key: the attempt it is about to
\* follow is still executing, so no row can have followed it.
THEOREM RetryAlwaysFits == Spec => []RetryKeyFree
BY RetryFitsThere, RetryInvariant, TypeInvariant, PTL

-----------------------------------------------------------------------------
(* Event logs.                                                             *)

EventsAt(log, E) == {i \in DOMAIN log : log[i] \in E}
Starts(log)  == EventsAt(log, {"started"})
Results(log) == EventsAt(log, ResultEvents)

\* One execution at most, and its result after its start.
OneExecution(log) ==
    /\ Cardinality(Starts(log)) <= 1
    /\ Cardinality(Results(log)) <= 1
    /\ \A i \in Results(log) : \E k \in Starts(log) : k < i

Unstarted(log) == Starts(log) = {} /\ Results(log) = {}
Open(log)      == Starts(log) # {} /\ Results(log) = {}

\* The log and the status of a row agree: nothing has happened to a pending run, a
\* claimed one has a start and no result, and a result status comes with its event.
RowTells(r) ==
    /\ OneExecution(runs[r].log)
    /\ runs[r].status = "pending" => Unstarted(runs[r].log)
    /\ runs[r].status \in {"success", "failed", "timeout"} =>
          Results(runs[r].log) # {} /\ r \in executed

HeldIsOpen ==
    \A w \in Worker : Holding(w) /\ target[w] \in DOMAIN runs => Open(runs[target[w]].log)

LogInv == (\A r \in DOMAIN runs : RowTells(r)) /\ HeldIsOpen

\* An event changes the sets of events of its own kind, and only those.
LEMMA EventAppended ==
    ASSUME NEW log \in Seq(EventType), NEW e \in EventType, NEW E
    PROVE  /\ e \in E => EventsAt(Append(log, e), E) = EventsAt(log, E) \cup {Len(log) + 1}
           /\ e \notin E => EventsAt(Append(log, e), E) = EventsAt(log, E)
           /\ EventsAt(log, E) \subseteq 1 .. Len(log)
           /\ Len(log) \in Nat
<1>1. /\ Len(log) \in Nat /\ DOMAIN log = 1 .. Len(log)
      /\ DOMAIN Append(log, e) = 1 .. Len(log) + 1
      /\ Append(log, e)[Len(log) + 1] = e
      /\ \A i \in 1 .. Len(log) : Append(log, e)[i] = log[i]
  OBVIOUS
<1> DEFINE more == Append(log, e)
           n == Len(log)
<1>2. /\ n \in Nat /\ DOMAIN log = 1 .. n /\ DOMAIN more = 1 .. n + 1
      /\ more[n + 1] = e /\ \A i \in 1 .. n : more[i] = log[i]
  BY <1>1
<1>. HIDE DEF more, n
<1>3. CASE e \in E
  BY <1>2, <1>3 DEF EventsAt, more, n
<1>4. CASE e \notin E
  <2>1. EventsAt(more, E) = EventsAt(log, E)
    BY <1>2, <1>4 DEF EventsAt
  <2>. QED  BY <1>2, <1>4, <2>1 DEF EventsAt, more, n
<1>. QED  BY <1>3, <1>4

\* Events that start and end nothing: "cancelled" among them.
LEMMA Annotated ==
    ASSUME NEW log \in Seq(EventType), NEW e \in EventType \ ({"started"} \cup ResultEvents)
    PROVE  Starts(Append(log, e)) = Starts(log) /\ Results(Append(log, e)) = Results(log)
<1>1. e \in EventType /\ e \notin {"started"} /\ e \notin ResultEvents
  OBVIOUS
<1>2. ASSUME NEW E, e \notin E PROVE EventsAt(Append(log, e), E) = EventsAt(log, E)
  BY <1>1, <1>2, EventAppended
<1>. QED  BY <1>1, <1>2 DEF Starts, Results

LEMMA Created == OneExecution(<<"created">>) /\ Unstarted(<<"created">>)
<1>1. Starts(<<"created">>) = {} /\ Results(<<"created">>) = {}
  BY DEF Starts, Results, EventsAt, ResultEvents
<1>. QED  BY <1>1, FS_EmptySet DEF OneExecution, Unstarted

LEMMA Started ==
    ASSUME NEW log \in Seq(EventType), Unstarted(log)
    PROVE  OneExecution(Append(log, "started")) /\ Open(Append(log, "started"))
<1>1. Starts(Append(log, "started")) = {Len(log) + 1}
  BY EventAppended DEF Starts, Unstarted, EventType
<1>2. Results(Append(log, "started")) = {}
  BY EventAppended DEF Results, Unstarted, EventType, ResultEvents
<1>3. Cardinality(Starts(Append(log, "started"))) = 1
  BY <1>1, FS_Singleton
<1>4. Cardinality(Results(Append(log, "started"))) = 0
  BY <1>2, FS_EmptySet
<1>. QED  BY <1>1, <1>2, <1>3, <1>4 DEF OneExecution, Open

LEMMA Ended ==
    ASSUME NEW log \in Seq(EventType), NEW e \in ResultEvents, OneExecution(log), Open(log)
    PROVE  OneExecution(Append(log, e)) /\ Results(Append(log, e)) # {}
<1>1. e \in EventType /\ e \notin {"started"}
  BY DEF EventType, ResultEvents
<1>2. Results(Append(log, e)) = {Len(log) + 1}
  <2>1. EventsAt(Append(log, e), ResultEvents)
           = EventsAt(log, ResultEvents) \cup {Len(log) + 1}
    BY <1>1, EventAppended
  <2>. QED  BY <2>1 DEF Results, Open
<1>3. Starts(Append(log, e)) = Starts(log)
  BY <1>1, EventAppended DEF Starts
<1>4. \A k \in Starts(log) : k < Len(log) + 1
  BY <1>1, EventAppended DEF Starts
<1>5. Cardinality({Len(log) + 1}) = 1
  BY FS_Singleton
<1>. QED  BY <1>2, <1>3, <1>4, <1>5 DEF OneExecution, Open

-----------------------------------------------------------------------------

\* What a row may go through without a word on its execution.
Annotates(q) ==
    /\ \/ runs'[q].log = runs[q].log
       \/ \E e \in EventType \ ({"started"} \cup ResultEvents) :
             runs'[q].log = Append(runs[q].log, e)
    /\ \/ runs'[q].status = runs[q].status
       \/ runs'[q].status \in {"cancelling", "cancelled"}

NewRow(q) ==
    q > lastRunId /\ runs'[q].status = "pending" /\ runs'[q].log = <<"created">>

HeldBefore == \A w \in Worker : Holding(w)' => Holding(w) /\ target'[w] = target[w]

\* Most steps write no start and no result, ...
LogQuiet ==
    /\ HeldBefore /\ executed \subseteq executed'
    /\ \A q \in DOMAIN runs' : IF q \in DOMAIN runs THEN Annotates(q) ELSE NewRow(q)

\* ... a claim starts the log of a run whose row was pending, ...
LogStarts(w) ==
    /\ target[w] \in DOMAIN runs /\ runs[target[w]].status = "pending"
    /\ DOMAIN runs' = DOMAIN runs /\ runs'[target[w]].status = "running"
    /\ runs'[target[w]].log = Append(runs[target[w]].log, "started")
    /\ \A q \in DOMAIN runs : q # target[w] => runs'[q] = runs[q]
    /\ UNCHANGED <<target, executed>>
    /\ \A v \in Worker : Holding(v)' /\ target[v] # target[w] => Holding(v)

\* ... and an outcome adds its result as the goroutine lets go of the run.
LogEnds(w) ==
    /\ Executing(w) /\ target[w] \in DOMAIN runs
    /\ UNCHANGED <<target, executed>>
    /\ \A v \in Worker : Holding(v)' => Holding(v) /\ target[v] # target[w]
    /\ \A q \in DOMAIN runs : q \in DOMAIN runs' /\ (q # target[w] => runs'[q] = runs[q])
    /\ \A q \in DOMAIN runs' \ DOMAIN runs : NewRow(q)
    /\ runs'[target[w]].status \in {"success", "failed", "timeout"}
    /\ \E e \in ResultEvents : runs'[target[w]].log = Append(runs[target[w]].log, e)

LEMMA UnchangedLogs ==
    ASSUME HeldBefore, executed \subseteq executed', UNCHANGED runs PROVE LogQuiet
BY DEF LogQuiet, Annotates

\* A status and its event, as they appear in the row.
LEMMA WriteLogs ==
    ASSUME TypeInv, NEW r \in DOMAIN runs, NEW st \in RunStatus, NEW f \in BOOLEAN,
           NEW e \in EventType, runs' = AddEvent(UpdateStatus(runs, r, st, f), r, e)
    PROVE  /\ DOMAIN runs' = DOMAIN runs
           /\ runs'[r].status = st /\ runs'[r].log = Append(runs[r].log, e)
           /\ \A q \in DOMAIN runs : q # r => runs'[q] = runs[q]
BY ClosesRow, LogGrows

LEMMA QuietHolds == Quiet => HeldBefore /\ executed \subseteq executed'
BY DEF Quiet, QuietWorkers, HeldBefore

LEMMA LoopLogs == TypeInv /\ LoopNext => LogQuiet
<1>1. LoopNext => UNCHANGED runs
  BY DEF LoopNext, StartLoops, RecoverOrphansFails, DispatchTick, DispatchWake,
     StopLoop, Scan, ScanFails, AbandonBatch, Spawn, storeVars
<1>. QED  BY <1>1, LoopQuiet, QuietHolds, UnchangedLogs

LEMMA ProcessLogs == TypeInv /\ ProcessNext => LogQuiet
<1>1. ProcessNext => UNCHANGED runs
  BY DEF ProcessNext, Shutdown, Crash, MainReturns, ProcessEnds, Restart, storeVars
<1>. QED  BY <1>1, ProcessQuiet, QuietHolds, UnchangedLogs

LEMMA RetentionLogs == TypeInv /\ RetentionNext => LogQuiet
<1>1. RetentionNext => \A q \in DOMAIN runs' : q \in DOMAIN runs /\ runs'[q] = runs[q]
  BY DEF RetentionNext, DeleteTerminalBefore
<1>. QED  BY <1>1, RetentionQuiet, QuietHolds DEF LogQuiet, Annotates

LEMMA ApiLogs == TypeInv /\ ApiNext => LogQuiet
<1> SUFFICES ASSUME TypeInv, ApiNext PROVE LogQuiet
  OBVIOUS
<1>1. HeldBefore /\ executed \subseteq executed'
  BY ApiQuiet, QuietHolds
<1>2. ASSUME NEW j \in Job, NEW s \in Time, TriggerJob(j, s) PROVE LogQuiet
  <2>1. lastRunId \in Nat /\ DOMAIN runs \subseteq 1 .. lastRunId
    BY Types
  <2>2. \A q \in DOMAIN runs' : IF q \in DOMAIN runs THEN Annotates(q) ELSE NewRow(q)
    BY <1>2, <2>1 DEF TriggerJob, Inserted, PendingRow, Annotates, NewRow
  <2>. QED  BY <1>1, <2>2 DEF LogQuiet
<1>3. ASSUME NEW j \in Job, DeleteJob(j) PROVE LogQuiet
  <2>1. \A q \in DOMAIN runs' : q \in DOMAIN runs /\ Annotates(q)
    BY <1>3 DEF DeleteJob, DeleteJobRow, Annotates
  <2>. QED  BY <1>1, <2>1 DEF LogQuiet
<1>4. ASSUME NEW c \in Client, CancelWrite(c) PROVE LogQuiet
  <2>1. request[c].write \in {"cancelled", "cancelling"} /\ request[c].finished \in BOOLEAN
    BY <1>4 DEF CancelWrite, CancelRequest, TypeInv, TypeOK, ControlTypeOK
  <2>2. request[c].write \in RunStatus
    BY <2>1 DEF RunStatus
  <2>3. IsTable(runs, lastRunId) /\ lastRunId \in Nat
    BY StoreIsTable DEF TypeInv, TypeOK
  <2>4. /\ DOMAIN runs' = DOMAIN runs
        /\ \A q \in DOMAIN runs :
              /\ runs'[q].log = runs[q].log
              /\ IF q = request[c].run THEN runs'[q].status = request[c].write
                                       ELSE runs'[q].status = runs[q].status
    BY <1>4, <2>1, <2>2, <2>3, UpdateStatusType DEF CancelWrite
  <2>5. \A q \in DOMAIN runs' : q \in DOMAIN runs /\ Annotates(q)
    BY <2>1, <2>4 DEF Annotates
  <2>. QED  BY <1>1, <2>5 DEF LogQuiet
<1>5. ASSUME UNCHANGED runs PROVE LogQuiet
  BY <1>1, <1>5, UnchangedLogs
<1>. QED  BY <1>2, <1>3, <1>4, <1>5 DEF ApiNext, UpdateJob, CancelRead, storeVars

LEMMA ClaimLogs ==
    ASSUME TypeInv, ExclusiveInv, NEW w \in Worker, ClaimRun(w) PROVE LogStarts(w)
<1> DEFINE r == target[w]
<1>1. r \in DOMAIN runs /\ runs[r].status = "pending" /\ runs[r].finished \in BOOLEAN
  BY ClaimStepFacts DEF TypeInv, TypeOK, StoreTypeOK, RunRow
<1>2. /\ DOMAIN runs' = DOMAIN runs /\ runs'[r].status = "running"
      /\ runs'[r].log = Append(runs[r].log, "started")
      /\ \A q \in DOMAIN runs : q # r => runs'[q] = runs[q]
  <2>1. "running" \in RunStatus /\ "started" \in EventType
    BY DEF RunStatus, EventType
  <2>2. runs' = AddEvent(UpdateStatus(runs, r, "running", runs[r].finished), r, "started")
    BY DEF ClaimRun, ClaimPending
  <2>. QED  BY <1>1, <2>1, <2>2, WriteLogs
<1>3. /\ UNCHANGED <<target, executed>>
      /\ \A v \in Worker : Holding(v)' /\ target[v] # r => Holding(v)
  BY ClaimStepFacts DEF Holding
<1>. QED  BY <1>1, <1>2, <1>3 DEF LogStarts

\* Only the goroutine that holds a run records an outcome of it: a result, or that
\* it was cancelled.
LEMMA FinalizeLogs ==
    ASSUME TypeInv, ExclusiveInv, NEW w \in Worker, FinalizeRun(w)
    PROVE  LogQuiet \/ LogEnds(w)
<1> DEFINE r == target[w]
<1>1. /\ pc[w] = "final" /\ UNCHANGED <<target, executed>> /\ r \in DOMAIN runs
      /\ pc'[w] = "signal" /\ \A v \in Worker \ {w} : pc'[v] = pc[v]
  BY Moves DEF FinalizeRun
<1>2. /\ DOMAIN Closed(w) = DOMAIN runs
      /\ Closed(w)[r].status = Verdict(w).status
      /\ Closed(w)[r].log = Append(runs[r].log, Verdict(w).event)
      /\ \A q \in DOMAIN runs : q # r => Closed(w)[q] = runs[q]
  BY <1>1, ClosedRow, ClosedLog
<1>3. lastRunId \in Nat /\ DOMAIN runs \subseteq 1 .. lastRunId
  BY Types
<1>4. /\ \A q \in DOMAIN runs : q \in DOMAIN runs' /\ runs'[q] = Closed(w)[q]
      /\ \A q \in DOMAIN runs' \ DOMAIN runs : NewRow(q)
  <2>1. CASE runs' = Closed(w)
    BY <1>2, <2>1
  <2>2. CASE runs' = Inserted(Closed(w), lastRunId + 1, RetryRow(w))
    BY <1>2, <1>3, <2>2 DEF Inserted, NewRow, RetryRow, PendingRow
  <2>. QED  BY <2>1, <2>2 DEF FinalizeRun
<1>5. CASE Verdict(w) = [status |-> "cancelled", event |-> "cancelled"]
  <2>1. \A q \in DOMAIN runs : Annotates(q)
    BY <1>2, <1>4, <1>5 DEF Annotates, EventType, ResultEvents
  <2>2. HeldBefore
    BY QuietMove DEF FinalizeRun, QuietWorkers, HeldBefore
  <2>. QED  BY <1>1, <1>4, <2>1, <2>2 DEF LogQuiet
<1>6. CASE /\ Verdict(w).event \in ResultEvents
           /\ Verdict(w).status \in {"success", "failed", "timeout"}
  <2>1. runs'[r].log = Append(runs[r].log, Verdict(w).event)
        /\ runs'[r].status = Verdict(w).status
    BY <1>1, <1>2, <1>4
  <2>2. \A q \in DOMAIN runs : q # r => runs'[q] = runs[q]
    BY <1>2, <1>4
  <2>3. \A v \in Worker : Holding(v)' => Holding(v) /\ target[v] # r
    BY <1>1 DEF ExclusiveInv, Holding
  <2>. QED  BY <1>1, <1>4, <1>6, <2>1, <2>2, <2>3 DEF LogEnds, Executing
<1>. QED  BY <1>5, <1>6 DEF Verdict, ResultEvents

LEMMA WorkerLogs ==
    ASSUME TypeInv, ExclusiveInv, NEW w \in Worker, WorkerNext(w)
    PROVE  LogQuiet \/ LogStarts(w) \/ LogEnds(w)
<1>1. CASE Execute(w)
  <2>1. UNCHANGED runs /\ executed \subseteq executed' /\ HeldBefore
    BY <1>1, ExecuteStepFacts DEF Holding, HeldBefore
  <2>. QED  BY <2>1, UnchangedLogs
<1>2. CASE CloseCancelling(w) \/ CloseClaimed(w)
  <2>1. HeldBefore /\ executed' = executed
    BY <1>2, QuietMove DEF CloseCancelling, CloseClaimed, QuietWorkers, HeldBefore
  <2>2. CASE UNCHANGED runs
    BY <2>1, <2>2, UnchangedLogs
  <2>3. CASE /\ target[w] \in DOMAIN runs
             /\ runs' = AddEvent(UpdateStatus(runs, target[w], "cancelled", TRUE),
                                 target[w], "cancelled")
    <3>1. /\ DOMAIN runs' = DOMAIN runs /\ runs'[target[w]].status = "cancelled"
          /\ runs'[target[w]].log = Append(runs[target[w]].log, "cancelled")
          /\ \A q \in DOMAIN runs : q # target[w] => runs'[q] = runs[q]
      <4>1. "cancelled" \in RunStatus /\ "cancelled" \in EventType
        BY DEF RunStatus, EventType
      <4>. QED  BY <2>3, <4>1, WriteLogs
    <3>2. \A q \in DOMAIN runs' : q \in DOMAIN runs /\ Annotates(q)
      BY <3>1 DEF Annotates, EventType, ResultEvents
    <3>. QED  BY <2>1, <3>2 DEF LogQuiet
  <2>. QED  BY <1>2, <2>2, <2>3 DEF CloseCancelling, CloseClaimed, HasStatus
<1>3. CASE UNCHANGED runs /\ ~ClaimRun(w) /\ ~Execute(w)
  BY <1>3, WorkerQuiet, QuietHolds, UnchangedLogs
<1>. QED
  BY <1>1, <1>2, <1>3, ClaimLogs, FinalizeLogs DEF WorkerNext, LoadRun, LoadFails,
     LeaveUnclaimed, StartTxFails, ExecuteReturns, FinalizeTxFails, SignalDispatch,
     ReleaseToken, storeVars

\* Whatever happens is one of the three.
LEMMA LogSteps ==
    TypeInv /\ ExclusiveInv /\ [Next]_vars
      => LogQuiet \/ \E w \in Worker : LogStarts(w) \/ LogEnds(w)
<1>1. UNCHANGED vars => LogQuiet
  BY UnchangedLogs DEF vars, storeVars, workerVars, HeldBefore, Holding
<1>. QED  BY <1>1, LoopLogs, ProcessLogs, RetentionLogs, ApiLogs, WorkerLogs DEF Next

-----------------------------------------------------------------------------

LEMMA AnnotatedRow ==
    ASSUME TypeInv, NEW q \in DOMAIN runs, Annotates(q)
    PROVE  Starts(runs'[q].log) = Starts(runs[q].log)
           /\ Results(runs'[q].log) = Results(runs[q].log)
<1>1. runs[q].log \in Seq(EventType)
  BY DEF TypeInv, TypeOK, StoreTypeOK, RunRow
<1>. QED  BY <1>1, Annotated DEF Annotates

LEMMA OldRow ==
    ASSUME TypeInv, LogInv, NEW q \in DOMAIN runs, Annotates(q), executed \subseteq executed'
    PROVE  RowTells(q)' /\ (Open(runs[q].log) => Open(runs'[q].log))
BY AnnotatedRow DEF LogInv, RowTells, OneExecution, Unstarted, Open, Annotates

LEMMA NewRowTells ==
    ASSUME NEW q, NewRow(q) PROVE RowTells(q)'
BY Created DEF NewRow, RowTells

LEMMA InitLogs == Init => LogInv
BY DEF Init, LogInv, HeldIsOpen, RowTells, Holding

\* A run that is held keeps its row until it is deleted, and then for good.
LEMMA HeldWasThere ==
    ASSUME TypeInv, HeldBefore, \A q \in DOMAIN runs' \ DOMAIN runs : q > lastRunId,
           NEW w \in Worker, Holding(w)', target'[w] \in DOMAIN runs'
    PROVE  Holding(w) /\ target'[w] = target[w] /\ target[w] \in DOMAIN runs
<1>1. Holding(w) /\ target'[w] = target[w]
  BY DEF HeldBefore
<1>2. target[w] \in 1 .. lastRunId /\ lastRunId \in Nat
  BY <1>1, Types DEF Holding
<1>. QED  BY <1>1, <1>2

LEMMA QuietLogs == ASSUME TypeInv, LogInv, LogQuiet PROVE LogInv'
<1>1. \A q \in DOMAIN runs' : RowTells(q)'
  BY OldRow, NewRowTells DEF LogQuiet
<1>2. ASSUME NEW w \in Worker, Holding(w)', target'[w] \in DOMAIN runs'
      PROVE  Open(runs'[target'[w]].log)
  <2>1. Holding(w) /\ target'[w] = target[w] /\ target[w] \in DOMAIN runs
    BY <1>2, HeldWasThere DEF LogQuiet, NewRow
  <2>. QED  BY <1>2, <2>1, OldRow DEF LogQuiet, LogInv, HeldIsOpen
<1>. QED  BY <1>1, <1>2 DEF LogInv, HeldIsOpen

LEMMA StartedLogs ==
    ASSUME TypeInv, LogInv, NEW w \in Worker, LogStarts(w) PROVE LogInv'
<1> DEFINE r == target[w]
<1>1. r \in DOMAIN runs /\ runs[r].status = "pending" /\ runs[r].log \in Seq(EventType)
  BY DEF LogStarts, TypeInv, TypeOK, StoreTypeOK, RunRow
<1>2. /\ DOMAIN runs' = DOMAIN runs /\ runs'[r].status = "running"
      /\ runs'[r].log = Append(runs[r].log, "started")
      /\ \A q \in DOMAIN runs : q # r => runs'[q] = runs[q]
      /\ UNCHANGED <<target, executed>>
      /\ \A v \in Worker : Holding(v)' /\ target[v] # r => Holding(v)
  BY DEF LogStarts
<1>3. OneExecution(runs'[r].log) /\ Open(runs'[r].log)
  BY <1>1, <1>2, Started DEF LogInv, RowTells
<1>. HIDE DEF r
<1>4. \A q \in DOMAIN runs' : RowTells(q)'
  BY <1>2, <1>3 DEF LogInv, RowTells
<1>5. \A v \in Worker : Holding(v)' /\ target[v] \in DOMAIN runs' => Open(runs'[target[v]].log)
  BY <1>2, <1>3 DEF LogInv, HeldIsOpen
<1>. QED  BY <1>2, <1>4, <1>5 DEF LogInv, HeldIsOpen

\* The outcome ends a log that was started and not ended.
LEMMA EndedLogs ==
    ASSUME TypeInv, ExclusiveInv, LogInv, NEW w \in Worker, LogEnds(w) PROVE LogInv'
<1> DEFINE r == target[w]
<1>1. /\ runs[r].log \in Seq(EventType) /\ r \in executed /\ r \in DOMAIN runs
      /\ OneExecution(runs[r].log) /\ Open(runs[r].log)
  BY DEF LogEnds, TypeInv, TypeOK, StoreTypeOK, RunRow, LogInv, HeldIsOpen, RowTells,
     ExclusiveInv, Holding, Executing
<1>2. /\ UNCHANGED <<target, executed>>
      /\ \A v \in Worker : Holding(v)' => Holding(v) /\ target[v] # r
      /\ \A q \in DOMAIN runs : q \in DOMAIN runs' /\ (q # r => runs'[q] = runs[q])
      /\ \A q \in DOMAIN runs' \ DOMAIN runs : NewRow(q)
      /\ runs'[r].status # "pending"
      /\ \E e \in ResultEvents : runs'[r].log = Append(runs[r].log, e)
  BY DEF LogEnds
<1>. HIDE DEF r
<1>3. OneExecution(runs'[r].log) /\ Results(runs'[r].log) # {}
  BY <1>1, <1>2, Ended
<1>4. \A q \in DOMAIN runs' : RowTells(q)'
  BY <1>1, <1>2, <1>3, NewRowTells DEF LogInv, RowTells
<1>5. \A v \in Worker : Holding(v)' /\ target[v] \in DOMAIN runs' => Open(runs'[target[v]].log)
  <2>1. \A v \in Worker : target[v] \in DOMAIN runs' => target[v] \in DOMAIN runs
    BY <1>2, Types DEF NewRow
  <2>. QED  BY <1>2, <2>1 DEF LogInv, HeldIsOpen
<1>. QED  BY <1>2, <1>4, <1>5 DEF LogInv, HeldIsOpen

LEMMA NextLogs == TypeInv /\ ExclusiveInv /\ LogInv /\ [Next]_vars => LogInv'
BY LogSteps, QuietLogs, StartedLogs, EndedLogs

\* The events of a run tell one execution of it, whatever cancellations, rolled back
\* transactions and restarts come between: one start, then one result, and no result
\* status without both.
THEOREM LogsTellOneExecution == Spec => []LogTellsExecution
<1>1. LogInv => LogTellsExecution
  BY DEF LogInv, RowTells, LogTellsExecution, OneExecution, Starts, Results, EventsAt
<1>2. ClaimInv => ExclusiveInv
  BY DEF ClaimInv
<1>. QED
  BY <1>1, <1>2, InitLogs, NextLogs, TypeInvariant, ClaimsExclusive, PTL DEF Spec
=============================================================================
