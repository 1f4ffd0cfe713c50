--------------------------- MODULE DispatchProofs ---------------------------
(***************************************************************************)
(* Safety of Dispatch for every number of goroutines, clients, jobs,       *)
(* instants and tokens, and whatever the bounds MaxRuns and MaxExits are.  *)
(***************************************************************************)
EXTENDS Dispatch, FiniteSetTheorems, TLAPS

-----------------------------------------------------------------------------
(* The row operations of RunStore: what each of them does to the type of a *)
(* table, to its keys and to the rows it does not touch, and the bound on  *)
(* what ListPending returns.                                               *)

\* A table of runs whose ids lie in 1..n.
IsTable(t, n) == DOMAIN t \subseteq 1 .. n /\ t \in [DOMAIN t -> RunRow]

\* UpdateStatus keeps the ids and changes at most one row, in two columns
\* (RunRepo.UpdateStatus).
LEMMA UpdateStatusType ==
    ASSUME NEW t, NEW n \in Nat, IsTable(t, n), NEW r,
           NEW st \in RunStatus, NEW f \in BOOLEAN
    PROVE  /\ IsTable(UpdateStatus(t, r, st, f), n)
           /\ DOMAIN UpdateStatus(t, r, st, f) = DOMAIN t
           /\ \A q \in DOMAIN t :
                 LET u == UpdateStatus(t, r, st, f)[q] IN
                 /\ u.job = t[q].job /\ u.slot = t[q].slot
                 /\ u.attempt = t[q].attempt /\ u.log = t[q].log
                 /\ q # r => u = t[q]
                 /\ q = r => u.status = st /\ u.finished = f
<1> DEFINE u == UpdateStatus(t, r, st, f)
<1>1. DOMAIN u = DOMAIN t
  BY DEF UpdateStatus
<1>2. ASSUME NEW q \in DOMAIN t
      PROVE  /\ u[q] \in RunRow
             /\ u[q].job = t[q].job /\ u[q].slot = t[q].slot
             /\ u[q].attempt = t[q].attempt /\ u[q].log = t[q].log
             /\ q # r => u[q] = t[q]
             /\ q = r => u[q].status = st /\ u[q].finished = f
  <2>1. t[q] \in RunRow
    BY DEF IsTable
  <2>2. u[q] = IF q = r THEN [t[q] EXCEPT !.status = st, !.finished = f] ELSE t[q]
    BY DEF UpdateStatus
  <2>. QED  BY <2>1, <2>2 DEF RunRow
<1>3. u = [q \in DOMAIN t |-> u[q]]
  BY DEF UpdateStatus
<1>. QED  BY <1>1, <1>2, <1>3 DEF IsTable

\* AddEvent keeps everything but the log of one row (EventRepo.Create).
LEMMA AddEventType ==
    ASSUME NEW t, NEW n \in Nat, IsTable(t, n), NEW r, NEW e \in EventType
    PROVE  /\ IsTable(AddEvent(t, r, e), n)
           /\ DOMAIN AddEvent(t, r, e) = DOMAIN t
           /\ \A q \in DOMAIN t :
                 LET u == AddEvent(t, r, e)[q] IN
                 /\ u.job = t[q].job /\ u.slot = t[q].slot
                 /\ u.attempt = t[q].attempt /\ u.status = t[q].status
                 /\ u.finished = t[q].finished
                 /\ q # r => u = t[q]
                 /\ q = r => u.log = Append(t[q].log, e)
<1> DEFINE u == AddEvent(t, r, e)
<1>1. DOMAIN u = DOMAIN t
  BY DEF AddEvent
<1>2. ASSUME NEW q \in DOMAIN t
      PROVE  /\ u[q] \in RunRow
             /\ u[q].job = t[q].job /\ u[q].slot = t[q].slot
             /\ u[q].attempt = t[q].attempt /\ u[q].status = t[q].status
             /\ u[q].finished = t[q].finished
             /\ q # r => u[q] = t[q]
             /\ q = r => u[q].log = Append(t[q].log, e)
  <2>1. t[q] \in RunRow
    BY DEF IsTable
  <2>2. u[q] = IF q = r THEN [t[q] EXCEPT !.log = Append(@, e)] ELSE t[q]
    BY DEF AddEvent
  <2>3. Append(t[q].log, e) \in Seq(EventType)
    BY <2>1 DEF RunRow
  <2>. QED  BY <2>1, <2>2, <2>3 DEF RunRow
<1>3. u = [q \in DOMAIN t |-> u[q]]
  BY DEF AddEvent
<1>. QED  BY <1>1, <1>2, <1>3 DEF IsTable

\* Inserted adds one row and keeps the others (RunRepo.Create).
LEMMA InsertedType ==
    ASSUME NEW t, NEW n \in Nat, IsTable(t, n), NEW id, id = n + 1,
           NEW row \in RunRow
    PROVE  /\ IsTable(Inserted(t, id, row), id)
           /\ DOMAIN Inserted(t, id, row) = DOMAIN t \cup {id}
           /\ id \notin DOMAIN t
           /\ Inserted(t, id, row)[id] = row
           /\ \A q \in DOMAIN t : Inserted(t, id, row)[q] = t[q]
<1> DEFINE u == Inserted(t, id, row)
<1>1. DOMAIN u = DOMAIN t \cup {id}
  BY DEF Inserted
<1>2. id \notin DOMAIN t
  BY DEF IsTable
<1>3. u[id] = row /\ \A q \in DOMAIN t : u[q] = t[q]
  BY <1>2 DEF Inserted
<1>4. \A q \in DOMAIN u : u[q] \in RunRow
  BY <1>1, <1>3 DEF IsTable
<1>5. u = [q \in DOMAIN u |-> u[q]]
  BY DEF Inserted
<1>6. DOMAIN u \subseteq 1 .. id
  BY <1>1 DEF IsTable
<1>. QED  BY <1>1, <1>2, <1>3, <1>4, <1>5, <1>6 DEF IsTable

LEMMA PendingRowType ==
    ASSUME NEW j \in Job, NEW s \in Time, NEW a \in Nat
    PROVE  PendingRow(j, s, a) \in RunRow
<1>1. <<"created">> \in Seq(EventType)
  BY DEF EventType
<1>. QED  BY <1>1 DEF PendingRow, RunRow, RunStatus

\* Before is a strict total order on the rows, so ranks tell the listed runs
\* apart: ListPending(n) has at most n of them (LIMIT in RunRepo.ListPending).
LEMMA ListPendingBound ==
    ASSUME StoreTypeOK, NEW n \in Nat
    PROVE  /\ ListPending(n) \subseteq DOMAIN runs
           /\ IsFiniteSet(ListPending(n))
           /\ Cardinality(ListPending(n)) <= n
<1> DEFINE Ahead(r) == {q \in Pending : Before(q, r)}
           rank == [r \in ListPending(n) |-> Cardinality(Ahead(r))]
<1>1. Pending \subseteq 1 .. lastRunId /\ IsFiniteSet(Pending)
  <2>1. IsFiniteSet(1 .. lastRunId)
    <3>1. 1 \in Int /\ lastRunId \in Int
      BY DEF StoreTypeOK
    <3>. QED  BY <3>1, FS_Interval, Zenon
  <2>2. Pending \subseteq 1 .. lastRunId
    BY DEF Pending, StoreTypeOK
  <2>. QED  BY <2>1, <2>2, FS_Subset
<1>2. \A r : IsFiniteSet(Ahead(r)) /\ Cardinality(Ahead(r)) \in Nat
  BY <1>1, FS_Subset, FS_CardinalityType
<1>3. ASSUME NEW q \in Pending, NEW r \in Pending, Before(q, r)
      PROVE  Cardinality(Ahead(q)) < Cardinality(Ahead(r))
  <2>1. \A p \in Pending : runs[p].slot \in Int /\ p \in Int
    BY <1>1, TimeAssumption DEF Pending, StoreTypeOK, RunRow
  <2>2. \A p \in Pending : Before(p, q) => Before(p, r)
    BY <1>3, <2>1 DEF Before
  <2>3. ~Before(q, q)
    BY <2>1 DEF Before
  <2>4. Ahead(q) \in SUBSET Ahead(r) /\ q \in Ahead(r) /\ q \notin Ahead(q)
    BY <1>3, <2>2, <2>3
  <2>5. /\ Cardinality(Ahead(q)) <= Cardinality(Ahead(r))
        /\ Cardinality(Ahead(r)) = Cardinality(Ahead(q)) => Ahead(r) = Ahead(q)
    BY <1>2, <2>4, FS_Subset
  <2>6. Ahead(r) # Ahead(q)
    BY <2>4
  <2>. QED  BY <1>2, <2>5, <2>6
<1>4. ASSUME NEW q \in Pending, NEW r \in Pending, q # r
      PROVE  Before(q, r) \/ Before(r, q)
  <2>1. \A p \in Pending : runs[p].slot \in Int /\ p \in Int
    BY <1>1, TimeAssumption DEF Pending, StoreTypeOK, RunRow
  <2>. QED  BY <1>4, <2>1 DEF Before
<1>5. rank \in [ListPending(n) -> 0 .. n - 1]
  BY <1>2 DEF ListPending
<1>6. \A q, r \in ListPending(n) : rank[q] = rank[r] => q = r
  <2>1. \A q \in ListPending(n) : q \in Pending /\ rank[q] = Cardinality(Ahead(q))
    BY DEF ListPending
  <2>. HIDE DEF Ahead, rank
  <2>2. SUFFICES ASSUME NEW q \in ListPending(n), NEW r \in ListPending(n),
                        rank[q] = rank[r], q # r
                 PROVE  FALSE
    OBVIOUS
  <2>3. q \in Pending /\ r \in Pending /\ Cardinality(Ahead(q)) = Cardinality(Ahead(r))
    BY <2>1, <2>2
  <2>4. Before(q, r) \/ Before(r, q)
    BY <1>4, <2>2, <2>3
  <2>5. \/ Cardinality(Ahead(q)) < Cardinality(Ahead(r))
        \/ Cardinality(Ahead(r)) < Cardinality(Ahead(q))
    BY <1>3, <2>3, <2>4
  <2>. QED  BY <1>2, <2>3, <2>5
<1>7. rank \in Injection(ListPending(n), 0 .. n - 1)
  BY <1>5, <1>6 DEF Injection, IsInjective
<1>8. IsFiniteSet(0 .. n - 1) /\ Cardinality(0 .. n - 1) = n
  BY FS_Interval
<1>9. IsFiniteSet(ListPending(n)) /\ Cardinality(ListPending(n)) <= n
  BY <1>7, <1>8, FS_Injection
<1>. QED  BY <1>9 DEF ListPending, Pending

-----------------------------------------------------------------------------
(* Type correctness.                                                       *)

\* TypeOK is inductive together with the foreign key: LoadRun reads the job
\* of a run.
TypeInv == TypeOK /\ ForeignKey

LEMMA StoreIsTable == StoreTypeOK => IsTable(runs, lastRunId) /\ lastRunId \in Nat
BY DEF StoreTypeOK, IsTable

LEMMA InitType == Init => TypeInv
<1> SUFFICES ASSUME Init PROVE TypeInv
  OBVIOUS
<1>1. DOMAIN runs = {} /\ runs \in [DOMAIN runs -> RunRow]
  BY DEF Init
<1>2. StoreTypeOK
  <2>1. jobs \in [Job -> JobRow]
    BY DispatchAssumption DEF Init, JobRow
  <2>. QED  BY <1>1, <2>1 DEF Init, StoreTypeOK
<1>3. ForeignKey
  BY <1>1 DEF ForeignKey
<1>4. ControlTypeOK
  <2>1. NoRequest \in CancelRequest(lastRunId)
    BY DEF CancelRequest
  <2>2. \A S, T : \A x \in T : [y \in S |-> x] \in [S -> T]
    OBVIOUS
  <2>3. pc \in [Worker -> WorkerState]
    BY <2>2 DEF Init, WorkerState
  <2>4. target \in [Worker -> 0 .. lastRunId]
    BY <2>2 DEF Init, NoRun
  <2>5. request \in [Client -> CancelRequest(lastRunId)]
    BY <2>1, <2>2 DEF Init
  <2>6. /\ limit \in [Worker -> Int]
        /\ outcome \in [Worker -> {"none", "success", "timeout", "failed"}]
    BY <2>2 DEF Init
  <2>8. \A w \in Worker : pc[w] = "idle"
    BY DEF Init
  <2>7. /\ up \in BOOLEAN /\ ctxDone \in BOOLEAN /\ exits \in Nat
        /\ loop \in LoopState /\ batch \subseteq 1 .. lastRunId
        /\ tokens \in Nat /\ wakeup \in BOOLEAN
        /\ executed \subseteq 1 .. lastRunId
    BY DEF Init, LoopState
  <2>. QED  BY <2>3, <2>4, <2>5, <2>6, <2>7, <2>8 DEF ControlTypeOK
<1>. QED  BY <1>2, <1>3, <1>4 DEF TypeInv, TypeOK

\* What a step does to the store: it leaves it alone, changes rows in place,
\* inserts one row, or deletes the rows of a job.
LEMMA KeepsStore ==
    ASSUME TypeInv, UNCHANGED storeVars
    PROVE  (StoreTypeOK /\ ForeignKey)' /\ lastRunId' = lastRunId
BY DEF TypeInv, TypeOK, StoreTypeOK, ForeignKey, storeVars

LEMMA ChangesRows ==
    ASSUME TypeInv, IsTable(runs', lastRunId), DOMAIN runs' = DOMAIN runs,
           \A r \in DOMAIN runs : runs'[r].job = runs[r].job,
           UNCHANGED <<jobs, lastRunId>>
    PROVE  (StoreTypeOK /\ ForeignKey)' /\ lastRunId' = lastRunId
BY DEF TypeInv, TypeOK, StoreTypeOK, ForeignKey, IsTable

LEMMA InsertsRow ==
    ASSUME TypeInv, NEW t, IsTable(t, lastRunId), DOMAIN t = DOMAIN runs,
           \A r \in DOMAIN runs : t[r].job = runs[r].job,
           NEW row \in RunRow, row.job \in DOMAIN jobs,
           NEW id, id = lastRunId + 1,
           runs' = Inserted(t, id, row), lastRunId' = id, UNCHANGED jobs
    PROVE  (StoreTypeOK /\ ForeignKey)'
<1>1. lastRunId \in Nat
  BY DEF TypeInv, TypeOK, StoreTypeOK
<1> DEFINE u == Inserted(t, id, row)
<1>3. runs' = u
  OBVIOUS
<1>4. /\ IsTable(Inserted(t, id, row), id)
      /\ DOMAIN Inserted(t, id, row) = DOMAIN t \cup {id}
      /\ Inserted(t, id, row)[id] = row
      /\ \A r \in DOMAIN t : Inserted(t, id, row)[r] = t[r]
  BY ONLY <1>1, IsTable(t, lastRunId), row \in RunRow, id = lastRunId + 1,
          InsertedType
<1>2. /\ IsTable(u, id) /\ DOMAIN u = DOMAIN t \cup {id}
      /\ u[id] = row /\ \A r \in DOMAIN t : u[r] = t[r]
  BY <1>4
<1>. HIDE DEF u
<1>. QED  BY <1>1, <1>2, <1>3 DEF TypeInv, TypeOK, StoreTypeOK, ForeignKey, IsTable

LEMMA DeletesRows ==
    ASSUME TypeInv, NEW j \in Job, DeleteJobRow(j)
    PROVE  (StoreTypeOK /\ ForeignKey)' /\ lastRunId' = lastRunId
BY DEF TypeInv, TypeOK, StoreTypeOK, ForeignKey, DeleteJobRow

LEMMA UpdatesJob ==
    ASSUME TypeInv, NEW j \in Job, NEW input \in JobInputs, NEW s \in Time,
           j \in DOMAIN jobs,
           jobs' = UpdateJobRow(jobs, j, [input |-> input, next |-> s]),
           UNCHANGED <<runs, lastRunId>>
    PROVE  (StoreTypeOK /\ ForeignKey)' /\ lastRunId' = lastRunId
<1>1. [input |-> input, next |-> s] \in JobRow
  BY DispatchAssumption DEF JobRow
<1>. QED  BY <1>1 DEF TypeInv, TypeOK, StoreTypeOK, ForeignKey, UpdateJobRow

\* A status and its event are written to one row, and no key changes.
LEMMA ClosesRow ==
    ASSUME TypeInv, NEW r, NEW st \in RunStatus, NEW f \in BOOLEAN,
           NEW e \in EventType
    PROVE  LET t == AddEvent(UpdateStatus(runs, r, st, f), r, e) IN
           /\ IsTable(t, lastRunId) /\ DOMAIN t = DOMAIN runs
           /\ \A q \in DOMAIN runs :
                 /\ t[q].job = runs[q].job /\ t[q].slot = runs[q].slot
                 /\ t[q].attempt = runs[q].attempt
                 /\ q # r => t[q] = runs[q]
                 /\ q = r => t[q].status = st
<1> DEFINE u == UpdateStatus(runs, r, st, f)
           t == AddEvent(u, r, e)
<1>1. IsTable(runs, lastRunId) /\ lastRunId \in Nat
  BY StoreIsTable DEF TypeInv, TypeOK
<1>2. /\ IsTable(u, lastRunId) /\ DOMAIN u = DOMAIN runs
      /\ \A q \in DOMAIN runs :
            /\ u[q].job = runs[q].job /\ u[q].slot = runs[q].slot
            /\ u[q].attempt = runs[q].attempt
            /\ q # r => u[q] = runs[q]
            /\ q = r => u[q].status = st
  BY <1>1, UpdateStatusType
<1>. HIDE DEF u
<1>3. /\ IsTable(t, lastRunId) /\ DOMAIN t = DOMAIN u
      /\ \A q \in DOMAIN u :
            /\ t[q].job = u[q].job /\ t[q].slot = u[q].slot
            /\ t[q].attempt = u[q].attempt /\ t[q].status = u[q].status
            /\ q # r => t[q] = u[q]
  BY <1>1, <1>2, AddEventType
<1>4. /\ IsTable(t, lastRunId) /\ DOMAIN t = DOMAIN runs
      /\ \A q \in DOMAIN runs :
            /\ t[q].job = runs[q].job /\ t[q].slot = runs[q].slot
            /\ t[q].attempt = runs[q].attempt
            /\ q # r => t[q] = runs[q]
            /\ q = r => t[q].status = st
  BY <1>2, <1>3
<1>. QED  BY <1>4 DEF u

\* The event comes last in the log of that row.
LEMMA LogGrows ==
    ASSUME TypeInv, NEW r \in DOMAIN runs, NEW st \in RunStatus, NEW f \in BOOLEAN,
           NEW e \in EventType
    PROVE  AddEvent(UpdateStatus(runs, r, st, f), r, e)[r].log = Append(runs[r].log, e)
<1> DEFINE u == UpdateStatus(runs, r, st, f)
<1>1. IsTable(runs, lastRunId) /\ lastRunId \in Nat
  BY StoreIsTable DEF TypeInv, TypeOK
<1>2. IsTable(u, lastRunId) /\ r \in DOMAIN u /\ u[r].log = runs[r].log
  BY <1>1, UpdateStatusType
<1>. HIDE DEF u
<1>3. AddEvent(u, r, e)[r].log = Append(u[r].log, e)
  BY <1>1, <1>2, AddEventType
<1>. QED  BY <1>2, <1>3 DEF u

\* A step of the dispatch loop keeps the types.
LEMMA LoopType == TypeInv /\ LoopNext => TypeInv'
<1> SUFFICES ASSUME TypeInv, LoopNext PROVE TypeInv'
  OBVIOUS
<1>1. UNCHANGED storeVars
  BY DEF LoopNext, StartLoops, RecoverOrphansFails, DispatchTick, DispatchWake,
         StopLoop, Scan, ScanFails, AbandonBatch, Spawn
<1>2. (StoreTypeOK /\ ForeignKey)' /\ lastRunId' = lastRunId
  BY <1>1, KeepsStore
<1>3. ControlTypeOK /\ StoreTypeOK
  BY DEF TypeInv, TypeOK
<1>4. CASE \/ StartLoops \/ RecoverOrphansFails \/ DispatchTick \/ DispatchWake
           \/ StopLoop \/ ScanFails \/ AbandonBatch
  <2>1. ControlTypeOK'
    BY <1>2, <1>3, <1>4 DEF ControlTypeOK, LoopState, StartLoops,
       RecoverOrphansFails, DispatchTick, DispatchWake, StopLoop, ScanFails,
       AbandonBatch, processVars, workerVars
  <2>. QED  BY <1>2, <2>1 DEF TypeInv, TypeOK
<1>5. CASE Scan
  <2>1. ScanResult \subseteq 1 .. lastRunId
    BY <1>3 DEF ScanResult, ListPending, Pending, StoreTypeOK
  <2>2. ControlTypeOK'
    BY <1>2, <1>3, <1>5, <2>1 DEF ControlTypeOK, LoopState, Scan, processVars,
       workerVars
  <2>. QED  BY <1>2, <2>2 DEF TypeInv, TypeOK
<1>6. ASSUME NEW w \in Worker, NEW r \in batch, Spawn(r, w)
      PROVE  TypeInv'
  <2>1. batch' \subseteq 1 .. lastRunId' /\ tokens' \in Nat /\ loop' \in LoopState
    BY <1>2, <1>3, <1>6 DEF ControlTypeOK, LoopState, Spawn
  <2>2. r \in 0 .. lastRunId
    BY <1>3 DEF ControlTypeOK
  <2>3. pc' \in [Worker -> WorkerState] /\ target' \in [Worker -> 0 .. lastRunId']
    BY <1>2, <1>3, <1>6, <2>2 DEF ControlTypeOK, WorkerState, Spawn
  <2>4. \A v \in Worker : pc'[v] # "idle" => target'[v] # NoRun
    BY <1>3, <1>6 DEF ControlTypeOK, Spawn, NoRun
  <2>5. ControlTypeOK'
    BY <1>2, <1>3, <1>6, <2>1, <2>3, <2>4 DEF ControlTypeOK, Spawn, processVars
  <2>. QED  BY <1>2, <2>5 DEF TypeInv, TypeOK
<1>. QED  BY <1>4, <1>5, <1>6 DEF LoopNext

\* The rows that FinalizeRun, CloseCancelling and CloseClaimed write are typed.
LEMMA VerdictType ==
    ASSUME NEW w
    PROVE  Verdict(w).status \in RunStatus /\ Verdict(w).event \in EventType
BY DEF Verdict, RunStatus, EventType

\* Closing the row of w's run changes that row only, and no key (FinalizeRun).
LEMMA ClosedRow ==
    ASSUME TypeInv, NEW w
    PROVE  /\ IsTable(Closed(w), lastRunId) /\ DOMAIN Closed(w) = DOMAIN runs
           /\ \A q \in DOMAIN runs :
                 /\ Closed(w)[q].job = runs[q].job
                 /\ Closed(w)[q].slot = runs[q].slot
                 /\ Closed(w)[q].attempt = runs[q].attempt
                 /\ q # target[w] => Closed(w)[q] = runs[q]
                 /\ q = target[w] => Closed(w)[q].status = Verdict(w).status
<1> DEFINE st == Verdict(w).status
           e == Verdict(w).event
<1>1. st \in RunStatus /\ e \in EventType
  BY VerdictType
<1>2. PICK f \in BOOLEAN :
         Closed(w) = AddEvent(UpdateStatus(runs, target[w], st, f), target[w], e)
  BY DEF Closed
<1>. HIDE DEF st
<1>3. ASSUME NEW s \in RunStatus, NEW x \in EventType, NEW t,
             t = AddEvent(UpdateStatus(runs, target[w], s, f), target[w], x)
      PROVE  /\ IsTable(t, lastRunId) /\ DOMAIN t = DOMAIN runs
             /\ \A q \in DOMAIN runs :
                   /\ t[q].job = runs[q].job /\ t[q].slot = runs[q].slot
                   /\ t[q].attempt = runs[q].attempt
                   /\ q # target[w] => t[q] = runs[q]
                   /\ q = target[w] => t[q].status = s
  BY <1>3, ClosesRow
<1>. QED  BY <1>1, <1>2, <1>3 DEF st

LEMMA ClosedLog ==
    ASSUME TypeInv, NEW w, target[w] \in DOMAIN runs
    PROVE  Closed(w)[target[w]].log = Append(runs[target[w]].log, Verdict(w).event)
<1>1. PICK f \in BOOLEAN :
         Closed(w) = AddEvent(UpdateStatus(runs, target[w], Verdict(w).status, f),
                              target[w], Verdict(w).event)
  BY DEF Closed
<1>2. ASSUME NEW s \in RunStatus, NEW x \in EventType
      PROVE  AddEvent(UpdateStatus(runs, target[w], s, f), target[w], x)[target[w]].log
                = Append(runs[target[w]].log, x)
  BY LogGrows
<1>. QED  BY <1>1, <1>2, VerdictType

LEMMA RetryRowType ==
    ASSUME TypeInv, NEW w, target[w] \in DOMAIN runs
    PROVE  /\ RetryRow(w) \in RunRow
           /\ RetryRow(w).job = runs[target[w]].job
           /\ RetryRow(w).slot = runs[target[w]].slot
           /\ RetryRow(w).attempt = runs[target[w]].attempt + 1
           /\ RetryRow(w).status = "pending"
<1>1. runs[target[w]] \in RunRow
  BY DEF TypeInv, TypeOK, StoreTypeOK
<1>2. /\ runs[target[w]].job \in Job /\ runs[target[w]].slot \in Time
      /\ runs[target[w]].attempt + 1 \in Nat
  BY <1>1 DEF RunRow
<1>3. RetryRow(w) \in RunRow
  BY <1>2, PendingRowType DEF RetryRow
<1>. QED  BY <1>3 DEF RetryRow, PendingRow

\* A step of a worker keeps the types.
LEMMA WorkerType == ASSUME NEW w \in Worker, TypeInv, WorkerNext(w) PROVE TypeInv'
<1>1. ControlTypeOK /\ StoreTypeOK /\ lastRunId \in Nat
  BY DEF TypeInv, TypeOK, StoreTypeOK
<1>2. ASSUME NEW s \in WorkerState \ {"idle"}, Goto(w, s), pc[w] # "idle",
             UNCHANGED <<target, batch, up, ctxDone, exits, loop, tokens>>,
             StoreTypeOK', ForeignKey', lastRunId' \in Nat,
             lastRunId' >= lastRunId, executed' \subseteq executed \cup {target[w]},
             request' = request, wakeup' \in BOOLEAN,
             limit' \in [Worker -> Int],
             outcome' \in [Worker -> {"none", "success", "timeout", "failed"}]
      PROVE  TypeInv'
  <2>1. pc' \in [Worker -> WorkerState]
    BY <1>1, <1>2 DEF ControlTypeOK, Goto
  <2>2. \A v \in Worker : pc'[v] # "idle" => pc[v] # "idle"
    BY <1>1, <1>2 DEF ControlTypeOK, Goto
  <2>3. target[w] \in 1 .. lastRunId
    BY <1>1, <1>2 DEF ControlTypeOK, NoRun
  <2>4. 0 .. lastRunId \subseteq 0 .. lastRunId' /\ 1 .. lastRunId \subseteq 1 .. lastRunId'
    BY <1>1, <1>2
  <2>5. target' \in [Worker -> 0 .. lastRunId'] /\ batch' \subseteq 1 .. lastRunId'
    BY <1>1, <1>2, <2>4 DEF ControlTypeOK
  <2>6. executed' \subseteq 1 .. lastRunId'
    BY <1>1, <1>2, <2>3, <2>4 DEF ControlTypeOK
  <2>7. request' \in [Client -> CancelRequest(lastRunId')]
    BY <1>1, <1>2, <2>4 DEF ControlTypeOK, CancelRequest
  <2>8. ControlTypeOK'
    BY <1>1, <1>2, <2>1, <2>2, <2>5, <2>6, <2>7 DEF ControlTypeOK
  <2>. QED  BY <1>2, <2>8 DEF TypeInv, TypeOK
<1>3. /\ limit \in [Worker -> Int] /\ wakeup \in BOOLEAN
      /\ outcome \in [Worker -> {"none", "success", "timeout", "failed"}]
  BY <1>1 DEF ControlTypeOK
<1>4. ASSUME UNCHANGED storeVars, NEW s \in WorkerState \ {"idle"}, Goto(w, s),
             pc[w] # "idle",
             UNCHANGED <<target, batch, up, ctxDone, exits, loop, tokens>>,
             executed' \subseteq executed \cup {target[w]},
             request' = request, wakeup' \in BOOLEAN,
             limit' \in [Worker -> Int],
             outcome' \in [Worker -> {"none", "success", "timeout", "failed"}]
      PROVE  TypeInv'
  <2>1. (StoreTypeOK /\ ForeignKey)' /\ lastRunId' = lastRunId
    BY <1>4, KeepsStore
  <2>. QED  BY <1>1, <1>2, <1>4, <2>1
<1>5. CASE LoadRun(w)
  <2>1. limit' \in [Worker -> Int]
    <3>1. runs[target[w]].job \in DOMAIN jobs
      BY <1>5 DEF LoadRun, TypeInv, ForeignKey
    <3>2. jobs[runs[target[w]].job].input.retryLimit \in Int
      BY <1>1, <3>1 DEF StoreTypeOK, JobRow, JobInput
    <3>. QED  BY <1>3, <1>5, <3>2 DEF LoadRun
  <2>. QED  BY <1>3, <1>4, <1>5, <2>1 DEF LoadRun, WorkerState, processVars, loopVars
<1>6. CASE \/ LoadFails(w) \/ StartTxFails(w)
  BY <1>3, <1>4, <1>6 DEF LoadFails, StartTxFails, WorkerState, processVars, loopVars
<1>7. CASE LeaveUnclaimed(w) \/ FinalizeTxFails(w)
  BY <1>3, <1>4, <1>7 DEF LeaveUnclaimed, FinalizeTxFails, WorkerState, processVars, loopVars
<1>8. CASE Execute(w) \/ SignalDispatch(w)
  BY <1>3, <1>4, <1>8 DEF Execute, SignalDispatch, WorkerState, processVars, loopVars
<1>9. ASSUME NEW how \in {"success", "timeout", "failed"}, ExecuteReturns(w, how)
      PROVE  TypeInv'
  <2>1. outcome' \in [Worker -> {"none", "success", "timeout", "failed"}]
    BY <1>3, <1>9 DEF ExecuteReturns
  <2>. QED  BY <1>3, <1>4, <1>9, <2>1 DEF ExecuteReturns, WorkerState, processVars, loopVars
<1>10. CASE ReleaseToken(w)
  <2>1. (StoreTypeOK /\ ForeignKey)' /\ lastRunId' = lastRunId
    BY <1>10, KeepsStore DEF ReleaseToken
  <2>2. pc' \in [Worker -> WorkerState] /\ target' \in [Worker -> 0 .. lastRunId']
    BY <1>1, <1>10, <2>1 DEF ControlTypeOK, WorkerState, ReleaseToken, Goto, NoRun
  <2>3. \A v \in Worker : pc'[v] # "idle" => target'[v] # NoRun
    BY <1>1, <1>10 DEF ControlTypeOK, ReleaseToken, Goto
  <2>4. /\ tokens' \in Nat /\ limit' \in [Worker -> Int]
        /\ outcome' \in [Worker -> {"none", "success", "timeout", "failed"}]
    BY <1>1, <1>10 DEF ControlTypeOK, ReleaseToken
  <2>5. ControlTypeOK'
    BY <1>1, <1>10, <2>1, <2>2, <2>3, <2>4 DEF ControlTypeOK, ReleaseToken,
       processVars, loopVars
  <2>. QED  BY <2>1, <2>5 DEF TypeInv, TypeOK
\* The steps that write the row of the worker's run.
<1>11. ASSUME NEW st \in RunStatus, NEW f \in BOOLEAN, NEW e \in EventType,
              runs' = AddEvent(UpdateStatus(runs, target[w], st, f), target[w], e),
              UNCHANGED <<jobs, lastRunId>>
       PROVE  (StoreTypeOK /\ ForeignKey)' /\ lastRunId' = lastRunId
  <2>1. /\ IsTable(runs', lastRunId) /\ DOMAIN runs' = DOMAIN runs
        /\ \A r \in DOMAIN runs : runs'[r].job = runs[r].job
    BY <1>11, ClosesRow
  <2>. QED  BY <1>11, <2>1, ChangesRows
<1>12. CASE ClaimRun(w)
  <2>1. target[w] \in DOMAIN runs
    BY <1>12 DEF ClaimRun, Claimable, HasStatus
  <2>2. runs[target[w]].finished \in BOOLEAN /\ "running" \in RunStatus /\ "started" \in EventType
    BY <1>1, <2>1 DEF StoreTypeOK, RunRow, RunStatus, EventType
  <2>3. (StoreTypeOK /\ ForeignKey)' /\ lastRunId' = lastRunId
    BY <1>11, <1>12, <2>2 DEF ClaimRun, ClaimPending
  <2>. QED  BY <1>1, <1>2, <1>3, <1>12, <2>3 DEF ClaimRun, WorkerState, processVars, loopVars
<1>13. CASE CloseCancelling(w)
  <2>1. (StoreTypeOK /\ ForeignKey)' /\ lastRunId' = lastRunId
    BY <1>11, <1>13 DEF CloseCancelling, RunStatus, EventType
  <2>. QED  BY <1>1, <1>2, <1>3, <1>13, <2>1 DEF CloseCancelling, WorkerState, processVars, loopVars
<1>14. CASE CloseClaimed(w)
  <2>1. (StoreTypeOK /\ ForeignKey)' /\ lastRunId' = lastRunId
    <3>1. CASE UNCHANGED runs
      BY <1>14, <3>1, KeepsStore DEF CloseClaimed, storeVars
    <3>2. CASE runs' # runs
      BY <1>11, <1>14, <3>2 DEF CloseClaimed, RunStatus, EventType
    <3>. QED  BY <3>1, <3>2
  <2>. QED  BY <1>1, <1>2, <1>3, <1>14, <2>1 DEF CloseClaimed, WorkerState, processVars, loopVars
<1>15. CASE FinalizeRun(w)
  <2>1. (StoreTypeOK /\ ForeignKey)' /\ lastRunId' \in Nat /\ lastRunId' >= lastRunId
    <3>1. /\ IsTable(Closed(w), lastRunId) /\ DOMAIN Closed(w) = DOMAIN runs
          /\ \A r \in DOMAIN runs : Closed(w)[r].job = runs[r].job
      BY ClosedRow
    <3>2. CASE ~WantsRetry(w)
      BY <1>1, <1>15, <3>1, <3>2, ChangesRows DEF FinalizeRun
    <3>3. CASE WantsRetry(w)
      <4>2. RetryRow(w) \in RunRow
        BY <1>15, RetryRowType DEF FinalizeRun
      <4>3. RetryRow(w).job \in DOMAIN jobs
        BY <1>15, <3>3 DEF FinalizeRun, RetryFits, CanInsert
      <4>4. /\ runs' = Inserted(Closed(w), lastRunId + 1, RetryRow(w))
            /\ lastRunId' = lastRunId + 1 /\ UNCHANGED jobs
        BY <1>15, <3>3 DEF FinalizeRun
      <4>5. (StoreTypeOK /\ ForeignKey)'
        BY <3>1, <4>2, <4>3, <4>4, InsertsRow
      <4>. QED  BY <1>1, <4>4, <4>5
    <3>. QED  BY <3>2, <3>3
  <2>. QED  BY <1>1, <1>2, <1>3, <1>15, <2>1 DEF FinalizeRun, WorkerState, processVars, loopVars
<1>. QED
  BY <1>5, <1>6, <1>7, <1>8, <1>9, <1>10, <1>12, <1>13, <1>14, <1>15 DEF WorkerNext

\* A request keeps the types.
LEMMA ApiType == TypeInv /\ ApiNext => TypeInv'
<1> SUFFICES ASSUME TypeInv, ApiNext PROVE TypeInv'
  OBVIOUS
<1>1. ControlTypeOK /\ StoreTypeOK /\ lastRunId \in Nat
  BY DEF TypeInv, TypeOK, StoreTypeOK
<1>2. ASSUME (StoreTypeOK /\ ForeignKey)', lastRunId' \in Nat, lastRunId' >= lastRunId,
             UNCHANGED <<processVars, loopVars, workerVars, tokens, executed>>,
             wakeup' \in BOOLEAN,
             request' \in [Client -> CancelRequest(lastRunId)]
      PROVE  TypeInv'
  <2>1. 0 .. lastRunId \subseteq 0 .. lastRunId' /\ 1 .. lastRunId \subseteq 1 .. lastRunId'
    BY <1>1, <1>2
  <2>2. request' \in [Client -> CancelRequest(lastRunId')]
    BY <1>2, <2>1 DEF CancelRequest
  <2>3. ControlTypeOK'
    BY <1>1, <1>2, <2>1, <2>2 DEF ControlTypeOK, processVars, loopVars, workerVars
  <2>. QED  BY <1>2, <2>3 DEF TypeInv, TypeOK
<1>3. request \in [Client -> CancelRequest(lastRunId)] /\ wakeup \in BOOLEAN
  BY <1>1 DEF ControlTypeOK
<1>4. ASSUME NEW j \in Job, NEW s \in Time, TriggerJob(j, s)
      PROVE  TypeInv'
  <2>1. IsTable(runs, lastRunId)
    BY <1>1, StoreIsTable
  <2>2. PendingRow(j, s, 0) \in RunRow /\ PendingRow(j, s, 0).job \in DOMAIN jobs
    <3>1. PendingRow(j, s, 0) \in RunRow
      BY PendingRowType
    <3>. QED  BY <1>4, <3>1 DEF TriggerJob, CanInsert, PendingRow
  <2>3. (StoreTypeOK /\ ForeignKey)'
    BY <1>4, <2>1, <2>2, InsertsRow DEF TriggerJob
  <2>. QED  BY <1>1, <1>2, <1>3, <1>4, <2>3 DEF TriggerJob
<1>5. ASSUME NEW j \in Job, DeleteJob(j)
      PROVE  TypeInv'
  <2>1. (StoreTypeOK /\ ForeignKey)' /\ lastRunId' = lastRunId
    BY <1>5, DeletesRows DEF DeleteJob
  <2>. QED  BY <1>1, <1>2, <1>3, <1>5, <2>1 DEF DeleteJob
<1>6. ASSUME NEW c \in Client, NEW r \in DOMAIN runs, CancelRead(c, r)
      PROVE  TypeInv'
  <2>1. (StoreTypeOK /\ ForeignKey)' /\ lastRunId' = lastRunId
    BY <1>6, KeepsStore DEF CancelRead
  <2>2. r \in 1 .. lastRunId /\ runs[r].finished \in BOOLEAN
    BY <1>1 DEF StoreTypeOK, RunRow
  <2>3. request' \in [Client -> CancelRequest(lastRunId)]
    BY <1>3, <1>6, <2>2 DEF CancelRead, CancelRequest
  <2>. QED  BY <1>1, <1>2, <1>3, <1>6, <2>1, <2>3 DEF CancelRead
<1>7. ASSUME NEW c \in Client, CancelWrite(c)
      PROVE  TypeInv'
  <2>1. /\ request[c].write \in RunStatus /\ request[c].finished \in BOOLEAN
        /\ NoRequest \in CancelRequest(lastRunId)
    BY <1>3, <1>7 DEF CancelWrite, CancelRequest, RunStatus
  <2>2. IsTable(runs, lastRunId)
    BY <1>1, StoreIsTable
  <2>3. /\ IsTable(runs', lastRunId) /\ DOMAIN runs' = DOMAIN runs
        /\ \A r \in DOMAIN runs : runs'[r].job = runs[r].job
    BY <1>1, <1>7, <2>1, <2>2, UpdateStatusType DEF CancelWrite
  <2>4. (StoreTypeOK /\ ForeignKey)' /\ lastRunId' = lastRunId
    BY <1>7, <2>3, ChangesRows DEF CancelWrite
  <2>5. request' \in [Client -> CancelRequest(lastRunId)]
    BY <1>3, <1>7, <2>1 DEF CancelWrite
  <2>. QED  BY <1>1, <1>2, <1>3, <1>7, <2>4, <2>5 DEF CancelWrite
<1>8. ASSUME NEW j \in Job, NEW input \in JobInputs, NEW s \in Time,
             UpdateJob(j, input, s)
      PROVE  TypeInv'
  <2>1. (StoreTypeOK /\ ForeignKey)' /\ lastRunId' = lastRunId
    BY <1>8, UpdatesJob DEF UpdateJob
  <2>. QED  BY <1>1, <1>2, <1>3, <1>8, <2>1 DEF UpdateJob
<1>. QED  BY <1>4, <1>5, <1>6, <1>7, <1>8 DEF ApiNext

\* The process ends or comes back: the types hold.
LEMMA ProcessType == TypeInv /\ ProcessNext => TypeInv'
<1> SUFFICES ASSUME TypeInv, ProcessNext PROVE TypeInv'
  OBVIOUS
<1>1. ControlTypeOK /\ StoreTypeOK /\ lastRunId \in Nat
  BY DEF TypeInv, TypeOK, StoreTypeOK
<1>2. UNCHANGED storeVars
  BY DEF ProcessNext, Shutdown, Crash, MainReturns, ProcessEnds, Restart
<1>3. (StoreTypeOK /\ ForeignKey)' /\ lastRunId' = lastRunId
  BY <1>2, KeepsStore
<1>4. CASE Shutdown \/ Restart
  <2>1. /\ UNCHANGED <<exits, loop, batch, tokens, wakeup, pc, target, limit, outcome,
                      request, executed>>
        /\ up' \in BOOLEAN /\ ctxDone' \in BOOLEAN
    BY <1>1, <1>4 DEF ControlTypeOK, Shutdown, Restart, loopVars, workerVars
  <2>2. ControlTypeOK'
    BY <1>1, <1>3, <2>1 DEF ControlTypeOK
  <2>. QED  BY <1>3, <2>2 DEF TypeInv, TypeOK
<1>5. CASE ProcessEnds
  <2>1. NoRequest \in CancelRequest(lastRunId') /\ NoRun \in 0 .. lastRunId'
        /\ "idle" \in WorkerState
    BY <1>1, <1>3 DEF CancelRequest, NoRun, WorkerState
  <2>2. \A S, T : \A x \in T : [y \in S |-> x] \in [S -> T]
    OBVIOUS
  <2>3. /\ pc' \in [Worker -> WorkerState] /\ target' \in [Worker -> 0 .. lastRunId']
        /\ request' \in [Client -> CancelRequest(lastRunId')]
    BY <1>5, <2>1, <2>2 DEF ProcessEnds
  <2>4. /\ limit' \in [Worker -> Int]
        /\ outcome' \in [Worker -> {"none", "success", "timeout", "failed"}]
        /\ \A w \in Worker : pc'[w] = "idle"
    BY <1>5, <2>2 DEF ProcessEnds
  <2>5. /\ up' \in BOOLEAN /\ ctxDone' \in BOOLEAN /\ wakeup' \in BOOLEAN
        /\ exits' \in Nat /\ tokens' \in Nat /\ loop' \in LoopState
        /\ batch' = {} /\ executed' = executed
    <3>1. exits \in Nat
      BY <1>1 DEF ControlTypeOK
    <3>2. exits' \in Nat /\ tokens' \in Nat
      BY <1>5, <3>1 DEF ProcessEnds
    <3>3. up' = FALSE /\ ctxDone' = FALSE /\ wakeup' = FALSE
      BY <1>5, Zenon DEF ProcessEnds
    <3>4. loop' \in LoopState /\ batch' = {} /\ executed' = executed
      BY <1>5, Zenon DEF LoopState, ProcessEnds
    <3>. QED  BY <3>2, <3>3, <3>4
  <2>6. ControlTypeOK'
    BY <1>1, <1>3, <2>3, <2>4, <2>5 DEF ControlTypeOK
  <2>. QED  BY <1>3, <2>6 DEF TypeInv, TypeOK
<1>. QED  BY <1>4, <1>5 DEF ProcessNext, Crash, MainReturns

\* Rows go and the others stay as they are.
LEMMA RetentionType == TypeInv /\ RetentionNext => TypeInv'
<1> SUFFICES ASSUME TypeInv, NEW old \in SUBSET Finished, DeleteTerminalBefore(old)
             PROVE  TypeInv'
  BY DEF RetentionNext
<1>1. /\ runs' = [r \in DOMAIN runs \ old |-> runs[r]]
      /\ UNCHANGED <<jobs, lastRunId, processVars, loopVars, workerVars, tokens, wakeup,
                     request, executed>>
  BY DEF DeleteTerminalBefore
<1>2. (StoreTypeOK /\ ForeignKey)'
  BY <1>1 DEF TypeInv, TypeOK, StoreTypeOK, ForeignKey
<1>3. ControlTypeOK'
  BY <1>1 DEF TypeInv, TypeOK, ControlTypeOK, processVars, loopVars, workerVars
<1>. QED  BY <1>2, <1>3 DEF TypeInv, TypeOK

LEMMA NextType == TypeInv /\ [Next]_vars => TypeInv'
<1> SUFFICES ASSUME TypeInv, [Next]_vars PROVE TypeInv'
  OBVIOUS
<1>1. CASE UNCHANGED vars
  <2>1. (StoreTypeOK /\ ForeignKey)' /\ lastRunId' = lastRunId
    BY <1>1, KeepsStore DEF vars
  <2>2. ControlTypeOK'
    BY <1>1, <2>1 DEF TypeInv, TypeOK, ControlTypeOK, vars, processVars,
       loopVars, workerVars
  <2>. QED  BY <2>1, <2>2 DEF TypeInv, TypeOK
<1>. QED  BY <1>1, LoopType, WorkerType, ApiType, RetentionType, ProcessType DEF Next

\* Dispatch is type-correct: ids stay below the counter of the table, every
\* token count, goroutine and request is well-formed, and every run has its
\* job, in every reachable state of the scheduler and its store.
THEOREM TypeCorrect == Spec => []TypeOK
<1>1. Init => TypeInv
  BY InitType
<1>2. TypeInv /\ [Next]_vars => TypeInv'
  BY NextType
<1>3. TypeInv => TypeOK
  BY DEF TypeInv
<1>. QED  BY <1>1, <1>2, <1>3, PTL DEF Spec

THEOREM TypeInvariant == Spec => []TypeInv
BY InitType, NextType, PTL DEF Spec
=============================================================================
