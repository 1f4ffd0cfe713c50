--------------------------- MODULE DueJobsProofs ---------------------------
(***************************************************************************)
(* The whole scheduler: what readers of a job row may rely on, its timeout *)
(* and its next slot; slots, which only move forward; and what dispatch    *)
(* still promises with the due-job loop and its sweep beside it.           *)
(***************************************************************************)
EXTENDS DueJobs, QueueProofs, HistoryProofs

\* What the job service accepts is what the worker and the due-job loop apply
\* under the same configuration (job_service.go:267-285 and worker.go:220-238
\* agree): no accepted timeout is clamped, a request without one gets the
\* configured default, and only an allowed 0 runs without a deadline.
THEOREM AcceptedIsApplied ==
    ASSUME NEW c \in SchedulerConfig, Valid(c),
           NEW req \in Request, Accepted(Policy(c), req)
    PROVE  Effective(c, Resolved(Policy(c), req))
              = IF req = Absent THEN c.default ELSE req[1]
<1>1. Policy(c) = c
  BY DEF Policy, SchedulerConfig, Valid
<1>2. CASE req = Absent
  BY <1>1, <1>2 DEF Resolved, Effective, Valid, SchedulerConfig
<1>3. CASE req # Absent
  <2>1. req[1] \in Int
    BY <1>3 DEF Request
  <2>2. /\ req[1] >= 0
        /\ req[1] = 0 => c.unlimited
        /\ req[1] <= c.max
    BY <1>1, <1>3 DEF Accepted
  <2>. QED
    BY <1>1, <1>3, <2>1, <2>2 DEF Resolved, Effective, Valid, SchedulerConfig
<1>. QED
  BY <1>2, <1>3

\* What is stored is never negative, so no later configuration meets a timeout
\* that effectiveTimeoutSec lets through unclamped (job_service.go:272).
LEMMA StoredIsNatural ==
    ASSUME NEW c \in SchedulerConfig, Valid(c),
           NEW req \in Request, Accepted(Policy(c), req)
    PROVE  Resolved(Policy(c), req) \in Nat
<1>1. Policy(c) = c
  BY DEF Policy, SchedulerConfig, Valid
<1>2. CASE req = Absent
  BY <1>1, <1>2 DEF Resolved, Valid, SchedulerConfig
<1>3. CASE req # Absent
  <2>1. req[1] \in Int /\ req[1] >= 0
    BY <1>3 DEF Request, Accepted
  <2>. QED
    BY <1>3, <2>1 DEF Resolved
<1>. QED
  BY <1>2, <1>3

\* A job stored under one configuration and executed under another, after a
\* restart with new limits (worker.go:111, due_job.go:168): its deadline respects
\* the new ones, and it has none only if they allow that.
THEOREM AppliedIsWithinLimits ==
    ASSUME NEW old \in SchedulerConfig, Valid(old),
           NEW req \in Request, Accepted(Policy(old), req),
           NEW c \in SchedulerConfig, Valid(c)
    PROVE  LET t == Effective(c, Resolved(Policy(old), req)) IN
           t \in 1 .. c.max \/ (t = 0 /\ c.unlimited)
<1>. DEFINE stored == Resolved(Policy(old), req)
<1>1. stored \in Nat
  BY StoredIsNatural
<1>. HIDE DEF stored
<1>2. Effective(c, stored) \in 1 .. c.max \/ (Effective(c, stored) = 0 /\ c.unlimited)
  BY <1>1 DEF Effective, Valid, SchedulerConfig
<1>. QED
  BY <1>2 DEF stored

-----------------------------------------------------------------------------

\* The text of an instant starts with its seconds, and has more to come.
LEMMA TextStart ==
    ASSUME NEW t \in Instant
    PROVE  Text(t) \in Seq(Int) /\ Len(Text(t)) >= 2 /\ Text(t)[1] = t.sec
<1>1. CASE t.decimals = << >>
  BY <1>1 DEF Text, Instant, Zed
<1>2. CASE t.decimals # << >>
  <2>. DEFINE d == t.decimals
  <2>1. d \in Seq(Int) /\ Len(d) \in Nat
    BY DEF Instant, Digit
  <2>2. <<t.sec, Dot>> \in Seq(Int) /\ Len(<<t.sec, Dot>>) = 2 /\ <<t.sec, Dot>>[1] = t.sec
    BY DEF Instant, Dot
  <2>3. <<Zed>> \in Seq(Int) /\ Len(<<Zed>>) = 1
    BY DEF Zed
  <2>. DEFINE h == <<t.sec, Dot>>
  <2>. HIDE DEF d, h
  <2>4. h \o d \in Seq(Int) /\ Len(h \o d) = 2 + Len(d) /\ (h \o d)[1] = h[1]
    BY <2>1, <2>2 DEF h
  <2>5. /\ (h \o d) \o <<Zed>> \in Seq(Int)
        /\ Len((h \o d) \o <<Zed>>) = 3 + Len(d)
        /\ ((h \o d) \o <<Zed>>)[1] = (h \o d)[1]
    BY <2>1, <2>3, <2>4
  <2>6. Text(t) = (h \o d) \o <<Zed>>
    BY <1>2 DEF Text, h, d
  <2>. QED
    BY <2>1, <2>2, <2>4, <2>5, <2>6 DEF h
<1>. QED
  BY <1>1, <1>2

\* Texts of different seconds are in the order of the seconds.
LEMMA SecondsDecide ==
    ASSUME NEW a \in Instant, NEW b \in Instant
    PROVE  /\ a.sec < b.sec => TextBefore(Text(a), Text(b))
           /\ TextUpTo(Text(a), Text(b)) => a.sec <= b.sec
<1>. DEFINE x == Text(a)
            y == Text(b)
<1>1. /\ x \in Seq(Int) /\ Len(x) >= 2 /\ x[1] = a.sec
      /\ y \in Seq(Int) /\ Len(y) >= 2 /\ y[1] = b.sec
  BY TextStart
<1>2. a.sec \in Int /\ b.sec \in Int
  BY DEF Instant
<1>. HIDE DEF x, y
<1>3. ASSUME a.sec < b.sec PROVE TextBefore(x, y)
  <2>1. 1 \in 1 .. Len(x) /\ 1 <= Len(y) /\ x[1] < y[1] /\ \A k \in 1 .. 1 - 1 : x[k] = y[k]
    BY <1>1, <1>3
  <2>. QED
    BY <2>1 DEF TextBefore
<1>4. ASSUME TextBefore(x, y) PROVE a.sec <= b.sec
  <2>1. CASE \A i \in 1 .. Len(x) : x[i] = y[i]
    BY <1>1, <1>2, <2>1
  <2>2. ASSUME NEW i \in 1 .. Len(x), x[i] < y[i], \A k \in 1 .. i - 1 : x[k] = y[k]
        PROVE  a.sec <= b.sec
    <3>1. CASE i = 1
      BY <1>1, <1>2, <2>2, <3>1
    <3>2. CASE i # 1
      BY <1>1, <1>2, <2>2, <3>2
    <3>. QED
      BY <3>1, <3>2
  <2>. QED
    BY <1>4, <2>1, <2>2 DEF TextBefore
<1>. QED
  BY <1>1, <1>2, <1>3, <1>4 DEF TextUpTo, x, y

\* The comparison of texts in ListDue (db.go:183, job_repo.go:231) errs by less
\* than a second although RFC3339Nano drops trailing zeros: a slot is listed in
\* every later second and in no earlier one.  A slot of a calendar, which is a
\* whole second, is thus never listed too early.
THEOREM DueWithinASecond ==
    ASSUME NEW slot \in Instant, NEW t \in Instant
    PROVE  /\ slot.sec < t.sec => ListedAt(slot, t)
           /\ ListedAt(slot, t) => slot.sec <= t.sec
BY SecondsDecide DEF ListedAt, TextUpTo

-----------------------------------------------------------------------------

\* The first multiple of p after t.
LEMMA NextMultiple ==
    ASSUME NEW p \in Nat \ {0}, NEW t \in Nat
    PROVE  (t \div p + 1) * p \in Nat /\ (t \div p + 1) * p > t
<1> DEFINE q == t \div p
<1>1. q \in Nat /\ t % p \in 0 .. p - 1
  BY Z3
<1>2. t = p * q + (t % p)
  BY Z3
<1>3. (q + 1) * p = p * q + p /\ p * q \in Nat
  BY <1>1, Z3
<1>. QED  BY <1>1, <1>2, <1>3

LEMMA NextIsLater ==
    ASSUME NEW input \in JobInput, NEW t \in Nat
    PROVE  \/ NextRunAt(input, t) \in Nat /\ NextRunAt(input, t) > t
           \/ NextRunAt(input, t) = ZeroTime
<1> DEFINE p == input.period
<1>1. p \in Nat \ {0} /\ input.kind \in {"interval", "cron", "never"}
  BY DEF JobInput
<1>2. (t \div p + 1) * p \in Nat /\ (t \div p + 1) * p > t
  BY <1>1, NextMultiple
<1>3. t + p \in Nat /\ t + p > t
  BY <1>1
<1>4. CASE input.kind = "interval"
  BY <1>3, <1>4, Zenon DEF NextRunAt
<1>5. CASE input.kind = "cron"
  <2>1. NextRunAt(input, t) = (t \div p + 1) * p
    BY <1>5 DEF NextRunAt
  <2>. QED  BY <1>2, <2>1, Zenon
<1>6. CASE input.kind = "never"
  BY <1>6 DEF NextRunAt
<1>. QED  BY <1>1, <1>4, <1>5, <1>6

-----------------------------------------------------------------------------

Slot == Nat \cup {ZeroTime}

Scheduled == [input : JobInputs, next : Slot]

LEMMA NextIsSlot ==
    ASSUME NEW input \in JobInputs, NEW t \in Nat
    PROVE  NextRunAt(input, t) \in Slot
BY NextIsLater, DispatchAssumption DEF Slot

\* Slots handled so far are not after the clock, nor after the instant of the pass
\* that is at work, whose slots are not after it either.
SlotInv ==
    /\ now \in Nat /\ dueNow \in Nat /\ dueNow <= now
    /\ \A j \in DOMAIN jobs : jobs[j] \in Scheduled
    /\ \A j \in DOMAIN edits : edits[j] \in Scheduled
    /\ \A j \in DOMAIN dueRows : dueRows[j] \in Scheduled /\ dueRows[j].next <= dueNow
    /\ \A h \in handled : h[2] \in Slot /\ h[2] <= now
    /\ DOMAIN dueRows # {} => \A h \in handled : h[2] <= dueNow

LEMMA InitSlots == DueInit => SlotInv
<1> SUFFICES ASSUME DueInit PROVE SlotInv
  OBVIOUS
<1>1. ASSUME NEW j \in Job PROVE jobs[j] \in Scheduled
  <2>1. jobs[j].input \in JobInputs /\ jobs[j] = [input |-> jobs[j].input, next |-> jobs[j].next]
    BY DEF DueInit, Init
  <2>2. jobs[j].next \in Slot
    BY <2>1, NextIsSlot DEF DueInit
  <2>. QED  BY <2>1, <2>2 DEF Scheduled
<1>. QED  BY <1>1 DEF DueInit, Init, SlotInv, NoRows

\* The steps of Dispatch leave the schedule alone, or delete a job.
LEMMA KeepsSlots ==
    ASSUME SlotInv, UNCHANGED <<now, handled>>,
           \/ UNCHANGED <<dueRows, dueNow, edits>>
           \/ dueRows' = NoRows /\ dueNow' = 0 /\ edits' = NoRows,
           UNCHANGED jobs \/ \E j \in Job : DeleteJobRow(j)
    PROVE  SlotInv'
<1>1. \A j \in DOMAIN jobs' : jobs'[j] \in Scheduled
  BY DEF SlotInv, DeleteJobRow
<1>2. \A j \in DOMAIN edits' : edits'[j] \in Scheduled
  BY DEF SlotInv, NoRows
<1>3. DOMAIN NoRows = {}
  BY DEF NoRows
<1>. QED  BY <1>1, <1>2, <1>3 DEF SlotInv

LEMMA PassSlots ==
    ASSUME SlotInv, NEW j \in DOMAIN dueRows, ScheduleSlot(j)
    PROVE  SlotInv' /\ \A i \in DOMAIN jobs : Fresh(i) => Fresh(i)' \/ jobs'[i].next = ZeroTime
<1>1. dueRows[j].input \in JobInput /\ dueRows[j] \in Scheduled /\ dueRows[j].next <= dueNow
  BY DispatchAssumption DEF SlotInv, Scheduled
<1> DEFINE s == NextRunAt(dueRows[j].input, dueNow)
<1>2. s \in Slot /\ (s > dueNow \/ s = ZeroTime)
  BY <1>1, NextIsLater DEF SlotInv, Slot
<1> HIDE DEF s
<1>3. /\ jobs' = UpdateScheduling(jobs, j, s) /\ UNCHANGED <<now, edits>>
      /\ handled' = handled \cup {<<j, dueRows[j].next>>}
      /\ j \in DOMAIN jobs
  BY DEF ScheduleSlot, CanInsert, s
<1>4. /\ DOMAIN dueRows' = DOMAIN dueRows \ {j}
      /\ \A i \in DOMAIN dueRows' : dueRows'[i] = dueRows[i]
      /\ dueNow' = IF DOMAIN dueRows = {j} THEN 0 ELSE dueNow
  BY DEF ScheduleSlot, DoneWith
<1>5. \A h \in handled' : h[2] \in Slot /\ h[2] <= dueNow
  BY <1>1, <1>3 DEF SlotInv, Scheduled
<1>6. \A i \in DOMAIN jobs' : jobs'[i] \in Scheduled
  BY <1>2, <1>3 DEF SlotInv, Scheduled, UpdateScheduling
<1>7. SlotInv'
  <2>1. dueNow \in Nat /\ now \in Nat /\ dueNow <= now
    BY DEF SlotInv
  <2>2. dueNow' \in Nat /\ dueNow' <= now'
    BY <1>3, <1>4, <2>1
  <2>3. \A h \in handled' : h[2] \in Slot /\ h[2] <= now'
    BY <1>3, <1>5, <2>1 DEF Slot, ZeroTime
  <2>4. DOMAIN dueRows' # {} => dueNow' = dueNow
    BY <1>4
  <2>5. \A i \in DOMAIN dueRows' : dueRows'[i] \in Scheduled /\ dueRows'[i].next <= dueNow'
    BY <1>4, <2>4 DEF SlotInv
  <2>6. DOMAIN dueRows' # {} => \A h \in handled' : h[2] <= dueNow'
    BY <1>5, <2>4
  <2>7. now' \in Nat /\ \A i \in DOMAIN edits' : edits'[i] \in Scheduled
    BY <1>3 DEF SlotInv
  <2>. QED  BY <1>6, <2>2, <2>3, <2>5, <2>6, <2>7 DEF SlotInv
\* The slot it stores, if there is one, is later than every slot handled so far.
<1>8. ASSUME NEW i \in DOMAIN jobs, Fresh(i) PROVE Fresh(i)' \/ jobs'[i].next = ZeroTime
  <2>1. CASE i = j
    <3>1. jobs'[j].next = s
      BY <1>3 DEF SlotInv, Scheduled, UpdateScheduling
    <3>2. s # ZeroTime => <<j, s>> \notin handled'
      BY <1>2, <1>5 DEF SlotInv, Slot
    <3>. QED  BY <1>3, <2>1, <3>1, <3>2 DEF Fresh, UpdateScheduling
  <2>2. CASE i # j
    BY <1>3, <1>8, <2>2 DEF Fresh, UpdateScheduling
  <2>. QED  BY <2>1, <2>2
<1>. QED  BY <1>7, <1>8

\* The steps of the loop beside that.
LEMMA LoopSlots ==
    ASSUME SlotInv, DueTick \/ DueWake \/ StopDueLoop \/ ListDue \/ ListDueFails
                    \/ \E j \in DOMAIN dueRows : ScheduleFails(j)
    PROVE  SlotInv' /\ UNCHANGED <<jobs, handled>>
<1>1. UNCHANGED <<jobs, handled, now, edits>>
  BY DEF DueTick, DueWake, StopDueLoop, ListDue, ListDueFails, ScheduleFails, vars, storeVars
<1>2. CASE UNCHANGED dueRows /\ UNCHANGED dueNow
  BY <1>1, <1>2 DEF SlotInv
<1>3. CASE ListDue
  <2>1. /\ dueNow' \in {0, now}
        /\ DOMAIN dueRows' # {} => dueNow' = now
        /\ \A j \in DOMAIN dueRows' :
              j \in DOMAIN jobs /\ dueRows'[j] = jobs[j] /\ jobs[j].next <= now
    BY <1>3 DEF ListDue, Due
  <2>. QED  BY <1>1, <2>1 DEF SlotInv
<1>4. ASSUME NEW j \in DOMAIN dueRows, ScheduleFails(j) PROVE SlotInv'
  <2>1. /\ DOMAIN dueRows' = DOMAIN dueRows \ {j}
        /\ \A i \in DOMAIN dueRows' : dueRows'[i] = dueRows[i]
        /\ dueNow' = IF DOMAIN dueRows = {j} THEN 0 ELSE dueNow
    BY <1>4 DEF ScheduleFails, DoneWith
  <2>2. DOMAIN dueRows' # {} => dueNow' = dueNow
    BY <2>1
  <2>. QED  BY <1>1, <2>1, <2>2 DEF SlotInv
<1>. QED  BY <1>1, <1>2, <1>3, <1>4 DEF DueTick, DueWake, StopDueLoop, ListDueFails

\* An update stores the slot it computed when it read the clock.
LEMMA UpdateSlots ==
    ASSUME SlotInv,
           NEW j \in Job, UpdateWrite(j) \/ \E input \in JobInputs : UpdateRead(j, input)
    PROVE  SlotInv'
<1>1. UNCHANGED <<now, dueRows, dueNow, handled>>
  BY DEF UpdateRead, UpdateWrite, dueLoopVars
<1>2. ASSUME NEW input \in JobInputs, UpdateRead(j, input) PROVE SlotInv'
  <2>1. NextRunAt(input, now) \in Slot
    BY NextIsSlot DEF SlotInv
  <2>2. \A i \in DOMAIN edits' : edits'[i] \in Scheduled
    BY <1>2, <2>1 DEF UpdateRead, SlotInv, Scheduled
  <2>3. UNCHANGED jobs
    BY <1>2 DEF UpdateRead, vars, storeVars
  <2>. QED  BY <1>1, <2>2, <2>3 DEF SlotInv
<1>3. CASE UpdateWrite(j)
  BY <1>1, <1>3 DEF UpdateWrite, UpdateJobRow, SlotInv
<1>. QED  BY <1>2, <1>3

\* All other steps.
OtherStep ==
    \/ StartBoth \/ StartFails \/ DispatchLoopStep
    \/ \E w \in Worker : WorkerStep(w)
    \/ \E j \in Job : TriggerNow(j)
    \/ RequestStep \/ PruneStep \/ SignalStep \/ EndStep \/ RestartStep

LEMMA OtherKeeps ==
    ASSUME OtherStep
    PROVE  /\ UNCHANGED <<now, handled>>
           /\ \/ UNCHANGED <<dueRows, dueNow, edits>>
              \/ dueRows' = NoRows /\ dueNow' = 0 /\ edits' = NoRows
           /\ UNCHANGED jobs \/ \E j \in Job : DeleteJobRow(j)
<1>1. CASE StartBoth \/ StartFails \/ SignalStep \/ EndStep \/ RestartStep
  BY <1>1 DEF StartBoth, StartFails, SignalStep, EndStep, RestartStep, StartLoops,
     RecoverOrphansFails, Shutdown, Crash, MainReturns, ProcessEnds, Restart, dueVars,
     dueLoopVars, storeVars
<1>2. CASE DispatchLoopStep
  BY <1>2 DEF DispatchLoopStep, DispatchTick, DispatchWake, StopLoop, Scan, ScanFails,
     AbandonBatch, Spawn, dueVars, dueLoopVars, storeVars
<1>3. ASSUME NEW w \in Worker, WorkerStep(w)
      PROVE  UNCHANGED <<now, handled, dueRows, dueNow, edits, jobs>>
  BY <1>3 DEF WorkerStep, ClaimStep, TimeoutStep, FinalizeStep, LoadRun, LoadFails,
     ClaimRun, CloseCancelling, LeaveUnclaimed, StartTxFails, CloseClaimed, Execute,
     ExecuteReturns, FinalizeRun, FinalizeTxFails, SignalDispatch, ReleaseToken, dueVars,
     dueLoopVars, storeVars
<1>4. ASSUME NEW j \in Job, TriggerNow(j)
      PROVE  UNCHANGED <<now, handled, dueRows, dueNow, edits, jobs>>
  BY <1>4 DEF TriggerNow, TriggerJob, dueLoopVars
<1>5. CASE RequestStep \/ PruneStep
  BY <1>5 DEF RequestStep, DeleteJob, CancelRead, CancelWrite, PruneStep, RetentionNext,
     DeleteTerminalBefore, dueVars, dueLoopVars, storeVars
<1>. QED  BY <1>1, <1>2, <1>3, <1>4, <1>5 DEF OtherStep

LEMMA NextSlots == SlotInv /\ [DueNext]_allVars => SlotInv'
<1> SUFFICES ASSUME SlotInv, [DueNext]_allVars PROVE SlotInv'
  OBVIOUS
<1>1. CASE UNCHANGED allVars
  BY <1>1, KeepsSlots DEF allVars, vars, storeVars, dueVars, dueLoopVars
<1>2. CASE Tick
  BY <1>2 DEF Tick, SlotInv, Slot, ZeroTime, vars, storeVars, dueLoopVars
<1>3. CASE DueLoopStep
  BY <1>3, PassSlots, LoopSlots DEF DueLoopStep
<1>4. ASSUME NEW j \in Job, UpdateWrite(j) \/ \E input \in JobInputs : UpdateRead(j, input)
      PROVE  SlotInv'
  BY <1>4, UpdateSlots
<1>5. CASE OtherStep
  BY <1>5, OtherKeeps, KeepsSlots
<1>. QED  BY <1>1, <1>2, <1>3, <1>4, <1>5 DEF DueNext, OtherStep

LEMMA SlotInvariant == DueSpec => []SlotInv
BY InitSlots, NextSlots, PTL DEF DueSpec

-----------------------------------------------------------------------------

\* The due-job loop never comes back to a slot it has handled, for any calendars and
\* any clock, restarts and failed transactions included; only an update that was
\* under way while the loop handled the slot can bring it back, and a calendar that
\* never fires has the zero time for its only slot (due_job.go:154).
THEOREM SlotsStayFresh == DueSpec => FreshSlot
<1> DEFINE Kept == \A j \in DOMAIN jobs' :
                     Fresh(j) /\ ~Fresh(j)' =>
                         \/ j \in DOMAIN edits /\ jobs'[j] = edits[j]
                         \/ jobs'[j].next = ZeroTime
<1>1. SlotInv /\ [DueNext]_allVars => [Kept]_allVars
  <2> SUFFICES ASSUME SlotInv, DueNext, NEW j \in DOMAIN jobs', Fresh(j), ~Fresh(j)',
                      jobs'[j].next # ZeroTime
               PROVE  j \in DOMAIN edits /\ jobs'[j] = edits[j]
    OBVIOUS
  <2>1. CASE UNCHANGED <<jobs, handled>>
    BY <2>1 DEF Fresh
  <2>2. ASSUME NEW i \in DOMAIN dueRows, ScheduleSlot(i) PROVE FALSE
    BY <2>2, PassSlots DEF Fresh
  <2>3. ASSUME NEW i \in Job, UpdateWrite(i) PROVE j \in DOMAIN edits /\ jobs'[j] = edits[j]
    BY <2>3 DEF UpdateWrite, UpdateJobRow, Fresh
  <2>4. ASSUME NEW i \in Job, NEW input \in JobInputs, UpdateRead(i, input)
        PROVE  UNCHANGED <<jobs, handled>>
    BY <2>4 DEF UpdateRead, vars, storeVars
  <2>5. CASE OtherStep
    <3>1. handled' = handled /\ j \in DOMAIN jobs /\ jobs'[j] = jobs[j]
      BY <2>5, OtherKeeps DEF DeleteJobRow
    <3>. QED  BY <3>1 DEF Fresh
  <2>6. CASE Tick
    BY <2>1, <2>6 DEF Tick, vars, storeVars
  <2>7. CASE DueLoopStep
    BY <2>1, <2>2, <2>7, LoopSlots DEF DueLoopStep
  <2>. QED  BY <2>1, <2>3, <2>4, <2>5, <2>6, <2>7 DEF DueNext, OtherStep
<1>. QED  BY <1>1, SlotInvariant, PTL DEF DueSpec, FreshSlot

-----------------------------------------------------------------------------
(* The due-job loop beside the actors of Dispatch.                         *)

\* Both loops are off or neither, so the list is empty when the loop is launched.
DueTypeInv == DueTypeOK /\ ForeignKey /\ (loop = "off" => dueLoop = "off")

LEMMA Typed ==
    DueTypeInv => TypeInv /\ now \in Time /\ dueNow \in 0 .. MaxTime /\ MaxTime \in Nat
BY DueAssumption DEF DueTypeInv, DueTypeOK, TypeInv

\* Two steps write the store in a way of their own: the transaction of
\* processDueJob, and the row of an update.  What is left is a step of Dispatch.
LEMMA InheritedStep ==
    ASSUME DueTypeInv, [DueNext]_allVars,
           \A j \in DOMAIN dueRows : ~ScheduleSlot(j), \A j \in Job : ~UpdateWrite(j)
    PROVE  [Next]_vars
<1>1. CASE UNCHANGED vars
  BY <1>1
<1>2. CASE \/ UNCHANGED allVars \/ Tick \/ DueTick \/ DueWake \/ StopDueLoop
           \/ ListDue \/ ListDueFails
  BY <1>1, <1>2 DEF allVars, Tick, DueTick, DueWake, StopDueLoop, ListDue, ListDueFails
<1>3. ASSUME NEW j \in DOMAIN dueRows, ScheduleFails(j) PROVE UNCHANGED vars
  BY <1>3 DEF ScheduleFails
<1>4. ASSUME NEW j \in Job, NEW input \in JobInputs, UpdateRead(j, input) PROVE UNCHANGED vars
  BY <1>4 DEF UpdateRead
<1>5. CASE StartBoth \/ StartFails \/ DispatchLoopStep
  BY <1>5 DEF StartBoth, StartFails, DispatchLoopStep, Next, LoopNext
<1>6. ASSUME NEW w \in Worker, WorkerStep(w) PROVE Next
  <2>1. WorkerNext(w)
    BY <1>6 DEF WorkerStep, ClaimStep, TimeoutStep, FinalizeStep, WorkerNext
  <2>. QED  BY <2>1 DEF Next
<1>7. ASSUME NEW j \in Job, TriggerNow(j) PROVE Next
  BY <1>7, Typed DEF TriggerNow, Next, ApiNext
<1>8. CASE RequestStep \/ PruneStep
  BY <1>8 DEF RequestStep, PruneStep, Next, ApiNext
<1>9. CASE SignalStep \/ EndStep \/ RestartStep
  BY <1>9 DEF SignalStep, EndStep, RestartStep, Next, ProcessNext
<1>. QED
  BY <1>1, <1>2, <1>3, <1>4, <1>5, <1>6, <1>7, <1>8, <1>9 DEF DueNext, DueLoopStep

SameKey(row, old) == row.job = old.job /\ row.slot = old.slot /\ row.attempt = old.attempt

Closes(old, row) ==
    old.status = "running" /\ row.status = "timeout" /\ row.log = Append(old.log, "timeout")

\* The sweep closes running rows and touches nothing else.
LEMMA SweepType ==
    ASSUME TypeInv, NEW j
    PROVE  /\ IsTable(Swept(j), lastRunId) /\ DOMAIN Swept(j) = DOMAIN runs
           /\ \A r \in DOMAIN runs :
                 /\ SameKey(Swept(j)[r], runs[r])
                 /\ Swept(j)[r] = runs[r] \/ Closes(runs[r], Swept(j)[r])
                 /\ r \in Running(j) /\ ~Stale(r) => Swept(j)[r] = runs[r]
<1>1. IsTable(runs, lastRunId) /\ lastRunId \in Nat
  BY StoreIsTable DEF TypeInv, TypeOK
<1>2. DOMAIN Swept(j) = DOMAIN runs /\ Swept(j) = [r \in DOMAIN runs |-> Swept(j)[r]]
  BY DEF Swept
<1>3. ASSUME NEW r \in DOMAIN runs
      PROVE  /\ Swept(j)[r] \in RunRow /\ SameKey(Swept(j)[r], runs[r])
             /\ Swept(j)[r] = runs[r] \/ Closes(runs[r], Swept(j)[r])
             /\ r \in Running(j) /\ ~Stale(r) => Swept(j)[r] = runs[r]
  <2>1. runs[r] \in RunRow /\ runs[r].log \in Seq(EventType)
    BY <1>1 DEF IsTable, RunRow
  <2>2. CASE r \in Running(j) /\ Stale(r)
    <3>1. Swept(j)[r] = [runs[r] EXCEPT !.status = "timeout", !.finished = TRUE,
                                       !.log = Append(runs[r].log, "timeout")]
      BY <2>2 DEF Swept
    <3>2. "timeout" \in EventType /\ "timeout" \in RunStatus
      BY DEF EventType, RunStatus
    <3>3. Append(runs[r].log, "timeout") \in Seq(EventType)
      BY <2>1, <3>2
    <3>4. Closes(runs[r], Swept(j)[r]) /\ SameKey(Swept(j)[r], runs[r])
      BY <2>1, <2>2, <3>1 DEF RunRow, Running, Closes, SameKey
    <3>5. Swept(j)[r] \in RunRow
      BY <2>1, <3>1, <3>2, <3>3 DEF RunRow
    <3>. QED  BY <2>2, <3>4, <3>5 DEF Running
  <2>3. CASE ~(r \in Running(j) /\ Stale(r))
    <3>1. Swept(j)[r] = runs[r]
      BY <2>3 DEF Swept
    <3>. QED  BY <2>1, <2>3, <3>1 DEF SameKey
  <2>. QED  BY <2>2, <2>3
<1>. QED  BY <1>1, <1>2, <1>3 DEF IsTable

\* The row a slot gets.
LEMMA SlotRowType ==
    ASSUME DueTypeInv, NEW j \in DOMAIN dueRows
    PROVE  /\ SlotRow(j) \in RunRow /\ SlotRow(j).job = j
           /\ SlotRow(j).slot = dueRows[j].next /\ SlotRow(j).attempt = 0
           /\ SlotRow(j).status = IF Blocked(j) THEN "skipped" ELSE "pending"
           /\ SlotRow(j).log \in {<<"created">>, <<"skipped">>}
<1>1. j \in Job /\ dueRows[j].next \in Time
  BY DEF DueTypeInv, DueTypeOK, JobRow
<1>2. PendingRow(j, dueRows[j].next, 0) \in RunRow
  BY <1>1, PendingRowType
<1>3. <<"skipped">> \in Seq(EventType) /\ "skipped" \in RunStatus
  <2>1. "skipped" \in EventType
    BY DEF EventType
  <2>. QED  BY <2>1 DEF RunStatus
<1>4. SkippedRow(j, dueRows[j].next) \in RunRow
  BY <1>2, <1>3 DEF SkippedRow, RunRow
<1>. QED  BY <1>2, <1>4 DEF SlotRow, SkippedRow, PendingRow

\* What the transaction of processDueJob does to the store.
LEMMA SlotStep ==
    ASSUME DueTypeInv, NEW j \in DOMAIN dueRows, ScheduleSlot(j)
    PROVE  /\ lastRunId \in Nat /\ lastRunId' = lastRunId + 1
           /\ DOMAIN runs' = DOMAIN runs \cup {lastRunId + 1}
           /\ lastRunId + 1 \notin DOMAIN runs
           /\ runs'[lastRunId + 1] = SlotRow(j)
           /\ \A r \in DOMAIN runs :
                 /\ SameKey(runs'[r], runs[r])
                 /\ runs'[r] = runs[r] \/ Closes(runs[r], runs'[r])
                 /\ Forbids(j) /\ r \in Running(j) /\ ~Stale(r) => runs'[r] = runs[r]
           /\ IsTable(runs', lastRunId')
           /\ UNCHANGED <<processVars, loopVars, workerVars, tokens, wakeup, request, executed>>
<1> DEFINE old == IF Forbids(j) THEN Swept(j) ELSE runs
           row == SlotRow(j)
<1>1. IsTable(runs, lastRunId) /\ lastRunId \in Nat /\ DOMAIN runs \subseteq 1 .. lastRunId
  BY Typed, StoreIsTable DEF TypeInv, TypeOK, IsTable
<1>2. /\ IsTable(old, lastRunId) /\ DOMAIN old = DOMAIN runs
      /\ \A r \in DOMAIN runs :
            /\ SameKey(old[r], runs[r])
            /\ old[r] = runs[r] \/ Closes(runs[r], old[r])
            /\ Forbids(j) /\ r \in Running(j) /\ ~Stale(r) => old[r] = runs[r]
  BY <1>1, Typed, SweepType DEF SameKey
<1>3. row \in RunRow
  BY SlotRowType
<1>4. runs' = Inserted(old, lastRunId + 1, row) /\ lastRunId' = lastRunId + 1
  BY DEF ScheduleSlot
<1>. HIDE DEF old, row
<1>5. /\ IsTable(runs', lastRunId + 1) /\ DOMAIN runs' = DOMAIN old \cup {lastRunId + 1}
      /\ runs'[lastRunId + 1] = row /\ \A r \in DOMAIN old : runs'[r] = old[r]
  BY <1>1, <1>2, <1>3, <1>4, InsertedType
<1>6. UNCHANGED <<processVars, loopVars, workerVars, tokens, wakeup, request, executed>>
  BY DEF ScheduleSlot
<1>. QED  BY <1>1, <1>2, <1>4, <1>5, <1>6 DEF row

-----------------------------------------------------------------------------
(* Type correctness of the whole scheduler.                                *)

LEMMA ControlKept ==
    ASSUME ControlTypeOK, lastRunId \in Nat, lastRunId' \in Nat, lastRunId <= lastRunId',
           UNCHANGED <<processVars, loopVars, workerVars, tokens, wakeup, request, executed>>
    PROVE  ControlTypeOK'
<1>1. 1 .. lastRunId \subseteq 1 .. lastRunId' /\ 0 .. lastRunId \subseteq 0 .. lastRunId'
  OBVIOUS
<1>2. CancelRequest(lastRunId) \subseteq CancelRequest(lastRunId')
  BY <1>1 DEF CancelRequest
<1>3. request' \in [Client -> CancelRequest(lastRunId')]
  BY <1>2 DEF ControlTypeOK
<1>4. target' \in [Worker -> 0 .. lastRunId']
  BY <1>1 DEF ControlTypeOK, workerVars
<1>. QED  BY <1>1, <1>3, <1>4 DEF ControlTypeOK, processVars, loopVars, workerVars

\* The next slot of a calendar or an interval can be stored.
LEMMA SlotStoreType ==
    ASSUME DueTypeInv, SlotInv, NEW j \in DOMAIN dueRows, ScheduleSlot(j)
    PROVE  TypeInv'
<1>1. TypeInv /\ lastRunId \in Nat
  BY Typed, SlotStep
<1>2. /\ lastRunId' = lastRunId + 1 /\ DOMAIN runs' = DOMAIN runs \cup {lastRunId + 1}
      /\ IsTable(runs', lastRunId')
      /\ \A r \in DOMAIN runs : runs'[r].job = runs[r].job
      /\ runs'[lastRunId + 1].job = j
      /\ UNCHANGED <<processVars, loopVars, workerVars, tokens, wakeup, request, executed>>
  BY SlotStep, SlotRowType DEF SameKey
<1> DEFINE s == NextRunAt(dueRows[j].input, dueNow)
<1>3. s \in Time
  BY SlotAssumption, Typed DEF SlotInv, Scheduled
<1>. HIDE DEF s
<1>4. jobs' = UpdateScheduling(jobs, j, s) /\ j \in DOMAIN jobs
  BY DEF ScheduleSlot, CanInsert, s
<1>5. DOMAIN jobs' = DOMAIN jobs /\ jobs' \in [DOMAIN jobs' -> JobRow]
  <2>1. jobs \in [DOMAIN jobs -> JobRow]
    BY <1>1 DEF TypeInv, TypeOK, StoreTypeOK
  <2>. QED  BY <1>3, <1>4, <2>1 DEF UpdateScheduling, JobRow
<1>6. (StoreTypeOK /\ ForeignKey)'
  BY <1>1, <1>2, <1>4, <1>5 DEF TypeInv, TypeOK, StoreTypeOK, ForeignKey, IsTable
<1>7. ControlTypeOK'
  BY <1>1, <1>2, ControlKept DEF TypeInv, TypeOK
<1>. QED  BY <1>6, <1>7 DEF TypeInv, TypeOK

LEMMA UpdateStoreType ==
    ASSUME DueTypeInv, NEW j \in Job, UpdateWrite(j)
    PROVE  TypeInv'
<1>1. TypeInv /\ edits[j] \in JobRow
  BY Typed DEF UpdateWrite, DueTypeInv, DueTypeOK
<1>2. (StoreTypeOK /\ ForeignKey)' /\ UNCHANGED lastRunId /\ lastRunId \in Nat
  BY <1>1 DEF UpdateWrite, UpdateJobRow, TypeInv, TypeOK, StoreTypeOK, ForeignKey
<1>3. ControlTypeOK'
  BY <1>1, <1>2, ControlKept DEF UpdateWrite, TypeInv, TypeOK
<1>. QED  BY <1>2, <1>3 DEF TypeInv, TypeOK

LEMMA DueKeepsTypeInv == DueTypeInv /\ SlotInv /\ [DueNext]_allVars => TypeInv'
BY Typed, InheritedStep, NextType, SlotStoreType, UpdateStoreType

LEMMA OneMore ==
    ASSUME NEW S, NEW n \in Nat, NEW s \in [1 .. n -> S], NEW e \in S
    PROVE  Append(s, e) \in [1 .. n + 1 -> S]
<1>1. s \in Seq(S) /\ Len(s) = n
  OBVIOUS
<1> DEFINE t == Append(s, e)
<1>2. /\ t \in Seq(S) /\ Len(t) = n + 1
  BY <1>1
<1>. HIDE DEF t
<1>3. t \in [1 .. n + 1 -> S]
  BY <1>2
<1>. QED  BY <1>3 DEF t

\* Every run has a place for its started_at, and only the claim writes it.
LEMMA ClaimedAtType ==
    ASSUME DueTypeInv, [DueNext]_allVars
    PROVE  now' \in 0 .. MaxTime /\ now <= now' /\ claimedAt' \in [1 .. lastRunId' -> 0 .. now']
<1>1. /\ now \in Nat /\ lastRunId \in Nat /\ claimedAt \in [1 .. lastRunId -> 0 .. now]
      /\ now \in 0 .. MaxTime /\ MaxTime \in Nat
      /\ \A w \in Worker : pc[w] # "idle" => target[w] \in 1 .. lastRunId
  BY Typed, Types DEF DueTypeInv, DueTypeOK
<1>2. CASE UNCHANGED <<now, claimedAt, lastRunId>>
  BY <1>1, <1>2
<1>3. CASE Tick
  <2>1. now' = now + 1 /\ now' \in 0 .. MaxTime /\ UNCHANGED <<claimedAt, lastRunId>>
    BY <1>1, <1>3 DEF Tick, vars, storeVars
  <2>2. 0 .. now \subseteq 0 .. now'
    BY <1>1, <2>1
  <2>. QED  BY <1>1, <2>1, <2>2
<1>4. ASSUME claimedAt' = Append(claimedAt, 0), lastRunId' = lastRunId + 1, UNCHANGED now
      PROVE  claimedAt' \in [1 .. lastRunId' -> 0 .. now']
  <2>1. 0 \in 0 .. now
    BY <1>1
  <2>. QED  BY <1>1, <1>4, <2>1, OneMore
<1>5. ASSUME NEW w \in Worker, WorkerStep(w)
      PROVE  UNCHANGED now /\ claimedAt' \in [1 .. lastRunId' -> 0 .. now']
  <2>1. CASE ClaimStep(w)
    <3>1. UNCHANGED <<now, lastRunId>> /\ claimedAt' = [claimedAt EXCEPT ![target[w]] = now]
      BY <2>1 DEF ClaimStep, ClaimRun
    <3>2. now \in 0 .. now
      BY <1>1
    <3>. QED  BY <1>1, <3>1, <3>2
  <2>2. CASE FinalizeStep(w)
    <3>1. UNCHANGED now /\ lastRunId' \in {lastRunId, lastRunId + 1}
          /\ claimedAt' = IF lastRunId' > lastRunId THEN Append(claimedAt, 0) ELSE claimedAt
      BY <2>2 DEF FinalizeStep, FinalizeRun
    <3>. QED  BY <1>1, <1>4, <3>1
  <2>3. CASE ~ClaimStep(w) /\ ~FinalizeStep(w)
    <3>1. UNCHANGED <<now, claimedAt, lastRunId>>
      BY <1>5, <2>3 DEF WorkerStep, TimeoutStep, LoadRun, LoadFails, CloseCancelling,
         LeaveUnclaimed, StartTxFails, CloseClaimed, Execute, ExecuteReturns,
         FinalizeTxFails, SignalDispatch, ReleaseToken, dueVars, storeVars
    <3>. QED  BY <1>1, <3>1
  <2>. QED  BY <2>1, <2>2, <2>3
<1>6. ASSUME NEW j \in Job, TriggerNow(j)
      PROVE  UNCHANGED now /\ claimedAt' \in [1 .. lastRunId' -> 0 .. now']
  BY <1>4, <1>6 DEF TriggerNow, TriggerJob
<1>7. ASSUME NEW j \in DOMAIN dueRows, ScheduleSlot(j)
      PROVE  UNCHANGED now /\ claimedAt' \in [1 .. lastRunId' -> 0 .. now']
  BY <1>4, <1>7 DEF ScheduleSlot
<1>8. ASSUME NEW j \in DOMAIN dueRows, ScheduleFails(j) PROVE UNCHANGED <<now, claimedAt, lastRunId>>
  BY <1>8 DEF ScheduleFails, vars, storeVars
<1>9. ASSUME NEW j \in Job, UpdateWrite(j) \/ \E input \in JobInputs : UpdateRead(j, input)
      PROVE  UNCHANGED <<now, claimedAt, lastRunId>>
  BY <1>9 DEF UpdateWrite, UpdateRead, vars, storeVars
<1>10. CASE UNCHANGED allVars \/ DueTick \/ DueWake \/ StopDueLoop \/ ListDue \/ ListDueFails
  BY <1>2, <1>10 DEF allVars, vars, storeVars, dueVars, DueTick, DueWake, StopDueLoop, ListDue,
     ListDueFails
<1>11. CASE StartBoth \/ StartFails \/ DispatchLoopStep
  BY <1>2, <1>11 DEF StartBoth, StartFails, StartLoops, RecoverOrphansFails, DispatchLoopStep,
     DispatchTick, DispatchWake, StopLoop, Scan, ScanFails, AbandonBatch, Spawn, storeVars,
     dueVars
<1>12. CASE RequestStep \/ PruneStep \/ SignalStep \/ EndStep \/ RestartStep
  BY <1>2, <1>12 DEF PruneStep, RetentionNext, DeleteTerminalBefore, RequestStep, DeleteJob, DeleteJobRow, CancelRead, CancelWrite, SignalStep,
     Shutdown, EndStep, Crash, MainReturns, ProcessEnds, RestartStep, Restart, storeVars, dueVars
<1>. QED
  BY <1>1, <1>2, <1>3, <1>5, <1>6, <1>7, <1>8, <1>9, <1>10, <1>11, <1>12 DEF DueNext, DueLoopStep

\* The loop's own variables: rows are listed exactly while it works through a pass.
PassTypeOK ==
    /\ dueLoop \in {"off", "wait", "scan", "process", "done"}
    /\ dueRows \in [DOMAIN dueRows -> JobRow] /\ DOMAIN dueRows \subseteq Job
    /\ (DOMAIN dueRows # {}) = (dueLoop = "process")
    /\ dueNow \in 0 .. now
    /\ dueWakeup \in BOOLEAN
    /\ edits \in [DOMAIN edits -> JobRow] /\ DOMAIN edits \subseteq Job
    /\ updates \in 0 .. MaxUpdates
    /\ handled \subseteq Job \X Time

\* j leaves the list of a pass.
LEMMA ListShrinks ==
    ASSUME DueTypeInv, NEW j \in DOMAIN dueRows, DoneWith(j), UNCHANGED now
    PROVE  /\ dueLoop' \in {"off", "wait", "scan", "process", "done"}
           /\ dueRows' \in [DOMAIN dueRows' -> JobRow] /\ DOMAIN dueRows' \subseteq Job
           /\ (DOMAIN dueRows' # {}) = (dueLoop' = "process")
           /\ dueNow' \in 0 .. now'
<1>1. /\ dueRows \in [DOMAIN dueRows -> JobRow] /\ DOMAIN dueRows \subseteq Job
      /\ dueNow \in 0 .. now /\ now \in Nat
  BY DueAssumption DEF DueTypeInv, DueTypeOK
<1>2. DOMAIN dueRows \ {j} = {} <=> DOMAIN dueRows = {j}
  OBVIOUS
<1>3. DOMAIN dueRows' = DOMAIN dueRows \ {j}
  BY DEF DoneWith
<1>4. dueRows' \in [DOMAIN dueRows' -> JobRow]
  BY <1>1, <1>3 DEF DoneWith
<1>5. 0 \in 0 .. now
  BY <1>1
<1>. QED  BY <1>1, <1>2, <1>3, <1>4, <1>5 DEF DoneWith

LEMMA PassType ==
    ASSUME DueTypeInv, SlotInv, [DueNext]_allVars, now <= now', now' \in 0 .. MaxTime
    PROVE  PassTypeOK'
<1>1. /\ PassTypeOK /\ now \in Nat /\ MaxUpdates \in Nat
      /\ jobs \in [DOMAIN jobs -> JobRow] /\ DOMAIN jobs \subseteq Job
  BY DueAssumption DEF DueTypeInv, DueTypeOK, PassTypeOK, TypeOK, StoreTypeOK
<1>2. dueNow \in 0 .. now'
  BY <1>1, DueAssumption DEF PassTypeOK
<1>3. CASE UNCHANGED <<dueLoopVars, dueWakeup, edits, updates, handled>>
  BY <1>1, <1>2, <1>3 DEF PassTypeOK, dueLoopVars
<1>4. CASE StartBoth \/ StartFails
  <2>1. DOMAIN dueRows = {}
    BY <1>1, <1>4 DEF StartBoth, StartFails, StartLoops, RecoverOrphansFails, DueTypeInv,
       PassTypeOK
  <2>. QED  BY <1>1, <1>2, <1>4, <2>1 DEF StartBoth, StartFails, PassTypeOK
<1>5. CASE DueTick \/ DueWake \/ StopDueLoop \/ ListDueFails
  BY <1>1, <1>2, <1>5 DEF DueTick, DueWake, StopDueLoop, ListDueFails, PassTypeOK
<1>6. CASE ListDue
  <2> DEFINE due == {j \in DOMAIN jobs : Due(j)}
  <2>1. due \subseteq DOMAIN jobs
    OBVIOUS
  <2>2. /\ dueRows' = [j \in due |-> jobs[j]]
        /\ dueLoop' = IF due = {} THEN "wait" ELSE "process"
        /\ dueNow' = IF due = {} THEN 0 ELSE now
        /\ UNCHANGED <<now, dueWakeup, edits, updates, handled>>
    BY <1>6 DEF ListDue
  <2>. HIDE DEF due
  <2>3. 0 \in 0 .. now /\ now \in 0 .. now
    BY <1>1
  <2>. QED  BY <1>1, <2>1, <2>2, <2>3 DEF PassTypeOK
<1>7. ASSUME NEW j \in DOMAIN dueRows, ScheduleSlot(j) PROVE PassTypeOK'
  <2>1. DoneWith(j) /\ UNCHANGED <<now, dueWakeup, edits, updates>>
        /\ handled' = handled \cup {<<j, dueRows[j].next>>}
    BY <1>7 DEF ScheduleSlot
  <2>2. <<j, dueRows[j].next>> \in Job \X Time
    BY <1>1 DEF PassTypeOK, JobRow
  <2>. QED  BY <1>1, <2>1, <2>2, ListShrinks DEF PassTypeOK
<1>8. ASSUME NEW j \in DOMAIN dueRows, ScheduleFails(j) PROVE PassTypeOK'
  <2>1. DoneWith(j) /\ UNCHANGED <<now, dueWakeup, edits, updates, handled>>
    BY <1>8 DEF ScheduleFails
  <2>. QED  BY <1>1, <2>1, ListShrinks DEF PassTypeOK
<1>9. ASSUME NEW j \in Job, NEW input \in JobInputs, UpdateRead(j, input) PROVE PassTypeOK'
  <2> DEFINE s == NextRunAt(input, now)
  <2>1. s \in Time /\ input \in JobInput
    BY SlotAssumption, DispatchAssumption DEF DueTypeInv, DueTypeOK
  <2>2. /\ edits' = [i \in DOMAIN edits \cup {j} |->
                      IF i = j THEN [input |-> input, next |-> s] ELSE edits[i]]
        /\ updates < MaxUpdates /\ updates' = updates + 1
        /\ UNCHANGED <<now, dueLoop, dueRows, dueNow, dueWakeup, handled>>
    BY <1>9 DEF UpdateRead, dueLoopVars
  <2>. HIDE DEF s
  <2>3. [input |-> input, next |-> s] \in JobRow
    BY <2>1 DEF JobRow
  <2>4. edits' \in [DOMAIN edits' -> JobRow] /\ DOMAIN edits' \subseteq Job
    BY <1>1, <2>2, <2>3 DEF PassTypeOK
  <2>5. updates' \in 0 .. MaxUpdates
    BY <1>1, <2>2 DEF PassTypeOK
  <2>. QED  BY <1>1, <2>2, <2>4, <2>5 DEF PassTypeOK
<1>10. ASSUME NEW j \in Job, UpdateWrite(j) PROVE PassTypeOK'
  <2>1. /\ edits' = [i \in DOMAIN edits \ {j} |-> edits[i]] /\ dueWakeup' = TRUE
        /\ UNCHANGED <<now, dueLoop, dueRows, dueNow, updates, handled>>
    BY <1>10 DEF UpdateWrite, dueLoopVars
  <2>2. edits' \in [DOMAIN edits' -> JobRow] /\ DOMAIN edits' \subseteq Job
    BY <1>1, <2>1 DEF PassTypeOK
  <2>. QED  BY <1>1, <2>1, <2>2 DEF PassTypeOK
<1>11. CASE EndStep
  <2>1. /\ dueLoop' = "off" /\ dueRows' = << >> /\ dueNow' = 0 /\ dueWakeup' = FALSE
        /\ edits' = << >> /\ UNCHANGED <<now, updates, handled>>
    BY <1>11 DEF EndStep, NoRows
  <2>2. << >> \in [DOMAIN << >> -> JobRow] /\ DOMAIN << >> = {} /\ 0 \in 0 .. now
    BY <1>1
  <2>. QED  BY <1>1, <2>1, <2>2 DEF PassTypeOK
<1>12. CASE UNCHANGED allVars \/ Tick \/ DispatchLoopStep \/ RequestStep \/ PruneStep
            \/ SignalStep \/ RestartStep
  BY <1>3, <1>12 DEF allVars, dueVars, Tick, DispatchLoopStep, RequestStep, PruneStep,
     SignalStep, RestartStep
<1>13. ASSUME NEW w \in Worker, WorkerStep(w) PROVE PassTypeOK'
  BY <1>3, <1>13 DEF WorkerStep, ClaimStep, TimeoutStep, FinalizeStep, dueVars
<1>14. ASSUME NEW j \in Job, TriggerNow(j) PROVE PassTypeOK'
  BY <1>3, <1>14 DEF TriggerNow
<1>. QED
  BY <1>4, <1>5, <1>6, <1>7, <1>8, <1>9, <1>10, <1>11, <1>12, <1>13, <1>14
     DEF DueNext, DueLoopStep

\* Start launches both loops or none, and they end together.
LEMMA LoopsTogether ==
    ASSUME loop = "off" => dueLoop = "off", [DueNext]_allVars
    PROVE  loop' = "off" => dueLoop' = "off"
<1>1. CASE UNCHANGED <<loop, dueLoop>>
  BY <1>1
<1>2. CASE StartBoth \/ StartFails \/ DispatchLoopStep
  BY <1>2 DEF StartBoth, StartFails, StartLoops, RecoverOrphansFails, DispatchLoopStep,
     DispatchTick, DispatchWake, StopLoop, Scan, ScanFails, AbandonBatch, Spawn
<1>3. CASE DueTick \/ DueWake \/ StopDueLoop \/ ListDue \/ ListDueFails
  BY <1>3 DEF DueTick, DueWake, StopDueLoop, ListDue, ListDueFails, vars, loopVars
<1>4. ASSUME NEW j, ScheduleSlot(j) \/ ScheduleFails(j) PROVE loop' # "off"
  BY <1>4 DEF ScheduleSlot, ScheduleFails, vars, loopVars
<1>5. ASSUME NEW w \in Worker, WorkerStep(w) PROVE UNCHANGED <<loop, dueLoop>>
  BY <1>5 DEF WorkerStep, ClaimStep, TimeoutStep, FinalizeStep, LoadRun, LoadFails,
     ClaimRun, CloseCancelling, LeaveUnclaimed, StartTxFails, CloseClaimed, Execute,
     ExecuteReturns, FinalizeRun, FinalizeTxFails, SignalDispatch, ReleaseToken, dueVars,
     dueLoopVars, loopVars
<1>6. ASSUME NEW j \in Job, \/ TriggerNow(j) \/ UpdateWrite(j)
                            \/ \E input \in JobInputs : UpdateRead(j, input)
      PROVE  UNCHANGED <<loop, dueLoop>>
  BY <1>6 DEF TriggerNow, TriggerJob, UpdateWrite, UpdateRead, vars, dueLoopVars, loopVars
<1>7. CASE EndStep
  BY <1>7 DEF EndStep
<1>8. CASE \/ UNCHANGED allVars \/ Tick \/ RequestStep \/ PruneStep \/ SignalStep
           \/ RestartStep
  BY <1>1, <1>8 DEF allVars, Tick, RequestStep, DeleteJob, CancelRead, CancelWrite, PruneStep,
     RetentionNext, DeleteTerminalBefore, SignalStep, Shutdown, RestartStep, Restart, vars, dueVars, dueLoopVars, loopVars
<1>. QED
  BY <1>1, <1>2, <1>3, <1>4, <1>5, <1>6, <1>7, <1>8 DEF DueNext, DueLoopStep

LEMMA DueInitType == DueInit => DueTypeInv
<1> SUFFICES ASSUME DueInit PROVE DueTypeInv
  OBVIOUS
<1>1. TypeInv
  BY InitType DEF DueInit
<1>2. << >> \in [DOMAIN << >> -> JobRow] /\ DOMAIN << >> = {}
  OBVIOUS
<1>3. claimedAt \in [1 .. lastRunId -> 0 .. now]
  BY DEF DueInit, Init
<1>4. now \in 0 .. MaxTime /\ dueNow \in 0 .. now /\ updates \in 0 .. MaxUpdates
  BY DueAssumption DEF DueInit
<1>5. /\ dueLoop = "off" /\ dueRows = << >> /\ edits = << >>
      /\ dueWakeup = FALSE /\ handled = {}
  BY DEF DueInit, NoRows
<1>. QED
  BY <1>1, <1>2, <1>3, <1>4, <1>5 DEF DueTypeInv, DueTypeOK, TypeInv

LEMMA DueNextType == DueTypeInv /\ SlotInv /\ [DueNext]_allVars => DueTypeInv'
<1> SUFFICES ASSUME DueTypeInv, SlotInv, [DueNext]_allVars PROVE DueTypeInv'
  OBVIOUS
<1>1. TypeInv' /\ PassTypeOK' /\ (loop' = "off" => dueLoop' = "off")
  BY DueKeepsTypeInv, PassType, ClaimedAtType, LoopsTogether DEF DueTypeInv
<1>. QED
  BY <1>1, ClaimedAtType DEF DueTypeInv, DueTypeOK, PassTypeOK, TypeInv

LEMMA DueTypeInvariant == DueSpec => []DueTypeInv
BY DueInitType, DueNextType, SlotInvariant, PTL DEF DueSpec

\* Types of the scheduler with its clock, its second loop and updates in flight; slots
\* and rows keep their types for every calendar.
THEOREM DueTypesCorrect == DueSpec => []DueTypeOK
<1>1. DueTypeInv => DueTypeOK
  BY DEF DueTypeInv
<1>. QED  BY <1>1, DueTypeInvariant, PTL

-----------------------------------------------------------------------------
(* The sweep and the slots leave dispatch the queue it is.                 *)

\* The due-job loop takes no run from a goroutine and makes no row pending again, even
\* where it closes the row of a run that is executing.
LEMMA SlotQuiet ==
    ASSUME DueTypeInv, NEW j \in DOMAIN dueRows, ScheduleSlot(j)
    PROVE  QuietWorkers /\ NonePending /\ UNCHANGED executed
<1>1. QuietWorkers /\ UNCHANGED executed
  BY SlotStep DEF workerVars, QuietWorkers, Holding, Executing
<1>2. NonePending
  BY SlotStep DEF NonePending, Closes
<1>. QED  BY <1>1, <1>2

LEMMA DueExclusive == DueTypeInv /\ ExclusiveInv /\ [DueNext]_allVars => ExclusiveInv'
<1> SUFFICES ASSUME DueTypeInv, ExclusiveInv, [DueNext]_allVars PROVE ExclusiveInv'
  OBVIOUS
<1>1. ASSUME NEW j \in DOMAIN dueRows, ScheduleSlot(j) PROVE ExclusiveInv'
  BY <1>1, SlotQuiet, Typed, QuietKeepsExclusive
<1>2. ASSUME NEW j \in Job, UpdateWrite(j) PROVE ExclusiveInv'
  BY <1>2 DEF UpdateWrite, workerVars, ExclusiveInv, Holding, HasStatus, Executing, Pending
<1>. QED  BY <1>1, <1>2, InheritedStep, Typed, NextExclusive

LEMMA DueTokens == DueTypeInv /\ TokenInv /\ [DueNext]_allVars => TokenInv'
<1> SUFFICES ASSUME DueTypeInv, TokenInv, [DueNext]_allVars PROVE TokenInv'
  OBVIOUS
<1>1. ASSUME NEW j \in DOMAIN dueRows, ScheduleSlot(j) PROVE TokenInv'
  BY <1>1, KeepsTokens DEF ScheduleSlot, loopVars, workerVars, Busy
<1>2. ASSUME NEW j \in Job, UpdateWrite(j) PROVE TokenInv'
  BY <1>2, KeepsTokens DEF UpdateWrite, loopVars, workerVars, Busy
<1>. QED  BY <1>1, <1>2, InheritedStep, Typed, NextTokens

LEMMA DueInvariants == DueSpec => [](DueTypeInv /\ ExclusiveInv /\ TokenInv)
<1>1. DueInit => ExclusiveInv /\ TokenInv
  BY InitClaims, InitTokens DEF DueInit, ClaimInv
<1>. QED
  BY <1>1, DueExclusive, DueTokens, DueTypeInvariant, PTL DEF DueSpec

\* A slot submits a run, or refuses one: a swept run was not waiting.
LEMMA SlotEnters ==
    ASSUME DueTypeInv, NEW j \in DOMAIN dueRows, ScheduleSlot(j)
    PROVE  Queue!QueueNext
<1> DEFINE r == lastRunId + 1
<1>1. r \notin Known /\ Known' = Known \cup {r}
  BY SlotStep DEF Known
<1>2. UNCHANGED <<pc, target>>
  BY SlotStep DEF workerVars
<1>3. Ongoing' = Ongoing
  BY <1>2 DEF Ongoing, Executing
<1>4. Pending' = IF Blocked(j) THEN Pending ELSE Pending \cup {r}
  BY SlotStep, SlotRowType DEF Pending, Closes
<1>5. Queued' = IF Blocked(j) THEN Queued ELSE Queued \cup {r}
  BY <1>2, <1>4 DEF Queued
<1>. HIDE DEF r
<1>. QED  BY <1>1, <1>3, <1>5, Submits, Refuses

LEMMA DueStepIsQueueStep ==
    ASSUME DueTypeInv, DueTypeInv', ExclusiveInv, TokenInv, [DueNext]_allVars
    PROVE  Queue!QueueNext \/ UNCHANGED <<Known, Queued, Ongoing>>
<1>1. ASSUME NEW j \in Job, UpdateWrite(j) PROVE UNCHANGED <<Known, Queued, Ongoing>>
  BY <1>1 DEF UpdateWrite, workerVars, Known, Queued, Ongoing, Executing, Pending
<1>2. TypeInv'
  BY DEF DueTypeInv, DueTypeOK, TypeInv
<1>. QED
  BY <1>1, <1>2, SlotEnters, InheritedStep, Typed, StepIsQueueStep DEF TokenInv

\* The queue that dispatch implements survives the due-job loop beside it: runs of slots
\* enter once, skipped ones never wait, and closing the row of a run past its timeout
\* neither executes it again nor frees a place for more than MaxConcurrentRuns.
THEOREM SchedulerIsAQueue == DueSpec => ImplementsQueue
<1>1. DueTypeInv /\ DueTypeInv' /\ ExclusiveInv /\ TokenInv /\ [DueNext]_allVars
        => [Queue!QueueNext]_(Queue!queueVars)
  BY DueStepIsQueueStep DEF Queue!queueVars, Known, Queued, Ongoing
<1>2. DueInit => Queue!QueueInit
  BY InitIsQueueInit DEF DueInit
<1>. QED
  BY <1>1, <1>2, DueInvariants, PTL DEF DueSpec, ImplementsQueue, Queue!QueueSpec

\* No run is executed twice, although the sweep closes rows of runs that execute.
THEOREM SweepNeverRepeats == DueSpec => ExecutedOnce
<1> DEFINE Once == \A w \in Worker :
                      pc[w] # "exec" /\ pc'[w] = "exec" => target[w] \notin executed
<1>1. DueTypeInv /\ ExclusiveInv /\ [DueNext]_allVars => [Once]_vars
  <2> SUFFICES ASSUME DueTypeInv, ExclusiveInv, [DueNext]_allVars,
                      NEW w \in Worker, pc[w] # "exec", pc'[w] = "exec"
               PROVE  target[w] \notin executed
    OBVIOUS
  <2>1. \A j \in DOMAIN dueRows : ~ScheduleSlot(j)
    BY DEF ScheduleSlot, workerVars
  <2>2. \A j \in Job : ~UpdateWrite(j)
    BY DEF UpdateWrite, workerVars
  <2>3. Next
    BY <2>1, <2>2, InheritedStep DEF vars, workerVars
  <2>. QED  BY <2>3, Typed, ExecutesFresh
<1>. QED  BY <1>1, DueInvariants, PTL DEF DueSpec, ExecutedOnce

-----------------------------------------------------------------------------

\* Runs that dispatch creates itself, triggered ones and retries, are pending.
LEMMA NewRunsArePending ==
    ASSUME TypeInv, ExclusiveInv, [Next]_vars, NEW r \in DOMAIN runs' \ DOMAIN runs
    PROVE  runs'[r].status = "pending"
BY LogSteps DEF LogQuiet, LogStarts, LogEnds, NewRow

\* A job with policy forbid is never blocked beyond the timeout of a run that died with
\* its process: the run a slot is skipped for was younger than that at the scan, and the
\* transaction that skips the slot leaves it running.
THEOREM SkipsAreJustified == DueSpec => SkipNeedsLiveRun
<1> DEFINE Justified ==
       \A r \in DOMAIN runs' \ DOMAIN runs :
          runs'[r].status = "skipped" =>
              \E q \in DOMAIN runs :
                  /\ runs[q].job = runs'[r].job /\ runs'[q].status = "running"
                  /\ Timeout = 0 \/ dueNow < claimedAt[q] + Timeout
<1>1. DueTypeInv /\ ExclusiveInv /\ [DueNext]_allVars => [Justified]_allVars
  <2> SUFFICES ASSUME DueTypeInv, ExclusiveInv, [DueNext]_allVars,
                      NEW r \in DOMAIN runs' \ DOMAIN runs, runs'[r].status = "skipped"
               PROVE  \E q \in DOMAIN runs :
                         /\ runs[q].job = runs'[r].job /\ runs'[q].status = "running"
                         /\ Timeout = 0 \/ dueNow < claimedAt[q] + Timeout
    OBVIOUS
  <2>1. ~[Next]_vars
    BY NewRunsArePending, Typed
  <2>2. \A j \in Job : ~UpdateWrite(j)
    BY DEF UpdateWrite
  <2>3. PICK j \in DOMAIN dueRows : ScheduleSlot(j)
    BY <2>1, <2>2, InheritedStep
  <2>4. r = lastRunId + 1 /\ runs'[r] = SlotRow(j)
    BY <2>3, SlotStep
  <2>5. Blocked(j) /\ runs'[r].job = j
    BY <2>4, SlotRowType
  <2>6. PICK q \in Running(j) : ~Stale(q)
    BY <2>5 DEF Blocked
  <2>7. q \in DOMAIN runs /\ runs[q].job = j /\ runs[q].status = "running"
    BY <2>6 DEF Running
  <2>8. runs'[q] = runs[q]
    BY <2>3, <2>5, <2>6, <2>7, SlotStep DEF Blocked
  <2>9. dueNow \in Nat /\ claimedAt[q] \in Nat /\ Timeout \in Nat
    <3>1. q \in 1 .. lastRunId
      BY <2>7, Typed, Types
    <3>2. Timeout \in Nat
      BY DueAssumption DEF Timeout, Effective, SchedulerConfig, Valid
    <3>3. now \in Nat
      BY DueAssumption DEF DueTypeInv, DueTypeOK
    <3>. QED  BY <3>1, <3>2, <3>3 DEF DueTypeInv, DueTypeOK
  <2>10. Timeout = 0 \/ dueNow < claimedAt[q] + Timeout
    BY <2>6, <2>9 DEF Stale
  <2>. QED  BY <2>5, <2>7, <2>8, <2>10
<1>. QED  BY <1>1, DueInvariants, PTL DEF DueSpec, SkipNeedsLiveRun

-----------------------------------------------------------------------------
(* What dispatch promises on its own still holds with both loops at work.  *)

\* With the due-job loop inserting and closing rows the token channel is exact, and the
\* dispatch loop never blocks on it (dispatch.go:32, 47).
THEOREM SchedulerNeverBlocks == DueSpec => [](TokensAreWorkers /\ BatchFits)
<1>1. DueTypeInv /\ TokenInv => TokensAreWorkers /\ BatchFits
  BY DEF TokenInv
<1>. QED  BY <1>1, DueInvariants, PTL

\* The sweep closes for good: neither it nor a skipped slot, an update or the outcome of
\* a goroutine whose run was swept makes a row pending again.
THEOREM SweepNeverRequeues == DueSpec => NeverPendingAgain
<1> DEFINE Kept == \A r \in DOMAIN runs \cap DOMAIN runs' :
                      runs'[r].status = "pending" => runs[r].status = "pending"
<1>1. DueTypeInv /\ ExclusiveInv /\ [DueNext]_allVars => [Kept]_vars
  <2> SUFFICES ASSUME DueTypeInv, ExclusiveInv, [DueNext]_allVars PROVE Kept \/ UNCHANGED vars
    OBVIOUS
  <2>1. ASSUME NEW j \in DOMAIN dueRows, ScheduleSlot(j) PROVE Kept
    BY <2>1, SlotQuiet DEF NonePending
  <2>2. ASSUME NEW j \in Job, UpdateWrite(j) PROVE Kept
    BY <2>2 DEF UpdateWrite
  <2>3. ASSUME Next PROVE Kept
    BY <2>3, Typed, NextNonePending DEF NonePending
  <2>. QED  BY <2>1, <2>2, <2>3, InheritedStep
<1>. QED  BY <1>1, DueInvariants, PTL DEF DueSpec, NeverPendingAgain

LEMMA DueLimits == DueTypeInv /\ SlotInv /\ LimitInv /\ [DueNext]_allVars => LimitInv'
<1> SUFFICES ASSUME DueTypeInv, SlotInv, LimitInv, [DueNext]_allVars PROVE LimitInv'
  OBVIOUS
<1>1. ASSUME NEW j \in DOMAIN dueRows, ScheduleSlot(j) PROVE LimitInv'
  <2>1. UNCHANGED limit
    BY <1>1, SlotStep DEF workerVars
  <2>2. PICK s : jobs' = UpdateScheduling(jobs, j, s)
    BY <1>1 DEF ScheduleSlot
  <2>3. \A i \in DOMAIN jobs' : i \in DOMAIN jobs /\ jobs'[i].input = jobs[i].input
    BY <2>2 DEF UpdateScheduling, SlotInv, Scheduled
  <2>. QED  BY <2>1, <2>3 DEF LimitInv
<1>2. ASSUME NEW j \in Job, UpdateWrite(j) PROVE LimitInv'
  <2>1. UNCHANGED limit /\ edits[j].input \in JobInputs
    BY <1>2 DEF UpdateWrite, workerVars, SlotInv, Scheduled
  <2>. QED  BY <1>2, <2>1 DEF UpdateWrite, UpdateJobRow, LimitInv
<1>. QED  BY <1>1, <1>2, InheritedStep, Typed, NextLimits

\* A slot starts a chain of attempts of its own: the key of its first attempt is free,
\* and as long as retention deletes no rows its later ones do not exist either.
LEMMA DueRetries ==
    ASSUME ~HistoryLimit, DueTypeInv, DueTypeInv', ExclusiveInv, LimitInv, RetryInv,
           [DueNext]_allVars
    PROVE  RetryInv'
<1>0. TypeInv /\ TypeInv'
  BY DEF DueTypeInv, DueTypeOK, TypeInv
<1>1. ASSUME NEW j \in DOMAIN dueRows, ScheduleSlot(j) PROVE RetryInv'
  <2> DEFINE row == SlotRow(j)
  <2>1. row.job = j /\ row.slot = dueRows[j].next /\ row.attempt = 0
    BY SlotRowType
  <2>2. KeyFree(runs, j, dueRows[j].next, 0)
    BY <1>1 DEF ScheduleSlot, CanInsert
  <2>3. /\ DOMAIN runs' = DOMAIN runs \cup {lastRunId + 1} /\ runs'[lastRunId + 1] = row
        /\ \A r \in DOMAIN runs : SameKey(runs'[r], runs[r])
        /\ UNCHANGED <<workerVars, executed>>
    BY <1>1, SlotStep
  <2>. HIDE DEF row
  <2>4. KeyAdded(row)
    BY <2>1, <2>2, <2>3 DEF KeyAdded, SameKey
  <2>5. NoneReturns
    BY <2>3 DEF NoneReturns, workerVars, Executing
  <2>6. SlotRuns(row.job, row.slot) = {}
    <3> SUFFICES ASSUME NEW p \in DOMAIN runs, runs[p].job = j, runs[p].slot = dueRows[j].next
                 PROVE  FALSE
      BY <2>1 DEF SlotRuns
    <3>1. runs[p].attempt \in Nat /\ InOrder(p)
      BY <1>0 DEF RetryInv, TypeInv, TypeOK, StoreTypeOK, RunRow
    <3>2. runs[p].attempt # 0
      BY <2>2 DEF KeyFree
    <3>3. PICK q \in SlotRuns(j, dueRows[j].next) : runs[q].attempt = 0
      BY <3>1, <3>2 DEF InOrder, Complete
    <3>. QED  BY <2>2, <3>3 DEF KeyFree, SlotRuns
  <2>7. Allowed(row.attempt) /\ \A S : Complete(S, row.attempt)
    BY <2>1 DEF Allowed, Complete
  <2>. QED  BY <1>0, <2>4, <2>5, <2>6, <2>7, AddedAttempt
<1>2. ASSUME NEW j \in Job, UpdateWrite(j) PROVE RetryInv'
  <2>1. UNCHANGED <<runs, workerVars, executed>>
    BY <1>2 DEF UpdateWrite
  <2>2. NoneReturns
    BY <2>1 DEF NoneReturns, workerVars, Executing
  <2>. QED  BY <1>0, <2>1, <2>2, UnchangedKeys, KeptAttempts
<1>. QED  BY <1>0, <1>1, <1>2, InheritedStep, NextRetries

LEMMA DueRetryInvariant ==
    ASSUME ~HistoryLimit PROVE DueSpec => [](DueTypeInv /\ RetryInv)
<1>1. DueInit => LimitInv /\ RetryInv
  BY InitRetries DEF DueInit
<1>2. /\ DueTypeInv /\ DueTypeInv' /\ ExclusiveInv /\ LimitInv /\ RetryInv /\ [DueNext]_allVars
      => RetryInv'
  BY DueRetries
<1>. QED
  BY <1>1, <1>2, DueLimits, DueInvariants, SlotInvariant, PTL DEF DueSpec

\* Retries stay in order when the sweep closes a run that goes on executing: the retry
\* comes with the outcome of the goroutine and never from the sweep, and no slot, manual
\* trigger or second outcome gives an attempt twice.  That is so as long as retention
\* deletes no runs: a slot that comes back (FreshSlot says when) could otherwise be given
\* a first attempt beneath a retry whose own first attempt was deleted.
THEOREM SweptRetriesInOrder ==
    ASSUME ~HistoryLimit PROVE DueSpec => [](RetriesFollowAttempts /\ RetryKeyFree)
<1>1. DueTypeInv /\ RetryInv => RetriesFollowAttempts /\ RetryKeyFree
  BY Typed, RetryFitsThere, OrderOfRows
<1>. QED  BY <1>1, DueRetryInvariant, PTL

-----------------------------------------------------------------------------
(* Event logs with the sweep.                                              *)

\* At most one start, results after it, and a second result only after the timeout of
\* the sweep.
SweepsOnce(log) ==
    /\ Cardinality(Starts(log)) <= 1
    /\ \A i \in Results(log) : \E k \in Starts(log) : k < i
    /\ \A i, k \in Results(log) : i < k => log[i] = "timeout" /\ Results(log) = {i, k}

\* A run that a goroutine still holds: the sweep may have been there, an outcome not.
AtMostSwept(log) ==
    /\ Starts(log) # {}
    /\ \A i, k \in Results(log) : i = k /\ log[i] = "timeout"

SweptTells(r) ==
    /\ SweepsOnce(runs[r].log)
    /\ runs[r].status = "pending" => Unstarted(runs[r].log)
    /\ runs[r].status = "running" => Open(runs[r].log)
    /\ runs[r].status \in {"success", "failed", "timeout"} => Results(runs[r].log) # {}
    /\ runs[r].status \in {"success", "failed"} => r \in executed

HeldAtMostSwept ==
    \A w \in Worker :
        Holding(w) /\ target[w] \in DOMAIN runs => AtMostSwept(runs[target[w]].log)

SweptInv == (\A r \in DOMAIN runs : SweptTells(r)) /\ HeldAtMostSwept

LEMMA EarlierEvents ==
    ASSUME NEW log \in Seq(EventType), NEW e \in EventType, NEW E,
           NEW i \in EventsAt(log, E)
    PROVE  Append(log, e)[i] = log[i] /\ i \in Nat /\ i < Len(log) + 1 /\ Len(log) \in Nat
BY DEF EventsAt

LEMMA OpenTells ==
    ASSUME NEW log \in Seq(EventType), Open(log), OneExecution(log)
    PROVE  SweepsOnce(log) /\ AtMostSwept(log)
BY DEF Open, OneExecution, SweepsOnce, AtMostSwept

LEMMA AnnotationTells ==
    ASSUME NEW log \in Seq(EventType), NEW e \in EventType \ ({"started"} \cup ResultEvents)
    PROVE  /\ SweepsOnce(log) => SweepsOnce(Append(log, e))
           /\ AtMostSwept(log) => AtMostSwept(Append(log, e))
<1>1. Starts(Append(log, e)) = Starts(log) /\ Results(Append(log, e)) = Results(log)
  BY Annotated
<1>2. \A i \in Results(log) : Append(log, e)[i] = log[i]
  BY EarlierEvents DEF Results
<1>. QED  BY <1>1, <1>2 DEF SweepsOnce, AtMostSwept

\* The sweep closes a log that was started and not ended.
LEMMA SweepTells ==
    ASSUME NEW log \in Seq(EventType), SweepsOnce(log), Open(log)
    PROVE  LET more == Append(log, "timeout") IN
           SweepsOnce(more) /\ AtMostSwept(more) /\ Results(more) # {}
<1> DEFINE n == Len(log) + 1
           more == Append(log, "timeout")
<1>1. "timeout" \in EventType /\ "timeout" \in ResultEvents /\ "timeout" \notin {"started"}
  BY DEF EventType, ResultEvents
<1>2. Results(more) = {n}
  BY <1>1, EventAppended DEF Results, Open
<1>3. Starts(more) = Starts(log)
  BY <1>1, EventAppended DEF Starts
<1>4. \A k \in Starts(log) : k < n
  BY <1>1, EarlierEvents DEF Starts
<1>5. more[n] = "timeout" /\ n \in Nat
  OBVIOUS
<1>. HIDE DEF n, more
<1>6. SweepsOnce(more)
  BY <1>2, <1>3, <1>4, <1>5 DEF SweepsOnce, Open
<1>7. AtMostSwept(more)
  BY <1>2, <1>3, <1>5 DEF AtMostSwept, Open
<1>. QED  BY <1>2, <1>6, <1>7 DEF more

\* The outcome of the goroutine comes last.
LEMMA OutcomeTells ==
    ASSUME NEW log \in Seq(EventType), NEW e \in ResultEvents, SweepsOnce(log), AtMostSwept(log)
    PROVE  SweepsOnce(Append(log, e)) /\ Results(Append(log, e)) # {}
<1> DEFINE n == Len(log) + 1
           more == Append(log, e)
<1>1. e \in EventType /\ e \notin {"started"}
  BY DEF EventType, ResultEvents
<1>2. Results(more) = Results(log) \cup {n}
  BY <1>1, EventAppended DEF Results
<1>3. Starts(more) = Starts(log)
  BY <1>1, EventAppended DEF Starts
<1>4. \A k \in Starts(log) : k < n
  BY <1>1, EarlierEvents DEF Starts
<1>5. ASSUME NEW i \in Results(log) PROVE more[i] = log[i] /\ i \in Nat /\ i < n
  <2>1. i \in EventsAt(log, ResultEvents)
    BY DEF Results
  <2>. QED  BY <1>1, <2>1, EarlierEvents
<1>. HIDE DEF n, more
<1>6. \A i \in Results(more) : \E k \in Starts(more) : k < i
  BY <1>2, <1>3, <1>4 DEF SweepsOnce, AtMostSwept
<1>7. ASSUME NEW i \in Results(more), NEW k \in Results(more), i < k
      PROVE  more[i] = "timeout" /\ Results(more) = {i, k}
  <2>1. n \in Nat
    BY DEF n
  <2>2. k = n /\ i \in Results(log)
    <3>1. CASE i = n
      BY <1>2, <1>5, <1>7, <2>1, <3>1
    <3>2. CASE i # n
      BY <1>2, <1>5, <1>7, <2>1, <3>2 DEF AtMostSwept
    <3>. QED  BY <3>1, <3>2
  <2>3. Results(log) = {i}
    BY <2>2 DEF AtMostSwept
  <2>. QED  BY <1>2, <1>5, <2>2, <2>3 DEF AtMostSwept
<1>. QED  BY <1>2, <1>3, <1>6, <1>7 DEF SweepsOnce, more

LEMMA NewLogs ==
    ASSUME NEW log \in {<<"created">>, <<"skipped">>}
    PROVE  SweepsOnce(log) /\ Unstarted(log)
<1>1. Unstarted(log)
  BY DEF Unstarted, Starts, Results, EventsAt, ResultEvents
<1>. QED  BY <1>1, FS_EmptySet DEF SweepsOnce, Unstarted

-----------------------------------------------------------------------------

LEMMA SweptAnnotated ==
    ASSUME TypeInv, NEW q \in DOMAIN runs, SweptTells(q), Annotates(q),
           executed \subseteq executed'
    PROVE  /\ SweptTells(q)'
           /\ AtMostSwept(runs[q].log) => AtMostSwept(runs'[q].log)
<1>1. runs[q].log \in Seq(EventType)
  BY DEF TypeInv, TypeOK, StoreTypeOK, RunRow
<1>2. /\ SweepsOnce(runs'[q].log)
      /\ AtMostSwept(runs[q].log) => AtMostSwept(runs'[q].log)
  BY <1>1, AnnotationTells DEF Annotates, SweptTells
<1>3. /\ Starts(runs'[q].log) = Starts(runs[q].log)
      /\ Results(runs'[q].log) = Results(runs[q].log)
  BY AnnotatedRow
<1>4. runs'[q].status \in {runs[q].status, "cancelling", "cancelled"}
  BY DEF Annotates
<1>5. SweptTells(q)'
  BY <1>2, <1>3, <1>4 DEF SweptTells, Unstarted, Open
<1>. QED  BY <1>2, <1>5

LEMMA SweptNew == ASSUME NEW q, NewRow(q) PROVE SweptTells(q)'
BY NewLogs DEF NewRow, SweptTells

LEMMA SweptQuiet == ASSUME TypeInv, SweptInv, LogQuiet PROVE SweptInv'
<1>1. \A q \in DOMAIN runs' : SweptTells(q)'
  BY SweptAnnotated, SweptNew DEF LogQuiet, SweptInv
<1>2. ASSUME NEW w \in Worker, Holding(w)', target'[w] \in DOMAIN runs'
      PROVE  AtMostSwept(runs'[target'[w]].log)
  <2>1. Holding(w) /\ target'[w] = target[w] /\ target[w] \in DOMAIN runs
    BY <1>2, HeldWasThere DEF LogQuiet, NewRow
  <2>. QED  BY <1>2, <2>1, SweptAnnotated DEF LogQuiet, SweptInv, HeldAtMostSwept
<1>. QED  BY <1>1, <1>2 DEF SweptInv, HeldAtMostSwept

LEMMA SweptStarted ==
    ASSUME TypeInv, SweptInv, NEW w \in Worker, LogStarts(w) PROVE SweptInv'
<1> DEFINE r == target[w]
<1>1. r \in DOMAIN runs /\ runs[r].log \in Seq(EventType) /\ Unstarted(runs[r].log)
  BY DEF LogStarts, TypeInv, TypeOK, StoreTypeOK, RunRow, SweptInv, SweptTells
<1>2. /\ DOMAIN runs' = DOMAIN runs /\ runs'[r].status = "running"
      /\ runs'[r].log = Append(runs[r].log, "started")
      /\ \A q \in DOMAIN runs : q # r => runs'[q] = runs[q]
      /\ UNCHANGED <<target, executed>>
      /\ \A v \in Worker : Holding(v)' /\ target[v] # r => Holding(v)
  BY DEF LogStarts
<1>. HIDE DEF r
<1>3. runs'[r].log \in Seq(EventType)
  <2>1. "started" \in EventType
    BY DEF EventType
  <2>. QED  BY <1>1, <1>2, <2>1
<1>4. Open(runs'[r].log) /\ SweepsOnce(runs'[r].log) /\ AtMostSwept(runs'[r].log)
  BY <1>1, <1>2, <1>3, Started, OpenTells
<1>5. \A q \in DOMAIN runs' : SweptTells(q)'
  BY <1>2, <1>4 DEF SweptInv, SweptTells
<1>6. \A v \in Worker :
         Holding(v)' /\ target[v] \in DOMAIN runs' => AtMostSwept(runs'[target[v]].log)
  BY <1>2, <1>4 DEF SweptInv, HeldAtMostSwept
<1>. QED  BY <1>2, <1>5, <1>6 DEF SweptInv, HeldAtMostSwept

LEMMA SweptEnded ==
    ASSUME TypeInv, ExclusiveInv, SweptInv, NEW w \in Worker, LogEnds(w) PROVE SweptInv'
<1> DEFINE r == target[w]
<1>1. /\ runs[r].log \in Seq(EventType) /\ r \in executed /\ r \in DOMAIN runs
      /\ SweepsOnce(runs[r].log) /\ AtMostSwept(runs[r].log)
  BY DEF LogEnds, TypeInv, TypeOK, StoreTypeOK, RunRow, SweptInv, HeldAtMostSwept,
     SweptTells, ExclusiveInv, Holding, Executing
<1>2. /\ UNCHANGED <<target, executed>>
      /\ \A v \in Worker : Holding(v)' => Holding(v) /\ target[v] # r
      /\ \A q \in DOMAIN runs : q \in DOMAIN runs' /\ (q # r => runs'[q] = runs[q])
      /\ \A q \in DOMAIN runs' \ DOMAIN runs : NewRow(q)
      /\ runs'[r].status \notin {"pending", "running"}
      /\ \E e \in ResultEvents : runs'[r].log = Append(runs[r].log, e)
  BY DEF LogEnds
<1>. HIDE DEF r
<1>3. SweepsOnce(runs'[r].log) /\ Results(runs'[r].log) # {}
  BY <1>1, <1>2, OutcomeTells
<1>4. \A q \in DOMAIN runs' : SweptTells(q)'
  BY <1>1, <1>2, <1>3, SweptNew DEF SweptInv, SweptTells
<1>5. \A v \in Worker :
         Holding(v)' /\ target[v] \in DOMAIN runs' => AtMostSwept(runs'[target[v]].log)
  <2>1. \A v \in Worker : target[v] \in DOMAIN runs' => target[v] \in DOMAIN runs
    BY <1>2, Types DEF NewRow
  <2>. QED  BY <1>2, <2>1 DEF SweptInv, HeldAtMostSwept
<1>. QED  BY <1>2, <1>4, <1>5 DEF SweptInv, HeldAtMostSwept

\* The sweep takes a running row, which has no result yet, from whoever holds it.
LEMMA SweptBySlot ==
    ASSUME DueTypeInv, SweptInv, NEW j \in DOMAIN dueRows, ScheduleSlot(j)
    PROVE  SweptInv'
<1>1. PICK new :
         /\ new = lastRunId + 1 /\ new \in Nat
         /\ DOMAIN runs' = DOMAIN runs \cup {new} /\ new \notin DOMAIN runs
         /\ \A r \in DOMAIN runs : runs'[r] = runs[r] \/ Closes(runs[r], runs'[r])
         /\ UNCHANGED <<pc, target, executed>>
  <2>1. /\ lastRunId \in Nat /\ lastRunId + 1 \notin DOMAIN runs
        /\ DOMAIN runs' = DOMAIN runs \cup {lastRunId + 1}
        /\ \A r \in DOMAIN runs : runs'[r] = runs[r] \/ Closes(runs[r], runs'[r])
    BY SlotStep
  <2>2. UNCHANGED <<pc, target, executed>>
    BY SlotStep DEF workerVars
  <2>. QED  BY <2>1, <2>2
<1>2. /\ runs'[new].status \in {"pending", "skipped"}
      /\ runs'[new].log \in {<<"created">>, <<"skipped">>}
  BY <1>1, SlotStep, SlotRowType
<1>3. ASSUME NEW r \in DOMAIN runs, Closes(runs[r], runs'[r])
      PROVE  SweptTells(r)' /\ AtMostSwept(runs'[r].log)
  <2>1. runs[r].log \in Seq(EventType)
    BY Typed DEF TypeInv, TypeOK, StoreTypeOK, RunRow
  <2>2. SweepsOnce(runs[r].log) /\ Open(runs[r].log)
    BY <1>3 DEF SweptInv, SweptTells, Closes
  <2>3. /\ SweepsOnce(runs'[r].log) /\ AtMostSwept(runs'[r].log)
        /\ Results(runs'[r].log) # {} /\ runs'[r].status = "timeout"
    BY <1>3, <2>1, <2>2, SweepTells DEF Closes
  <2>. QED  BY <2>3 DEF SweptTells
<1>4. SweptTells(new)'
  BY <1>2, NewLogs DEF SweptTells
<1>5. \A r \in DOMAIN runs' : SweptTells(r)'
  <2>1. ASSUME NEW r \in DOMAIN runs, runs'[r] = runs[r] PROVE SweptTells(r)'
    BY <1>1, <2>1 DEF SweptInv, SweptTells
  <2>. QED  BY <1>1, <1>3, <1>4, <2>1
<1>6. ASSUME NEW w \in Worker, Holding(w)', target'[w] \in DOMAIN runs'
      PROVE  AtMostSwept(runs'[target'[w]].log)
  <2>1. target[w] \in DOMAIN runs /\ Holding(w) /\ target'[w] = target[w]
    BY <1>1, <1>6, Typed, Types DEF Holding
  <2>. QED  BY <1>1, <1>3, <2>1 DEF SweptInv, HeldAtMostSwept
<1>. QED  BY <1>5, <1>6 DEF SweptInv, HeldAtMostSwept

LEMMA DueLogs == DueTypeInv /\ ExclusiveInv /\ SweptInv /\ [DueNext]_allVars => SweptInv'
<1> SUFFICES ASSUME DueTypeInv, ExclusiveInv, SweptInv, [DueNext]_allVars PROVE SweptInv'
  OBVIOUS
<1>1. ASSUME NEW j \in Job, UpdateWrite(j) PROVE SweptInv'
  BY <1>1 DEF UpdateWrite, workerVars, SweptInv, HeldAtMostSwept, SweptTells, Holding
<1>2. ASSUME [Next]_vars PROVE SweptInv'
  BY <1>2, Typed, LogSteps, SweptQuiet, SweptStarted, SweptEnded
<1>. QED  BY <1>1, <1>2, SweptBySlot, InheritedStep

\* The log of a run whose row the sweep closed while its goroutine went on executing stays
\* readable: one start, the timeout of the sweep, at most one outcome after it, and a
\* success or a failure of an executed run only.
THEOREM SweptLogsTell == DueSpec => []LogTellsSweep
<1>1. DueInit => SweptInv
  BY DEF DueInit, Init, SweptInv, HeldAtMostSwept, SweptTells, Holding
<1>2. SweptInv => LogTellsSweep
  BY DEF SweptInv, SweptTells, SweepsOnce, Starts, Results, EventsAt, LogTellsSweep
<1>. QED  BY <1>1, <1>2, DueLogs, DueInvariants, PTL DEF DueSpec
=============================================================================
