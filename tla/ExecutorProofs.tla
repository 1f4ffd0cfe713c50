--------------------------- MODULE ExecutorProofs ---------------------------
(***************************************************************************)
(* What becomes of containers, for any number of executions, tokens, starts *)
(* and failures: they are removed with their execution or found by the next *)
(* process, and only a whole success is recorded as one.                    *)
(***************************************************************************)
EXTENDS Executor, TLAPS

\* How child, container and goroutine of an execution go together.
ChildInv(e) ==
    /\ pc[e] \in {"idle", "prepare", "launch"} => cli[e] = "none" /\ waited[e] = "no"
    /\ cli[e] \in {"none", "creating"} => box[e] = "absent"
    /\ cli[e] = "zero" => exit[e] = "zero" /\ box[e] \in {"exited", "absent"}
    /\ waited[e] # "no" => ~Alive(e)
    /\ waited[e] \in {"nil", "ctx"} => cli[e] = "zero"
    /\ pc[e] \in {"cleanup", "write", "record", "done"} => ~Alive(e)

\* With cleanup on, containers are removed unless a command failed.
BoxInv(e) ==
    /\ Exists(e) /\ cleanup /\ e \notin failed => Attending(e) \/ pc[e] = "gone"

\* What an execution without an error has achieved so far.
OutcomeInv(e) ==
    /\ pc[e] \in {"cleanup", "write", "record"} /\ err[e] = "nil" => cli[e] = "zero"
    /\ pc[e] \in {"write", "record"} /\ err[e] = "nil" /\ cleanup /\ Exists(e) =>
         silent[e] # 0
    /\ pc[e] = "record" /\ err[e] = "nil" => result[e] = "ok"
    /\ row[e] = "success" =>
         /\ pc[e] = "done" /\ cli[e] = "zero" /\ result[e] = "ok"
         /\ cleanup /\ Exists(e) => silent[e] # 0

\* Recovery lists what was there at the start, and no execution is alive before it
\* is over.
StartInv(e) ==
    /\ proc \in {"down", "scan", "recover", "off"} => ~Active(e)
    /\ proc # "down" /\ e \in found => cli[e] \notin {"none", "creating"}
    /\ proc # "down" => starts # 0
    /\ OrphanRecovery /\ proc = "recover" /\ e \in found /\ Exists(e) =>
         e \in orphans \/ silent[e] = starts
    /\ OrphanRecovery /\ proc = "serve" /\ e \in found /\ Exists(e) => silent[e] = starts

RunInv(e) == ChildInv(e) /\ BoxInv(e) /\ OutcomeInv(e) /\ StartInv(e)

ExecutorInv == ExecutorTypeOK /\ \A e \in Execution : RunInv(e)

LEMMA InitInv == Init => ExecutorInv
BY ExecutorAssumption
   DEF Init, All, ExecutorInv, ExecutorTypeOK, RunInv, ChildInv, BoxInv, OutcomeInv, StartInv,
       Alive, Exists, Active, Attending, Step

-----------------------------------------------------------------------------

LEMMA ProcessType == ExecutorTypeOK /\ ProcessStep => ExecutorTypeOK'
<1> SUFFICES ASSUME ExecutorTypeOK, ProcessStep PROVE ExecutorTypeOK'
  OBVIOUS
<1>. USE DEF ExecutorTypeOK, Step
<1>1. CASE StartProcess
  BY <1>1, ExecutorAssumption DEF StartProcess, runVars
<1>2. CASE ScanOrphans
  BY <1>2 DEF ScanOrphans, runVars
<1>3. CASE RecoveryFails
  BY <1>3 DEF RecoveryFails, runVars
<1>4. CASE RecoveryDone
  BY <1>4 DEF RecoveryDone, runVars
<1>5. CASE Signal
  BY <1>5 DEF Signal
<1>6. CASE ProcessEnds
  BY <1>6 DEF ProcessEnds, All
<1>7. ASSUME NEW e \in Execution, RemoveOrphan(e) PROVE ExecutorTypeOK'
  BY <1>7 DEF RemoveOrphan, FailsSilently, Fault
<1>. QED  BY <1>1, <1>2, <1>3, <1>4, <1>5, <1>6, <1>7 DEF ProcessStep

LEMMA GoroutineType ==
    ASSUME NEW e \in Execution, ExecutorTypeOK, Begin(e) \/ GoroutineStep(e)
    PROVE  ExecutorTypeOK'
<1>. USE DEF ExecutorTypeOK, Step, Goto, procVars
<1>1. CASE Begin(e)
  BY <1>1 DEF Begin
<1>2. CASE Prepare(e)
  BY <1>2 DEF Prepare, ReturnEarly
<1>3. CASE Launch(e)
  BY <1>3 DEF Launch
<1>4. CASE Select(e)
  BY <1>4 DEF Select
<1>5. CASE StopContainer(e)
  BY <1>5 DEF StopContainer, Fault
<1>6. CASE KillCli(e)
  BY <1>6 DEF KillCli
<1>7. CASE Reap(e)
  BY <1>7 DEF Reap
<1>8. CASE CleanupContainer(e)
  BY <1>8 DEF CleanupContainer, FailsSilently, Fault
<1>9. CASE WriteResult(e)
  BY <1>9 DEF WriteResult, Fault
<1>10. CASE RecordOutcome(e)
  BY <1>10 DEF RecordOutcome, Verdict
<1>. QED  BY <1>1, <1>2, <1>3, <1>4, <1>5, <1>6, <1>7, <1>8, <1>9, <1>10 DEF GoroutineStep

LEMMA OthersType ==
    ASSUME NEW e \in Execution, ExecutorTypeOK,
           ChildStep(e) \/ Deadline(e) \/ WatchKill(e) \/ WaitReturns(e)
    PROVE  ExecutorTypeOK'
<1>. USE DEF ExecutorTypeOK, Step, procVars
<1>1. CASE ChildStep(e)
  BY <1>1 DEF ChildStep, CreateBox, StartBox, BoxExits, CliExits, CliFails, Fault
<1>2. CASE Deadline(e) \/ WatchKill(e)
  BY <1>2 DEF Deadline, WatchKill
<1>3. CASE WaitReturns(e)
  BY <1>3 DEF WaitReturns
<1>. QED  BY <1>1, <1>2, <1>3

LEMMA NextType == ExecutorTypeOK /\ [Next]_vars => ExecutorTypeOK'
<1>1. ExecutorTypeOK /\ UNCHANGED vars => ExecutorTypeOK'
  BY DEF vars, procVars, runVars, ExecutorTypeOK
<1>. QED  BY <1>1, ProcessType, GoroutineType, OthersType DEF Next

-----------------------------------------------------------------------------

\* An execution is not touched by the steps of another one.
LEMMA Untouched ==
    ASSUME NEW e \in Execution, RunInv(e), UNCHANGED procVars,
           pc'[e] = pc[e], ctx'[e] = ctx[e], cli'[e] = cli[e], waited'[e] = waited[e],
           box'[e] = box[e], exit'[e] = exit[e], err'[e] = err[e],
           result'[e] = result[e], row'[e] = row[e], e \in failed => e \in failed',
           silent'[e] = silent[e]
    PROVE  RunInv(e)'
BY DEF procVars, RunInv, ChildInv, BoxInv, OutcomeInv, StartInv, Exists, Alive, Active,
       Attending

LEMMA ProcessInv ==
    ASSUME ExecutorInv, ProcessStep, NEW e \in Execution PROVE RunInv(e)'
<1>. USE DEF ExecutorInv, ExecutorTypeOK, RunInv, ChildInv, BoxInv, OutcomeInv, StartInv,
             Exists, Alive, Active, Attending, Step
<1>1. CASE StartProcess
  BY <1>1 DEF StartProcess, runVars
<1>2. CASE ScanOrphans
  BY <1>2 DEF ScanOrphans, runVars
<1>3. CASE RecoveryFails \/ RecoveryDone
  BY <1>3 DEF RecoveryFails, RecoveryDone, runVars
<1>4. CASE Signal
  BY <1>4 DEF Signal
<1>5. CASE ProcessEnds
  BY <1>5 DEF ProcessEnds, All
<1>6. ASSUME NEW x \in Execution, RemoveOrphan(x) PROVE RunInv(e)'
  BY <1>6 DEF RemoveOrphan, FailsSilently, Fault
<1>. QED  BY <1>1, <1>2, <1>3, <1>4, <1>5, <1>6 DEF ProcessStep

LEMMA GoroutineInv ==
    ASSUME NEW x \in Execution, ExecutorInv, Begin(x) \/ GoroutineStep(x)
    PROVE  RunInv(x)'
<1>. USE DEF ExecutorInv, ExecutorTypeOK, RunInv, ChildInv, BoxInv, OutcomeInv, StartInv,
             Exists, Alive, Active, Attending, Step, Goto, procVars
<1>1. CASE Begin(x)
  BY <1>1 DEF Begin
<1>2. CASE Prepare(x)
  BY <1>2 DEF Prepare, ReturnEarly
<1>3. CASE Launch(x)
  BY <1>3 DEF Launch
<1>4. CASE Select(x)
  BY <1>4 DEF Select
<1>5. CASE StopContainer(x)
  BY <1>5 DEF StopContainer, Fault
<1>6. CASE KillCli(x)
  BY <1>6 DEF KillCli
<1>7. CASE Reap(x)
  BY <1>7 DEF Reap
<1>8. CASE CleanupContainer(x)
  BY <1>8 DEF CleanupContainer, FailsSilently, Fault
<1>9. CASE WriteResult(x)
  BY <1>9 DEF WriteResult, Fault
<1>10. CASE RecordOutcome(x)
  BY <1>10 DEF RecordOutcome, Verdict
<1>. QED  BY <1>1, <1>2, <1>3, <1>4, <1>5, <1>6, <1>7, <1>8, <1>9, <1>10 DEF GoroutineStep

LEMMA OthersInv ==
    ASSUME NEW x \in Execution, ExecutorInv,
           ChildStep(x) \/ Deadline(x) \/ WatchKill(x) \/ WaitReturns(x)
    PROVE  RunInv(x)'
<1>. USE DEF ExecutorInv, ExecutorTypeOK, RunInv, ChildInv, BoxInv, OutcomeInv, StartInv,
             Exists, Alive, Active, Attending, Step, procVars
<1>1. CASE CreateBox(x) \/ StartBox(x) \/ BoxExits(x) \/ CliExits(x)
  BY <1>1 DEF CreateBox, StartBox, BoxExits, CliExits
<1>2. CASE CliFails(x)
  BY <1>2 DEF CliFails, Fault
<1>3. CASE Deadline(x) \/ WatchKill(x)
  BY <1>3 DEF Deadline, WatchKill
<1>4. CASE WaitReturns(x)
  BY <1>4 DEF WaitReturns
<1>. QED  BY <1>1, <1>2, <1>3, <1>4 DEF ChildStep

\* A step of execution x, seen by execution e.
LEMMA RunSteps ==
    ASSUME NEW x \in Execution, ExecutorInv, NEW e \in Execution,
           \/ Begin(x) \/ GoroutineStep(x) \/ ChildStep(x)
           \/ Deadline(x) \/ WatchKill(x) \/ WaitReturns(x)
    PROVE  RunInv(e)'
<1>1. CASE e = x
  BY <1>1, GoroutineInv, OthersInv
<1>2. CASE e # x
  <2>. USE <1>2, Untouched DEF ExecutorInv, ExecutorTypeOK
  <2>1. CASE Begin(x) \/ Prepare(x) \/ Launch(x) \/ Select(x)
    BY <2>1 DEF Begin, Prepare, ReturnEarly, Launch, Select, Goto
  <2>2. CASE StopContainer(x) \/ KillCli(x) \/ Reap(x)
    BY <2>2 DEF StopContainer, KillCli, Reap, Fault, Goto
  <2>3. CASE CleanupContainer(x) \/ WriteResult(x) \/ RecordOutcome(x)
    BY <2>3 DEF CleanupContainer, WriteResult, RecordOutcome, FailsSilently, Fault, Goto
  <2>4. CASE ChildStep(x)
    BY <2>4 DEF ChildStep, CreateBox, StartBox, BoxExits, CliExits, CliFails, Fault
  <2>5. CASE Deadline(x) \/ WatchKill(x) \/ WaitReturns(x)
    BY <2>5 DEF Deadline, WatchKill, WaitReturns
  <2>. QED  BY <2>1, <2>2, <2>3, <2>4, <2>5 DEF GoroutineStep
<1>. QED  BY <1>1, <1>2

LEMMA NextInv == ExecutorInv /\ [Next]_vars => ExecutorInv'
<1> SUFFICES ASSUME ExecutorInv, [Next]_vars PROVE ExecutorInv'
  OBVIOUS
<1>1. ExecutorTypeOK'
  BY NextType DEF ExecutorInv
<1>2. ASSUME NEW e \in Execution PROVE RunInv(e)'
  <2>1. CASE UNCHANGED vars
    BY <2>1, Untouched DEF vars, procVars, runVars, ExecutorInv
  <2>2. CASE Next
    BY <2>2, ProcessInv, RunSteps DEF Next
  <2>. QED  BY <2>1, <2>2
<1>. QED  BY <1>1, <1>2 DEF ExecutorInv

LEMMA ExecutorInvariant == Spec => []ExecutorInv
BY InitInv, NextInv, PTL DEF Spec

-----------------------------------------------------------------------------

\* The states of process, goroutine, child, container and files are well-formed.
THEOREM ExecutorTypes == Spec => []ExecutorTypeOK
<1>1. ExecutorInv => ExecutorTypeOK
  BY DEF ExecutorInv
<1>. QED  BY <1>1, ExecutorInvariant, PTL

\* With cleanup on, no order of deadline, stop, kill, wait and removal in
\* RunContainer leaves a container behind.
THEOREM NoContainerIsLeft == Spec => []ContainerIsAttended
<1>1. ExecutorInv => ContainerIsAttended
  BY DEF ExecutorInv, RunInv, BoxInv, ContainerIsAttended
<1>. QED  BY <1>1, ExecutorInvariant, PTL

\* RecoverOrphans clears what it found before anything is dispatched, but for what a
\* docker rm -f that failed without output left behind.
THEOREM OrphansAreRemoved == Spec => []FoundAreGone
<1>1. ExecutorInv => FoundAreGone
  BY DEF ExecutorInv, ExecutorTypeOK, RunInv, StartInv, FoundAreGone
<1>. QED  BY <1>1, ExecutorInvariant, PTL

\* A recorded success has its exit code, its result file and its cleanup, unless that
\* failed without output.
THEOREM SuccessesAreWhole == Spec => []SuccessIsWhole
<1>1. ExecutorInv => SuccessIsWhole
  BY DEF ExecutorInv, RunInv, OutcomeInv, ChildInv, SuccessIsWhole
<1>. QED  BY <1>1, ExecutorInvariant, PTL

\* Orphan recovery takes no container of a live execution.
THEOREM RecoverySparesLive == Spec => LiveIsNotRecovered
<1> DEFINE Spared == \A e \in Execution :
                       Exists(e) /\ box'[e] = "absent" /\ Active(e) => pc[e] = "cleanup"
<1>1. ExecutorInv /\ [Next]_vars => [Spared]_vars
  <2> SUFFICES ASSUME ExecutorInv, Next, NEW e \in Execution, Exists(e),
                      box'[e] = "absent", Active(e)
               PROVE  pc[e] = "cleanup"
    OBVIOUS
  <2>. USE DEF Exists, ExecutorInv, ExecutorTypeOK
  <2>1. CASE ProcessStep
    BY <2>1 DEF ProcessStep, StartProcess, ScanOrphans, RecoveryFails, RecoveryDone,
       Signal, ProcessEnds, RemoveOrphan, runVars, RunInv, StartInv
  <2>2. ASSUME NEW x \in Execution, Begin(x) \/ GoroutineStep(x) PROVE pc[e] = "cleanup"
    BY <2>2 DEF Begin, GoroutineStep, Prepare, Launch, Select, StopContainer, KillCli,
       Reap, CleanupContainer, WriteResult, RecordOutcome, Goto
  <2>3. ASSUME NEW x \in Execution,
               ChildStep(x) \/ Deadline(x) \/ WatchKill(x) \/ WaitReturns(x)
        PROVE  pc[e] = "cleanup"
    BY <2>3 DEF ChildStep, CreateBox, StartBox, BoxExits, CliExits, CliFails, Deadline,
       WatchKill, WaitReturns
  <2>. QED  BY <2>1, <2>2, <2>3 DEF Next
<1>. QED  BY <1>1, ExecutorInvariant, PTL DEF Spec, LiveIsNotRecovered
=============================================================================
