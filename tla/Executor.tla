------------------------------ MODULE Executor ------------------------------
(***************************************************************************)
(* The Docker executor (internal/executor/docker.go): what Execute does to  *)
(* the container, the child process `docker run` and the result file of an  *)
(* execution, against the deadline or the shutdown that cancels its context, *)
(* and orphan recovery at the start of the next process.                    *)
(*                                                                          *)
(* Of an execution four actors step independently: the goroutine in Execute *)
(* (pc), the child `docker run` (cli), the container in the daemon (box),   *)
(* and the goroutine that waits for the child (waited).  os/exec kills the  *)
(* child when the context ends, on its own, beside what RunContainer does.  *)
(* The process may end at any point; child and container live on.           *)
(*                                                                          *)
(* Abstracted: the container name carries a fresh uuid, so the execution    *)
(* itself names its container; the log file; the time a command takes.  A   *)
(* request of the child to the daemon is one step.                          *)
(***************************************************************************)
EXTENDS Naturals, FiniteSets

CONSTANTS
    Execution,      \* calls of Execute, over all processes
    MaxConcurrentRuns,  \* worker tokens: calls of Execute at a time
    Cleanup,        \* executor.cleanup_containers: the values a start may find
    OrphanRecovery, \* executor.orphan_recovery_on_startup
    MaxStarts,      \* bound: how often the process starts
    MaxFaults       \* bound: how many docker commands or file writes fail

ASSUME ExecutorAssumption ==
    /\ Cleanup \subseteq BOOLEAN /\ Cleanup # {} /\ OrphanRecovery \in BOOLEAN
    /\ {MaxConcurrentRuns, MaxStarts, MaxFaults} \subseteq Nat
    /\ IsFiniteSet(Execution)

VARIABLES
    proc,       \* the process: down, scan, recover, serve, stopping, off
    cleanup,    \* cleanup_containers, as the configuration says
    orphans,    \* containers listed by orphan recovery and not yet removed
    pc,         \* the goroutine in Execute
    ctx,        \* its context: live, deadline or canceled
    cli,        \* the child process `docker run`
    waited,     \* what cmd.Wait returned to waitCh
    box,        \* the container
    exit,       \* the exit code of its command
    err,        \* the error Execute is about to return
    result,     \* the result file
    row,        \* the status the worker records
    starts,     \* history: how often the process started
    found,      \* history: the containers there were when it started
    failed,     \* history: executions of which a docker command or a write failed
    silent      \* history: the start in which docker rm last failed without a word, or 0

procVars == <<proc, cleanup, orphans, starts, found>>
runVars  == <<pc, ctx, cli, waited, box, exit, err, result, row, failed, silent>>
vars     == <<procVars, runVars>>

-----------------------------------------------------------------------------

\* Execute, in order; "done" when the worker recorded the outcome, "gone" when
\* the process ended before.
Step == {"prepare", "launch", "fork", "parked", "stop", "kill",
         "reap", "cleanup", "write", "record"}

Active(e) == pc[e] \in Step

\* RunContainer has started its child and not yet returned.
Attending(e) == pc[e] \in {"fork", "parked", "stop", "kill", "reap", "cleanup"}

Alive(e) == cli[e] \in {"creating", "starting", "attached"}

Exists(e) == box[e] # "absent"

ExecutorTypeOK ==
    /\ proc \in {"down", "scan", "recover", "serve", "stopping", "off"}
    /\ cleanup \in BOOLEAN
    /\ orphans \subseteq Execution /\ found \subseteq Execution
    /\ pc \in [Execution -> Step \cup {"idle", "done", "gone"}]
    /\ ctx \in [Execution -> {"live", "deadline", "canceled"}]
    /\ cli \in [Execution -> {"none", "creating", "starting", "attached",
                              "zero", "error", "killed"}]
    /\ waited \in [Execution -> {"no", "nil", "exit", "ctx"}]
    /\ box \in [Execution -> {"absent", "created", "running", "exited"}]
    /\ exit \in [Execution -> {"none", "zero", "nonzero"}]
    /\ err \in [Execution -> {"nil", "early", "exit", "ctx", "cleanup", "write"}]
    /\ result \in [Execution -> {"none", "empty", "ok", "error"}]
    /\ row \in [Execution -> {"running", "success", "failed", "timeout", "cancelled"}]
    /\ starts \in 0 .. MaxStarts
    /\ failed \subseteq Execution
    /\ silent \in [Execution -> 0 .. MaxStarts]
    /\ proc # "recover" => orphans = {}

All(v) == [e \in Execution |-> v]

Init ==
    /\ proc = "down" /\ cleanup \in Cleanup /\ orphans = {} /\ starts = 0 /\ found = {}
    /\ pc = All("idle") /\ ctx = All("live") /\ cli = All("none")
    /\ waited = All("no") /\ box = All("absent") /\ exit = All("none")
    /\ err = All("nil") /\ result = All("none") /\ row = All("running")
    /\ failed = {} /\ silent = All(0)

-----------------------------------------------------------------------------

\* A docker command or a write fails.
Fault(e) ==
    /\ Cardinality(failed) < MaxFaults /\ e \notin failed
    /\ failed' = failed \cup {e}

\* removeContainer takes a docker rm -f that fails without output, its client killed
\* or not even started, for one that worked.
FailsSilently(e) == Fault(e) /\ silent' = [silent EXCEPT ![e] = starts]

-----------------------------------------------------------------------------
\* The process and orphan recovery.

\* main; Start calls RecoverOrphans before any loop runs.
StartProcess ==
    /\ proc = "down" /\ starts < MaxStarts
    /\ proc' = "scan" /\ starts' = starts + 1
    /\ found' = {e \in Execution : Exists(e)}
    /\ UNCHANGED <<cleanup, orphans, runVars>>

\* docker ps -aq --filter label=...: every container of the runner, whatever
\* its state and whichever process made it.  Nothing is listed if recovery is off.
ScanOrphans ==
    /\ proc = "scan"
    /\ orphans' = {e \in Execution : OrphanRecovery /\ Exists(e)}
    /\ proc' = "recover"
    /\ UNCHANGED <<cleanup, starts, found, runVars>>

RemoveOrphan_Anytime(e) ==
    /\ proc \in {"recover", "serve"} /\ Exists(e)
    /\ orphans' = orphans \ {e}
    /\ box' = [box EXCEPT ![e] = "absent"]
    /\ UNCHANGED <<proc, cleanup, starts, found, pc, ctx, cli, waited, exit, err,
                   result, row, failed, silent>>

\* docker rm -f: no grace period, and nothing asks what the container does.  A
\* removal that fails without output counts as done, and the next one follows.
RemoveOrphan(e) ==
    /\ proc = "recover" /\ e \in orphans
    /\ orphans' = orphans \ {e}
    /\ \/ box' = [box EXCEPT ![e] = "absent"] /\ UNCHANGED <<failed, silent>>
       \/ FailsSilently(e) /\ UNCHANGED box
    /\ UNCHANGED <<proc, cleanup, starts, found, pc, ctx, cli, waited, exit, err,
                   result, row>>

\* Start returns the error of the scan or of a removal; the API stays up.
RecoveryFails ==
    /\ proc \in {"scan", "recover"}
    /\ proc' = "off" /\ orphans' = {}
    /\ UNCHANGED <<cleanup, starts, found, runVars>>

RecoveryDone_WithErrors ==
    /\ proc = "recover"
    /\ proc' = "serve" /\ orphans' = {}
    /\ UNCHANGED <<cleanup, starts, found, runVars>>

RecoveryDone_KeepsList ==
    /\ proc = "recover"
    /\ proc' = "serve"
    /\ UNCHANGED <<cleanup, orphans, starts, found, runVars>>

\* The loops start.
RecoveryDone ==
    /\ proc = "recover" /\ orphans = {}
    /\ proc' = "serve"
    /\ UNCHANGED <<cleanup, orphans, starts, found, runVars>>

\* SIGTERM cancels the context of every execution.  A goroutine parked in the
\* select of RunContainer is handed the end of its context at once.  A removal
\* that is killed before it has written anything counts as done.
Signal ==
    /\ proc \in {"recover", "serve"}
    /\ proc' = "stopping" /\ orphans' = {}
    /\ ctx' = [e \in Execution |->
                 IF Active(e) /\ ctx[e] = "live" THEN "canceled" ELSE ctx[e]]
    /\ pc' = [e \in Execution |-> IF pc[e] = "parked" THEN "stop" ELSE pc[e]]
    /\ UNCHANGED <<cleanup, starts, found, cli, waited, box, exit, err, result, row,
                   failed, silent>>

\* main returns without waiting for the goroutines, or the process is killed.
\* What it had in memory is lost.
ProcessEnds ==
    /\ proc # "down"
    /\ proc' = "down" /\ orphans' = {}
    /\ pc' = [e \in Execution |-> IF Active(e) THEN "gone" ELSE pc[e]]
    /\ ctx' = All("live") /\ waited' = All("no") /\ err' = All("nil")
    /\ UNCHANGED <<cleanup, starts, found, cli, box, exit, result, row, failed, silent>>

-----------------------------------------------------------------------------
\* Execute, up to docker run.

Goto(e, from, to) == pc[e] = from /\ pc' = [pc EXCEPT ![e] = to]

\* Execute returns no result, so the worker records no paths.
ReturnEarly(e, from) ==
    /\ Goto(e, from, "record")
    /\ err' = [err EXCEPT ![e] = "early"]

\* The worker calls Execute.  It returns early if the source is not allowed, the
\* reference does not resolve, the image cannot be had or the log not opened;
\* or, when the result file has been made (and truncated), if docker rm -f of the
\* name, which nobody used yet, reports an error.
Begin(e) ==
    /\ proc = "serve" /\ Goto(e, "idle", "prepare")
    /\ Cardinality({x \in Execution : Active(x)}) < MaxConcurrentRuns
    /\ UNCHANGED <<procVars, ctx, cli, waited, box, exit, err, result, row, failed, silent>>

Prepare(e) ==
    /\ \/ /\ Goto(e, "prepare", "launch") /\ UNCHANGED err
          /\ result' = [result EXCEPT ![e] = "empty"]
       \/ ReturnEarly(e, "prepare") /\ UNCHANGED result
       \/ /\ ReturnEarly(e, "prepare")
          /\ result' = [result EXCEPT ![e] = "empty"]
    /\ UNCHANGED <<procVars, ctx, cli, waited, box, exit, row, failed, silent>>

\* cmd.Start refuses a context that is over, and may fail by itself.
Launch(e) ==
    /\ \/ /\ ctx[e] = "live" /\ Goto(e, "launch", "fork")
          /\ cli' = [cli EXCEPT ![e] = "creating"] /\ UNCHANGED err
       \/ /\ ctx[e] # "live" /\ Goto(e, "launch", "record")
          /\ err' = [err EXCEPT ![e] = "ctx"] /\ UNCHANGED cli
       \/ /\ ctx[e] = "live" /\ Goto(e, "launch", "write")
          /\ err' = [err EXCEPT ![e] = "exit"] /\ UNCHANGED cli
    /\ UNCHANGED <<procVars, ctx, waited, box, exit, result, row, failed, silent>>

-----------------------------------------------------------------------------
\* The child `docker run` and the container.

CreateBox(e) ==
    /\ cli[e] = "creating"
    /\ cli' = [cli EXCEPT ![e] = "starting"] /\ box' = [box EXCEPT ![e] = "created"]
    /\ UNCHANGED <<procVars, pc, ctx, waited, exit, err, result, row, failed, silent>>

\* The container may have been removed meanwhile.
StartBox(e) ==
    /\ cli[e] = "starting"
    /\ IF box[e] = "created"
         THEN cli' = [cli EXCEPT ![e] = "attached"] /\ box' = [box EXCEPT ![e] = "running"]
         ELSE cli' = [cli EXCEPT ![e] = "error"] /\ UNCHANGED box
    /\ UNCHANGED <<procVars, pc, ctx, waited, exit, err, result, row, failed, silent>>

BoxExits(e) ==
    /\ box[e] = "running"
    /\ box' = [box EXCEPT ![e] = "exited"]
    /\ \E code \in {"zero", "nonzero"} : exit' = [exit EXCEPT ![e] = code]
    /\ UNCHANGED <<procVars, pc, ctx, cli, waited, err, result, row, failed, silent>>

\* The child ends with the exit code of the container.
CliExits(e) ==
    /\ cli[e] = "attached" /\ box[e] \in {"exited", "absent"}
    /\ cli' = [cli EXCEPT ![e] = IF exit[e] = "zero" THEN "zero" ELSE "error"]
    /\ UNCHANGED <<procVars, pc, ctx, waited, box, exit, err, result, row, failed, silent>>

\* The child loses the daemon; the container does what it did.
CliFails(e) ==
    /\ Alive(e) /\ Fault(e)
    /\ cli' = [cli EXCEPT ![e] = "error"]
    /\ UNCHANGED <<procVars, pc, ctx, waited, box, exit, err, result, row, silent>>

\* exec.CommandContext kills the child when the context ends, as long as there
\* is a process to do so.
WatchKill(e) ==
    /\ Active(e) /\ ctx[e] # "live" /\ Alive(e)
    /\ cli' = [cli EXCEPT ![e] = "killed"]
    /\ UNCHANGED <<procVars, pc, ctx, waited, box, exit, err, result, row, failed, silent>>

-----------------------------------------------------------------------------
\* RunContainer.

\* The timeout of the run, or the end of the server before it.
Deadline(e) ==
    /\ Active(e) /\ ctx[e] = "live"
    /\ ctx' = [ctx EXCEPT ![e] = "deadline"]
    /\ pc' = [pc EXCEPT ![e] = IF @ = "parked" THEN "stop" ELSE @]
    /\ UNCHANGED <<procVars, cli, waited, box, exit, err, result, row, failed, silent>>

WaitReturns_Unbuffered(e) ==
    /\ pc[e] = "parked" /\ waited[e] = "no" /\ cli[e] \in {"zero", "error", "killed"}
    /\ waited' = [waited EXCEPT ![e] = IF cli[e] = "zero" THEN "nil" ELSE "exit"]
    /\ pc' = [pc EXCEPT ![e] = "cleanup"]
    /\ err' = [err EXCEPT ![e] = IF cli[e] = "zero" THEN "nil" ELSE "exit"]
    /\ UNCHANGED <<procVars, ctx, cli, box, exit, result, row, failed, silent>>

\* cmd.Wait returns into the buffered waitCh, or to the goroutine parked there.
\* If the context ended and the child still reports 0, Wait may return either.
WaitReturns(e) ==
    /\ Attending(e) /\ waited[e] = "no" /\ cli[e] \in {"zero", "error", "killed"}
    /\ \E w \in {"nil", "exit", "ctx"} :
         /\ w = "exit" <=> cli[e] # "zero"
         /\ w = "ctx" => ctx[e] # "live"
         /\ waited' = [waited EXCEPT ![e] = w]
         /\ IF pc[e] = "parked"
              THEN pc' = [pc EXCEPT ![e] = "cleanup"] /\ err' = [err EXCEPT ![e] = w]
              ELSE UNCHANGED <<pc, err>>
    /\ UNCHANGED <<procVars, ctx, cli, box, exit, result, row, failed, silent>>

\* The goroutine reaches the select: with both channels ready it takes either.
Select(e) ==
    /\ \/ ctx[e] # "live" /\ Goto(e, "fork", "stop") /\ UNCHANGED err
       \/ /\ waited[e] # "no" /\ Goto(e, "fork", "cleanup")
          /\ err' = [err EXCEPT ![e] = waited[e]]
       \/ /\ ctx[e] = "live" /\ waited[e] = "no"
          /\ Goto(e, "fork", "parked") /\ UNCHANGED err
    /\ UNCHANGED <<procVars, ctx, cli, waited, box, exit, result, row, failed, silent>>

\* docker stop -t: ends the container within the grace period, if it runs; the
\* error of the command is ignored.
StopContainer(e) ==
    /\ Goto(e, "stop", "kill")
    /\ \/ box[e] = "running" /\ box' = [box EXCEPT ![e] = "exited"]
          /\ \E code \in {"zero", "nonzero"} : exit' = [exit EXCEPT ![e] = code]
          /\ UNCHANGED failed
       \/ box[e] # "running" /\ UNCHANGED <<box, exit, failed>>
       \/ Fault(e) /\ UNCHANGED <<box, exit>>
    /\ UNCHANGED <<procVars, ctx, cli, waited, err, result, row, silent>>

KillCli(e) ==
    /\ Goto(e, "kill", "reap")
    /\ cli' = [cli EXCEPT ![e] = IF Alive(e) THEN "killed" ELSE @]
    /\ UNCHANGED <<procVars, ctx, waited, box, exit, err, result, row, failed, silent>>

Reap(e) ==
    /\ waited[e] # "no" /\ Goto(e, "reap", "cleanup")
    /\ err' = [err EXCEPT ![e] = "ctx"]
    /\ UNCHANGED <<procVars, ctx, cli, waited, box, exit, result, row, failed, silent>>

CleanupContainer_NotOnCancel(e) ==
    /\ Goto(e, "cleanup", IF err[e] = "ctx" THEN "record" ELSE "write")
    /\ IF cleanup /\ err[e] # "ctx" THEN box' = [box EXCEPT ![e] = "absent"]
                                    ELSE UNCHANGED box
    /\ UNCHANGED <<procVars, ctx, cli, waited, exit, err, result, row, failed, silent>>

CleanupContainer_ErrorDropped(e) ==
    /\ Goto(e, "cleanup", IF err[e] = "ctx" THEN "record" ELSE "write")
    /\ \/ cleanup /\ box' = [box EXCEPT ![e] = "absent"] /\ UNCHANGED failed
       \/ ~cleanup /\ UNCHANGED <<box, failed>>
       \/ cleanup /\ Fault(e) /\ UNCHANGED box
    /\ UNCHANGED <<procVars, ctx, cli, waited, exit, err, result, row, silent>>

\* CleanupContainer: docker rm -f, if so configured.  Its error makes a success
\* fail and changes no other outcome; without output it is no error.  An execution
\* that ends by its context leaves the result file empty.
CleanupContainer(e) ==
    /\ Goto(e, "cleanup", IF err[e] = "ctx" THEN "record" ELSE "write")
    /\ \/ cleanup /\ box' = [box EXCEPT ![e] = "absent"] /\ UNCHANGED <<err, failed, silent>>
       \/ ~cleanup /\ UNCHANGED <<box, err, failed, silent>>
       \/ /\ cleanup /\ Fault(e) /\ UNCHANGED <<box, silent>>
          /\ err' = [err EXCEPT ![e] = IF @ = "nil" THEN "cleanup" ELSE @]
       \/ cleanup /\ FailsSilently(e) /\ UNCHANGED <<box, err>>
    /\ UNCHANGED <<procVars, ctx, cli, waited, exit, result, row>>

-----------------------------------------------------------------------------
\* The outcome.

\* writeResult; its error makes a success fail.
WriteResult(e) ==
    /\ Goto(e, "write", "record")
    /\ \/ /\ result' = [result EXCEPT ![e] = IF err[e] = "nil" THEN "ok" ELSE "error"]
          /\ UNCHANGED <<err, failed>>
       \/ /\ Fault(e) /\ UNCHANGED result
          /\ err' = [err EXCEPT ![e] = IF @ = "nil" THEN "write" ELSE @]
    /\ UNCHANGED <<procVars, ctx, cli, waited, box, exit, row, silent>>

\* The worker looks at the error first, then at the context as it is now.  The
\* goroutine ends, and with it what it knew.
Verdict(e) == IF err[e] = "nil" THEN "success"
              ELSE CASE ctx[e] = "deadline" -> "timeout"
                     [] ctx[e] = "canceled" -> "cancelled"
                     [] OTHER -> "failed"

RecordOutcome(e) ==
    /\ Goto(e, "record", "done")
    /\ row' = [row EXCEPT ![e] = Verdict(e)]
    /\ ctx' = [ctx EXCEPT ![e] = "live"] /\ waited' = [waited EXCEPT ![e] = "no"]
    /\ err' = [err EXCEPT ![e] = "nil"]
    /\ UNCHANGED <<procVars, cli, box, exit, result, failed, silent>>

-----------------------------------------------------------------------------

ProcessStep == \/ StartProcess \/ ScanOrphans \/ RecoveryFails \/ RecoveryDone
               \/ Signal \/ ProcessEnds
               \/ \E e \in Execution : RemoveOrphan(e)

\* What the goroutine in Execute does, and the one it waits for.
GoroutineStep(e) ==
    \/ Prepare(e) \/ Launch(e)
    \/ Select(e) \/ StopContainer(e) \/ KillCli(e) \/ Reap(e)
    \/ CleanupContainer(e) \/ WriteResult(e) \/ RecordOutcome(e)

ChildStep(e) ==
    CreateBox(e) \/ StartBox(e) \/ BoxExits(e) \/ CliExits(e) \/ CliFails(e)

Next == \/ ProcessStep
        \/ \E e \in Execution :
             \/ Begin(e) \/ GoroutineStep(e) \/ ChildStep(e)
             \/ Deadline(e) \/ WatchKill(e) \/ WaitReturns(e)

Spec == Init /\ [][Next]_vars

\* Once its context is over a goroutine does not wait for anything slow: the
\* commands of that context are killed, docker stop has a timeout of its own, and
\* the child is killed.  Nothing is assumed of the container or of the child
\* before.  docker rm -f in the cleanup has no timeout: the daemon must answer.
Fairness ==
    \A e \in Execution : /\ WF_vars(ctx[e] # "live" /\ GoroutineStep(e))
                         /\ WF_vars(WatchKill(e)) /\ WF_vars(WaitReturns(e))

FairSpec == Spec /\ Fairness

-----------------------------------------------------------------------------
\* Properties.

\* With cleanup on, a container exists only while RunContainer attends to it
\* (docker.go:298-326), or after the process ended under it, or because a docker
\* command failed: no order of deadline, stop, kill, wait and removal leaves one
\* behind, running or not.
ContainerIsAttended ==
    \A e \in Execution :
        cleanup /\ Exists(e) /\ e \notin failed => Attending(e) \/ pc[e] = "gone"

\* With recovery on, every container there was when the process started is gone
\* before it dispatches anything (scheduler.go:73-94), and stays so: a child that survived
\* its process cannot start what was removed.  The exception is a container whose
\* removal by this very process failed without output (docker.go:276-278).  (A child that
\* had not made its container yet may still make it: that one is not in found.)
FoundAreGone ==
    OrphanRecovery /\ proc = "serve" =>
        \A e \in found : Exists(e) => silent[e] = starts

\* A run is recorded as a success only if its command ended with 0 and the result
\* file says so, and, with cleanup on, its container is gone: a leak makes the
\* run fail (docker.go:134-193, 319-323), but for one: docker rm -f failed without
\* output (docker.go:276-278).
SuccessIsWhole ==
    \A e \in Execution : row[e] = "success" =>
        /\ exit[e] = "zero" /\ result[e] = "ok"
        /\ cleanup /\ Exists(e) => silent[e] # 0

\* Orphan recovery goes by label and would take any container of the runner, so it
\* must be over when executions begin: the container of a live execution is
\* removed by its own cleanup only (docker.go:245-264).
LiveIsNotRecovered ==
    [][\A e \in Execution :
         Exists(e) /\ box'[e] = "absent" /\ Active(e) => pc[e] = "cleanup"]_vars

\* An execution whose context is over returns, whatever the container, the child
\* and the order of their ends (docker.go:298-326): nobody waits for a message
\* that was taken or never sent.
ContextEndsExecution ==
    \A e \in Execution : Active(e) /\ ctx[e] # "live" ~> ~Active(e)

=============================================================================
