------------------------------ MODULE RunQueue ------------------------------
(***************************************************************************)
(* What dispatch promises to the rest of the program, without rows,        *)
(* goroutines, tokens or scans: a queue of runs of which at most Capacity  *)
(* execute at a time, each of them at most once.  A run enters the queue   *)
(* once or is refused; it leaves it to execute or is dropped; an execution *)
(* ends, and may put one new run, its retry, into the queue as it does.    *)
(***************************************************************************)
EXTENDS Integers, FiniteSets

CONSTANT Capacity   \* how many runs may execute at once

VARIABLES
    known,      \* runs that ever entered the queue or were refused
    queued,     \* runs waiting to execute
    executing   \* runs being executed

queueVars == <<known, queued, executing>>

QueueInit == known = {} /\ queued = {} /\ executing = {}

Submit(r) ==
    /\ r \notin known
    /\ known' = known \cup {r} /\ queued' = queued \cup {r}
    /\ UNCHANGED executing

\* A slot that is skipped: the run is on record and never waits.
Refuse(r) ==
    /\ r \notin known
    /\ known' = known \cup {r}
    /\ UNCHANGED <<queued, executing>>

Begin(r) ==
    /\ r \in queued /\ Cardinality(executing) < Capacity
    /\ queued' = queued \ {r} /\ executing' = executing \cup {r}
    /\ UNCHANGED known

\* Cancellation, deletion or the end of the process: runs leave for good.
Drop(dropped, ended) ==
    /\ queued' = queued \ dropped /\ executing' = executing \ ended
    /\ UNCHANGED known

\* An execution ends and its retry q enters the queue in the same step.
EndWithRetry(r, q) ==
    /\ r \in executing /\ q \notin known
    /\ executing' = executing \ {r}
    /\ known' = known \cup {q} /\ queued' = queued \cup {q}

QueueNext ==
    \/ \E r \in known' : Submit(r) \/ Refuse(r)
    \/ \E r \in queued : Begin(r)
    \/ \E dropped \in SUBSET queued, ended \in SUBSET executing : Drop(dropped, ended)
    \/ \E r \in executing, q \in known' : EndWithRetry(r, q)

QueueSpec == QueueInit /\ [][QueueNext]_queueVars
=============================================================================
