----------------------------- MODULE JobValues -----------------------------
(***************************************************************************)
(* Values that one component writes into a job row and others read back:   *)
(* the timeout, which the job service resolves (internal/service,          *)
(* job_service.go) and the scheduler clamps again (internal/scheduler,     *)
(* worker.go), perhaps under the configuration of a later process, and the *)
(* instants, which the store keeps and compares as text (internal/store,   *)
(* db.go).                                                                 *)
(***************************************************************************)
EXTENDS Integers, Sequences

-----------------------------------------------------------------------------
\* Timeouts, in seconds; a 0 in a job row is no timeout, if the configuration allows
\* it, and the default otherwise.

SchedulerConfig == [default : Int, max : Int, unlimited : BOOLEAN]

\* Config.Validate, which main demands before anything starts.
Valid(c) ==
    /\ c.default >= 0
    /\ c.default = 0 => c.unlimited
    /\ c.max > 0
    /\ c.default <= c.max

\* NewJobServiceWithTimeoutPolicy: what a missing limit or default stands for.
Policy(c) ==
    [default   |-> IF c.default = 0 /\ ~c.unlimited THEN 3600 ELSE c.default,
     max       |-> IF c.max <= 0 THEN 86400 ELSE c.max,
     unlimited |-> c.unlimited]

\* A request that leaves the timeout out.
Absent == << >>

Request == {Absent} \cup {<<t>> : t \in Int}

\* resolveTimeoutSec: which requests are accepted ...
Accepted(p, req) ==
    req # Absent =>
        /\ req[1] >= 0
        /\ req[1] = 0 => p.unlimited
        /\ req[1] <= p.max

\* ... and what is stored for them.
Resolved(p, req) == IF req = Absent THEN p.default ELSE req[1]

\* effectiveTimeoutSec: the deadline of an execution, and the age at which the
\* due-job loop calls a running row stale; 0 is none.
Effective(c, stored) ==
    LET max == IF c.max <= 0 THEN 86400 ELSE c.max IN
    IF stored # 0 THEN IF stored > max THEN max ELSE stored
    ELSE IF c.unlimited THEN 0
    ELSE IF c.default > 0 THEN c.default ELSE 3600

-----------------------------------------------------------------------------
\* Instants, as whole seconds and the decimals of the fraction without trailing
\* zeros, and their texts.  The text of the seconds has a fixed width, so one
\* number stands for it; the other characters are numbers in the order of ASCII.

Digit == 0 .. 9
Dot   == -1
Zed   == 10

Instant == [sec : Int, decimals : Seq(Digit)]

\* encodeTime: UTC in the layout RFC3339Nano.
Text(t) ==
    IF t.decimals = << >> THEN <<t.sec, Zed>>
                          ELSE <<t.sec, Dot>> \o t.decimals \o <<Zed>>

\* The order of texts in SQLite (BINARY collation).
TextBefore(x, y) ==
    \/ /\ Len(x) < Len(y)
       /\ \A i \in 1 .. Len(x) : x[i] = y[i]
    \/ \E i \in 1 .. Len(x) :
         /\ i <= Len(y) /\ x[i] < y[i]
         /\ \A k \in 1 .. i - 1 : x[k] = y[k]

TextUpTo(x, y) == x = y \/ TextBefore(x, y)

\* next_run_at <= ?, as ListDue asks it at instant t.
ListedAt(slot, t) == TextUpTo(Text(slot), Text(t))
=============================================================================
