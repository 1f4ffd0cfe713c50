----------------------------- MODULE MCDueJobs -----------------------------
(***************************************************************************)
(* Small instances of DueJobs for TLC.                                     *)
(***************************************************************************)
EXTENDS DueJobs, TLC

CONSTANTS j1, j2, w1, w2, c1

JobOf(kind, period, policy, enabled) ==
    [enabled |-> enabled, kind |-> kind, period |-> period, policy |-> policy,
     retryLimit |-> 0]

\* A job that forbids overlap, a calendar of every second tick that allows it, and one
\* that never fires.
AnySchedule ==
    {JobOf("interval", 1, "forbid", TRUE), JobOf("cron", 2, "allow", TRUE),
     JobOf("never", 1, "allow", TRUE)}

\* The ticks, and the zero time of a schedule that never fires.
Instants == {ZeroTime} \cup 0 .. 4

Forbid == {JobOf("interval", 1, "forbid", TRUE)}

\* A timeout of two ticks is clamped to one, or there is none.
AtMostOne == [default |-> 1, max |-> 1, unlimited |-> FALSE]
Unlimited == [default |-> 0, max |-> 1, unlimited |-> TRUE]

Calendar == {JobOf("cron", 2, "allow", TRUE)}

-----------------------------------------------------------------------------
\* The theorems about JobValues, on small values.

SmallConfigs ==
    {c \in [default : -1 .. 3, max : -1 .. 3, unlimited : BOOLEAN] : Valid(c)}
SmallRequests == {Absent} \cup {<<t>> : t \in -1 .. 4}
SmallInstants == [sec : 0 .. 2, decimals : {<< >>, <<0, 1>>, <<1>>, <<1, 0, 1>>, <<9>>}]

ASSUME ValuesAgree ==
    \A old, c \in SmallConfigs : \A req \in SmallRequests :
        Accepted(Policy(old), req) =>
            LET stored == Resolved(Policy(old), req)
                t == Effective(c, stored)
            IN /\ t \in 1 .. c.max \/ (t = 0 /\ c.unlimited)
               /\ c = old => t = IF req = Absent THEN c.default ELSE req[1]

ASSUME TextsAgree ==
    \A slot, t \in SmallInstants :
        /\ slot.sec < t.sec => ListedAt(slot, t)
        /\ ListedAt(slot, t) => slot.sec <= t.sec
=============================================================================
