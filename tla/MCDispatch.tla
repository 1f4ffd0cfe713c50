----------------------------- MODULE MCDispatch -----------------------------
(***************************************************************************)
(* Small instances of Dispatch for TLC: one job with a retry limit up to   *)
(* 1, one instant, and in some runs one goroutine identity more than       *)
(* tokens.                                                                 *)
(***************************************************************************)
EXTENDS Dispatch, TLC

CONSTANTS j1, w1, w2, w3, c1

Retries(n) ==
    [enabled |-> TRUE, kind |-> "interval", period |-> 1, policy |-> "allow",
     retryLimit |-> n]

NoRetry        == {Retries(0)}
OneRetry       == {Retries(1)}
AtMostOneRetry == {Retries(0), Retries(1)}

WorkerSymmetry == Permutations(Worker)
=============================================================================
