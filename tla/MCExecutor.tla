----------------------------- MODULE MCExecutor -----------------------------
(***************************************************************************)
(* Two executions, in one process or in two, for TLC.                       *)
(***************************************************************************)
EXTENDS Executor
=============================================================================
