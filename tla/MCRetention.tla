---------------------------- MODULE MCRetention ----------------------------
(***************************************************************************)
(* Two runs and a few days for TLC; each limit is small enough to be met.  *)
(***************************************************************************)
EXTENDS Retention
=============================================================================
