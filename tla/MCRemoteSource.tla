--------------------------- MODULE MCRemoteSource ---------------------------
(***************************************************************************)
(* A catalog of two pages for TLC: call 1 lists it all, call 2 the second    *)
(* page only.                                                               *)
(***************************************************************************)
EXTENDS RemoteSource

TwoPages == <<{"a"}, {"b"}>>

Filters == <<{"a", "b"}, {"b"}>>
=============================================================================
