-------------------------- MODULE MCRuntimeSession --------------------------
(***************************************************************************)
(* RuntimeSession for TLC: every way a session can be built, one           *)
(* supervised actor with a budget of one restart in a window of two ticks, *)
(* and failures enough to exhaust the budget and to see it recover.        *)
(***************************************************************************)
EXTENDS RuntimeSession
=============================================================================
