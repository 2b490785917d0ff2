-------------------------- MODULE MCIntentProcessing --------------------------
(***************************************************************************)
(* IntentProcessing for TLC: two contracts, long, flat and short targets   *)
(* and four intents, for each of the callers.                              *)
(***************************************************************************)
EXTENDS IntentProcessing

MCQuantities == {-1, 0, 2}
=============================================================================
