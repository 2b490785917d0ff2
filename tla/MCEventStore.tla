----------------------------- MODULE MCEventStore -----------------------------
(***************************************************************************)
(* EventStore for TLC: two stores on one file of up to four lines.         *)
(***************************************************************************)
EXTENDS EventStore
=============================================================================
