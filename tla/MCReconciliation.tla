-------------------------- MODULE MCReconciliation --------------------------
(***************************************************************************)
(* Reconciliation for TLC: a cash key, which sorts first, and an order     *)
(* key, with amounts one and two apart around a tolerance of one.          *)
(***************************************************************************)
EXTENDS Reconciliation
=============================================================================
