----------------------------- MODULE MCDurability -----------------------------
(***************************************************************************)
(* Durability for TLC: two actors whose states change up to twice each, a  *)
(* log of up to three lines and two stores, so that counters can be stale.  *)
(***************************************************************************)
EXTENDS Durability, TLC

MCEvents == StateEvent \cup {NoState}

Symmetry == Permutations(Stores) \cup Permutations(ActorIds)
=============================================================================
