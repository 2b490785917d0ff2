---------------------------- MODULE MCIbkrAdapter -----------------------------
(***************************************************************************)
(* Instance of IbkrOrderIds, IbkrFills and IbkrExecution for TLC: the      *)
(* order-id allocator, the fill normalizer and the order path of the IBKR  *)
(* adapter share no variable, so TLC explores each of them by itself, with *)
(* the other two at their initial states.                                  *)
(***************************************************************************)
EXTENDS IbkrOrderIds, IbkrFills, IbkrExecution

VARIABLE part   \* the part that is explored

AdapterInit ==
    /\ part \in {"order_ids", "fills", "execution"}
    /\ IdsInit /\ FillsInit /\ Init
    /\ storePath \/ part = "order_ids"

AdapterNext ==
    /\ UNCHANGED part
    /\ \/ part = "order_ids" /\ IdsNext /\ UNCHANGED <<fillVars, vars>>
       \/ part = "fills" /\ FillsNext /\ UNCHANGED <<idVars, vars>>
       \/ part = "execution" /\ Next /\ UNCHANGED <<idVars, fillVars>>

adapterVars == <<part, idVars, fillVars, vars>>

AdapterSpec == AdapterInit /\ [][AdapterNext]_adapterVars

-----------------------------------------------------------------------------
\* The orders are the same in all parts, and interchangeable.
AdapterSymmetry == Permutations(Clients \cup Orders)

\* The executions are of one order, whose id the map learns.
MCOrderIdOf == [e \in Execs \cup Foreign |-> "n1"]

CONSTANTS
    MaxBooked,     \* bound: how often an execution is booked, beyond the twice that a race reaches
    MaxCallbacks   \* bound: how many different callbacks the adapter remembers at a time

AdapterBound ==
    /\ \A e \in Execs : booked[e] <= MaxBooked
    /\ Cardinality(seenStatus) + Len(quarStatus) + Cardinality(seenOpen) + Cardinality(quarOpen)
           + Cardinality(quarOthers) <= MaxCallbacks

\* Status texts with a mapping and without one, perm ids known and not.
MCStatuses == {<<"Submitted", "zero">>, <<"ApiPending", "own">>}

\* A fill and what may come after it.
MCFinalStatuses == {<<"Filled", "own">>, <<"Cancelled", "own">>, <<"Submitted", "own">>}
=============================================================================
