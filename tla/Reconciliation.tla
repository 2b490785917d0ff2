---------------------------- MODULE Reconciliation ----------------------------
(***************************************************************************)
(* Reconciliation of the internal books with the broker's: the report of a *)
(* cycle (reconcile_snapshots), the startup gate on it, and the persistent *)
(* drift kill switch that PersistentDriftCoordinator feeds with one report *)
(* per cycle.                                                              *)
(*                                                                         *)
(* A drift key is a number, ordered as its string is.  What a side holds   *)
(* under a key is an amount, or nothing: for an order the amount stands    *)
(* for all the fields that are compared.                                   *)
(***************************************************************************)
EXTENDS Integers

CONSTANTS
    Keys,        \* drift keys
    OrderKeys,   \* those of orders, compared without tolerance
    Amounts,     \* bound: the amounts a side may hold
    Tolerance,   \* tolerance of the engine
    Threshold,   \* PersistentDriftConfig.consecutive_threshold
    None

ASSUME ReconciliationAssumption ==
    /\ Keys \subseteq Nat /\ OrderKeys \subseteq Keys
    /\ Amounts \subseteq Int /\ None \notin Amounts /\ None \notin Keys
    /\ Tolerance \in Nat
    /\ Threshold \in Nat \ {0}

\* sorted() of keys has a first element.
ASSUME KeyOrder ==
    \A D \in SUBSET Keys : D # {} => \E k \in D : \A j \in D : k <= j

VARIABLES
    internal,     \* the internal snapshot
    broker,       \* external: the broker's snapshot
    streakKey,    \* PersistentDriftKillSwitch._streak_key
    streakCount,  \* _streak_count
    tripped,      \* _tripped
    trippedKey,   \* _tripped_key
    notified,     \* PersistentDriftCoordinator._already_tripped
    killSwitch,   \* RuntimeSafetyState._active
    trading,      \* trading_enabled of the last startup decision
    run,          \* history: cycles in a row, up to this one, with the key divergent (capped)
    lead,         \* history: those in which no smaller key was divergent (capped)
    lifted        \* history: an operator lifted the kill switch

switchVars == <<streakKey, streakCount, tripped, trippedKey>>
histories == <<run, lead, lifted>>
books == <<internal, broker>>
reconVars == <<books, switchVars, notified, killSwitch, trading, histories>>

ReconTypeOK ==
    /\ internal \in [Keys -> Amounts \cup {None}] /\ broker \in [Keys -> Amounts \cup {None}]
    /\ streakKey \in Keys \cup {None} /\ streakCount \in 0..Threshold
    /\ tripped \in BOOLEAN /\ trippedKey \in Keys \cup {None}
    /\ notified \in BOOLEAN /\ killSwitch \in BOOLEAN /\ trading \in BOOLEAN
    /\ run \in [Keys -> 0..Threshold] /\ lead \in [Keys -> 0..Threshold]
    /\ lifted \in BOOLEAN

ReconInit ==
    /\ internal = [k \in Keys |-> None] /\ broker = [k \in Keys |-> None]
    /\ streakKey = None /\ streakCount = 0
    /\ tripped = FALSE /\ trippedKey = None
    /\ notified = FALSE /\ killSwitch = FALSE /\ trading = FALSE
    /\ run = [k \in Keys |-> 0] /\ lead = [k \in Keys |-> 0]
    /\ lifted = FALSE

-----------------------------------------------------------------------------
(***************************************************************************)
(* The report.                                                             *)
(***************************************************************************)
Within(a, b, tolerance) == a - b <= tolerance /\ b - a <= tolerance

\* compare_orders, compare_positions and compare_cash, for a key either side has.
KindOf(k) ==
    CASE internal[k] = None -> "EXTRA_AT_BROKER"
      [] internal[k] # None /\ broker[k] = None -> "MISSING_AT_BROKER"
      [] internal[k] # None /\ broker[k] # None /\ internal[k] = broker[k] -> "MATCHED"
      [] OTHER -> IF k \notin OrderKeys /\ Within(internal[k], broker[k], Tolerance)
                  THEN "TOLERANCE_ONLY" ELSE "DIVERGENT"

Items == {k \in Keys : internal[k] # None \/ broker[k] # None}

\* A report that overlooks what only one side has.
HasDivergence == \E k \in Items : KindOf(k) = "DIVERGENT"

\* ReconciliationReport.has_drift
HasDrift == \E k \in Items : KindOf(k) \notin {"MATCHED", "TOLERANCE_ONLY"}

DivergentKeys == {k \in Items : KindOf(k) = "DIVERGENT"}

\* The last divergent key, and sorted(...)[0].
LastOf(D) == CHOOSE k \in D : \A j \in D : j <= k
First(D) == CHOOSE k \in D : \A j \in D : k <= j

-----------------------------------------------------------------------------
(***************************************************************************)
(* PersistentDriftKillSwitch.observe.                                      *)
(***************************************************************************)

\* A streak that counts on when the focus moves to another key.
StreakOfAnyKey(focus) == IF streakKey # None THEN streakCount + 1 ELSE 1

Streak(focus) == IF streakKey = focus THEN streakCount + 1 ELSE 1

ObserveSwitch ==
    IF tripped THEN UNCHANGED switchVars
    ELSE IF DivergentKeys = {}
    THEN streakKey' = None /\ streakCount' = 0 /\ UNCHANGED <<tripped, trippedKey>>
    ELSE LET focus == First(DivergentKeys)
         IN /\ streakKey' = focus
            /\ streakCount' = Streak(focus)
            /\ tripped' = (Streak(focus) >= Threshold)
            /\ trippedKey' = IF Streak(focus) >= Threshold THEN focus ELSE None

\* What the reports seen so far say of each key.
Capped(n) == IF n < Threshold THEN n + 1 ELSE Threshold

Count ==
    /\ run' = [k \in Keys |-> IF k \in DivergentKeys THEN Capped(run[k]) ELSE 0]
    /\ lead' = [k \in Keys |->
                  IF k \in DivergentKeys /\ \A j \in DivergentKeys : k <= j
                  THEN Capped(lead[k]) ELSE 0]

\* PersistentDriftCoordinator.observe: the safety controller latches its flag
\* before anything in it can raise.
Notify ==
    /\ notified' = (notified \/ tripped')
    /\ killSwitch' = (killSwitch \/ (tripped' /\ ~notified))

Observe ==
    /\ ObserveSwitch
    /\ Notify
    /\ Count
    /\ UNCHANGED <<books, trading, lifted>>

-----------------------------------------------------------------------------
(***************************************************************************)
(* Its surroundings.                                                       *)
(***************************************************************************)

\* BrokerRuntimeReconciliation.startup_decision, when a session starts.  The
\* coordinator belongs to the process and starts anew with it.
Startup ==
    /\ trading' = ~HasDrift
    /\ streakKey' = None /\ streakCount' = 0 /\ tripped' = FALSE /\ trippedKey' = None
    /\ notified' = FALSE /\ killSwitch' = FALSE
    /\ run' = [k \in Keys |-> 0] /\ lead' = [k \in Keys |-> 0]
    /\ lifted' = FALSE
    /\ UNCHANGED books

\* Fills, cash movements and order updates on either side.
InternalChanges(k, a) ==
    /\ internal' = [internal EXCEPT ![k] = a]
    /\ UNCHANGED <<broker, switchVars, notified, killSwitch, trading, histories>>

BrokerChanges(k, a) ==
    /\ broker' = [broker EXCEPT ![k] = a]
    /\ UNCHANGED <<internal, switchVars, notified, killSwitch, trading, histories>>

\* deactivate_kill_switch of an authorized command.
Deactivate ==
    /\ killSwitch
    /\ killSwitch' = FALSE
    /\ lifted' = TRUE
    /\ UNCHANGED <<books, switchVars, notified, trading, run, lead>>

ReconNext ==
    \/ Observe \/ Startup \/ Deactivate
    \/ \E k \in Keys, a \in Amounts \cup {None} : InternalChanges(k, a) \/ BrokerChanges(k, a)

ReconSpec == ReconInit /\ [][ReconNext]_reconVars

-----------------------------------------------------------------------------
(***************************************************************************)
(* Properties.                                                             *)
(***************************************************************************)

\* The switch trips only on a key that was divergent in each of the last
\* consecutive_threshold cycles: neither drift that heals in between nor drift that
\* wanders from key to key adds up (PersistentDriftKillSwitch.observe).
TripIsPersistent ==
    [][~tripped /\ tripped' => trippedKey' \in Keys /\ run'[trippedKey'] = Threshold]_reconVars

\* A key that was divergent in that many cycles in a row, with no smaller key
\* divergent in any of them, has tripped the switch (PersistentDriftKillSwitch.observe).
LeadingDriftTrips == \A k \in Keys : lead[k] = Threshold => tripped

\* Once the switch has tripped, the runtime's kill switch is on until an operator
\* lifts it: the activation is neither missed nor late
\* (PersistentDriftCoordinator.observe).
TripActivates == tripped => killSwitch \/ lifted

\* A startup enables trading only when both sides hold the same keys, the orders
\* agree and no amount is off by more than the tolerance
\* (startup_reconciliation_gate, compare_positions).
Agreement ==
    \A k \in Keys :
        /\ (internal[k] = None) = (broker[k] = None)
        /\ internal[k] # None =>
             Within(internal[k], broker[k], IF k \in OrderKeys THEN 0 ELSE Tolerance)
TradingMeansAgreement == [][Startup /\ trading' => Agreement]_reconVars

\* reconciliation/persistent_drift.py: "When the same drift key surfaces as
\* DIVERGENT for N consecutive reconciliation cycles, the kill switch trips."
PersistentKeyTrips == \A k \in Keys : run[k] = Threshold => tripped

=============================================================================
