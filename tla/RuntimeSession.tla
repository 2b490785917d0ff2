---------------------------- MODULE RuntimeSession ----------------------------
(***************************************************************************)
(* qts.runtime.session.RuntimeSession: its lifecycle state machine and     *)
(* everyone who moves it or closes its order gate.  Operators send         *)
(* commands, the broker connection comes and goes, actors fail, the        *)
(* market-data source degrades, the kill switch and the rollback latch,    *)
(* and a bar sends an order when nothing blocks it.                        *)
(*                                                                         *)
(* Every call on the facade runs to its end before the next one, so each   *)
(* is one action.  A lifecycle command the table does not know raises and  *)
(* changes nothing: it is no action.                                       *)
(***************************************************************************)
EXTENDS ActorSupervisor

CONSTANTS
    MaxOrders,   \* bound: orders sent
    NoDecision   \* startup_decision is None

RuntimeSessionState ==
    {"STOPPED", "STARTING", "RUNNING", "PAUSED", "OBSERVATION", "DEGRADED"}

\* _TRANSITIONS
Transitions ==
    [STOPPED     |-> [start |-> "STARTING"],
     STARTING    |-> [started |-> "RUNNING", stop |-> "STOPPED"],
     RUNNING     |-> [pause |-> "PAUSED", enter_observation |-> "OBSERVATION",
                      degrade |-> "DEGRADED", stop |-> "STOPPED"],
     PAUSED      |-> [resume |-> "RUNNING", enter_observation |-> "OBSERVATION",
                      degrade |-> "DEGRADED", stop |-> "STOPPED"],
     OBSERVATION |-> [exit_observation |-> "RUNNING", degrade |-> "DEGRADED",
                      stop |-> "STOPPED"],
     DEGRADED    |-> [recover |-> "RUNNING", pause |-> "PAUSED",
                      enter_observation |-> "OBSERVATION", stop |-> "STOPPED"]]

\* RuntimeStateMachine.apply
Accepts(s, command) == command \in DOMAIN Transitions[s]

-----------------------------------------------------------------------------
(***************************************************************************)
(* What a session is built from.  An approval is what the operator signed: *)
(* the live-capital decision, allow_live_orders and observation_only.      *)
(***************************************************************************)
RuntimeMode ==
    {"LIVE", "PAPER_BROKER", "PAPER_SIMULATED", "LIVE_OBSERVATION", "OBSERVATION", "BACKTEST"}

OrderSubmissionPermission ==
    {"OBSERVATION_ONLY", "PAPER_ORDERS_ALLOWED", "LIVE_ORDERS_ALLOWED"}

Approval == [capital : BOOLEAN, allowLive : BOOLEAN, observationOnly : BOOLEAN]
Unsigned == [capital |-> FALSE, allowLive |-> FALSE, observationOnly |-> FALSE]
Decision == [permission : OrderSubmissionPermission, realOrders : BOOLEAN]

ASSUME SessionAssumption == MaxOrders \in Nat /\ NoDecision \notin Decision

\* A decision that takes the live-capital sign-off for granted.
ValidateUnsigned(mode, approval) ==
    LET permission == IF mode = "LIVE" THEN "LIVE_ORDERS_ALLOWED" ELSE "PAPER_ORDERS_ALLOWED"
    IN [permission |-> permission,
        realOrders |-> /\ permission = "LIVE_ORDERS_ALLOWED"
                       /\ approval.allowLive /\ ~approval.observationOnly]

\* validate_live_startup after its checklist has passed (it raises otherwise
\* and no session is built).
ValidateLiveStartup(mode, approval) ==
    LET permission ==
          IF mode = "LIVE" /\ approval.capital THEN "LIVE_ORDERS_ALLOWED"
          ELSE IF mode \in {"PAPER_BROKER", "PAPER_SIMULATED"} THEN "PAPER_ORDERS_ALLOWED"
          ELSE "OBSERVATION_ONLY"
    IN [permission |-> permission,
        realOrders |-> /\ permission = "LIVE_ORDERS_ALLOWED"
                       /\ approval.allowLive /\ ~approval.observationOnly]

\* RuntimeSessionBuilder: simulated paper has no startup decision, every other
\* mode must have one, and a broker mode submits orders if the decision does.
\* The builder configures no reconciliation for reconnects.
Built(mode, approval) ==
    LET decision == IF mode = "PAPER_SIMULATED" THEN NoDecision
                    ELSE ValidateLiveStartup(mode, approval)
    IN [mode |-> mode, approval |-> approval, decision |-> decision,
        submission |-> /\ mode # "LIVE_OBSERVATION"
                       /\ mode \in {"LIVE", "PAPER_BROKER"} =>
                            decision.permission # "OBSERVATION_ONLY",
        reconciler |-> FALSE]

\* RuntimeSessionDependencies put together by a caller: any mode, submission
\* enabled (the default) or not, with a decision of that mode or without one, with
\* a reconciliation or without.
Assembled(mode, approval, submission, reconciler) ==
    [mode |-> mode, approval |-> approval, decision |-> ValidateLiveStartup(mode, approval),
     submission |-> submission, reconciler |-> reconciler]
AssembledUndecided(mode, submission, reconciler) ==
    [mode |-> mode, approval |-> Unsigned, decision |-> NoDecision,
     submission |-> submission, reconciler |-> reconciler]

Dependencies ==
    {Built(m, a) : m \in RuntimeMode, a \in Approval}
        \cup {Assembled(m, a, s, r) : m \in RuntimeMode, a \in Approval, s \in BOOLEAN, r \in BOOLEAN}
        \cup {AssembledUndecided(m, s, r) : m \in RuntimeMode, s \in BOOLEAN, r \in BOOLEAN}

-----------------------------------------------------------------------------
VARIABLES
    deps,         \* _dependencies
    state,        \* _machine.state
    killSwitch,   \* RuntimeSafetyState._active
    sent,         \* orders sent so far
    killed,       \* history: activation or rollback since the last deactivation
    fault,        \* history: a fault since an operator or a reconciliation last cleared it
    reconciled,   \* history: a start or a passed reconciliation since the last disconnect
    held          \* history: paused or observing, and no operator has lifted it

histories == <<killed, fault, reconciled, held>>
sessionVars == <<deps, state, killSwitch, sent, histories, supervisorVars>>

SessionTypeOK ==
    /\ SupervisorTypeOK
    /\ deps \in [mode : RuntimeMode, approval : Approval, decision : Decision \cup {NoDecision},
                 submission : BOOLEAN, reconciler : BOOLEAN]
    /\ state \in RuntimeSessionState
    /\ killSwitch \in BOOLEAN
    /\ sent \in 0..MaxOrders
    /\ killed \in BOOLEAN /\ fault \in BOOLEAN /\ reconciled \in BOOLEAN /\ held \in BOOLEAN

SessionInit ==
    /\ SupervisorInit
    /\ deps \in Dependencies
    /\ state = "STOPPED"
    /\ killSwitch = FALSE
    /\ sent = 0
    /\ killed = FALSE /\ fault = FALSE /\ reconciled = TRUE /\ held = FALSE

-----------------------------------------------------------------------------
(***************************************************************************)
(* The order gate.                                                         *)
(***************************************************************************)
\* BrokerRuntimeStartupGate.blocked_reason is None
StartupAllows ==
    IF deps.decision = NoDecision
    THEN deps.mode \notin {"LIVE", "PAPER_BROKER"}
    ELSE /\ deps.decision.permission # "OBSERVATION_ONLY"
         /\ deps.mode = "LIVE" => deps.decision.permission = "LIVE_ORDERS_ALLOWED"
         /\ deps.decision.permission = "LIVE_ORDERS_ALLOWED" => deps.decision.realOrders

\* Gates that forget the kill switch, or that keep submitting while degraded.
NotBlockedUnlatched == state = "RUNNING" /\ StartupAllows
NotBlockedDegraded == ~killSwitch /\ state \in {"RUNNING", "DEGRADED"} /\ StartupAllows

\* RuntimeSafetyController.blocked_reason is None
NotBlocked == ~killSwitch /\ state = "RUNNING" /\ StartupAllows

-----------------------------------------------------------------------------
(***************************************************************************)
(* Operator commands, through RuntimeCommandExecutor.                      *)
(***************************************************************************)

\* start: STARTING and RUNNING within the call, then DEGRADED if the startup
\* gate is closed.  The startup checklist has its own reconciliation checks, so
\* a start counts as reconciled.
Start ==
    /\ Accepts(state, "start")
    /\ state' = IF StartupAllows THEN "RUNNING" ELSE "DEGRADED"
    /\ fault' = FALSE /\ held' = FALSE /\ reconciled' = TRUE
    /\ UNCHANGED <<deps, killSwitch, sent, killed, supervisorVars>>

LifecycleCommand == {"stop", "pause", "resume", "enter_observation", "exit_observation"}

Command(c) ==
    /\ Accepts(state, c)
    /\ state' = Transitions[state][c]
    /\ held' = (c \in {"pause", "enter_observation"} \/ (c = "stop" /\ held))
    /\ fault' = IF c \in {"resume", "exit_observation"} THEN FALSE ELSE fault
    /\ UNCHANGED <<deps, killSwitch, sent, killed, reconciled, supervisorVars>>

\* RuntimeCommandExecutor.reconcile: recover, and nothing else.
Reconcile ==
    /\ Accepts(state, "recover")
    /\ state' = Transitions[state]["recover"]
    /\ fault' = FALSE /\ held' = FALSE
    /\ UNCHANGED <<deps, killSwitch, sent, killed, reconciled, supervisorVars>>

\* The flag part of activate_kill_switch, for an operator and for persistent
\* drift (module KillSwitch has the cancellations).
ActivateKillSwitch ==
    /\ killSwitch' = TRUE
    /\ killed' = TRUE
    /\ UNCHANGED <<deps, state, sent, fault, reconciled, held, supervisorVars>>

\* rollback latches the same flag and keeps evidence; the session's lifecycle
\* state stays as it is.
Rollback ==
    /\ killSwitch' = TRUE
    /\ killed' = TRUE
    /\ UNCHANGED <<deps, state, sent, fault, reconciled, held, supervisorVars>>

\* deactivate_kill_switch of an authorized command (any other one raises).
DeactivateKillSwitch ==
    /\ killSwitch' = FALSE
    /\ killed' = FALSE
    /\ UNCHANGED <<deps, state, sent, fault, reconciled, held, supervisorVars>>

-----------------------------------------------------------------------------
(***************************************************************************)
(* The broker connection.                                                  *)
(***************************************************************************)
\* RUNNING and PAUSED sessions degrade, the others stay as they are.
DegradeIfActive == IF state \in {"RUNNING", "PAUSED"} THEN "DEGRADED" ELSE state

OnBrokerDisconnect ==
    /\ state' = DegradeIfActive
    /\ fault' = TRUE
    /\ reconciled' = FALSE
    /\ UNCHANGED <<deps, killSwitch, sent, killed, held, supervisorVars>>

\* on_broker_reconnect: without a reconciler, or when it fails, the session
\* stays down; when it passes, a degraded session recovers.
OnBrokerReconnect(passed) ==
    /\ passed => deps.reconciler
    /\ state' = IF passed THEN (IF state = "DEGRADED" THEN "RUNNING" ELSE state)
                ELSE DegradeIfActive
    /\ fault' = ~passed
    /\ reconciled' = (passed \/ reconciled)
    /\ UNCHANGED <<deps, killSwitch, sent, killed, held, supervisorVars>>

-----------------------------------------------------------------------------
(***************************************************************************)
(* Actors, market data and bars.                                           *)
(***************************************************************************)

\* RuntimeSupervisionCoordinator.on_actor_failure
OnActorFailure(a, recoverable) ==
    /\ HandleFailure(a, recoverable)
    /\ IF ShouldRestart(a, recoverable)
       THEN UNCHANGED <<state, fault>>
       ELSE state' = DegradeIfActive /\ fault' = TRUE
    /\ UNCHANGED <<deps, killSwitch, sent, killed, reconciled, held>>

\* A source event, or a bar, whose flow result says runtime.degraded.  In
\* STOPPED and STARTING degrade raises and the state stays.
Degraded == IF Accepts(state, "degrade") THEN "DEGRADED" ELSE state

OnMarketDataDegraded ==
    /\ state' = Degraded
    /\ fault' = TRUE
    /\ UNCHANGED <<deps, killSwitch, sent, killed, reconciled, held, supervisorVars>>

\* A bar for which the strategy wants an order.  A blocked bar writes an event
\* and stops there.
OnMarketData ==
    /\ NotBlocked
    /\ deps.submission
    /\ sent < MaxOrders
    /\ sent' = sent + 1
    /\ UNCHANGED <<deps, state, killSwitch, histories, supervisorVars>>

Supervised ==
    /\ Tick \/ \E a \in Actors : Tell(a)
    /\ UNCHANGED <<deps, state, killSwitch, sent, histories>>

-----------------------------------------------------------------------------
SessionNext ==
    \/ Start \/ Reconcile
    \/ \E c \in LifecycleCommand : Command(c)
    \/ ActivateKillSwitch \/ Rollback \/ DeactivateKillSwitch
    \/ OnBrokerDisconnect
    \/ \E passed \in BOOLEAN : OnBrokerReconnect(passed)
    \/ \E a \in Actors, r \in BOOLEAN : OnActorFailure(a, r)
    \/ OnMarketDataDegraded \/ OnMarketData
    \/ Supervised

SessionSpec == SessionInit /\ [][SessionNext]_sessionVars

-----------------------------------------------------------------------------
(***************************************************************************)
(* Properties.                                                             *)
(***************************************************************************)
Sends == sent' # sent

\* However the session was built, no sequence of commands, faults and recoveries
\* gets round the startup gate: an order leaves in live mode only under a granted
\* live-capital decision, allow_live_orders and no observation-only setting, to a
\* paper broker only under a startup decision, and in a mode that is for neither
\* only if the session was assembled without a decision, which the builder
\* refuses (validate_live_startup, BrokerRuntimeStartupGate, blocked_reason).
OrdersApproved ==
    [][Sends => /\ deps.mode = "LIVE" =>
                     /\ deps.approval.capital /\ deps.approval.allowLive
                     /\ ~deps.approval.observationOnly
                /\ deps.mode = "PAPER_BROKER" => deps.decision # NoDecision
                /\ deps.mode \in {"LIVE_OBSERVATION", "OBSERVATION", "BACKTEST"} =>
                     deps.decision = NoDecision]_sessionVars

\* docs/operations/paper_vs_live_comparison.md: "Live observation must submit no
\* orders."  It does not hold of a session assembled without a startup decision:
\* the gate blocks LIVE and PAPER_BROKER then, and no other mode.
ObservationSubmitsNothing == [][Sends => deps.mode # "LIVE_OBSERVATION"]_sessionVars

\* From an activation or a rollback to the next authorized deactivation no
\* order is sent, across stops, restarts, recoveries and reconnects
\* (activate_kill_switch, rollback, deactivate_kill_switch).
KillSwitchHolds == [][Sends => ~killed]_sessionVars

\* After a disconnect, a failed reconciliation, a degraded feed or an actor out
\* of restarts no order is sent until an operator or a passed reconciliation
\* has put the session back: nothing else re-opens the gate
\* (RuntimeBrokerLifecycleCoordinator, on_actor_failure, derive_market_data).
FaultBlocksOrders == [][Sends => ~fault]_sessionVars

\* docs/runtime/live_runtime_startup.md: "Recovery returns to `running` only
\* after health and reconciliation checks pass."
ReconciledBeforeRunning == state = "RUNNING" => reconciled

\* docs/runtime/live_runtime_startup.md: "`paused` blocks new live order
\* submission."  A pause, and likewise observation, which is left "after
\* operator approval", holds until an operator lifts it: no bar can send an order before.
PauseHolds == NotBlocked /\ deps.submission => ~held

=============================================================================
