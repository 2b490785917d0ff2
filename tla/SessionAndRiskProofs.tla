------------------------- MODULE SessionAndRiskProofs -------------------------
(***************************************************************************)
(* Proofs about what lets an order leave: the gate of a runtime session    *)
(* with the supervision of its actors, for any actors, restart budget and  *)
(* number of orders; and the books of an account with the limits of its    *)
(* risk engine, for any instruments, prices, targets and limits.           *)
(***************************************************************************)
EXTENDS RuntimeSession, AccountRisk, FiniteSetTheorems, WellFoundedInduction, TLAPS

(***************************************************************************)
(* The session's gate.                                                     *)
(***************************************************************************)

\* Every command the table knows leads to a lifecycle state, and only three of
\* them lead to RUNNING (_TRANSITIONS).
LEMMA CommandTarget ==
    ASSUME NEW s \in RuntimeSessionState, NEW c \in LifecycleCommand, Accepts(s, c)
    PROVE  /\ Transitions[s][c] \in RuntimeSessionState
           /\ Transitions[s][c] = "RUNNING" => c \in {"resume", "exit_observation"}
<1>1. CASE s = "STOPPED"
  BY <1>1 DEF Accepts, Transitions, LifecycleCommand, RuntimeSessionState
<1>2. CASE s = "STARTING"
  BY <1>2 DEF Accepts, Transitions, LifecycleCommand, RuntimeSessionState
<1>3. CASE s = "RUNNING"
  BY <1>3 DEF Accepts, Transitions, LifecycleCommand, RuntimeSessionState
<1>4. CASE s = "PAUSED"
  BY <1>4 DEF Accepts, Transitions, LifecycleCommand, RuntimeSessionState
<1>5. CASE s = "OBSERVATION"
  BY <1>5 DEF Accepts, Transitions, LifecycleCommand, RuntimeSessionState
<1>6. CASE s = "DEGRADED"
  BY <1>6 DEF Accepts, Transitions, LifecycleCommand, RuntimeSessionState
<1> QED BY <1>1, <1>2, <1>3, <1>4, <1>5, <1>6 DEF RuntimeSessionState

\* A running or paused session can be degraded (_TRANSITIONS).
LEMMA RunningDegrades == Accepts("RUNNING", "degrade")
BY DEF Accepts, Transitions

\* A degraded session recovers to RUNNING (_TRANSITIONS).
LEMMA RecoverTarget ==
    ASSUME NEW s \in RuntimeSessionState, Accepts(s, "recover")
    PROVE  Transitions[s]["recover"] = "RUNNING"
<1>1. CASE s = "DEGRADED"
  BY <1>1 DEF Transitions
<1>2. CASE s # "DEGRADED"
  BY <1>2 DEF Accepts, Transitions, RuntimeSessionState
<1> QED BY <1>1, <1>2

(***************************************************************************)
(* The inductive invariant: what the gate reads agrees with what happened. *)
(***************************************************************************)
GateInv ==
    /\ state \in RuntimeSessionState
    /\ fault \in BOOLEAN
    /\ deps \in Dependencies
    /\ killed = killSwitch
    /\ fault => state # "RUNNING"

\* The invariant holds of a new session.
LEMMA GateInvInit == SessionInit => GateInv
BY DEF SessionInit, GateInv, RuntimeSessionState

\* Every call on the facade keeps the invariant.
LEMMA GateInvStep ==
    ASSUME GateInv, [SessionNext]_sessionVars
    PROVE  GateInv'
<1> USE DEF GateInv
<1>1. CASE Start
  BY <1>1 DEF Start, RuntimeSessionState
<1>2. CASE Reconcile
  BY <1>2, RecoverTarget DEF Reconcile, RuntimeSessionState
<1>3. ASSUME NEW c \in LifecycleCommand, Command(c) PROVE GateInv'
  BY <1>3, CommandTarget DEF Command
<1>4. CASE ActivateKillSwitch
  BY <1>4 DEF ActivateKillSwitch
<1>5. CASE Rollback
  BY <1>5 DEF Rollback
<1>6. CASE DeactivateKillSwitch
  BY <1>6 DEF DeactivateKillSwitch
<1>7. CASE OnBrokerDisconnect
  BY <1>7 DEF OnBrokerDisconnect, DegradeIfActive, RuntimeSessionState
<1>8. ASSUME NEW passed \in BOOLEAN, OnBrokerReconnect(passed) PROVE GateInv'
  BY <1>8 DEF OnBrokerReconnect, DegradeIfActive, RuntimeSessionState
<1>9. ASSUME NEW a \in Actors, NEW r \in BOOLEAN, OnActorFailure(a, r) PROVE GateInv'
  BY <1>9 DEF OnActorFailure, DegradeIfActive, RuntimeSessionState
<1>10. CASE OnMarketDataDegraded
  BY <1>10, RunningDegrades DEF OnMarketDataDegraded, Degraded, RuntimeSessionState
<1>11. CASE OnMarketData
  BY <1>11 DEF OnMarketData, histories
<1>12. CASE Supervised
  BY <1>12 DEF Supervised, histories
<1>13. CASE UNCHANGED sessionVars
  BY <1>13 DEF sessionVars, histories
<1> QED BY <1>1, <1>2, <1>3, <1>4, <1>5, <1>6, <1>7, <1>8, <1>9, <1>10, <1>11,
           <1>12, <1>13 DEF SessionNext

\* Only a bar that nothing blocks sends an order (trigger_strategy_for_bar).
LEMMA OnlyBarsSend ==
    ASSUME [SessionNext]_sessionVars, Sends
    PROVE  NotBlocked /\ deps.submission
BY DEF SessionNext, Sends, sessionVars, Start, Reconcile, Command, ActivateKillSwitch, Rollback,
       DeactivateKillSwitch, OnBrokerDisconnect, OnBrokerReconnect, OnActorFailure,
       OnMarketDataDegraded, OnMarketData, Supervised

\* No order is sent between an activation or a rollback and the next
\* deactivation (activate_kill_switch, rollback, deactivate_kill_switch).
THEOREM SessionKillSwitchHolds == SessionSpec => KillSwitchHolds
<1>1. GateInv /\ [SessionNext]_sessionVars => [Sends => ~killed]_sessionVars
  BY OnlyBarsSend DEF GateInv, NotBlocked
<1> QED BY <1>1, GateInvInit, GateInvStep, PTL DEF SessionSpec, KillSwitchHolds

\* No order is sent between a fault and the operator or the reconciliation that
\* puts the session back (RuntimeBrokerLifecycleCoordinator, on_actor_failure).
THEOREM SessionFaultBlocksOrders == SessionSpec => FaultBlocksOrders
<1>1. GateInv /\ [SessionNext]_sessionVars => [Sends => ~fault]_sessionVars
  BY OnlyBarsSend DEF GateInv, NotBlocked
<1> QED BY <1>1, GateInvInit, GateInvStep, PTL DEF SessionSpec, FaultBlocksOrders

\* A startup decision is one (validate_live_startup).
LEMMA DecisionType ==
    ASSUME NEW m \in RuntimeMode, NEW a \in Approval
    PROVE  ValidateLiveStartup(m, a) \in Decision
BY DEF ValidateLiveStartup, Decision, OrderSubmissionPermission, Approval

\* What the startup gate lets through was signed (validate_live_startup,
\* BrokerRuntimeStartupGate.blocked_reason, RuntimeSessionBuilder,
\* RuntimeSessionDependencies).
LEMMA ApprovedIfAllowed ==
    ASSUME deps \in Dependencies, StartupAllows, deps.submission
    PROVE  /\ deps.mode = "LIVE" => /\ deps.approval.capital /\ deps.approval.allowLive
                                    /\ ~deps.approval.observationOnly
           /\ deps.mode = "PAPER_BROKER" => deps.decision # NoDecision
           /\ deps.mode \in {"LIVE_OBSERVATION", "OBSERVATION", "BACKTEST"} =>
                deps.decision = NoDecision
<1>1. CASE deps.decision = NoDecision
  BY <1>1 DEF StartupAllows
<1>2. ASSUME NEW m \in RuntimeMode, NEW a \in Approval, deps.mode = m, deps.approval = a,
             deps.decision = ValidateLiveStartup(m, a)
      PROVE  /\ m = "LIVE" => a.capital /\ a.allowLive /\ ~a.observationOnly
             /\ deps.decision # NoDecision
             /\ m \notin {"LIVE_OBSERVATION", "OBSERVATION", "BACKTEST"}
  <2>1. deps.decision # NoDecision
    BY <1>2, DecisionType, SessionAssumption
  <2> QED BY <1>2, <2>1 DEF StartupAllows, ValidateLiveStartup
<1>3. CASE \E m \in RuntimeMode, a \in Approval : deps = Built(m, a)
  BY <1>1, <1>2, <1>3 DEF Built
<1>4. CASE \E m \in RuntimeMode, a \in Approval, s \in BOOLEAN, r \in BOOLEAN :
             deps = Assembled(m, a, s, r)
  BY <1>2, <1>4 DEF Assembled
<1>5. CASE \E m \in RuntimeMode, s \in BOOLEAN, r \in BOOLEAN : deps = AssembledUndecided(m, s, r)
  BY <1>1, <1>5 DEF AssembledUndecided
<1> QED BY <1>3, <1>4, <1>5 DEF Dependencies

\* No sequence of commands, faults and recoveries sends an order the operator
\* did not sign for, however the session was built (validate_live_startup,
\* blocked_reason).
THEOREM SessionOrdersApproved == SessionSpec => OrdersApproved
<1>1. GateInv /\ [SessionNext]_sessionVars =>
        [Sends => /\ deps.mode = "LIVE" =>
                       /\ deps.approval.capital /\ deps.approval.allowLive
                       /\ ~deps.approval.observationOnly
                  /\ deps.mode = "PAPER_BROKER" => deps.decision # NoDecision
                  /\ deps.mode \in {"LIVE_OBSERVATION", "OBSERVATION", "BACKTEST"} =>
                       deps.decision = NoDecision]_sessionVars
  BY OnlyBarsSend, ApprovedIfAllowed DEF GateInv, NotBlocked
<1> QED BY <1>1, GateInvInit, GateInvStep, PTL DEF SessionSpec, OrdersApproved

-----------------------------------------------------------------------------
(***************************************************************************)
(* Type correctness, supervisor included.                                  *)
(***************************************************************************)
\* Everything the dependencies can be built from is well typed
\* (RuntimeSessionBuilder, RuntimeSessionDependencies).
LEMMA DependenciesTyped ==
    ASSUME NEW d \in Dependencies
    PROVE  d \in [mode : RuntimeMode, approval : Approval, decision : Decision \cup {NoDecision},
                  submission : BOOLEAN, reconciler : BOOLEAN]
<1>1. ASSUME NEW m \in RuntimeMode, NEW a \in Approval, d = Built(m, a)
      PROVE  d \in [mode : RuntimeMode, approval : Approval, decision : Decision \cup {NoDecision},
                    submission : BOOLEAN, reconciler : BOOLEAN]
  BY <1>1, DecisionType DEF Built
<1>2. ASSUME NEW m \in RuntimeMode, NEW a \in Approval, NEW e \in BOOLEAN, NEW r \in BOOLEAN,
             d = Assembled(m, a, e, r)
      PROVE  d \in [mode : RuntimeMode, approval : Approval, decision : Decision \cup {NoDecision},
                    submission : BOOLEAN, reconciler : BOOLEAN]
  BY <1>2, DecisionType DEF Assembled
<1>3. ASSUME NEW m \in RuntimeMode, NEW e \in BOOLEAN, NEW r \in BOOLEAN,
             d = AssembledUndecided(m, e, r)
      PROVE  d \in [mode : RuntimeMode, approval : Approval, decision : Decision \cup {NoDecision},
                    submission : BOOLEAN, reconciler : BOOLEAN]
  BY <1>3 DEF AssembledUndecided, Unsigned, Approval
<1> QED BY <1>1, <1>2, <1>3 DEF Dependencies

\* Recording a failure, or the clock's tick, keeps the supervisor well typed
\* (ActorSupervisor.handle_failure).
LEMMA SupervisorStep ==
    ASSUME SupervisorTypeOK,
           \/ Tick \/ UNCHANGED supervisorVars
           \/ \E a \in Actors : Tell(a) \/ \E r \in BOOLEAN : HandleFailure(a, r)
    PROVE  SupervisorTypeOK'
<1>1. CASE Tick
  BY <1>1, PolicyAssumption DEF Tick, SupervisorTypeOK
<1>2. CASE UNCHANGED supervisorVars
  BY <1>2 DEF supervisorVars, SupervisorTypeOK
<1>3. ASSUME NEW a \in Actors, Tell(a) PROVE SupervisorTypeOK'
  BY <1>3 DEF Tell, SupervisorTypeOK
<1>4. ASSUME NEW a \in Actors, NEW r \in BOOLEAN, HandleFailure(a, r) PROVE SupervisorTypeOK'
  <2>1. ShouldRestart(a, r) \in BOOLEAN
    BY DEF ShouldRestart
  <2>2. [at |-> now, restarted |-> ShouldRestart(a, r)] \in Failure
    BY <2>1 DEF SupervisorTypeOK, Failure
  <2>3. failures' \in [Actors -> Seq(Failure)]
    BY <1>4, <2>2 DEF HandleFailure, SupervisorTypeOK
  <2> QED BY <1>4, <2>3 DEF HandleFailure, SupervisorTypeOK
<1> QED BY <1>1, <1>2, <1>3, <1>4

\* Every call keeps the session and its supervisor well typed.
THEOREM SessionTypeCorrect == SessionSpec => []SessionTypeOK
<1>1. SessionInit => SessionTypeOK
  <2> SUFFICES ASSUME SessionInit PROVE SessionTypeOK
    OBVIOUS
  <2>1. failures \in [Actors -> Seq(Failure)]
    BY DEF SessionInit, SupervisorInit
  <2>2. SupervisorTypeOK
    BY <2>1, PolicyAssumption DEF SessionInit, SupervisorInit, SupervisorTypeOK
  <2>3. sent \in 0..MaxOrders
    BY SessionAssumption DEF SessionInit
  <2> QED BY <2>2, <2>3, DependenciesTyped DEF SessionInit, SessionTypeOK, RuntimeSessionState
<1>2. SessionTypeOK /\ [SessionNext]_sessionVars => SessionTypeOK'
  <2> SUFFICES ASSUME SessionTypeOK, [SessionNext]_sessionVars PROVE SessionTypeOK'
    OBVIOUS
  <2>1. SupervisorTypeOK'
    BY SupervisorStep DEF SessionTypeOK, SessionNext, sessionVars, Start, Reconcile, Command,
       ActivateKillSwitch, Rollback, DeactivateKillSwitch, OnBrokerDisconnect, OnBrokerReconnect,
       OnActorFailure, OnMarketDataDegraded, OnMarketData, Supervised
  <2>2. deps' = deps
    BY DEF SessionNext, sessionVars, Start, Reconcile, Command, ActivateKillSwitch, Rollback,
       DeactivateKillSwitch, OnBrokerDisconnect, OnBrokerReconnect, OnActorFailure,
       OnMarketDataDegraded, OnMarketData, Supervised
  <2>3. sent' \in 0..MaxOrders
    <3>1. CASE OnMarketData
      BY <3>1, SessionAssumption DEF OnMarketData, SessionTypeOK
    <3>2. CASE ~OnMarketData
      <4>1. sent' = sent
        BY <3>2 DEF SessionNext, sessionVars, Start, Reconcile, Command, ActivateKillSwitch,
           Rollback, DeactivateKillSwitch, OnBrokerDisconnect, OnBrokerReconnect,
           OnActorFailure, OnMarketDataDegraded, Supervised
      <4> QED BY <4>1 DEF SessionTypeOK
    <3> QED BY <3>1, <3>2
  <2>4. state' \in RuntimeSessionState
    <3>1. CASE Reconcile
      BY <3>1, RecoverTarget DEF Reconcile, SessionTypeOK, RuntimeSessionState
    <3>2. ASSUME NEW c \in LifecycleCommand, Command(c) PROVE state' \in RuntimeSessionState
      BY <3>2, CommandTarget DEF Command, SessionTypeOK
    <3> QED BY <3>1, <3>2 DEF SessionTypeOK, SessionNext, sessionVars, Start,
       ActivateKillSwitch, Rollback, DeactivateKillSwitch, OnBrokerDisconnect, OnBrokerReconnect,
       OnActorFailure, OnMarketDataDegraded, OnMarketData, Supervised, DegradeIfActive, Degraded,
       RuntimeSessionState
  <2>5. killSwitch' \in BOOLEAN /\ killed' \in BOOLEAN /\ fault' \in BOOLEAN
        /\ reconciled' \in BOOLEAN /\ held' \in BOOLEAN
    BY DEF SessionTypeOK, SessionNext, sessionVars, histories, Start, Reconcile, Command,
       ActivateKillSwitch, Rollback, DeactivateKillSwitch, OnBrokerDisconnect, OnBrokerReconnect,
       OnActorFailure, OnMarketDataDegraded, OnMarketData, Supervised
  <2> QED BY <2>1, <2>2, <2>3, <2>4, <2>5 DEF SessionTypeOK
<1> QED BY <1>1, <1>2, PTL DEF SessionSpec

-----------------------------------------------------------------------------
(***************************************************************************)
(* The restart budget of the supervisor.                                   *)
(***************************************************************************)
\* Of a failure and the ones before it, the restarted ones within its window.
RestartsUpTo(s, i) == {j \in 1..i : s[j].restarted /\ s[j].at > s[i].at - Window}

WithinBudget(s) ==
    \A i \in DOMAIN s : s[i].restarted => Cardinality(RestartsUpTo(s, i)) <= MaxRestarts

\* A failure recorded with the decision of should_restart keeps the budget: a
\* restart within the window was a failure within the window.
LEMMA AppendKeepsBudget ==
    ASSUME NEW s \in Seq(Failure), WithinBudget(s), NEW t \in 0..MaxTime, NEW b \in BOOLEAN,
           b => Cardinality({i \in DOMAIN s : s[i].at > t - Window}) < MaxRestarts
    PROVE  WithinBudget(Append(s, [at |-> t, restarted |-> b]))
<1> DEFINE e == [at |-> t, restarted |-> b]
           u == Append(s, e)
           n == Len(s)
<1>1. /\ n \in Nat /\ DOMAIN s = 1..n /\ DOMAIN u = 1..(n + 1)
      /\ u[n + 1] = e /\ \A j \in 1..n : u[j] = s[j]
  <2>1. e \in Failure
    BY DEF Failure
  <2> QED BY <2>1
<1> HIDE DEF u, n
<1> SUFFICES ASSUME NEW i \in DOMAIN u, u[i].restarted
             PROVE  Cardinality(RestartsUpTo(u, i)) <= MaxRestarts
  BY DEF WithinBudget, u
<1>2. CASE i \in 1..n
  <2>1. RestartsUpTo(u, i) = RestartsUpTo(s, i)
    BY <1>1, <1>2 DEF RestartsUpTo
  <2> QED BY <1>1, <1>2, <2>1 DEF WithinBudget
<1>3. CASE i = n + 1
  <2> DEFINE W == {j \in DOMAIN s : s[j].at > t - Window}
  <2>1. b /\ Cardinality(W) < MaxRestarts
    BY <1>1, <1>3 DEF e
  <2>2. IsFiniteSet(W)
    <3>1. 1 \in Int /\ n \in Int
      BY <1>1
    <3>2. IsFiniteSet(1..n)
      BY <3>1, FS_Interval, Zenon
    <3> QED BY <1>1, <3>2, FS_Subset
  <2>3. n + 1 \notin W
    BY <1>1
  <2>4. IsFiniteSet(W \cup {n + 1}) /\ Cardinality(W \cup {n + 1}) = Cardinality(W) + 1
    BY <2>2, <2>3, FS_AddElement
  <2>5. RestartsUpTo(u, i) \subseteq W \cup {n + 1}
    BY <1>1, <1>3 DEF RestartsUpTo, e
  <2>6. Cardinality(RestartsUpTo(u, i)) <= Cardinality(W \cup {n + 1})
    BY <2>4, <2>5, FS_Subset
  <2>7. Cardinality(W) \in Nat /\ Cardinality(RestartsUpTo(u, i)) \in Nat
    BY <2>2, <2>4, <2>5, FS_Subset, FS_CardinalityType
  <2> HIDE DEF W
  <2> QED BY <2>1, <2>4, <2>6, <2>7, PolicyAssumption
<1> QED BY <1>1, <1>2, <1>3

\* No actor is restarted more than max_restarts times within any window, for
\* any policy, actors and sequence of failures (RestartPolicy.should_restart).
THEOREM SessionRestartBudget == SessionSpec => []RestartBudget
<1>1. RestartBudget <=> \A a \in Actors : WithinBudget(failures[a])
  BY DEF RestartBudget, WithinBudget, RestartsUpTo
<1>2. SessionInit => RestartBudget
  BY DEF SessionInit, SupervisorInit, RestartBudget
<1>3. SessionTypeOK /\ RestartBudget /\ [SessionNext]_sessionVars => RestartBudget'
  <2> SUFFICES ASSUME SessionTypeOK, RestartBudget, [SessionNext]_sessionVars
               PROVE  \A a \in Actors : WithinBudget(failures'[a])
    BY DEF RestartBudget, WithinBudget, RestartsUpTo
  <2>1. \A a \in Actors : WithinBudget(failures[a])
    BY <1>1
  <2>2. failures \in [Actors -> Seq(Failure)] /\ now \in 0..MaxTime
    BY DEF SessionTypeOK, SupervisorTypeOK
  <2>3. ASSUME NEW a \in Actors, NEW r \in BOOLEAN, OnActorFailure(a, r)
        PROVE  \A c \in Actors : WithinBudget(failures'[c])
    <3> DEFINE b == ShouldRestart(a, r)
    <3>1. b \in BOOLEAN
      BY DEF ShouldRestart
    <3>2. b => Cardinality({i \in DOMAIN failures[a] : failures[a][i].at > now - Window})
                 < MaxRestarts
      BY DEF ShouldRestart, RestartsWithinWindow
    <3>3. failures' = [failures EXCEPT ![a] = Append(@, [at |-> now, restarted |-> b])]
      BY <2>3 DEF OnActorFailure, HandleFailure
    <3> HIDE DEF b
    <3>4. failures[a] \in Seq(Failure)
      BY <2>2
    <3>5. WithinBudget(Append(failures[a], [at |-> now, restarted |-> b]))
      BY <2>1, <2>2, <3>1, <3>2, <3>4, AppendKeepsBudget
    <3> QED BY <2>1, <2>2, <3>3, <3>5
  <2>4. CASE failures' = failures
    BY <2>1, <2>4
  <2> QED BY <2>3, <2>4 DEF SessionNext, sessionVars, supervisorVars, Start, Reconcile, Command,
       ActivateKillSwitch, Rollback, DeactivateKillSwitch, OnBrokerDisconnect, OnBrokerReconnect,
       OnMarketDataDegraded, OnMarketData, Supervised, Tick, Tell
<1> QED BY <1>2, <1>3, SessionTypeCorrect, PTL DEF SessionSpec

-----------------------------------------------------------------------------
(***************************************************************************)
(* Sums over the instruments, by well-founded induction on finite sets.    *)
(***************************************************************************)

\* One step of adding up f: the element chosen first, and the sum g of the rest.
Added(f, g) ==
    [s \in SUBSET DOMAIN f |->
        IF s = {} THEN 0
        ELSE f[CHOOSE x \in s : TRUE] + g[s \ {CHOOSE x \in s : TRUE}]]

\* SumFunction, with the definitions it is made of expanded.
LEMMA SumUnfolds ==
    ASSUME NEW f
    PROVE  SumFunction(f) = (CHOOSE g : g = Added(f, g))[DOMAIN f]
BY Zenon DEF SumFunction, SumFunctionOnSet, FoldFunctionOnSet, MapThenFoldSet, Added

\* Among sets of subsets of a finite set there is a smallest one.
LEMMA SmallestSubset ==
    ASSUME NEW D, IsFiniteSet(D), NEW B, B \subseteq SUBSET D, B # {}
    PROVE  \E T \in B : \A U \in B : U \subseteq T => U = T
<1> DEFINE R == StrictSubsetOrdering(D)
<1>1. IsWellFoundedOn(R, FiniteSubsetsOf(D))
  BY FS_StrictSubsetOrderingWellFounded
<1>2. B \subseteq FiniteSubsetsOf(D)
  BY FS_Subset DEF FiniteSubsetsOf
<1>3. \E T \in B : \A U \in B : ~(<<U, T>> \in R)
  <2> HIDE DEF R
  <2> QED BY <1>1, <1>2, WFMin
<1> QED BY <1>3 DEF StrictSubsetOrdering

\* Among natural numbers there is a least one.
LEMMA LeastNumber ==
    ASSUME NEW S, S \subseteq Nat, S # {}
    PROVE  \E n \in S : \A m \in S : n <= m
<1> DEFINE R == OpToRel(<, Nat)
<1>1. IsWellFoundedOn(R, Nat)
  BY NatLessThanWellFounded
<1>2. \E n \in S : \A m \in S : ~(<<m, n>> \in R)
  <2> HIDE DEF R
  <2> QED BY <1>1, WFMin
<1>3. PICK n \in S : \A m \in S : ~(<<m, n>> \in R)
  BY <1>2
<1>4. ASSUME NEW m \in S PROVE n <= m
  <2>1. ~(m < n) /\ m \in Nat /\ n \in Nat
    BY <1>3 DEF OpToRel
  <2> QED BY <2>1
<1> QED BY <1>4

\* g adds up f over every subset.
AddsUp(f, g) ==
    /\ g \in [SUBSET DOMAIN f -> Int]
    /\ g[{}] = 0
    /\ \A s \in SUBSET DOMAIN f : s # {} =>
          g[s] = f[CHOOSE x \in s : TRUE] + g[s \ {CHOOSE x \in s : TRUE}]

\* There is such a g: the subsets of n elements follow from those of n - 1.
LEMMA SumExists ==
    ASSUME NEW D, IsFiniteSet(D), NEW f \in [D -> Int]
    PROVE  \E g : AddsUp(f, g)
<1> DEFINE Small(n) == {s \in SUBSET D : Cardinality(s) <= n}
           First(s) == CHOOSE x \in s : TRUE
           Rec(h, n) == /\ h \in [Small(n) -> Int]
                        /\ \A s \in Small(n) : h[s] = IF s = {} THEN 0 ELSE f[First(s)] + h[s \ {First(s)}]
           Bad == {n \in Nat : ~ \E h : Rec(h, n)}
<1>1. \A s \in SUBSET D : IsFiniteSet(s) /\ Cardinality(s) \in Nat
  BY FS_Subset, FS_CardinalityType
<1>2. \A s \in SUBSET D : s # {} =>
        /\ First(s) \in s /\ First(s) \in D
        /\ s \ {First(s)} \in SUBSET D
        /\ Cardinality(s \ {First(s)}) = Cardinality(s) - 1
  <2> SUFFICES ASSUME NEW s \in SUBSET D, s # {}
               PROVE  /\ First(s) \in s /\ First(s) \in D
                      /\ s \ {First(s)} \in SUBSET D
                      /\ Cardinality(s \ {First(s)}) = Cardinality(s) - 1
    OBVIOUS
  <2>1. First(s) \in s
    OBVIOUS
  <2>2. Cardinality(s \ {First(s)}) = Cardinality(s) - 1
    BY <1>1, <2>1, FS_RemoveElement
  <2> QED BY <2>1, <2>2
<1>3. Cardinality({}) = 0 /\ \A s \in SUBSET D : Cardinality(s) = 0 => s = {}
  BY <1>1, FS_EmptySet
<1> HIDE DEF First
<1>4. Bad = {}
  <2> SUFFICES ASSUME Bad # {} PROVE FALSE
    OBVIOUS
  <2>1. PICK n \in Bad : \A m \in Bad : n <= m
    <3>1. Bad \subseteq Nat
      OBVIOUS
    <3> HIDE DEF Bad
    <3> QED BY <3>1, LeastNumber
  <2>2. n \in Nat /\ ~ \E h : Rec(h, n)
    OBVIOUS
  <2>3. CASE n = 0
    <3>1. \A s \in Small(0) : s = {}
      BY <1>1, <1>3
    <3>2. Rec([s \in Small(0) |-> 0], 0)
      BY <3>1
    <3> QED BY <2>2, <2>3, <3>2
  <2>4. CASE n # 0
    <3>1. n - 1 \in Nat /\ n - 1 \notin Bad
      <4>1. n - 1 \in Nat /\ ~(n <= n - 1)
        BY <2>2, <2>4
      <4> HIDE DEF Bad
      <4> QED BY <2>1, <4>1
    <3>2. PICK h : Rec(h, n - 1)
      BY <3>1
    <3> DEFINE k == [s \in Small(n) |-> IF s = {} THEN 0 ELSE f[First(s)] + h[s \ {First(s)}]]
    <3>3. \A s \in Small(n) : s # {} => s \ {First(s)} \in Small(n - 1) /\ s \ {First(s)} \in Small(n)
      <4> SUFFICES ASSUME NEW s \in SUBSET D, Cardinality(s) <= n, s # {}
                   PROVE  s \ {First(s)} \in Small(n - 1) /\ s \ {First(s)} \in Small(n)
        OBVIOUS
      <4>1. Cardinality(s \ {First(s)}) = Cardinality(s) - 1 /\ s \ {First(s)} \in SUBSET D
        BY <1>2
      <4>2. Cardinality(s) \in Nat
        BY <1>1
      <4>3. Cardinality(s \ {First(s)}) <= n - 1 /\ Cardinality(s \ {First(s)}) <= n
        BY <2>2, <4>1, <4>2
      <4> QED BY <4>1, <4>3
    <3>4. h \in [Small(n - 1) -> Int] /\ \A s \in Small(n - 1) : h[s] = IF s = {} THEN 0 ELSE f[First(s)] + h[s \ {First(s)}]
      BY <3>2
    <3>5. \A s \in Small(n - 1) : s \in Small(n)
      BY <1>1, <2>2
    <3>6. \A s \in Small(n) : s # {} => f[First(s)] \in Int
      BY <1>2
    <3> HIDE DEF Small
    <3>7. k \in [Small(n) -> Int]
      BY <3>3, <3>4, <3>6
    <3>8. \A s \in Small(n - 1) : k[s] = h[s]
      BY <3>4, <3>5
    <3>9. \A s \in Small(n) : k[s] = IF s = {} THEN 0 ELSE f[First(s)] + k[s \ {First(s)}]
      <4> SUFFICES ASSUME NEW s \in Small(n)
                   PROVE  k[s] = IF s = {} THEN 0 ELSE f[First(s)] + k[s \ {First(s)}]
        OBVIOUS
      <4>1. k[s] = IF s = {} THEN 0 ELSE f[First(s)] + h[s \ {First(s)}]
        OBVIOUS
      <4> HIDE DEF k
      <4> QED BY <3>3, <3>8, <4>1
    <3> HIDE DEF k
    <3>10. Rec(k, n)
      BY <3>7, <3>9
    <3> QED BY <2>2, <3>10
  <2> QED BY <2>3, <2>4
<1>5. Cardinality(D) \in Nat /\ Small(Cardinality(D)) = SUBSET D
  BY <1>1, FS_Subset
<1>6. PICK h : Rec(h, Cardinality(D))
  BY <1>4, <1>5
<1>7. /\ h \in [SUBSET D -> Int]
      /\ \A s \in SUBSET D : h[s] = IF s = {} THEN 0 ELSE f[First(s)] + h[s \ {First(s)}]
  BY <1>5, <1>6
<1>8. DOMAIN f = D
  OBVIOUS
<1>9. AddsUp(f, h)
  BY <1>7, <1>8 DEF AddsUp, First
<1> QED BY <1>9

\* The library's sum of f is the value of such a g at the whole domain.
LEMMA SumAddsUp ==
    ASSUME NEW D, IsFiniteSet(D), NEW f \in [D -> Int]
    PROVE  \E g : AddsUp(f, g) /\ SumFunction(f) = g[D]
<1>1. \A g : AddsUp(f, g) => g = Added(f, g)
  <2> SUFFICES ASSUME NEW g, AddsUp(f, g) PROVE g = Added(f, g)
    OBVIOUS
  <2> DEFINE First(s) == CHOOSE x \in s : TRUE
  <2>1. g \in [SUBSET D -> Int] /\ DOMAIN f = D
    BY DEF AddsUp
  <2>2. \A s \in SUBSET D : g[s] = IF s = {} THEN 0 ELSE f[First(s)] + g[s \ {First(s)}]
    BY <2>1 DEF AddsUp
  <2>3. Added(f, g) = [s \in SUBSET D |-> IF s = {} THEN 0 ELSE f[First(s)] + g[s \ {First(s)}]]
    BY <2>1 DEF Added
  <2> HIDE DEF First
  <2> QED BY <2>1, <2>2, <2>3
<1> DEFINE G == CHOOSE g : g = Added(f, g)
<1>2. G = Added(f, G)
  <2>1. \E g : g = Added(f, g)
    BY <1>1, SumExists
  <2> QED BY <2>1, Zenon
<1>3. SumFunction(f) = G[D]
  <2>1. DOMAIN f = D
    OBVIOUS
  <2>2. SumFunction(f) = G[DOMAIN f]
    BY SumUnfolds
  <2> HIDE DEF G
  <2> QED BY <2>1, <2>2
<1>4. AddsUp(f, G)
  <2> HIDE DEF G
  <2> DEFINE First(s) == CHOOSE x \in s : TRUE
             Bad == {s \in SUBSET D : G[s] \notin Int}
  <2>1. DOMAIN f = D
    OBVIOUS
  <2>2. /\ G = [s \in SUBSET D |-> G[s]]
        /\ \A s \in SUBSET D : G[s] = IF s = {} THEN 0 ELSE f[First(s)] + G[s \ {First(s)}]
    BY <1>2, <2>1 DEF Added
  <2>3. Bad = {}
    <3> SUFFICES ASSUME Bad # {} PROVE FALSE
      OBVIOUS
    <3>1. PICK T \in Bad : \A U \in Bad : U \subseteq T => U = T
      <4>1. Bad \subseteq SUBSET D
        OBVIOUS
      <4> HIDE DEF Bad
      <4> QED BY <4>1, SmallestSubset
    <3>2. T # {}
      <4>1. G[{}] = 0
        BY <2>2
      <4> QED BY <4>1
    <3>3. First(T) \in T
      BY <3>2
    <3> DEFINE U == T \ {First(T)}
    <3>4. U \in SUBSET D /\ U \subseteq T /\ U # T
      BY <3>3
    <3>5. G[U] \in Int
      BY <3>1, <3>4
    <3>6. G[T] = f[First(T)] + G[U] /\ f[First(T)] \in Int
      BY <2>2, <3>2, <3>3
    <3> QED BY <3>5, <3>6
  <2>4. G \in [SUBSET D -> Int]
    BY <2>2, <2>3
  <2> QED BY <2>1, <2>2, <2>4 DEF AddsUp
<1> HIDE DEF G
<1> QED BY <1>3, <1>4

\* Sums of whole numbers are whole numbers.
LEMMA SumType ==
    ASSUME NEW D, IsFiniteSet(D), NEW f \in [D -> Int]
    PROVE  SumFunction(f) \in Int
<1>1. PICK g : AddsUp(f, g) /\ SumFunction(f) = g[D]
  BY SumAddsUp
<1> QED BY <1>1 DEF AddsUp

\* A sum follows a change of one of its terms.
LEMMA SumUpdate ==
    ASSUME NEW D, IsFiniteSet(D), NEW f \in [D -> Int], NEW g \in [D -> Int],
           NEW i \in D, \A x \in D : x # i => g[x] = f[x]
    PROVE  SumFunction(g) = SumFunction(f) - f[i] + g[i]
<1>1. PICK F : AddsUp(f, F) /\ SumFunction(f) = F[D]
  BY SumAddsUp
<1>2. PICK G : AddsUp(g, G) /\ SumFunction(g) = G[D]
  BY SumAddsUp
<1> DEFINE First(s) == CHOOSE x \in s : TRUE
           Change(s) == IF i \in s THEN g[i] - f[i] ELSE 0
           Bad == {s \in SUBSET D : G[s] # F[s] + Change(s)}
<1>3. /\ F \in [SUBSET D -> Int] /\ F[{}] = 0
      /\ \A s \in SUBSET D : s # {} => F[s] = f[First(s)] + F[s \ {First(s)}]
  BY <1>1 DEF AddsUp
<1>4. /\ G \in [SUBSET D -> Int] /\ G[{}] = 0
      /\ \A s \in SUBSET D : s # {} => G[s] = g[First(s)] + G[s \ {First(s)}]
  BY <1>2 DEF AddsUp
<1>5. \A s \in SUBSET D : s # {} => First(s) \in s
  OBVIOUS
<1> HIDE DEF First
<1>6. Bad = {}
  <2> SUFFICES ASSUME Bad # {} PROVE FALSE
    OBVIOUS
  <2>1. PICK T \in Bad : \A U \in Bad : U \subseteq T => U = T
    <3>1. Bad \subseteq SUBSET D
      OBVIOUS
    <3> HIDE DEF Bad
    <3> QED BY <3>1, SmallestSubset
  <2>2. T \in SUBSET D /\ G[T] # F[T] + Change(T)
    OBVIOUS
  <2>3. T # {}
    <3>1. G[{}] = F[{}] + Change({})
      BY <1>3, <1>4
    <3> HIDE DEF Change
    <3> QED BY <2>2, <3>1
  <2> DEFINE x == First(T)
             U == T \ {x}
  <2>4. x \in T /\ x \in D /\ U \in SUBSET D /\ U \subseteq T /\ U # T
    BY <1>5, <2>2, <2>3
  <2>5. U \notin Bad
    <3> HIDE DEF Bad, U
    <3> QED BY <2>1, <2>4
  <2>6. G[U] = F[U] + Change(U) /\ G[U] \in Int /\ F[U] \in Int
    BY <1>3, <1>4, <2>4, <2>5
  <2>7. G[T] = g[x] + G[U] /\ F[T] = f[x] + F[U] /\ f[x] \in Int /\ g[x] \in Int
    BY <1>3, <1>4, <2>2, <2>3, <2>4
  <2>8. /\ x = i => Change(T) = g[i] - f[i] /\ Change(U) = 0
        /\ x # i => Change(T) = Change(U) /\ g[x] = f[x]
    BY <2>4
  <2>9. f[i] \in Int /\ g[i] \in Int /\ Change(U) \in Int
    OBVIOUS
  <2> HIDE DEF Change, x, U
  <2>10. CASE x = i
    BY <2>2, <2>6, <2>7, <2>8, <2>9, <2>10
  <2>11. CASE x # i
    BY <2>2, <2>6, <2>7, <2>8, <2>9, <2>11
  <2> QED BY <2>10, <2>11
<1>7. G[D] = F[D] + Change(D)
  BY <1>6
<1>8. f[i] \in Int /\ g[i] \in Int /\ F[D] \in Int
  BY <1>3
<1> QED BY <1>1, <1>2, <1>7, <1>8

\* A sum of zeros is zero.
LEMMA SumOfZeros ==
    ASSUME NEW D, IsFiniteSet(D), NEW f \in [D -> Int], \A x \in D : f[x] = 0
    PROVE  SumFunction(f) = 0
<1>1. PICK F : AddsUp(f, F) /\ SumFunction(f) = F[D]
  BY SumAddsUp
<1> DEFINE First(s) == CHOOSE x \in s : TRUE
           Bad == {s \in SUBSET D : F[s] # 0}
<1>2. /\ F \in [SUBSET D -> Int] /\ F[{}] = 0
      /\ \A s \in SUBSET D : s # {} => F[s] = f[First(s)] + F[s \ {First(s)}]
  BY <1>1 DEF AddsUp
<1>3. \A s \in SUBSET D : s # {} => First(s) \in s
  OBVIOUS
<1> HIDE DEF First
<1>4. Bad = {}
  <2> SUFFICES ASSUME Bad # {} PROVE FALSE
    OBVIOUS
  <2>1. PICK T \in Bad : \A U \in Bad : U \subseteq T => U = T
    <3>1. Bad \subseteq SUBSET D
      OBVIOUS
    <3> HIDE DEF Bad
    <3> QED BY <3>1, SmallestSubset
  <2>2. T \in SUBSET D /\ F[T] # 0 /\ T # {}
    BY <1>2
  <2> DEFINE x == First(T)
             U == T \ {x}
  <2>3. x \in T /\ x \in D /\ U \in SUBSET D /\ U \subseteq T /\ U # T
    BY <1>3, <2>2
  <2>4. F[U] = 0
    BY <2>1, <2>3
  <2>5. F[T] = f[x] + F[U]
    BY <1>2, <2>2
  <2> QED BY <2>2, <2>3, <2>4, <2>5
<1> QED BY <1>1, <1>4

\* The sum of a - b + c is the sum of a, less that of b, plus that of c.
LEMMA SumCombined ==
    ASSUME NEW D, IsFiniteSet(D), NEW f \in [D -> Int], NEW a \in [D -> Int],
           NEW b \in [D -> Int], NEW c \in [D -> Int],
           \A x \in D : f[x] = a[x] - b[x] + c[x]
    PROVE  SumFunction(f) = SumFunction(a) - SumFunction(b) + SumFunction(c)
<1>1. PICK F : AddsUp(f, F) /\ SumFunction(f) = F[D]
  BY SumAddsUp
<1>2. PICK A : AddsUp(a, A) /\ SumFunction(a) = A[D]
  BY SumAddsUp
<1>3. PICK B : AddsUp(b, B) /\ SumFunction(b) = B[D]
  BY SumAddsUp
<1>4. PICK C : AddsUp(c, C) /\ SumFunction(c) = C[D]
  BY SumAddsUp
<1> DEFINE First(s) == CHOOSE x \in s : TRUE
           Bad == {s \in SUBSET D : F[s] # A[s] - B[s] + C[s]}
           Sums(h, H) == /\ H \in [SUBSET D -> Int] /\ H[{}] = 0
                         /\ \A s \in SUBSET D : s # {} => H[s] = h[First(s)] + H[s \ {First(s)}]
<1>5. Sums(f, F) /\ Sums(a, A) /\ Sums(b, B) /\ Sums(c, C)
  <2>1. \A h \in [D -> Int] : \A H : AddsUp(h, H) => Sums(h, H)
    BY DEF AddsUp
  <2> HIDE DEF Sums
  <2> QED BY <1>1, <1>2, <1>3, <1>4, <2>1
<1>6. \A s \in SUBSET D : s # {} => First(s) \in s
  OBVIOUS
<1> HIDE DEF First
<1>7. Bad = {}
  <2> SUFFICES ASSUME Bad # {} PROVE FALSE
    OBVIOUS
  <2>1. PICK T \in Bad : \A U \in Bad : U \subseteq T => U = T
    <3>1. Bad \subseteq SUBSET D
      OBVIOUS
    <3> HIDE DEF Bad
    <3> QED BY <3>1, SmallestSubset
  <2>2. T \in SUBSET D /\ F[T] # A[T] - B[T] + C[T]
    OBVIOUS
  <2>3. T # {}
    <3>1. F[{}] = A[{}] - B[{}] + C[{}]
      BY <1>5
    <3> QED BY <2>2, <3>1
  <2> DEFINE x == First(T)
             U == T \ {x}
  <2>4. x \in T /\ x \in D /\ U \in SUBSET D /\ U \subseteq T /\ U # T
    BY <1>6, <2>2, <2>3
  <2>5. U \notin Bad
    <3> HIDE DEF Bad, U
    <3> QED BY <2>1, <2>4
  <2>6. /\ F[U] = A[U] - B[U] + C[U]
        /\ F[U] \in Int /\ A[U] \in Int /\ B[U] \in Int /\ C[U] \in Int
    BY <1>5, <2>4, <2>5
  <2>7. /\ F[T] = f[x] + F[U] /\ A[T] = a[x] + A[U] /\ B[T] = b[x] + B[U] /\ C[T] = c[x] + C[U]
        /\ f[x] \in Int /\ a[x] \in Int /\ b[x] \in Int /\ c[x] \in Int
        /\ f[x] = a[x] - b[x] + c[x]
    BY <1>5, <2>2, <2>3, <2>4
  <2> HIDE DEF x, U
  <2> QED BY <2>2, <2>6, <2>7
<1>8. F[D] = A[D] - B[D] + C[D]
  BY <1>7
<1> QED BY <1>1, <1>2, <1>3, <1>4, <1>8

-----------------------------------------------------------------------------
(***************************************************************************)
(* The account.  Its rules judge each plan by the state in which the       *)
(* intent began, while orders of this and of earlier intents are filled in *)
(* any order.  What carries a limit over is that an instrument has at most *)
(* one order or plan under way, judged by a quantity that can change only  *)
(* through that order, and that a fill at the market's price changes       *)
(* neither the worth of the account nor its session's result.              *)
(***************************************************************************)

\* A set's elements can be listed, each of them once.
LEMMA SetListed ==
    ASSUME NEW S, IsFiniteSet(S)
    PROVE  /\ SetToSeq(S) \in Seq(S)
           /\ \A x \in S : \E i \in DOMAIN SetToSeq(S) : SetToSeq(S)[i] = x
           /\ \A i, j \in DOMAIN SetToSeq(S) : SetToSeq(S)[i] = SetToSeq(S)[j] => i = j
<1> DEFINE n == Cardinality(S)
<1>1. n \in Nat /\ ExistsBijection(1..n, S)
  BY FS_CardinalityType
<1>2. PICK g \in [1..n -> S] : IsInjective(g)
  BY <1>1 DEF ExistsBijection, Bijection, Injection, IsInjective
<1>3. SetToSeq(S) \in [1..n -> S] /\ IsInjective(SetToSeq(S))
  BY <1>2 DEF SetToSeq
<1>4. SetToSeq(S) \in Seq(S) /\ DOMAIN SetToSeq(S) = 1..n
  BY <1>1, <1>3
<1>5. \A i, j \in 1..n : SetToSeq(S)[i] = SetToSeq(S)[j] => i = j
  BY <1>3 DEF IsInjective
<1>6. SetToSeq(S) \in Injection(1..n, S)
  BY <1>3, <1>5 DEF Injection, IsInjective
<1>7. IsFiniteSet(1..n) /\ Cardinality(1..n) = n
  <2>1. 1 \in Int /\ n \in Int
    BY <1>1
  <2>2. Cardinality(1..n) = (IF 1 > n THEN 0 ELSE n - 1 + 1) /\ IsFiniteSet(1..n)
    BY <2>1, FS_Interval, Zenon
  <2> QED BY <1>1, <2>2
<1>8. SetToSeq(S) \in Surjection(1..n, S)
  BY <1>6, <1>7, FS_Injection
<1> QED BY <1>4, <1>5, <1>8 DEF Surjection

Holding == [quantity : Int, cost : Int, realized : Int]
Legs == [instrument : Instruments, delta : Int, price : Prices]

BooksSane ==
    /\ contracts \subseteq Instruments
    /\ contracts # {} => front \in contracts
    /\ price \in [Instruments -> Prices]
    /\ holding \in [Instruments -> Holding]
    /\ cash \in Int /\ paid \in Int /\ paidBefore \in Int
    /\ plans \in Seq(Legs)
    /\ \A o \in open : o.plan \in Legs

\* An intent plans at most once for an instrument.
PlannedOnce ==
    \A j, k \in DOMAIN plans : plans[j].instrument = plans[k].instrument => j = k

PlanInv == BooksSane /\ PlannedOnce

\* A leg that takes its instrument further from flat.
Grows(leg) ==
    Abs(holding[leg.instrument].quantity + leg.delta) > Abs(holding[leg.instrument].quantity)

\* A quotient without remainder.
LEMMA WholeDivision ==
    ASSUME NEW a \in Int, NEW b \in Int, b > 0, a % b = 0
    PROVE  a \div b \in Int /\ b * (a \div b) = a
OBVIOUS

\* From h to k the quantity moves by d, and what is realized, less the cost of what is held,
\* makes up for the price paid.
Moved(h, k, d, p) ==
    /\ k \in Holding
    /\ k.quantity = h.quantity + d
    /\ k.realized - k.quantity * k.cost = h.realized - h.quantity * h.cost - d * p

\* So it does in an increase, a reduction and a flip alike.
LEMMA FillMoves ==
    ASSUME NEW h \in Holding, NEW d \in Int, NEW p \in Int, WholeAverage(h, d, p)
    PROVE  Moved(h, ApplyFill(h, d, p), d, p)
<1> DEFINE k == ApplyFill(h, d, p)
           q == h.quantity
           c == h.cost
           r == h.realized
<1>1. q \in Int /\ c \in Int /\ r \in Int /\ h = [quantity |-> q, cost |-> c, realized |-> r]
  BY DEF Holding
<1>2. ASSUME NEW c2 \in Int, NEW r2 \in Int,
             k = [quantity |-> q + d, cost |-> c2, realized |-> r2],
             r2 - (q + d) * c2 = r - q * c - d * p
      PROVE  Moved(h, k, d, p)
  BY <1>1, <1>2 DEF Holding, Moved
<1> HIDE DEF q, c, r
<1> SUFFICES Moved(h, k, d, p)
  OBVIOUS
<1>q. h.quantity = q /\ h.cost = c /\ h.realized = r
  BY DEF q, c, r
<1>3. CASE q = 0
  <2>1. k = [quantity |-> q + d, cost |-> p, realized |-> r]
    BY <1>1, <1>3, <1>q DEF ApplyFill, Increase
  <2>2. r - (q + d) * p = r - q * c - d * p
    BY <1>1, <1>3
  <2> HIDE DEF k
  <2> QED BY <1>1, <1>2, <2>1, <2>2
<1>4. CASE q # 0 /\ SameSide(q, d)
  <2> DEFINE a == Abs(q) * c + Abs(d) * p
             b == Abs(q + d)
             c2 == a \div b
  <2>1. Abs(q) \in Int /\ Abs(d) \in Int /\ a \in Int /\ b \in Int /\ b > 0
    BY <1>1, <1>4 DEF Abs, SameSide
  <2>2. a % b = 0
    BY <1>4, <1>q DEF WholeAverage
  <2> HIDE DEF a, b
  <2>3. c2 \in Int /\ b * c2 = a
    BY <2>1, <2>2, WholeDivision
  <2>4. k = [quantity |-> q + d, cost |-> c2, realized |-> r]
    BY <1>1, <1>4, <1>q DEF ApplyFill, Increase, a, b
  <2> HIDE DEF c2
  <2>5. (q + d) * c2 = q * c + d * p
    <3>1. CASE q > 0
      <4>1. b = q + d /\ a = q * c + d * p
        BY <1>1, <1>4, <3>1 DEF a, b, Abs, SameSide
      <4> QED BY <2>3, <4>1
    <3>2. CASE q < 0
      <4>1. b = -(q + d) /\ a = (-q) * c + (-d) * p
        BY <1>1, <1>4, <3>2 DEF a, b, Abs, SameSide
      <4>2. (-(q + d)) * c2 = -((q + d) * c2) /\ (-q) * c + (-d) * p = -(q * c + d * p)
        BY <1>1, <2>3
      <4>3. (q + d) * c2 \in Int /\ q * c + d * p \in Int
        BY <1>1, <2>3
      <4> QED BY <2>3, <4>1, <4>2, <4>3
    <3> QED BY <1>1, <1>4, <3>1, <3>2
  <2>6. r - (q + d) * c2 = r - q * c - d * p
    <3>1. q * c \in Int /\ d * p \in Int
      BY <1>1
    <3> QED BY <1>1, <2>5, <3>1
  <2> HIDE DEF k
  <2> QED BY <1>1, <1>2, <2>3, <2>4, <2>6
<1>5. CASE q # 0 /\ ~SameSide(q, d)
  <2> DEFINE x == CloseRealized(h, d, p)
             c2 == IF Abs(d) > Abs(q) THEN p ELSE c
  <2>1. k = [h EXCEPT !.quantity = @ + d, !.realized = @ + x,
                      !.cost = IF Abs(d) > Abs(h.quantity) THEN p ELSE @]
    BY <1>5, <1>q DEF ApplyFill, ReduceOrFlip
  <2> HIDE DEF x, k
  <2>2. k = [quantity |-> q + d, cost |-> c2, realized |-> r + x]
    BY <1>1, <1>q, <2>1
  <2>3. x = Lesser(Abs(q), Abs(d)) * (p - c) * Sign(q)
    BY <1>q DEF x, CloseRealized
  <2>4. CASE Abs(d) > Abs(q)
    <3>1. x = q * (p - c)
      <4>1. x = Abs(q) * (p - c) * Sign(q)
        BY <1>1, <2>3, <2>4 DEF Lesser
      <4>2. (q > 0 => Abs(q) = q /\ Sign(q) = 1) /\ (q < 0 => Abs(q) = -q /\ Sign(q) = -1)
        BY <1>1 DEF Abs, Sign
      <4> QED BY <1>1, <1>5, <4>1, <4>2
    <3>2. x \in Int /\ c2 = p
      BY <1>1, <2>4, <3>1
    <3>3. (r + x) - (q + d) * p = r - q * c - d * p
      BY <1>1, <3>1
    <3> HIDE DEF c2
    <3> QED BY <1>1, <1>2, <2>2, <3>2, <3>3
  <2>5. CASE ~(Abs(d) > Abs(q))
    <3>1. x = -(d * (p - c))
      <4>1. x = Abs(d) * (p - c) * Sign(q)
        BY <1>1, <2>3, <2>5 DEF Lesser, Abs
      <4>2. (q > 0 => Abs(d) = -d /\ Sign(q) = 1) /\ (q < 0 => Abs(d) = d /\ Sign(q) = -1)
        BY <1>1, <1>5 DEF Abs, Sign, SameSide
      <4> QED BY <1>1, <1>5, <4>1, <4>2
    <3>2. x \in Int /\ c2 = c
      BY <1>1, <2>5, <3>1
    <3>3. (r + x) - (q + d) * c = r - q * c - d * p
      BY <1>1, <3>1
    <3> HIDE DEF c2
    <3> QED BY <1>1, <1>2, <2>2, <3>2, <3>3
  <2> QED BY <2>4, <2>5
<1> QED BY <1>1, <1>3, <1>4, <1>5

\* The legs of an intent are for different instruments, at the marks it was given, and only the
\* one for the instrument it trades can grow.
LEMMA PlansDiffer ==
    ASSUME BooksSane, NEW asset, NEW target \in Int, NEW mark,
           asset = Future => contracts # {},
           asset # Future => asset \in Instruments,
           \A i \in Instruments : asset # Future \/ i \in contracts => mark[i] \in Prices
    PROVE  LET built == BuildPlans(asset, target, mark)
           IN  /\ built \in Seq(Legs)
               /\ \A j, k \in DOMAIN built : built[j].instrument = built[k].instrument => j = k
               /\ \A k \in DOMAIN built : built[k].price = mark[built[k].instrument]
               /\ \A j, k \in DOMAIN built : Grows(built[j]) /\ Grows(built[k]) => j = k
<1> DEFINE traded == IF asset = Future THEN front ELSE asset
           left == {c \in contracts \ {front} : asset = Future /\ holding[c].quantity # 0}
           leave == SetToSeq(left)
           n == Len(leave)
           first == [k \in 1..n |-> Plan(leave[k], 0, mark)]
           rest == IF target = holding[traded].quantity THEN <<>>
                   ELSE <<Plan(traded, target, mark)>>
           built == BuildPlans(asset, target, mark)
<1>1. built = first \o rest
  BY DEF BuildPlans
<1>2. traded \in Instruments /\ left \subseteq Instruments /\ traded \notin left
  BY DEF BooksSane
<1>m. mark[traded] \in Prices /\ \A c \in left : mark[c] \in Prices
  BY <1>2 DEF BooksSane
<1>3. IsFiniteSet(left)
  <2>1. IsFiniteSet(Instruments)
    BY RiskAssumption
  <2> HIDE DEF left
  <2> QED BY <1>2, <2>1, FS_Subset
<1>4. leave \in Seq(left) /\ \A j, k \in DOMAIN leave : leave[j] = leave[k] => j = k
  <2> HIDE DEF left
  <2> QED BY <1>3, SetListed
<1> HIDE DEF left, leave, traded, built
<1>5. /\ n \in Nat /\ DOMAIN leave = 1..n
      /\ \A k \in 1..n : leave[k] \in Instruments /\ leave[k] # traded /\ mark[leave[k]] \in Prices
  BY <1>2, <1>4, <1>m
<1>6. ASSUME NEW i \in Instruments, NEW t \in Int, mark[i] \in Prices
      PROVE  /\ Plan(i, t, mark) \in Legs
             /\ Plan(i, t, mark).instrument = i /\ Plan(i, t, mark).price = mark[i]
             /\ ~Grows(Plan(i, 0, mark))
  <2>1. holding[i].quantity \in Int
    BY DEF BooksSane, Holding
  <2>2. /\ Plan(i, t, mark) \in Legs
        /\ Plan(i, t, mark).instrument = i /\ Plan(i, t, mark).price = mark[i]
    BY <1>6, <2>1 DEF Plan, Legs
  <2>3. Plan(i, 0, mark).instrument = i /\ Plan(i, 0, mark).delta = 0 - holding[i].quantity
    BY DEF Plan
  <2>4. ~Grows(Plan(i, 0, mark))
    BY <2>1, <2>3 DEF Grows, Abs
  <2> QED BY <2>2, <2>4
<1>7. /\ first \in Seq(Legs) /\ Len(first) = n
      /\ \A k \in 1..n : /\ first[k].instrument = leave[k] /\ first[k].price = mark[leave[k]]
                         /\ ~Grows(first[k])
  <2> HIDE DEF n
  <2>0. \A k \in 1..n : first[k] = Plan(leave[k], 0, mark)
    OBVIOUS
  <2>1. first \in [1..n -> Legs] /\ n \in Nat
    BY <1>5, <1>6
  <2>2. \A k \in 1..n : /\ first[k].instrument = leave[k] /\ first[k].price = mark[leave[k]]
                        /\ ~Grows(first[k])
    <3> HIDE DEF first
    <3> QED BY <1>5, <1>6, <2>0
  <2> QED BY <2>1, <2>2
<1>8. /\ rest \in Seq(Legs) /\ (Len(rest) = 0 \/ Len(rest) = 1)
      /\ Len(rest) = 1 => rest[1].instrument = traded /\ rest[1].price = mark[traded]
  <2>1. CASE target = holding[traded].quantity
    BY <2>1
  <2>2. CASE target # holding[traded].quantity
    <3>1. rest = <<Plan(traded, target, mark)>>
      BY <2>2
    <3>2. /\ Plan(traded, target, mark) \in Legs /\ Plan(traded, target, mark).instrument = traded
          /\ Plan(traded, target, mark).price = mark[traded]
      BY <1>2, <1>6, <1>m
    <3> HIDE DEF rest
    <3> QED BY <3>1, <3>2
  <2> QED BY <2>1, <2>2
<1> HIDE DEF first, rest
<1>9. /\ built \in Seq(Legs) /\ Len(built) = n + Len(rest)
      /\ \A i \in 1..n : built[i] = first[i]
      /\ \A i \in 1..Len(rest) : built[n + i] = rest[i]
  <2>1. first \in Seq(Legs) /\ Len(first) = n /\ rest \in Seq(Legs)
    BY <1>7, <1>8
  <2>2. /\ first \o rest \in Seq(Legs) /\ Len(first \o rest) = Len(first) + Len(rest)
        /\ \A i \in 1..Len(first) : (first \o rest)[i] = first[i]
        /\ \A i \in 1..Len(rest) : (first \o rest)[Len(first) + i] = rest[i]
    BY <2>1
  <2> HIDE DEF n
  <2> QED BY <1>1, <2>1, <2>2, Zenon
<1>10. \A j \in DOMAIN built :
          /\ \/ j \in 1..n /\ built[j].instrument = leave[j] /\ ~Grows(built[j])
             \/ j = n + 1 /\ built[j].instrument = traded
          /\ built[j].price = mark[built[j].instrument]
  <2>1. DOMAIN built = 1..(n + Len(rest))
    BY <1>9
  <2>2. CASE Len(rest) = 0
    BY <1>5, <1>7, <1>9, <2>1, <2>2
  <2>3. CASE Len(rest) = 1
    <3> SUFFICES ASSUME NEW j \in DOMAIN built
                 PROVE  /\ \/ j \in 1..n /\ built[j].instrument = leave[j] /\ ~Grows(built[j])
                           \/ j = n + 1 /\ built[j].instrument = traded
                        /\ built[j].price = mark[built[j].instrument]
      OBVIOUS
    <3>1. j \in 1..n \/ j = n + 1
      BY <1>5, <2>1, <2>3
    <3>2. CASE j \in 1..n
      BY <1>7, <1>9, <3>2
    <3>3. CASE j = n + 1
      BY <1>8, <1>9, <2>3, <3>3
    <3> QED BY <3>1, <3>2, <3>3
  <2> QED BY <1>8, <2>2, <2>3
<1>11. \A j, k \in DOMAIN built : built[j].instrument = built[k].instrument => j = k
  BY <1>4, <1>5, <1>10
<1>12. \A j, k \in DOMAIN built : Grows(built[j]) /\ Grows(built[k]) => j = k
  BY <1>10
<1> QED BY <1>9, <1>10, <1>11, <1>12 DEF built

-----------------------------------------------------------------------------
(***************************************************************************)
(* What the steps do to plans, orders and holdings.                        *)
(***************************************************************************)

MarketStep ==
    \/ \E i \in Instruments, p \in Prices : Bar(i, p)
    \/ \E i \in Instruments : NextSession(i)
    \/ \E c \in contracts : Roll(c)
    \/ UNCHANGED riskVars

\* The market moves and the account does not.
LEMMA MarketFacts ==
    ASSUME PlanInv, MarketStep
    PROVE  /\ UNCHANGED <<contracts, rules, cash, holding, paid, paidBefore, plans, risk, open,
                          marked, grew, overlapped>>
           /\ PlanInv'
<1>1. UNCHANGED <<contracts, rules, cash, holding, paid, paidBefore, plans, risk, open, marked,
                  grew, overlapped>>
  BY DEF MarketStep, Bar, NextSession, Roll, riskVars, market, books
<1>2. price' \in [Instruments -> Prices] /\ (contracts' # {} => front' \in contracts')
  BY DEF MarketStep, Bar, NextSession, Roll, riskVars, market, books, PlanInv, BooksSane
<1> QED BY <1>1, <1>2 DEF PlanInv, BooksSane, PlannedOnce

Intends(asset, b, target) ==
    /\ b \in Instruments /\ target \in Quantities
    /\ asset = Future => contracts # {}
    /\ asset # Future => asset \in Instruments
    /\ StartIntent(asset, b, target)

\* An intent is planned on what is held.
LEMMA IntentFacts ==
    ASSUME PlanInv, NEW asset, NEW b, NEW target, Intends(asset, b, target)
    PROVE  /\ UNCHANGED <<contracts, rules, front, price, session, cash, holding, paid, open>>
           /\ PlanInv'
           /\ \A k \in DOMAIN plans' :
                 /\ risk' = RiskState(Mark(asset, b), session[b])
                 /\ plans'[k].price = Mark(asset, b)[plans'[k].instrument]
           /\ \A j, k \in DOMAIN plans' : Grows(plans'[j]) /\ Grows(plans'[k]) => j = k
<1> DEFINE mark == Mark(asset, b)
           built == BuildPlans(asset, target, mark)
<1>0. b \in Instruments /\ target \in Int /\ StartIntent(asset, b, target)
  BY RiskAssumption DEF Intends
<1>1. \A i \in Instruments : asset # Future \/ i \in contracts => mark[i] \in Prices
  BY <1>0 DEF PlanInv, BooksSane, Mark
<1>2. /\ built \in Seq(Legs)
      /\ \A j, k \in DOMAIN built : built[j].instrument = built[k].instrument => j = k
      /\ \A k \in DOMAIN built : built[k].price = mark[built[k].instrument]
      /\ \A j, k \in DOMAIN built : Grows(built[j]) /\ Grows(built[k]) => j = k
  <2>1. BooksSane /\ (asset = Future => contracts # {}) /\ (asset # Future => asset \in Instruments)
    BY DEF PlanInv, Intends
  <2> HIDE DEF mark
  <2> QED BY <1>0, <1>1, <2>1, PlansDiffer
<1>3. /\ plans' = built
      /\ built # <<>> => risk' = RiskState(mark, session[b])
      /\ paidBefore' = paid
      /\ UNCHANGED <<contracts, rules, front, price, session, cash, holding, paid, open>>
  BY <1>0 DEF StartIntent, market, books
<1> HIDE DEF built, mark
<1>4. PlanInv'
  BY <1>2, <1>3 DEF PlanInv, BooksSane, PlannedOnce
<1>5. \A k \in DOMAIN plans' : risk' = RiskState(mark, session[b]) /\ plans'[k].price = mark[plans'[k].instrument]
  BY <1>2, <1>3
<1> QED BY <1>2, <1>3, <1>4, <1>5 DEF mark

\* A plan leaves the queue, and the rest of it stays or is given up.
LEMMA QueueFacts ==
    ASSUME PlanInv, plans # <<>>,
           \/ plans' = <<>>
           \/ plans' = Tail(plans) /\ (risk' = risk \/ Len(plans) = 1)
    PROVE  /\ plans' \in Seq(Legs)
           /\ \A k \in DOMAIN plans' :
                 /\ k \in Int /\ k + 1 \in DOMAIN plans /\ k + 1 # 1
                 /\ plans'[k] = plans[k + 1] /\ risk' = risk
           /\ PlannedOnce'
<1>1. plans \in Seq(Legs)
  BY DEF PlanInv, BooksSane
<1>2. /\ plans' \in Seq(Legs)
      /\ \A k \in DOMAIN plans' :
            /\ k \in Int /\ k + 1 \in DOMAIN plans /\ k + 1 # 1
            /\ plans'[k] = plans[k + 1] /\ risk' = risk
  <2>1. CASE plans' = <<>>
    BY <2>1
  <2>2. CASE plans' = Tail(plans) /\ (risk' = risk \/ Len(plans) = 1)
    BY <1>1, <2>2
  <2> QED BY <2>1, <2>2
<1>3. PlannedOnce'
  <2> SUFFICES ASSUME NEW j \in DOMAIN plans', NEW k \in DOMAIN plans',
                      plans'[j].instrument = plans'[k].instrument
               PROVE  j = k
    BY DEF PlannedOnce
  <2>1. j + 1 = k + 1
    BY <1>2 DEF PlanInv, PlannedOnce
  <2> QED BY <1>2, <2>1
<1> QED BY <1>2, <1>3

Queued == UNCHANGED <<contracts, rules, front, price, session, cash, holding, paid, paidBefore,
                      calculator, opening, fresh, marked, grew, overlapped>>

\* A plan that is rejected, or given up with the rest of the intent.
LEMMA RejectionFacts ==
    ASSUME PlanInv, RiskRaises \/ RejectPlan
    PROVE  /\ Queued /\ open' = open
           /\ \A k \in DOMAIN plans' :
                 k + 1 \in DOMAIN plans /\ plans'[k] = plans[k + 1] /\ risk' = risk
           /\ PlanInv'
<1>1. Queued /\ open' = open /\ plans # <<>>
  BY DEF RiskRaises, RejectPlan, Queued, market, books, busy
<1>2. \/ plans' = <<>>
      \/ plans' = Tail(plans) /\ (risk' = risk \/ Len(plans) = 1)
  BY DEF RiskRaises, RejectPlan, Proceed
<1>3. /\ plans' \in Seq(Legs) /\ PlannedOnce'
      /\ \A k \in DOMAIN plans' : k + 1 \in DOMAIN plans /\ plans'[k] = plans[k + 1] /\ risk' = risk
  BY <1>1, <1>2, QueueFacts
<1> QED BY <1>1, <1>3 DEF PlanInv, BooksSane, Queued

\* The first plan becomes an order.
LEMMA SubmitFacts ==
    ASSUME PlanInv, SubmitPlan
    PROVE  /\ Queued
           /\ Head(plans) \in Legs /\ Head(plans) = plans[1] /\ 1 \in DOMAIN plans
           /\ ~Rejected(Head(plans))
           /\ \E o : o.plan = Head(plans) /\ open' = open \cup {o}
           /\ \A k \in DOMAIN plans' :
                 /\ k + 1 \in DOMAIN plans /\ k + 1 # 1 /\ plans'[k] = plans[k + 1] /\ risk' = risk
           /\ PlanInv'
<1>1. /\ Queued /\ plans # <<>> /\ ~Rejected(Head(plans))
      /\ plans' = Tail(plans) /\ (risk' = risk \/ Len(plans) = 1)
      /\ open' = open \cup {[intent |-> intents, plan |-> Head(plans)]}
  BY DEF SubmitPlan, Proceed, Queued, market, books, busy
<1>2. plans \in Seq(Legs)
  BY DEF PlanInv, BooksSane
<1>3. Head(plans) \in Legs /\ Head(plans) = plans[1] /\ 1 \in DOMAIN plans
  BY <1>1, <1>2
<1>4. PICK o : o.plan = Head(plans) /\ open' = open \cup {o}
  <2> DEFINE o == [intent |-> intents, plan |-> Head(plans)]
  <2>1. o.plan = Head(plans) /\ open' = open \cup {o}
    BY <1>1
  <2> HIDE DEF o
  <2> QED BY <2>1
<1>5. /\ plans' \in Seq(Legs) /\ PlannedOnce'
      /\ \A k \in DOMAIN plans' :
            /\ k + 1 \in DOMAIN plans /\ k + 1 # 1 /\ plans'[k] = plans[k + 1] /\ risk' = risk
  BY <1>1, QueueFacts
<1>6. PlanInv'
  BY <1>1, <1>3, <1>4, <1>5 DEF PlanInv, BooksSane, Queued
<1> QED BY <1>1, <1>3, <1>4, <1>5, <1>6

\* A fill moves the holding of its own instrument.
LEMMA FillFacts ==
    ASSUME PlanInv, NEW o \in open, NEW p \in {o.plan.price, price[o.plan.instrument]},
           FillOrder(o, p)
    PROVE  /\ UNCHANGED <<contracts, rules, front, price, session, calculator, plans, risk, marked,
                          paidBefore, overlapped, opening>>
           /\ o.plan \in Legs /\ p \in Prices /\ p \in Nat \ {0}
           /\ open' = open \ {o}
           /\ \A i \in Instruments : i # o.plan.instrument => holding'[i] = holding[i]
           /\ Moved(holding[o.plan.instrument], holding'[o.plan.instrument], o.plan.delta, p)
           /\ cash' = cash - o.plan.delta * p - Commission
           /\ paid' = paid + Commission
           /\ grew' = (grew \/ Grows(o.plan))
           /\ fresh' = (fresh /\ p = o.plan.price)
           /\ PlanInv'
<1> DEFINE x == o.plan.instrument
           d == o.plan.delta
           h == ApplyFill(holding[x], d, p)
<1>1. o.plan \in Legs /\ x \in Instruments /\ d \in Int /\ o.plan.price \in Prices
  BY DEF PlanInv, BooksSane, Legs
<1>2. p \in Prices /\ p \in Int /\ p \in Nat \ {0}
  <2>1. price[x] \in Prices
    BY <1>1 DEF PlanInv, BooksSane
  <2>2. p \in Prices
    BY <1>1, <2>1
  <2>3. Prices \subseteq Nat \ {0}
    BY RiskAssumption
  <2> QED BY <2>2, <2>3
<1>3. holding \in [Instruments -> Holding] /\ holding[x] \in Holding
  BY <1>1 DEF PlanInv, BooksSane
<1>4. Moved(holding[x], h, d, p)
  <2>1. WholeAverage(holding[x], d, p)
    BY DEF FillOrder
  <2> QED BY <1>1, <1>2, <1>3, <2>1, FillMoves
<1>5. /\ open' = open \ {o}
      /\ holding' = [holding EXCEPT ![x] = h]
      /\ cash' = cash - d * p - Commission
      /\ paid' = paid + Commission
      /\ fresh' = (fresh /\ p = o.plan.price)
      /\ UNCHANGED <<contracts, rules, front, price, session, calculator, plans, risk, marked,
                     paidBefore, overlapped, opening>>
  BY DEF FillOrder, market
<1>6. grew' = (grew \/ Grows(o.plan))
  BY DEF FillOrder, Grows
<1> HIDE DEF h
<1>7. holding'[x] = h /\ \A i \in Instruments : i # x => holding'[i] = holding[i]
  BY <1>1, <1>3, <1>5
<1>8. holding' \in [Instruments -> Holding]
  <2>1. h \in Holding
    BY <1>4 DEF Moved
  <2> QED BY <1>1, <1>3, <1>5, <2>1
<1>9. cash' \in Int /\ paid' \in Int
  <2>1. cash \in Int /\ paid \in Int /\ Commission \in Int /\ d * p \in Int
    BY <1>1, <1>2, RiskAssumption DEF PlanInv, BooksSane
  <2> QED BY <1>5, <2>1
<1>10. PlanInv'
  BY <1>5, <1>8, <1>9 DEF PlanInv, BooksSane, PlannedOnce
<1> QED BY <1>1, <1>2, <1>4, <1>5, <1>6, <1>7, <1>10

\* The broker drops an order.
LEMMA DropFacts ==
    ASSUME PlanInv, NEW o \in open, DropOrder(o)
    PROVE  Queued /\ open' = open \ {o} /\ UNCHANGED <<plans, risk>> /\ PlanInv'
BY DEF DropOrder, Queued, market, books, PlanInv, BooksSane, PlannedOnce

\* Every step is one of these.
LEMMA RiskSteps ==
    ASSUME [RiskNext]_riskVars
    PROVE  \/ MarketStep
           \/ \E asset, b, target : Intends(asset, b, target)
           \/ RiskRaises \/ RejectPlan \/ SubmitPlan
           \/ \E o \in open : \E p \in {o.plan.price, price[o.plan.instrument]} : FillOrder(o, p)
           \/ \E o \in open : DropOrder(o)
<1>1. \A b \in Instruments, q \in Quantities, i \in Instruments \ contracts :
         StartIntent(i, b, q) => Intends(i, b, q)
  BY RiskAssumption DEF Intends
<1>2. \A b \in Instruments, q \in Quantities :
         contracts # {} /\ StartIntent(Future, b, q) => Intends(Future, b, q)
  BY DEF Intends
<1> QED BY <1>1, <1>2 DEF RiskNext, MarketStep

\* The books are typed and an intent plans once for an instrument.
THEOREM PlanInvariant == RiskSpec => []PlanInv
<1>1. RiskInit => PlanInv
  <2> SUFFICES ASSUME RiskInit PROVE PlanInv
    OBVIOUS
  <2>1. Flat \in Holding
    BY DEF Flat, Holding
  <2>2. holding \in [Instruments -> Holding]
    BY <2>1 DEF RiskInit
  <2>3. contracts \subseteq Instruments /\ (contracts # {} => front \in contracts)
    BY RiskAssumption DEF RiskInit
  <2>4. cash \in Int /\ paid \in Int /\ paidBefore \in Int
    BY RiskAssumption DEF RiskInit
  <2>5. plans = <<>> /\ open = {} /\ price \in [Instruments -> Prices]
    BY DEF RiskInit
  <2> QED BY <2>2, <2>3, <2>4, <2>5 DEF PlanInv, BooksSane, PlannedOnce
<1>2. PlanInv /\ [RiskNext]_riskVars => PlanInv'
  BY RiskSteps, MarketFacts, IntentFacts, RejectionFacts, SubmitFacts, FillFacts, DropFacts
<1> QED BY <1>1, <1>2, PTL DEF RiskSpec

\* The fields of the risk state.
LEMMA RiskStateIs ==
    ASSUME NEW mark, NEW id
    PROVE  /\ RiskState(mark, id).equity = cash + SumFunction(Values(mark))
           /\ RiskState(mark, id).exposure = SumFunction([i \in Instruments |-> Abs(Values(mark)[i])])
           /\ \A i \in Instruments : RiskState(mark, id).quantity[i] = holding[i].quantity
           /\ RiskState(mark, id).pnl = SumFunction([i \in Instruments |->
                                       Realized[i] - Baseline(id)[i] + Unrealized(mark)[i]])
BY Zenon DEF RiskState

-----------------------------------------------------------------------------
(***************************************************************************)
(* The position limit.                                                     *)
(***************************************************************************)

\* An instrument within its limit stays there when its open order is filled, has no
\* second one, and is planned for only while it has none, on the quantity it has.
Covered(i) ==
    /\ Abs(holding[i].quantity) <= MaxPosition
    /\ \A o \in open : o.plan.instrument = i =>
          Abs(holding[i].quantity + o.plan.delta) <= MaxPosition
    /\ \A o, u \in open : o.plan.instrument = i /\ u.plan.instrument = i => o = u
    /\ \A k \in DOMAIN plans : plans[k].instrument = i =>
          i \notin InFlight /\ risk.quantity[i] = holding[i].quantity

LimitInv ==
    "position_limit" \in rules => \A i \in Instruments : Covered(i) \/ i \in overlapped

\* An intent starts on what is held, and counts as overlapped whatever is in flight.
LEMMA IntentCovers ==
    ASSUME PlanInv, LimitInv, NEW asset, NEW b, NEW target, Intends(asset, b, target)
    PROVE  LimitInv'
<1> DEFINE planned == {plans'[k].instrument : k \in DOMAIN plans'}
<1>1. /\ UNCHANGED <<rules, holding, open>>
      /\ \A k \in DOMAIN plans' : risk' = RiskState(Mark(asset, b), session[b])
  BY IntentFacts
<1>2. overlapped' = (planned \cap InFlight) \cup
            {i \in overlapped : i \in InFlight \/ Abs(holding[i].quantity) > MaxPosition}
  BY DEF Intends, StartIntent
<1> SUFFICES ASSUME "position_limit" \in rules, NEW i \in Instruments, i \notin overlapped'
             PROVE  Covered(i)'
  BY <1>1 DEF LimitInv
<1>3. Abs(holding[i].quantity) <= MaxPosition
  <2>1. CASE i \in overlapped
    <3>1. ~(Abs(holding[i].quantity) > MaxPosition)
      BY <1>2, <2>1
    <3>2. holding[i].quantity \in Int /\ MaxPosition \in Nat
      BY RiskAssumption DEF PlanInv, BooksSane, Holding
    <3> QED BY <3>1, <3>2 DEF Abs
  <2>2. CASE i \notin overlapped
    BY <2>2 DEF LimitInv, Covered
  <2> QED BY <2>1, <2>2
<1>4. i \in InFlight => Covered(i)
  BY <1>2 DEF LimitInv
<1>5. \A o \in open : o.plan.instrument = i => i \in InFlight
  BY DEF InFlight
<1>6. \A k \in DOMAIN plans' : plans'[k].instrument = i =>
         i \notin InFlight /\ risk'.quantity[i] = holding[i].quantity
  <2>1. \A k \in DOMAIN plans' : plans'[k].instrument = i => i \notin InFlight
    BY <1>2
  <2>2. ASSUME NEW k \in DOMAIN plans' PROVE risk'.quantity[i] = holding[i].quantity
    <3>1. \A m, id : RiskState(m, id).quantity[i] = holding[i].quantity
      BY RiskStateIs
    <3> QED BY <1>1, <3>1
  <2> QED BY <2>1, <2>2
<1>7. InFlight' = InFlight
  BY <1>1 DEF InFlight
<1>8. \A o \in open : o.plan.instrument = i =>
         Abs(holding[i].quantity + o.plan.delta) <= MaxPosition
  BY <1>4, <1>5 DEF Covered
<1>9. \A o, u \in open : o.plan.instrument = i /\ u.plan.instrument = i => o = u
  BY <1>4, <1>5 DEF Covered
<1> QED BY <1>1, <1>3, <1>6, <1>7, <1>8, <1>9 DEF Covered

\* An order is let through only if its fill leaves its instrument within the limit.
LEMMA SubmitCovers ==
    ASSUME PlanInv, LimitInv, SubmitPlan
    PROVE  LimitInv'
<1> DEFINE plan == Head(plans)
<1>1. /\ Queued /\ plan \in Legs /\ plan = plans[1] /\ 1 \in DOMAIN plans /\ ~Rejected(plan)
      /\ \A k \in DOMAIN plans' :
            /\ k + 1 \in DOMAIN plans /\ k + 1 # 1 /\ plans'[k] = plans[k + 1] /\ risk' = risk
  BY SubmitFacts
<1>2. PICK order : order.plan = plan /\ open' = open \cup {order}
  BY SubmitFacts
<1> HIDE DEF plan
<1>3. UNCHANGED <<rules, holding, overlapped>>
  BY <1>1 DEF Queued
<1> SUFFICES ASSUME "position_limit" \in rules, NEW i \in Instruments, Covered(i)
             PROVE  Covered(i)'
  BY <1>3 DEF LimitInv
<1>4. CASE i # plan.instrument
  <2>1. \A o \in open' : o.plan.instrument = i => o \in open
    BY <1>2, <1>4
  <2>2. i \in InFlight' => i \in InFlight
    BY <2>1 DEF InFlight
  <2> QED BY <1>1, <1>3, <2>1, <2>2 DEF Covered
<1>5. CASE i = plan.instrument
  <2>1. i \notin InFlight /\ risk.quantity[i] = holding[i].quantity
    BY <1>1, <1>5 DEF Covered
  <2>2. \A o \in open' : o.plan.instrument = i => o = order
    BY <1>2, <2>1 DEF InFlight
  <2>3. Abs(holding[i].quantity + plan.delta) <= MaxPosition
    <3>1. ~(Abs(risk.quantity[i] + plan.delta) > MaxPosition)
      BY <1>1, <1>5 DEF Rejected, PositionLimit
    <3>2. holding[i].quantity \in Int /\ plan.delta \in Int /\ MaxPosition \in Nat
      BY <1>1, RiskAssumption DEF PlanInv, BooksSane, Holding, Legs
    <3> QED BY <2>1, <3>1, <3>2 DEF Abs
  <2>4. \A k \in DOMAIN plans' : plans'[k].instrument # i
    BY <1>1, <1>5 DEF PlanInv, PlannedOnce
  <2>5. Abs(holding[i].quantity) <= MaxPosition
    BY DEF Covered
  <2> QED BY <1>2, <1>3, <2>2, <2>3, <2>4, <2>5 DEF Covered
<1> QED BY <1>4, <1>5

\* A fill takes its instrument to where the order was allowed to take it.
LEMMA FillCovers ==
    ASSUME PlanInv, LimitInv, NEW o \in open, NEW p \in {o.plan.price, price[o.plan.instrument]},
           FillOrder(o, p)
    PROVE  LimitInv'
<1> DEFINE x == o.plan.instrument
<1>1. /\ UNCHANGED <<rules, plans, risk, overlapped>>
      /\ open' = open \ {o}
      /\ \A i \in Instruments : i # x => holding'[i] = holding[i]
      /\ holding'[x].quantity = holding[x].quantity + o.plan.delta
  BY FillFacts DEF Moved
<1>2. InFlight' \subseteq InFlight /\ x \in InFlight
  BY <1>1 DEF InFlight
<1> SUFFICES ASSUME NEW i \in Instruments, Covered(i) PROVE Covered(i)'
  BY <1>1 DEF LimitInv
<1>3. CASE i # x
  BY <1>1, <1>2, <1>3 DEF Covered
<1>4. CASE i = x
  <2>1. \A u \in open' : u.plan.instrument # i
    BY <1>1, <1>4 DEF Covered
  <2>2. Abs(holding'[i].quantity) <= MaxPosition
    BY <1>1, <1>4 DEF Covered
  <2>3. \A k \in DOMAIN plans' : plans'[k].instrument # i
    BY <1>1, <1>2, <1>4 DEF Covered
  <2> QED BY <2>1, <2>2, <2>3 DEF Covered
<1> QED BY <1>3, <1>4

\* Instruments that were never planned for with an order under way stay covered, with
\* whatever else is in flight and in whichever order fills arrive.
THEOREM LimitInvariant == RiskSpec => []LimitInv
<1>1. RiskInit => LimitInv
  <2> SUFFICES ASSUME RiskInit PROVE \A i \in Instruments : Covered(i)
    BY DEF LimitInv
  <2>1. \A i \in Instruments : holding[i].quantity = 0
    BY DEF RiskInit, Flat
  <2>2. plans = <<>> /\ open = {}
    BY DEF RiskInit
  <2> QED BY <2>1, <2>2, RiskAssumption DEF Covered, Abs
<1>2. PlanInv /\ LimitInv /\ [RiskNext]_riskVars => LimitInv'
  <2> SUFFICES ASSUME PlanInv, LimitInv, [RiskNext]_riskVars PROVE LimitInv'
    OBVIOUS
  <2>1. CASE MarketStep
    <3>1. UNCHANGED <<rules, holding, plans, risk, open, overlapped>>
      BY <2>1, MarketFacts
    <3>2. \A i : Covered(i)' <=> Covered(i)
      BY <3>1 DEF Covered, InFlight
    <3> QED BY <3>1, <3>2 DEF LimitInv
  <2>2. CASE RiskRaises \/ RejectPlan
    <3>1. /\ UNCHANGED <<rules, holding, open, overlapped>>
          /\ \A k \in DOMAIN plans' :
                k + 1 \in DOMAIN plans /\ plans'[k] = plans[k + 1] /\ risk' = risk
      BY <2>2, RejectionFacts DEF Queued
    <3>2. \A i : Covered(i) => Covered(i)'
      BY <3>1 DEF Covered, InFlight
    <3> QED BY <3>1, <3>2 DEF LimitInv
  <2>3. ASSUME NEW o \in open, DropOrder(o) PROVE LimitInv'
    <3>1. UNCHANGED <<rules, holding, plans, risk, overlapped>> /\ open' = open \ {o}
      BY <2>3, DropFacts DEF Queued
    <3>2. InFlight' \subseteq InFlight
      BY <3>1 DEF InFlight
    <3>3. \A i : Covered(i) => Covered(i)'
      BY <3>1, <3>2 DEF Covered
    <3> QED BY <3>1, <3>3 DEF LimitInv
  <2> QED BY <2>1, <2>2, <2>3, RiskSteps, IntentCovers, SubmitCovers, FillCovers
<1> QED BY <1>1, <1>2, PlanInvariant, PTL DEF RiskSpec

\* The position limit holds for any instruments, prices, targets and configuration of
\* rules, except for an instrument that was planned for while an order of its own was
\* open (PositionLimitRule, process_intent).
THEOREM LimitUnlessInFlightAlways == RiskSpec => []LimitUnlessInFlight
<1>1. LimitInv => LimitUnlessInFlight
  BY DEF LimitInv, LimitUnlessInFlight, Covered
<1> QED BY <1>1, LimitInvariant, PTL

-----------------------------------------------------------------------------
(***************************************************************************)
(* The books.                                                              *)
(***************************************************************************)

\* A fill realizes what it takes out of the cost of the holdings and the cash.
LEMMA FillBalances ==
    ASSUME PlanInv, NEW o \in open, NEW p \in {o.plan.price, price[o.plan.instrument]},
           FillOrder(o, p), AccountBalances
    PROVE  AccountBalances'
<1> DEFINE x == o.plan.instrument
           d == o.plan.delta
           C == [i \in Instruments |-> holding[i].quantity * holding[i].cost]
           C2 == [i \in Instruments |-> holding'[i].quantity * holding'[i].cost]
           R2 == [i \in Instruments |-> holding'[i].realized]
           h == holding[x]
           k == holding'[x]
<1>1. /\ o.plan \in Legs /\ p \in Nat
      /\ \A i \in Instruments : i # x => holding'[i] = holding[i]
      /\ Moved(h, k, d, p)
      /\ cash' = cash - d * p - Commission /\ paid' = paid + Commission
  BY FillFacts
<1>2. PlanInv'
  BY FillFacts
<1>3. /\ holding \in [Instruments -> Holding] /\ holding' \in [Instruments -> Holding]
      /\ cash \in Int /\ paid \in Int /\ Commission \in Int /\ InitialCash \in Int
  BY <1>2, RiskAssumption DEF PlanInv, BooksSane
<1>4. x \in Instruments /\ d \in Int /\ IsFiniteSet(Instruments)
  BY <1>1, RiskAssumption DEF Legs
<1>5. /\ \A i \in Instruments : /\ holding[i].quantity \in Int /\ holding[i].cost \in Int
                                /\ holding[i].realized \in Int
      /\ \A i \in Instruments : /\ holding'[i].quantity \in Int /\ holding'[i].cost \in Int
                                /\ holding'[i].realized \in Int
  BY <1>3 DEF Holding
<1>6. /\ C \in [Instruments -> Int] /\ C2 \in [Instruments -> Int]
      /\ Realized \in [Instruments -> Int] /\ R2 \in [Instruments -> Int]
  BY <1>5 DEF Realized
<1>7. \A i \in Instruments : i # x => C2[i] = C[i] /\ R2[i] = Realized[i]
  BY <1>1 DEF Realized
<1>8. /\ C[x] = h.quantity * h.cost /\ C2[x] = k.quantity * k.cost
      /\ Realized[x] = h.realized /\ R2[x] = k.realized
  BY <1>4 DEF Realized
<1>9. k.realized - k.quantity * k.cost = h.realized - h.quantity * h.cost - d * p
  BY <1>1 DEF Moved
<1>10. Realized' = R2
  BY DEF Realized
<1>11. C2 = [i \in Instruments |-> holding'[i].quantity * holding'[i].cost]
  OBVIOUS
<1>12. cash + SumFunction(C) = InitialCash + SumFunction(Realized) - paid
  BY DEF AccountBalances
<1>13. C[x] \in Int /\ C2[x] \in Int /\ Realized[x] \in Int /\ R2[x] \in Int /\ d * p \in Int
  BY <1>1, <1>4, <1>6
<1> HIDE DEF C, C2, R2, h, k, x, d
<1>14. /\ SumFunction(C2) = SumFunction(C) - C[x] + C2[x]
       /\ SumFunction(R2) = SumFunction(Realized) - Realized[x] + R2[x]
  BY <1>4, <1>6, <1>7, SumUpdate
<1>15. SumFunction(C) \in Int /\ SumFunction(Realized) \in Int
  BY <1>4, <1>6, SumType
<1>16. R2[x] - C2[x] = Realized[x] - C[x] - d * p
  BY <1>8, <1>9
<1>17. cash' + SumFunction(C2) = InitialCash + SumFunction(R2) - paid'
  <2> DEFINE s == SumFunction(C)
             s2 == SumFunction(C2)
             t == SumFunction(Realized)
             t2 == SumFunction(R2)
             m == d * p
             u == C[x]
             u2 == C2[x]
             v == Realized[x]
             v2 == R2[x]
  <2>1. /\ s \in Int /\ t \in Int /\ m \in Int /\ u \in Int /\ u2 \in Int /\ v \in Int /\ v2 \in Int
        /\ s2 = s - u + u2 /\ t2 = t - v + v2 /\ v2 - u2 = v - u - m
        /\ cash + s = InitialCash + t - paid
        /\ cash' = cash - m - Commission /\ paid' = paid + Commission
    BY <1>1, <1>12, <1>13, <1>14, <1>15, <1>16
  <2> HIDE DEF s, s2, t, t2, m, u, u2, v, v2
  <2>2. cash' + s2 = InitialCash + t2 - paid'
    BY <1>3, <2>1
  <2> QED BY <2>2 DEF s2, t2
<1> QED BY <1>10, <1>11, <1>17 DEF AccountBalances

\* Nothing else touches the books.
LEMMA BooksOtherwise ==
    ASSUME PlanInv, [RiskNext]_riskVars
    PROVE  \/ UNCHANGED <<cash, holding, paid>>
           \/ \E o \in open : \E p \in {o.plan.price, price[o.plan.instrument]} : FillOrder(o, p)
<1>1. MarketStep => UNCHANGED <<cash, holding, paid>>
  BY MarketFacts
<1>2. \A asset, b, target : Intends(asset, b, target) => UNCHANGED <<cash, holding, paid>>
  BY IntentFacts
<1>3. RiskRaises \/ RejectPlan \/ SubmitPlan => UNCHANGED <<cash, holding, paid>>
  BY RejectionFacts, SubmitFacts DEF Queued
<1>4. \A o \in open : DropOrder(o) => UNCHANGED <<cash, holding, paid>>
  BY DropFacts DEF Queued
<1> QED BY <1>1, <1>2, <1>3, <1>4, RiskSteps

\* No sequence of openings, increases, reductions, flips and reopenings creates or loses
\* money, for any instruments, prices and commission (HoldingBook.apply_fill, _apply_fill).
THEOREM AccountBalancesAlways == RiskSpec => []AccountBalances
<1>1. RiskInit => AccountBalances
  <2> SUFFICES ASSUME RiskInit PROVE AccountBalances
    OBVIOUS
  <2> DEFINE Z == [i \in Instruments |-> 0]
  <2>1. [i \in Instruments |-> holding[i].quantity * holding[i].cost] = Z /\ Realized = Z
    BY DEF RiskInit, Flat, Realized
  <2>2. SumFunction(Z) \in Int
    <3>1. Z \in [Instruments -> Int] /\ IsFiniteSet(Instruments)
      BY RiskAssumption
    <3> HIDE DEF Z
    <3> QED BY <3>1, SumType
  <2>3. cash = InitialCash /\ paid = 0 /\ InitialCash \in Int
    BY RiskAssumption DEF RiskInit
  <2> HIDE DEF Z
  <2>4. cash + SumFunction(Z) = InitialCash + SumFunction(Z) - paid
    BY <2>2, <2>3
  <2> QED BY <2>1, <2>4 DEF AccountBalances
<1>2. PlanInv /\ AccountBalances /\ [RiskNext]_riskVars => AccountBalances'
  <2> SUFFICES ASSUME PlanInv, AccountBalances, [RiskNext]_riskVars PROVE AccountBalances'
    OBVIOUS
  <2>1. CASE UNCHANGED <<cash, holding, paid>>
    BY <2>1 DEF AccountBalances, Realized
  <2> QED BY <2>1, BooksOtherwise, FillBalances
<1> QED BY <1>1, <1>2, PlanInvariant, PTL DEF RiskSpec

-----------------------------------------------------------------------------
(***************************************************************************)
(* The legs of an intent that began with nothing in flight.                *)
(***************************************************************************)

\* What the intent has planned or sent.
UnderWay == {plans[k] : k \in DOMAIN plans} \cup {o.plan : o \in open}

\* An intent that began with nothing in flight has one leg at most for an instrument, judged
\* by the quantity that is held, and one leg at most that grows.
FreshInv ==
    fresh =>
        /\ \A o \in open, k \in DOMAIN plans : o.plan.instrument # plans[k].instrument
        /\ \A o, u \in open : o.plan.instrument = u.plan.instrument => o = u
        /\ \A k \in DOMAIN plans :
              risk.quantity[plans[k].instrument] = holding[plans[k].instrument].quantity
        /\ \A l, m \in UnderWay : Grows(l) /\ Grows(m) => l.instrument = m.instrument
        /\ grew => \A l \in UnderWay : ~Grows(l)

\* The invariant in a new state, from what is under way there.
LEMMA FewerFresh ==
    ASSUME FreshInv, fresh' => fresh, UNCHANGED <<holding, grew>>,
           open' \subseteq open,
           \A k \in DOMAIN plans' : risk' = risk /\ \E j \in DOMAIN plans : plans'[k] = plans[j]
    PROVE  FreshInv'
<1>1. UnderWay' \subseteq UnderWay
  BY DEF UnderWay
<1>2. \A l : Grows(l)' <=> Grows(l)
  BY DEF Grows
<1> QED BY <1>1, <1>2 DEF FreshInv

\* An intent starts with legs for different instruments, of which one at most grows.
LEMMA IntentFresh ==
    ASSUME PlanInv, NEW asset, NEW b, NEW target, Intends(asset, b, target)
    PROVE  FreshInv'
<1>1. /\ UNCHANGED <<holding, open>>
      /\ \A k \in DOMAIN plans' : risk' = RiskState(Mark(asset, b), session[b]) /\ plans'[k] \in Legs
      /\ \A j, k \in DOMAIN plans' : Grows(plans'[j]) /\ Grows(plans'[k]) => j = k
  <2>1. plans' \in Seq(Legs)
    BY IntentFacts DEF PlanInv, BooksSane
  <2>2. \A k \in DOMAIN plans' : plans'[k] \in Legs
    BY <2>1
  <2> QED BY <2>2, IntentFacts
<1>2. fresh' = (open = {}) /\ grew' = FALSE
  BY DEF Intends, StartIntent
<1> SUFFICES ASSUME fresh', open = {} PROVE FreshInv'
  BY <1>2 DEF FreshInv
<1>3. \A l : Grows(l)' <=> Grows(l)
  BY <1>1 DEF Grows
<1>4. UnderWay' = {plans'[k] : k \in DOMAIN plans'}
  BY <1>1 DEF UnderWay
<1>5. ASSUME NEW k \in DOMAIN plans'
      PROVE  risk'.quantity[plans'[k].instrument] = holding'[plans'[k].instrument].quantity
  <2>1. plans'[k].instrument \in Instruments /\ risk' = RiskState(Mark(asset, b), session[b])
    BY <1>1 DEF Legs
  <2>2. \A m, id : \A i \in Instruments : RiskState(m, id).quantity[i] = holding[i].quantity
    BY RiskStateIs
  <2> QED BY <1>1, <2>1, <2>2
<1> QED BY <1>1, <1>2, <1>3, <1>4, <1>5 DEF FreshInv

\* Sending a leg leaves it under way.
LEMMA SubmitFresh ==
    ASSUME PlanInv, FreshInv, SubmitPlan
    PROVE  FreshInv' /\ UnderWay' \subseteq UnderWay
<1> DEFINE plan == Head(plans)
<1>1. /\ Queued /\ plan = plans[1] /\ 1 \in DOMAIN plans
      /\ \A k \in DOMAIN plans' :
            /\ k + 1 \in DOMAIN plans /\ k + 1 # 1 /\ plans'[k] = plans[k + 1] /\ risk' = risk
  BY SubmitFacts
<1>2. PICK order : order.plan = plan /\ open' = open \cup {order}
  BY SubmitFacts
<1> HIDE DEF plan
<1>3. UNCHANGED <<holding, fresh, grew>>
  BY <1>1 DEF Queued
<1>4. UnderWay' \subseteq UnderWay
  BY <1>1, <1>2 DEF UnderWay
<1>5. \A l : Grows(l)' <=> Grows(l)
  BY <1>3 DEF Grows
<1> SUFFICES ASSUME fresh PROVE FreshInv'
  BY <1>3, <1>4 DEF FreshInv
<1>6. \A k \in DOMAIN plans' : plans'[k].instrument # plan.instrument
  BY <1>1 DEF PlanInv, PlannedOnce
<1>7. \A o \in open : o.plan.instrument # plan.instrument
  BY <1>1 DEF FreshInv
<1>8. \A o \in open', k \in DOMAIN plans' : o.plan.instrument # plans'[k].instrument
  BY <1>1, <1>2, <1>6 DEF FreshInv
<1>9. \A o, u \in open' : o.plan.instrument = u.plan.instrument => o = u
  BY <1>2, <1>7 DEF FreshInv
<1>10. \A k \in DOMAIN plans' :
          risk'.quantity[plans'[k].instrument] = holding'[plans'[k].instrument].quantity
  BY <1>1, <1>3 DEF FreshInv
<1>11. \A l, m \in UnderWay' : Grows(l)' /\ Grows(m)' => l.instrument = m.instrument
  BY <1>4, <1>5 DEF FreshInv
<1>12. grew' => \A l \in UnderWay' : ~Grows(l)'
  BY <1>3, <1>4, <1>5 DEF FreshInv
<1> QED BY <1>8, <1>9, <1>10, <1>11, <1>12 DEF FreshInv

\* The filled leg was its instrument's only one, so that what is left grows as before.
LEMMA FillFresh ==
    ASSUME PlanInv, FreshInv, fresh, NEW o \in open,
           NEW p \in {o.plan.price, price[o.plan.instrument]}, FillOrder(o, p)
    PROVE  /\ FreshInv'
           /\ \A l \in UnderWay' : /\ l \in UnderWay /\ l.instrument # o.plan.instrument
                                   /\ Grows(l)' <=> Grows(l)
           /\ o.plan \in UnderWay
<1> DEFINE x == o.plan.instrument
<1>1. /\ UNCHANGED <<plans, risk>>
      /\ open' = open \ {o}
      /\ \A i \in Instruments : i # x => holding'[i] = holding[i]
      /\ grew' = (grew \/ Grows(o.plan))
      /\ fresh' => fresh
  BY FillFacts
<1>2. \A l \in UnderWay : l.instrument \in Instruments
  <2>1. \A k \in DOMAIN plans : plans[k] \in Legs
    BY DEF PlanInv, BooksSane
  <2> QED BY <2>1 DEF PlanInv, BooksSane, UnderWay, Legs
<1>3. o.plan \in UnderWay
  BY DEF UnderWay
<1>4. \A l \in UnderWay' : l \in UnderWay /\ l.instrument # x
  BY <1>1 DEF UnderWay, FreshInv
<1>5. \A l \in UnderWay' : Grows(l)' <=> Grows(l)
  BY <1>1, <1>2, <1>4 DEF Grows
<1>6. grew' => \A l \in UnderWay' : ~Grows(l)'
  BY <1>1, <1>3, <1>4, <1>5 DEF FreshInv
<1>7. \A l, m \in UnderWay' : Grows(l)' /\ Grows(m)' => l.instrument = m.instrument
  BY <1>4, <1>5 DEF FreshInv
<1>8. \A k \in DOMAIN plans' :
         risk'.quantity[plans'[k].instrument] = holding'[plans'[k].instrument].quantity
  <2>1. \A k \in DOMAIN plans : plans[k] \in UnderWay' /\ plans[k].instrument \in Instruments
    BY <1>1, <1>2, <1>4 DEF UnderWay
  <2> QED BY <1>1, <1>4, <2>1 DEF FreshInv
<1>9. /\ \A u \in open', k \in DOMAIN plans' : u.plan.instrument # plans'[k].instrument
      /\ \A u, v \in open' : u.plan.instrument = v.plan.instrument => u = v
  BY <1>1 DEF FreshInv
<1>10. FreshInv'
  BY <1>6, <1>7, <1>8, <1>9 DEF FreshInv
<1> QED BY <1>3, <1>4, <1>5, <1>10

\* While an intent is fresh its legs stay apart and at most one of them grows, in whichever
\* order they are sent, rejected, dropped and filled.
THEOREM FreshInvariant == RiskSpec => []FreshInv
<1>1. RiskInit => FreshInv
  BY DEF RiskInit, FreshInv
<1>2. PlanInv /\ FreshInv /\ [RiskNext]_riskVars => FreshInv'
  <2> SUFFICES ASSUME PlanInv, FreshInv, [RiskNext]_riskVars PROVE FreshInv'
    OBVIOUS
  <2>1. CASE MarketStep
    <3>1. UNCHANGED <<holding, grew, plans, risk, open>>
      BY <2>1, MarketFacts
    <3>2. fresh' => fresh
      BY <2>1 DEF MarketStep, Bar, NextSession, Roll, riskVars
    <3> QED BY <3>1, <3>2, FewerFresh
  <2>2. CASE RiskRaises \/ RejectPlan
    <3>1. /\ UNCHANGED <<fresh, holding, grew, open>>
          /\ \A k \in DOMAIN plans' :
                k + 1 \in DOMAIN plans /\ plans'[k] = plans[k + 1] /\ risk' = risk
      BY <2>2, RejectionFacts DEF Queued
    <3> QED BY <3>1, FewerFresh
  <2>3. ASSUME NEW o \in open, DropOrder(o) PROVE FreshInv'
    <3>1. UNCHANGED <<fresh, holding, grew, plans, risk>> /\ open' = open \ {o}
      BY <2>3, DropFacts DEF Queued
    <3> QED BY <3>1, FewerFresh
  <2>4. ASSUME NEW o \in open, NEW p \in {o.plan.price, price[o.plan.instrument]}, FillOrder(o, p)
        PROVE  FreshInv'
    <3>1. CASE fresh
      BY <2>4, <3>1, FillFresh
    <3>2. CASE ~fresh
      <4>1. ~fresh'
        BY <2>4, <3>2, FillFacts
      <4> QED BY <4>1 DEF FreshInv
    <3> QED BY <3>1, <3>2
  <2> QED BY <2>1, <2>2, <2>3, <2>4, RiskSteps, IntentFresh, SubmitFresh
<1> QED BY <1>1, <1>2, PlanInvariant, PTL DEF RiskSpec

-----------------------------------------------------------------------------
(***************************************************************************)
(* Leverage and margin.                                                    *)
(***************************************************************************)

\* Equity with the intent's commissions given back.
Worth == Equity + (paid - paidBefore)

\* By how much a leg adds to the exposure.
Growth(leg) ==
    (Abs(holding[leg.instrument].quantity + leg.delta) - Abs(holding[leg.instrument].quantity))
        * leg.price

\* The rules have room for an order of this notional that adds this much to the exposure.
Within(order, growth) ==
    /\ "leverage_limit" \in rules => Exposure + order <= MaxLeverage * Worth
    /\ "margin_limit" \in rules => Exposure + growth <= MarginDivisor * Worth

\* On exact marks the risk state is the account's own until a leg that grows is filled, and the
\* leg that grows has room for what it adds.
ExactInv ==
    fresh /\ marked =>
        /\ \A l \in UnderWay : l.price = price[l.instrument]
        /\ busy => risk.equity = Worth /\ risk.exposure \in Int
        /\ busy /\ ~grew => Exposure <= risk.exposure
        /\ \A o \in open : Grows(o.plan) => Within(Notional(o.plan), Growth(o.plan))
        /\ grew => Within(0, 0)

\* The account in numbers.
Numbers ==
    /\ Values(price) \in [Instruments -> Int]
    /\ \A i \in Instruments : /\ Values(price)[i] = holding[i].quantity * price[i]
                              /\ Abs(Values(price)[i]) \in Int
    /\ Unrealized(price) \in [Instruments -> Int]
    /\ \A i \in Instruments :
          Unrealized(price)[i] = holding[i].quantity * (price[i] - holding[i].cost)
    /\ Realized \in [Instruments -> Int]
    /\ Equity \in Int /\ Worth \in Int /\ Exposure \in Int
    /\ SumFunction(Values(price)) \in Int
    /\ SumFunction(Unrealized(price)) \in Int /\ SumFunction(Realized) \in Int

\* They are whole numbers.
LEMMA AccountNumbers == PlanInv => Numbers
<1> SUFFICES ASSUME PlanInv PROVE Numbers
  OBVIOUS
<1>1. IsFiniteSet(Instruments) /\ None \notin Int /\ Prices \subseteq Nat
  BY RiskAssumption
<1>2. \A i \in Instruments : price[i] \in Int /\ price[i] # None
  <2>1. \A n \in Prices : n \in Int /\ n # None
    BY <1>1
  <2>2. price \in [Instruments -> Prices]
    BY DEF PlanInv, BooksSane
  <2> QED BY <2>1, <2>2
<1>3. \A i \in Instruments : /\ holding[i].quantity \in Int /\ holding[i].cost \in Int
                             /\ holding[i].realized \in Int
  BY DEF PlanInv, BooksSane, Holding
<1>4. Values(price) = [i \in Instruments |-> holding[i].quantity * price[i]]
  BY <1>2, Zenon DEF Values
<1>5. Unrealized(price) = [i \in Instruments |-> holding[i].quantity * (price[i] - holding[i].cost)]
  BY <1>2, Zenon DEF Unrealized
<1>6. /\ Values(price) \in [Instruments -> Int]
      /\ \A i \in Instruments : Values(price)[i] = holding[i].quantity * price[i]
  BY <1>2, <1>3, <1>4
<1>7. /\ Unrealized(price) \in [Instruments -> Int]
      /\ \A i \in Instruments :
            Unrealized(price)[i] = holding[i].quantity * (price[i] - holding[i].cost)
  BY <1>2, <1>3, <1>5
<1>8. Realized \in [Instruments -> Int]
  BY <1>3 DEF Realized
<1>9. \A i \in Instruments : Abs(Values(price)[i]) \in Int
  BY <1>6 DEF Abs
<1>10. [i \in Instruments |-> Abs(Values(price)[i])] \in [Instruments -> Int]
  BY <1>9
<1>11. /\ SumFunction(Values(price)) \in Int /\ SumFunction(Unrealized(price)) \in Int
       /\ SumFunction(Realized) \in Int
  BY <1>1, <1>6, <1>7, <1>8, SumType
<1>12. Exposure \in Int
  BY <1>1, <1>10, SumType DEF Exposure
<1>13. cash \in Int /\ paid \in Int /\ paidBefore \in Int
  BY DEF PlanInv, BooksSane
<1>14. Equity \in Int
  BY <1>11, <1>13 DEF Equity
<1>15. Worth \in Int
  BY <1>13, <1>14 DEF Worth
<1> QED BY <1>6, <1>7, <1>8, <1>9, <1>11, <1>12, <1>14, <1>15 DEF Numbers

\* Marks that agree with the market on what is held value the account as the market does.
LEMMA ExactMarks ==
    ASSUME PlanInv, NEW mark,
           \A i \in Instruments : mark[i] = None \/ mark[i] \in Int,
           \A i \in Instruments : holding[i].quantity # 0 => mark[i] = price[i]
    PROVE  Values(mark) = Values(price) /\ Unrealized(mark) = Unrealized(price)
<1>1. \A i \in Instruments :
         /\ holding[i].quantity \in Int /\ holding[i].cost \in Int
         /\ price[i] \in Int
  <2>1. Prices \subseteq Int
    BY RiskAssumption
  <2> QED BY <2>1 DEF PlanInv, BooksSane, Holding
<1>2. \A n \in Int : 0 * n = 0
  OBVIOUS
<1>3. ASSUME NEW i \in Instruments
      PROVE  /\ (IF mark[i] = None THEN 0 ELSE holding[i].quantity * mark[i])
                   = (IF price[i] = None THEN 0 ELSE holding[i].quantity * price[i])
             /\ (IF mark[i] = None THEN 0 ELSE holding[i].quantity * (mark[i] - holding[i].cost))
                   = (IF price[i] = None THEN 0
                      ELSE holding[i].quantity * (price[i] - holding[i].cost))
  <2>1. CASE holding[i].quantity # 0
    BY <2>1
  <2>2. CASE holding[i].quantity = 0
    <3>1. price[i] - holding[i].cost \in Int /\ price[i] \in Int
      BY <1>1
    <3>2. mark[i] # None => mark[i] \in Int /\ mark[i] - holding[i].cost \in Int
      BY <1>1
    <3> QED BY <1>2, <2>2, <3>1, <3>2
  <2> QED BY <2>1, <2>2
<1> QED BY <1>3 DEF Values, Unrealized

\* The absolute value of a product with a positive factor.
LEMMA AbsTimes ==
    ASSUME NEW a \in Int, NEW b \in Int, b > 0
    PROVE  Abs(a * b) = Abs(a) * b /\ Abs(a) \in Int /\ Abs(a) >= 0
<1>1. CASE a < 0
  <2>1. a * b < 0 /\ -(a * b) = (-a) * b
    BY <1>1
  <2> QED BY <1>1, <2>1 DEF Abs
<1>2. CASE a >= 0
  <2>1. a * b >= 0
    BY <1>2
  <2> QED BY <1>2, <2>1 DEF Abs
<1> QED BY <1>1, <1>2

\* A fill at the market's price leaves the account worth what it was, and adds to its exposure
\* what its leg was to add.
LEMMA FillExact ==
    ASSUME PlanInv, NEW o \in open, NEW p \in {o.plan.price, price[o.plan.instrument]},
           FillOrder(o, p), p = o.plan.price, p = price[o.plan.instrument]
    PROVE  /\ Worth' = Worth
           /\ Exposure' = Exposure + Growth(o.plan)
           /\ SumFunction(Realized)' + SumFunction(Unrealized(price))'
                 = SumFunction(Realized) + SumFunction(Unrealized(price))
<1> DEFINE x == o.plan.instrument
           d == o.plan.delta
           h == holding[x]
           k == holding'[x]
           V == Values(price)
           V2 == Values(price)'
           E == [i \in Instruments |-> Abs(V[i])]
           E2 == [i \in Instruments |-> Abs(V2[i])]
           U == Unrealized(price)
           U2 == Unrealized(price)'
           R == Realized
           R2 == Realized'
<1>1. /\ o.plan \in Legs /\ p \in Nat \ {0}
      /\ \A i \in Instruments : i # x => holding'[i] = holding[i]
      /\ Moved(h, k, d, p)
      /\ cash' = cash - d * p - Commission /\ paid' = paid + Commission
      /\ UNCHANGED <<price, paidBefore>>
  BY FillFacts
<1>2. PlanInv'
  BY FillFacts
<1>3. x \in Instruments /\ d \in Int /\ IsFiniteSet(Instruments) /\ p \in Int /\ p > 0
  BY <1>1, RiskAssumption DEF Legs
<1>4. /\ V \in [Instruments -> Int] /\ U \in [Instruments -> Int] /\ R \in [Instruments -> Int]
      /\ \A i \in Instruments : /\ V[i] = holding[i].quantity * price[i] /\ Abs(V[i]) \in Int
                                /\ U[i] = holding[i].quantity * (price[i] - holding[i].cost)
  BY AccountNumbers DEF Numbers
<1>5. /\ V2 \in [Instruments -> Int] /\ U2 \in [Instruments -> Int] /\ R2 \in [Instruments -> Int]
      /\ \A i \in Instruments : /\ V2[i] = holding'[i].quantity * price'[i] /\ Abs(V2[i]) \in Int
                                /\ U2[i] = holding'[i].quantity * (price'[i] - holding'[i].cost)
  <2>1. Numbers'
    BY <1>2, AccountNumbers, PTL
  <2> QED BY <2>1 DEF Numbers
<1>6. /\ h.quantity \in Int /\ h.cost \in Int /\ h.realized \in Int
      /\ k.quantity \in Int /\ k.cost \in Int /\ k.realized \in Int
      /\ k.quantity = h.quantity + d
      /\ k.realized - k.quantity * k.cost = h.realized - h.quantity * h.cost - d * p
  <2>1. h \in Holding
    BY <1>3 DEF PlanInv, BooksSane
  <2> QED BY <1>1, <2>1 DEF Moved, Holding
<1>7. \A i \in Instruments : i # x => V2[i] = V[i] /\ U2[i] = U[i] /\ R2[i] = R[i]
  <2>1. \A i \in Instruments : i # x => R2[i] = R[i]
    BY <1>1 DEF Realized
  <2> HIDE DEF V, V2, U, U2, R, R2
  <2> QED BY <1>1, <1>4, <1>5, <2>1
<1>8. /\ V[x] = h.quantity * p /\ V2[x] = k.quantity * p
      /\ U[x] = h.quantity * (p - h.cost) /\ U2[x] = k.quantity * (p - k.cost)
      /\ R[x] = h.realized /\ R2[x] = k.realized
  <2>1. R[x] = h.realized /\ R2[x] = k.realized
    BY <1>3 DEF Realized
  <2>2. price[x] = p /\ price'[x] = p
    BY <1>1
  <2> HIDE DEF V, V2, U, U2, R, R2
  <2> QED BY <1>3, <1>4, <1>5, <2>1, <2>2
<1>9. E \in [Instruments -> Int] /\ E2 \in [Instruments -> Int]
  <2> HIDE DEF V, V2
  <2> QED BY <1>4, <1>5
<1>10. \A i \in Instruments : i # x => E2[i] = E[i]
  <2> HIDE DEF V, V2
  <2> QED BY <1>7
<1>11. E[x] = Abs(h.quantity * p) /\ E2[x] = Abs(k.quantity * p)
  <2> HIDE DEF V, V2
  <2> QED BY <1>3, <1>8
<1>12. /\ Worth = cash + SumFunction(V) + (paid - paidBefore)
       /\ Worth' = cash' + SumFunction(V2) + (paid' - paidBefore')
       /\ Exposure = SumFunction(E) /\ Exposure' = SumFunction(E2)
       /\ Growth(o.plan) = (Abs(h.quantity + d) - Abs(h.quantity)) * p
  BY DEF Worth, Equity, Exposure, Growth
<1> HIDE DEF V, V2, E, E2, U, U2, R, R2, h, k, d, x
<1>13. /\ SumFunction(V2) = SumFunction(V) - V[x] + V2[x]
       /\ SumFunction(E2) = SumFunction(E) - E[x] + E2[x]
       /\ SumFunction(U2) = SumFunction(U) - U[x] + U2[x]
       /\ SumFunction(R2) = SumFunction(R) - R[x] + R2[x]
  BY <1>3, <1>4, <1>5, <1>7, <1>9, <1>10, SumUpdate
<1>14. /\ SumFunction(V) \in Int /\ SumFunction(E) \in Int
       /\ SumFunction(U) \in Int /\ SumFunction(R) \in Int
  BY <1>3, <1>4, <1>9, SumType
<1>15. cash \in Int /\ paid \in Int /\ paidBefore \in Int /\ Commission \in Int
  BY RiskAssumption DEF PlanInv, BooksSane
<1>16. Worth' = Worth
  <2> DEFINE s == SumFunction(V)
             s2 == SumFunction(V2)
             m == d * p
  <2>1. V2[x] - V[x] = m /\ V[x] \in Int /\ V2[x] \in Int /\ m \in Int
    <3>1. ASSUME NEW q \in Int
          PROVE  (q + d) * p - q * p = d * p /\ q * p \in Int /\ (q + d) * p \in Int /\ d * p \in Int
      BY <1>3
    <3>2. V[x] = h.quantity * p /\ V2[x] = (h.quantity + d) * p /\ h.quantity \in Int
      BY <1>6, <1>8
    <3> QED BY <3>1, <3>2
  <2>2. /\ s \in Int /\ s2 = s - V[x] + V2[x] /\ cash' = cash - m - Commission
        /\ paid' = paid + Commission /\ paidBefore' = paidBefore
    BY <1>1, <1>13, <1>14
  <2> HIDE DEF s, s2, m
  <2>3. cash' + s2 + (paid' - paidBefore') = cash + s + (paid - paidBefore)
    BY <1>15, <2>1, <2>2
  <2> QED BY <1>12, <2>3 DEF s, s2
<1>17. Exposure' = Exposure + Growth(o.plan)
  <2>1. /\ Abs(h.quantity * p) = Abs(h.quantity) * p /\ Abs(k.quantity * p) = Abs(k.quantity) * p
        /\ Abs(h.quantity) \in Int /\ Abs(k.quantity) \in Int
    BY <1>3, <1>6, AbsTimes
  <2>2. E2[x] - E[x] = (Abs(k.quantity) - Abs(h.quantity)) * p /\ E[x] \in Int /\ E2[x] \in Int
    BY <1>3, <1>11, <2>1
  <2>3. Growth(o.plan) = E2[x] - E[x]
    BY <1>6, <1>12, <2>2
  <2> QED BY <1>12, <1>13, <1>14, <2>2, <2>3
<1>18. SumFunction(R2) + SumFunction(U2) = SumFunction(R) + SumFunction(U)
  <2> DEFINE a == SumFunction(R)
             c == SumFunction(U)
             a2 == SumFunction(R2)
             c2 == SumFunction(U2)
  <2>1. /\ R[x] \in Int /\ R2[x] \in Int /\ U[x] \in Int /\ U2[x] \in Int
        /\ R2[x] + U2[x] = R[x] + U[x]
    <3>1. /\ h.quantity * (p - h.cost) = h.quantity * p - h.quantity * h.cost
          /\ k.quantity * (p - k.cost) = k.quantity * p - k.quantity * k.cost
          /\ k.quantity * p = h.quantity * p + d * p
      BY <1>3, <1>6
    <3>2. /\ h.quantity * p \in Int /\ h.quantity * h.cost \in Int /\ k.quantity * p \in Int
          /\ k.quantity * k.cost \in Int /\ d * p \in Int
      BY <1>3, <1>6
    <3> DEFINE hp == h.quantity * p
               hc == h.quantity * h.cost
               kp == k.quantity * p
               kc == k.quantity * k.cost
               m == d * p
               r == h.realized
               r2 == k.realized
    <3>3. /\ hp \in Int /\ hc \in Int /\ kp \in Int /\ kc \in Int /\ m \in Int
          /\ r \in Int /\ r2 \in Int
          /\ U[x] = hp - hc /\ U2[x] = kp - kc /\ kp = hp + m /\ R[x] = r /\ R2[x] = r2
          /\ r2 - kc = r - hc - m
      BY <1>6, <1>8, <3>1, <3>2
    <3> HIDE DEF hp, hc, kp, kc, m, r, r2
    <3> QED BY <3>3
  <2>2. a \in Int /\ c \in Int /\ a2 = a - R[x] + R2[x] /\ c2 = c - U[x] + U2[x]
    BY <1>13, <1>14
  <2>0. a \in Int /\ c \in Int
    BY <1>14
  <2> HIDE DEF a, c, a2, c2
  <2>3. a2 + c2 = a + c
    <3>1. ASSUME NEW r \in Int, NEW r2 \in Int, NEW v \in Int, NEW v2 \in Int, r2 + v2 = r + v,
                 a2 = a - r + r2, c2 = c - v + v2
          PROVE  a2 + c2 = a + c
      BY <2>0, <3>1
    <3> QED BY <2>1, <2>2, <3>1
  <2> QED BY <2>3 DEF a, c, a2, c2
<1>19. R = Realized /\ U = Unrealized(price) /\ R2 = Realized' /\ U2 = Unrealized(price)'
  BY DEF R, U, R2, U2
<1> QED BY <1>16, <1>17, <1>18, <1>19

\* A leg's numbers.
LEMMA LegNumbers ==
    ASSUME PlanInv, NEW leg \in Legs
    PROVE  /\ leg.instrument \in Instruments /\ leg.delta \in Int
           /\ leg.price \in Nat \ {0} /\ leg.price \in Int
           /\ holding[leg.instrument].quantity \in Int
<1>1. Prices \subseteq Nat \ {0}
  BY RiskAssumption
<1>2. leg.instrument \in Instruments /\ leg.delta \in Int /\ leg.price \in Prices
  BY DEF Legs
<1>3. holding[leg.instrument].quantity \in Int
  BY <1>2 DEF PlanInv, BooksSane, Holding
<1>4. \A n \in Nat \ {0} : n \in Int
  OBVIOUS
<1>5. leg.price \in Nat \ {0}
  BY <1>1, <1>2, Zenon
<1> QED BY <1>2, <1>3, <1>4, <1>5, Zenon

\* Nothing that is worth anything changes, and less is under way.
LEMMA FewerExact ==
    ASSUME PlanInv, ExactInv, fresh' => fresh /\ price' = price,
           UNCHANGED <<rules, cash, holding, paid, paidBefore, marked, grew>>,
           open' \subseteq open, PlanInv',
           \A k \in DOMAIN plans' : risk' = risk /\ \E j \in DOMAIN plans : plans'[k] = plans[j]
    PROVE  ExactInv'
<1> SUFFICES ASSUME fresh', fresh, marked, price' = price PROVE ExactInv'
  BY DEF ExactInv
<1>1. UnderWay' \subseteq UnderWay
  BY DEF UnderWay
<1>2. \A l : (Grows(l)' <=> Grows(l)) /\ Growth(l)' = Growth(l) /\ Notional(l)' = Notional(l)
  BY DEF Grows, Growth, Notional
<1>3. Worth' = Worth /\ Exposure' = Exposure
  BY DEF Worth, Equity, Exposure, Values
<1>4. \A a, b : Within(a, b)' <=> Within(a, b)
  BY <1>3 DEF Within
<1>5. busy' => busy /\ risk' = risk
  <2>1. plans' \in Seq(Legs) /\ plans \in Seq(Legs)
    BY DEF PlanInv, BooksSane
  <2>2. busy' => 1 \in DOMAIN plans'
    BY <2>1 DEF busy
  <2>3. \A j \in DOMAIN plans : plans # <<>>
    BY <2>1
  <2> QED BY <2>2, <2>3 DEF busy
<1>6. \A l \in UnderWay' : l.price = price'[l.instrument]
  BY <1>1 DEF ExactInv
<1>7. busy' => risk'.equity = Worth' /\ risk'.exposure \in Int
  BY <1>3, <1>5 DEF ExactInv
<1>8. busy' /\ ~grew' => Exposure' <= risk'.exposure
  BY <1>3, <1>5 DEF ExactInv
<1>9. \A o \in open' : Grows(o.plan)' => Within(Notional(o.plan), Growth(o.plan))'
  <2>1. ASSUME NEW o \in open', Grows(o.plan)' PROVE Within(Notional(o.plan), Growth(o.plan))'
    <3>1. Within(Notional(o.plan), Growth(o.plan))
      BY <1>2, <2>1 DEF ExactInv
    <3> QED BY <1>2, <1>3, <3>1 DEF Within
  <2> QED BY <2>1
<1>10. grew' => Within(0, 0)'
  BY <1>3 DEF ExactInv, Within
<1> QED BY <1>6, <1>7, <1>8, <1>9, <1>10 DEF ExactInv

\* A risk state on exact marks is the account's own.
LEMMA IntentExact ==
    ASSUME PlanInv, NEW asset, NEW b, NEW target, Intends(asset, b, target)
    PROVE  ExactInv'
<1> DEFINE mark == Mark(asset, b)
           E(m) == SumFunction([i \in Instruments |-> Abs(Values(m)[i])])
<1>1. /\ UNCHANGED <<cash, holding, paid, price, open>> /\ PlanInv'
      /\ \A k \in DOMAIN plans' : risk' = RiskState(mark, session[b]) /\ plans'[k].price = mark[plans'[k].instrument]
  BY IntentFacts
<1>2. /\ fresh' = (open = {}) /\ grew' = FALSE /\ paidBefore' = paid
      /\ marked' = \A i \in {i \in Instruments : holding[i].quantity # 0}
                              \cup {plans'[k].instrument : k \in DOMAIN plans'} : mark[i] = price[i]
  BY DEF Intends, StartIntent
<1>3. \A i \in Instruments : mark[i] = None \/ mark[i] \in Int
  <2>1. Prices \subseteq Int
    BY RiskAssumption
  <2>2. \A i \in Instruments : price[i] \in Int
    BY <2>1 DEF PlanInv, BooksSane
  <2>3. b \in Instruments
    BY DEF Intends
  <2> QED BY <2>2, <2>3 DEF Mark
<1> HIDE DEF mark
<1> SUFFICES ASSUME fresh', marked' PROVE ExactInv'
  BY DEF ExactInv
<1>4. open' = {} /\ (\A i \in Instruments : holding[i].quantity # 0 => mark[i] = price[i])
      /\ \A k \in DOMAIN plans' : mark[plans'[k].instrument] = price[plans'[k].instrument]
  BY <1>1, <1>2
<1>5. Values(mark) = Values(price)
  BY <1>3, <1>4, ExactMarks
<1>6. RiskState(mark, session[b]).equity = Equity /\ RiskState(mark, session[b]).exposure = Exposure
  <2>1. /\ RiskState(mark, session[b]).equity = cash + SumFunction(Values(mark))
        /\ RiskState(mark, session[b]).exposure = SumFunction([i \in Instruments |-> Abs(Values(mark)[i])])
    BY RiskStateIs
  <2> QED BY <1>5, <2>1 DEF Equity, Exposure
<1>7. Equity \in Int /\ Exposure \in Int /\ paid \in Int
  BY AccountNumbers DEF Numbers, PlanInv, BooksSane
<1>8. Worth' = Equity /\ Exposure' = Exposure
  <2>1. Equity' = Equity /\ Exposure' = Exposure
    BY <1>1 DEF Equity, Exposure, Values
  <2>2. Worth' = Equity + (paid - paid)
    BY <1>1, <1>2, <2>1 DEF Worth
  <2> QED BY <1>7, <2>1, <2>2
<1>9. busy' => risk' = RiskState(mark, session[b])
  <2>1. plans' \in Seq(Legs)
    BY <1>1 DEF PlanInv, BooksSane
  <2>2. busy' => 1 \in DOMAIN plans'
    BY <2>1 DEF busy
  <2> QED BY <1>1, <2>2
<1>10. busy' => risk'.equity = Worth' /\ risk'.exposure \in Int /\ Exposure' <= risk'.exposure
  BY <1>6, <1>7, <1>8, <1>9
<1>11. \A l \in UnderWay' : l.price = price'[l.instrument]
  BY <1>1, <1>4 DEF UnderWay
<1> QED BY <1>2, <1>4, <1>10, <1>11 DEF ExactInv

\* The leg that grows is judged by the exposure that is left without it.
LEMMA SubmitExact ==
    ASSUME PlanInv, FreshInv, ExactInv, SubmitPlan
    PROVE  ExactInv'
<1> DEFINE plan == Head(plans)
<1>1. /\ Queued /\ plan \in Legs /\ plan = plans[1] /\ 1 \in DOMAIN plans /\ ~Rejected(plan)
      /\ \A k \in DOMAIN plans' :
            /\ k + 1 \in DOMAIN plans /\ k + 1 # 1 /\ plans'[k] = plans[k + 1] /\ risk' = risk
      /\ PlanInv'
  BY SubmitFacts
<1>2. PICK order : order.plan = plan /\ open' = open \cup {order}
  BY SubmitFacts
<1>3. UnderWay' \subseteq UnderWay /\ plan \in UnderWay
  BY <1>1, SubmitFresh DEF UnderWay
<1> HIDE DEF plan
<1>4. UNCHANGED <<rules, cash, holding, paid, paidBefore, price, fresh, marked, grew>>
  BY <1>1 DEF Queued
<1> SUFFICES ASSUME fresh, marked PROVE ExactInv'
  BY <1>4 DEF ExactInv
<1>5. \A l : (Grows(l)' <=> Grows(l)) /\ Growth(l)' = Growth(l) /\ Notional(l)' = Notional(l)
  BY <1>4 DEF Grows, Growth, Notional
<1>6. Worth' = Worth /\ Exposure' = Exposure
  BY <1>4 DEF Worth, Equity, Exposure, Values
<1>7. busy /\ (busy' => risk' = risk)
  <2>1. plans' \in Seq(Legs) /\ plans \in Seq(Legs)
    BY <1>1 DEF PlanInv, BooksSane
  <2>2. busy' => 1 \in DOMAIN plans'
    BY <2>1 DEF busy
  <2> QED BY <1>1, <2>1, <2>2 DEF busy
<1>8. ASSUME Grows(plan) PROVE Within(Notional(plan), Growth(plan))
  <2> DEFINE x == plan.instrument
             q == holding[x].quantity
             n == Notional(plan)
             g == Growth(plan)
             e == risk.exposure
  <2>1. ~grew
    BY <1>3, <1>8 DEF FreshInv
  <2>2. /\ risk.equity = Worth /\ e \in Int /\ Exposure <= e
        /\ Worth \in Int /\ Exposure \in Int
    BY <1>7, <2>1, AccountNumbers DEF ExactInv, Numbers
  <2>3. risk.quantity[x] = q
    BY <1>1 DEF FreshInv
  <2>4. q \in Int /\ plan.delta \in Int /\ plan.price \in Int /\ MaxLeverage \in Int /\ MarginDivisor \in Int
    <3>1. MaxLeverage \in Int /\ MarginDivisor \in Int
      BY RiskAssumption
    <3> QED BY <1>1, <3>1, LegNumbers
  <2>5. Abs(q) \in Int /\ Abs(q + plan.delta) \in Int /\ Abs(plan.delta) \in Int
    BY <2>4 DEF Abs
  <2>6. n \in Int /\ g \in Int
    BY <2>4, <2>5 DEF Notional, Growth
  <2>7. "leverage_limit" \in rules => ~(e + n > MaxLeverage * Worth)
    BY <1>1, <2>2 DEF Rejected, LeverageLimit
  <2>8. "margin_limit" \in rules => ~(g > MarginDivisor * Worth - e)
    <3>1. Abs(q + plan.delta) - Abs(q) > 0
      BY <1>8, <2>5 DEF Grows
    <3>2. Increasing(plan) = Abs(q + plan.delta) - Abs(q)
      BY <2>3, <3>1 DEF Increasing
    <3>3. OrderInitialMargin(plan) = g
      BY <3>2 DEF OrderInitialMargin, Growth
    <3> QED BY <1>1, <2>2, <3>3 DEF Rejected, MarginLimit, AvailableMargin
  <2>9. MaxLeverage * Worth \in Int /\ MarginDivisor * Worth \in Int
    BY <2>2, <2>4
  <2> HIDE DEF n, g, e
  <2>10. /\ "leverage_limit" \in rules => Exposure + n <= MaxLeverage * Worth
         /\ "margin_limit" \in rules => Exposure + g <= MarginDivisor * Worth
    BY <2>2, <2>6, <2>7, <2>8, <2>9
  <2> QED BY <2>10 DEF Within, n, g
<1>9. \A o \in open' : Grows(o.plan)' => Within(Notional(o.plan), Growth(o.plan))'
  <2>1. ASSUME NEW o \in open', Grows(o.plan)' PROVE Within(Notional(o.plan), Growth(o.plan))'
    <3>1. Within(Notional(o.plan), Growth(o.plan))
      BY <1>2, <1>5, <1>8, <2>1 DEF ExactInv
    <3> QED BY <1>4, <1>5, <1>6, <3>1 DEF Within
  <2> QED BY <2>1
<1>10. \A l \in UnderWay' : l.price = price'[l.instrument]
  BY <1>3, <1>4 DEF ExactInv
<1>11. busy' => risk'.equity = Worth' /\ risk'.exposure \in Int
  BY <1>6, <1>7 DEF ExactInv
<1>12. busy' /\ ~grew' => Exposure' <= risk'.exposure
  BY <1>4, <1>6, <1>7 DEF ExactInv
<1>13. grew' => Within(0, 0)'
  BY <1>4, <1>6 DEF ExactInv, Within
<1> QED BY <1>9, <1>10, <1>11, <1>12, <1>13 DEF ExactInv

\* A fill uses the room its leg was let through for, or leaves room.
LEMMA FillWithin ==
    ASSUME PlanInv, FreshInv, ExactInv, fresh', marked, NEW o \in open,
           NEW p \in {o.plan.price, price[o.plan.instrument]}, FillOrder(o, p)
    PROVE  ExactInv'
<1> DEFINE x == o.plan.instrument
           q == holding[x].quantity
           d == o.plan.delta
           g == Growth(o.plan)
           n == Notional(o.plan)
<1>1. /\ UNCHANGED <<rules, price, plans, risk, marked, paidBefore>>
      /\ open' = open \ {o} /\ o.plan \in Legs
      /\ grew' = (grew \/ Grows(o.plan))
      /\ fresh' = (fresh /\ p = o.plan.price)
      /\ \A i \in Instruments : i # x => holding'[i] = holding[i]
  BY FillFacts
<1>2. fresh /\ p = o.plan.price
  BY <1>1
<1>3. /\ FreshInv' /\ o.plan \in UnderWay
      /\ \A l \in UnderWay' : l \in UnderWay /\ l.instrument # x /\ (Grows(l)' <=> Grows(l))
  BY <1>2, FillFresh
<1>4. p = price[x]
  BY <1>2, <1>3 DEF ExactInv
<1>5. Worth' = Worth /\ Exposure' = Exposure + g
  BY <1>2, <1>4, FillExact
<1>6. Worth \in Int /\ Exposure \in Int
  BY AccountNumbers DEF Numbers
<1>7. q \in Int /\ d \in Int /\ o.plan.price \in Nat \ {0}
  BY <1>1, LegNumbers
<1>8. g \in Int /\ n \in Int /\ g <= n
  <2>1. /\ Abs(q) \in Int /\ Abs(q + d) \in Int /\ Abs(d) \in Int
        /\ Abs(q + d) - Abs(q) <= Abs(d)
    BY <1>7 DEF Abs
  <2>2. ASSUME NEW a \in Int, NEW b \in Int, NEW c \in Nat \ {0}, a <= b PROVE a * c <= b * c
    BY <2>2
  <2>3. g = (Abs(q + d) - Abs(q)) * o.plan.price /\ n = Abs(d) * o.plan.price
    BY DEF Growth, Notional
  <2>4. Abs(q + d) - Abs(q) \in Int
    BY <2>1
  <2>5. g <= n
    BY <1>7, <2>1, <2>2, <2>3, <2>4
  <2>6. g \in Int /\ n \in Int
    BY <1>7, <2>1, <2>3, <2>4
  <2> QED BY <2>5, <2>6
<1>9. ~Grows(o.plan) => g <= 0
  <2>1. Abs(q) \in Int /\ Abs(q + d) \in Int
    BY <1>7 DEF Abs
  <2>2. ASSUME NEW a \in Int, NEW c \in Nat \ {0}, a <= 0 PROVE a * c <= 0
    BY <2>2
  <2>3. ~Grows(o.plan) => Abs(q + d) - Abs(q) <= 0
    BY <2>1 DEF Grows
  <2>4. Abs(q + d) - Abs(q) \in Int
    BY <2>1
  <2> QED BY <1>7, <2>2, <2>3, <2>4 DEF Growth
<1>10. MaxLeverage * Worth \in Int /\ MarginDivisor * Worth \in Int
  BY <1>6, RiskAssumption
<1>11. \A l \in UnderWay' : l.price = price'[l.instrument]
  BY <1>1, <1>2, <1>3 DEF ExactInv
<1>12. busy' = busy /\ risk' = risk
  BY <1>1 DEF busy
<1>13. busy' => risk'.equity = Worth' /\ risk'.exposure \in Int
  BY <1>2, <1>5, <1>12 DEF ExactInv
<1> HIDE DEF g, n
<1>14. CASE Grows(o.plan)
  <2>1. Within(n, g) /\ grew'
    BY <1>1, <1>2, <1>14 DEF ExactInv, n, g
  <2>2. \A u \in open' : ~Grows(u.plan)'
    <3>1. \A u \in open' : u.plan \in UnderWay'
      BY DEF UnderWay
    <3> QED BY <1>3, <2>1, <3>1 DEF FreshInv
  <2>3. /\ "leverage_limit" \in rules => Exposure + n <= MaxLeverage * Worth
        /\ "margin_limit" \in rules => Exposure + g <= MarginDivisor * Worth
    BY <2>1 DEF Within
  <2>4. /\ "leverage_limit" \in rules => (Exposure + g) + 0 <= MaxLeverage * Worth
        /\ "margin_limit" \in rules => (Exposure + g) + 0 <= MarginDivisor * Worth
    BY <1>6, <1>8, <1>10, <2>3
  <2>5. Within(0, 0)'
    BY <1>1, <1>5, <2>4 DEF Within
  <2> QED BY <1>11, <1>13, <2>1, <2>2, <2>5 DEF ExactInv
<1>15. CASE ~Grows(o.plan)
  <2>1. grew' <=> grew
    BY <1>1, <1>15
  <2>2. Exposure' \in Int /\ Exposure' <= Exposure
    BY <1>5, <1>6, <1>8, <1>9, <1>15
  <2>3. ASSUME NEW a \in Int, NEW c \in Int, Within(a, c)
        PROVE  /\ "leverage_limit" \in rules' => Exposure' + a <= MaxLeverage * Worth'
               /\ "margin_limit" \in rules' => Exposure' + c <= MarginDivisor * Worth'
    BY <1>1, <1>5, <1>6, <1>10, <2>2, <2>3 DEF Within
  <2>4. busy' /\ ~grew' => Exposure' <= risk'.exposure
    <3>1. busy /\ ~grew => Exposure <= risk.exposure /\ risk.exposure \in Int
      BY <1>2 DEF ExactInv
    <3> QED BY <1>6, <1>12, <2>1, <2>2, <3>1
  <2>5. grew' => Within(0, 0)'
    <3>1. grew => Within(0, 0)
      BY <1>2 DEF ExactInv
    <3> QED BY <2>1, <2>3, <3>1 DEF Within
  <2>6. ASSUME NEW u \in open', Grows(u.plan)' PROVE Within(Notional(u.plan), Growth(u.plan))'
    <3>1. u.plan \in UnderWay' /\ u \in open
      BY <1>1 DEF UnderWay
    <3>2. u.plan.instrument # x /\ Grows(u.plan) /\ u.plan \in Legs
      BY <1>3, <2>6, <3>1 DEF PlanInv, BooksSane
    <3>3. Within(Notional(u.plan), Growth(u.plan))
      BY <1>2, <3>1, <3>2 DEF ExactInv
    <3>4. /\ u.plan.instrument \in Instruments /\ u.plan.delta \in Int /\ u.plan.price \in Int
          /\ holding[u.plan.instrument].quantity \in Int
      BY <3>2, LegNumbers
    <3>5. Notional(u.plan)' = Notional(u.plan) /\ Growth(u.plan)' = Growth(u.plan)
      BY <1>1, <3>2, <3>4 DEF Notional, Growth
    <3>6. Notional(u.plan) \in Int /\ Growth(u.plan) \in Int
      BY <3>4 DEF Notional, Growth, Abs
    <3> QED BY <2>3, <3>3, <3>5, <3>6 DEF Within
  <2> QED BY <1>11, <1>13, <2>4, <2>5, <2>6 DEF ExactInv
<1> QED BY <1>14, <1>15

\* On exact marks the intent's risk state bounds the account, through every order in which its
\* legs may be sent, rejected, dropped and filled.
THEOREM ExactInvariant == RiskSpec => []ExactInv
<1>1. RiskInit => ExactInv
  BY DEF RiskInit, ExactInv
<1>2. PlanInv /\ FreshInv /\ ExactInv /\ [RiskNext]_riskVars => ExactInv'
  <2> SUFFICES ASSUME PlanInv, FreshInv, ExactInv, [RiskNext]_riskVars PROVE ExactInv'
    OBVIOUS
  <2>1. CASE MarketStep
    <3>1. /\ UNCHANGED <<rules, cash, holding, paid, paidBefore, marked, grew, plans, risk, open>>
          /\ PlanInv'
      BY <2>1, MarketFacts
    <3>2. fresh' => fresh /\ price' = price
      BY <2>1 DEF MarketStep, Bar, NextSession, Roll, riskVars, market
    <3> QED BY <3>1, <3>2, FewerExact
  <2>2. CASE RiskRaises \/ RejectPlan
    <3>1. /\ UNCHANGED <<rules, cash, holding, paid, paidBefore, fresh, marked, grew, price, open>>
          /\ \A k \in DOMAIN plans' :
                k + 1 \in DOMAIN plans /\ plans'[k] = plans[k + 1] /\ risk' = risk
          /\ PlanInv'
      BY <2>2, RejectionFacts DEF Queued
    <3> QED BY <3>1, FewerExact
  <2>3. ASSUME NEW o \in open, DropOrder(o) PROVE ExactInv'
    <3>1. /\ UNCHANGED <<rules, cash, holding, paid, paidBefore, fresh, marked, grew, price, plans, risk>>
          /\ open' = open \ {o} /\ PlanInv'
      BY <2>3, DropFacts DEF Queued
    <3> QED BY <3>1, FewerExact
  <2>4. ASSUME NEW o \in open, NEW p \in {o.plan.price, price[o.plan.instrument]}, FillOrder(o, p)
        PROVE  ExactInv'
    <3>1. marked' = marked
      BY <2>4, FillFacts
    <3>2. CASE fresh' /\ marked
      BY <2>4, <3>2, FillWithin
    <3>3. CASE ~(fresh' /\ marked)
      BY <3>1, <3>3 DEF ExactInv
    <3> QED BY <3>2, <3>3
  <2> QED BY <2>1, <2>2, <2>3, <2>4, RiskSteps, IntentExact, SubmitExact
<1> QED BY <1>1, <1>2, PlanInvariant, FreshInvariant, PTL DEF RiskSpec

\* Judged all by the state before the first of them, the legs of an intent leave the account
\* within its leverage and with its margin covered, whichever are filled and in whichever order,
\* for any instruments, prices, targets and limits (process_intent, LeverageLimitRule, MarginRule).
THEOREM LimitsAfterFillsAlways == RiskSpec => []LimitsAfterFills
<1>1. PlanInv /\ ExactInv => LimitsAfterFills
  <2> SUFFICES ASSUME PlanInv, ExactInv, fresh, marked, grew PROVE LimitsAfterFills
    BY DEF LimitsAfterFills
  <2>1. Within(0, 0)
    BY DEF ExactInv
  <2>2. Exposure \in Int
    BY AccountNumbers DEF Numbers
  <2>3. Exposure + 0 = Exposure
    BY <2>2
  <2>4. /\ "leverage_limit" \in rules => Exposure <= MaxLeverage * Worth
        /\ "margin_limit" \in rules => Exposure <= MarginDivisor * Worth
    BY <2>1, <2>3 DEF Within
  <2> QED BY <2>4 DEF LimitsAfterFills, Worth
<1> QED BY <1>1, PlanInvariant, ExactInvariant, PTL

-----------------------------------------------------------------------------
(***************************************************************************)
(* The loss of a session.                                                  *)
(***************************************************************************)

\* Nothing was in flight when the latest session began, and all intents since were on its bars.
Counted == opening.settled /\ ~opening.strayed

\* Until its first intent a session that is counted has realized nothing; from then on the
\* calculator's baseline is the result at the session's start, and on exact marks the risk
\* state's loss is the session's.
LossInv ==
    /\ opening \in [session : Nat \ {0}, realized : Int, settled : BOOLEAN, strayed : BOOLEAN]
    /\ session \in [Instruments -> 1..opening.session]
    /\ calculator.session \in {None} \cup 1..opening.session
    /\ calculator.baseline \in [Instruments -> Int]
    /\ Counted /\ calculator.session # opening.session =>
          open = {} /\ plans = <<>> /\ SumFunction(Realized) = opening.realized
    /\ Counted /\ calculator.session = opening.session =>
          SumFunction(calculator.baseline) = opening.realized
    /\ Counted /\ fresh /\ marked /\ busy => risk.pnl = SessionPnl

\* Less is under way, in the same session and on the same books.
LEMMA FewerLoss ==
    ASSUME PlanInv, PlanInv', LossInv, UNCHANGED <<session, calculator, opening, holding, marked>>,
           fresh' => fresh /\ price' = price,
           open' \subseteq open,
           \A k \in DOMAIN plans' : risk' = risk /\ \E j \in DOMAIN plans : plans'[k] = plans[j]
    PROVE  LossInv'
<1>1. plans' \in Seq(Legs) /\ plans \in Seq(Legs)
  BY DEF PlanInv, BooksSane
<1>2. busy' => busy /\ risk' = risk
  <2>1. busy' => 1 \in DOMAIN plans'
    BY <1>1 DEF busy
  <2>2. \A j \in DOMAIN plans : plans # <<>>
    BY <1>1
  <2> QED BY <2>1, <2>2 DEF busy
<1>3. plans = <<>> => plans' = <<>>
  BY <1>2 DEF busy
<1>4. Realized' = Realized
  BY DEF Realized
<1>5. fresh' => SessionPnl' = SessionPnl
  BY <1>4 DEF SessionPnl, Unrealized
<1>6. Counted' = Counted
  BY DEF Counted
<1>7. Counted /\ calculator'.session # opening'.session =>
         open' = {} /\ plans' = <<>> /\ SumFunction(Realized)' = opening'.realized
  BY <1>3, <1>4 DEF LossInv
<1>8. Counted /\ calculator'.session = opening'.session =>
         SumFunction(calculator'.baseline) = opening'.realized
  BY DEF LossInv
<1>9. Counted /\ fresh' /\ marked' /\ busy' => risk'.pnl = SessionPnl'
  BY <1>2, <1>5 DEF LossInv
<1> QED BY <1>6, <1>7, <1>8, <1>9 DEF LossInv

\* The latest session begins with what was realized so far, which its first intent will find;
\* an instrument that follows the others into it changes nothing.
LEMMA NextSessionLoss ==
    ASSUME PlanInv, LossInv, NEW i \in Instruments, NextSession(i)
    PROVE  LossInv'
<1>1. /\ plans = <<>> /\ session' = [session EXCEPT ![i] = session[i] + 1]
      /\ UNCHANGED <<calculator, holding, open, plans>>
      /\ opening' = IF session[i] < opening.session THEN opening
                    ELSE [session |-> session[i] + 1, realized |-> SumFunction(Realized),
                          settled |-> open = {}, strayed |-> FALSE]
  BY DEF NextSession, busy, books
<1>2. SumFunction(Realized) \in Int /\ Realized' = Realized
  BY <1>1, AccountNumbers DEF Numbers, Realized
<1>3. ~busy'
  BY <1>1 DEF busy
<1>4. /\ opening.session \in Nat \ {0} /\ session \in [Instruments -> 1..opening.session]
      /\ session[i] \in 1..opening.session
      /\ calculator.session \in {None} \cup 1..opening.session /\ None \notin Int
      /\ calculator'.baseline \in [Instruments -> Int]
  BY <1>1, RiskAssumption DEF LossInv
<1>5. CASE session[i] < opening.session
  <2>1. opening' = opening /\ Counted' = Counted
    BY <1>1, <1>5 DEF Counted
  <2>2. session[i] + 1 \in 1..opening.session
    BY <1>4, <1>5
  <2>3. session' \in [Instruments -> 1..opening'.session]
    BY <1>1, <1>4, <2>1, <2>2
  <2> QED BY <1>1, <1>2, <1>3, <2>1, <2>3 DEF LossInv
<1>6. CASE ~(session[i] < opening.session)
  <2>1. session[i] = opening.session
    BY <1>4, <1>6
  <2>2. opening' = [session |-> session[i] + 1, realized |-> SumFunction(Realized),
                    settled |-> open = {}, strayed |-> FALSE]
    BY <1>1, <1>6
  <2>3. /\ opening'.session = opening.session + 1 /\ opening'.realized = SumFunction(Realized)
        /\ (opening'.settled <=> open = {})
    BY <2>1, <2>2, Zenon
  <2>4. opening' \in [session : Nat \ {0}, realized : Int, settled : BOOLEAN, strayed : BOOLEAN]
    <3>1. session[i] + 1 \in Nat \ {0}
      BY <1>4, <2>1
    <3> QED BY <1>2, <2>2, <3>1
  <2>5. /\ 1..opening.session \subseteq 1..(opening.session + 1)
        /\ opening.session + 1 \in 1..(opening.session + 1)
        /\ opening.session + 1 \notin 1..opening.session /\ opening.session + 1 \in Int
    BY <1>4
  <2>6. /\ session' \in [Instruments -> 1..opening'.session]
        /\ calculator'.session \in {None} \cup 1..opening'.session
        /\ calculator'.session # opening'.session
    BY <1>1, <1>4, <2>1, <2>3, <2>5
  <2>7. Counted' => open = {}
    BY <2>3 DEF Counted
  <2> QED BY <1>1, <1>2, <1>3, <1>4, <2>3, <2>4, <2>6, <2>7 DEF LossInv
<1> QED BY <1>5, <1>6

\* The first intent of a session takes what was realized before it as its baseline.
LEMMA IntentLoss ==
    ASSUME PlanInv, LossInv, NEW asset, NEW b, NEW target, Intends(asset, b, target)
    PROVE  LossInv'
<1> DEFINE mark == Mark(asset, b)
           id == session[b]
           pnl == [i \in Instruments |-> Realized[i] - Baseline(id)[i] + Unrealized(mark)[i]]
<1>1. /\ UNCHANGED <<session, holding, price, open>> /\ PlanInv'
      /\ \A k \in DOMAIN plans' : risk' = RiskState(mark, id)
  BY IntentFacts
<1>2. /\ calculator' = [session |-> id, baseline |-> Baseline(id)]
      /\ opening' = [opening EXCEPT !.strayed = opening.strayed \/ id # opening.session]
      /\ marked' => \A i \in Instruments : holding[i].quantity # 0 => mark[i] = price[i]
  BY DEF Intends, StartIntent
<1>3. calculator'.session = id /\ calculator'.baseline = Baseline(id)
  BY <1>2
<1>4. \A i \in Instruments : mark[i] = None \/ mark[i] \in Int
  <2>1. Prices \subseteq Int
    BY RiskAssumption
  <2>2. \A i \in Instruments : price[i] \in Int
    BY <2>1 DEF PlanInv, BooksSane
  <2>3. b \in Instruments
    BY DEF Intends
  <2> QED BY <2>2, <2>3 DEF Mark
<1> HIDE DEF mark
<1>5. /\ Realized \in [Instruments -> Int] /\ Unrealized(price) \in [Instruments -> Int]
      /\ SumFunction(Realized) \in Int /\ SumFunction(Unrealized(price)) \in Int
  BY AccountNumbers DEF Numbers
<1>6. Baseline(id) \in [Instruments -> Int]
  BY <1>5 DEF Baseline, LossInv
<1>o. /\ opening' \in [session : Nat \ {0}, realized : Int, settled : BOOLEAN, strayed : BOOLEAN]
      /\ opening'.session = opening.session /\ opening'.realized = opening.realized
      /\ Counted' => Counted /\ id = opening.session
  BY <1>2 DEF LossInv, Counted
<1>i. id \in 1..opening.session
  <2>1. b \in Instruments
    BY DEF Intends
  <2> QED BY <2>1 DEF LossInv
<1> HIDE DEF id
<1>7. Counted' => SumFunction(Baseline(id)) = opening.realized
  <2>1. CASE calculator.session # id
    <3>1. Baseline(id) = Realized
      BY <2>1 DEF Baseline
    <3> QED BY <1>o, <2>1, <3>1 DEF LossInv
  <2>2. CASE calculator.session = id
    <3>1. Baseline(id) = calculator.baseline
      BY <2>2 DEF Baseline
    <3> QED BY <1>o, <2>2, <3>1 DEF LossInv
  <2> QED BY <2>1, <2>2
<1>8. /\ session' \in [Instruments -> 1..opening'.session]
      /\ calculator'.session \in {None} \cup 1..opening'.session
  BY <1>1, <1>3, <1>o, <1>i DEF LossInv
<1>9. ASSUME Counted', marked', busy' PROVE risk'.pnl = SessionPnl'
  <2>1. Unrealized(mark) = Unrealized(price)
    BY <1>2, <1>4, <1>9, ExactMarks
  <2>2. risk' = RiskState(mark, id)
    <3>1. plans' \in Seq(Legs)
      BY <1>1 DEF PlanInv, BooksSane
    <3>2. 1 \in DOMAIN plans'
      BY <1>9, <3>1 DEF busy
    <3> QED BY <1>1, <3>2
  <2>3. risk'.pnl = SumFunction(pnl)
    BY <2>2, RiskStateIs, Zenon
  <2>4. /\ pnl \in [Instruments -> Int]
        /\ \A i \in Instruments : pnl[i] = Realized[i] - Baseline(id)[i] + Unrealized(price)[i]
    BY <1>5, <1>6, <2>1
  <2> HIDE DEF pnl
  <2>5. SumFunction(pnl)
            = SumFunction(Realized) - SumFunction(Baseline(id)) + SumFunction(Unrealized(price))
    BY <1>5, <1>6, <2>4, SumCombined, RiskAssumption
  <2>6. SessionPnl' = SumFunction(Realized) - opening.realized + SumFunction(Unrealized(price))
    BY <1>1, <1>o DEF SessionPnl, Realized, Unrealized
  <2> QED BY <1>7, <1>9, <2>3, <2>5, <2>6
<1> QED BY <1>1, <1>3, <1>6, <1>7, <1>8, <1>9, <1>o DEF LossInv

\* An order can be filled only in a session with an intent or one that began unsettled, and at
\* the market's price it moves the session's result from unrealized to realized.
LEMMA FillLoss ==
    ASSUME PlanInv, FreshInv, ExactInv, LossInv, NEW o \in open,
           NEW p \in {o.plan.price, price[o.plan.instrument]}, FillOrder(o, p)
    PROVE  LossInv'
<1>1. /\ UNCHANGED <<session, calculator, opening, plans, risk, marked>>
      /\ fresh' = (fresh /\ p = o.plan.price)
  BY FillFacts
<1>2. ~(Counted /\ calculator.session # opening.session)
  BY DEF LossInv
<1>3. ASSUME fresh', marked' PROVE SessionPnl' = SessionPnl
  <2>1. fresh /\ marked /\ p = o.plan.price
    BY <1>1, <1>3
  <2>2. p = price[o.plan.instrument]
    BY <2>1 DEF ExactInv, UnderWay
  <2> DEFINE r == SumFunction(Realized)
             u == SumFunction(Unrealized(price))
             r2 == SumFunction(Realized)'
             u2 == SumFunction(Unrealized(price))'
             n == opening.realized
  <2>3. r2 + u2 = r + u
    BY <2>1, <2>2, FillExact
  <2>4. PlanInv'
    BY FillFacts
  <2>5. Numbers'
    BY <2>4, AccountNumbers, PTL
  <2>6. r \in Int /\ u \in Int /\ r2 \in Int /\ u2 \in Int /\ n \in Int
    BY <2>5, AccountNumbers DEF Numbers, LossInv
  <2>7. SessionPnl = r - n + u /\ SessionPnl' = r2 - n + u2
    BY <1>1 DEF SessionPnl
  <2> HIDE DEF r, u, r2, u2, n
  <2> QED BY <2>3, <2>6, <2>7
<1>4. busy' = busy
  BY <1>1 DEF busy
<1>5. Counted /\ fresh' /\ marked' /\ busy' => risk'.pnl = SessionPnl'
  BY <1>1, <1>3, <1>4 DEF LossInv
<1>6. Counted' = Counted
  BY <1>1 DEF Counted
<1> QED BY <1>1, <1>2, <1>5, <1>6 DEF LossInv

\* A plan is sent only in a session that an intent has begun.
LEMMA SubmitLoss ==
    ASSUME PlanInv, LossInv, SubmitPlan
    PROVE  LossInv'
<1>1. /\ UNCHANGED <<session, calculator, opening, holding, price, fresh, marked>>
      /\ 1 \in DOMAIN plans /\ PlanInv'
      /\ \A k \in DOMAIN plans' : risk' = risk
  BY SubmitFacts DEF Queued
<1>2. plans \in Seq(Legs) /\ plans' \in Seq(Legs)
  BY <1>1 DEF PlanInv, BooksSane
<1>3. plans # <<>> /\ (busy' => risk' = risk)
  <2>1. busy' => 1 \in DOMAIN plans'
    BY <1>2 DEF busy
  <2> QED BY <1>1, <1>2, <2>1
<1>4. ~(Counted /\ calculator.session # opening.session)
  BY <1>3 DEF LossInv
<1>5. SessionPnl' = SessionPnl
  BY <1>1 DEF SessionPnl, Realized, Unrealized
<1>6. Counted /\ fresh' /\ marked' /\ busy' => risk'.pnl = SessionPnl'
  BY <1>1, <1>3, <1>5 DEF LossInv, busy
<1>7. Counted' = Counted
  BY <1>1 DEF Counted
<1> QED BY <1>1, <1>4, <1>6, <1>7 DEF LossInv

\* While intents are on its bars the calculator's baseline is the latest session's opening, and
\* the risk state's loss is the session's.
THEOREM LossInvariant == RiskSpec => []LossInv
<1>1. RiskInit => LossInv
  <2> SUFFICES ASSUME RiskInit PROVE LossInv
    OBVIOUS
  <2> DEFINE Z == [i \in Instruments |-> 0]
  <2>1. Realized = Z
    BY DEF RiskInit, Flat, Realized
  <2>2. SumFunction(Z) = 0
    <3>1. Z \in [Instruments -> Int] /\ IsFiniteSet(Instruments)
      BY RiskAssumption
    <3>2. \A i \in Instruments : Z[i] = 0
      OBVIOUS
    <3> HIDE DEF Z
    <3> QED BY <3>1, <3>2, SumOfZeros
  <2>3. /\ session = [i \in Instruments |-> 1]
        /\ calculator = [session |-> None, baseline |-> Z] /\ None \notin Int
        /\ opening = [session |-> 1, realized |-> 0, settled |-> TRUE, strayed |-> FALSE]
        /\ open = {} /\ plans = <<>> /\ ~fresh
    BY RiskAssumption DEF RiskInit
  <2>4. Z \in [Instruments -> Int]
    OBVIOUS
  <2> HIDE DEF Z
  <2>5. /\ calculator.session = None /\ calculator.baseline = Z /\ opening.realized = 0
        /\ None # 1 /\ opening.session = 1
        /\ opening \in [session : Nat \ {0}, realized : Int, settled : BOOLEAN, strayed : BOOLEAN]
    BY <2>3
  <2> QED BY <2>1, <2>2, <2>3, <2>4, <2>5 DEF LossInv
<1>2. PlanInv /\ FreshInv /\ ExactInv /\ LossInv /\ [RiskNext]_riskVars => LossInv'
  <2> SUFFICES ASSUME PlanInv, FreshInv, ExactInv, LossInv, [RiskNext]_riskVars PROVE LossInv'
    OBVIOUS
  <2>1. CASE MarketStep
    <3>1. UNCHANGED <<holding, marked, plans, risk, open>> /\ PlanInv'
      BY <2>1, MarketFacts
    <3>2. \/ \E i \in Instruments : NextSession(i)
          \/ UNCHANGED <<session, calculator, opening>> /\ (fresh' => fresh /\ price' = price)
      BY <2>1 DEF MarketStep, Bar, NextSession, Roll, riskVars, market
    <3> QED BY <3>1, <3>2, NextSessionLoss, FewerLoss
  <2>2. CASE RiskRaises \/ RejectPlan
    <3>1. /\ UNCHANGED <<session, calculator, opening, holding, marked, fresh, price, open>>
          /\ \A k \in DOMAIN plans' :
                k + 1 \in DOMAIN plans /\ plans'[k] = plans[k + 1] /\ risk' = risk
          /\ PlanInv'
      BY <2>2, RejectionFacts DEF Queued
    <3> QED BY <3>1, FewerLoss
  <2>3. ASSUME NEW o \in open, DropOrder(o) PROVE LossInv'
    <3>1. /\ UNCHANGED <<session, calculator, opening, holding, marked, fresh, price, plans, risk>>
          /\ open' = open \ {o} /\ PlanInv'
      BY <2>3, DropFacts DEF Queued
    <3> QED BY <3>1, FewerLoss
  <2> QED BY <2>1, <2>2, <2>3, RiskSteps, IntentLoss, SubmitLoss, FillLoss
<1> QED BY <1>1, <1>2, PlanInvariant, FreshInvariant, ExactInvariant, PTL DEF RiskSpec

\* Once the latest session's loss exceeds the limit no order leaves while intents are on its
\* bars, whatever earlier sessions earned and in whatever order the instruments enter their
\* sessions, for any instruments, prices and limit (IntradayPnlCalculator, IntradayLossLimitRule).
THEOREM LossStopsOrdersAlways == RiskSpec => LossStopsOrders
<1> DEFINE Stops == SubmitPlan /\ "intraday_loss_limit" \in rules /\ fresh /\ marked
                      /\ opening.settled /\ ~opening.strayed => SessionPnl >= -MaxLoss
<1>1. PlanInv /\ LossInv /\ [RiskNext]_riskVars => [Stops]_riskVars
  <2> SUFFICES ASSUME PlanInv, LossInv, SubmitPlan, "intraday_loss_limit" \in rules, fresh,
                      marked, opening.settled, ~opening.strayed
               PROVE  SessionPnl >= -MaxLoss
    OBVIOUS
  <2>1. busy /\ ~(risk.pnl < -MaxLoss)
    BY DEF SubmitPlan, Rejected, IntradayLossLimit
  <2>2. risk.pnl = SessionPnl
    BY <2>1 DEF LossInv, Counted
  <2>3. SumFunction(Realized) \in Int /\ SumFunction(Unrealized(price)) \in Int
    BY AccountNumbers DEF Numbers
  <2>4. SessionPnl \in Int /\ MaxLoss \in Int
    BY <2>3, RiskAssumption DEF SessionPnl, LossInv
  <2> QED BY <2>1, <2>2, <2>4
<1> QED BY <1>1, PlanInvariant, LossInvariant, PTL DEF RiskSpec, LossStopsOrders

===============================================================================
