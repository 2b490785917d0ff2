--------------------------- MODULE ActorSupervisor ---------------------------
(***************************************************************************)
(* qts.runtime.actor_supervisor.ActorSupervisor with its RestartPolicy and *)
(* the default MailboxDrainPolicy: every failure of an actor is recorded,  *)
(* a recoverable one is answered with a restart while fewer than           *)
(* MaxRestarts failures lie within the window, and a restart discards the  *)
(* messages still queued for the actor.                                    *)
(***************************************************************************)
EXTENDS Integers, Sequences, FiniteSets

CONSTANTS
    Actors,        \* supervised actors
    MaxRestarts,   \* RestartPolicy.max_restarts
    Window,        \* RestartPolicy.window
    MaxTime,       \* bound: the clock
    MaxFailures    \* bound: failures of one actor

\* RestartPolicy.__post_init__
ASSUME PolicyAssumption ==
    /\ MaxRestarts \in Nat /\ Window \in Nat \ {0}
    /\ MaxTime \in Nat /\ MaxFailures \in Nat

VARIABLES
    now,        \* the clock the failure events are stamped with
    failures,   \* _failure_times of each actor, with the decision taken
    backlog     \* actors whose mailbox holds messages

supervisorVars == <<now, failures, backlog>>

Failure == [at : 0..MaxTime, restarted : BOOLEAN]

SupervisorTypeOK ==
    /\ now \in 0..MaxTime
    /\ failures \in [Actors -> Seq(Failure)]
    /\ backlog \subseteq Actors

SupervisorInit ==
    /\ now = 0
    /\ failures = [a \in Actors |-> <<>>]
    /\ backlog = {}

Tick ==
    /\ now < MaxTime
    /\ now' = now + 1
    /\ UNCHANGED <<failures, backlog>>

\* Something tells the actor a message.
Tell(a) ==
    /\ a \notin backlog
    /\ backlog' = backlog \cup {a}
    /\ UNCHANGED <<now, failures>>

\* A policy that counts only failures older than the window.
RestartsOutsideWindow(a) ==
    Cardinality({i \in DOMAIN failures[a] : failures[a][i].at <= now - Window})

\* restarts_within_window
RestartsWithinWindow(a) ==
    Cardinality({i \in DOMAIN failures[a] : failures[a][i].at > now - Window})

\* should_restart
ShouldRestart(a, recoverable) == recoverable /\ RestartsWithinWindow(a) < MaxRestarts

\* handle_failure: the decision is taken on the failures before this one.
HandleFailure(a, recoverable) ==
    /\ Len(failures[a]) < MaxFailures
    /\ failures' = [failures EXCEPT
          ![a] = Append(@, [at |-> now, restarted |-> ShouldRestart(a, recoverable)])]
    /\ backlog' = IF ShouldRestart(a, recoverable) THEN backlog \ {a} ELSE backlog
    /\ UNCHANGED now

-----------------------------------------------------------------------------
\* No actor is restarted more often than max_restarts within any window, even
\* though the policy counts failures and not restarts and forgets the ones that
\* slid out of the window (RestartPolicy.should_restart).
RestartBudget ==
    \A a \in Actors : \A i \in DOMAIN failures[a] :
        failures[a][i].restarted =>
            Cardinality({j \in 1..i : /\ failures[a][j].restarted
                                      /\ failures[a][j].at > failures[a][i].at - Window})
                <= MaxRestarts

=============================================================================
