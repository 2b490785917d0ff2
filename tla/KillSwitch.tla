------------------------------ MODULE KillSwitch ------------------------------
(***************************************************************************)
(* RuntimeSafetyController.activate_kill_switch and the rollback on top of *)
(* the order path.  Both call into the actors with ask, which drains the   *)
(* order manager's mailbox before it answers, so whatever is queued there  *)
(* is handled within the call, and a handler that raises ends it.          *)
(*                                                                         *)
(* A kill switch latches its flag, asks for the active orders, and for     *)
(* each of them asks for the route and tells a cancel; then it drives the  *)
(* mailboxes once and reads the orders and the account for its evidence.   *)
(* A rollback asks for the active orders before it latches.  While the     *)
(* flag is set bars return before strategies run: nobody requests orders   *)
(* or cancels, and nobody drives the mailboxes.                            *)
(***************************************************************************)
EXTENDS OrderFlow

CONSTANT MaxCalls   \* bound: activations and rollbacks

ASSUME CallsAssumption == MaxCalls \in Nat

VARIABLES
    killFlag,     \* RuntimeSafetyState._active
    step,         \* how far the current call has got
    toCancel,     \* active orders whose cancel has not been told yet
    killOrders,   \* active_orders_by_partition of the last activation
    calls,        \* calls made
    call,         \* history: which call was last made
    outcome       \* history: how it ended

callVars == <<calls, call>>
killVars == <<killFlag, step, toCancel, killOrders, callVars, outcome>>
allVars == <<flowVars, killVars>>

Step == {"none", "snapshot", "tell", "drive", "evidence", "rollback", "rollback_evidence"}

KillTypeOK ==
    /\ FlowTypeOK
    /\ killFlag \in BOOLEAN
    /\ step \in Step
    /\ toCancel \subseteq killOrders
    /\ killOrders \subseteq OrderIds
    /\ calls \in 0..MaxCalls
    /\ call \in {"none", "activate", "rollback"}
    /\ outcome \in {"none", "running", "returned", "raised"}

KillInit ==
    /\ FlowInit
    /\ killFlag = FALSE
    /\ step = "none"
    /\ toCancel = {} /\ killOrders = {}
    /\ calls = 0 /\ call = "none" /\ outcome = "none"

-----------------------------------------------------------------------------
(***************************************************************************)
(* The order path, with or without a call in progress.                     *)
(***************************************************************************)

\* blocked_reason: KILL_SWITCH_ACTIVE returns from the bar before any strategy.
Trade ==
    /\ ~killFlag
    /\ \/ \E k \in RequestKind, o \in OrderIds : Request(k, o)
       \/ Pump
    /\ UNCHANGED killVars

\* A handler that raises takes the call with it.
Handle ==
    /\ OMStep \/ Execute \/ ExecuteRaises \/ AccountStep
    /\ IF phase' = "idle" /\ step # "none"
       THEN step' = "none" /\ outcome' = "raised"
       ELSE UNCHANGED <<step, outcome>>
    /\ UNCHANGED <<killFlag, toCancel, killOrders, callVars>>

\* process_all of an ordinary drive, or of the drive within an activation.
Drive ==
    /\ step = "none" \/ (step = "drive" /\ phase # "account")
    /\ Drained
    /\ UNCHANGED killVars

Broker ==
    /\ \/ \E o \in OrderIds, k \in FillKind : Fill(o, k)
       \/ \E o \in OrderIds : Reject(o)
       \/ \E r \in Reports : Deliver(r)
    /\ UNCHANGED killVars

-----------------------------------------------------------------------------
(***************************************************************************)
(* activate_kill_switch with cancel_active_orders.                         *)
(***************************************************************************)
Call(kind, first) ==
    /\ phase = "idle"
    /\ calls < MaxCalls
    /\ calls' = calls + 1
    /\ call' = kind
    /\ step' = first
    /\ outcome' = "running"
    /\ phase' = "om1"
    /\ UNCHANGED <<omVars, requested, boxVars, routeMeta, brokerVars, accountVars, historyVars>>

Activate ==
    /\ Call("activate", "snapshot")
    /\ killFlag' = TRUE
    /\ toCancel' = {} /\ killOrders' = {}

\* Orders of the snapshot that are not FILLED, CANCELLED or REJECTED.
Active == {o \in OrderIds : Tracked(o) /\ orders[o] \notin TerminalStates}

\* GetOrderManagerSnapshot, once the mailbox is drained.
TakeSnapshot ==
    /\ step = "snapshot" /\ omBox = <<>>
    /\ killOrders' = Active
    /\ toCancel' = Active
    /\ step' = "tell"
    /\ UNCHANGED <<flowVars, killFlag, callVars, outcome>>

\* An activation that leaves partly filled orders alone.
TellCancelUnfilled(o) ==
    /\ step = "tell" /\ omBox = <<>>
    /\ o \in toCancel
    /\ toCancel' = toCancel \ {o}
    /\ omBox' = IF orders[o] = "PARTIALLY_FILLED" THEN <<>>
                ELSE <<[kind |-> "cancel", order |-> o]>>
    /\ UNCHANGED <<omVars, phase, requested, execBox, accBox, routeMeta, brokerVars,
                   accountVars, historyVars, killFlag, step, killOrders, callVars, outcome>>

\* GetRouteMetadata, which drains what was told before, then tell(CancelOrder).
TellCancel(o) ==
    /\ step = "tell" /\ omBox = <<>>
    /\ o \in toCancel
    /\ toCancel' = toCancel \ {o}
    /\ omBox' = <<[kind |-> "cancel", order |-> o]>>
    /\ UNCHANGED <<omVars, phase, requested, execBox, accBox, routeMeta, brokerVars,
                   accountVars, historyVars, killFlag, step, killOrders, callVars, outcome>>

StartDrive ==
    /\ step = "tell" /\ toCancel = {}
    /\ step' = "drive"
    /\ UNCHANGED <<flowVars, killFlag, toCancel, killOrders, callVars, outcome>>

\* An activation that waits until every order is CANCELLED.
ReadOrdersCancelled ==
    /\ step = "drive" /\ phase = "account" /\ accBox = <<>>
    /\ \A o \in killOrders : orders[o] = "CANCELLED"
    /\ step' = "evidence"
    /\ phase' = "account"
    /\ UNCHANGED <<omVars, requested, boxVars, routeMeta, brokerVars, accountVars, historyVars,
                   killFlag, toCancel, killOrders, callVars, outcome>>

\* GetOrder of every active order, then the account snapshots.
ReadOrders ==
    /\ step = "drive" /\ phase = "account" /\ accBox = <<>>
    /\ step' = "evidence"
    /\ phase' = IF killOrders = {} THEN "account" ELSE "om1"
    /\ UNCHANGED <<omVars, requested, boxVars, routeMeta, brokerVars, accountVars, historyVars,
                   killFlag, toCancel, killOrders, callVars, outcome>>

ReadAccount ==
    /\ step = "evidence" /\ phase = "om1" /\ omBox = <<>>
    /\ phase' = "account"
    /\ UNCHANGED <<omVars, requested, boxVars, routeMeta, brokerVars, accountVars, historyVars,
                   killVars>>

\* The evidence is written and the call returns.
Return ==
    /\ step \in {"evidence", "rollback_evidence"} /\ phase = "account" /\ accBox = <<>>
    /\ step' = "none"
    /\ outcome' = "returned"
    /\ phase' = "idle"
    /\ UNCHANGED <<omVars, requested, boxVars, routeMeta, brokerVars, accountVars, historyVars,
                   killFlag, toCancel, killOrders, callVars>>

-----------------------------------------------------------------------------
\* rollback: the active orders are asked for first, then the flag is set and
\* the account snapshots are taken.
BeginRollback ==
    /\ Call("rollback", "rollback")
    /\ UNCHANGED <<killFlag, toCancel, killOrders>>

LatchRollback ==
    /\ step = "rollback" /\ omBox = <<>>
    /\ killFlag' = TRUE
    /\ step' = "rollback_evidence"
    /\ phase' = "account"
    /\ UNCHANGED <<omVars, requested, boxVars, routeMeta, brokerVars, accountVars, historyVars,
                   toCancel, killOrders, callVars, outcome>>

Deactivate ==
    /\ phase = "idle" /\ killFlag
    /\ killFlag' = FALSE
    /\ call' = "none" /\ outcome' = "none"
    /\ killOrders' = {} /\ toCancel' = {}
    /\ UNCHANGED <<flowVars, step, calls>>

-----------------------------------------------------------------------------
CallStep ==
    \/ TakeSnapshot \/ StartDrive \/ ReadOrders \/ ReadAccount \/ Return \/ LatchRollback
    \/ \E o \in OrderIds : TellCancel(o)

KillNext ==
    \/ Trade \/ Handle \/ Drive \/ Broker
    \/ Activate \/ BeginRollback \/ Deactivate
    \/ CallStep

\* One thread runs the calls and the drives to their end.
KillSpec ==
    /\ KillInit /\ [][KillNext]_allVars
    /\ WF_allVars(Handle \/ Drive)
    /\ WF_allVars(CallStep)

-----------------------------------------------------------------------------
(***************************************************************************)
(* Properties.                                                             *)
(***************************************************************************)

\* When an activation returns, none of the orders it found active is still
\* working at the broker, whatever fills and acknowledgements came in between,
\* and no submission is left in a mailbox for a later drive to send: the
\* evidence it writes is not contradicted by the venue then or afterwards
\* (activate_kill_switch).
ReturnedMeansStopped ==
    call = "activate" /\ outcome = "returned" =>
        /\ \A o \in killOrders : venue[o] # "open"
        /\ \A box \in {omBox, execBox} : \A i \in DOMAIN box : box[i].kind # "submit"

\* An activation or a rollback ends: it returns or an exception reaches the
\* operator, although every ask drains a mailbox others write to
\* (activate_kill_switch, rollback).
CallEnds == step # "none" ~> step = "none"

\* tests/integration/test_live_kill_switch_flow.py: the kill switch "cancels all
\* active orders".  When an activation is over, no order it found active is left
\* working at the broker with nobody having asked for its cancellation.
AllActiveCancelled ==
    call = "activate" /\ outcome \in {"returned", "raised"} =>
        \A o \in toCancel : venue[o] # "open"

\* RuntimeSession.rollback: "Stop new orders and preserve rollback evidence."
\* Once a rollback has ended, new orders are blocked.
RollbackStops == call = "rollback" /\ outcome \in {"returned", "raised"} => killFlag

\* activate_kill_switch: "Block new orders".  No order reaches the broker for
\* the first time while the flag is set.
NoOrderOpens ==
    [][killFlag => \A o \in OrderIds : venue[o] = "none" => venue'[o] = "none"]_allVars

=============================================================================
