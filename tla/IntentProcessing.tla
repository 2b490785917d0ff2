--------------------------- MODULE IntentProcessing ---------------------------
(***************************************************************************)
(* qts.runtime.intent_processing.TargetIntentProcessor and its callers:    *)
(* a target for a continuous future becomes one order plan per contract to *)
(* leave and one for the contract to hold, each plan is risk-checked and   *)
(* sent under a number, and the simulated execution answers at once with   *)
(* report 1, and fill 1, of that number.  The callers number differently:  *)
(* RuntimeSession counts intents, the backtest loop counts orders, and the *)
(* streaming backtest also discards the orders of every intent.            *)
(***************************************************************************)
EXTENDS Integers, Sequences, SequencesExt

CONSTANTS
    Contracts,    \* related_contracts_for the continuous future
    Quantities,   \* targets a strategy may ask for
    MaxIntents    \* bound: intents

ASSUME IntentAssumption ==
    /\ IsFiniteSet(Contracts)
    /\ 0 \in Quantities /\ Quantities \subseteq Int
    /\ MaxIntents \in Nat

\* What SimulatedExecutionAdapter answers: filled, resting, or not supported.
ReportStatus == {"FILLED", "ACCEPTED", "REJECTED"}

Caller == {"session", "backtest", "streaming"}
Numbers == 1..(MaxIntents * 2)

VARIABLES
    caller,      \* who calls process_intent
    intents,     \* RuntimeSession._order_sequence
    orderCount,  \* sink.order_count
    front,       \* the contract the roll registry resolves to
    plans,       \* order plans of the current intent that are still to be processed
    processed,   \* numbers of the orders the current intent has sent
    busy,        \* process_intent has not returned
    orders,      \* the order manager's order under each number
    reported,    \* numbers whose report 1 is in _seen_report_ids
    booked,      \* numbers whose fill 1 is in the account's _fill_ids
    position,    \* the account's holdings
    failed,      \* the run has ended in OrderLifecycleError
    executed,    \* history: what the execution has filled
    used,        \* history: numbers sent
    reused,      \* history: numbers sent again
    target       \* history: last intent, and whether all of it was filled under new numbers

actorVars == <<orders, reported, booked, position>>
history == <<executed, used, reused>>
intentVars == <<caller, intents, orderCount, front, plans, processed, busy, failed, actorVars,
                history, target>>

Plan == [instrument : Contracts, delta : Int \ {0}, number : Numbers]

IntentTypeOK ==
    /\ caller \in Caller /\ intents \in 0..MaxIntents /\ orderCount \in 0..(2 * MaxIntents)
    /\ front \in Contracts /\ busy \in BOOLEAN /\ failed \in BOOLEAN
    /\ plans \in Seq(Plan) /\ processed \in Seq(Numbers)
    /\ orders \in [Numbers -> ReportStatus \cup {"NONE", "SENT"}]
    /\ reported \subseteq Numbers /\ booked \subseteq Numbers
    /\ position \in [Contracts -> Int] /\ executed \in [Contracts -> Int]
    /\ used \subseteq Numbers /\ reused \subseteq used
    /\ target \in [instrument : Contracts, quantity : Quantities, clean : BOOLEAN]

Flat == [c \in Contracts |-> 0]

IntentInit ==
    /\ caller \in Caller
    /\ intents = 0 /\ orderCount = 0
    /\ front \in Contracts
    /\ plans = <<>> /\ processed = <<>> /\ busy = FALSE /\ failed = FALSE
    /\ orders = [n \in Numbers |-> "NONE"]
    /\ reported = {} /\ booked = {}
    /\ position = Flat /\ executed = Flat
    /\ used = {} /\ reused = {}
    /\ target = [instrument |-> front, quantity |-> 0, clean |-> TRUE]

-----------------------------------------------------------------------------
(***************************************************************************)
(* Planning.                                                               *)
(***************************************************************************)
\* order_number of the caller: _order_sequence after its increment, or
\* order_count + 1.
OrderNumber == IF caller = "session" THEN intents + 1 ELSE orderCount + 1

\* A builder that trades the front contract only.
DeltasFrontOnly(quantity) ==
    IF quantity = position[front] THEN <<>>
    ELSE <<[instrument |-> front, delta |-> quantity - position[front]]>>

\* OrderPlanBuilder.build: close what is held in the other contracts, then trade
\* the front contract up or down to the target.
Deltas(quantity) ==
    LET leave == {c \in Contracts \ {front} : position[c] # 0}
        close == [i \in 1..Len(SetToSeq(leave)) |->
                    [instrument |-> SetToSeq(leave)[i], delta |-> -position[SetToSeq(leave)[i]]]]
    IN close \o (IF quantity = position[front] THEN <<>>
                 ELSE <<[instrument |-> front, delta |-> quantity - position[front]]>>)

\* The plans carry order_number + index.
BuildPlans(quantity) ==
    [i \in 1..Len(Deltas(quantity)) |->
        [instrument |-> Deltas(quantity)[i].instrument, delta |-> Deltas(quantity)[i].delta,
         number |-> OrderNumber + i - 1]]

\* The roll registry moves on to another contract between bars.
Roll(c) ==
    /\ ~busy /\ c # front
    /\ front' = c
    /\ UNCHANGED <<caller, intents, orderCount, plans, processed, busy, failed, actorVars,
                   history, target>>

\* process_intent up to its loop over the plans.
StartIntent(quantity) ==
    /\ ~busy /\ ~failed
    /\ intents < MaxIntents
    /\ intents' = intents + 1
    /\ plans' = BuildPlans(quantity)
    /\ processed' = <<>>
    /\ busy' = TRUE
    /\ target' = [instrument |-> front, quantity |-> quantity, clean |-> TRUE]
    /\ UNCHANGED <<caller, orderCount, front, failed, actorVars, history>>

-----------------------------------------------------------------------------
(***************************************************************************)
(* One plan: _process_order_delta.                                         *)
(***************************************************************************)

\* The risk engine rejects the plan; the loop goes on with the next one.
RejectPlan ==
    /\ plans # <<>>
    /\ plans' = Tail(plans)
    /\ target' = [target EXCEPT !.clean = FALSE]
    /\ UNCHANGED <<caller, intents, orderCount, front, processed, busy, failed, actorVars, history>>

\* Holdings that take every fill for a purchase.
BookUnsigned(plan) ==
    [position EXCEPT ![plan.instrument] = @ + (IF plan.delta < 0 THEN -plan.delta ELSE plan.delta)]

\* The holdings after a fill of the plan's order (HoldingBook.apply_fill).
Book(plan) == [position EXCEPT ![plan.instrument] = @ + plan.delta]

\* SubmitOrder and the drive.  create_order replaces what was tracked under the
\* number.  The report is a duplicate if report 1 of the number has been seen:
\* then the order stays SENT and its fill goes nowhere.  A fill whose id the
\* account has seen is not booked.
SubmitPlan(status) ==
    LET plan == Head(plans)
        n == plan.number
        fresh == n \notin reported
        filled == status = "FILLED"
    IN /\ plans # <<>>
       /\ plans' = Tail(plans)
       /\ processed' = Append(processed, n)
       /\ orders' = [orders EXCEPT ![n] = IF fresh THEN status ELSE "SENT"]
       /\ reported' = reported \cup {n}
       /\ booked' = IF fresh /\ filled THEN booked \cup {n} ELSE booked
       /\ position' = IF fresh /\ filled /\ n \notin booked THEN Book(plan) ELSE position
       /\ executed' = IF filled THEN [executed EXCEPT ![plan.instrument] = @ + plan.delta]
                      ELSE executed
       /\ used' = used \cup {n}
       /\ reused' = IF n \in used THEN reused \cup {n} ELSE reused
       /\ target' = [target EXCEPT !.clean = @ /\ filled /\ n \notin used]
       /\ UNCHANGED <<caller, intents, orderCount, front, busy, failed>>

\* process_intent returns.  The backtest counts the orders, and the streaming
\* one has them discarded: those before the first that is not terminal go, with
\* their report ids, and on that one discard_terminal_order raises.
FinishIntent ==
    LET open == {i \in DOMAIN processed : orders[processed[i]] \notin {"FILLED", "REJECTED"}}
        gone == IF caller # "streaming" THEN {}
                ELSE {processed[i] : i \in {j \in DOMAIN processed : \A k \in open : j < k}}
    IN /\ busy /\ plans = <<>>
       /\ busy' = FALSE
       /\ orderCount' = orderCount + Len(processed)
       /\ orders' = [n \in Numbers |-> IF n \in gone THEN "NONE" ELSE orders[n]]
       /\ reported' = reported \ gone
       /\ failed' = (caller = "streaming" /\ open # {})
       /\ UNCHANGED <<caller, intents, front, plans, processed, booked, position, history, target>>

IntentNext ==
    \/ \E c \in Contracts : Roll(c)
    \/ \E q \in Quantities : StartIntent(q)
    \/ RejectPlan
    \/ \E status \in ReportStatus : SubmitPlan(status)
    \/ FinishIntent

IntentSpec == IntentInit /\ [][IntentNext]_intentVars

-----------------------------------------------------------------------------
(***************************************************************************)
(* Properties.                                                             *)
(***************************************************************************)
\* When every plan of an intent was filled under a number of its own, the
\* account holds the target in the contract the intent was resolved to and
\* nothing in the others, whatever rolls, rejections and open orders came
\* before (OrderPlanBuilder.build, process_intent).
TargetReached ==
    ~busy /\ target.clean /\ intents > 0 =>
        position = [c \in Contracts |-> IF c = target.instrument THEN target.quantity ELSE 0]

\* The account differs from what was executed only through a number that was
\* sent twice: no other path from a fill to the holdings loses or repeats one
\* (_process_order_delta, process_report, _apply_fill).
DivergesOnlyByReuse == reused = {} => position = executed

\* tests/anchor/test_backtest_paper_behavioral_parity.py: "The bypass guard below
\* fails if a fill is not reflected as a FILLED order *and* an AccountActor
\* cash/position mutation".
FillsReachAccount == position = executed

\* OrderManagerActor._compact_for_streaming: "Discard the given terminal orders":
\* the loop names terminal orders only, and the run goes on.
CompactsTerminalOrders == ~failed

=============================================================================
