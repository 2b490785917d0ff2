---------------------------- MODULE OrderManager ----------------------------
(***************************************************************************)
(* qts.execution.order_manager.OrderManager as its only owner, the         *)
(* OrderManagerActor, drives it: submission, cancel, replace, normalized   *)
(* execution reports and compaction of terminal orders.                    *)
(*                                                                         *)
(* The actor handles one message at a time, so every handler is one        *)
(* atomic action.  An order id may be submitted again: create_order        *)
(* overwrites a tracked order without complaint, and the numbering of      *)
(* RuntimeSession does produce the same id twice (module IntentProcessing).*)
(***************************************************************************)
EXTENDS OrderStateMachine, FiniteSets, Sequences

CONSTANTS
    OrderIds,          \* internal order ids
    BrokerOrderIds,    \* runtime broker order ids
    BrokerId,          \* the broker order id submitted with each order id
    Reports,           \* the execution reports the broker may deliver
    FillIds,           \* fill ids the reports may carry
    ReportIds,         \* report ids
    NoFill,            \* report.fill_id is None or filled_quantity is zero
    NoOrder,           \* no entry in broker_to_order
    Untracked          \* no entry in orders

\* TargetIntentProcessor derives the order id and the broker order id from the
\* same order number, so distinct orders have distinct broker order ids.
ASSUME IdAssumption ==
    /\ BrokerId \in [OrderIds -> BrokerOrderIds]
    /\ \A o, p \in OrderIds : BrokerId[o] = BrokerId[p] => o = p
    /\ NoOrder \notin OrderIds
    /\ NoFill \notin FillIds
    /\ Untracked \notin OrderState

\* ExecutionReport, with the quantity and price reduced to whether the report
\* carries a fill and whether that fill has a price.
ReportType ==
    [report_id : ReportIds, broker_order_id : BrokerOrderIds, status : ReportStatus,
     fill_id : FillIds \cup {NoFill}, priced : BOOLEAN]

ASSUME ReportAssumption == Reports \subseteq ReportType

VARIABLES
    orders,          \* _orders and _machines: the state of each tracked order
    brokerToOrder,   \* _broker_to_order
    seenReports,     \* _seen_report_ids
    reportsByOrder,  \* _report_ids_by_order
    fillIds,         \* _fill_ids
    fillsByOrder,    \* _fill_ids_by_order
    fillsList,       \* _fills_list of the actor
    compactFailed    \* history: a compaction raised half way through

idVars == <<seenReports, reportsByOrder, fillIds, fillsByOrder>>
omVars == <<orders, brokerToOrder, idVars, fillsList, compactFailed>>

Tracked(o) == orders[o] # Untracked

OMTypeOK ==
    /\ orders \in [OrderIds -> OrderState \cup {Untracked}]
    /\ brokerToOrder \in [BrokerOrderIds -> OrderIds \cup {NoOrder}]
    /\ seenReports \subseteq ReportIds
    /\ reportsByOrder \in [OrderIds -> SUBSET ReportIds]
    /\ fillIds \subseteq FillIds
    /\ fillsByOrder \in [OrderIds -> SUBSET FillIds]
    /\ fillsList \in Seq(FillIds)
    /\ compactFailed \in BOOLEAN

OMInit ==
    /\ orders = [o \in OrderIds |-> Untracked]
    /\ brokerToOrder = [b \in BrokerOrderIds |-> NoOrder]
    /\ seenReports = {}
    /\ reportsByOrder = [o \in OrderIds |-> {}]
    /\ fillIds = {}
    /\ fillsByOrder = [o \in OrderIds |-> {}]
    /\ fillsList = <<>>
    /\ compactFailed = FALSE

-----------------------------------------------------------------------------
(***************************************************************************)
(* Requests.                                                               *)
(***************************************************************************)

\* _handle_submit of a risk-approved intent: create_order (CREATED, replacing
\* whatever was tracked under the id) followed by mark_sent.
Submit(o) ==
    /\ orders' = [orders EXCEPT ![o] = Apply("CREATED", "SENT")]
    /\ brokerToOrder' = [brokerToOrder EXCEPT ![BrokerId[o]] = o]
    /\ UNCHANGED <<idVars, fillsList, compactFailed>>

\* A cancel that does not wait for the broker.
RequestCancelAtOnce(o) ==
    /\ Tracked(o)
    /\ CanApply(orders[o], "CANCEL_REQUESTED")
    /\ orders' = [orders EXCEPT ![o] = "CANCELLED"]
    /\ UNCHANGED <<brokerToOrder, idVars, fillsList, compactFailed>>

\* _handle_cancel: the transition of request_cancel, for a tracked order that
\* can take it (otherwise the handler raises and changes nothing).
RequestCancel(o) ==
    /\ Tracked(o)
    /\ CanApply(orders[o], "CANCEL_REQUESTED")
    /\ orders' = [orders EXCEPT ![o] = Apply(@, "CANCEL_REQUESTED")]
    /\ UNCHANGED <<brokerToOrder, idVars, fillsList, compactFailed>>

\* _handle_replace for a broker that supports replace, approved by risk.
RequestReplace(o) ==
    /\ Tracked(o)
    /\ CanApply(orders[o], "REPLACE_REQUESTED")
    /\ orders' = [orders EXCEPT ![o] = Apply(@, "REPLACE_REQUESTED")]
    /\ UNCHANGED <<brokerToOrder, idVars, fillsList, compactFailed>>

-----------------------------------------------------------------------------
(***************************************************************************)
(* Execution reports: ExecutionReportHandler.handle and process_report.    *)
(***************************************************************************)
OrderOf(r) == brokerToOrder[r.broker_order_id]

\* broker_to_order and orders both know the order; otherwise UnknownBrokerOrder
\* or KeyError sends the report to quarantine.
Resolvable(r) == OrderOf(r) # NoOrder /\ Tracked(OrderOf(r))

Duplicate(r) == r.report_id \in seenReports

\* The state machine takes the report's event.
Applicable(r) ==
    Resolvable(r) /\ ~Duplicate(r) /\ CanApply(orders[OrderOf(r)], r.status)

\* _fills_for_report yields a fill; without a price it raises MissingFillPrice.
CarriesFill(r) == r.fill_id # NoFill

\* A fill that is not looked up in the ids seen.
NewFillUnchecked(r) == CarriesFill(r) /\ r.priced

\* A fill whose id was not seen before.
NewFill(r) == CarriesFill(r) /\ r.priced /\ r.fill_id \notin fillIds

\* Late fills of a finished order recorded and then dropped.
FillsForLiveOnly(r) ==
    IF Applicable(r) /\ NewFill(r) /\ orders[OrderOf(r)] \notin TerminalStates
    THEN <<r.fill_id>> ELSE <<>>

\* The fills handed to the actor, in order.
FillsFor(r) == IF Applicable(r) /\ NewFill(r) THEN <<r.fill_id>> ELSE <<>>

\* handle raises out of the actor: OrderTransitionError before any change, or
\* MissingFillPrice after the state and the report id have been recorded.
Raises(r) ==
    \/ Resolvable(r) /\ ~Duplicate(r) /\ ~Applicable(r)
    \/ Applicable(r) /\ CarriesFill(r) /\ ~r.priced

\* An unresolvable report is quarantined by the handler (module OrderFlow
\* keeps that list), a duplicate one is ignored, an inapplicable one raises.
\* None of them changes the manager.
LeaveReport(r) == ~Applicable(r) /\ UNCHANGED omVars

ApplyReport(r) ==
    LET o == OrderOf(r) IN
    /\ Applicable(r)
    /\ orders' = [orders EXCEPT ![o] = Apply(@, r.status)]
    /\ seenReports' = seenReports \cup {r.report_id}
    /\ reportsByOrder' = [reportsByOrder EXCEPT ![o] = @ \cup {r.report_id}]
    /\ IF NewFill(r)
       THEN /\ fillIds' = fillIds \cup {r.fill_id}
            /\ fillsByOrder' = [fillsByOrder EXCEPT ![o] = @ \cup {r.fill_id}]
            /\ fillsList' = Append(fillsList, r.fill_id)
       ELSE UNCHANGED <<fillIds, fillsByOrder, fillsList>>
    /\ UNCHANGED <<brokerToOrder, compactFailed>>

HandleReport(r) == LeaveReport(r) \/ ApplyReport(r)

-----------------------------------------------------------------------------
(***************************************************************************)
(* Compaction: _compact_for_streaming discards the listed orders one by    *)
(* one and then clears the fills list.  discard_terminal_order raises on   *)
(* an order that is not terminal (or not tracked), which leaves the orders *)
(* before it discarded and the fills list uncleared.  Only the streaming   *)
(* backtest sends the message, and the exception ends its run: there is no *)
(* compaction after a failed one.                                          *)
(***************************************************************************)
Discardable(o) == orders[o] \in TerminalStates

DiscardKeepsMapping(os) ==
    /\ orders' = [o \in OrderIds |-> IF o \in os THEN Untracked ELSE orders[o]]
    /\ UNCHANGED <<brokerToOrder, idVars>>

DiscardDropsAllIds(os) ==
    /\ orders' = [o \in OrderIds |-> IF o \in os THEN Untracked ELSE orders[o]]
    /\ brokerToOrder' = [b \in BrokerOrderIds |->
                            IF \E o \in os : BrokerId[o] = b THEN NoOrder ELSE brokerToOrder[b]]
    /\ fillIds' = {} /\ seenReports' = {}
    /\ UNCHANGED <<fillsByOrder, reportsByOrder>>

DiscardTerminalOrders(os) ==
    /\ orders' = [o \in OrderIds |-> IF o \in os THEN Untracked ELSE orders[o]]
    /\ brokerToOrder' = [b \in BrokerOrderIds |->
                            IF \E o \in os : BrokerId[o] = b THEN NoOrder ELSE brokerToOrder[b]]
    /\ fillIds' = fillIds \ UNION {fillsByOrder[o] : o \in os}
    /\ fillsByOrder' = [o \in OrderIds |-> IF o \in os THEN {} ELSE fillsByOrder[o]]
    /\ seenReports' = seenReports \ UNION {reportsByOrder[o] : o \in os}
    /\ reportsByOrder' = [o \in OrderIds |-> IF o \in os THEN {} ELSE reportsByOrder[o]]

CompactForStreaming(os) ==
    /\ ~compactFailed
    /\ \A o \in os : Discardable(o)
    /\ DiscardTerminalOrders(os)
    /\ fillsList' = <<>>
    /\ UNCHANGED compactFailed

\* The listed orders up to, and without, the first one that is not terminal.
CompactFails(os) ==
    /\ ~compactFailed
    /\ \A o \in os : Discardable(o)
    /\ \E o \in OrderIds : ~Discardable(o)
    /\ DiscardTerminalOrders(os)
    /\ compactFailed' = TRUE
    /\ UNCHANGED fillsList

-----------------------------------------------------------------------------
OMNext ==
    \/ \E o \in OrderIds : Submit(o) \/ RequestCancel(o) \/ RequestReplace(o)
    \/ \E r \in Reports : HandleReport(r)
    \/ \E os \in SUBSET OrderIds : CompactForStreaming(os) \/ CompactFails(os)

OMSpec == OMInit /\ [][OMNext]_omVars

-----------------------------------------------------------------------------
(***************************************************************************)
(* Properties.                                                             *)
(***************************************************************************)

\* A mapped broker order id leads to a tracked order that was submitted under
\* it, and every tracked order can be reached by its reports: a live order's
\* report is never quarantined, whatever was discarded or resubmitted before
\* (mark_sent, discard_terminal_order).
BrokerMapSound ==
    /\ \A b \in BrokerOrderIds : brokerToOrder[b] # NoOrder =>
          Tracked(brokerToOrder[b]) /\ BrokerId[brokerToOrder[b]] = b
    /\ \A o \in OrderIds : Tracked(o) => brokerToOrder[BrokerId[o]] = o

\* Every id in the global idempotency sets belongs to exactly one order, so
\* discarding an order forgets its own ids and nobody else's: a compaction
\* cannot make another order's fill or report look new again
\* (process_report, _fills_for_report, discard_terminal_order).
IdOwnership ==
    /\ seenReports = UNION {reportsByOrder[o] : o \in OrderIds}
    /\ fillIds = UNION {fillsByOrder[o] : o \in OrderIds}
    /\ \A o, p \in OrderIds : o # p =>
          /\ reportsByOrder[o] \cap reportsByOrder[p] = {}
          /\ fillsByOrder[o] \cap fillsByOrder[p] = {}

\* The actor hands no fill twice to the account between two compactions, even
\* when the same fill arrives under several report ids or its order is
\* resubmitted (_fills_for_report, _compact_for_streaming).
NoFillReportedTwice ==
    ~compactFailed =>
        \A i, j \in DOMAIN fillsList : fillsList[i] = fillsList[j] => i = j

\* An id leaves the idempotency sets only with its own order: as long as an
\* order stays tracked and is not resubmitted, its reports and fills stay
\* recognised (discard_terminal_order).
TrackedOrderKeepsIds ==
    [][\A o \in OrderIds : Tracked(o) /\ Tracked(o)' =>
          /\ reportsByOrder[o] \subseteq seenReports'
          /\ fillsByOrder[o] \subseteq fillIds']_omVars

\* A FILLED or REJECTED order changes state only by being discarded or by a
\* resubmission of its id, and a CANCELLED one also by a late fill: no other
\* report, in any order or repetition, and no cancel or replace moves it
\* (OrderStateMachine.apply through process_report and request_cancel).
FinishedStaysFinished ==
    [][\A o \in OrderIds : orders[o] \in TerminalStates /\ orders'[o] # orders[o] =>
          \/ orders'[o] \in {Untracked, "SENT"}
          \/ orders[o] = "CANCELLED" /\ orders'[o] \in {"PARTIALLY_FILLED", "FILLED"}]_omVars

=============================================================================
