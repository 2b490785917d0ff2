------------------------------ MODULE OrderFlow ------------------------------
(***************************************************************************)
(* The order path of a runtime session: the driver that sends requests and *)
(* pumps the mailboxes (TargetIntentProcessor, CancelIntentRouter), the    *)
(* OrderManagerActor, the ExecutionActor with its BrokerExecutionAdapter,  *)
(* the AccountActor, and a broker that answers requests synchronously and  *)
(* reports fills asynchronously.                                           *)
(*                                                                         *)
(* A drive is process_all on the order manager, the execution actor, the   *)
(* order manager again and the account, in that order.  No production      *)
(* ActorRef has a failure_sink: an exception in a handler consumes its     *)
(* message, leaves every other message queued and ends the drive.          *)
(*                                                                         *)
(* Asynchronous broker reports are normalized and put into the order       *)
(* manager's mailbox at any moment, in any order and any number of times.  *)
(***************************************************************************)
EXTENDS OrderManager, Integers

CONSTANTS
    Requests,     \* the <<kind, order>> requests the driver may make, once each
    ReportFor,    \* the broker's report of each kind about each order
    MaxCopies     \* bound: how often the transport delivers each report

RequestKind == {"submit", "cancel", "replace"}
ReportKind == {"ack", "replaced", "cancelled", "rejected", "partial", "final"}
FillKind == {"partial", "final"}

\* The status SimulatedBrokerAdapter puts on each report: submit_order and
\* replace_order answer ACCEPTED, cancel_order CANCELLED, and emit_fill says
\* FILLED when the fill completes the order.  A broker that takes an order off the
\* market (IBKR's Inactive) reports it as REJECTED.
StatusOf(k) ==
    CASE k \in {"ack", "replaced"} -> "ACCEPTED"
      [] k = "cancelled"           -> "CANCELLED"
      [] k = "rejected"            -> "REJECTED"
      [] k = "partial"             -> "PARTIALLY_FILLED"
      [] k = "final"               -> "FILLED"

ASSUME FlowAssumption ==
    /\ Requests \subseteq RequestKind \X OrderIds
    /\ MaxCopies \in [Reports -> Nat]
    /\ ReportFor \in [OrderIds -> [ReportKind -> Reports]]
    /\ \A o \in OrderIds, k \in ReportKind :
          LET r == ReportFor[o][k] IN
          /\ r.broker_order_id = BrokerId[o]
          /\ r.status = StatusOf(k)
          /\ r.priced
          /\ r.fill_id = NoFill <=> k \notin FillKind
    /\ \A o, p \in OrderIds, k, l \in ReportKind :
          \/ ReportFor[o][k].report_id = ReportFor[p][l].report_id
          \/ k \in FillKind /\ ReportFor[o][k].fill_id = ReportFor[p][l].fill_id
          => o = p /\ k = l

VARIABLES
    phase,         \* what the driver is doing: idle, or the mailbox it drains
    requested,     \* the requests made so far
    omBox,         \* the order manager's mailbox
    execBox,       \* the execution actor's mailbox
    accBox,        \* the account's mailbox: fill ids of ApplyFill messages
    routeMeta,     \* keys of _route_metadata_by_order_id
    adapterMap,    \* keys of _runtime_broker_order_id_by_broker_order_id
    venue,         \* each order at the broker
    wire,          \* asynchronous reports the broker has issued
    executed,      \* fills the broker has executed
    copies,        \* how often each report was put into the order manager's mailbox
    accSeen,       \* the account's FillIdempotencyStore
    applied,       \* how often each fill has changed holdings and cash
    quarantined,   \* _quarantined_reports of the ExecutionReportHandler
    failed         \* history: messages whose handler raised

boxVars == <<omBox, execBox, accBox>>
brokerVars == <<adapterMap, venue, wire, executed>>
accountVars == <<accSeen, applied>>
historyVars == <<copies, quarantined, failed>>
flowVars == <<omVars, phase, requested, boxVars, routeMeta, brokerVars, accountVars,
              historyVars>>

Phase == {"idle", "om1", "exec", "om2", "account"}
RequestMsg == [kind : RequestKind, order : OrderIds]
ReportMsg == [kind : {"report"}, report : Reports]
AsReport(r) == [kind |-> "report", report |-> r]

FlowTypeOK ==
    /\ OMTypeOK
    /\ phase \in Phase
    /\ requested \subseteq Requests
    /\ omBox \in Seq(RequestMsg \cup ReportMsg)
    /\ execBox \in Seq(RequestMsg)
    /\ accBox \in Seq(FillIds)
    /\ routeMeta \subseteq OrderIds
    /\ adapterMap \subseteq BrokerOrderIds
    /\ venue \in [OrderIds -> {"none", "open", "filled", "cancelled", "rejected"}]
    /\ wire \subseteq Reports
    /\ executed \subseteq FillIds
    /\ copies \in [Reports -> Nat]
    /\ accSeen \subseteq FillIds
    /\ applied \in [FillIds -> Nat]
    /\ quarantined \subseteq Reports
    /\ failed \subseteq RequestMsg \cup ReportMsg

FlowInit ==
    /\ OMInit
    /\ phase = "idle"
    /\ requested = {}
    /\ omBox = <<>> /\ execBox = <<>> /\ accBox = <<>>
    /\ routeMeta = {}
    /\ adapterMap = {}
    /\ venue = [o \in OrderIds |-> "none"]
    /\ wire = {} /\ executed = {}
    /\ copies = [r \in Reports |-> 0]
    /\ accSeen = {}
    /\ applied = [f \in FillIds |-> 0]
    /\ quarantined = {} /\ failed = {}

-----------------------------------------------------------------------------
(***************************************************************************)
(* The driver.                                                             *)
(***************************************************************************)

\* An approved intent becomes a SubmitOrder; a cancel or replace names an order
\* submitted before.  The request is followed by a drive.
Request(k, o) ==
    /\ phase = "idle"
    /\ <<k, o>> \in Requests \ requested
    /\ k # "submit" => <<"submit", o>> \in requested
    /\ requested' = requested \cup {<<k, o>>}
    /\ omBox' = Append(omBox, [kind |-> k, order |-> o])
    /\ phase' = "om1"
    /\ UNCHANGED <<omVars, execBox, accBox, routeMeta, brokerVars, accountVars, historyVars>>

\* Messages left over from an aborted drive, or delivered since the last one,
\* are handled by the next drive.
Pump ==
    /\ phase = "idle"
    /\ omBox # <<>> \/ execBox # <<>> \/ accBox # <<>>
    /\ phase' = "om1"
    /\ UNCHANGED <<omVars, requested, boxVars, routeMeta, brokerVars, accountVars, historyVars>>

\* process_all returns once its mailbox is empty.
Drained ==
    /\ \/ phase \in {"om1", "om2"} /\ omBox = <<>>
       \/ phase = "exec" /\ execBox = <<>>
       \/ phase = "account" /\ accBox = <<>>
    /\ phase' = CASE phase = "om1"     -> "exec"
                  [] phase = "exec"    -> "om2"
                  [] phase = "om2"     -> "account"
                  [] phase = "account" -> "idle"
    /\ UNCHANGED <<omVars, requested, boxVars, routeMeta, brokerVars, accountVars, historyVars>>

\* process_one takes the message off the mailbox before it calls the handler; a
\* handler that raises propagates out of process_all and aborts the drive.
Abort(msg) ==
    /\ failed' = failed \cup {msg}
    /\ phase' = "idle"
    /\ UNCHANGED <<requested, accBox, brokerVars, accountVars, copies, quarantined>>

-----------------------------------------------------------------------------
(***************************************************************************)
(* OrderManagerActor.handle.                                               *)
(***************************************************************************)
\* A process_one that leaves a message it cannot handle at the head.
OMTurnRequeues ==
    /\ phase \in {"om1", "om2"} /\ omBox # <<>>
    /\ omBox' = IF Head(omBox).kind = "report" /\ Raises(Head(omBox).report)
                THEN omBox ELSE Tail(omBox)

OMTurn == phase \in {"om1", "om2"} /\ omBox # <<>> /\ omBox' = Tail(omBox)

\* A submission that never reaches the execution actor.
HandleSubmitUntold ==
    LET msg == Head(omBox) IN
    /\ OMTurn
    /\ msg.kind = "submit"
    /\ Submit(msg.order)
    /\ routeMeta' = routeMeta \cup {msg.order}
    /\ UNCHANGED <<phase, requested, execBox, accBox, brokerVars, accountVars, historyVars>>

HandleSubmit ==
    LET msg == Head(omBox) IN
    /\ OMTurn
    /\ msg.kind = "submit"
    /\ Submit(msg.order)
    /\ routeMeta' = routeMeta \cup {msg.order}
    /\ execBox' = Append(execBox, msg)
    /\ UNCHANGED <<phase, requested, accBox, brokerVars, accountVars, historyVars>>

\* _handle_cancel and _handle_replace look up the order and its route metadata
\* before they move the order and tell the execution actor.
HandleCancelOrReplace ==
    LET msg == Head(omBox) IN
    /\ OMTurn
    /\ msg.kind \in {"cancel", "replace"}
    /\ msg.order \in routeMeta
    /\ \/ msg.kind = "cancel" /\ RequestCancel(msg.order)
       \/ msg.kind = "replace" /\ RequestReplace(msg.order)
    /\ execBox' = Append(execBox, msg)
    /\ UNCHANGED <<phase, requested, accBox, routeMeta, brokerVars, accountVars, historyVars>>

\* KeyError for an unknown order or one without metadata, OrderTransitionError
\* for an order that cannot take the request.
RefuseCancelOrReplace ==
    LET msg == Head(omBox) IN
    /\ OMTurn
    /\ msg.kind \in {"cancel", "replace"}
    /\ \/ msg.order \notin routeMeta
       \/ ~Tracked(msg.order)
       \/ msg.kind = "cancel" /\ ~CanApply(orders[msg.order], "CANCEL_REQUESTED")
       \/ msg.kind = "replace" /\ ~CanApply(orders[msg.order], "REPLACE_REQUESTED")
    /\ Abort(msg)
    /\ UNCHANGED <<omVars, execBox, routeMeta>>

\* _handle_report: the fills go to the account, an unresolvable report to
\* quarantine.
TakeReport ==
    LET r == Head(omBox).report IN
    /\ OMTurn
    /\ Head(omBox).kind = "report"
    /\ ~Raises(r)
    /\ HandleReport(r)
    /\ accBox' = accBox \o FillsFor(r)
    /\ quarantined' = IF Resolvable(r) THEN quarantined ELSE quarantined \cup {r}
    /\ UNCHANGED <<phase, requested, execBox, routeMeta, brokerVars, accountVars, copies,
                   failed>>

\* OrderTransitionError out of process_report.
RefuseReport ==
    LET r == Head(omBox).report IN
    /\ OMTurn
    /\ Head(omBox).kind = "report"
    /\ Raises(r)
    /\ HandleReport(r)
    /\ Abort(Head(omBox))
    /\ UNCHANGED <<execBox, routeMeta>>

OMStep ==
    HandleSubmit \/ HandleCancelOrReplace \/ RefuseCancelOrReplace \/ TakeReport
    \/ RefuseReport

-----------------------------------------------------------------------------
(***************************************************************************)
(* ExecutionActor.handle: the broker answers within the call.  A cancel    *)
(* takes effect on an open order only; the broker acknowledges it either   *)
(* way.                                                                    *)
(***************************************************************************)
ExecTurn == phase = "exec" /\ execBox # <<>> /\ execBox' = Tail(execBox)

Answer(o, k) ==
    /\ omBox' = Append(omBox, AsReport(ReportFor[o][k]))
    /\ copies' = [copies EXCEPT ![ReportFor[o][k]] = @ + 1]
    /\ UNCHANGED <<omVars, phase, requested, accBox, routeMeta, wire, executed, accountVars,
                   quarantined, failed>>

ExecuteSubmit ==
    LET o == Head(execBox).order IN
    /\ ExecTurn
    /\ Head(execBox).kind = "submit"
    /\ venue' = [venue EXCEPT ![o] = "open"]
    /\ adapterMap' = adapterMap \cup {BrokerId[o]}
    /\ Answer(o, "ack")

ExecuteCancel ==
    LET o == Head(execBox).order IN
    /\ ExecTurn
    /\ Head(execBox).kind = "cancel"
    /\ venue[o] # "none"
    /\ venue' = [venue EXCEPT ![o] = IF @ = "open" THEN "cancelled" ELSE @]
    /\ UNCHANGED adapterMap
    /\ Answer(o, "cancelled")

ExecuteReplace ==
    LET o == Head(execBox).order IN
    /\ ExecTurn
    /\ Head(execBox).kind = "replace"
    /\ venue[o] # "none"
    /\ UNCHANGED <<adapterMap, venue>>
    /\ Answer(o, "replaced")

\* The live capital gate refuses a submission, the transport fails, or the
\* broker does not know the order: the adapter raises.
ExecuteRaises ==
    /\ ExecTurn
    /\ Abort(Head(execBox))
    /\ UNCHANGED <<omVars, omBox, routeMeta>>

Execute == ExecuteSubmit \/ ExecuteCancel \/ ExecuteReplace

-----------------------------------------------------------------------------
\* AccountActor._apply_fill: a fill id seen before changes nothing.
ApplyFillUnchecked ==
    LET f == Head(accBox) IN
    /\ accSeen' = accSeen \cup {f}
    /\ applied' = [applied EXCEPT ![f] = @ + 1]

ApplyFill ==
    LET f == Head(accBox) IN
    /\ accSeen' = accSeen \cup {f}
    /\ applied' = IF f \in accSeen THEN applied ELSE [applied EXCEPT ![f] = @ + 1]

AccountStep ==
    /\ phase = "account"
    /\ accBox # <<>>
    /\ accBox' = Tail(accBox)
    /\ ApplyFill
    /\ UNCHANGED <<omVars, phase, requested, omBox, execBox, routeMeta, brokerVars,
                   historyVars>>

-----------------------------------------------------------------------------
(***************************************************************************)
(* The broker and its transport.                                           *)
(***************************************************************************)

\* An open order is filled in part or completely, and the fill is reported.
Fill(o, k) ==
    LET r == ReportFor[o][k] IN
    /\ k \in FillKind
    /\ venue[o] = "open"
    /\ r.fill_id \notin executed
    /\ executed' = executed \cup {r.fill_id}
    /\ wire' = wire \cup {r}
    /\ venue' = [venue EXCEPT ![o] = IF k = "final" THEN "filled" ELSE @]
    /\ UNCHANGED <<omVars, phase, requested, boxVars, routeMeta, adapterMap, accountVars,
                   historyVars>>

\* The broker rejects an order it has accepted, one that was to be replaced included.
Reject(o) ==
    /\ venue[o] = "open"
    /\ wire' = wire \cup {ReportFor[o]["rejected"]}
    /\ venue' = [venue EXCEPT ![o] = "rejected"]
    /\ UNCHANGED <<omVars, phase, requested, boxVars, routeMeta, adapterMap, executed, accountVars,
                   historyVars>>

\* normalize_execution_report raises for a broker order id the adapter does not
\* know; any other report is told to the order manager.
Deliver(r) ==
    /\ r \in wire
    /\ r.broker_order_id \in adapterMap
    /\ copies[r] < MaxCopies[r]
    /\ omBox' = Append(omBox, AsReport(r))
    /\ copies' = [copies EXCEPT ![r] = @ + 1]
    /\ UNCHANGED <<omVars, phase, requested, execBox, accBox, routeMeta, brokerVars,
                   accountVars, quarantined, failed>>

-----------------------------------------------------------------------------
FlowNext ==
    \/ \E k \in RequestKind, o \in OrderIds : Request(k, o)
    \/ Pump \/ Drained
    \/ OMStep \/ Execute \/ ExecuteRaises \/ AccountStep
    \/ \E o \in OrderIds, k \in FillKind : Fill(o, k)
    \/ \E o \in OrderIds : Reject(o)
    \/ \E r \in Reports : Deliver(r)

\* The driver is one thread that runs on: it drains what it has begun to drain,
\* and the next bar or intent drains what was left over.  Of the broker and the
\* transport only MaxCopies is assumed: a report repeated without end would keep
\* the order manager's process_all from returning.
FlowFairness ==
    /\ WF_flowVars(Pump)
    /\ WF_flowVars(Drained \/ OMStep \/ AccountStep)
    /\ WF_flowVars(Execute \/ ExecuteRaises)

FlowSpec == FlowInit /\ [][FlowNext]_flowVars /\ FlowFairness

-----------------------------------------------------------------------------
(***************************************************************************)
(* Properties.                                                             *)
(***************************************************************************)
Delivered(r) == copies[r] > 0

\* No report is ever quarantined: the broker can only report an order it was
\* sent, which the order manager tracked and mapped before it told the
\* execution actor, and no abort in between separates the two
\* (OrderManagerActor._handle_submit, ExecutionReportHandler.handle).
NothingQuarantined == quarantined = {}

\* A fill that reached the order manager's mailbox is booked, still on its way
\* in one of the mailboxes, or was refused loudly by an exception: duplicates,
\* late fills after a cancel and aborted drives lose none silently
\* (_handle_report, process_report, _apply_fill).
NoSilentLoss ==
    \A r \in Reports : Delivered(r) /\ CarriesFill(r) =>
        \/ applied[r.fill_id] > 0
        \/ \E i \in DOMAIN omBox : omBox[i] = AsReport(r)
        \/ \E i \in DOMAIN accBox : accBox[i] = r.fill_id
        \/ r \in quarantined
        \/ AsReport(r) \in failed

\* The order manager never finishes an order the broker still works on: it is
\* FILLED, CANCELLED or REJECTED only after the broker has filled, cancelled or
\* rejected it, in whatever order requests, answers and fills overtake each other
\* (request_cancel, request_replace, process_report).
NeverAheadOfBroker ==
    \A o \in OrderIds :
        orders[o] \in TerminalStates => venue[o] \in {"filled", "cancelled", "rejected"}

\* A submission is answered: the order leaves SENT, or the drive that should
\* have sent it was aborted by an exception the driver saw.
SubmissionAnswered ==
    \A o \in OrderIds :
        <<"submit", o>> \in requested
            ~> \/ orders[o] \notin {Untracked, "SENT"}
               \/ [kind |-> "submit", order |-> o] \in failed

\* Every fill report that reaches the order manager's mailbox is settled: its
\* fill is booked, or an exception told the driver that it was refused.  No
\* poisonous message in front of it can hold it up for ever.
FillSettled ==
    \A o \in OrderIds, k \in FillKind :
        LET r == ReportFor[o][k] IN
        Delivered(r) ~> applied[r.fill_id] > 0 \/ AsReport(r) \in failed

\* docs/testing/domain_invariants.md: "Out-of-order broker reports do not
\* corrupt state."  When everything the broker has to say about an order has
\* been delivered and handled, the account holds every fill of that order.
OutOfOrderHarmless ==
    \A o \in OrderIds :
        (/\ phase = "idle" /\ omBox = <<>> /\ execBox = <<>> /\ accBox = <<>>
         /\ \A r \in wire : Delivered(r)
         /\ orders[o] = "FILLED")
        => \A k \in FillKind :
              LET f == ReportFor[o][k].fill_id IN f \in executed => applied[f] = 1

=============================================================================
