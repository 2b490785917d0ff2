---------------------------- MODULE IbkrExecution ----------------------------
(***************************************************************************)
(* The IBKR order path: IbkrTwsOrderExecutionTransport with its order      *)
(* client and callback dispatcher, and the IbkrOrderExecutionAdapter behind*)
(* it with the broker order map, the order-status normalizer and the       *)
(* callback quarantine.  The order ids are those of module IbkrOrderIds,   *)
(* the executions those of module IbkrFills: here an order may be placed   *)
(* under any id, one that was used before included, and a fill of a        *)
(* received order may be published at any time.                            *)
(*                                                                         *)
(* Two threads: the driver, which submits, resolves the quarantine and     *)
(* waits, and the reader, which runs the callbacks.  A callback is one     *)
(* step; the driver's resolution of the quarantine is cut where it copies  *)
(* a list, between the callbacks it repeats, and where it replaces the     *)
(* list.  The broker is external: it may send any callback about an order  *)
(* it has received, at any time, repeatedly and in any order, which covers *)
(* the replay after a reconnect (request_startup_reconciliation) and the   *)
(* callbacks of an abandoned reader.  A restart loses everything.          *)
(***************************************************************************)
EXTENDS Naturals, Sequences, SequencesExt

CONSTANTS
    Clients,        \* client order ids, each used for one order
    NoClient,       \* an order entered by hand has no client order id
    Ids,            \* IBKR order ids
    NoId,           \* not known yet
    Statuses,       \* orderStatus callbacks: status text and permId, "zero" or "own"
    OpenStatuses,   \* status texts of openOrder callbacks for our orders
    ManualOrders,   \* status texts of openOrder callbacks for orders entered by hand
    Events,         \* errors of the broker, "info" and "fatal", and "connection" events
    Others,         \* callbacks of other kinds the quarantine can hold: executions,
                    \* positions and account summaries
    WaitSets,       \* the sets of statuses the driver waits for
    MaxQuarantine,  \* bound: quarantined order statuses
    MaxReports,     \* bound: undelivered transport events
    MaxRestarts     \* bound: process restarts

ASSUME ExecutionAssumption ==
    /\ MaxRestarts \in Nat
    /\ NoClient \notin Clients /\ NoId \notin Ids
    /\ \A s \in Statuses : s[2] \in {"zero", "own"}

VARIABLES
    placed,      \* history: the client order ids each order id was placed for
    received,    \* <<order id, client order id>> the broker has received (external)
    pc,          \* where the driver thread is
    client,      \* the order the driver is submitting
    orderId,     \* the order id it was placed under
    waiting,     \* what wait_for_order_status / wait_for_fill_report waits for
    orderMap,    \* BrokerOrderMap: id, perm and status per client order id
    seenStatus,  \* _seen_order_status_keys
    seenOpen,    \* _seen_open_order_keys
    quarStatus,  \* quarantined order statuses
    quarOpen,    \* quarantined openOrder callbacks
    quarOthers,  \* quarantined callbacks of other kinds
    openTodo,    \* what is left of the openOrders that resolve_quarantined walks
    openKept,    \* unresolved_open_orders
    statusTodo,  \* what is left of the order statuses it walks
    statusKept,  \* unresolved_order_statuses
    collected,   \* resolved: keys of the reports it will return
    reports,     \* _reports, the transport's event queue
    passedOn,    \* history: status keys whose report was queued or returned
    dropped,     \* history: a wait has taken a fill it did not wait for
    raised,      \* history: a resolve attempt raised half way
    restarts

driverVars == <<pc, client, orderId, waiting>>
normVars == <<orderMap, seenStatus, seenOpen>>
quarVars == <<quarStatus, quarOpen, quarOthers>>
walkVars == <<openTodo, openKept, statusTodo, statusKept, collected>>
outVars == <<reports, passedOn, dropped>>
vars == <<placed, received, driverVars, normVars, quarVars, walkVars, outVars, raised, restarts>>

NoRecord == [id |-> NoId, perm |-> "none", status |-> "unrecorded"]

Init ==
    /\ placed = [n \in Ids |-> {}] /\ received = {}
    /\ pc = "idle" /\ client = NoClient /\ orderId = NoId /\ waiting = <<>>
    /\ orderMap = [c \in Clients |-> NoRecord]
    /\ seenStatus = {} /\ seenOpen = {}
    /\ quarStatus = <<>> /\ quarOpen = {} /\ quarOthers = {}
    /\ openTodo = {} /\ openKept = {} /\ statusTodo = <<>> /\ statusKept = <<>> /\ collected = {}
    /\ reports = <<>> /\ passedOn = {} /\ dropped = FALSE
    /\ raised = FALSE /\ restarts = 0

ReceivedIds == {r[1] : r \in received}

-----------------------------------------------------------------------------
(***************************************************************************)
(* Submission: the gate, placeOrder and only then the mapping the callbacks*)
(* need.                                                                   *)
(***************************************************************************)
HasUnresolved == quarStatus # <<>> \/ quarOpen # {} \/ quarOthers # {}

ToOrderRequest(c) ==
    /\ pc = "idle"
    /\ \A n \in Ids : c \notin placed[n]
    /\ ~HasUnresolved
    /\ pc' = "requested" /\ client' = c
    /\ UNCHANGED <<placed, received, orderId, waiting, normVars, quarVars, walkVars, outVars, raised, restarts>>

\* Not connected, or no next order id: submit raises.
SubmitRaises ==
    /\ pc = "requested"
    /\ pc' = "idle" /\ client' = NoClient
    /\ UNCHANGED <<placed, received, orderId, waiting, normVars, quarVars, walkVars, outVars, raised, restarts>>

\* app.placeOrder under the reserved id; on a connection that has just closed the
\* order is lost.
PlaceOrder(n) ==
    /\ pc = "requested"
    /\ orderId' = n
    /\ placed' = [placed EXCEPT ![n] = @ \cup {client}]
    /\ received' \in {received, received \cup {<<n, client>>}}
    /\ pc' = "placed"
    /\ UNCHANGED <<client, waiting, normVars, quarVars, walkVars, outVars, raised, restarts>>

ClientsOf(m, n) == {c \in Clients : m[c].id = n}

\* _store refuses an order id, and a perm id, that another client order id has.
IdTaken(m, c, n) == ClientsOf(m, n) \ {c} # {}
PermTaken(m, c, perm) == perm = "zero" /\ \E d \in Clients \ {c} : m[d].perm = "zero"

\* Any id that is free in the map instead of the one the order was placed under.
RecordAnyFree ==
    \E n \in Ids :
        /\ ClientsOf(orderMap, n) = {}
        /\ orderMap' = [orderMap EXCEPT ![client] =
                           [id |-> n, perm |-> "none", status |-> "pending_submission"]]

\* record_pending_submission and attach_ibkr_order_id; when the latter raises, the
\* record stays without an id.
RecordSubmittedOrder ==
    orderMap' = [orderMap EXCEPT ![client] =
                    [id |-> IF IdTaken(orderMap, client, orderId) THEN NoId ELSE orderId,
                     perm |-> "none", status |-> "pending_submission"]]

RecordSubmitted ==
    /\ pc = "placed"
    /\ RecordSubmittedOrder
    /\ pc' = "idle" /\ client' = NoClient /\ orderId' = NoId
    /\ UNCHANGED <<placed, received, waiting, seenStatus, seenOpen, quarVars, walkVars, outVars,
                   raised, restarts>>

-----------------------------------------------------------------------------
(***************************************************************************)
(* What a callback does to the normalizer, as a record: the map, the keys  *)
(* it has seen, the report, and whether it returns, quarantines or raises. *)
(***************************************************************************)
StatusFromIbkr ==
    [s \in {"ApiCancelled", "Cancelled"} |-> "CANCELLED"] @@ [s \in {"Filled"} |-> "FILLED"]
    @@ [s \in {"Inactive"} |-> "REJECTED"]
    @@ [s \in {"PendingCancel", "PendingSubmit", "PreSubmitted", "Submitted"} |-> "ACCEPTED"]

Supported(s) == s \in DOMAIN StatusFromIbkr

LateCancelAfterFill(current, next) == current = "Filled" /\ next \in {"ApiCancelled", "Cancelled"}

Key(p) == <<p.id, p.status, p.perm>>

\* The key is remembered before the order is known.
QuarantineSeen(p) ==
    [map |-> orderMap, seen |-> seenStatus \cup {Key(p)}, out |-> {}, result |-> "quarantined"]

QuarantineStatus(p) ==
    [map |-> orderMap, seen |-> seenStatus, out |-> {}, result |-> "quarantined"]

\* on_order_status.
OnOrderStatus(p) ==
    LET known == ClientsOf(orderMap, p.id)
        c == CHOOSE d \in known : TRUE
        attached == [orderMap EXCEPT ![c].perm = p.perm]
        unchanged == [map |-> orderMap, seen |-> seenStatus, out |-> {}, result |-> "ok"] IN
    IF Key(p) \in seenStatus THEN unchanged
    ELSE IF known = {} THEN QuarantineStatus(p)
    ELSE IF PermTaken(orderMap, c, p.perm) THEN [unchanged EXCEPT !.result = "raised"]
    ELSE IF LateCancelAfterFill(orderMap[c].status, p.status) THEN [unchanged EXCEPT !.map = attached]
    ELSE [map |-> [attached EXCEPT ![c].status = p.status],
          seen |-> seenStatus \cup {Key(p)},
          out |-> IF Supported(p.status) THEN {Key(p)} ELSE {},
          result |-> IF Supported(p.status) THEN "ok" ELSE "raised"]

Recorded(c) == c \in Clients /\ orderMap[c] # NoRecord

\* on_open_order: attach_ibkr_order_id, attach_perm_id and mark_status.
OnOpenOrder(p) ==
    LET unchanged == [map |-> orderMap, seen |-> seenOpen, result |-> "ok"] IN
    IF p \in seenOpen THEN unchanged
    ELSE IF ~Recorded(p.client) THEN [unchanged EXCEPT !.result = "quarantined"]
    ELSE IF IdTaken(orderMap, p.client, p.id) THEN [unchanged EXCEPT !.result = "raised"]
    ELSE [map |-> [orderMap EXCEPT ![p.client] = [id |-> p.id, perm |-> "own", status |-> p.status]],
          seen |-> seenOpen \cup {p},
          result |-> "ok"]

-----------------------------------------------------------------------------
(***************************************************************************)
(* The reader.                                                             *)
(***************************************************************************)
StatusPayload == {[id |-> n, status |-> s[1], perm |-> s[2]] : n \in ReceivedIds, s \in Statuses}

\* The reader delivers an orderStatus; a report goes to the queue.
HandleOrderStatus(p) ==
    LET done == OnOrderStatus(p) IN
    /\ IF done.result = "quarantined"
       THEN Len(quarStatus) < MaxQuarantine /\ quarStatus' = Append(quarStatus, p)
       ELSE UNCHANGED quarStatus
    /\ done.out = {} \/ Len(reports) < MaxReports
    /\ orderMap' = done.map /\ seenStatus' = done.seen
    /\ reports' = reports \o SetToSeq({<<"status", k[1], StatusFromIbkr[k[2]]>> : k \in done.out})
    /\ passedOn' = passedOn \cup done.out
    /\ UNCHANGED <<placed, received, driverVars, seenOpen, quarOpen, quarOthers, walkVars,
                   dropped, raised, restarts>>

\* An openOrder names the client order id of the order, or none for an order
\* that was entered by hand.
OpenPayload ==
    {[id |-> r[1], client |-> r[2], status |-> s] : r \in received, s \in OpenStatuses}
    \cup {[id |-> NoId, client |-> NoClient, status |-> s] : s \in ManualOrders}

HandleOpenOrder(p) ==
    LET done == OnOpenOrder(p) IN
    /\ orderMap' = done.map /\ seenOpen' = done.seen
    /\ quarOpen' = IF done.result = "quarantined" THEN quarOpen \cup {p} ELSE quarOpen
    /\ UNCHANGED <<placed, received, driverVars, seenStatus, quarStatus, quarOthers, walkVars,
                   outVars, raised, restarts>>

\* An execution of an unknown order, a position or an account summary of another
\* account.
HandleOther(x) ==
    /\ quarOthers' = quarOthers \cup {x}
    /\ UNCHANGED <<placed, received, driverVars, normVars, quarStatus, quarOpen, walkVars,
                   outVars, raised, restarts>>

Publish(event) ==
    /\ Len(reports) < MaxReports
    /\ reports' = Append(reports, event)
    /\ UNCHANGED <<placed, received, driverVars, normVars, quarVars, walkVars, passedOn, dropped,
                   raised, restarts>>

\* publish_report of a fill of module IbkrFills.
PublishFill(n) == n \in ReceivedIds /\ Publish(<<"fill", n>>)

\* handle_error, handle_disconnect, handle_reconnect.
HandleEvent(kind) == Publish(<<"event", kind>>)

-----------------------------------------------------------------------------
(***************************************************************************)
(* resolve_quarantined_callbacks on the driver: the openOrders, then the   *)
(* order statuses, then the other kinds.  An exception (a status text      *)
(* without a mapping, an id another order has) leaves the list it walks as *)
(* it is, discards the reports collected so far and skips what comes after.*)
(***************************************************************************)
WalkRaises ==
    /\ pc' = "idle" /\ raised' = TRUE
    /\ openTodo' = {} /\ openKept' = {} /\ statusTodo' = <<>> /\ statusKept' = <<>>
    /\ collected' = {}

ResolveStarts ==
    /\ pc = "idle" /\ HasUnresolved
    /\ pc' = "openOrders"
    /\ openTodo' = quarOpen /\ openKept' = {}
    /\ UNCHANGED <<placed, received, client, orderId, waiting, normVars, quarVars, statusTodo,
                   statusKept, collected, outVars, raised, restarts>>

ResolveOpenOrder(p) ==
    LET done == OnOpenOrder(p) IN
    /\ pc = "openOrders" /\ p \in openTodo
    /\ orderMap' = done.map /\ seenOpen' = done.seen
    /\ IF done.result = "raised"
       THEN WalkRaises
       ELSE /\ openTodo' = openTodo \ {p}
            /\ openKept' = IF done.result = "quarantined" THEN openKept \cup {p} ELSE openKept
            /\ UNCHANGED <<pc, statusTodo, statusKept, collected, raised>>
    /\ UNCHANGED <<placed, received, client, orderId, waiting, seenStatus, quarVars, outVars, restarts>>

\* replace_open_orders, and the copy of the order statuses.
ReplaceOpenOrders ==
    /\ pc = "openOrders" /\ openTodo = {}
    /\ quarOpen' = openKept /\ openKept' = {}
    /\ pc' = "statuses"
    /\ statusTodo' = quarStatus
    /\ UNCHANGED <<placed, received, client, orderId, waiting, normVars, quarStatus, quarOthers,
                   openTodo, statusKept, collected, outVars, raised, restarts>>

ResolveOrderStatus ==
    LET p == Head(statusTodo)
        done == OnOrderStatus(p) IN
    /\ pc = "statuses" /\ statusTodo # <<>>
    /\ orderMap' = done.map /\ seenStatus' = done.seen
    /\ IF done.result = "raised"
       THEN WalkRaises
       ELSE /\ statusTodo' = Tail(statusTodo)
            /\ statusKept' = IF done.result = "quarantined" THEN Append(statusKept, p) ELSE statusKept
            /\ collected' = collected \cup done.out
            /\ UNCHANGED <<pc, openTodo, openKept, raised>>
    /\ UNCHANGED <<placed, received, client, orderId, waiting, seenOpen, quarVars, outVars, restarts>>

\* replace_order_statuses; the other kinds are resolved as far as they can be, and
\* the reports are returned.
ReplaceOrderStatuses ==
    /\ pc = "statuses" /\ statusTodo = <<>>
    /\ quarStatus' = statusKept /\ statusKept' = <<>>
    /\ quarOthers' \in SUBSET quarOthers
    /\ passedOn' = passedOn \cup collected /\ collected' = {}
    /\ pc' = "idle"
    /\ UNCHANGED <<placed, received, client, orderId, waiting, normVars, quarOpen, openTodo,
                   openKept, statusTodo, reports, dropped, raised, restarts>>

-----------------------------------------------------------------------------
(***************************************************************************)
(* wait_for_order_status and wait_for_fill_report: events are taken from   *)
(* the queue until one matches, a fatal error is met or the deadline is    *)
(* over; what does not match is gone.                                      *)
(***************************************************************************)
StartWait(w) ==
    /\ pc = "idle"
    /\ pc' = "waiting" /\ waiting' = w
    /\ UNCHANGED <<placed, received, client, orderId, normVars, quarVars, walkVars, outVars, raised, restarts>>

Matches(w, event) ==
    \/ w[1] = "fill" /\ event[1] = "fill" /\ event[2] = w[2]
    \/ w[1] = "status" /\ event[1] = "status" /\ event[2] = w[2] /\ event[3] \in w[3]

EndWait == pc' = "idle" /\ waiting' = <<>>

WaitTakes ==
    /\ pc = "waiting" /\ reports # <<>>
    /\ LET event == Head(reports) IN
       /\ reports' = Tail(reports)
       /\ dropped' = (dropped \/ (event[1] = "fill" /\ ~Matches(waiting, event)))
       /\ IF Matches(waiting, event) \/ event = <<"event", "fatal">>
          THEN EndWait
          ELSE UNCHANGED <<pc, waiting>>
    /\ UNCHANGED <<placed, received, client, orderId, normVars, quarVars, walkVars, passedOn, raised, restarts>>

WaitTimesOut ==
    /\ pc = "waiting"
    /\ EndWait
    /\ UNCHANGED <<placed, received, client, orderId, normVars, quarVars, walkVars, outVars, raised, restarts>>

\* The process ends at any point and is started again.
Restart ==
    /\ restarts < MaxRestarts
    /\ restarts' = restarts + 1
    /\ pc' = "idle" /\ client' = NoClient /\ orderId' = NoId /\ waiting' = <<>>
    /\ orderMap' = [c \in Clients |-> NoRecord]
    /\ seenStatus' = {} /\ seenOpen' = {}
    /\ quarStatus' = <<>> /\ quarOpen' = {} /\ quarOthers' = {}
    /\ openTodo' = {} /\ openKept' = {} /\ statusTodo' = <<>> /\ statusKept' = <<>> /\ collected' = {}
    /\ reports' = <<>> /\ passedOn' = {} /\ dropped' = FALSE /\ raised' = FALSE
    /\ UNCHANGED <<placed, received>>

-----------------------------------------------------------------------------
DriverThread ==
    \/ \E c \in Clients : ToOrderRequest(c)
    \/ \E n \in Ids : PlaceOrder(n)
    \/ SubmitRaises \/ RecordSubmitted
    \/ ResolveStarts \/ ReplaceOpenOrders \/ ResolveOrderStatus \/ ReplaceOrderStatuses
    \/ \E p \in openTodo : ResolveOpenOrder(p)
    \/ \E n \in ReceivedIds : StartWait(<<"fill", n>>)
    \/ \E n \in ReceivedIds, S \in WaitSets : StartWait(<<"status", n, S>>)
    \/ WaitTakes \/ WaitTimesOut

ReaderThread ==
    \/ \E p \in StatusPayload : HandleOrderStatus(p)
    \/ \E p \in OpenPayload : HandleOpenOrder(p)
    \/ \E x \in Others : HandleOther(x)
    \/ \E n \in Ids : PublishFill(n)
    \/ \E kind \in Events : HandleEvent(kind)

Next == DriverThread \/ ReaderThread \/ Restart

Spec == Init /\ [][Next]_vars

-----------------------------------------------------------------------------
(***************************************************************************)
(* Properties.                                                             *)
(***************************************************************************)
StatusKeys == {<<n, s[1], s[2]>> : n \in Ids, s \in Statuses}

ExecutionTypeOK ==
    /\ placed \in [Ids -> SUBSET Clients]
    /\ received \subseteq Ids \X Clients
    /\ pc \in {"idle", "requested", "placed", "openOrders", "statuses", "waiting"}
    /\ client \in Clients \cup {NoClient} /\ orderId \in Ids \cup {NoId}
    /\ orderMap \in [Clients -> [id : Ids \cup {NoId}, perm : {"none", "zero", "own"},
                                 status : {s[1] : s \in Statuses} \cup OpenStatuses
                                          \cup {"unrecorded", "pending_submission"}]]

\* Whatever the order of submission and callbacks, the driver's repetition of
\* quarantined ones included, and even if an order id was used twice, an order id
\* leads to a client order id it was placed for (record_submitted_order,
\* on_open_order).
RoutedToPlacer == \A c \in Clients : orderMap[c].id # NoId => c \in placed[orderMap[c].id]

\* Unless a resolve attempt raised, a status that was marked as seen has been
\* reported, or is among the reports a resolve is collecting: a status that came
\* before its order was mapped is not dropped as a duplicate of itself later
\* (on_order_status, resolve_quarantined).
SeenMeansReported ==
    ~raised => \A k \in seenStatus : Supported(k[2]) => k \in passedOn \cup collected

\* wait_for_fill_report and wait_for_order_status take nothing from the queue but
\* what they wait for.  It does not hold: a fill that is met on the way is gone.
NoFillDropped == ~dropped

\* "test_ibkr_late_cancel_after_filled_status_does_not_downgrade_order_map": once
\* the map says Filled, no other status replaces it.
FilledStaysFilled ==
    [][\A c \in Clients : orderMap[c].status = "Filled" =>
           orderMap'[c].status \in {"Filled", "unrecorded"}]_vars
=============================================================================
