--------------------------- MODULE OrderFlowProofs ----------------------------
(***************************************************************************)
(* Proofs about OrderManager and, on top of it, OrderFlow: for every set   *)
(* of orders, requests, reports and fills, and any number of copies of the *)
(* reports.                                                                *)
(***************************************************************************)
EXTENDS OrderFlow, TLAPS

(***************************************************************************)
(* Facts about the operators the actions are built from.                   *)
(***************************************************************************)

\* Applying an event the state machine accepts gives an order state
\* (OrderStateMachine.apply).
LEMMA ApplyType ==
    ASSUME NEW s \in OrderState, NEW e \in OrderEvent
    PROVE  Apply(s, e) \in OrderState
BY DEF Apply, OrderEvent

\* A report the manager applies concerns a tracked order and has a known shape
\* (process_report).
LEMMA ApplicableReport ==
    ASSUME OMTypeOK, NEW r \in Reports, Applicable(r)
    PROVE  /\ OrderOf(r) \in OrderIds
           /\ orders[OrderOf(r)] \in OrderState
           /\ r.status \in OrderEvent
           /\ r.report_id \in ReportIds
           /\ r.report_id \notin seenReports
           /\ r.fill_id \in FillIds \cup {NoFill}
BY ReportAssumption
   DEF OMTypeOK, Applicable, Resolvable, OrderOf, Tracked, Duplicate, ReportType,
       ReportStatus, OrderEvent, OrderState

-----------------------------------------------------------------------------
\* Every handler of the actor leaves the manager's maps and sets well typed
\* (OrderManager, all operations).
LEMMA OMTypeStep ==
    ASSUME OMTypeOK, [OMNext]_omVars
    PROVE  OMTypeOK'
<1>1. ASSUME NEW o \in OrderIds, Submit(o) PROVE OMTypeOK'
  <2>1. Apply("CREATED", "SENT") \in OrderState
    BY ApplyType DEF OrderState, OrderEvent
  <2> QED BY <1>1, <2>1, IdAssumption DEF Submit, OMTypeOK, idVars
<1>2. ASSUME NEW o \in OrderIds, RequestCancel(o) PROVE OMTypeOK'
  <2>1. Apply(orders[o], "CANCEL_REQUESTED") \in OrderState
    BY <1>2, ApplyType DEF RequestCancel, Tracked, OMTypeOK, OrderState, OrderEvent
  <2> QED BY <1>2, <2>1 DEF RequestCancel, OMTypeOK, idVars
<1>3. ASSUME NEW o \in OrderIds, RequestReplace(o) PROVE OMTypeOK'
  <2>1. Apply(orders[o], "REPLACE_REQUESTED") \in OrderState
    BY <1>3, ApplyType DEF RequestReplace, Tracked, OMTypeOK, OrderState, OrderEvent
  <2> QED BY <1>3, <2>1 DEF RequestReplace, OMTypeOK, idVars
<1>4. ASSUME NEW r \in Reports, HandleReport(r) PROVE OMTypeOK'
  <2>1. CASE LeaveReport(r)
    BY <2>1 DEF LeaveReport, omVars, idVars, OMTypeOK
  <2>2. CASE ApplyReport(r)
    <3>1. /\ OrderOf(r) \in OrderIds
          /\ r.report_id \in ReportIds
          /\ r.fill_id \in FillIds \cup {NoFill}
          /\ Apply(orders[OrderOf(r)], r.status) \in OrderState
      BY <2>2, ApplicableReport, ApplyType DEF ApplyReport
    <3>2. CASE NewFill(r)
      <4>1. r.fill_id \in FillIds
        BY <3>1, <3>2 DEF NewFill, CarriesFill
      <4>2. /\ orders' \in [OrderIds -> OrderState \cup {Untracked}]
            /\ seenReports' \subseteq ReportIds
            /\ reportsByOrder' \in [OrderIds -> SUBSET ReportIds]
        BY <2>2, <3>1 DEF ApplyReport, OMTypeOK
      <4>3. /\ fillIds' \subseteq FillIds
            /\ fillsByOrder' \in [OrderIds -> SUBSET FillIds]
        BY <2>2, <3>1, <3>2, <4>1 DEF ApplyReport, OMTypeOK
      <4>4. fillsList' \in Seq(FillIds)
        <5>1. fillsList' = Append(fillsList, r.fill_id)
          BY <2>2, <3>2 DEF ApplyReport
        <5>2. fillsList \in Seq(FillIds)
          BY DEF OMTypeOK
        <5> QED BY <4>1, <5>1, <5>2
      <4> QED BY <2>2, <4>2, <4>3, <4>4 DEF ApplyReport, OMTypeOK
    <3>3. CASE ~NewFill(r)
      BY <2>2, <3>1, <3>3 DEF ApplyReport, OMTypeOK
    <3> QED BY <3>2, <3>3
  <2> QED BY <1>4, <2>1, <2>2 DEF HandleReport
<1>5. ASSUME NEW os \in SUBSET OrderIds, CompactForStreaming(os) \/ CompactFails(os)
      PROVE  OMTypeOK'
  <2>1. /\ orders' \in [OrderIds -> OrderState \cup {Untracked}]
        /\ brokerToOrder' \in [BrokerOrderIds -> OrderIds \cup {NoOrder}]
    BY <1>5 DEF CompactForStreaming, CompactFails, DiscardTerminalOrders, OMTypeOK
  <2>2. /\ seenReports' \subseteq ReportIds
        /\ reportsByOrder' \in [OrderIds -> SUBSET ReportIds]
        /\ fillIds' \subseteq FillIds
        /\ fillsByOrder' \in [OrderIds -> SUBSET FillIds]
    BY <1>5 DEF CompactForStreaming, CompactFails, DiscardTerminalOrders, OMTypeOK
  <2>3. fillsList' \in Seq(FillIds)
    <3>1. fillsList' = <<>> \/ fillsList' = fillsList
      BY <1>5 DEF CompactForStreaming, CompactFails
    <3>2. fillsList \in Seq(FillIds)
      BY DEF OMTypeOK
    <3>3. <<>> \in Seq(FillIds)
      OBVIOUS
    <3> QED BY <3>1, <3>2, <3>3
  <2>4. compactFailed' \in BOOLEAN
    <3>1. compactFailed \in BOOLEAN
      BY DEF OMTypeOK
    <3>2. compactFailed' = compactFailed \/ compactFailed' = TRUE
      BY <1>5 DEF CompactForStreaming, CompactFails
    <3> QED BY <3>1, <3>2
  <2> QED BY <2>1, <2>2, <2>3, <2>4 DEF OMTypeOK
<1>6. CASE UNCHANGED omVars
  BY <1>6 DEF omVars, idVars, OMTypeOK
<1> QED BY <1>1, <1>2, <1>3, <1>4, <1>5, <1>6 DEF OMNext

\* A new manager is well typed.
LEMMA OMTypeInit == OMInit => OMTypeOK
<1> SUFFICES ASSUME OMInit PROVE OMTypeOK
  OBVIOUS
<1>1. /\ orders \in [OrderIds -> OrderState \cup {Untracked}]
      /\ brokerToOrder \in [BrokerOrderIds -> OrderIds \cup {NoOrder}]
  BY DEF OMInit
<1>2. /\ seenReports \subseteq ReportIds
      /\ reportsByOrder \in [OrderIds -> SUBSET ReportIds]
      /\ fillIds \subseteq FillIds
      /\ fillsByOrder \in [OrderIds -> SUBSET FillIds]
  BY DEF OMInit
<1>3. fillsList \in Seq(FillIds)
  BY DEF OMInit
<1>4. compactFailed \in BOOLEAN
  BY DEF OMInit
<1> QED BY <1>1, <1>2, <1>3, <1>4 DEF OMTypeOK

\* The manager is well typed whatever is submitted, reported and discarded.
THEOREM OMTypeCorrect == OMSpec => []OMTypeOK
BY OMTypeInit, OMTypeStep, PTL DEF OMSpec

-----------------------------------------------------------------------------
\* The broker map reaches exactly the tracked orders (mark_sent,
\* discard_terminal_order).
THEOREM OMBrokerMapSound == OMSpec => []BrokerMapSound
<1>1. OMInit => BrokerMapSound
  BY IdAssumption DEF OMInit, BrokerMapSound, Tracked
<1>2. OMTypeOK /\ BrokerMapSound /\ [OMNext]_omVars => BrokerMapSound'
  <2> SUFFICES ASSUME OMTypeOK, BrokerMapSound, [OMNext]_omVars PROVE BrokerMapSound'
    OBVIOUS
  <2>1. ASSUME NEW o \in OrderIds, Submit(o) PROVE BrokerMapSound'
    <3>1. Apply("CREATED", "SENT") # Untracked
      BY IdAssumption, ApplyType DEF OrderState, OrderEvent
    <3> QED BY <2>1, <3>1, IdAssumption DEF Submit, BrokerMapSound, Tracked, OMTypeOK
  <2>2. ASSUME NEW o \in OrderIds, RequestCancel(o) \/ RequestReplace(o)
        PROVE  BrokerMapSound'
    <3>1. /\ Apply(orders[o], "CANCEL_REQUESTED") # Untracked
          /\ Apply(orders[o], "REPLACE_REQUESTED") # Untracked
      BY <2>2, IdAssumption, ApplyType
         DEF RequestCancel, RequestReplace, Tracked, OMTypeOK, OrderState, OrderEvent
    <3> QED BY <2>2, <3>1
         DEF RequestCancel, RequestReplace, BrokerMapSound, Tracked, OMTypeOK
  <2>3. ASSUME NEW r \in Reports, HandleReport(r) PROVE BrokerMapSound'
    <3>1. CASE LeaveReport(r)
      BY <3>1 DEF LeaveReport, omVars, BrokerMapSound, Tracked
    <3>2. CASE ApplyReport(r)
      <4>1. Apply(orders[OrderOf(r)], r.status) # Untracked
        BY <3>2, ApplicableReport, ApplyType, IdAssumption DEF ApplyReport
      <4>2. OrderOf(r) \in OrderIds /\ Tracked(OrderOf(r))
        BY <3>2, ApplicableReport DEF ApplyReport, Applicable, Resolvable
      <4> QED BY <3>2, <4>1, <4>2 DEF ApplyReport, BrokerMapSound, Tracked, OMTypeOK
    <3> QED BY <2>3, <3>1, <3>2 DEF HandleReport
  <2>4. ASSUME NEW os \in SUBSET OrderIds, CompactForStreaming(os) \/ CompactFails(os)
        PROVE  BrokerMapSound'
    BY <2>4, IdAssumption
       DEF CompactForStreaming, CompactFails, DiscardTerminalOrders, BrokerMapSound,
           Tracked, OMTypeOK
  <2>5. CASE UNCHANGED omVars
    BY <2>5 DEF omVars, BrokerMapSound, Tracked
  <2> QED BY <2>1, <2>2, <2>3, <2>4, <2>5 DEF OMNext
<1> QED BY <1>1, <1>2, OMTypeCorrect, PTL DEF OMSpec

-----------------------------------------------------------------------------
\* The global idempotency sets are partitioned among the orders, so a discard
\* forgets the ids of its own order only (process_report, _fills_for_report,
\* discard_terminal_order).
THEOREM OMIdOwnership == OMSpec => []IdOwnership
<1>1. OMInit => IdOwnership
  BY DEF OMInit, IdOwnership
<1>2. OMTypeOK /\ IdOwnership /\ [OMNext]_omVars => IdOwnership'
  <2> SUFFICES ASSUME OMTypeOK, IdOwnership, [OMNext]_omVars PROVE IdOwnership'
    OBVIOUS
  <2>1. CASE UNCHANGED idVars
    BY <2>1 DEF idVars, IdOwnership
  <2>2. ASSUME NEW r \in Reports, ApplyReport(r) PROVE IdOwnership'
    <3> DEFINE o == OrderOf(r)
    <3>1. o \in OrderIds /\ r.report_id \notin seenReports
      BY <2>2, ApplicableReport DEF ApplyReport
    <3>2. /\ seenReports' = UNION {reportsByOrder'[p] : p \in OrderIds}
          /\ \A p, q \in OrderIds : p # q => reportsByOrder'[p] \cap reportsByOrder'[q] = {}
      <4>1. /\ reportsByOrder' = [reportsByOrder EXCEPT ![o] = @ \cup {r.report_id}]
            /\ seenReports' = seenReports \cup {r.report_id}
        BY <2>2 DEF ApplyReport
      <4>2. \A p \in OrderIds : reportsByOrder'[p] =
               IF p = o THEN reportsByOrder[p] \cup {r.report_id} ELSE reportsByOrder[p]
        BY <4>1 DEF OMTypeOK
      <4>3. \A p \in OrderIds : r.report_id \notin reportsByOrder[p]
        BY <3>1 DEF IdOwnership
      <4> HIDE DEF o
      <4> QED BY <3>1, <4>1, <4>2, <4>3 DEF IdOwnership
    <3>3. /\ fillIds' = UNION {fillsByOrder'[p] : p \in OrderIds}
          /\ \A p, q \in OrderIds : p # q => fillsByOrder'[p] \cap fillsByOrder'[q] = {}
      <4>1. CASE NewFill(r)
        <5>1. /\ fillsByOrder' = [fillsByOrder EXCEPT ![o] = @ \cup {r.fill_id}]
              /\ fillIds' = fillIds \cup {r.fill_id}
          BY <2>2, <4>1 DEF ApplyReport
        <5>2. \A p \in OrderIds : fillsByOrder'[p] =
                 IF p = o THEN fillsByOrder[p] \cup {r.fill_id} ELSE fillsByOrder[p]
          BY <5>1 DEF OMTypeOK
        <5>3. \A p \in OrderIds : r.fill_id \notin fillsByOrder[p]
          BY <4>1 DEF NewFill, IdOwnership
        <5> HIDE DEF o
        <5> QED BY <3>1, <5>1, <5>2, <5>3 DEF IdOwnership
      <4>2. CASE ~NewFill(r)
        BY <2>2, <4>2 DEF ApplyReport, IdOwnership
      <4> QED BY <4>1, <4>2
    <3> QED BY <3>2, <3>3 DEF IdOwnership
  <2>3. ASSUME NEW os \in SUBSET OrderIds, DiscardTerminalOrders(os)
        PROVE  IdOwnership'
    <3>1. \A p \in OrderIds :
             /\ reportsByOrder'[p] = IF p \in os THEN {} ELSE reportsByOrder[p]
             /\ fillsByOrder'[p] = IF p \in os THEN {} ELSE fillsByOrder[p]
      BY <2>3 DEF DiscardTerminalOrders
    <3>2. seenReports' = UNION {reportsByOrder'[p] : p \in OrderIds}
      BY <2>3, <3>1 DEF DiscardTerminalOrders, IdOwnership
    <3>3. fillIds' = UNION {fillsByOrder'[p] : p \in OrderIds}
      BY <2>3, <3>1 DEF DiscardTerminalOrders, IdOwnership
    <3> QED BY <3>1, <3>2, <3>3 DEF IdOwnership
  <2>4. \/ UNCHANGED idVars
        \/ \E r \in Reports : ApplyReport(r)
        \/ \E os \in SUBSET OrderIds : DiscardTerminalOrders(os)
    BY DEF OMNext, omVars, Submit, RequestCancel, RequestReplace, HandleReport,
           LeaveReport, CompactForStreaming, CompactFails
  <2> QED BY <2>1, <2>2, <2>3, <2>4
<1> QED BY <1>1, <1>2, OMTypeCorrect, PTL DEF OMSpec

-----------------------------------------------------------------------------
(***************************************************************************)
(* NoFillReportedTwice is not inductive: a fill already in the list must   *)
(* still be in the idempotency set when it arrives again.  The             *)
(* strengthening says that the set covers the list until a compaction      *)
(* fails half way.                                                         *)
(***************************************************************************)
ListedFillsSeen ==
    ~compactFailed => \A i \in DOMAIN fillsList : fillsList[i] \in fillIds

\* The actor hands no fill twice to the account between two compactions
\* (_handle_report, _fills_for_report, _compact_for_streaming).
THEOREM OMNoFillReportedTwice == OMSpec => []NoFillReportedTwice
<1> DEFINE Inv == ListedFillsSeen /\ NoFillReportedTwice
<1>1. OMInit => Inv
  BY DEF OMInit, ListedFillsSeen, NoFillReportedTwice
<1>2. OMTypeOK /\ Inv /\ [OMNext]_omVars => Inv'
  <2> SUFFICES ASSUME OMTypeOK, Inv, [OMNext]_omVars PROVE Inv'
    OBVIOUS
  <2>1. CASE UNCHANGED <<fillIds, fillsList, compactFailed>>
    BY <2>1 DEF ListedFillsSeen, NoFillReportedTwice
  <2>2. ASSUME NEW r \in Reports, ApplyReport(r) PROVE Inv'
    <3>1. CASE ~NewFill(r)
      BY <2>2, <3>1 DEF ApplyReport, ListedFillsSeen, NoFillReportedTwice
    <3>2. CASE NewFill(r)
      <4>1. /\ fillsList' = Append(fillsList, r.fill_id)
            /\ fillIds' = fillIds \cup {r.fill_id}
            /\ compactFailed' = compactFailed
            /\ r.fill_id \notin fillIds
        BY <2>2, <3>2 DEF ApplyReport, NewFill
      <4>2. /\ fillsList \in Seq(FillIds)
            /\ r.fill_id \in FillIds
        BY <2>2, <3>2, ApplicableReport DEF ApplyReport, OMTypeOK, NewFill, CarriesFill
      <4>3. /\ DOMAIN fillsList' = 1..(Len(fillsList) + 1)
            /\ DOMAIN fillsList = 1..Len(fillsList)
            /\ Len(fillsList) \in Nat
            /\ \A i \in 1..Len(fillsList) : fillsList'[i] = fillsList[i]
            /\ fillsList'[Len(fillsList) + 1] = r.fill_id
        BY <4>1, <4>2
      <4>4. \A i \in DOMAIN fillsList' :
               \/ i \in DOMAIN fillsList /\ fillsList'[i] = fillsList[i]
               \/ i = Len(fillsList) + 1 /\ fillsList'[i] = r.fill_id
        BY <4>3
      <4>5. ListedFillsSeen'
        BY <4>1, <4>4 DEF ListedFillsSeen
      <4>6. NoFillReportedTwice'
        BY <4>1, <4>4 DEF ListedFillsSeen, NoFillReportedTwice
      <4> QED BY <4>5, <4>6
    <3> QED BY <3>1, <3>2
  <2>3. ASSUME NEW os \in SUBSET OrderIds, CompactForStreaming(os) PROVE Inv'
    BY <2>3 DEF CompactForStreaming, ListedFillsSeen, NoFillReportedTwice
  <2>4. ASSUME NEW os \in SUBSET OrderIds, CompactFails(os) PROVE Inv'
    BY <2>4 DEF CompactFails, ListedFillsSeen, NoFillReportedTwice
  <2>5. \/ UNCHANGED <<fillIds, fillsList, compactFailed>>
        \/ \E r \in Reports : ApplyReport(r)
        \/ \E os \in SUBSET OrderIds : CompactForStreaming(os) \/ CompactFails(os)
    BY DEF OMNext, omVars, idVars, Submit, RequestCancel, RequestReplace, HandleReport,
           LeaveReport
  <2> QED BY <2>1, <2>2, <2>3, <2>4, <2>5
<1> QED BY <1>1, <1>2, OMTypeCorrect, PTL DEF OMSpec

-----------------------------------------------------------------------------
(***************************************************************************)
(* Mailboxes.                                                              *)
(***************************************************************************)

\* The messages in a mailbox.
Msgs(box) == {box[i] : i \in DOMAIN box}

\* A message is at one place of a mailbox at most.
Once(box, m) == \A i, j \in DOMAIN box : box[i] = m /\ box[j] = m => i = j

\* Taking the first message off a mailbox.
LEMMA BoxTail ==
    ASSUME NEW S, NEW box \in Seq(S), box # <<>>
    PROVE  /\ Head(box) \in S /\ Tail(box) \in Seq(S)
           /\ Msgs(box) = Msgs(Tail(box)) \cup {Head(box)}
           /\ \A m : Once(box, m) => Once(Tail(box), m)
           /\ Once(box, Head(box)) => Head(box) \notin Msgs(Tail(box))
<1>1. /\ Head(box) \in S /\ Tail(box) \in Seq(S)
      /\ Len(box) \in Nat /\ Len(box) > 0
      /\ DOMAIN box = 1..Len(box) /\ DOMAIN Tail(box) = 1..(Len(box) - 1)
      /\ Head(box) = box[1]
      /\ \A i \in 1..(Len(box) - 1) : Tail(box)[i] = box[i + 1]
  OBVIOUS
<1>2. \A i \in DOMAIN box : i = 1 \/ (i - 1 \in DOMAIN Tail(box) /\ Tail(box)[i - 1] = box[i])
  BY <1>1
<1>3. \A i \in DOMAIN Tail(box) : i + 1 \in DOMAIN box /\ Tail(box)[i] = box[i + 1]
  BY <1>1
<1>4. Msgs(box) = Msgs(Tail(box)) \cup {Head(box)}
  <2>1. ASSUME NEW m \in Msgs(box) PROVE m \in Msgs(Tail(box)) \cup {Head(box)}
    <3>1. PICK i \in DOMAIN box : m = box[i]
      BY <2>1 DEF Msgs
    <3>2. CASE i = 1
      BY <1>1, <3>1, <3>2
    <3>3. CASE i # 1
      BY <1>2, <3>1, <3>3 DEF Msgs
    <3> QED BY <3>2, <3>3
  <2>2. ASSUME NEW m \in Msgs(Tail(box)) PROVE m \in Msgs(box)
    BY <1>3, <2>2 DEF Msgs
  <2>3. Head(box) \in Msgs(box)
    BY <1>1 DEF Msgs
  <2> QED BY <2>1, <2>2, <2>3
<1>5. ASSUME NEW m, Once(box, m) PROVE Once(Tail(box), m)
  <2> SUFFICES ASSUME NEW i \in DOMAIN Tail(box), NEW j \in DOMAIN Tail(box),
                      Tail(box)[i] = m, Tail(box)[j] = m
               PROVE  i = j
    BY DEF Once
  <2>1. i + 1 = j + 1
    BY <1>3, <1>5 DEF Once
  <2> QED BY <1>1, <2>1
<1>6. ASSUME Once(box, Head(box)), Head(box) \in Msgs(Tail(box)) PROVE FALSE
  <2>1. PICK i \in DOMAIN Tail(box) : Tail(box)[i] = Head(box)
    BY <1>6 DEF Msgs
  <2>2. i + 1 = 1
    BY <1>1, <1>3, <1>6, <2>1 DEF Once
  <2> QED BY <1>1, <2>2
<1> QED BY <1>1, <1>4, <1>5, <1>6

\* Putting a message at the end of a mailbox.
LEMMA BoxAppend ==
    ASSUME NEW S, NEW box \in Seq(S), NEW x \in S
    PROVE  /\ Append(box, x) \in Seq(S)
           /\ Msgs(Append(box, x)) = Msgs(box) \cup {x}
           /\ \A m : Once(box, m) /\ (x = m => m \notin Msgs(box)) => Once(Append(box, x), m)
<1> DEFINE new == Append(box, x)
<1>1. /\ new \in Seq(S)
      /\ Len(box) \in Nat
      /\ DOMAIN box = 1..Len(box) /\ DOMAIN new = 1..(Len(box) + 1)
      /\ new[Len(box) + 1] = x
      /\ \A i \in 1..Len(box) : new[i] = box[i]
  OBVIOUS
<1> HIDE DEF new
<1>2. \A i \in DOMAIN new : \/ i \in DOMAIN box /\ new[i] = box[i]
                            \/ i = Len(box) + 1 /\ new[i] = x
  BY <1>1
<1>3. \A i \in DOMAIN box : i \in DOMAIN new /\ new[i] = box[i]
  BY <1>1
<1>4. x \in Msgs(new)
  BY <1>1 DEF Msgs
<1>5. Msgs(new) = Msgs(box) \cup {x}
  BY <1>2, <1>3, <1>4 DEF Msgs
<1>6. ASSUME NEW m, Once(box, m), x = m => m \notin Msgs(box) PROVE Once(new, m)
  BY <1>2, <1>6 DEF Once, Msgs
<1> QED BY <1>1, <1>5, <1>6 DEF new

\* Adding at most one message at the end of a mailbox.
LEMMA BoxConcat ==
    ASSUME NEW S, NEW box \in Seq(S), NEW x \in S
    PROVE  /\ box \o <<x>> = Append(box, x)
           /\ box \o <<>> = box
OBVIOUS

\* The broker's report of a kind about an order (SimulatedBrokerAdapter).
LEMMA ReportForTyped ==
    ASSUME NEW o \in OrderIds, NEW k \in ReportKind
    PROVE  /\ ReportFor[o][k] \in Reports
           /\ ReportFor[o][k].broker_order_id = BrokerId[o]
           /\ ReportFor[o][k].status = StatusOf(k)
           /\ ReportFor[o][k].priced
           /\ CarriesFill(ReportFor[o][k]) <=> k \in FillKind
BY FlowAssumption DEF CarriesFill, FillKind

\* A report with a fill names a fill id.
LEMMA FillTyped ==
    ASSUME NEW r \in Reports, CarriesFill(r)
    PROVE  r.fill_id \in FillIds
BY ReportAssumption DEF ReportType, CarriesFill

\* The message at the head of the order manager's mailbox.
LEMMA HeadMsg ==
    ASSUME FlowTypeOK, omBox # <<>>
    PROVE  /\ Head(omBox) \in RequestMsg \cup ReportMsg
           /\ Head(omBox).kind \in RequestKind =>
                 Head(omBox) \in RequestMsg /\ Head(omBox).order \in OrderIds
           /\ Head(omBox).kind = "report" =>
                 Head(omBox).report \in Reports /\ Head(omBox) = AsReport(Head(omBox).report)
<1>1. Head(omBox) \in RequestMsg \cup ReportMsg
  BY BoxTail DEF FlowTypeOK
<1> QED BY <1>1 DEF RequestMsg, ReportMsg, RequestKind, AsReport

\* The message at the head of the execution actor's mailbox.
LEMMA HeadRequest ==
    ASSUME FlowTypeOK, execBox # <<>>
    PROVE  /\ Head(execBox) \in RequestMsg
           /\ Head(execBox).order \in OrderIds
           /\ Head(execBox) = [kind |-> Head(execBox).kind, order |-> Head(execBox).order]
<1>1. Head(execBox) \in RequestMsg
  BY BoxTail DEF FlowTypeOK
<1> QED BY <1>1 DEF RequestMsg

-----------------------------------------------------------------------------
(***************************************************************************)
(* The order path drives the order manager by its operations only.         *)
(***************************************************************************)
LEMMA FlowStepsManager ==
    ASSUME FlowTypeOK, [FlowNext]_flowVars
    PROVE  [OMNext]_omVars
<1>1. ASSUME OMStep PROVE [OMNext]_omVars
  <2>1. omBox # <<>>
    BY <1>1 DEF OMStep, OMTurn, HandleSubmit, HandleCancelOrReplace, RefuseCancelOrReplace,
                TakeReport, RefuseReport
  <2>2. CASE HandleSubmit
    BY <2>1, <2>2, HeadMsg DEF HandleSubmit, RequestKind, OMNext
  <2>3. CASE HandleCancelOrReplace
    BY <2>1, <2>3, HeadMsg DEF HandleCancelOrReplace, RequestKind, OMNext
  <2>4. CASE RefuseCancelOrReplace
    BY <2>4 DEF RefuseCancelOrReplace
  <2>5. CASE TakeReport \/ RefuseReport
    BY <2>1, <2>5, HeadMsg DEF TakeReport, RefuseReport, OMNext
  <2> QED BY <1>1, <2>2, <2>3, <2>4, <2>5 DEF OMStep
<1>2. ASSUME ~OMStep PROVE UNCHANGED omVars
  BY <1>2 DEF FlowNext, flowVars, Request, Pump, Drained, Execute, ExecuteSubmit, ExecuteCancel,
              ExecuteReplace, ExecuteRaises, Answer, AccountStep, Fill, Reject, Deliver
<1> QED BY <1>1, <1>2

\* A turn of the order manager keeps the order path well typed
\* (OrderManagerActor.handle).
LEMMA ManagerTurnTyped ==
    ASSUME FlowTypeOK, OMTypeOK', OMStep
    PROVE  FlowTypeOK'
<1>1. omBox # <<>> /\ omBox' = Tail(omBox) /\ UNCHANGED <<requested, brokerVars, accountVars, copies>>
  BY DEF OMStep, OMTurn, HandleSubmit, HandleCancelOrReplace, RefuseCancelOrReplace,
         TakeReport, RefuseReport, Abort, historyVars
<1>2. omBox' \in Seq(RequestMsg \cup ReportMsg) /\ Head(omBox) \in RequestMsg \cup ReportMsg
  BY <1>1, BoxTail DEF FlowTypeOK
<1>3. /\ phase' \in Phase /\ failed' \subseteq RequestMsg \cup ReportMsg
  BY <1>2 DEF OMStep, HandleSubmit, HandleCancelOrReplace, RefuseCancelOrReplace,
         TakeReport, RefuseReport, Abort, historyVars, FlowTypeOK, Phase
<1>4. execBox' \in Seq(RequestMsg) /\ routeMeta' \subseteq OrderIds
  <2>1. CASE HandleSubmit \/ HandleCancelOrReplace
    <3>1. Head(omBox) \in RequestMsg /\ Head(omBox).order \in OrderIds
      BY <1>1, <2>1, HeadMsg DEF HandleSubmit, HandleCancelOrReplace, RequestKind
    <3>2. execBox' = Append(execBox, Head(omBox))
      BY <2>1 DEF HandleSubmit, HandleCancelOrReplace
    <3>3. execBox \in Seq(RequestMsg)
      BY DEF FlowTypeOK
    <3>4. execBox' \in Seq(RequestMsg)
      BY <3>1, <3>2, <3>3, BoxAppend
    <3> QED BY <2>1, <3>1, <3>4 DEF HandleSubmit, HandleCancelOrReplace, FlowTypeOK
  <2>2. CASE RefuseCancelOrReplace \/ TakeReport \/ RefuseReport
    BY <2>2 DEF RefuseCancelOrReplace, TakeReport, RefuseReport, FlowTypeOK
  <2> QED BY <2>1, <2>2 DEF OMStep
<1>5. accBox' \in Seq(FillIds) /\ quarantined' \subseteq Reports
  <2>1. CASE TakeReport
    <3> DEFINE r == Head(omBox).report
    <3>1. r \in Reports
      BY <1>1, <2>1, HeadMsg DEF TakeReport
    <3>2. accBox' = accBox \o FillsFor(r) /\ quarantined' \subseteq quarantined \cup {r}
      BY <2>1 DEF TakeReport
    <3>3. accBox \in Seq(FillIds)
      BY DEF FlowTypeOK
    <3> HIDE DEF r
    <3>4. CASE Applicable(r) /\ NewFill(r)
      <4>1. r.fill_id \in FillIds
        BY <3>1, <3>4, FillTyped DEF NewFill
      <4>2. accBox' = Append(accBox, r.fill_id)
        BY <3>2, <3>3, <3>4, <4>1, BoxConcat DEF FillsFor
      <4> QED BY <3>1, <3>2, <3>3, <4>1, <4>2, BoxAppend DEF FlowTypeOK
    <3>5. CASE ~(Applicable(r) /\ NewFill(r))
      <4>1. accBox' = accBox
        BY <3>2, <3>3, <3>5 DEF FillsFor
      <4> QED BY <3>1, <3>2, <3>3, <4>1 DEF FlowTypeOK
    <3> QED BY <3>4, <3>5
  <2>2. CASE ~TakeReport
    BY <2>2 DEF OMStep, HandleSubmit, HandleCancelOrReplace, RefuseCancelOrReplace,
                RefuseReport, Abort, historyVars, FlowTypeOK
  <2> QED BY <2>1, <2>2
<1> QED BY <1>1, <1>2, <1>3, <1>4, <1>5 DEF FlowTypeOK, brokerVars, accountVars

\* A turn of the execution actor keeps the order path well typed
\* (ExecutionActor.handle).
LEMMA ExecutionTurnTyped ==
    ASSUME FlowTypeOK, OMTypeOK', Execute \/ ExecuteRaises
    PROVE  FlowTypeOK'
<1>1. /\ execBox # <<>> /\ execBox' = Tail(execBox)
      /\ UNCHANGED <<requested, accBox, routeMeta, wire, executed, accountVars, quarantined>>
  BY DEF Execute, ExecTurn, ExecuteSubmit, ExecuteCancel, ExecuteReplace, ExecuteRaises,
         Answer, Abort, brokerVars
<1>2. execBox' \in Seq(RequestMsg) /\ Head(execBox) \in RequestMsg /\ Head(execBox).order \in OrderIds
  BY <1>1, BoxTail, HeadRequest DEF FlowTypeOK
<1>3. CASE ExecuteRaises
  BY <1>1, <1>2, <1>3 DEF ExecuteRaises, Abort, brokerVars, accountVars, FlowTypeOK, Phase
<1>4. CASE Execute
  <2> DEFINE o == Head(execBox).order
  <2>1. PICK k \in ReportKind : /\ omBox' = Append(omBox, AsReport(ReportFor[o][k]))
                                /\ copies' = [copies EXCEPT ![ReportFor[o][k]] = @ + 1]
    BY <1>4 DEF Execute, ExecuteSubmit, ExecuteCancel, ExecuteReplace, Answer, ReportKind
  <2>2. ReportFor[o][k] \in Reports
    BY <1>2, ReportForTyped
  <2>3. omBox' \in Seq(RequestMsg \cup ReportMsg)
    <3>1. AsReport(ReportFor[o][k]) \in RequestMsg \cup ReportMsg
      BY <2>2 DEF AsReport, ReportMsg
    <3>2. omBox \in Seq(RequestMsg \cup ReportMsg)
      BY DEF FlowTypeOK
    <3> QED BY <2>1, <3>1, <3>2, BoxAppend
  <2>4. copies' \in [Reports -> Nat]
    BY <2>1, <2>2 DEF FlowTypeOK
  <2>5. venue' \in [OrderIds -> {"none", "open", "filled", "cancelled", "rejected"}]
    BY <1>2, <1>4 DEF Execute, ExecuteSubmit, ExecuteCancel, ExecuteReplace, FlowTypeOK
  <2>6. adapterMap' \subseteq BrokerOrderIds
    <3>1. BrokerId[o] \in BrokerOrderIds
      BY <1>2, IdAssumption
    <3>2. adapterMap' = adapterMap \/ adapterMap' = adapterMap \cup {BrokerId[o]}
      BY <1>4 DEF Execute, ExecuteSubmit, ExecuteCancel, ExecuteReplace
    <3> QED BY <3>1, <3>2 DEF FlowTypeOK
  <2>7. phase' = phase /\ failed' = failed
    BY <1>4 DEF Execute, ExecuteSubmit, ExecuteCancel, ExecuteReplace, Answer
  <2> QED BY <1>1, <1>2, <2>3, <2>4, <2>5, <2>6, <2>7 DEF FlowTypeOK, accountVars
<1> QED BY <1>3, <1>4

\* Every step keeps the order path well typed.
LEMMA FlowTypeStep ==
    ASSUME FlowTypeOK, [FlowNext]_flowVars
    PROVE  FlowTypeOK'
<1>1. OMTypeOK'
  BY FlowStepsManager, OMTypeStep DEF FlowTypeOK
<1>2. ASSUME NEW k \in RequestKind, NEW o \in OrderIds, Request(k, o) PROVE FlowTypeOK'
  <2>1. [kind |-> k, order |-> o] \in RequestMsg \cup ReportMsg
    BY DEF RequestMsg
  <2>2. omBox \in Seq(RequestMsg \cup ReportMsg)
    BY DEF FlowTypeOK
  <2>3. omBox' \in Seq(RequestMsg \cup ReportMsg)
    BY <1>2, <2>1, <2>2, BoxAppend DEF Request
  <2> QED BY <1>1, <1>2, <2>3
          DEF Request, FlowTypeOK, Phase, brokerVars, accountVars, historyVars
<1>3. CASE Pump
  BY <1>1, <1>3 DEF Pump, FlowTypeOK, Phase, boxVars, brokerVars, accountVars, historyVars
<1>4. CASE Drained
  <2>1. phase' \in Phase
    BY <1>4 DEF Drained, Phase
  <2> QED BY <1>1, <1>4, <2>1
          DEF Drained, FlowTypeOK, boxVars, brokerVars, accountVars, historyVars
<1>5. CASE OMStep
  BY <1>1, <1>5, ManagerTurnTyped
<1>6. CASE Execute \/ ExecuteRaises
  BY <1>1, <1>6, ExecutionTurnTyped
<1>7. CASE AccountStep
  <2>1. accBox' \in Seq(FillIds) /\ Head(accBox) \in FillIds
    BY <1>7, BoxTail DEF AccountStep, FlowTypeOK
  <2>2. accSeen' \subseteq FillIds /\ applied' \in [FillIds -> Nat]
    BY <1>7, <2>1 DEF AccountStep, ApplyFill, FlowTypeOK
  <2> QED BY <1>1, <1>7, <2>1, <2>2 DEF AccountStep, FlowTypeOK, brokerVars, historyVars
<1>8. ASSUME NEW o \in OrderIds, NEW k \in FillKind, Fill(o, k) PROVE FlowTypeOK'
  <2>1. ReportFor[o][k] \in Reports /\ ReportFor[o][k].fill_id \in FillIds
    BY ReportForTyped, FillTyped DEF FillKind, ReportKind
  <2>2. /\ executed' \subseteq FillIds /\ wire' \subseteq Reports
        /\ venue' \in [OrderIds -> {"none", "open", "filled", "cancelled", "rejected"}]
    BY <1>8, <2>1 DEF Fill, FlowTypeOK
  <2> QED BY <1>1, <1>8, <2>2 DEF Fill, FlowTypeOK, boxVars, accountVars, historyVars
<1>9. ASSUME NEW o \in OrderIds, Reject(o) PROVE FlowTypeOK'
  <2>1. ReportFor[o]["rejected"] \in Reports
    BY ReportForTyped DEF ReportKind
  <2>2. /\ wire' \subseteq Reports
        /\ venue' \in [OrderIds -> {"none", "open", "filled", "cancelled", "rejected"}]
    BY <1>9, <2>1 DEF Reject, FlowTypeOK
  <2> QED BY <1>1, <1>9, <2>2 DEF Reject, FlowTypeOK, boxVars, accountVars, historyVars
<1>10. ASSUME NEW r \in Reports, Deliver(r) PROVE FlowTypeOK'
  <2>1. AsReport(r) \in RequestMsg \cup ReportMsg
    BY DEF AsReport, ReportMsg
  <2>2. omBox \in Seq(RequestMsg \cup ReportMsg)
    BY DEF FlowTypeOK
  <2>3. omBox' \in Seq(RequestMsg \cup ReportMsg)
    BY <1>10, <2>1, <2>2, BoxAppend DEF Deliver
  <2>4. copies' \in [Reports -> Nat]
    BY <1>10 DEF Deliver, FlowTypeOK
  <2> QED BY <1>1, <1>10, <2>3, <2>4 DEF Deliver, FlowTypeOK, brokerVars, accountVars
<1>11. CASE UNCHANGED flowVars
  BY <1>1, <1>11 DEF flowVars, FlowTypeOK, boxVars, brokerVars, accountVars, historyVars
<1> QED BY <1>2, <1>3, <1>4, <1>5, <1>6, <1>7, <1>8, <1>9, <1>10, <1>11 DEF FlowNext

\* The order path is well typed from its first state on.
LEMMA FlowTypeInit == FlowInit => FlowTypeOK
<1> SUFFICES ASSUME FlowInit PROVE FlowTypeOK
  OBVIOUS
<1>1. OMTypeOK
  BY OMTypeInit DEF FlowInit
<1>2. /\ omBox \in Seq(RequestMsg \cup ReportMsg) /\ execBox \in Seq(RequestMsg)
      /\ accBox \in Seq(FillIds)
  BY DEF FlowInit
<1> QED BY <1>1, <1>2 DEF FlowInit, FlowTypeOK, Phase

\* Mailboxes, books and histories of the order path are well typed, for any
\* orders, requests, reports and copies of them.
THEOREM FlowTypeCorrect == FlowSpec => []FlowTypeOK
BY FlowTypeInit, FlowTypeStep, PTL DEF FlowSpec

\* The order path uses the order manager as module OrderManager describes it,
\* so what is proved of the manager holds on the path (OrderManagerActor.handle).
THEOREM FlowImplementsManager == FlowSpec => OMSpec
<1>1. FlowInit => OMInit
  BY DEF FlowInit
<1> QED BY <1>1, FlowTypeInit, FlowTypeStep, FlowStepsManager, PTL DEF FlowSpec, OMSpec

-----------------------------------------------------------------------------

(***************************************************************************)
(* The inductive invariant of the order path.  An order is submitted once: *)
(* its submission is in one mailbox, or the broker has received it, never  *)
(* both, so nothing re-opens an order at the broker.  Every report on its  *)
(* way is one the broker made about an order it has, and says cancelled or *)
(* final only if the broker is done with the order.  And every fill id the *)
(* order manager has seen, alone or through its report id, is in the       *)
(* account or in the account's mailbox.                                    *)
(***************************************************************************)
SubmitOf(o) == [kind |-> "submit", order |-> o]

Done == {"filled", "cancelled", "rejected"}

OneSubmission(o) ==
    /\ SubmitOf(o) \in Msgs(omBox) => SubmitOf(o) \notin Msgs(execBox)
    /\ SubmitOf(o) \in Msgs(omBox) \cup Msgs(execBox) =>
          venue[o] = "none" /\ <<"submit", o>> \in requested
    /\ Once(omBox, SubmitOf(o)) /\ Once(execBox, SubmitOf(o))
    /\ venue[o] # "none" => <<"submit", o>> \in requested
    /\ SubmitOf(o) \in Msgs(execBox) \/ venue[o] # "none" => brokerToOrder[BrokerId[o]] = o

SubmittedOnce == \A o \in OrderIds : OneSubmission(o)

TrueReport(r) ==
    \E o \in OrderIds, k \in ReportKind :
        /\ r = ReportFor[o][k]
        /\ venue[o] # "none"
        /\ k \in {"cancelled", "rejected", "final"} => venue[o] \in Done

TrueReports ==
    /\ \A r \in Reports : AsReport(r) \in Msgs(omBox) => TrueReport(r)
    /\ \A r \in wire : TrueReport(r)

FillHandled(f) == applied[f] > 0 \/ f \in Msgs(accBox)

FillsKept ==
    /\ \A f \in accSeen : applied[f] > 0
    /\ \A f \in fillIds : FillHandled(f)
    /\ \A o \in OrderIds, k \in FillKind :
          ReportFor[o][k].report_id \in seenReports => FillHandled(ReportFor[o][k].fill_id)
    /\ \A r \in Reports : Delivered(r) /\ CarriesFill(r) =>
          \/ FillHandled(r.fill_id)
          \/ AsReport(r) \in Msgs(omBox)
          \/ AsReport(r) \in failed

FlowInv ==
    SubmittedOnce /\ TrueReports /\ NeverAheadOfBroker /\ FillsKept /\ NothingQuarantined

\* A request is never taken for a report (the actors dispatch on the type).
LEMMA RequestIsNoReport ==
    ASSUME NEW k \in RequestKind, NEW o, NEW r, NEW p
    PROVE  /\ [kind |-> k, order |-> o] # AsReport(r)
           /\ SubmitOf(p) # AsReport(r)
BY DEF AsReport, RequestKind, SubmitOf

\* Two reports are one report if their messages are.
LEMMA AsReportInjective ==
    ASSUME NEW r, NEW q, AsReport(r) = AsReport(q)
    PROVE  r = q
<1>1. AsReport(r).report = r /\ AsReport(q).report = q
  BY DEF AsReport
<1> QED BY <1>1

\* Where the broker never takes an order back, its reports stay true.
LEMMA TrueReportStays ==
    ASSUME NEW r, TrueReport(r),
           \A o \in OrderIds : /\ venue[o] # "none" => venue'[o] # "none"
                               /\ venue[o] \in Done => venue'[o] \in Done
    PROVE  TrueReport(r)'
BY DEF TrueReport

\* A request from the driver (process_intent, CancelIntentRouter).
LEMMA RequestKeeps ==
    ASSUME FlowTypeOK, FlowInv, NEW k \in RequestKind, NEW o \in OrderIds, Request(k, o)
    PROVE  FlowInv'
<1> DEFINE m == [kind |-> k, order |-> o]
<1>1. /\ <<k, o>> \notin requested /\ requested' = requested \cup {<<k, o>>}
      /\ omBox' = Append(omBox, m)
      /\ UNCHANGED <<orders, brokerToOrder, fillIds, seenReports, execBox, accBox, venue, wire,
                     accSeen, applied, copies, quarantined, failed>>
  BY DEF Request, omVars, idVars, brokerVars, accountVars, historyVars
<1>2. m \in RequestMsg \cup ReportMsg /\ omBox \in Seq(RequestMsg \cup ReportMsg)
  BY DEF RequestMsg, FlowTypeOK
<1>3. /\ Msgs(omBox') = Msgs(omBox) \cup {m}
      /\ \A n : Once(omBox, n) /\ (m = n => n \notin Msgs(omBox)) => Once(omBox', n)
  BY <1>1, <1>2, BoxAppend
<1>4. \A r : m # AsReport(r)
  BY RequestIsNoReport
<1>5. \A p \in OrderIds : m = SubmitOf(p) => k = "submit" /\ o = p
  BY DEF SubmitOf
<1> HIDE DEF m
<1>6. SubmittedOnce'
  <2> SUFFICES ASSUME NEW p \in OrderIds PROVE OneSubmission(p)'
    BY DEF SubmittedOnce
  <2>1. CASE m = SubmitOf(p)
    <3>1. <<"submit", p>> \notin requested /\ <<"submit", p>> \in requested'
      BY <1>1, <1>5, <2>1
    <3>2. /\ SubmitOf(p) \notin Msgs(omBox) /\ SubmitOf(p) \notin Msgs(execBox)
          /\ venue[p] = "none" /\ Once(omBox, SubmitOf(p)) /\ Once(execBox, SubmitOf(p))
      BY <3>1 DEF FlowInv, SubmittedOnce, OneSubmission
    <3> QED BY <1>1, <1>3, <2>1, <3>1, <3>2 DEF OneSubmission
  <2>2. CASE m # SubmitOf(p)
    BY <1>1, <1>3, <2>2 DEF FlowInv, SubmittedOnce, OneSubmission
  <2> QED BY <2>1, <2>2
<1>7. TrueReports'
  <2>1. \A r \in Reports : TrueReport(r) => TrueReport(r)'
    BY <1>1, TrueReportStays
  <2>2. wire \subseteq Reports
    BY DEF FlowTypeOK
  <2> QED BY <1>1, <1>3, <1>4, <2>1, <2>2 DEF FlowInv, TrueReports
<1>8. NeverAheadOfBroker' /\ NothingQuarantined'
  BY <1>1 DEF FlowInv, NeverAheadOfBroker, NothingQuarantined
<1>9. FillsKept'
  <2>1. \A f : FillHandled(f)' <=> FillHandled(f)
    BY <1>1 DEF FillHandled, Msgs
  <2> QED BY <1>1, <1>3, <2>1 DEF FlowInv, FillsKept, Delivered
<1> QED BY <1>6, <1>7, <1>8, <1>9 DEF FlowInv

\* The driver moves on to another mailbox, or nothing happens.
LEMMA QuietFlowStep ==
    ASSUME FlowTypeOK, FlowInv,
           UNCHANGED <<orders, brokerToOrder, fillIds, seenReports, requested, omBox, execBox,
                       accBox, venue, wire, accSeen, applied, copies, quarantined, failed>>
    PROVE  FlowInv'
<1>1. SubmittedOnce'
  BY DEF FlowInv, SubmittedOnce, OneSubmission
<1>2. \A r : TrueReport(r)' <=> TrueReport(r)
  BY DEF TrueReport
<1>3. \A f : FillHandled(f)' <=> FillHandled(f)
  BY DEF FillHandled
<1> QED BY <1>1, <1>2, <1>3
        DEF FlowInv, TrueReports, NeverAheadOfBroker, NothingQuarantined, FillsKept, Delivered

\* A submission goes on to the execution actor (_handle_submit).
LEMMA HandleSubmitKeeps ==
    ASSUME FlowTypeOK, FlowInv, HandleSubmit
    PROVE  FlowInv'
<1> DEFINE m == Head(omBox)
           o == Head(omBox).order
<1>1. /\ omBox # <<>> /\ omBox' = Tail(omBox) /\ m.kind = "submit"
      /\ execBox' = Append(execBox, m)
      /\ orders' = [orders EXCEPT ![o] = "SENT"]
      /\ brokerToOrder' = [brokerToOrder EXCEPT ![BrokerId[o]] = o]
      /\ UNCHANGED <<fillIds, seenReports, requested, accBox, venue, wire, accSeen, applied,
                     copies, quarantined, failed>>
  BY DEF HandleSubmit, OMTurn, Submit, Apply, DuplicateTerminal, TerminalStates, idVars, brokerVars,
         accountVars, historyVars
<1>2. m \in RequestMsg /\ o \in OrderIds /\ m = SubmitOf(o)
  BY <1>1, HeadMsg DEF RequestKind, RequestMsg, SubmitOf
<1>3. omBox \in Seq(RequestMsg \cup ReportMsg) /\ execBox \in Seq(RequestMsg)
  BY DEF FlowTypeOK
<1>4. /\ Msgs(omBox) = Msgs(omBox') \cup {m}
      /\ \A n : Once(omBox, n) => Once(omBox', n)
      /\ Once(omBox, m) => m \notin Msgs(omBox')
  BY <1>1, <1>3, BoxTail
<1>5. /\ Msgs(execBox') = Msgs(execBox) \cup {m}
      /\ \A n : Once(execBox, n) /\ (m = n => n \notin Msgs(execBox)) => Once(execBox', n)
  BY <1>1, <1>2, <1>3, BoxAppend
<1>6. \A r : m # AsReport(r)
  BY <1>2, RequestIsNoReport DEF RequestKind
<1>7. \A p \in OrderIds : m = SubmitOf(p) => o = p
  BY <1>2 DEF SubmitOf
<1>8. /\ \A p \in OrderIds \ {o} : BrokerId[p] # BrokerId[o] /\ BrokerId[p] \in BrokerOrderIds
      /\ BrokerId[o] \in BrokerOrderIds
  BY <1>2, IdAssumption
<1>9. /\ brokerToOrder \in [BrokerOrderIds -> OrderIds \cup {NoOrder}]
      /\ orders \in [OrderIds -> OrderState \cup {Untracked}]
  BY DEF FlowTypeOK, OMTypeOK
<1> HIDE DEF m, o
<1>10. SubmittedOnce'
  <2> SUFFICES ASSUME NEW p \in OrderIds PROVE OneSubmission(p)'
    BY DEF SubmittedOnce
  <2>1. OneSubmission(p)
    BY DEF FlowInv, SubmittedOnce
  <2>2. CASE p = o
    <3>1. brokerToOrder'[BrokerId[p]] = p
      BY <1>1, <1>8, <1>9, <2>2
    <3>2. m = SubmitOf(p) /\ m \notin Msgs(execBox) /\ m \notin Msgs(omBox')
      BY <1>2, <1>4, <2>1, <2>2 DEF OneSubmission
    <3> QED BY <1>1, <1>4, <1>5, <2>1, <3>1, <3>2 DEF OneSubmission
  <2>3. CASE p # o
    <3>1. brokerToOrder'[BrokerId[p]] = brokerToOrder[BrokerId[p]]
      BY <1>1, <1>8, <1>9, <2>3
    <3>2. m # SubmitOf(p)
      BY <1>7, <2>3
    <3> QED BY <1>1, <1>4, <1>5, <2>1, <3>1, <3>2 DEF OneSubmission
  <2> QED BY <2>2, <2>3
<1>11. TrueReports'
  <2>1. \A r : TrueReport(r)' <=> TrueReport(r)
    BY <1>1 DEF TrueReport
  <2> QED BY <1>1, <1>4, <2>1 DEF FlowInv, TrueReports
<1>12. NeverAheadOfBroker'
  BY <1>1, <1>2, <1>9 DEF FlowInv, NeverAheadOfBroker, TerminalStates
<1>13. FillsKept'
  <2>1. \A f : FillHandled(f)' <=> FillHandled(f)
    BY <1>1 DEF FillHandled
  <2> QED BY <1>1, <1>4, <1>6, <2>1 DEF FlowInv, FillsKept, Delivered
<1> QED BY <1>1, <1>10, <1>11, <1>12, <1>13 DEF FlowInv, NothingQuarantined

\* A cancel or replace, handled or refused (_handle_cancel, _handle_replace).
LEMMA HandleChangeKeeps ==
    ASSUME FlowTypeOK, FlowInv, HandleCancelOrReplace \/ RefuseCancelOrReplace
    PROVE  FlowInv'
<1> DEFINE m == Head(omBox)
           o == Head(omBox).order
<1>1. /\ omBox # <<>> /\ omBox' = Tail(omBox) /\ m.kind \in {"cancel", "replace"}
      /\ UNCHANGED <<brokerToOrder, fillIds, seenReports, requested, accBox, venue, wire,
                     accSeen, applied, copies, quarantined>>
      /\ failed \subseteq failed'
      /\ execBox' = execBox \/ execBox' = Append(execBox, m)
  BY DEF HandleCancelOrReplace, RefuseCancelOrReplace, RequestCancel, RequestReplace, OMTurn,
         Abort, idVars, omVars, brokerVars, accountVars, historyVars
<1>2. m \in RequestMsg /\ o \in OrderIds
  BY <1>1, HeadMsg DEF RequestKind
<1>3. omBox \in Seq(RequestMsg \cup ReportMsg) /\ execBox \in Seq(RequestMsg)
  BY DEF FlowTypeOK
<1>4. /\ Msgs(omBox) = Msgs(omBox') \cup {m}
      /\ \A n : Once(omBox, n) => Once(omBox', n)
  BY <1>1, <1>3, BoxTail
<1>5. \A p \in OrderIds : m # SubmitOf(p)
  BY <1>1 DEF SubmitOf
<1>6. \A r : m # AsReport(r)
  BY <1>1 DEF AsReport
<1>7. /\ Msgs(execBox') \subseteq Msgs(execBox) \cup {m} /\ Msgs(execBox) \subseteq Msgs(execBox')
      /\ \A n : Once(execBox, n) /\ m # n => Once(execBox', n)
  <2>1. CASE execBox' = execBox
    BY <2>1
  <2>2. CASE execBox' = Append(execBox, m)
    BY <1>2, <1>3, <2>2, BoxAppend
  <2> QED BY <1>1, <2>1, <2>2
<1>8. \A p \in OrderIds : orders'[p] \in TerminalStates => orders[p] \in TerminalStates
  <2>1. orders \in [OrderIds -> OrderState \cup {Untracked}]
    BY DEF FlowTypeOK, OMTypeOK
  <2>2. \/ orders' = orders
        \/ orders' = [orders EXCEPT ![o] = Apply(@, "CANCEL_REQUESTED")]
        \/ orders' = [orders EXCEPT ![o] = Apply(@, "REPLACE_REQUESTED")]
    BY DEF HandleCancelOrReplace, RefuseCancelOrReplace, RequestCancel, RequestReplace, omVars
  <2> QED BY <1>2, <2>1, <2>2 DEF Apply, TerminalStates
<1> HIDE DEF m, o
<1>9. SubmittedOnce'
  BY <1>1, <1>4, <1>5, <1>7 DEF FlowInv, SubmittedOnce, OneSubmission
<1>10. TrueReports'
  <2>1. \A r : TrueReport(r)' <=> TrueReport(r)
    BY <1>1 DEF TrueReport
  <2> QED BY <1>1, <1>4, <2>1 DEF FlowInv, TrueReports
<1>11. NeverAheadOfBroker'
  BY <1>1, <1>8 DEF FlowInv, NeverAheadOfBroker
<1>12. FillsKept'
  <2>1. \A f : FillHandled(f)' <=> FillHandled(f)
    BY <1>1 DEF FillHandled
  <2> QED BY <1>1, <1>4, <1>6, <2>1 DEF FlowInv, FillsKept, Delivered
<1> QED BY <1>1, <1>9, <1>10, <1>11, <1>12 DEF FlowInv, NothingQuarantined

\* The order a report on its way is about is tracked, so the report is never
\* quarantined (ExecutionReportHandler.handle).
LEMMA HeadReport ==
    ASSUME FlowTypeOK, BrokerMapSound, FlowInv, omBox # <<>>, Head(omBox).kind = "report"
    PROVE  \E o \in OrderIds, k \in ReportKind :
              /\ Head(omBox) = AsReport(ReportFor[o][k])
              /\ Head(omBox).report = ReportFor[o][k]
              /\ OrderOf(ReportFor[o][k]) = o
              /\ Resolvable(ReportFor[o][k])
              /\ k \in {"cancelled", "rejected", "final"} => venue[o] \in Done
<1> DEFINE r == Head(omBox).report
<1>1. r \in Reports /\ Head(omBox) = AsReport(r)
  BY HeadMsg
<1>2. omBox \in Seq(RequestMsg \cup ReportMsg)
  BY DEF FlowTypeOK
<1>3. AsReport(r) \in Msgs(omBox)
  BY <1>1, <1>2, BoxTail
<1>4. TrueReport(r)
  BY <1>1, <1>3 DEF FlowInv, TrueReports
<1> HIDE DEF r
<1>5. PICK o \in OrderIds, k \in ReportKind :
         /\ r = ReportFor[o][k]
         /\ venue[o] # "none"
         /\ k \in {"cancelled", "rejected", "final"} => venue[o] \in Done
  BY <1>4 DEF TrueReport
<1>6. brokerToOrder[BrokerId[o]] = o
  BY <1>5 DEF FlowInv, SubmittedOnce, OneSubmission
<1>7. OrderOf(r) = o
  BY <1>5, <1>6, ReportForTyped DEF OrderOf
<1>8. Resolvable(r)
  <2>1. BrokerId[o] \in BrokerOrderIds /\ NoOrder \notin OrderIds
    BY IdAssumption
  <2>2. Tracked(o)
    BY <1>6, <2>1 DEF BrokerMapSound
  <2> QED BY <1>7, <2>1, <2>2 DEF Resolvable
<1> QED BY <1>1, <1>5, <1>7, <1>8 DEF r

\* A report the order manager takes (_handle_report).
LEMMA TakeReportKeeps ==
    ASSUME FlowTypeOK, BrokerMapSound, FlowInv, TakeReport
    PROVE  FlowInv'
<1>1. omBox # <<>> /\ Head(omBox).kind = "report"
  BY DEF TakeReport, OMTurn
<1>2. PICK o \in OrderIds, k \in ReportKind :
              /\ Head(omBox) = AsReport(ReportFor[o][k])
              /\ Head(omBox).report = ReportFor[o][k]
              /\ OrderOf(ReportFor[o][k]) = o
              /\ Resolvable(ReportFor[o][k])
              /\ k \in {"cancelled", "rejected", "final"} => venue[o] \in Done
  BY <1>1, HeadReport
<1> DEFINE r == ReportFor[o][k]
           m == AsReport(r)
<1>3. /\ omBox' = Tail(omBox) /\ Head(omBox) = m
      /\ ~Raises(r) /\ HandleReport(r)
      /\ accBox' = accBox \o FillsFor(r)
      /\ UNCHANGED <<requested, execBox, venue, wire, accSeen, applied, copies, quarantined,
                     failed>>
  BY <1>2 DEF TakeReport, OMTurn, brokerVars, accountVars
<1>4. r \in Reports /\ r.status = StatusOf(k) /\ r.priced /\ (CarriesFill(r) <=> k \in FillKind)
  BY ReportForTyped
<1>5. brokerToOrder' = brokerToOrder
  BY <1>3 DEF HandleReport, LeaveReport, ApplyReport, omVars
<1>6. /\ omBox \in Seq(RequestMsg \cup ReportMsg) /\ accBox \in Seq(FillIds)
      /\ orders \in [OrderIds -> OrderState \cup {Untracked}]
  BY DEF FlowTypeOK, OMTypeOK
<1>7. /\ Msgs(omBox) = Msgs(omBox') \cup {m}
      /\ \A n : Once(omBox, n) => Once(omBox', n)
  BY <1>1, <1>3, <1>6, BoxTail
<1>8. \A p \in OrderIds : m # SubmitOf(p)
  BY RequestIsNoReport DEF RequestKind
<1>9. OrderOf(r) = o /\ Resolvable(r)
  BY <1>2
<1>10. SubmittedOnce'
  BY <1>3, <1>5, <1>7, <1>8 DEF FlowInv, SubmittedOnce, OneSubmission
<1>11. TrueReports'
  <2>1. \A q : TrueReport(q)' <=> TrueReport(q)
    BY <1>3 DEF TrueReport
  <2> QED BY <1>3, <1>7, <2>1 DEF FlowInv, TrueReports
<1>12. NeverAheadOfBroker'
  <2>1. CASE LeaveReport(r)
    BY <1>3, <2>1 DEF LeaveReport, omVars, FlowInv, NeverAheadOfBroker
  <2>2. CASE ApplyReport(r)
    <3>1. orders' = [orders EXCEPT ![o] = Apply(@, StatusOf(k))]
      BY <1>4, <1>9, <2>2 DEF ApplyReport
    <3>2. StatusOf(k) \in TerminalStates => k \in {"cancelled", "rejected", "final"}
      BY DEF StatusOf, TerminalStates, ReportKind
    <3>3. orders'[o] \in TerminalStates =>
            orders[o] \in TerminalStates \/ k \in {"cancelled", "rejected", "final"}
      BY <1>6, <3>1, <3>2 DEF Apply, DuplicateTerminal
    <3>4. \A p \in OrderIds : p # o => orders'[p] = orders[p]
      BY <1>6, <3>1
    <3> QED BY <1>2, <1>3, <3>3, <3>4 DEF FlowInv, NeverAheadOfBroker, Done
  <2> QED BY <1>3, <2>1, <2>2 DEF HandleReport
<1>13. FillsKept'
  <2>1. CASE Applicable(r) /\ NewFill(r)
    <3>1. r.fill_id \in FillIds
      BY <1>4, <2>1, FillTyped DEF NewFill
    <3>2. Msgs(accBox') = Msgs(accBox) \cup {r.fill_id}
      <4>1. accBox' = Append(accBox, r.fill_id)
        BY <1>3, <1>6, <2>1, <3>1, BoxConcat DEF FillsFor
      <4> QED BY <1>6, <3>1, <4>1, BoxAppend
    <3>3. fillIds' = fillIds \cup {r.fill_id} /\ seenReports' = seenReports \cup {r.report_id}
      BY <1>3, <2>1 DEF HandleReport, LeaveReport, ApplyReport
    <3>4. \A f : FillHandled(f) => FillHandled(f)'
      BY <1>3, <3>2 DEF FillHandled
    <3>5. FillHandled(r.fill_id)'
      BY <3>2 DEF FillHandled
    <3>6. \A p \in OrderIds, l \in FillKind :
             ReportFor[p][l].report_id = r.report_id => ReportFor[p][l] = r
      BY FlowAssumption DEF FillKind, ReportKind
    <3> HIDE DEF r
    <3>7. \A f \in fillIds' : FillHandled(f)'
      BY <3>3, <3>4, <3>5 DEF FlowInv, FillsKept
    <3>8. \A p \in OrderIds, l \in FillKind :
             ReportFor[p][l].report_id \in seenReports' => FillHandled(ReportFor[p][l].fill_id)'
      BY <3>3, <3>4, <3>5, <3>6 DEF FlowInv, FillsKept
    <3>9. \A q \in Reports : Delivered(q)' /\ CarriesFill(q) =>
             FillHandled(q.fill_id)' \/ AsReport(q) \in Msgs(omBox') \/ AsReport(q) \in failed'
      BY <1>3, <1>7, <3>4, <3>5, AsReportInjective DEF FlowInv, FillsKept, Delivered
    <3> QED BY <1>3, <3>7, <3>8, <3>9 DEF FlowInv, FillsKept
  <2>2. CASE ~(Applicable(r) /\ NewFill(r))
    <3>1. accBox' = accBox
      BY <1>3, <1>6, <2>2 DEF FillsFor
    <3>2. \A f : FillHandled(f)' <=> FillHandled(f)
      BY <1>3, <3>1 DEF FillHandled
    <3>3. fillIds' = fillIds /\ seenReports' \subseteq seenReports \cup {r.report_id}
      BY <1>3, <2>2 DEF HandleReport, LeaveReport, ApplyReport, omVars, idVars
    <3>4. CarriesFill(r) => FillHandled(r.fill_id)
      <4>1. CASE Duplicate(r)
        BY <1>4, <4>1 DEF Duplicate, FlowInv, FillsKept
      <4>2. CASE Applicable(r)
        BY <1>4, <2>2, <4>2 DEF NewFill, FlowInv, FillsKept
      <4> QED BY <1>3, <1>9, <4>1, <4>2 DEF Raises
    <3>5. \A p \in OrderIds, l \in FillKind :
             ReportFor[p][l].report_id = r.report_id => ReportFor[p][l] = r
      BY FlowAssumption DEF FillKind, ReportKind
    <3>6. \A p \in OrderIds, l \in FillKind : CarriesFill(ReportFor[p][l])
      BY ReportForTyped DEF FillKind, ReportKind
    <3> HIDE DEF r
    <3>7. \A p \in OrderIds, l \in FillKind :
             ReportFor[p][l].report_id \in seenReports' => FillHandled(ReportFor[p][l].fill_id)'
      BY <3>2, <3>3, <3>4, <3>5, <3>6 DEF FlowInv, FillsKept
    <3>8. \A q \in Reports : Delivered(q)' /\ CarriesFill(q) =>
             FillHandled(q.fill_id)' \/ AsReport(q) \in Msgs(omBox') \/ AsReport(q) \in failed'
      BY <1>3, <1>7, <3>2, <3>4, AsReportInjective DEF FlowInv, FillsKept, Delivered
    <3> QED BY <1>3, <3>2, <3>3, <3>7, <3>8 DEF FlowInv, FillsKept
  <2> QED BY <2>1, <2>2
<1> QED BY <1>3, <1>10, <1>11, <1>12, <1>13 DEF FlowInv, NothingQuarantined

\* A report the state machine refuses ends the drive and changes no order
\* (OrderTransitionError out of process_report).
LEMMA RefuseReportKeeps ==
    ASSUME FlowTypeOK, BrokerMapSound, FlowInv, RefuseReport
    PROVE  FlowInv'
<1>1. omBox # <<>> /\ Head(omBox).kind = "report"
  BY DEF RefuseReport, OMTurn
<1>2. PICK o \in OrderIds, k \in ReportKind :
              /\ Head(omBox) = AsReport(ReportFor[o][k])
              /\ Head(omBox).report = ReportFor[o][k]
  BY <1>1, HeadReport
<1> DEFINE r == ReportFor[o][k]
           m == AsReport(r)
<1>3. /\ omBox' = Tail(omBox) /\ Head(omBox) = m
      /\ Raises(r) /\ HandleReport(r)
      /\ failed' = failed \cup {m}
      /\ UNCHANGED <<requested, execBox, accBox, venue, wire, accSeen, applied, copies,
                     quarantined>>
  BY <1>2 DEF RefuseReport, Abort, OMTurn, brokerVars, accountVars
<1>4. r.priced
  BY ReportForTyped
<1>5. UNCHANGED <<orders, brokerToOrder, fillIds, seenReports>>
  BY <1>3, <1>4 DEF Raises, HandleReport, LeaveReport, ApplyReport, omVars, idVars
<1>6. omBox \in Seq(RequestMsg \cup ReportMsg)
  BY DEF FlowTypeOK
<1>7. /\ Msgs(omBox) = Msgs(omBox') \cup {m}
      /\ \A n : Once(omBox, n) => Once(omBox', n)
  BY <1>1, <1>3, <1>6, BoxTail
<1>8. \A p \in OrderIds : m # SubmitOf(p)
  BY RequestIsNoReport DEF RequestKind
<1> HIDE DEF m
<1>9. SubmittedOnce'
  BY <1>3, <1>5, <1>7, <1>8 DEF FlowInv, SubmittedOnce, OneSubmission
<1>10. TrueReports'
  <2>1. \A q : TrueReport(q)' <=> TrueReport(q)
    BY <1>3 DEF TrueReport
  <2> QED BY <1>3, <1>7, <2>1 DEF FlowInv, TrueReports
<1>11. NeverAheadOfBroker' /\ NothingQuarantined'
  BY <1>3, <1>5 DEF FlowInv, NeverAheadOfBroker, NothingQuarantined
<1>12. FillsKept'
  <2>1. \A f : FillHandled(f)' <=> FillHandled(f)
    BY <1>3 DEF FillHandled
  <2> QED BY <1>3, <1>5, <1>7, <2>1 DEF FlowInv, FillsKept, Delivered
<1> QED BY <1>9, <1>10, <1>11, <1>12 DEF FlowInv

\* The broker answers a request: the answer is true of the order as the broker
\* now has it, and only a submission opens an order (ExecutionActor.handle).
LEMMA ExecuteKeeps ==
    ASSUME FlowTypeOK, FlowInv, Execute
    PROVE  FlowInv'
<1> DEFINE h == Head(execBox)
<1>1. /\ execBox # <<>> /\ execBox' = Tail(execBox)
      /\ UNCHANGED <<orders, brokerToOrder, fillIds, seenReports, requested, accBox, wire,
                     accSeen, applied, quarantined, failed>>
  BY DEF Execute, ExecTurn, ExecuteSubmit, ExecuteCancel, ExecuteReplace, Answer, omVars, idVars,
         accountVars
<1>2. PICK o \in OrderIds : h.order = o /\ h \in RequestMsg /\ h = [kind |-> h.kind, order |-> o]
  BY <1>1, HeadRequest
<1>3. /\ execBox \in Seq(RequestMsg) /\ omBox \in Seq(RequestMsg \cup ReportMsg)
      /\ venue \in [OrderIds -> {"none", "open", "filled", "cancelled", "rejected"}]
      /\ copies \in [Reports -> Nat] /\ wire \subseteq Reports
  BY DEF FlowTypeOK
<1>4. /\ Msgs(execBox) = Msgs(execBox') \cup {h}
      /\ \A n : Once(execBox, n) => Once(execBox', n)
      /\ Once(execBox, h) => h \notin Msgs(execBox')
  BY <1>1, <1>3, BoxTail
<1>5. PICK k \in ReportKind : /\ omBox' = Append(omBox, AsReport(ReportFor[o][k]))
                              /\ copies' = [copies EXCEPT ![ReportFor[o][k]] = @ + 1]
                              /\ venue'[o] # "none"
                              /\ (k \in {"cancelled", "rejected", "final"}) => (venue'[o] \in Done)
                              /\ k \notin FillKind
  <2>1. CASE ExecuteSubmit
    <3>1. venue'[o] # "none"
      BY <1>2, <1>3, <2>1 DEF ExecuteSubmit
    <3> QED BY <1>2, <2>1, <3>1 DEF ExecuteSubmit, Answer, ReportKind, FillKind
  <2>2. CASE ExecuteCancel
    <3>1. venue'[o] \in Done
      BY <1>2, <1>3, <2>2 DEF ExecuteCancel, Done
    <3> QED BY <1>2, <2>2, <3>1 DEF ExecuteCancel, Answer, ReportKind, FillKind, Done
  <2>3. CASE ExecuteReplace
    BY <1>2, <2>3 DEF ExecuteReplace, Answer, ReportKind, FillKind
  <2> QED BY <2>1, <2>2, <2>3 DEF Execute
<1> DEFINE r == ReportFor[o][k]
<1>6. r \in Reports /\ ~CarriesFill(r)
  BY <1>2, <1>5, ReportForTyped
<1>7. AsReport(r) \in RequestMsg \cup ReportMsg
  BY <1>6 DEF AsReport, ReportMsg
<1>8. /\ Msgs(omBox') = Msgs(omBox) \cup {AsReport(r)}
      /\ \A n : Once(omBox, n) /\ AsReport(r) # n => Once(omBox', n)
  <2>1. omBox' = Append(omBox, AsReport(r))
    BY <1>5
  <2>2. omBox \in Seq(RequestMsg \cup ReportMsg)
    BY <1>3
  <2> HIDE DEF r
  <2> QED BY <1>7, <2>1, <2>2, BoxAppend
<1>9. \A p \in OrderIds : AsReport(r) # SubmitOf(p)
  BY RequestIsNoReport DEF RequestKind
<1>10. /\ \A p \in OrderIds : p # o => venue'[p] = venue[p]
       /\ h # SubmitOf(o) => venue[o] # "none" /\ (venue[o] \in Done => venue'[o] = venue[o])
  BY <1>2, <1>3 DEF Execute, ExecuteSubmit, ExecuteCancel, ExecuteReplace, SubmitOf, Done
<1>11. h = SubmitOf(o) => venue[o] = "none" /\ <<"submit", o>> \in requested
                          /\ brokerToOrder[BrokerId[o]] = o /\ SubmitOf(o) \notin Msgs(omBox)
                          /\ SubmitOf(o) \notin Msgs(execBox')
  BY <1>2, <1>4 DEF FlowInv, SubmittedOnce, OneSubmission
<1>12. \A p \in OrderIds : h = SubmitOf(p) => p = o
  BY <1>2 DEF SubmitOf
<1> HIDE DEF h, r
<1>13. SubmittedOnce'
  <2> SUFFICES ASSUME NEW p \in OrderIds PROVE OneSubmission(p)'
    BY DEF SubmittedOnce
  <2>1. OneSubmission(p)
    BY DEF FlowInv, SubmittedOnce
  <2>2. CASE h = SubmitOf(p)
    <3>1. p = o
      BY <1>12, <2>2
    <3>2. SubmitOf(p) \notin Msgs(omBox') /\ SubmitOf(p) \notin Msgs(execBox')
      BY <1>8, <1>9, <1>11, <2>2, <3>1
    <3> QED BY <1>1, <1>4, <1>8, <1>9, <1>11, <2>1, <2>2, <3>1, <3>2 DEF OneSubmission
  <2>3. CASE h # SubmitOf(p) /\ p # o
    BY <1>1, <1>4, <1>8, <1>9, <1>10, <2>1, <2>3 DEF OneSubmission
  <2>4. CASE h # SubmitOf(p) /\ p = o
    BY <1>1, <1>4, <1>8, <1>9, <1>10, <2>1, <2>4 DEF OneSubmission
  <2> QED BY <2>2, <2>3, <2>4
<1>14. \A p \in OrderIds : /\ venue[p] # "none" => venue'[p] # "none"
                           /\ venue[p] \in Done => venue'[p] \in Done
  BY <1>5, <1>10, <1>11 DEF Done
<1>15. TrueReports'
  <2>1. \A q : TrueReport(q) => TrueReport(q)'
    BY <1>14, TrueReportStays
  <2>2. TrueReport(r)'
    BY <1>2, <1>5 DEF TrueReport, r
  <2> QED BY <1>1, <1>8, <2>1, <2>2, AsReportInjective DEF FlowInv, TrueReports
<1>16. NeverAheadOfBroker' /\ NothingQuarantined'
  BY <1>1, <1>14 DEF FlowInv, NeverAheadOfBroker, NothingQuarantined, Done
<1>17. FillsKept'
  <2>1. \A f : FillHandled(f)' <=> FillHandled(f)
    BY <1>1 DEF FillHandled
  <2>2. \A q \in Reports : Delivered(q)' /\ CarriesFill(q) => Delivered(q)
    BY <1>3, <1>5, <1>6 DEF Delivered, r
  <2> QED BY <1>1, <1>8, <2>1, <2>2 DEF FlowInv, FillsKept
<1> QED BY <1>13, <1>15, <1>16, <1>17 DEF FlowInv

\* The adapter raises: the request is gone, and nothing else has changed.
LEMMA ExecuteRaisesKeeps ==
    ASSUME FlowTypeOK, FlowInv, ExecuteRaises
    PROVE  FlowInv'
<1>1. /\ execBox # <<>> /\ execBox' = Tail(execBox) /\ failed \subseteq failed'
      /\ UNCHANGED <<orders, brokerToOrder, fillIds, seenReports, requested, omBox, accBox, venue,
                     wire, accSeen, applied, copies, quarantined>>
  BY DEF ExecuteRaises, ExecTurn, Abort, omVars, idVars, brokerVars, accountVars
<1>2. execBox \in Seq(RequestMsg)
  BY DEF FlowTypeOK
<1>3. /\ Msgs(execBox) = Msgs(execBox') \cup {Head(execBox)}
      /\ \A n : Once(execBox, n) => Once(execBox', n)
  BY <1>1, <1>2, BoxTail
<1>4. SubmittedOnce'
  BY <1>1, <1>3 DEF FlowInv, SubmittedOnce, OneSubmission
<1>5. \A r : TrueReport(r)' <=> TrueReport(r)
  BY <1>1 DEF TrueReport
<1>6. \A f : FillHandled(f)' <=> FillHandled(f)
  BY <1>1 DEF FillHandled
<1> QED BY <1>1, <1>4, <1>5, <1>6
        DEF FlowInv, TrueReports, NeverAheadOfBroker, NothingQuarantined, FillsKept, Delivered

\* The account books the fill at the head of its mailbox, or has it already
\* (_apply_fill).
LEMMA AccountStepKeeps ==
    ASSUME FlowTypeOK, FlowInv, AccountStep
    PROVE  FlowInv'
<1> DEFINE f == Head(accBox)
<1>1. /\ accBox # <<>> /\ accBox' = Tail(accBox)
      /\ accSeen' = accSeen \cup {f}
      /\ applied' = IF f \in accSeen THEN applied ELSE [applied EXCEPT ![f] = @ + 1]
      /\ UNCHANGED <<orders, brokerToOrder, fillIds, seenReports, requested, omBox, execBox, venue,
                     wire, copies, quarantined, failed>>
  BY DEF AccountStep, ApplyFill, omVars, idVars, brokerVars, historyVars
<1>2. accBox \in Seq(FillIds) /\ applied \in [FillIds -> Nat] /\ accSeen \subseteq FillIds
      /\ fillIds \subseteq FillIds
  BY DEF FlowTypeOK, OMTypeOK
<1>3. f \in FillIds /\ Msgs(accBox) = Msgs(accBox') \cup {f}
  BY <1>1, <1>2, BoxTail
<1> HIDE DEF f
<1>4. SubmittedOnce'
  BY <1>1 DEF FlowInv, SubmittedOnce, OneSubmission
<1>5. \A r : TrueReport(r)' <=> TrueReport(r)
  BY <1>1 DEF TrueReport
<1>6. \A g \in accSeen : applied[g] > 0
  BY DEF FlowInv, FillsKept
<1>7. applied'[f] > 0 /\ \A g \in FillIds : applied[g] > 0 => applied'[g] > 0
  BY <1>1, <1>2, <1>3, <1>6
<1>8. \A g \in FillIds : FillHandled(g) => FillHandled(g)'
  BY <1>3, <1>7 DEF FillHandled
<1>9. FillsKept'
  <2>1. \A g \in accSeen' : applied'[g] > 0
    BY <1>1, <1>2, <1>6, <1>7
  <2>2. \A o \in OrderIds, k \in FillKind : ReportFor[o][k].fill_id \in FillIds
    BY ReportForTyped, FillTyped DEF FillKind, ReportKind
  <2>3. \A r \in Reports : CarriesFill(r) => r.fill_id \in FillIds
    BY FillTyped
  <2> QED BY <1>1, <1>2, <1>8, <2>1, <2>2, <2>3 DEF FlowInv, FillsKept, Delivered
<1> QED BY <1>1, <1>4, <1>5, <1>9
        DEF FlowInv, TrueReports, NeverAheadOfBroker, NothingQuarantined

\* The broker fills an open order (emit_fill).
LEMMA FillKeeps ==
    ASSUME FlowTypeOK, FlowInv, NEW o \in OrderIds, NEW k \in FillKind, Fill(o, k)
    PROVE  FlowInv'
<1>1. /\ venue[o] = "open" /\ wire' = wire \cup {ReportFor[o][k]}
      /\ venue' = [venue EXCEPT ![o] = IF k = "final" THEN "filled" ELSE @]
      /\ UNCHANGED <<orders, brokerToOrder, fillIds, seenReports, requested, omBox, execBox, accBox,
                     accSeen, applied, copies, quarantined, failed>>
  BY DEF Fill, omVars, idVars, boxVars, accountVars, historyVars
<1>2. venue \in [OrderIds -> {"none", "open", "filled", "cancelled", "rejected"}]
  BY DEF FlowTypeOK
<1>3. /\ \A p \in OrderIds : p # o => venue'[p] = venue[p]
      /\ venue'[o] # "none" /\ (k = "final" => venue'[o] \in Done) /\ k \in ReportKind
  BY <1>1, <1>2 DEF Done, FillKind, ReportKind
<1>4. \A p \in OrderIds : /\ venue[p] # "none" <=> venue'[p] # "none"
                          /\ venue[p] \in Done => venue'[p] \in Done
  BY <1>1, <1>3 DEF Done
<1>5. SubmittedOnce'
  BY <1>1, <1>4 DEF FlowInv, SubmittedOnce, OneSubmission
<1>6. TrueReports'
  <2>1. \A q : TrueReport(q) => TrueReport(q)'
    BY <1>4, TrueReportStays
  <2>2. TrueReport(ReportFor[o][k])'
    BY <1>3 DEF TrueReport, FillKind
  <2> QED BY <1>1, <2>1, <2>2 DEF FlowInv, TrueReports
<1>7. \A f : FillHandled(f)' <=> FillHandled(f)
  BY <1>1 DEF FillHandled
<1> QED BY <1>1, <1>4, <1>5, <1>6, <1>7
        DEF FlowInv, NeverAheadOfBroker, NothingQuarantined, FillsKept, Delivered, Done

\* The broker rejects an open order.
LEMMA RejectKeeps ==
    ASSUME FlowTypeOK, FlowInv, NEW o \in OrderIds, Reject(o)
    PROVE  FlowInv'
<1>1. /\ venue[o] = "open" /\ wire' = wire \cup {ReportFor[o]["rejected"]}
      /\ venue' = [venue EXCEPT ![o] = "rejected"]
      /\ UNCHANGED <<orders, brokerToOrder, fillIds, seenReports, requested, omBox, execBox, accBox,
                     accSeen, applied, copies, quarantined, failed>>
  BY DEF Reject, omVars, idVars, boxVars, accountVars, historyVars
<1>2. venue \in [OrderIds -> {"none", "open", "filled", "cancelled", "rejected"}]
  BY DEF FlowTypeOK
<1>3. \A p \in OrderIds : /\ venue[p] # "none" <=> venue'[p] # "none"
                          /\ venue[p] \in Done => venue'[p] \in Done
  BY <1>1, <1>2 DEF Done
<1>4. SubmittedOnce'
  BY <1>1, <1>3 DEF FlowInv, SubmittedOnce, OneSubmission
<1>5. TrueReports'
  <2>1. \A q : TrueReport(q) => TrueReport(q)'
    BY <1>3, TrueReportStays
  <2>2. TrueReport(ReportFor[o]["rejected"])'
    BY <1>1, <1>2 DEF TrueReport, ReportKind, Done
  <2> QED BY <1>1, <2>1, <2>2 DEF FlowInv, TrueReports
<1>6. \A f : FillHandled(f)' <=> FillHandled(f)
  BY <1>1 DEF FillHandled
<1> QED BY <1>1, <1>3, <1>4, <1>5, <1>6
        DEF FlowInv, NeverAheadOfBroker, NothingQuarantined, FillsKept, Delivered, Done

\* The transport delivers a report, perhaps again (normalize_execution_report).
LEMMA DeliverKeeps ==
    ASSUME FlowTypeOK, FlowInv, NEW r \in Reports, Deliver(r)
    PROVE  FlowInv'
<1>1. /\ r \in wire /\ omBox' = Append(omBox, AsReport(r))
      /\ copies' = [copies EXCEPT ![r] = @ + 1]
      /\ UNCHANGED <<orders, brokerToOrder, fillIds, seenReports, requested, execBox, accBox, venue,
                     wire, accSeen, applied, quarantined, failed>>
  BY DEF Deliver, omVars, idVars, brokerVars, accountVars
<1>2. /\ AsReport(r) \in RequestMsg \cup ReportMsg /\ omBox \in Seq(RequestMsg \cup ReportMsg)
      /\ copies \in [Reports -> Nat]
  BY DEF AsReport, ReportMsg, FlowTypeOK
<1>3. /\ Msgs(omBox') = Msgs(omBox) \cup {AsReport(r)}
      /\ \A n : Once(omBox, n) /\ AsReport(r) # n => Once(omBox', n)
  BY <1>1, <1>2, BoxAppend
<1>4. \A p \in OrderIds : AsReport(r) # SubmitOf(p)
  BY RequestIsNoReport DEF RequestKind
<1>5. SubmittedOnce'
  BY <1>1, <1>3, <1>4 DEF FlowInv, SubmittedOnce, OneSubmission
<1>6. TrueReports'
  <2>1. \A q : TrueReport(q)' <=> TrueReport(q)
    BY <1>1 DEF TrueReport
  <2> QED BY <1>1, <1>3, <2>1, AsReportInjective DEF FlowInv, TrueReports
<1>7. FillsKept'
  <2>1. \A f : FillHandled(f)' <=> FillHandled(f)
    BY <1>1 DEF FillHandled
  <2>2. \A q \in Reports : Delivered(q)' => Delivered(q) \/ q = r
    BY <1>1, <1>2 DEF Delivered
  <2> QED BY <1>1, <1>3, <2>1, <2>2 DEF FlowInv, FillsKept
<1> QED BY <1>1, <1>5, <1>6, <1>7 DEF FlowInv, NeverAheadOfBroker, NothingQuarantined

-----------------------------------------------------------------------------
\* Every step of the order path keeps the invariant.
LEMMA FlowInvStep ==
    ASSUME FlowTypeOK, BrokerMapSound, FlowInv, [FlowNext]_flowVars
    PROVE  FlowInv'
<1>1. CASE Pump \/ Drained
  BY <1>1, QuietFlowStep DEF Pump, Drained, omVars, idVars, boxVars, brokerVars, accountVars,
                             historyVars
<1>2. CASE UNCHANGED flowVars
  BY <1>2, QuietFlowStep DEF flowVars, omVars, idVars, boxVars, brokerVars, accountVars,
                             historyVars
<1>3. CASE OMStep
  BY <1>3, HandleSubmitKeeps, HandleChangeKeeps, TakeReportKeeps, RefuseReportKeeps DEF OMStep
<1> QED BY <1>1, <1>2, <1>3, RequestKeeps, ExecuteKeeps, ExecuteRaisesKeeps, AccountStepKeeps,
           FillKeeps, RejectKeeps, DeliverKeeps DEF FlowNext

\* The invariant holds before the first request.
LEMMA FlowInvInit == FlowInit => FlowInv
<1> SUFFICES ASSUME FlowInit PROVE FlowInv
  OBVIOUS
<1>1. /\ omBox = <<>> /\ execBox = <<>> /\ accBox = <<>>
      /\ venue = [o \in OrderIds |-> "none"]
      /\ wire = {} /\ accSeen = {} /\ quarantined = {}
      /\ copies = [r \in Reports |-> 0]
      /\ orders = [o \in OrderIds |-> Untracked] /\ fillIds = {} /\ seenReports = {}
  BY DEF FlowInit, OMInit
<1>2. Msgs(omBox) = {} /\ Msgs(execBox) = {} /\ \A n : Once(omBox, n) /\ Once(execBox, n)
  BY <1>1 DEF Msgs, Once
<1>3. SubmittedOnce
  BY <1>1, <1>2 DEF SubmittedOnce, OneSubmission
<1>4. TrueReports
  BY <1>1, <1>2 DEF TrueReports
<1>5. NeverAheadOfBroker
  BY <1>1, IdAssumption DEF NeverAheadOfBroker, TerminalStates, OrderState
<1>6. FillsKept
  BY <1>1 DEF FillsKept, Delivered
<1> QED BY <1>1, <1>3, <1>4, <1>5, <1>6 DEF FlowInv, NothingQuarantined

\* The invariant holds on the order path, for any orders, requests, reports and
\* copies of them.
THEOREM FlowInvariant == FlowSpec => []FlowInv
<1>1. FlowSpec => []BrokerMapSound
  BY FlowImplementsManager, OMBrokerMapSound, PTL
<1> QED BY <1>1, FlowTypeCorrect, FlowInvInit, FlowInvStep, PTL DEF FlowSpec

\* Duplicates, late fills, refused reports and aborted drives lose no fill
\* silently (_handle_report, process_report, _apply_fill).
THEOREM FlowNoSilentLoss == FlowSpec => []NoSilentLoss
<1>1. FlowInv => NoSilentLoss
  BY DEF FlowInv, FillsKept, NoSilentLoss, FillHandled, Msgs
<1> QED BY <1>1, FlowInvariant, PTL

\* The order manager finishes no order the broker still works on
\* (request_cancel, request_replace, process_report).
THEOREM FlowNeverAheadOfBroker == FlowSpec => []NeverAheadOfBroker
<1>1. FlowInv => NeverAheadOfBroker
  BY DEF FlowInv
<1> QED BY <1>1, FlowInvariant, PTL

\* No report of the broker meets an order manager that does not know its order
\* (_handle_submit, ExecutionReportHandler.handle).
THEOREM FlowNothingQuarantined == FlowSpec => []NothingQuarantined
<1>1. FlowInv => NothingQuarantined
  BY DEF FlowInv
<1> QED BY <1>1, FlowInvariant, PTL

===============================================================================
