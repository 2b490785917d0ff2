----------------------------- MODULE MCOrderFlow -----------------------------
(***************************************************************************)
(* OrderFlow on two orders: the first is submitted, cancelled, replaced    *)
(* and filled in two parts, the second submitted and filled, so that an    *)
(* exception about one order aborts a drive that carries the other.        *)
(***************************************************************************)
EXTENDS OrderFlow

CONSTANTS o1, o2

MCOrderIds == {o1, o2}
MCBrokerId == [o \in MCOrderIds |-> <<"broker", o>>]
MCBrokerOrderIds == {<<"broker", o>> : o \in MCOrderIds}
MCReportFor ==
    [o \in MCOrderIds |-> [k \in ReportKind |->
        [report_id |-> <<o, k>>, broker_order_id |-> MCBrokerId[o], status |-> StatusOf(k),
         fill_id |-> IF k \in FillKind THEN <<o, k>> ELSE NoFill, priced |-> TRUE]]]
MCReports == {MCReportFor[o][k] : o \in MCOrderIds, k \in ReportKind}
MCReportIds == MCOrderIds \X ReportKind
MCFillIds == MCOrderIds \X FillKind

MCRequests == {<<"submit", o1>>, <<"cancel", o1>>, <<"replace", o1>>, <<"submit", o2>>}

\* The final fill of the first order may be delivered twice, the partial fill of
\* the second one and its rejection never are.
MCMaxCopies ==
    [r \in MCReports |->
        CASE r.report_id = <<o1, "final">>   -> 2
          [] r.report_id \in {<<o2, "partial">>, <<o2, "rejected">>} -> 0
          [] OTHER                           -> 1]

=============================================================================
