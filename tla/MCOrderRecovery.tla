--------------------------- MODULE MCOrderRecovery ---------------------------
(***************************************************************************)
(* OrderRecovery on one order, filled in two parts that the broker may     *)
(* report twice each, with two restarts.                                   *)
(***************************************************************************)
EXTENDS OrderRecovery

CONSTANT o1

MCOrderIds == {o1}
MCBrokerId == [o \in MCOrderIds |-> <<"broker", o>>]
MCBrokerOrderIds == {<<"broker", o>> : o \in MCOrderIds}
MCReportFor ==
    [o \in MCOrderIds |-> [k \in ReportKind |->
        [report_id |-> <<o, k>>, broker_order_id |-> MCBrokerId[o], status |-> StatusOf(k),
         fill_id |-> IF k \in FillKind THEN <<o, k>> ELSE NoFill, priced |-> TRUE]]]
MCReports == {MCReportFor[o][k] : o \in MCOrderIds, k \in ReportKind}
MCReportIds == MCOrderIds \X ReportKind
MCFillIds == MCOrderIds \X FillKind
MCRequests == {<<"submit", o1>>, <<"cancel", o1>>}

\* A rejection, which no property of the ledger is about, is reported once.
MCMaxCopies == [r \in MCReports |-> IF r.status = "REJECTED" THEN 1 ELSE 2]

=============================================================================
