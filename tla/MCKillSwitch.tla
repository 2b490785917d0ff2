---------------------------- MODULE MCKillSwitch ----------------------------
(***************************************************************************)
(* KillSwitch on two orders: both are submitted, the first is also         *)
(* cancelled by its strategy and filled in two parts.  Two calls, so that  *)
(* a kill switch is activated again after one that raised.                 *)
(***************************************************************************)
EXTENDS KillSwitch

CONSTANTS o1, o2

MCOrderIds == {o1, o2}
MCBrokerId == [o \in MCOrderIds |-> <<"broker", o>>]
MCBrokerOrderIds == {<<"broker", o>> : o \in MCOrderIds}
MCReportFor ==
    [o \in MCOrderIds |-> [k \in ReportKind |->
        [report_id |-> <<o, k>>, broker_order_id |-> MCBrokerId[o], status |-> StatusOf(k),
         fill_id |-> IF k \in FillKind THEN <<o, k>> ELSE NoFill, priced |-> TRUE]]]
MCReports == {MCReportFor[o][k] : o \in MCOrderIds, k \in ReportKind}
MCReportIds == MCOrderIds \X ReportKind
MCFillIds == MCOrderIds \X FillKind

MCRequests == {<<"submit", o1>>, <<"cancel", o1>>, <<"submit", o2>>}

\* What happens to the second order at the broker is never reported.
MCMaxCopies ==
    [r \in MCReports |-> IF r.broker_order_id = MCBrokerId[o1] THEN 1 ELSE 0]

=============================================================================
