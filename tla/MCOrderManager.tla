--------------------------- MODULE MCOrderManager ---------------------------
(***************************************************************************)
(* OrderManager on two orders.  The first is acknowledged, filled in two   *)
(* parts, its last fill reported under two report ids, and cancelled.  The *)
(* second is rejected or filled, possibly by a report without a price, on  *)
(* which _fills_for_report raises.                                         *)
(***************************************************************************)
EXTENDS OrderManager, Integers

CONSTANTS o1, o2

MCOrderIds == {o1, o2}
MCBrokerId == [o \in MCOrderIds |-> <<"broker", o>>]
MCBrokerOrderIds == {<<"broker", o>> : o \in MCOrderIds}

MCFill(o, n) == <<"fill", o, n>>
MCFillIds == {MCFill(o, n) : o \in MCOrderIds, n \in 1..2} \ {MCFill(o2, 2)}

MCReport(o, n, status, fill, priced) ==
    [report_id |-> <<o, n>>, broker_order_id |-> MCBrokerId[o], status |-> status,
     fill_id |-> fill, priced |-> priced]

MCReports ==
    {MCReport(o1, "ack", "ACCEPTED", NoFill, TRUE),
     MCReport(o1, "partial", "PARTIALLY_FILLED", MCFill(o1, 1), TRUE),
     MCReport(o1, "final", "FILLED", MCFill(o1, 2), TRUE),
     MCReport(o1, "final-again", "FILLED", MCFill(o1, 2), TRUE),
     MCReport(o1, "cancel", "CANCELLED", NoFill, TRUE),
     MCReport(o2, "reject", "REJECTED", NoFill, TRUE),
     MCReport(o2, "final", "FILLED", MCFill(o2, 1), TRUE),
     MCReport(o2, "unpriced", "FILLED", MCFill(o2, 1), FALSE)}
MCReportIds == {r.report_id : r \in MCReports}

=============================================================================
