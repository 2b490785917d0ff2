------------------------- MODULE OrderStateMachine -------------------------
(***************************************************************************)
(* The order lifecycle of qts.execution.order_state_machine: the states,   *)
(* the events and the transition table OrderStateMachine.apply consults.   *)
(***************************************************************************)

\* qts.domain.orders.OrderState
OrderState ==
    {"CREATED", "SENT", "ACCEPTED", "PARTIALLY_FILLED", "FILLED",
     "CANCEL_REQUESTED", "CANCELLED", "REJECTED", "REPLACE_REQUESTED"}

\* OrderEvent: one event per state an order can move to.
OrderEvent == OrderState \ {"CREATED"}

\* ExecutionReportStatus: the events a broker report can carry.
ReportStatus ==
    {"ACCEPTED", "PARTIALLY_FILLED", "FILLED", "CANCELLED", "REJECTED"}

\* _TERMINAL_ORDER_STATES of order_manager.py.
TerminalStates == {"FILLED", "CANCELLED", "REJECTED"}

(***************************************************************************)
(* _TRANSITIONS: the events each state accepts.  In every row of the table *)
(* the event leads to the state of the same name, so the table is the set  *)
(* of accepted events.                                                     *)
(***************************************************************************)
TRANSITIONS(s) ==
    CASE s = "CREATED"           -> {"SENT", "REJECTED"}
      [] s = "SENT"              -> {"ACCEPTED", "PARTIALLY_FILLED", "FILLED", "REJECTED",
                                     "CANCEL_REQUESTED", "REPLACE_REQUESTED"}
      [] s = "ACCEPTED"          -> {"PARTIALLY_FILLED", "FILLED", "CANCEL_REQUESTED",
                                     "CANCELLED", "REJECTED", "REPLACE_REQUESTED"}
      [] s = "PARTIALLY_FILLED"  -> {"PARTIALLY_FILLED", "FILLED", "CANCEL_REQUESTED",
                                     "CANCELLED", "REPLACE_REQUESTED"}
      [] s = "CANCEL_REQUESTED"  -> {"CANCELLED", "FILLED", "PARTIALLY_FILLED"}
      [] s = "REPLACE_REQUESTED" -> {"ACCEPTED", "PARTIALLY_FILLED", "FILLED", "REJECTED"}
      [] s = "CANCELLED"         -> {"PARTIALLY_FILLED", "FILLED"}
      [] OTHER                   -> {}

\* _DUPLICATE_TERMINAL_EVENTS: a terminal state ignores its own event.
DuplicateTerminal(s, e) == s \in TerminalStates /\ e = s

\* apply raises OrderTransitionError exactly when this is false ...
CanApply(s, e) == DuplicateTerminal(s, e) \/ e \in TRANSITIONS(s)

\* ... and otherwise moves to, and returns, this state.
Apply(s, e) == IF DuplicateTerminal(s, e) THEN s ELSE e

=============================================================================
