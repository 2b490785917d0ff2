----------------------------- MODULE FillLedger -----------------------------
(***************************************************************************)
(* What the order path promises about fills, whatever the messages,        *)
(* duplicates and restarts underneath: the account books a fill only after *)
(* the broker executed it and never twice.  A restart may take the account *)
(* back to an earlier booking, never to another one.                       *)
(***************************************************************************)
EXTENDS Integers

CONSTANT FillIds

VARIABLES
    executed,   \* fills the broker has executed
    booked      \* how often each fill is in the account's holdings and cash

LedgerInit ==
    /\ executed = {}
    /\ booked = [f \in FillIds |-> 0]

Execute(f) ==
    /\ f \notin executed
    /\ executed' = executed \cup {f}
    /\ UNCHANGED booked

Book(f) ==
    /\ f \in executed
    /\ booked[f] = 0
    /\ booked' = [booked EXCEPT ![f] = 1]
    /\ UNCHANGED executed

Restore(kept) ==
    /\ booked' = [f \in FillIds |-> IF f \in kept THEN booked[f] ELSE 0]
    /\ UNCHANGED executed

LedgerNext ==
    \/ \E f \in FillIds : Execute(f) \/ Book(f)
    \/ \E kept \in SUBSET FillIds : Restore(kept)

LedgerSpec == LedgerInit /\ [][LedgerNext]_<<executed, booked>>

=============================================================================
