------------------------------ MODULE IbkrFills ------------------------------
(***************************************************************************)
(* qts.execution.adapters.ibkr_fill_normalizer: IBKR tells of an execution *)
(* (execDetails) and of its commission (commissionReport) in two separate  *)
(* callbacks, in either order, repeated, or one of them never.  The        *)
(* normalizer stages the execution until the commission is there and books *)
(* the pair as one fill report; flush_pending_executions books what is     *)
(* still staged without a commission.                                      *)
(*                                                                         *)
(* The callbacks run on the reader thread of a connection, or on that of   *)
(* an abandoned one, the flush and the resolution of quarantined           *)
(* executions on the driver's.  There is no lock: every thread is cut at   *)
(* each access to a dictionary, a set or the quarantine they share.        *)
(*                                                                         *)
(* An execution stands for its key (account, broker order id, execution    *)
(* id); quantities and prices are left out.  The lists of quarantined      *)
(* executions are kept as sets: resolve_quarantined treats a second copy   *)
(* of an execution as a repetition of the first.                           *)
(***************************************************************************)
EXTENDS Naturals

CONSTANTS
    Execs,        \* executions of the adapter's own account
    Foreign,      \* executions of other accounts the session can see
    BrokerIds,    \* IBKR order ids
    OrderIdOf,    \* the IBKR order id an execution belongs to
    FillReaders,  \* reader threads
    Driver,       \* the driver thread
    NoExec        \* a thread that handles no execution

Threads == FillReaders \cup {Driver}

ASSUME FillsAssumption ==
    /\ Driver \notin FillReaders
    /\ NoExec \notin Execs \cup Foreign
    /\ Execs \cap Foreign = {}

VARIABLES
    mapped,       \* the IBKR order ids the BrokerOrderMap can resolve
    pending,      \* _pending_executions
    commissions,  \* the keys of _commissions
    completed,    \* _completed_execution_keys
    quarExecs,    \* quarantined executions
    at,           \* where each thread is
    cur,          \* the execution it handles
    todo,         \* what is left of the list the driver walks
    unresolved,   \* unresolved of resolve_quarantined
    booked,       \* history: how often _book_execution ran for an execution
    told,         \* history: executions on_execution was called with
    raced,        \* history: executions two threads have handled at once
    overwritten   \* history: executions last quarantined while a resolve was under way

shared == <<mapped, pending, commissions, completed, quarExecs>>
threads == <<at, cur, todo, unresolved>>
histories == <<booked, told, raced, overwritten>>
fillVars == <<shared, threads, histories>>

\* The points of _pop_commissioned_execution, and the others.
Popping == {"getExec", "getComm", "popExec", "popComm", "complete"}
Points == Popping \cup {"idle", "looked", "unknown", "stage", "ask", "scan",
                        "flush", "flushed", "walk", "resolving", "restage"}

\* A thread that has still to look for the pair of a staged execution.
StillLooks == {"ask", "scan", "getExec", "getComm", "popExec"}

FillsInit ==
    /\ mapped = {} /\ pending = {} /\ commissions = {} /\ completed = {} /\ quarExecs = {}
    /\ at = [t \in Threads |-> "idle"]
    /\ cur = [t \in Threads |-> NoExec]
    /\ todo = {} /\ unresolved = {}
    /\ booked = [e \in Execs |-> 0]
    /\ told = {} /\ raced = {} /\ overwritten = {}

-----------------------------------------------------------------------------
Resolvable(e) == e \in Execs /\ OrderIdOf[e] \in mapped

Resolving == at[Driver] \in {"walk", "resolving", "restage"} \cup Popping

\* The thread is in the middle of a call about e.
Handles(t, e) == cur[t] = e \/ (t = Driver /\ at[t] \in {"flush", "flushed"} /\ e \in todo)

RacedBy(t, E) == raced' = raced \cup {e \in E : \E u \in Threads \ {t} : Handles(u, e)}

Goto(t, point) == at' = [at EXCEPT ![t] = point] /\ UNCHANGED cur

\* The call about the thread's execution is over: a callback returns, the
\* resolution goes on with its list.
CallEnds(t) ==
    /\ at' = [at EXCEPT ![t] = IF t = Driver THEN "walk" ELSE "idle"]
    /\ cur' = [cur EXCEPT ![t] = NoExec]

\* An exception ends the callback, or the whole flush or resolution.
CallRaises(t) ==
    /\ at' = [at EXCEPT ![t] = "idle"]
    /\ cur' = [cur EXCEPT ![t] = NoExec]
    /\ IF t = Driver THEN todo' = {} /\ unresolved' = {} ELSE UNCHANGED <<todo, unresolved>>

Quarantine(e) ==
    /\ quarExecs' = quarExecs \cup {e}
    /\ overwritten' = IF Resolving THEN overwritten \cup {e} ELSE overwritten \ {e}

(***************************************************************************)
(* on_execution, up to the test of the commission.                         *)
(***************************************************************************)
OnExecutionForeign(r, e) ==
    /\ at[r] = "idle"
    /\ Quarantine(e)
    /\ told' = told \cup {e}
    /\ UNCHANGED <<mapped, pending, commissions, completed, threads, booked, raced>>

\* The test of _completed_execution_keys left out.
OnExecutionUnchecked(r, e) ==
    /\ at[r] = "idle"
    /\ told' = told \cup {e}
    /\ RacedBy(r, {e})
    /\ overwritten' = overwritten \ {e}
    /\ at' = [at EXCEPT ![r] = "looked"]
    /\ cur' = [cur EXCEPT ![r] = e]
    /\ UNCHANGED <<shared, todo, unresolved, booked>>

\* The test of _completed_execution_keys.
OnExecution(r, e) ==
    /\ at[r] = "idle"
    /\ told' = told \cup {e}
    /\ RacedBy(r, {e})
    /\ overwritten' = overwritten \ {e}
    /\ IF e \in completed
       THEN UNCHANGED <<at, cur>>
       ELSE /\ at' = [at EXCEPT ![r] = "looked"]
            /\ cur' = [cur EXCEPT ![r] = e]
    /\ UNCHANGED <<shared, todo, unresolved, booked>>

\* by_ibkr_order_id, found or KeyError.
LookUpOrder(r) ==
    /\ at[r] = "looked"
    /\ Goto(r, IF Resolvable(cur[r]) THEN "stage" ELSE "unknown")
    /\ UNCHANGED <<shared, todo, unresolved, histories>>

QuarantineUnknown(r) ==
    /\ at[r] = "unknown"
    /\ Quarantine(cur[r])
    /\ CallEnds(r)
    /\ UNCHANGED <<mapped, pending, commissions, completed, todo, unresolved, booked, told, raced>>

Stage(r) ==
    /\ at[r] = "stage"
    /\ pending' = pending \cup {cur[r]}
    /\ Goto(r, "ask")
    /\ UNCHANGED <<mapped, commissions, completed, quarExecs, todo, unresolved, histories>>

AskCommission(r) ==
    /\ at[r] = "ask"
    /\ IF cur[r] \in commissions THEN Goto(r, "getExec") ELSE CallEnds(r)
    /\ UNCHANGED <<shared, todo, unresolved, histories>>

(***************************************************************************)
(* on_commission: the commission is stored first, whatever is known of the *)
(* execution; the one of a completed execution stays stored for ever.      *)
(***************************************************************************)
\* A commission that is only remembered for the execution still to come.
OnCommissionStoresOnly(r, e) ==
    /\ at[r] = "idle"
    /\ commissions' = commissions \cup {e}
    /\ RacedBy(r, {e})
    /\ UNCHANGED <<mapped, pending, completed, quarExecs, threads, booked, told, overwritten>>

OnCommission(r, e) ==
    /\ at[r] = "idle"
    /\ commissions' = commissions \cup {e}
    /\ RacedBy(r, {e})
    /\ at' = [at EXCEPT ![r] = "scan"]
    /\ cur' = [cur EXCEPT ![r] = e]
    /\ UNCHANGED <<mapped, pending, completed, quarExecs, todo, unresolved, booked, told, overwritten>>

ScanPending(r) ==
    /\ at[r] = "scan"
    /\ IF cur[r] \in pending THEN Goto(r, "getExec") ELSE CallEnds(r)
    /\ UNCHANGED <<shared, todo, unresolved, histories>>

(***************************************************************************)
(* _pop_commissioned_execution, on any thread.                             *)
(***************************************************************************)
GetExecution(t) ==
    /\ at[t] = "getExec"
    /\ IF cur[t] \in pending THEN Goto(t, "getComm") ELSE CallEnds(t)
    /\ UNCHANGED <<shared, todo, unresolved, histories>>

GetCommission(t) ==
    /\ at[t] = "getComm"
    /\ IF cur[t] \in commissions THEN Goto(t, "popExec") ELSE CallEnds(t)
    /\ UNCHANGED <<shared, todo, unresolved, histories>>

\* pop of a key that another thread has popped meanwhile is a KeyError.
PopExecution(t) ==
    /\ at[t] = "popExec"
    /\ IF cur[t] \in pending
       THEN Goto(t, "popComm") /\ UNCHANGED <<todo, unresolved>>
       ELSE CallRaises(t)
    /\ pending' = pending \ {cur[t]}
    /\ UNCHANGED <<mapped, commissions, completed, quarExecs, histories>>

PopCommission(t) ==
    /\ at[t] = "popComm"
    /\ IF cur[t] \in commissions
       THEN Goto(t, "complete") /\ UNCHANGED <<todo, unresolved>>
       ELSE CallRaises(t)
    /\ commissions' = commissions \ {cur[t]}
    /\ UNCHANGED <<mapped, pending, completed, quarExecs, histories>>

\* The key is added to the completed ones and the report is built.
Complete(t) ==
    /\ at[t] = "complete"
    /\ completed' = completed \cup {cur[t]}
    /\ booked' = [booked EXCEPT ![cur[t]] = @ + 1]
    /\ CallEnds(t)
    /\ UNCHANGED <<mapped, pending, commissions, quarExecs, todo, unresolved, told, raced, overwritten>>

(***************************************************************************)
(* flush_pending_executions, on the driver.                                *)
(***************************************************************************)
FlushStarts ==
    /\ at[Driver] = "idle"
    /\ todo' = pending
    /\ RacedBy(Driver, pending)
    /\ Goto(Driver, "flush")
    /\ UNCHANGED <<shared, unresolved, booked, told, overwritten>>

FlushPops(e) ==
    /\ at[Driver] = "flush" /\ e \in todo
    /\ pending' = pending \ {e}
    /\ IF e \in pending
       THEN /\ at' = [at EXCEPT ![Driver] = "flushed"]
            /\ cur' = [cur EXCEPT ![Driver] = e]
            /\ todo' = todo \ {e}
            /\ UNCHANGED unresolved
       ELSE CallRaises(Driver)
    /\ UNCHANGED <<mapped, commissions, completed, quarExecs, histories>>

FlushCompletes ==
    /\ at[Driver] = "flushed"
    /\ completed' = completed \cup {cur[Driver]}
    /\ booked' = [booked EXCEPT ![cur[Driver]] = @ + 1]
    /\ at' = [at EXCEPT ![Driver] = "flush"]
    /\ cur' = [cur EXCEPT ![Driver] = NoExec]
    /\ UNCHANGED <<mapped, pending, commissions, quarExecs, todo, unresolved, told, raced, overwritten>>

FlushReturns ==
    /\ at[Driver] = "flush" /\ todo = {}
    /\ Goto(Driver, "idle")
    /\ UNCHANGED <<shared, todo, unresolved, histories>>

(***************************************************************************)
(* resolve_quarantined, on the driver: a walk over a copy of the list.     *)
(***************************************************************************)
ResolveCopies ==
    /\ at[Driver] = "idle"
    /\ todo' = quarExecs /\ unresolved' = {}
    /\ Goto(Driver, "walk")
    /\ UNCHANGED <<shared, histories>>

ResolveLooksUp(e) ==
    /\ at[Driver] = "walk" /\ e \in todo
    /\ todo' = todo \ {e}
    /\ IF Resolvable(e)
       THEN /\ at' = [at EXCEPT ![Driver] = "resolving"]
            /\ cur' = [cur EXCEPT ![Driver] = e]
            /\ RacedBy(Driver, {e})
            /\ UNCHANGED unresolved
       ELSE /\ unresolved' = unresolved \cup {e}
            /\ UNCHANGED <<at, cur, raced>>
    /\ UNCHANGED <<shared, booked, told, overwritten>>

ResolveChecks ==
    /\ at[Driver] = "resolving"
    /\ IF cur[Driver] \in completed THEN CallEnds(Driver) ELSE Goto(Driver, "restage")
    /\ UNCHANGED <<shared, todo, unresolved, histories>>

ResolveStages ==
    /\ at[Driver] = "restage"
    /\ pending' = pending \cup {cur[Driver]}
    /\ Goto(Driver, "getExec")
    /\ UNCHANGED <<mapped, commissions, completed, quarExecs, todo, unresolved, histories>>

\* The list is emptied instead of being replaced by what is unresolved.
ResolveClearsAll ==
    /\ at[Driver] = "walk" /\ todo = {}
    /\ quarExecs' = {} /\ unresolved' = {}
    /\ Goto(Driver, "idle")
    /\ UNCHANGED <<mapped, pending, commissions, completed, todo, histories>>

\* replace_executions: what was quarantined since the walk began is gone.
ResolveReplaces ==
    /\ at[Driver] = "walk" /\ todo = {}
    /\ quarExecs' = unresolved /\ unresolved' = {}
    /\ Goto(Driver, "idle")
    /\ UNCHANGED <<mapped, pending, commissions, completed, todo, histories>>

-----------------------------------------------------------------------------
\* The order map learns ids; it forgets none while the process lives.
MapGrows(n) ==
    /\ mapped' = mapped \cup {n}
    /\ UNCHANGED <<pending, commissions, completed, quarExecs, threads, histories>>

\* A new process starts with a new normalizer and an empty order map.
StartAgain ==
    /\ mapped' = {} /\ pending' = {} /\ commissions' = {} /\ completed' = {} /\ quarExecs' = {}
    /\ at' = [t \in Threads |-> "idle"]
    /\ cur' = [t \in Threads |-> NoExec]
    /\ todo' = {} /\ unresolved' = {}
    /\ booked' = [e \in Execs |-> 0]
    /\ told' = {} /\ raced' = {} /\ overwritten' = {}

Callback(r) ==
    \/ \E e \in Foreign : OnExecutionForeign(r, e)
    \/ \E e \in Execs : OnExecution(r, e) \/ OnCommission(r, e)
    \/ LookUpOrder(r) \/ QuarantineUnknown(r) \/ Stage(r) \/ AskCommission(r) \/ ScanPending(r)

PopCommissionedExecution(t) ==
    GetExecution(t) \/ GetCommission(t) \/ PopExecution(t) \/ PopCommission(t) \/ Complete(t)

FlushPendingExecutions ==
    \/ FlushStarts \/ FlushCompletes \/ FlushReturns
    \/ \E e \in Execs : FlushPops(e)

ResolveQuarantined ==
    \/ ResolveCopies \/ ResolveChecks \/ ResolveStages \/ ResolveReplaces
    \/ \E e \in Execs \cup Foreign : ResolveLooksUp(e)

FillsNext ==
    \/ \E r \in FillReaders : Callback(r)
    \/ \E t \in Threads : PopCommissionedExecution(t)
    \/ FlushPendingExecutions \/ ResolveQuarantined
    \/ \E n \in BrokerIds : MapGrows(n)
    \/ StartAgain

FillsSpec == FillsInit /\ [][FillsNext]_fillVars

-----------------------------------------------------------------------------
(***************************************************************************)
(* Properties.                                                             *)
(***************************************************************************)
FillsTypeOK ==
    /\ mapped \subseteq BrokerIds
    /\ pending \subseteq Execs /\ commissions \subseteq Execs /\ completed \subseteq Execs
    /\ quarExecs \subseteq Execs \cup Foreign
    /\ at \in [Threads -> Points]
    /\ cur \in [Threads -> Execs \cup {NoExec}]
    /\ todo \subseteq Execs \cup Foreign /\ unresolved \subseteq Execs \cup Foreign
    /\ booked \in [Execs -> Nat]
    /\ told \subseteq Execs \cup Foreign
    /\ raced \subseteq Execs
    /\ overwritten \subseteq Execs \cup Foreign

\* An execution that no two threads have handled at the same time is booked
\* once, when it is completed: repeated execDetails and commissionReport
\* callbacks, a commission that overtakes its execution or comes after a flush,
\* and executions quarantined several times all end in one fill report.
BookedOnce == \A e \in Execs \ raced : booked[e] = IF e \in completed THEN 1 ELSE 0

\* No execution the adapter was told of is forgotten, whatever the threads do
\* to each other's steps: it is staged, booked, in the quarantine that blocks new
\* orders, or in the hands of a thread, unless it was quarantined during a
\* resolve_quarantined, which replaces the list it read before.
NoExecutionForgotten ==
    \A e \in told \ overwritten :
        \/ e \in quarExecs \cup pending \cup completed
        \/ \E t \in Threads : cur[t] = e

\* "on_execution and on_commission both complete eagerly the moment both halves
\* are present, popping the pair" (flush_pending_executions): an execution and its
\* commission never stay behind together.  Of the threads that stage the one and
\* store the other, whichever is second finds both, races included, so that a
\* flush between callbacks books only fills whose commission is not known.
PairNeverStranded ==
    \A e \in pending \cap commissions : \E t \in Threads : cur[t] = e /\ at[t] \in StillLooks

\* The first two without their exceptions.  Neither holds: a repeated execDetails
\* that passed the test of the completed keys before a flush is staged again
\* after it and booked twice; an execution quarantined between the copy of the
\* list and its replacement is gone.
BookedOnceAtAll == \A e \in Execs : booked[e] <= 1
NothingForgotten ==
    \A e \in told : e \in quarExecs \cup pending \cup completed \/ \E t \in Threads : cur[t] = e
=============================================================================
