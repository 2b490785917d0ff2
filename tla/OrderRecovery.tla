---------------------------- MODULE OrderRecovery ----------------------------
(***************************************************************************)
(* OrderFlow with durable snapshots and restarts.  The order manager and   *)
(* the account are saved separately, so a restart may combine snapshots of *)
(* different moments, and it loses every mailbox.  The broker keeps its    *)
(* orders and repeats its reports.                                         *)
(***************************************************************************)
EXTENDS OrderFlow

CONSTANT MaxRestarts   \* bound: restarts

ASSUME RestartAssumption == MaxRestarts \in Nat

VARIABLES
    orderSnapshot,     \* the OrderStateSnapshot a restart restores
    accountSnapshot,   \* the account's StateSnapshot in the snapshot store
    restarts

recoveryVars == <<flowVars, orderSnapshot, accountSnapshot, restarts>>

OrderSnapshotType ==
    [orders : [OrderIds -> OrderState \cup {Untracked}],
     brokerToOrder : [BrokerOrderIds -> OrderIds \cup {NoOrder}],
     seenReports : SUBSET ReportIds, reportsByOrder : [OrderIds -> SUBSET ReportIds],
     fillIds : SUBSET FillIds, fillsByOrder : [OrderIds -> SUBSET FillIds]]
AccountSnapshotType == [seen : SUBSET FillIds, applied : [FillIds -> Nat]]

RecoveryTypeOK ==
    /\ FlowTypeOK
    /\ orderSnapshot \in OrderSnapshotType
    /\ accountSnapshot \in AccountSnapshotType
    /\ restarts \in 0..MaxRestarts

\* OrderManager.snapshot
OrderState_snapshot ==
    [orders |-> orders, brokerToOrder |-> brokerToOrder,
     seenReports |-> seenReports, reportsByOrder |-> reportsByOrder,
     fillIds |-> fillIds, fillsByOrder |-> fillsByOrder]

\* AccountActor.snapshot: cash and holdings are what the applied fills made of
\* them.
AccountState_snapshot == [seen |-> accSeen, applied |-> applied]

\* Nothing saved yet: a restart begins with a fresh manager and account.
RecoveryInit ==
    /\ FlowInit
    /\ orderSnapshot = OrderState_snapshot
    /\ accountSnapshot = AccountState_snapshot
    /\ restarts = 0

-----------------------------------------------------------------------------
\* GetOrderManagerSnapshot is asked: it is answered once the mailbox is drained.
SaveOrders ==
    /\ phase = "idle"
    /\ omBox = <<>>
    /\ orderSnapshot' = OrderState_snapshot
    /\ UNCHANGED <<flowVars, accountSnapshot, restarts>>

\* DurableAccountRecovery.persist_if_due, when the policy says so.
\* FileSnapshotStore replaces the stored snapshot atomically.
SaveAccount ==
    /\ phase = "idle"
    /\ accountSnapshot' = AccountState_snapshot
    /\ UNCHANGED <<flowVars, orderSnapshot, restarts>>

\* OrderManager.restore
RestoreOrders ==
    /\ orders' = orderSnapshot.orders
    /\ brokerToOrder' = orderSnapshot.brokerToOrder
    /\ seenReports' = orderSnapshot.seenReports
    /\ reportsByOrder' = orderSnapshot.reportsByOrder
    /\ fillIds' = orderSnapshot.fillIds
    /\ fillsByOrder' = orderSnapshot.fillsByOrder

\* A restore that keeps the balances and forgets the ids of the fills in them.
RestoreAccountForgetful ==
    /\ accSeen' = {}
    /\ applied' = accountSnapshot.applied

\* DurableAccountRecovery.restore_account, AccountActor.restore
RestoreAccount ==
    /\ accSeen' = accountSnapshot.seen
    /\ applied' = accountSnapshot.applied

\* The process dies at any point and comes up again: mailboxes, the fills list,
\* the quarantine and the route metadata are gone, the adapter's map is rebuilt
\* by restore_order_mapping.
Restart ==
    /\ restarts < MaxRestarts
    /\ restarts' = restarts + 1
    /\ RestoreOrders
    /\ RestoreAccount
    /\ adapterMap' = {b \in BrokerOrderIds : orderSnapshot.brokerToOrder[b] # NoOrder}
    /\ omBox' = <<>> /\ execBox' = <<>> /\ accBox' = <<>>
    /\ fillsList' = <<>>
    /\ routeMeta' = {}
    /\ quarantined' = {}
    /\ phase' = "idle"
    /\ UNCHANGED <<compactFailed, requested, venue, wire, executed, copies, failed,
                   orderSnapshot, accountSnapshot>>

RecoveryNext ==
    \/ FlowNext /\ UNCHANGED <<orderSnapshot, accountSnapshot, restarts>>
    \/ SaveOrders \/ SaveAccount \/ Restart

RecoverySpec == RecoveryInit /\ [][RecoveryNext]_recoveryVars

-----------------------------------------------------------------------------
(***************************************************************************)
(* Properties.                                                             *)
(***************************************************************************)
Ledger == INSTANCE FillLedger WITH booked <- applied

\* Whatever is duplicated, reordered or lost, and however old the two snapshots
\* a restart combines, the account books only executed fills and none twice:
\* the account's own fill ids catch what a manager restored from an older
\* snapshot hands over again (_apply_fill, AccountActor.restore).
LedgerKept == Ledger!LedgerSpec

\* The account's idempotency store and its balances never part: a fill is in
\* the balances exactly if its id is known, so that a restored account neither
\* repeats nor refuses a fill it does not hold (_apply_fill,
\* _serialize_account_snapshot, restore_account).
SeenIffApplied ==
    \A f \in FillIds : f \in accSeen <=> applied[f] = 1

=============================================================================
