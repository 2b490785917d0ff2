------------------------ MODULE KillAndRecoveryProofs -------------------------
(***************************************************************************)
(* Proofs about the two uses of the order path: under restarts it          *)
(* implements the fill ledger, and under the kill switch an activation     *)
(* that returns has stopped every order it found; for any number of        *)
(* orders, requests, copies of reports, restarts and calls.                *)
(***************************************************************************)
EXTENDS OrderRecovery, KillSwitch, OrderFlowProofs

\* The reports whose fill, if they carry one, the broker has executed.
HonestReports == {r \in Reports : CarriesFill(r) => r.fill_id \in executed}
HonestMsgs == [kind : {"report"}, report : HonestReports]
ExecutedFills == {f \in FillIds : f \in executed}

\* What an account that has seen these fills has applied.
AppliedOf(seen) == [f \in FillIds |-> IF f \in seen THEN 1 ELSE 0]

(***************************************************************************)
(* The inductive invariant of the refinement.  Everything on the way from  *)
(* the broker to the account was executed, the balances hold exactly the   *)
(* fills whose ids are known, in the account and in its snapshot, and the  *)
(* snapshot is never ahead of the account.                                 *)
(***************************************************************************)
LedgerInv ==
    /\ omBox \in Seq(RequestMsg \cup HonestMsgs)
    /\ execBox \in Seq(RequestMsg)
    /\ accBox \in Seq(ExecutedFills)
    /\ wire \subseteq HonestReports
    /\ accSeen \subseteq FillIds
    /\ applied = AppliedOf(accSeen)
    /\ accountSnapshot.seen \subseteq accSeen
    /\ accountSnapshot.applied = AppliedOf(accountSnapshot.seen)

\* A sequence over a set is a sequence over every larger set.
LEMMA SeqMonotone ==
    ASSUME NEW S, NEW T, S \subseteq T, NEW s \in Seq(S)
    PROVE  s \in Seq(T)
OBVIOUS

\* Taking the first message off a mailbox keeps its type.
LEMMA TailTyped ==
    ASSUME NEW S, NEW s \in Seq(S), s # <<>>
    PROVE  Head(s) \in S /\ Tail(s) \in Seq(S)
OBVIOUS

\* Putting a message at the end of a mailbox keeps its type.
LEMMA AppendTyped ==
    ASSUME NEW S, NEW s \in Seq(S), NEW x \in S
    PROVE  Append(s, x) \in Seq(S)
OBVIOUS

\* Nothing has been executed, reported or applied when the session starts.
LEMMA LedgerInvInit == RecoveryInit => LedgerInv
<1> SUFFICES ASSUME RecoveryInit PROVE LedgerInv
  OBVIOUS
<1>1. /\ omBox = <<>> /\ execBox = <<>> /\ accBox = <<>>
      /\ wire = {} /\ accSeen = {} /\ applied = [f \in FillIds |-> 0]
      /\ accountSnapshot.seen = accSeen /\ accountSnapshot.applied = applied
  BY DEF RecoveryInit, FlowInit, AccountState_snapshot
<1>2. applied = AppliedOf(accSeen)
  BY <1>1 DEF AppliedOf
<1>3. /\ omBox \in Seq(RequestMsg \cup HonestMsgs)
      /\ execBox \in Seq(RequestMsg)
      /\ accBox \in Seq(ExecutedFills)
  BY <1>1
<1> QED BY <1>1, <1>2, <1>3 DEF LedgerInv

-----------------------------------------------------------------------------
(***************************************************************************)
(* Every step preserves the invariant and is a step of the ledger.         *)
(***************************************************************************)
LedgerStep == [Ledger!LedgerNext]_<<executed, applied>>

\* The variables the invariant and the ledger talk about.
ledgerVars == <<omBox, execBox, accBox, wire, executed, accSeen, applied, accountSnapshot>>

\* A step that touches none of the ledger's variables keeps the invariant.
LEMMA QuietStep ==
    ASSUME LedgerInv, UNCHANGED ledgerVars
    PROVE  LedgerInv' /\ LedgerStep
<1>1. /\ HonestReports' = HonestReports /\ HonestMsgs' = HonestMsgs
      /\ ExecutedFills' = ExecutedFills
  BY DEF ledgerVars, HonestReports, HonestMsgs, ExecutedFills
<1> QED BY <1>1 DEF ledgerVars, LedgerInv, LedgerStep, AppliedOf

\* The order manager's mailbox receives a message and nothing else happens.
LEMMA ArrivalStep ==
    ASSUME LedgerInv, NEW msg \in RequestMsg \cup HonestMsgs,
           omBox' = Append(omBox, msg),
           execBox' \in Seq(RequestMsg),
           UNCHANGED <<accBox, wire, executed, accSeen, applied, accountSnapshot>>
    PROVE  LedgerInv' /\ LedgerStep
<1>1. /\ HonestReports' = HonestReports /\ HonestMsgs' = HonestMsgs
      /\ ExecutedFills' = ExecutedFills
  BY DEF HonestReports, HonestMsgs, ExecutedFills
<1>2. omBox' \in Seq(RequestMsg \cup HonestMsgs)
  BY AppendTyped DEF LedgerInv
<1> QED BY <1>1, <1>2 DEF LedgerInv, LedgerStep, AppliedOf

\* The order manager takes one message and may pass fills on to the account.
LEMMA ManagerStep ==
    ASSUME LedgerInv, omBox # <<>>, omBox' = Tail(omBox),
           execBox' \in Seq(RequestMsg),
           accBox' \in Seq(ExecutedFills),
           UNCHANGED <<wire, executed, accSeen, applied, accountSnapshot>>
    PROVE  LedgerInv' /\ LedgerStep
<1>1. /\ HonestReports' = HonestReports /\ HonestMsgs' = HonestMsgs
      /\ ExecutedFills' = ExecutedFills
  BY DEF HonestReports, HonestMsgs, ExecutedFills
<1>2. omBox' \in Seq(RequestMsg \cup HonestMsgs)
  BY TailTyped DEF LedgerInv
<1> QED BY <1>1, <1>2 DEF LedgerInv, LedgerStep, AppliedOf

\* The message at the head of the order manager's mailbox.
LEMMA HonestHead ==
    ASSUME LedgerInv, omBox # <<>>
    PROVE  /\ Head(omBox).kind \in RequestKind => Head(omBox) \in RequestMsg
           /\ Head(omBox).kind = "report" => Head(omBox).report \in HonestReports
<1>1. Head(omBox) \in RequestMsg \cup HonestMsgs
  BY TailTyped DEF LedgerInv
<1> QED BY <1>1 DEF RequestMsg, HonestMsgs, RequestKind

\* A turn of the order manager (OrderManagerActor.handle) only passes on fills
\* the broker executed.
LEMMA OMStepKeepsLedger ==
    ASSUME LedgerInv, OMStep, UNCHANGED accountSnapshot
    PROVE  LedgerInv' /\ LedgerStep
<1>1. /\ omBox # <<>> /\ omBox' = Tail(omBox)
      /\ UNCHANGED <<wire, executed, accSeen, applied>>
  BY DEF OMStep, OMTurn, HandleSubmit, HandleCancelOrReplace, RefuseCancelOrReplace,
         TakeReport, RefuseReport, Abort, brokerVars, accountVars
<1>2. /\ execBox \in Seq(RequestMsg) /\ accBox \in Seq(ExecutedFills)
  BY DEF LedgerInv
<1>3. CASE HandleSubmit \/ HandleCancelOrReplace
  <2>1. Head(omBox) \in RequestMsg
    BY <1>1, <1>3, HonestHead DEF HandleSubmit, HandleCancelOrReplace, RequestKind
  <2>2. execBox' = Append(execBox, Head(omBox)) /\ accBox' = accBox
    BY <1>3 DEF HandleSubmit, HandleCancelOrReplace
  <2>3. execBox' \in Seq(RequestMsg)
    BY <1>2, <2>1, <2>2, AppendTyped
  <2> QED BY <1>1, <1>2, <2>2, <2>3, ManagerStep
<1>4. CASE RefuseCancelOrReplace \/ RefuseReport
  <2>1. execBox' = execBox /\ accBox' = accBox
    BY <1>4 DEF RefuseCancelOrReplace, RefuseReport, Abort
  <2> QED BY <1>1, <1>2, <2>1, ManagerStep
<1>5. CASE TakeReport
  <2> DEFINE r == Head(omBox).report
  <2>1. r \in HonestReports
    BY <1>1, <1>5, HonestHead DEF TakeReport
  <2>2. execBox' = execBox /\ accBox' = accBox \o FillsFor(r)
    BY <1>5 DEF TakeReport
  <2>3. CASE Applicable(r) /\ NewFill(r)
    <3>1. r.fill_id \in ExecutedFills
      BY <2>1, <2>3, FillTyped DEF HonestReports, ExecutedFills, NewFill
    <3>2. accBox' = accBox \o <<r.fill_id>>
      BY <2>2, <2>3 DEF FillsFor
    <3> HIDE DEF r
    <3>3. <<r.fill_id>> \in Seq(ExecutedFills)
      BY <3>1
    <3>4. accBox' \in Seq(ExecutedFills)
      BY <1>2, <3>2, <3>3
    <3> QED BY <1>1, <1>2, <2>2, <3>4, ManagerStep
  <2>4. CASE ~(Applicable(r) /\ NewFill(r))
    <3>1. accBox' = accBox \o <<>>
      BY <2>2, <2>4 DEF FillsFor
    <3>2. accBox' \in Seq(ExecutedFills)
      BY <1>2, <3>1
    <3> QED BY <1>1, <1>2, <2>2, <3>2, ManagerStep
  <2> QED BY <2>3, <2>4
<1> QED BY <1>3, <1>4, <1>5 DEF OMStep

\* A turn of the execution actor (ExecutionActor.handle) brings back only
\* reports whose fills the broker executed.
LEMMA ExecutionKeepsLedger ==
    ASSUME LedgerInv, Execute \/ ExecuteRaises, UNCHANGED accountSnapshot
    PROVE  LedgerInv' /\ LedgerStep
<1>1. /\ execBox # <<>> /\ execBox' = Tail(execBox)
      /\ UNCHANGED <<accBox, wire, executed, accSeen, applied>>
  BY DEF Execute, ExecTurn, ExecuteSubmit, ExecuteCancel, ExecuteReplace, ExecuteRaises,
         Answer, Abort, brokerVars, accountVars
<1>2. Head(execBox) \in RequestMsg /\ execBox' \in Seq(RequestMsg)
  BY <1>1, TailTyped DEF LedgerInv
<1>3. CASE ExecuteRaises
  <2>1. omBox' = omBox
    BY <1>3 DEF ExecuteRaises
  <2>2. /\ HonestReports' = HonestReports /\ HonestMsgs' = HonestMsgs
        /\ ExecutedFills' = ExecutedFills
    BY <1>1 DEF HonestReports, HonestMsgs, ExecutedFills
  <2> QED BY <1>1, <1>2, <2>1, <2>2 DEF LedgerInv, LedgerStep, AppliedOf
<1>4. CASE Execute
  <2> DEFINE o == Head(execBox).order
  <2>1. o \in OrderIds
    BY <1>2 DEF RequestMsg
  <2>2. PICK k \in ReportKind \ FillKind : omBox' = Append(omBox, AsReport(ReportFor[o][k]))
    BY <1>4 DEF Execute, ExecuteSubmit, ExecuteCancel, ExecuteReplace, Answer, ReportKind,
                FillKind
  <2>3. ReportFor[o][k] \in HonestReports
    BY <2>1, ReportForTyped DEF HonestReports
  <2>4. AsReport(ReportFor[o][k]) \in HonestMsgs
    BY <2>3 DEF AsReport, HonestMsgs
  <2> QED BY <1>1, <1>2, <2>2, <2>4, ArrivalStep
<1> QED BY <1>3, <1>4

\* A turn of the account (AccountActor.handle) applies a fill it has not seen
\* and no other.
LEMMA AccountStepKeepsLedger ==
    ASSUME LedgerInv, AccountStep, UNCHANGED accountSnapshot
    PROVE  LedgerInv' /\ LedgerStep
<1> DEFINE f == Head(accBox)
<1>1. /\ UNCHANGED <<omBox, execBox, wire, executed>>
      /\ accBox # <<>> /\ accBox' = Tail(accBox)
      /\ accSeen' = accSeen \cup {f}
      /\ applied' = IF f \in accSeen THEN applied ELSE [applied EXCEPT ![f] = @ + 1]
  BY DEF AccountStep, ApplyFill, brokerVars
<1>2. f \in ExecutedFills /\ accBox' \in Seq(ExecutedFills)
  BY <1>1, TailTyped DEF LedgerInv
<1>3. f \in FillIds /\ f \in executed
  BY <1>2 DEF ExecutedFills
<1>4. /\ HonestReports' = HonestReports /\ HonestMsgs' = HonestMsgs
      /\ ExecutedFills' = ExecutedFills
  BY <1>1 DEF HonestReports, HonestMsgs, ExecutedFills
<1>5. applied = AppliedOf(accSeen)
  BY DEF LedgerInv
<1> HIDE DEF f
<1>6. applied' = AppliedOf(accSeen')
  BY <1>1, <1>3, <1>5 DEF AppliedOf
<1>7. LedgerInv'
  BY <1>1, <1>2, <1>3, <1>4, <1>6 DEF LedgerInv, AppliedOf
<1>8. CASE f \in accSeen
  BY <1>1, <1>7, <1>8 DEF LedgerStep
<1>9. CASE f \notin accSeen
  <2>1. applied[f] = 0 /\ applied' = [applied EXCEPT ![f] = 1]
    BY <1>1, <1>3, <1>5, <1>9 DEF AppliedOf
  <2>2. Ledger!Book(f)
    BY <1>1, <1>3, <2>1 DEF Ledger!Book
  <2> QED BY <1>3, <1>7, <2>2 DEF LedgerStep, Ledger!LedgerNext
<1> QED BY <1>8, <1>9

\* A fill at the broker is the ledger's Execute.
LEMMA FillKeepsLedger ==
    ASSUME LedgerInv, NEW o \in OrderIds, NEW k \in FillKind, Fill(o, k),
           UNCHANGED accountSnapshot
    PROVE  LedgerInv' /\ LedgerStep
<1> DEFINE r == ReportFor[o][k]
<1>1. /\ UNCHANGED <<omBox, execBox, accBox, accSeen, applied>>
      /\ r.fill_id \notin executed
      /\ executed' = executed \cup {r.fill_id}
      /\ wire' = wire \cup {r}
  BY DEF Fill, boxVars, accountVars
<1>2. r \in Reports /\ CarriesFill(r) /\ r.fill_id \in FillIds
  BY ReportForTyped, FillTyped DEF FillKind, ReportKind
<1> HIDE DEF r
<1>3. /\ HonestReports \subseteq HonestReports'
      /\ ExecutedFills \subseteq ExecutedFills'
      /\ r \in HonestReports'
  BY <1>1, <1>2 DEF HonestReports, ExecutedFills, CarriesFill
<1>4. RequestMsg \cup HonestMsgs \subseteq RequestMsg \cup HonestMsgs'
  BY <1>3 DEF HonestMsgs
<1>5. omBox' \in Seq(RequestMsg \cup HonestMsgs')
  BY <1>1, <1>4, SeqMonotone DEF LedgerInv
<1>6. accBox' \in Seq(ExecutedFills')
  BY <1>1, <1>3, SeqMonotone DEF LedgerInv
<1>7. wire' \subseteq HonestReports'
  BY <1>1, <1>3 DEF LedgerInv
<1>8. LedgerInv'
  BY <1>1, <1>5, <1>6, <1>7 DEF LedgerInv, AppliedOf
<1>9. Ledger!Execute(r.fill_id)
  BY <1>1 DEF Ledger!Execute
<1> QED BY <1>2, <1>8, <1>9 DEF LedgerStep, Ledger!LedgerNext

\* A rejection names no fill, and is nothing to the ledger.
LEMMA RejectKeepsLedger ==
    ASSUME LedgerInv, NEW o \in OrderIds, Reject(o), UNCHANGED accountSnapshot
    PROVE  LedgerInv' /\ LedgerStep
<1> DEFINE r == ReportFor[o]["rejected"]
<1>1. /\ UNCHANGED <<omBox, execBox, accBox, accSeen, applied, executed, accountSnapshot>>
      /\ wire' = wire \cup {r}
  BY DEF Reject, boxVars, accountVars
<1>2. r \in Reports /\ ~CarriesFill(r)
  BY ReportForTyped DEF FillKind, ReportKind
<1> HIDE DEF r
<1>3. HonestReports' = HonestReports /\ r \in HonestReports
  BY <1>1, <1>2 DEF HonestReports
<1>4. LedgerInv'
  BY <1>1, <1>3 DEF LedgerInv, AppliedOf, HonestMsgs, ExecutedFills
<1> QED BY <1>1, <1>4 DEF LedgerStep

\* A restart from the account's snapshot takes balances and ids back together.
LEMMA RestartKeepsLedger ==
    ASSUME LedgerInv, Restart
    PROVE  LedgerInv' /\ LedgerStep
<1>1. /\ UNCHANGED <<wire, executed, accountSnapshot>>
      /\ omBox' = <<>> /\ execBox' = <<>> /\ accBox' = <<>>
      /\ accSeen' = accountSnapshot.seen /\ applied' = accountSnapshot.applied
  BY DEF Restart, RestoreAccount
<1>2. /\ HonestReports' = HonestReports
      /\ omBox' \in Seq(RequestMsg \cup HonestMsgs') /\ execBox' \in Seq(RequestMsg)
      /\ accBox' \in Seq(ExecutedFills')
  BY <1>1 DEF HonestReports
<1>3. LedgerInv'
  BY <1>1, <1>2 DEF LedgerInv, AppliedOf
<1>4. applied' = [f \in FillIds |-> IF f \in accountSnapshot.seen THEN applied[f] ELSE 0]
  BY <1>1 DEF LedgerInv, AppliedOf
<1>5. accountSnapshot.seen \in SUBSET FillIds
  BY DEF LedgerInv
<1>6. Ledger!Restore(accountSnapshot.seen)
  BY <1>1, <1>4 DEF Ledger!Restore
<1> QED BY <1>3, <1>5, <1>6 DEF LedgerStep, Ledger!LedgerNext

\* Every step of the order path with restarts keeps the invariant.
LEMMA StepKeepsLedger ==
    ASSUME LedgerInv, [RecoveryNext]_recoveryVars
    PROVE  LedgerInv' /\ LedgerStep
<1>1. CASE UNCHANGED recoveryVars
  BY <1>1, QuietStep DEF recoveryVars, flowVars, boxVars, brokerVars, accountVars, ledgerVars
<1>2. CASE FlowNext /\ UNCHANGED <<orderSnapshot, accountSnapshot, restarts>>
  <2>1. ASSUME NEW k \in RequestKind, NEW o \in OrderIds, Request(k, o)
        PROVE  LedgerInv' /\ LedgerStep
    <3>1. [kind |-> k, order |-> o] \in RequestMsg
      BY DEF RequestMsg
    <3>2. /\ omBox' = Append(omBox, [kind |-> k, order |-> o])
          /\ UNCHANGED <<execBox, accBox, wire, executed, accSeen, applied, accountSnapshot>>
      BY <1>2, <2>1 DEF Request, brokerVars, accountVars
    <3>3. execBox' \in Seq(RequestMsg)
      BY <3>2 DEF LedgerInv
    <3> QED BY <3>1, <3>2, <3>3, ArrivalStep
  <2>2. CASE Pump \/ Drained
    BY <1>2, <2>2, QuietStep DEF Pump, Drained, boxVars, brokerVars, accountVars, ledgerVars
  <2>3. CASE OMStep
    BY <1>2, <2>3, OMStepKeepsLedger
  <2>4. CASE Execute \/ ExecuteRaises
    BY <1>2, <2>4, ExecutionKeepsLedger
  <2>5. CASE AccountStep
    BY <1>2, <2>5, AccountStepKeepsLedger
  <2>6. ASSUME NEW o \in OrderIds, NEW k \in FillKind, Fill(o, k)
        PROVE  LedgerInv' /\ LedgerStep
    BY <1>2, <2>6, FillKeepsLedger
  <2>8. ASSUME NEW o \in OrderIds, Reject(o)
        PROVE  LedgerInv' /\ LedgerStep
    BY <1>2, <2>8, RejectKeepsLedger
  <2>7. ASSUME NEW r \in Reports, Deliver(r) PROVE LedgerInv' /\ LedgerStep
    <3>1. AsReport(r) \in HonestMsgs
      BY <2>7 DEF Deliver, LedgerInv, AsReport, HonestMsgs
    <3>2. /\ omBox' = Append(omBox, AsReport(r))
          /\ UNCHANGED <<execBox, accBox, wire, executed, accSeen, applied, accountSnapshot>>
      BY <1>2, <2>7 DEF Deliver, brokerVars, accountVars
    <3>3. execBox' \in Seq(RequestMsg)
      BY <3>2 DEF LedgerInv
    <3> QED BY <3>1, <3>2, <3>3, ArrivalStep
  <2> QED BY <1>2, <2>1, <2>2, <2>3, <2>4, <2>5, <2>6, <2>7, <2>8 DEF FlowNext
<1>3. CASE SaveOrders
  BY <1>3, QuietStep DEF SaveOrders, flowVars, boxVars, brokerVars, accountVars, ledgerVars
<1>4. CASE SaveAccount
  <2>1. /\ UNCHANGED <<omBox, execBox, accBox, wire, executed, accSeen, applied>>
        /\ accountSnapshot' = [seen |-> accSeen, applied |-> applied]
    BY <1>4 DEF SaveAccount, flowVars, boxVars, brokerVars, accountVars, AccountState_snapshot
  <2>2. /\ HonestReports' = HonestReports /\ HonestMsgs' = HonestMsgs
        /\ ExecutedFills' = ExecutedFills
    BY <2>1 DEF HonestReports, HonestMsgs, ExecutedFills
  <2> QED BY <2>1, <2>2 DEF LedgerInv, LedgerStep, AppliedOf
<1>5. CASE Restart
  BY <1>5, RestartKeepsLedger
<1> QED BY <1>1, <1>2, <1>3, <1>4, <1>5 DEF RecoveryNext

-----------------------------------------------------------------------------
\* The order path implements the fill ledger across duplicates, losses, aborted
\* drives and restarts from snapshots of different moments: a fill is booked
\* only once executed and never twice (_apply_fill, AccountActor.restore).
THEOREM RecoveryImplementsLedger == RecoverySpec => LedgerKept
<1>1. RecoveryInit => Ledger!LedgerInit
  BY DEF RecoveryInit, FlowInit, Ledger!LedgerInit
<1>2. RecoveryInit => LedgerInv
  BY LedgerInvInit
<1>3. LedgerInv /\ [RecoveryNext]_recoveryVars => LedgerInv' /\ LedgerStep
  BY StepKeepsLedger
<1> QED BY <1>1, <1>2, <1>3, PTL DEF RecoverySpec, LedgerKept, Ledger!LedgerSpec, LedgerStep

\* The ids the account knows and the fills in its balances are the same, also
\* after a restart (_apply_fill, restore_account).
THEOREM RecoverySeenIffApplied == RecoverySpec => []SeenIffApplied
<1>1. LedgerInv => SeenIffApplied
  BY DEF LedgerInv, SeenIffApplied, AppliedOf
<1> QED BY <1>1, LedgerInvInit, StepKeepsLedger, PTL DEF RecoverySpec

-----------------------------------------------------------------------------

(***************************************************************************)
(* The kill switch on top of the order path.  Its calls only move the      *)
(* driver from mailbox to mailbox and put cancels into the order manager's *)
(* mailbox, so the path's invariant survives them.                         *)
(***************************************************************************)

\* The driver turns to another mailbox and the order path stands still.
DriverMoves ==
    /\ phase' \in Phase
    /\ UNCHANGED <<omVars, requested, boxVars, routeMeta, brokerVars, accountVars, historyVars>>

\* What the order path sees of a step: a step of its own, a move of the driver,
\* or a cancel told by an activation.
LEMMA KillStepOnPath ==
    ASSUME KillTypeOK, [KillNext]_allVars
    PROVE  [FlowNext]_flowVars \/ DriverMoves \/ \E o \in OrderIds : TellCancel(o)
<1>1. CASE Trade \/ Handle \/ Drive \/ Broker
  BY <1>1 DEF Trade, Handle, Drive, Broker, FlowNext
<1>2. CASE Activate \/ BeginRollback
  BY <1>2 DEF Activate, BeginRollback, Call, DriverMoves, Phase
<1>3. CASE Deactivate \/ TakeSnapshot \/ StartDrive \/ UNCHANGED allVars
  BY <1>3 DEF Deactivate, TakeSnapshot, StartDrive, allVars
<1>4. CASE ReadOrders \/ ReadAccount \/ Return \/ LatchRollback
  BY <1>4 DEF ReadOrders, ReadAccount, Return, LatchRollback, DriverMoves, Phase
<1> QED BY <1>1, <1>2, <1>3, <1>4 DEF KillNext, CallStep

\* A cancel told by an activation is a request like any other.
LEMMA TellCancelTyped ==
    ASSUME FlowTypeOK, NEW o \in OrderIds, TellCancel(o)
    PROVE  /\ omBox = <<>> /\ omBox' = <<[kind |-> "cancel", order |-> o]>>
           /\ omBox' = Append(omBox, [kind |-> "cancel", order |-> o])
           /\ [kind |-> "cancel", order |-> o] \in RequestMsg \cup ReportMsg
           /\ omBox' \in Seq(RequestMsg \cup ReportMsg)
<1>1. [kind |-> "cancel", order |-> o] \in RequestMsg \cup ReportMsg
  BY DEF RequestMsg, RequestKind
<1>2. omBox = <<>> /\ omBox' = <<[kind |-> "cancel", order |-> o]>>
  BY DEF TellCancel
<1> HIDE DEF TellCancel
<1>3. omBox' = Append(omBox, [kind |-> "cancel", order |-> o])
  BY <1>2
<1>4. omBox \in Seq(RequestMsg \cup ReportMsg)
  BY DEF FlowTypeOK
<1>5. omBox' \in Seq(RequestMsg \cup ReportMsg)
  BY <1>1, <1>3, <1>4, BoxAppend
<1> QED BY <1>1, <1>2, <1>3, <1>5

\* With a kill switch the order manager is still used as OrderManager says.
LEMMA KillStepsManager ==
    ASSUME KillTypeOK, [KillNext]_allVars
    PROVE  [OMNext]_omVars
BY KillStepOnPath, FlowStepsManager DEF KillTypeOK, DriverMoves, TellCancel

\* Every step keeps the order path below the kill switch well typed.
LEMMA KillKeepsFlowType ==
    ASSUME KillTypeOK, [KillNext]_allVars
    PROVE  FlowTypeOK'
<1>1. FlowTypeOK
  BY DEF KillTypeOK
<1>2. CASE [FlowNext]_flowVars
  BY <1>1, <1>2, FlowTypeStep
<1>3. OMTypeOK'
  BY <1>1, KillStepsManager, OMTypeStep DEF FlowTypeOK
<1>4. CASE DriverMoves
  BY <1>1, <1>3, <1>4
     DEF DriverMoves, FlowTypeOK, boxVars, brokerVars, accountVars, historyVars
<1>5. ASSUME NEW o \in OrderIds, TellCancel(o) PROVE FlowTypeOK'
  <2>1. omBox' \in Seq(RequestMsg \cup ReportMsg)
    BY <1>1, <1>5, TellCancelTyped
  <2> QED BY <1>1, <1>3, <1>5, <2>1
          DEF TellCancel, FlowTypeOK, brokerVars, accountVars, historyVars
<1> QED BY <1>2, <1>4, <1>5, KillStepOnPath

\* Every step keeps the kill switch well typed.
LEMMA KillTypeStep ==
    ASSUME KillTypeOK, [KillNext]_allVars
    PROVE  KillTypeOK'
<1>1. FlowTypeOK'
  BY KillKeepsFlowType
<1>2. CASE Trade \/ Drive \/ Broker \/ UNCHANGED allVars
  BY <1>1, <1>2 DEF Trade, Drive, Broker, allVars, killVars, callVars, KillTypeOK
<1>3. CASE Handle
  BY <1>1, <1>3 DEF Handle, callVars, KillTypeOK, Step
<1>4. CASE Activate \/ BeginRollback
  <2>1. calls' \in 0..MaxCalls
    BY <1>4, CallsAssumption DEF Activate, BeginRollback, Call, KillTypeOK
  <2> QED BY <1>1, <1>4, <2>1 DEF Activate, BeginRollback, Call, KillTypeOK, Step
<1>5. CASE Deactivate \/ CallStep
  BY <1>1, <1>5 DEF Deactivate, CallStep, TakeSnapshot, StartDrive, ReadOrders, ReadAccount,
                    Return, LatchRollback, TellCancel, callVars, killVars, KillTypeOK, Step, Active
<1> QED BY <1>2, <1>3, <1>4, <1>5 DEF KillNext

\* The kill switch is well typed from its first state on.
LEMMA KillTypeInit == KillInit => KillTypeOK
<1> SUFFICES ASSUME KillInit PROVE KillTypeOK
  OBVIOUS
<1>1. FlowTypeOK
  BY FlowTypeInit DEF KillInit
<1>2. calls \in 0..MaxCalls
  BY CallsAssumption DEF KillInit
<1> QED BY <1>1, <1>2 DEF KillInit, KillTypeOK, Step

\* A cancel told by an activation keeps the invariant of the order path.
LEMMA TellCancelKeeps ==
    ASSUME FlowTypeOK, FlowInv, NEW o \in OrderIds, TellCancel(o)
    PROVE  FlowInv'
<1> DEFINE m == [kind |-> "cancel", order |-> o]
<1>1. /\ omBox' = Append(omBox, m)
      /\ UNCHANGED <<orders, brokerToOrder, fillIds, seenReports, requested, execBox, accBox,
                     venue, wire, accSeen, applied, copies, quarantined, failed>>
  BY TellCancelTyped DEF TellCancel, omVars, idVars, brokerVars, accountVars, historyVars
<1>2. m \in RequestMsg \cup ReportMsg /\ omBox \in Seq(RequestMsg \cup ReportMsg)
  BY TellCancelTyped DEF FlowTypeOK
<1>3. \A r : m # AsReport(r)
  BY RequestIsNoReport DEF RequestKind
<1>4. \A p \in OrderIds : m # SubmitOf(p)
  BY DEF SubmitOf
<1> HIDE DEF m
<1>5. /\ Msgs(omBox') = Msgs(omBox) \cup {m}
      /\ \A n : Once(omBox, n) /\ (m = n => n \notin Msgs(omBox)) => Once(omBox', n)
  BY <1>1, <1>2, BoxAppend
<1>6. SubmittedOnce'
  BY <1>1, <1>4, <1>5 DEF FlowInv, SubmittedOnce, OneSubmission
<1>7. TrueReports'
  <2>1. \A r : TrueReport(r)' <=> TrueReport(r)
    BY <1>1 DEF TrueReport
  <2> QED BY <1>1, <1>3, <1>5, <2>1 DEF FlowInv, TrueReports
<1>8. FillsKept'
  <2>1. \A f : FillHandled(f)' <=> FillHandled(f)
    BY <1>1 DEF FillHandled
  <2> QED BY <1>1, <1>5, <2>1 DEF FlowInv, FillsKept, Delivered
<1> QED BY <1>1, <1>6, <1>7, <1>8 DEF FlowInv, NeverAheadOfBroker, NothingQuarantined

\* The invariant of the order path survives the kill switch.
LEMMA KillKeepsFlowInv ==
    ASSUME KillTypeOK, BrokerMapSound, FlowInv, [KillNext]_allVars
    PROVE  FlowInv'
<1>1. FlowTypeOK
  BY DEF KillTypeOK
<1>2. CASE DriverMoves
  BY <1>1, <1>2, QuietFlowStep
     DEF DriverMoves, omVars, idVars, boxVars, brokerVars, accountVars, historyVars
<1> QED BY <1>1, <1>2, KillStepOnPath, FlowInvStep, TellCancelKeeps

(***************************************************************************)
(* The inductive invariant of an activation: where the driver stands at    *)
(* each step of a call, and how far the cancellation of the orders it      *)
(* found active has got.  A told cancel is in one of the two mailboxes or  *)
(* the broker is done with the order; the execution actor's mailbox runs   *)
(* empty before the evidence is read; and with the flag set nobody submits *)
(* behind the snapshot's back.                                             *)
(***************************************************************************)
CallInv ==
    /\ step # "none" <=> outcome = "running"
    /\ step \in {"snapshot", "tell", "drive", "evidence"} => call = "activate" /\ killFlag
    /\ step \in {"rollback", "rollback_evidence"} => call = "rollback"
    /\ step \in {"snapshot", "tell", "rollback"} => phase = "om1"
    /\ step = "drive" => phase \in {"om1", "exec", "om2", "account"} /\ toCancel = {}
    /\ step = "evidence" => phase \in {"om1", "account"}
    /\ step = "rollback_evidence" => phase = "account"
    /\ call = "activate" /\ outcome = "returned" => phase = "idle" /\ killFlag

CancelOf(o) == [kind |-> "cancel", order |-> o]
Closed(o) == venue[o] \in Done
NoSubmitIn(box) == \A m \in Msgs(box) : m.kind # "submit"

\* The activation has read its evidence or has returned.
Over == step = "evidence" \/ (call = "activate" /\ outcome = "returned")

\* Nobody submits behind the snapshot.
NoneSubmitted == step \in {"tell", "drive"} \/ Over => NoSubmitIn(omBox)

\* The orders are closed once the execution actor's mailbox has been drained.
AllClosed ==
    (step = "drive" /\ phase \in {"om2", "account"}) \/ Over =>
        NoSubmitIn(execBox) /\ \A o \in killOrders : Closed(o)

\* Before, a cancel that was told is on its way.
OnItsWay(o) == CancelOf(o) \in Msgs(omBox) \cup Msgs(execBox) \/ Closed(o)
CancelsTold ==
    step = "tell" \/ (step = "drive" /\ phase = "om1") =>
        \A o \in killOrders \ toCancel : OnItsWay(o)
CancelsPassedOn ==
    step = "drive" /\ phase = "exec" =>
        \A o \in killOrders : CancelOf(o) \in Msgs(execBox) \/ Closed(o)

CancelInv == NoneSubmitted /\ AllClosed /\ CancelsTold /\ CancelsPassedOn

\* Every step keeps call and driver in step.
LEMMA CallInvStep ==
    ASSUME KillTypeOK, CallInv, [KillNext]_allVars
    PROVE  CallInv'
<1>1. CASE Trade
  <2>1. phase = "idle" /\ ~killFlag /\ UNCHANGED killVars
    BY <1>1 DEF Trade, Request, Pump
  <2> QED BY <2>1 DEF CallInv, killVars, callVars, KillTypeOK, Step
<1>2. CASE Handle
  <2>1. phase' \in {phase, "idle"} /\ phase # "idle"
    BY <1>2 DEF Handle, OMStep, OMTurn, HandleSubmit, HandleCancelOrReplace,
                RefuseCancelOrReplace, TakeReport, RefuseReport, Abort, Execute, ExecTurn,
                ExecuteSubmit, ExecuteCancel, ExecuteReplace, ExecuteRaises, Answer, AccountStep
  <2> QED BY <1>2, <2>1 DEF Handle, CallInv, callVars, KillTypeOK, Step
<1>3. CASE Drive
  <2>1. /\ phase = "om1" => phase' = "exec"
        /\ phase = "exec" => phase' = "om2"
        /\ phase = "om2" => phase' = "account"
        /\ phase # "idle"
    BY <1>3 DEF Drive, Drained
  <2> QED BY <1>3, <2>1 DEF Drive, CallInv, killVars, callVars, KillTypeOK, Step
<1>4. CASE Broker \/ UNCHANGED allVars
  <2>1. phase' = phase /\ UNCHANGED killVars
    BY <1>4 DEF Broker, Fill, Reject, Deliver, allVars, flowVars
  <2> QED BY <2>1 DEF CallInv, killVars, callVars
<1>5. CASE Activate \/ BeginRollback \/ Deactivate
  BY <1>5 DEF Activate, BeginRollback, Deactivate, Call, CallInv, KillTypeOK, Step, flowVars
<1>6. CASE CallStep
  BY <1>6 DEF CallStep, TakeSnapshot, StartDrive, ReadOrders, ReadAccount, Return,
              LatchRollback, TellCancel, CallInv, callVars, killVars, flowVars, KillTypeOK, Step
<1> QED BY <1>1, <1>2, <1>3, <1>4, <1>5, <1>6 DEF KillNext

\* An order the broker is done with is not opened again: it was submitted once.
LEMMA ClosedStays ==
    ASSUME KillTypeOK, FlowInv, [KillNext]_allVars, NEW o \in OrderIds, Closed(o)
    PROVE  Closed(o)'
<1>1. /\ FlowTypeOK /\ execBox \in Seq(RequestMsg)
      /\ venue \in [OrderIds -> {"none", "open", "filled", "cancelled", "rejected"}]
  BY DEF KillTypeOK, FlowTypeOK
<1>2. CASE ExecuteSubmit
  <2>1. execBox # <<>> /\ Head(execBox).kind = "submit"
    BY <1>2 DEF ExecuteSubmit, ExecTurn
  <2>2. PICK p \in OrderIds : Head(execBox) = [kind |-> "submit", order |-> p]
    BY <1>1, <2>1, HeadRequest DEF RequestMsg
  <2>3. SubmitOf(p) \in Msgs(execBox)
    BY <1>1, <2>1, <2>2, BoxTail DEF SubmitOf
  <2>4. venue[p] = "none" /\ p # o
    BY <2>3 DEF FlowInv, SubmittedOnce, OneSubmission, Closed, Done
  <2>5. Head(execBox).order = p
    BY <2>2
  <2>6. venue' = [venue EXCEPT ![p] = "open"]
    BY <1>2, <2>5 DEF ExecuteSubmit
  <2> QED BY <1>1, <2>4, <2>6 DEF Closed
<1>3. CASE ExecuteCancel
  <2>1. PICK p : venue' = [venue EXCEPT ![p] = IF @ = "open" THEN "cancelled" ELSE @]
    BY <1>3 DEF ExecuteCancel
  <2> QED BY <1>1, <2>1 DEF Closed, Done
<1>4. ASSUME NEW p \in OrderIds, NEW k \in FillKind, Fill(p, k) PROVE Closed(o)'
  BY <1>1, <1>4 DEF Fill, Closed, Done
<1>5. CASE venue' = venue
  BY <1>5 DEF Closed
<1>9. ASSUME NEW p \in OrderIds, Reject(p) PROVE Closed(o)'
  BY <1>1, <1>9 DEF Reject, Closed, Done
<1>6. ASSUME [FlowNext]_flowVars PROVE Closed(o)'
  <2>1. CASE OMStep
    BY <1>5, <2>1 DEF OMStep, HandleSubmit, HandleCancelOrReplace, RefuseCancelOrReplace,
                      TakeReport, RefuseReport, Abort, brokerVars
  <2>2. CASE ~OMStep
    BY <1>2, <1>3, <1>4, <1>5, <1>6, <1>9, <2>2
       DEF FlowNext, flowVars, Request, Pump, Drained, Execute, ExecuteReplace, ExecuteRaises,
           Abort, AccountStep, Deliver, brokerVars
  <2> QED BY <2>1, <2>2
<1>7. CASE DriverMoves
  BY <1>5, <1>7 DEF DriverMoves, brokerVars
<1>8. ASSUME NEW p \in OrderIds, TellCancel(p) PROVE Closed(o)'
  BY <1>5, <1>8 DEF TellCancel, brokerVars
<1> QED BY <1>6, <1>7, <1>8, KillStepOnPath

\* With the flag set no submission gets into the order manager's mailbox, nor
\* past it into the execution actor's (blocked_reason).
LEMMA NoneSubmittedStep ==
    ASSUME KillTypeOK, killFlag, NoSubmitIn(omBox), [KillNext]_allVars
    PROVE  /\ NoSubmitIn(omBox')
           /\ NoSubmitIn(execBox) => NoSubmitIn(execBox')
<1>1. /\ FlowTypeOK /\ omBox \in Seq(RequestMsg \cup ReportMsg)
      /\ execBox \in Seq(RequestMsg)
  BY DEF KillTypeOK, FlowTypeOK
<1>2. ASSUME omBox # <<>>, omBox' = Tail(omBox) PROVE Msgs(omBox') \subseteq Msgs(omBox)
  BY <1>1, <1>2, BoxTail
<1>3. ASSUME execBox # <<>>, execBox' = Tail(execBox)
      PROVE  Msgs(execBox') \subseteq Msgs(execBox)
  BY <1>1, <1>3, BoxTail
<1>4. ASSUME NEW r \in Reports, omBox' = Append(omBox, AsReport(r))
      PROVE  NoSubmitIn(omBox')
  <2>1. AsReport(r) \in RequestMsg \cup ReportMsg /\ AsReport(r).kind = "report"
    BY DEF AsReport, ReportMsg
  <2>2. Msgs(omBox') = Msgs(omBox) \cup {AsReport(r)}
    BY <1>1, <1>4, <2>1, BoxAppend
  <2> QED BY <2>1, <2>2 DEF NoSubmitIn
<1>5. CASE OMStep
  <2>1. omBox # <<>> /\ omBox' = Tail(omBox)
    BY <1>5 DEF OMStep, OMTurn, HandleSubmit, HandleCancelOrReplace, RefuseCancelOrReplace,
                TakeReport, RefuseReport
  <2>2. NoSubmitIn(omBox')
    BY <1>2, <2>1 DEF NoSubmitIn
  <2>3. Head(omBox).kind # "submit"
    BY <1>1, <2>1, BoxTail DEF NoSubmitIn
  <2>4. CASE HandleCancelOrReplace
    <3>1. Head(omBox) \in RequestMsg /\ execBox' = Append(execBox, Head(omBox))
      BY <1>1, <2>1, <2>4, HeadMsg DEF HandleCancelOrReplace, RequestKind
    <3>2. Msgs(execBox') = Msgs(execBox) \cup {Head(omBox)}
      BY <1>1, <3>1, BoxAppend
    <3> QED BY <2>2, <2>3, <3>2 DEF NoSubmitIn
  <2>5. CASE RefuseCancelOrReplace \/ TakeReport \/ RefuseReport
    BY <2>2, <2>5 DEF RefuseCancelOrReplace, TakeReport, RefuseReport
  <2> QED BY <1>5, <2>3, <2>4, <2>5 DEF OMStep, HandleSubmit
<1>6. CASE Execute
  <2>1. /\ execBox # <<>> /\ execBox' = Tail(execBox)
        /\ \E k \in ReportKind : omBox' = Append(omBox, AsReport(ReportFor[Head(execBox).order][k]))
    BY <1>6 DEF Execute, ExecTurn, ExecuteSubmit, ExecuteCancel, ExecuteReplace, Answer,
                ReportKind
  <2>2. Head(execBox).order \in OrderIds
    BY <1>1, <2>1, HeadRequest
  <2>3. PICK r \in Reports : omBox' = Append(omBox, AsReport(r))
    BY <2>1, <2>2, ReportForTyped
  <2> QED BY <1>3, <1>4, <2>1, <2>3 DEF NoSubmitIn
<1>7. CASE ExecuteRaises
  <2>1. execBox # <<>> /\ execBox' = Tail(execBox) /\ omBox' = omBox
    BY <1>7 DEF ExecuteRaises, ExecTurn
  <2> QED BY <1>3, <2>1 DEF NoSubmitIn
<1>8. ASSUME NEW r \in Reports, Deliver(r)
      PROVE  NoSubmitIn(omBox') /\ execBox' = execBox
  BY <1>4, <1>8 DEF Deliver
<1>9. ASSUME NEW o \in OrderIds, TellCancel(o)
      PROVE  NoSubmitIn(omBox') /\ execBox' = execBox
  <2> DEFINE m == CancelOf(o)
  <2>1. m \in RequestMsg \cup ReportMsg /\ omBox' = Append(omBox, m) /\ m.kind = "cancel"
    BY <1>1, <1>9, TellCancelTyped DEF CancelOf
  <2> HIDE DEF m
  <2>2. Msgs(omBox') = Msgs(omBox) \cup {m}
    BY <1>1, <2>1, BoxAppend
  <2> QED BY <1>9, <2>1, <2>2 DEF NoSubmitIn, TellCancel
<1>10. CASE omBox' = omBox /\ execBox' = execBox
  BY <1>10
<1>11. CASE \/ AccountStep \/ Drained \/ (\E o \in OrderIds, k \in FillKind : Fill(o, k))
            \/ \E o \in OrderIds : Reject(o)
  BY <1>10, <1>11 DEF AccountStep, Fill, Reject, Drained, boxVars
<1>12. CASE Handle \/ Drive \/ Broker
  BY <1>5, <1>6, <1>7, <1>8, <1>11, <1>12 DEF Handle, Drive, Broker
<1>13. CASE Activate \/ BeginRollback \/ Deactivate \/ UNCHANGED allVars
  BY <1>10, <1>13 DEF Activate, BeginRollback, Deactivate, Call, flowVars, boxVars, allVars
<1>14. CASE CallStep
  BY <1>9, <1>10, <1>14 DEF CallStep, TakeSnapshot, StartDrive, ReadOrders, ReadAccount, Return,
                            LatchRollback, flowVars, boxVars
<1>15. ~Trade
  BY DEF Trade
<1> QED BY <1>12, <1>13, <1>14, <1>15 DEF KillNext

\* A cancel on its way to the execution actor gets there, or the call raises;
\* the execution actor closes the order it names (_handle_cancel, cancel_order).
LEMMA CancelMovesOn ==
    ASSUME KillTypeOK, FlowInv, [KillNext]_allVars, NEW o \in OrderIds,
           step # "none", step' # "none"
    PROVE  /\ CancelOf(o) \in Msgs(execBox) /\ phase # "exec" => CancelOf(o) \in Msgs(execBox')
           /\ OnItsWay(o) /\ phase # "exec" => OnItsWay(o)'
           /\ CancelOf(o) \in Msgs(execBox) => CancelOf(o) \in Msgs(execBox') \/ Closed(o)'
<1>1. /\ FlowTypeOK /\ omBox \in Seq(RequestMsg \cup ReportMsg)
      /\ execBox \in Seq(RequestMsg)
      /\ venue \in [OrderIds -> {"none", "open", "filled", "cancelled", "rejected"}]
  BY DEF KillTypeOK, FlowTypeOK
<1>2. Closed(o) => Closed(o)'
  BY ClosedStays
<1>3. CASE Msgs(omBox) \subseteq Msgs(omBox') /\ execBox' = execBox
  BY <1>2, <1>3 DEF OnItsWay
<1>4. ASSUME OMStep, Handle
      PROVE  CancelOf(o) \in Msgs(omBox) \cup Msgs(execBox)
             => CancelOf(o) \in Msgs(omBox') \cup Msgs(execBox')
  <2>1. omBox # <<>> /\ omBox' = Tail(omBox)
    BY <1>4 DEF OMStep, OMTurn, HandleSubmit, HandleCancelOrReplace, RefuseCancelOrReplace,
                TakeReport, RefuseReport
  <2>2. Msgs(omBox) = Msgs(omBox') \cup {Head(omBox)}
    BY <1>1, <2>1, BoxTail
  <2>3. Head(omBox) \in RequestMsg /\ execBox' = Append(execBox, Head(omBox))
        => Msgs(execBox') = Msgs(execBox) \cup {Head(omBox)}
    BY <1>1, BoxAppend
  <2>4. CASE HandleSubmit \/ HandleCancelOrReplace
    BY <1>1, <2>1, <2>2, <2>3, <2>4, HeadMsg DEF HandleSubmit, HandleCancelOrReplace, RequestKind
  <2>5. CASE RefuseCancelOrReplace \/ RefuseReport
    BY <1>4, <2>5 DEF RefuseCancelOrReplace, RefuseReport, Abort, Handle
  <2>6. CASE TakeReport
    BY <2>2, <2>6 DEF TakeReport, CancelOf
  <2> QED BY <1>4, <2>4, <2>5, <2>6 DEF OMStep
<1>5. ASSUME OMStep, Handle
      PROVE  Msgs(execBox) \subseteq Msgs(execBox')
  <2>1. omBox # <<>>
    BY <1>5 DEF OMStep, OMTurn, HandleSubmit, HandleCancelOrReplace, RefuseCancelOrReplace,
                TakeReport, RefuseReport
  <2>2. CASE HandleSubmit \/ HandleCancelOrReplace
    <3>1. Head(omBox) \in RequestMsg /\ execBox' = Append(execBox, Head(omBox))
      BY <1>1, <2>1, <2>2, HeadMsg DEF HandleSubmit, HandleCancelOrReplace, RequestKind
    <3> QED BY <1>1, <3>1, BoxAppend
  <2>3. CASE execBox' = execBox
    BY <2>3
  <2> QED BY <1>5, <2>2, <2>3 DEF OMStep, RefuseCancelOrReplace, TakeReport, RefuseReport
<1>6. CASE Handle /\ OMStep
  BY <1>2, <1>4, <1>5, <1>6 DEF OnItsWay
<1>7. CASE Handle /\ Execute
  <2>1. phase = "exec" /\ execBox # <<>> /\ execBox' = Tail(execBox)
    BY <1>7 DEF Execute, ExecTurn, ExecuteSubmit, ExecuteCancel, ExecuteReplace
  <2>2. Msgs(execBox) = Msgs(execBox') \cup {Head(execBox)}
    BY <1>1, <2>1, BoxTail
  <2>3. ASSUME Head(execBox) = CancelOf(o) PROVE Closed(o)'
    <3>1. Head(execBox).kind = "cancel" /\ Head(execBox).order = o
      BY <2>3 DEF CancelOf
    <3>2. /\ venue[o] # "none"
          /\ venue' = [venue EXCEPT ![o] = IF @ = "open" THEN "cancelled" ELSE @]
      BY <1>7, <3>1 DEF Execute, ExecuteSubmit, ExecuteCancel, ExecuteReplace
    <3> QED BY <1>1, <3>2 DEF Closed, Done
  <2> QED BY <2>1, <2>2, <2>3
<1>8. CASE Handle /\ ExecuteRaises
  BY <1>8 DEF Handle, ExecuteRaises, Abort
<1>9. CASE \/ AccountStep \/ Drained \/ (\E p \in OrderIds, k \in FillKind : Fill(p, k))
           \/ \E p \in OrderIds : Reject(p)
  BY <1>3, <1>9 DEF AccountStep, Drained, Fill, Reject, boxVars
<1>10. ASSUME NEW r \in Reports, Deliver(r)
       PROVE  Msgs(omBox) \subseteq Msgs(omBox') /\ execBox' = execBox
  <2>1. AsReport(r) \in RequestMsg \cup ReportMsg /\ omBox' = Append(omBox, AsReport(r))
    BY <1>10 DEF AsReport, ReportMsg, Deliver
  <2> QED BY <1>1, <1>10, <2>1, BoxAppend DEF Deliver
<1>11. ASSUME NEW p \in OrderIds, TellCancel(p)
       PROVE  Msgs(omBox) \subseteq Msgs(omBox') /\ execBox' = execBox
  <2>1. /\ [kind |-> "cancel", order |-> p] \in RequestMsg \cup ReportMsg
        /\ omBox' = Append(omBox, [kind |-> "cancel", order |-> p])
    BY <1>1, <1>11, TellCancelTyped
  <2>2. Msgs(omBox) \subseteq Msgs(omBox')
    BY <1>1, <2>1, BoxAppend
  <2> QED BY <1>11, <2>2 DEF TellCancel
<1>12. ASSUME NEW k \in RequestKind, NEW p \in OrderIds, Request(k, p)
       PROVE  Msgs(omBox) \subseteq Msgs(omBox') /\ execBox' = execBox
  <2>1. /\ [kind |-> k, order |-> p] \in RequestMsg \cup ReportMsg
        /\ omBox' = Append(omBox, [kind |-> k, order |-> p])
    BY <1>12 DEF RequestMsg, Request
  <2>2. Msgs(omBox) \subseteq Msgs(omBox')
    BY <1>1, <2>1, BoxAppend
  <2> QED BY <1>12, <2>2 DEF Request
<1>13. CASE Trade \/ Handle \/ Drive \/ Broker
  BY <1>3, <1>6, <1>7, <1>8, <1>9, <1>10, <1>12, <1>13
     DEF Trade, Handle, Drive, Broker, Pump, boxVars
<1>14. CASE Activate \/ BeginRollback \/ Deactivate \/ UNCHANGED allVars
  BY <1>3, <1>14 DEF Activate, BeginRollback, Deactivate, Call, flowVars, boxVars, allVars
<1>15. CASE CallStep
  BY <1>3, <1>11, <1>15 DEF CallStep, TakeSnapshot, StartDrive, ReadOrders, ReadAccount, Return,
                            LatchRollback, flowVars, boxVars
<1> QED BY <1>13, <1>14, <1>15 DEF KillNext

\* The moments an activation passes through.
Telling == step = "tell" \/ (step = "drive" /\ phase = "om1")
Sending == step = "drive" /\ phase = "exec"
Sent == (step = "drive" /\ phase \in {"om2", "account"}) \/ Over

\* An activation passes through its moments in order: snapshot, telling,
\* sending, sent (activate_kill_switch).
LEMMA ActivationOrder ==
    ASSUME KillTypeOK, CallInv, [KillNext]_allVars
    PROVE  /\ Telling' => TakeSnapshot \/ (Telling /\ killOrders' = killOrders)
           /\ Sending' => /\ killOrders' = killOrders
                          /\ \/ Sending
                             \/ Telling /\ toCancel = {} /\ omBox = <<>>
           /\ Sent' => /\ killOrders' = killOrders
                       /\ Sent \/ (Sending /\ execBox = <<>> /\ execBox' = execBox)
           /\ Telling' => \/ TakeSnapshot
                          \/ toCancel' = toCancel
                          \/ \E o \in OrderIds : TellCancel(o)
           /\ Telling \/ Sending \/ Sent => killFlag
<1>1. Telling \/ Sending \/ Sent => killFlag
  BY DEF CallInv, Telling, Sending, Sent, Over
<1>2. CASE Trade \/ Broker \/ UNCHANGED allVars
  <2>1. (phase' = phase \/ ~killFlag) /\ UNCHANGED killVars
    BY <1>2 DEF Trade, Broker, Fill, Reject, Deliver, allVars, flowVars
  <2> QED BY <1>1, <2>1 DEF CallInv, Telling, Sending, Sent, Over, killVars, callVars
<1>3. CASE Handle
  <2>1. phase' \in {phase, "idle"} /\ phase # "idle"
    BY <1>3 DEF Handle, OMStep, OMTurn, HandleSubmit, HandleCancelOrReplace,
                RefuseCancelOrReplace, TakeReport, RefuseReport, Abort, Execute, ExecTurn,
                ExecuteSubmit, ExecuteCancel, ExecuteReplace, ExecuteRaises, Answer, AccountStep
  <2> QED BY <1>1, <1>3, <2>1 DEF Handle, CallInv, Telling, Sending, Sent, Over, callVars
<1>4. CASE Drive
  <2>1. /\ phase = "om1" => phase' = "exec" /\ omBox = <<>>
        /\ phase = "exec" => phase' = "om2" /\ execBox = <<>>
        /\ phase = "om2" => phase' = "account"
        /\ phase \in {"om1", "exec", "om2", "account"}
        /\ execBox' = execBox
    BY <1>4 DEF Drive, Drained, boxVars
  <2> QED BY <1>1, <1>4, <2>1 DEF Drive, CallInv, Telling, Sending, Sent, Over, killVars, callVars
<1>5. CASE Activate \/ BeginRollback \/ Deactivate
  BY <1>1, <1>5 DEF Activate, BeginRollback, Deactivate, Call, CallInv, Telling, Sending, Sent,
                    Over, flowVars
<1>6. ASSUME NEW o \in OrderIds, TellCancel(o)
      PROVE  Telling /\ ~Sending' /\ ~Sent' /\ killOrders' = killOrders
  BY <1>6 DEF TellCancel, CallInv, Telling, Sending, Sent, Over, callVars
<1>7. CASE TakeSnapshot \/ StartDrive
  BY <1>1, <1>7 DEF TakeSnapshot, StartDrive, CallInv, Telling, Sending, Sent, Over, callVars,
                    flowVars
<1>8. CASE ReadOrders \/ ReadAccount \/ Return \/ LatchRollback
  BY <1>1, <1>8 DEF ReadOrders, ReadAccount, Return, LatchRollback, CallInv, Telling, Sending,
                    Sent, Over, callVars, killVars
<1> QED BY <1>1, <1>2, <1>3, <1>4, <1>5, <1>6, <1>7, <1>8 DEF KillNext, CallStep

\* Every step of a call, of the actors and of the broker keeps the cancellation
\* in hand.
LEMMA CancelInvStep ==
    ASSUME KillTypeOK, CallInv, FlowInv, CancelInv, [KillNext]_allVars
    PROVE  CancelInv'
<1>1. killOrders \subseteq OrderIds /\ toCancel \subseteq killOrders
  BY DEF KillTypeOK
<1>2. Msgs(<<>>) = {}
  BY DEF Msgs
<1>3. Telling \/ Sending \/ Sent <=> step \in {"tell", "drive"} \/ Over
  BY DEF Telling, Sending, Sent, CallInv
<1>4. (Telling \/ Sending \/ Sent)' <=> (step' \in {"tell", "drive"} \/ Over')
  BY CallInvStep DEF Telling, Sending, Sent, CallInv
<1>5. NoneSubmitted'
  <2> SUFFICES ASSUME (Telling \/ Sending \/ Sent)' PROVE NoSubmitIn(omBox')
    BY <1>4 DEF NoneSubmitted
  <2>1. CASE TakeSnapshot
    BY <1>2, <2>1 DEF TakeSnapshot, flowVars, boxVars, NoSubmitIn
  <2>2. CASE Telling \/ Sending \/ Sent
    BY <1>3, <2>2, ActivationOrder, NoneSubmittedStep DEF CancelInv, NoneSubmitted
  <2> QED BY <2>1, <2>2, ActivationOrder
<1>6. AllClosed'
  <2> SUFFICES ASSUME Sent' PROVE NoSubmitIn(execBox') /\ \A o \in killOrders' : Closed(o)'
    BY DEF AllClosed, Sent
  <2>1. CASE Sent
    <3>1. NoSubmitIn(omBox) /\ NoSubmitIn(execBox) /\ \A o \in killOrders : Closed(o)
      BY <1>3, <2>1 DEF CancelInv, NoneSubmitted, AllClosed, Sent
    <3> QED BY <1>1, <2>1, <3>1, ActivationOrder, NoneSubmittedStep, ClosedStays
  <2>2. CASE Sending /\ execBox = <<>> /\ execBox' = execBox
    <3>1. \A o \in killOrders : Closed(o)
      BY <1>2, <2>2 DEF CancelInv, CancelsPassedOn, Sending
    <3>2. NoSubmitIn(execBox')
      BY <1>2, <2>2 DEF NoSubmitIn
    <3> QED BY <1>1, <3>1, <3>2, ActivationOrder, ClosedStays
  <2> QED BY <2>1, <2>2, ActivationOrder
<1>7. CancelsTold'
  <2> SUFFICES ASSUME Telling', NEW o \in killOrders', o \notin toCancel' PROVE OnItsWay(o)'
    BY DEF CancelsTold, Telling
  <2>1. ~TakeSnapshot
    BY DEF TakeSnapshot
  <2>2. Telling /\ killOrders' = killOrders /\ o \in OrderIds
    BY <1>1, <2>1, ActivationOrder
  <2>3. phase # "exec" /\ step # "none" /\ step' # "none"
    BY <2>2 DEF Telling, CallInv
  <2>4. OnItsWay(o) => OnItsWay(o)'
    BY <2>2, <2>3, CancelMovesOn
  <2>5. CASE o \notin toCancel
    BY <2>2, <2>4, <2>5 DEF CancelInv, CancelsTold, Telling
  <2>6. CASE o \in toCancel
    <3>1. PICK p \in OrderIds : TellCancel(p)
      BY <2>1, <2>6, ActivationOrder
    <3>2. o = p
      BY <2>6, <3>1 DEF TellCancel
    <3>3. omBox' = <<CancelOf(o)>>
      BY <3>1, <3>2 DEF TellCancel, CancelOf
    <3>4. CancelOf(o) \in Msgs(omBox')
      BY <3>3 DEF Msgs
    <3> QED BY <3>4 DEF OnItsWay
  <2> QED BY <2>5, <2>6
<1>8. CancelsPassedOn'
  <2> SUFFICES ASSUME Sending', NEW o \in killOrders'
               PROVE  CancelOf(o) \in Msgs(execBox') \/ Closed(o)'
    BY DEF CancelsPassedOn, Sending
  <2>1. killOrders' = killOrders /\ o \in OrderIds
    BY <1>1, ActivationOrder
  <2>2. CancelOf(o) \in Msgs(execBox) \/ Closed(o)
    <3>1. CASE Sending
      BY <2>1, <3>1 DEF CancelInv, CancelsPassedOn, Sending
    <3>2. CASE Telling /\ toCancel = {} /\ omBox = <<>>
      BY <1>2, <2>1, <3>2 DEF CancelInv, CancelsTold, Telling, OnItsWay
    <3> QED BY <3>1, <3>2, ActivationOrder
  <2>3. step # "none" /\ step' # "none"
    BY ActivationOrder DEF Sending, Telling
  <2> QED BY <2>1, <2>2, <2>3, CancelMovesOn, ClosedStays
<1> QED BY <1>5, <1>6, <1>7, <1>8 DEF CancelInv

\* Before the first call nothing is to be cancelled.
LEMMA KillInvInit == KillInit => FlowInv /\ CallInv /\ CancelInv
<1> SUFFICES ASSUME KillInit PROVE FlowInv /\ CallInv /\ CancelInv
  OBVIOUS
<1>1. step = "none" /\ call = "none" /\ outcome = "none" /\ FlowInit
  BY DEF KillInit
<1> QED BY <1>1, FlowInvInit DEF CallInv, CancelInv, NoneSubmitted, AllClosed, CancelsTold,
                                CancelsPassedOn, Over

\* Mailboxes, calls and evidence are well typed.
THEOREM KillTypeCorrect == KillSpec => []KillTypeOK
BY KillTypeInit, KillTypeStep, PTL DEF KillSpec

\* Under the kill switch, too, the order manager is used as OrderManager says:
\* its theorems hold there (OrderManagerActor.handle).
THEOREM KillImplementsManager == KillSpec => OMSpec
<1>1. KillInit => OMInit
  BY DEF KillInit, FlowInit
<1> QED BY <1>1, KillTypeInit, KillTypeStep, KillStepsManager, PTL DEF KillSpec, OMSpec

\* The order path's invariant, where the driver stands, and how far the
\* cancellation has got, in every state of a session with a kill switch.
THEOREM KillInvariant == KillSpec => [](FlowInv /\ CallInv /\ CancelInv)
<1>1. KillSpec => []BrokerMapSound
  BY KillImplementsManager, OMBrokerMapSound, PTL
<1> QED BY <1>1, KillTypeCorrect, KillInvInit, KillKeepsFlowInv, CallInvStep, CancelInvStep, PTL
        DEF KillSpec

\* When an activation returns, none of the orders it found active works on at
\* the broker and no submission is left behind, whatever fills, answers and
\* late reports came in between (activate_kill_switch).
THEOREM KillReturnedMeansStopped == KillSpec => []ReturnedMeansStopped
<1>1. CancelInv => ReturnedMeansStopped
  <2> SUFFICES ASSUME CancelInv, call = "activate", outcome = "returned"
               PROVE  /\ \A o \in killOrders : venue[o] # "open"
                      /\ NoSubmitIn(omBox) /\ NoSubmitIn(execBox)
    BY DEF ReturnedMeansStopped, NoSubmitIn, Msgs
  <2> QED BY DEF CancelInv, NoneSubmitted, AllClosed, Over, Closed, Done
<1> QED BY <1>1, KillInvariant, PTL

\* A kill switch or a rollback in between loses no fill silently either
\* (_handle_report, process_report, _apply_fill).
THEOREM KillNoSilentLoss == KillSpec => []NoSilentLoss
<1>1. FlowInv => NoSilentLoss
  BY DEF FlowInv, FillsKept, NoSilentLoss, FillHandled, Msgs
<1> QED BY <1>1, KillInvariant, PTL

===============================================================================
