------------------------ MODULE ResearchCampaignProofs ------------------------
(***************************************************************************)
(* What holds of a research campaign for any families, budgets, number of  *)
(* generations and commands, and whatever the backtests return.            *)
(*                                                                         *)
(* The approval gate: a later generation runs only under an approval that  *)
(* stood when its engine was started, of what the engine has found again.  *)
(* The gate compares the approval a resumed engine was given with the      *)
(* proposal it has computed.  That this approval was the operator's last   *)
(* word is not local to the gate: it was read from the state file, which   *)
(* every decision replaces, of this proposal or another one, and which may *)
(* be gone, deleted or replaced when the gate is reached.                  *)
(*                                                                         *)
(* The account of the trials: every decision of the budget ledger ends in  *)
(* the landscape once, what was run is what was accepted and within the    *)
(* limits, a promoted candidate's evidence is that on disk, and what       *)
(* verify accepts is of one run.  While the root is being deleted, or what *)
(* a crash left of it lies there, each file is as it was or gone, which is *)
(* all that can be said of it.  CampaignInv relates the ledger, the        *)
(* landscape, the artifacts and the engine's memory at every point of a    *)
(* generation; a decision is identified by its generation and ordinal.     *)
(***************************************************************************)
EXTENDS ResearchCampaign, FiniteSetTheorems, WellFoundedInduction, TLAPS

\* The engine may still reach a gate.
Running == {"generation", "trials", "experiment", "select", "landscape"}

\* The operator has read p, and of these decisions the one on p is an approval.
Endorsed(p, decisions) ==
    p \in reviewed /\ \E v \in decisions : v.proposal = p /\ v.decision = "approved"

\* Which fields the three records have.
FileFields == DOMAIN files = DOMAIN EmptyRoot /\ files = [x \in DOMAIN EmptyRoot |-> files[x]]
StateFields(st) == DOMAIN st = DOMAIN NoState /\ st = [x \in DOMAIN NoState |-> st[x]]
MemFields == DOMAIN mem = DOMAIN Idle /\ mem = [x \in DOMAIN Idle |-> mem[x]]
Fields == FileFields /\ StateFields(files.state) /\ MemFields

ApprovalStands ==
    /\ files.state.status = "approved_next_generation" => Endorsed(files.state.approval, verdict)
    /\ pc \in Running \cup {"deleting"} =>
          mem.approval = NoProposal \/ Endorsed(mem.approval, mem.standing)
    /\ pc = "generation" /\ mem.gen > 0 => mem.next.analytics = Analytics(files.landscape)
    /\ pc = "deleting" => mem.gen = 0

GateInv == Fields /\ ApprovalStands

\* Nothing is proposed or approved at the start.
LEMMA InitGate == Init => GateInv
<1> SUFFICES ASSUME Init PROVE GateInv
  OBVIOUS
<1>1. Fields
  BY DEF Init, Fields, FileFields, StateFields, MemFields, EmptyRoot, NoState, Idle
<1>2. pc = "idle" /\ files.state.status = "none"
  BY DEF Init, EmptyRoot, NoState
<1>3. ApprovalStands
  BY <1>2 DEF ApprovalStands, Running
<1> QED BY <1>1, <1>3 DEF GateInv

\* An engine that starts with no approval or with one that stands.
LEMMA StartGate ==
    ASSUME NEW cmd, NEW max, NEW req, NEW approval, GateInv,
           approval = NoProposal \/ Endorsed(approval, verdict),
           UNCHANGED <<verdict, reviewed>>,
           StartEngine(cmd, max, req, approval)
    PROVE  GateInv'
<1>1. UNCHANGED files /\ pc' = "deleting"
  BY DEF StartEngine
<1>2. mem' = [Idle EXCEPT !.cmd = cmd, !.max = max, !.requested = req, !.approval = approval,
                          !.standing = verdict]
  BY DEF StartEngine
<1>3. mem'.approval = approval /\ mem'.gen = 0 /\ mem'.standing = verdict
  BY <1>2 DEF Idle
<1>4. Fields'
  BY <1>1, <1>2 DEF GateInv, Fields, FileFields, StateFields, MemFields, Idle
<1>5. ApprovalStands'
  BY <1>1, <1>3 DEF GateInv, ApprovalStands, Running, Endorsed
<1> QED
  BY <1>4, <1>5 DEF GateInv

\* Every step of the engine, the operator and the crashes keeps the invariant.
LEMMA NextGate == GateInv /\ [Next]_vars => GateInv'
<1> SUFFICES ASSUME GateInv, [Next]_vars PROVE GateInv'
  OBVIOUS
<1> USE DEF GateInv
<1>1. CASE UNCHANGED vars
  BY <1>1 DEF vars, Fields, FileFields, StateFields, MemFields, ApprovalStands, Endorsed
<1>2. ASSUME NEW mode \in {"manual", "none"}, Run(mode) PROVE GateInv'
  BY <1>2, StartGate DEF Run
<1>3. CASE Resume
  <2>1. Endorsed(files.state.approval, verdict)
    BY <1>3 DEF Resume, ApprovalStands
  <2> QED
    BY <1>3, <2>1, StartGate DEF Resume
<1>4. CASE BeginGeneration
  <2>1. Fields'
    BY <1>4 DEF BeginGeneration, Fields, FileFields, StateFields, MemFields, Idle
  <2>2. /\ mem'.approval = mem.approval /\ mem'.standing = mem.standing
        /\ pc' \in {"results", "trials"} /\ pc = "generation"
    BY <1>4 DEF BeginGeneration, Fields, MemFields, Idle
  <2> QED
    BY <1>4, <2>1, <2>2 DEF BeginGeneration, ApprovalStands, Endorsed, Running
<1>5. CASE RequestTrial
  <2>1. PICK l : files' = [files EXCEPT !.ledger = l]
    BY <1>5 DEF RequestTrial
  <2>2. PICK a, b, c : mem' = [mem EXCEPT !.todo = a, !.trials = b, !.refused = c]
    BY <1>5 DEF RequestTrial
  <2>3. FileFields' /\ files'.state = files.state /\ files'.proposal = files.proposal
    BY <2>1 DEF Fields, FileFields, EmptyRoot
  <2>4. MemFields' /\ mem'.approval = mem.approval /\ mem'.standing = mem.standing
    BY <2>2 DEF Fields, MemFields, Idle
  <2>5. Fields'
    BY <2>3, <2>4 DEF Fields, StateFields
  <2> QED
    BY <1>5, <2>3, <2>4, <2>5 DEF RequestTrial, ApprovalStands, Endorsed, Running
<1>6. CASE RunExperiment
  <2>1. PICK o : mem' = [mem EXCEPT !.outcome = o]
    BY <1>6 DEF RunExperiment
  <2>2. Fields' /\ mem'.approval = mem.approval /\ mem'.standing = mem.standing
    BY <1>6, <2>1 DEF RunExperiment, Fields, FileFields, StateFields, MemFields, Idle
  <2> QED
    BY <1>6, <2>2 DEF RunExperiment, ApprovalStands, Endorsed, Running
<1>7. CASE SelectCandidates
  <2>1. PICK a, b, c : mem' = [mem EXCEPT !.selected = a, !.rejected = b, !.fresh = c]
    BY <1>7 DEF SelectCandidates
  <2>2. MemFields' /\ mem'.approval = mem.approval /\ mem'.standing = mem.standing
    BY <2>1 DEF Fields, MemFields, Idle
  <2>3. Fields'
    BY <1>7, <2>2 DEF SelectCandidates, Fields, FileFields, StateFields
  <2> QED
    BY <1>7, <2>2, <2>3 DEF SelectCandidates, ApprovalStands, Endorsed, Running
<1>8. CASE AppendLandscape
  <2> DEFINE l == files.landscape \o mem.fresh
             n == NextProposal(mem.gen, l, mem.outcome.best)
  <2>1. files' = [files EXCEPT !.landscape = l]
    BY <1>8 DEF AppendLandscape
  <2>2. mem' = [mem EXCEPT !.gen = @ + 1, !.trials = <<>>, !.refused = <<>>,
                           !.fresh = <<>>, !.outcome = None, !.next = n]
    BY <1>8 DEF AppendLandscape
  <2>3. n.analytics = Analytics(l)
    BY DEF NextProposal
  <2> HIDE DEF l, n
  <2>4. /\ FileFields'
        /\ files'.state = files.state /\ files'.proposal = files.proposal /\ files'.landscape = l
    BY <2>1 DEF Fields, FileFields, EmptyRoot
  <2>5. MemFields' /\ mem'.approval = mem.approval /\ mem'.standing = mem.standing /\ mem'.next = n
    BY <2>2 DEF Fields, MemFields, Idle
  <2>6. Fields'
    BY <2>4, <2>5 DEF Fields, StateFields
  <2>7. pc = "landscape" /\ pc' = "generation" /\ UNCHANGED <<verdict, reviewed>>
    BY <1>8 DEF AppendLandscape
  <2> QED
    BY <2>3, <2>4, <2>5, <2>6, <2>7 DEF ApprovalStands, Endorsed, Running
<1>9. CASE WriteResults \/ WriteSummary \/ WriteGraph
  <2>1. FileFields' /\ files'.state = files.state
    <3>1. CASE WriteResults
      BY <3>1 DEF WriteResults, Fields, FileFields, EmptyRoot
    <3>2. CASE WriteSummary
      BY <3>2 DEF WriteSummary, Fields, FileFields, EmptyRoot
    <3>3. CASE WriteGraph
      BY <3>3 DEF WriteGraph, Fields, FileFields, EmptyRoot
    <3> QED
      BY <1>9, <3>1, <3>2, <3>3
  <2>2. UNCHANGED <<mem, verdict, reviewed>> /\ pc' \notin Running \cup {"deleting"}
    BY <1>9 DEF WriteResults, WriteSummary, WriteGraph, Running
  <2>3. Fields'
    BY <2>1, <2>2 DEF Fields, StateFields, MemFields
  <2> QED
    BY <2>1, <2>2, <2>3 DEF ApprovalStands, Endorsed, Running
<1>10. CASE FinishRun \/ FinishResume
  <2> DEFINE Written(st) == /\ files' = [files EXCEPT !.state = st]
                            /\ StateFields(st) /\ st.status # "approved_next_generation"
  <2>1. files' = files \/ \E st : Written(st)
    <3>1. ASSUME NEW status, NEW paths, status # "approved_next_generation",
                 files' = [files EXCEPT !.state = [status |-> status, path |-> TRUE,
                            paths |-> paths, gens |-> mem.requested, approval |-> NoProposal]]
          PROVE  \E st : Written(st)
      <4> DEFINE st == [status |-> status, path |-> TRUE, paths |-> paths,
                        gens |-> mem.requested, approval |-> NoProposal]
      <4>1. StateFields(st) /\ st.status = status
        BY DEF StateFields, NoState
      <4> QED
        BY <3>1, <4>1
    <3>2. ResultStatus # "approved_next_generation"
      BY DEF ResultStatus
    <3> HIDE DEF Written
    <3> QED
      BY <1>10, <3>1, <3>2 DEF FinishRun, FinishResume
  <2>2. pc' = "idle" /\ mem' = Idle /\ UNCHANGED <<verdict, reviewed>>
    BY <1>10 DEF FinishRun, FinishResume
  <2>3. MemFields'
    BY <2>2 DEF MemFields, Idle
  <2>4. FileFields' /\ StateFields(files'.state)
        /\ (files' = files \/ files'.state.status # "approved_next_generation")
    BY <2>1 DEF Fields, FileFields, EmptyRoot
  <2>5. Fields'
    BY <2>3, <2>4 DEF Fields, StateFields
  <2> QED
    BY <2>2, <2>4, <2>5 DEF ApprovalStands, Endorsed, Running
<1>11. CASE EngineDies \/ PreselectionRaises
  BY <1>11 DEF EngineDies, PreselectionRaises, Fields, FileFields, StateFields, MemFields,
               ApprovalStands, Endorsed, Running, Idle
<1>12. CASE Review
  BY <1>12 DEF Review, Fields, FileFields, StateFields, MemFields, ApprovalStands, Endorsed
<1>13. CASE Stop
  <2> DEFINE st == [NoState EXCEPT !.status = "stopped"]
  <2>1. StateFields(st) /\ st.status = "stopped"
    BY DEF StateFields, NoState
  <2>2. files' = [files EXCEPT !.state = st]
    BY <1>13 DEF Stop
  <2> HIDE DEF st
  <2>3. /\ FileFields' /\ files'.state = st /\ files'.proposal = files.proposal
        /\ files'.landscape = files.landscape
    BY <2>2 DEF Fields, FileFields, EmptyRoot
  <2>4. Fields'
    BY <1>13, <2>1, <2>3 DEF Stop, Fields, StateFields, MemFields
  <2> QED
    BY <1>13, <2>1, <2>3, <2>4 DEF Stop, ApprovalStands, Endorsed
<1>14. CASE DataChanges
  BY <1>14 DEF DataChanges, Fields, FileFields, StateFields, MemFields, ApprovalStands, Endorsed
<1>15. ASSUME NEW d \in {"approved", "rejected"}, NEW p \in reviewed, Decide(d, p) PROVE GateInv'
  <2> DEFINE st == [files.state EXCEPT !.status = IF d = "approved" THEN "approved_next_generation"
                                                  ELSE "rejected",
                                       !.approval = p]
  <2>1. files' = [files EXCEPT !.state = st]
    BY <1>15 DEF Decide, Fields, FileFields, EmptyRoot
  <2>2. /\ StateFields(st)
        /\ st.approval = p
        /\ st.status = "approved_next_generation" => d = "approved"
    BY DEF Fields, StateFields, NoState
  <2> HIDE DEF st
  <2>3. Fields' /\ files'.state = st /\ files'.landscape = files.landscape
    <3>1. FileFields' /\ files'.state = st /\ files'.landscape = files.landscape
      BY <2>1 DEF Fields, FileFields, EmptyRoot
    <3>2. mem' = mem
      BY <1>15 DEF Decide
    <3>3. MemFields'
      BY <3>2 DEF Fields, MemFields
    <3> QED
      BY <2>2, <3>1, <3>3 DEF Fields, StateFields
  <2>4. d = "approved" => \E v \in verdict' : v.proposal = p /\ v.decision = "approved"
    <3> DEFINE v == [proposal |-> p, decision |-> d, data |-> data]
    <3>1. v \in verdict' /\ v.proposal = p /\ v.decision = d
      BY <1>15 DEF Decide
    <3> QED BY <3>1
  <2>5. UNCHANGED <<pc, reviewed, mem>>
    BY <1>15 DEF Decide
  <2> QED
    BY <2>2, <2>3, <2>4, <2>5 DEF ApprovalStands, Endorsed, Running
<1>16. ASSUME NEW group \in DeletedTogether, Delete(group) PROVE GateInv'
  <2>1. /\ files' = [f \in DOMAIN files |-> IF f \in group THEN EmptyRoot[f] ELSE files[f]]
        /\ pc = "deleting" /\ UNCHANGED <<pc, mem, verdict, reviewed>>
    BY <1>16 DEF Delete
  <2>2. FileFields' /\ (files'.state = files.state \/ files'.state = NoState)
    BY <2>1 DEF Fields, FileFields, EmptyRoot
  <2>3. Fields'
    BY <2>1, <2>2 DEF Fields, StateFields, MemFields, NoState
  <2>4. files'.state.status = "approved_next_generation" => files'.state = files.state
    <3>1. NoState.status = "none"
      BY DEF NoState
    <3> QED BY <2>2, <3>1
  <2>5. pc' = "deleting" /\ mem' = mem /\ verdict' = verdict /\ reviewed' = reviewed
    BY <2>1
  <2> QED
    BY <2>1, <2>3, <2>4, <2>5 DEF ApprovalStands, Endorsed
<1>17. CASE MakeRoot
  BY <1>17 DEF MakeRoot, Fields, FileFields, StateFields, MemFields, ApprovalStands, Endorsed, Running
<1> QED
  BY <1>1, <1>2, <1>3, <1>4, <1>5, <1>6, <1>7, <1>8, <1>9, <1>10, <1>11, <1>12, <1>13, <1>14, <1>15,
     <1>16, <1>17 DEF Next

\* The inductive invariant holds in every reachable state.
THEOREM GateInvariant == Spec => []GateInv
  BY InitGate, NextGate, PTL DEF Spec

\* OnlyApprovedGenerations, the approval gate of the engine, for every value of
\* the constants: each step into a later generation's trials is under an approval of
\* a proposal that was read, which stood when the engine was started and says of
\* every trial what the landscape on disk says (execution_payload).
THEOREM GenerationsApproved == Spec => OnlyApprovedGenerations
<1> DEFINE A == pc = "generation" /\ pc' = "trials" /\ mem.gen > 0 =>
                   /\ mem.next \in reviewed
                   /\ \E v \in mem.standing : v.proposal = mem.next /\ v.decision = "approved"
                   /\ mem.approval.analytics = Analytics(files.landscape)
<1>1. GateInv /\ [Next]_vars => [A]_vars
  <2> SUFFICES ASSUME GateInv, Next, pc = "generation", pc' = "trials", mem.gen > 0
               PROVE  A
    OBVIOUS
  <2>1. BeginGeneration
    BY DEF Next, Run, Resume, StartEngine, RequestTrial, RunExperiment, SelectCandidates,
           AppendLandscape, WriteResults, WriteSummary, WriteGraph, FinishRun, FinishResume,
           EngineDies, PreselectionRaises, Review, Decide, Stop, DataChanges, Delete, MakeRoot
  <2>2. mem.approval # NoProposal /\ mem.approval = mem.next
    BY <2>1 DEF BeginGeneration, Approves
  <2> QED
    BY <2>2 DEF GateInv, ApprovalStands, Running, Endorsed
<1> QED
  BY <1>1, GateInvariant, PTL DEF Spec, OnlyApprovedGenerations

-----------------------------------------------------------------------------
(* The account of the trials *)

\* A trial of some generation, the decision on it, its point in the landscape.
Trial == [gen : Nat, ordinal : Nat \ {0}, family : Families]
Decision == [trial : Trial, accepted : BOOLEAN]
Stages == {"selected", "selector", "gauntlet", "promotion_packet", "trial_budget"}
LandscapePoint ==
    [gen : Nat, ordinal : Nat, family : Families, stage : Stages, bundle : 0..2, data : Nat]

\* What the selector, the gauntlet and the packet can say of these trials.
Verdicts(o, trials) ==
    /\ o.top \in 0..Len(trials) /\ o.best \in Families
    /\ o.fate \in {"gauntlet", "promotion_packet", "selected"}

\* What the ledger, the landscape and the engine's memory are made of.
Shapes ==
    /\ files.ledger \in Seq(Decision) /\ files.landscape \in Seq(LandscapePoint)
    /\ metrics \in [DOMAIN metrics -> {1, 2}] /\ data \in Nat
    /\ mem.gen \in Nat /\ mem.next.best \in Families \cup {None} /\ mem.todo \subseteq Nat \ {0}
    /\ mem.trials \in Seq(Trial) /\ mem.refused \in Seq(Trial)
    /\ mem.fresh \in Seq(LandscapePoint) /\ mem.selected \in Seq(LandscapePoint)
    /\ \A e \in oracle : Verdicts(e.outcome, e.input.trials)
    /\ pc = "select" => Verdicts(mem.outcome, mem.trials)
    /\ pc = "landscape" => mem.outcome.best \in Families

\* No trial is decided twice, and the next ordinal of generation g is new.
Keyed(L, g, n) ==
    /\ \A i, j \in DOMAIN L : L[i].trial = L[j].trial => i = j
    /\ \A i \in DOMAIN L : L[i].trial.gen <= g /\ (L[i].trial.gen = g => L[i].trial.ordinal <= n)

\* The point x of the landscape is for the trial of decision d, with its fate.
Records(x, d) ==
    /\ x.gen = d.trial.gen /\ x.ordinal = d.trial.ordinal
    /\ (x.stage = "trial_budget") = ~d.accepted

\* Each decision is in the landscape or, in the generation under way, in memory.
Placed(L, S, T, R, g) ==
    /\ Len(L) = Len(S) + Len(T) + Len(R)
    /\ \A d \in ToSet(L) :
          /\ d.trial.gen < g => \E x \in ToSet(S) : Records(x, d)
          /\ d.trial.gen = g => IF d.accepted THEN d.trial \in ToSet(T) ELSE d.trial \in ToSet(R)
    /\ \A t \in ToSet(T) : t.gen = g /\ [trial |-> t, accepted |-> TRUE] \in ToSet(L)
    /\ \A t \in ToSet(R) : t.gen = g
    /\ \A x \in ToSet(S) : x.gen < g

\* The new points F are for the trials T that were run and R that were refused.
Covers(F, T, R, g) ==
    /\ Len(F) = Len(T) + Len(R)
    /\ \A t \in ToSet(T) : \E x \in ToSet(F) : Records(x, [trial |-> t, accepted |-> TRUE])
    /\ \A t \in ToSet(R) : \E x \in ToSet(F) : Records(x, [trial |-> t, accepted |-> FALSE])
    /\ \A x \in ToSet(F) : x.gen = g /\ (x.stage = "selected" => x.bundle = 2)

\* What selection gives for the trials T, with the refused trials R.
Selects(s, T, R, g) ==
    LET F == s.selected \o s.rejected \o BudgetPoints(R)
    IN  /\ F \in Seq(LandscapePoint) /\ Covers(F, T, R, g)
        /\ s.selected \in Seq(LandscapePoint) /\ Len(s.selected) <= 1
        /\ ToSet(s.selected) = Promoted(F)

\* While an engine runs, every decision has its place, and the accepted trials
\* of earlier generations, and of this one after the experiment, have been run.
AccountInv ==
    pc \notin {"idle", "deleting"} =>
        /\ Keyed(files.ledger, mem.gen, Len(mem.trials) + Len(mem.refused))
        /\ Placed(files.ledger, files.landscape, mem.trials, mem.refused, mem.gen)
        /\ pc \notin {"trials", "experiment", "select", "landscape"} =>
              mem.trials = <<>> /\ mem.refused = <<>>
        /\ \A d \in ToSet(files.ledger) :
              d.accepted /\ (d.trial.gen < mem.gen \/ pc \in {"select", "landscape"}) =>
                  d.trial \in DOMAIN metrics
        /\ pc = "landscape" => Covers(mem.fresh, mem.trials, mem.refused, mem.gen)

\* What was run was accepted.
RanInv ==
    pc \notin {"idle", "deleting"} =>
        \A t \in DOMAIN metrics : [trial |-> t, accepted |-> TRUE] \in ToSet(files.ledger)

OfGeneration(L, g) == {i \in Accepted(L) : L[i].trial.gen = g}

\* The ledger accepts within the limits, and a generation accepts what it runs; what
\* an engine has left behind was within them.
BudgetInv ==
    IF pc \in {"idle", "deleting"} THEN BudgetHolds
    ELSE /\ Cardinality(Accepted(files.ledger)) <= MaxTotalTrials
         /\ \A f \in Families : Cardinality(OfFamily(files.ledger, f)) <= MaxFamilyTrials
         /\ \A g \in Nat : Cardinality(OfGeneration(files.ledger, g)) <= TrialsPerGeneration
         /\ Cardinality(OfGeneration(files.ledger, mem.gen)) <= Len(mem.trials)

\* A promotion recorded the rewritten metrics, and the metrics of a generation
\* that is in the landscape have been rewritten.
EvidenceInv ==
    /\ \A x \in ToSet(files.landscape) : x.stage = "selected" => x.bundle = 2
    /\ \A x \in ToSet(files.landscape), t \in DOMAIN metrics : t.gen = x.gen => metrics[t] = 2
    /\ pc = "landscape" => \A t \in DOMAIN metrics : metrics[t] = 2

InOrder(s) == \A i, j \in DOMAIN s : i < j => s[i].gen < s[j].gen

\* The promoted candidates in memory are those of the landscape.
PromotedInv ==
    pc \notin {"idle", "deleting"} =>
        /\ InOrder(mem.selected)
        /\ pc # "landscape" => /\ ToSet(mem.selected) = Promoted(files.landscape)
                               /\ \A x \in ToSet(mem.selected) : x.gen < mem.gen
        /\ pc = "landscape" => /\ ToSet(mem.selected) = Promoted(files.landscape) \cup Promoted(mem.fresh)

\* These candidates and this proposal, and the ledger if it is there, are of the
\* landscape on disk.
Whole(selected, proposal) ==
    /\ ToSet(selected) = Promoted(files.landscape) /\ InOrder(selected)
    /\ files.ledger # <<>> => Len(files.landscape) = Len(files.ledger)
    /\ proposal.analytics = Analytics(files.landscape)

\* The memory of an engine that has not begun its first generation.
Fresh ==
    /\ mem.gen = 0 /\ mem.next = NoProposal /\ mem.todo = {} /\ mem.trials = <<>>
    /\ mem.refused = <<>> /\ mem.fresh = <<>> /\ mem.selected = <<>>

\* The proposal an engine is about to write is of its landscape, and with the
\* artifact graph there are the files of one finished run, or some are gone.
ReleaseInv ==
    /\ pc # "idle" => mem.max # 0
    /\ pc = "deleting" => Fresh
    /\ pc \in {"generation", "results", "summary", "graph"} /\ mem.gen > 0 =>
          mem.next # NoProposal /\ mem.next.analytics = Analytics(files.landscape)
    /\ pc \in {"results", "summary", "graph"} => mem.gen > 0
    /\ pc \in {"summary", "graph"} => files.selected = mem.selected /\ files.proposal = mem.next
    /\ files.graph => /\ pc \in {"idle", "command", "deleting"}
                      /\ \/ files.selected = <<>> \/ files.proposal = NoProposal
                         \/ files.landscape = <<>>
                         \/ Whole(files.selected, files.proposal)

Recorded == Shapes /\ AccountInv /\ RanInv /\ BudgetInv /\ EvidenceInv /\ PromotedInv /\ ReleaseInv

CampaignInv == Fields /\ Recorded

\* Nothing is decided, recorded or run.
Blank ==
    /\ files.ledger = <<>> /\ files.landscape = <<>> /\ files.graph = FALSE
    /\ metrics \in [{} -> {1, 2}] /\ Fresh
    /\ data \in Nat /\ \A e \in oracle : Verdicts(e.outcome, e.input.trials)
    /\ pc \in {"idle", "generation"} /\ (pc # "idle" => mem.max # 0)

\* The landscape, the ledger and the artifacts stay, and so does the engine's
\* account of them, or the engine ends.
Quiet ==
    /\ files'.ledger = files.ledger /\ files'.landscape = files.landscape /\ metrics' = metrics
    /\ \/ pc' = "idle"
       \/ /\ mem'.gen = mem.gen /\ mem'.trials = mem.trials /\ mem'.refused = mem.refused
          /\ mem'.fresh = mem.fresh /\ mem'.selected = mem.selected
          /\ \/ pc' = pc
             \/ pc = "generation" /\ pc' \in {"trials", "results"}
             \/ pc \in {"results", "summary", "graph"} /\ pc' \in {"summary", "graph", "command"}

-----------------------------------------------------------------------------
(* Sequences of trials, decisions and points *)

\* The elements of a sequence one longer, and of two sequences in a row.
LEMMA ToSetAppend ==
    ASSUME NEW S, NEW s \in Seq(S), NEW e \in S
    PROVE  ToSet(Append(s, e)) = ToSet(s) \cup {e}
<1>1. /\ DOMAIN Append(s, e) = 1..(Len(s) + 1) /\ DOMAIN s = 1..Len(s) /\ Len(s) \in Nat
      /\ \A i \in 1..Len(s) : Append(s, e)[i] = s[i]
      /\ Append(s, e)[Len(s) + 1] = e
  OBVIOUS
<1> QED BY <1>1 DEF ToSet

LEMMA ToSetConcat ==
    ASSUME NEW S, NEW s \in Seq(S), NEW t \in Seq(S)
    PROVE  ToSet(s \o t) = ToSet(s) \cup ToSet(t)
<1>1. /\ DOMAIN (s \o t) = 1..(Len(s) + Len(t)) /\ DOMAIN s = 1..Len(s) /\ DOMAIN t = 1..Len(t)
      /\ Len(s) \in Nat /\ Len(t) \in Nat
      /\ \A i \in 1..Len(s) : (s \o t)[i] = s[i]
      /\ \A i \in 1..Len(t) : (s \o t)[Len(s) + i] = t[i]
  OBVIOUS
<1>2. \A i \in DOMAIN (s \o t) : i \in 1..Len(s) \/ (i - Len(s) \in 1..Len(t) /\ i = Len(s) + (i - Len(s)))
  BY <1>1
<1>3. ToSet(s \o t) \subseteq ToSet(s) \cup ToSet(t)
  <2> SUFFICES ASSUME NEW i \in DOMAIN (s \o t) PROVE (s \o t)[i] \in ToSet(s) \cup ToSet(t)
    BY DEF ToSet
  <2> QED BY <1>1, <1>2 DEF ToSet
<1>4. ToSet(s) \subseteq ToSet(s \o t)
  BY <1>1 DEF ToSet
<1>5. ToSet(t) \subseteq ToSet(s \o t)
  <2> SUFFICES ASSUME NEW i \in DOMAIN t PROVE t[i] \in ToSet(s \o t)
    BY DEF ToSet
  <2>1. Len(s) + i \in DOMAIN (s \o t)
    BY <1>1
  <2> QED BY <1>1, <2>1 DEF ToSet
<1> QED BY <1>3, <1>4, <1>5

\* The position of a member.
LEMMA ToSetType ==
    ASSUME NEW S, NEW s \in Seq(S)
    PROVE  /\ ToSet(s) \subseteq S
           /\ \A x \in ToSet(s) : \E i \in DOMAIN s : x = s[i]
           /\ ToSet(<<>>) = {}
  BY DEF ToSet

\* A sequence without its k-th element.
LEMMA Removed ==
    ASSUME NEW S, NEW s \in Seq(S), NEW k \in 1..Len(s)
    PROVE  /\ RemoveAt(s, k) \in Seq(S)
           /\ Len(RemoveAt(s, k)) = Len(s) - 1
           /\ ToSet(s) = ToSet(RemoveAt(s, k)) \cup {s[k]}
<1> DEFINE a == SubSeq(s, 1, k - 1)
           b == SubSeq(s, k + 1, Len(s))
<1>1. /\ a \in Seq(S) /\ b \in Seq(S) /\ Len(a) = k - 1 /\ Len(b) = Len(s) - k
      /\ DOMAIN s = 1..Len(s) /\ Len(s) \in Nat
      /\ \A i \in 1..(k - 1) : a[i] = s[i]
      /\ \A i \in 1..(Len(s) - k) : b[i] = s[k + i]
  OBVIOUS
<1>2. RemoveAt(s, k) = a \o b
  BY DEF RemoveAt
<1> HIDE DEF a, b
<1>3. RemoveAt(s, k) \in Seq(S) /\ Len(RemoveAt(s, k)) = Len(s) - 1
  BY <1>1, <1>2
<1>4. ToSet(RemoveAt(s, k)) = ToSet(a) \cup ToSet(b)
  BY <1>1, <1>2, ToSetConcat
<1>5. DOMAIN a = 1..(k - 1) /\ DOMAIN b = 1..(Len(s) - k)
  BY <1>1
<1>6. ToSet(a) \subseteq ToSet(s) /\ ToSet(b) \subseteq ToSet(s) /\ s[k] \in ToSet(s)
  <2>1. \A i \in 1..(k - 1) : i \in DOMAIN s /\ a[i] = s[i]
    BY <1>1
  <2>2. \A i \in 1..(Len(s) - k) : k + i \in DOMAIN s /\ b[i] = s[k + i]
    BY <1>1
  <2>3. ToSet(a) \subseteq ToSet(s)
    BY <1>5, <2>1 DEF ToSet
  <2>4. ToSet(b) \subseteq ToSet(s)
    BY <1>5, <2>2 DEF ToSet
  <2>5. s[k] \in ToSet(s)
    BY <1>1 DEF ToSet
  <2> QED BY <2>3, <2>4, <2>5
<1>7. ASSUME NEW i \in DOMAIN s PROVE s[i] \in ToSet(a) \cup ToSet(b) \cup {s[k]}
  <2>1. CASE i < k
    BY <1>1, <1>5, <2>1 DEF ToSet
  <2>2. CASE i > k
    <3>1. i - k \in 1..(Len(s) - k) /\ k + (i - k) = i
      BY <1>1, <2>2
    <3>2. b[i - k] = s[i]
      BY <1>1, <3>1
    <3> QED BY <1>5, <3>1, <3>2 DEF ToSet
  <2> QED BY <1>1, <2>1, <2>2
<1>8. ToSet(s) \subseteq ToSet(a) \cup ToSet(b) \cup {s[k]}
  BY <1>7 DEF ToSet
<1> QED BY <1>3, <1>4, <1>6, <1>8

\* A new trial of the generation under way, decided.
LEMMA KeyedAppend ==
    ASSUME NEW L \in Seq(Decision), NEW g \in Nat, NEW n \in Nat, Keyed(L, g, n),
           NEW d \in Decision, d.trial.gen = g, d.trial.ordinal = n + 1
    PROVE  Keyed(Append(L, d), g, n + 1)
<1> DEFINE M == Append(L, d)
<1>1. /\ DOMAIN M = 1..(Len(L) + 1) /\ DOMAIN L = 1..Len(L) /\ Len(L) \in Nat
      /\ \A i \in 1..Len(L) : M[i] = L[i] /\ L[i] \in Decision
      /\ M[Len(L) + 1] = d
  OBVIOUS
<1> HIDE DEF M
<1>2. \A i \in DOMAIN L : L[i].trial # d.trial
  BY <1>1 DEF Keyed, Decision, Trial
<1>3. \A i, j \in DOMAIN M : M[i].trial = M[j].trial => i = j
  BY <1>1, <1>2 DEF Keyed
<1>4. \A i \in DOMAIN L : L[i].trial.gen \in Nat /\ L[i].trial.ordinal \in Nat
  BY <1>1 DEF Decision, Trial
<1>5. ASSUME NEW i \in DOMAIN M
      PROVE  M[i].trial.gen <= g /\ (M[i].trial.gen = g => M[i].trial.ordinal <= n + 1)
  <2>1. CASE i = Len(L) + 1
    BY <1>1, <2>1
  <2>2. CASE i \in DOMAIN L
    <3>1. /\ L[i].trial.gen <= g /\ (L[i].trial.gen = g => L[i].trial.ordinal <= n)
      BY <2>2 DEF Keyed
    <3> QED BY <1>1, <1>4, <2>2, <3>1
  <2> QED BY <1>1, <2>1, <2>2
<1> QED BY <1>3, <1>5 DEF Keyed, M

LEMMA KeyedNext ==
    ASSUME NEW L \in Seq(Decision), NEW g \in Nat, NEW n \in Nat, Keyed(L, g, n)
    PROVE  Keyed(L, g + 1, 0)
<1>1. \A i \in DOMAIN L : L[i].trial.gen \in Nat /\ L[i].trial.gen <= g
  <2>1. \A i \in DOMAIN L : L[i] \in Decision
    OBVIOUS
  <2> QED BY <2>1 DEF Keyed, Decision, Trial
<1>2. \A i \in DOMAIN L : L[i].trial.gen <= g + 1 /\ L[i].trial.gen # g + 1
  BY <1>1
<1> QED BY <1>2 DEF Keyed

\* An accepted trial joins the trials to run, a refused one the refused.
LEMMA PlacedAppend ==
    ASSUME NEW L \in Seq(Decision), NEW S \in Seq(LandscapePoint), NEW T \in Seq(Trial),
           NEW R \in Seq(Trial), NEW g \in Nat, Placed(L, S, T, R, g),
           NEW t \in Trial, t.gen = g, NEW a \in BOOLEAN
    PROVE  Placed(Append(L, [trial |-> t, accepted |-> a]), S,
                  IF a THEN Append(T, t) ELSE T, IF a THEN R ELSE Append(R, t), g)
<1> DEFINE d == [trial |-> t, accepted |-> a]
           M == Append(L, d)
           T1 == IF a THEN Append(T, t) ELSE T
           R1 == IF a THEN R ELSE Append(R, t)
<1>1. d \in Decision /\ d.trial = t /\ d.accepted = a /\ (a => d = [trial |-> t, accepted |-> TRUE])
  BY DEF Decision
<1> HIDE DEF d
<1>2. ToSet(M) = ToSet(L) \cup {d} /\ Len(M) = Len(L) + 1
  BY <1>1, ToSetAppend
<1>3. /\ ToSet(T1) = (IF a THEN ToSet(T) \cup {t} ELSE ToSet(T)) /\ Len(T1) = Len(T) + (IF a THEN 1 ELSE 0)
      /\ ToSet(R1) = (IF a THEN ToSet(R) ELSE ToSet(R) \cup {t}) /\ Len(R1) = Len(R) + (IF a THEN 0 ELSE 1)
  <2>1. ToSet(Append(T, t)) = ToSet(T) \cup {t} /\ ToSet(Append(R, t)) = ToSet(R) \cup {t}
    BY ToSetAppend
  <2>2. /\ Len(Append(T, t)) = Len(T) + 1 /\ Len(T) \in Nat
        /\ Len(Append(R, t)) = Len(R) + 1 /\ Len(R) \in Nat
    OBVIOUS
  <2>3. CASE a = TRUE
    <3>1. T1 = Append(T, t) /\ R1 = R
      BY <2>3
    <3> QED BY <2>1, <2>2, <2>3, <3>1
  <2>4. CASE a = FALSE
    <3>1. T1 = T /\ R1 = Append(R, t)
      BY <2>4
    <3> QED BY <2>1, <2>2, <2>4, <3>1
  <2> QED BY <2>3, <2>4
<1>5. Len(L) \in Nat /\ Len(S) \in Nat /\ Len(T) \in Nat /\ Len(R) \in Nat /\ Len(L) = Len(S) + Len(T) + Len(R)
  BY DEF Placed
<1> HIDE DEF M, T1, R1
<1>6. Len(M) = Len(S) + Len(T1) + Len(R1)
  BY <1>2, <1>3, <1>5
<1>7. ASSUME NEW e \in ToSet(M)
      PROVE  /\ e.trial.gen < g => \E x \in ToSet(S) : Records(x, e)
             /\ e.trial.gen = g => IF e.accepted THEN e.trial \in ToSet(T1) ELSE e.trial \in ToSet(R1)
  <2>1. CASE e = d
    BY <1>1, <1>3, <2>1
  <2>2. CASE e \in ToSet(L)
    BY <1>3, <2>2 DEF Placed
  <2> QED BY <1>2, <2>1, <2>2
<1>8. \A u \in ToSet(T1) : u.gen = g /\ [trial |-> u, accepted |-> TRUE] \in ToSet(M)
  BY <1>1, <1>2, <1>3 DEF Placed
<1>9. \A u \in ToSet(R1) : u.gen = g
  BY <1>3 DEF Placed
<1>10. \A x \in ToSet(S) : x.gen < g
  BY DEF Placed
<1>11. Placed(M, S, T1, R1, g)
  BY <1>6, <1>7, <1>8, <1>9, <1>10 DEF Placed
<1> QED BY <1>11 DEF M, T1, R1, d

\* The end of a generation: the trials it decided move into the landscape.
LEMMA PlacedNext ==
    ASSUME NEW L \in Seq(Decision), NEW S \in Seq(LandscapePoint), NEW T \in Seq(Trial),
           NEW R \in Seq(Trial), NEW F \in Seq(LandscapePoint), NEW g \in Nat, NEW n \in Nat,
           Placed(L, S, T, R, g), Covers(F, T, R, g), Keyed(L, g, n)
    PROVE  Placed(L, S \o F, <<>>, <<>>, g + 1)
<1>1. /\ Len(S \o F) = Len(S) + Len(F) /\ Len(S) \in Nat /\ Len(F) \in Nat
      /\ Len(T) \in Nat /\ Len(R) \in Nat /\ Len(<<>>) = 0
  OBVIOUS
<1>2. ToSet(S \o F) = ToSet(S) \cup ToSet(F)
  BY ToSetConcat
<1>3. ToSet(<<>>) = {}
  BY DEF ToSet
<1>4. Len(L) = Len(S \o F) + Len(<<>>) + Len(<<>>)
  BY <1>1 DEF Placed, Covers
<1>5. ASSUME NEW d \in ToSet(L)
      PROVE  d.trial.gen <= g /\ d.trial.gen \in Nat /\ \E x \in ToSet(S \o F) : Records(x, d)
  <2>1. d \in Decision /\ d.trial.gen <= g
    BY DEF Keyed, ToSet
  <2>2. d.trial.gen \in Nat
    BY <2>1 DEF Decision, Trial
  <2>3. CASE d.trial.gen < g
    BY <1>2, <2>1, <2>2, <2>3 DEF Placed
  <2>4. CASE d.trial.gen = g
    <3>1. PICK x \in ToSet(F) : Records(x, [trial |-> d.trial, accepted |-> d.accepted])
      <4>1. d.accepted \in BOOLEAN
        BY <2>1 DEF Decision
      <4>2. CASE d.accepted = TRUE
        BY <2>4, <4>2 DEF Placed, Covers
      <4>3. CASE d.accepted = FALSE
        BY <2>4, <4>3 DEF Placed, Covers
      <4> QED BY <4>1, <4>2, <4>3
    <3>2. Records(x, d)
      BY <3>1 DEF Records
    <3> QED BY <1>2, <2>1, <2>2, <3>1, <3>2
  <2> QED BY <2>1, <2>2, <2>3, <2>4
<1>6. \A x \in ToSet(S \o F) : x.gen <= g /\ x.gen \in Nat
  <2>1. \A x \in ToSet(S \o F) : x.gen \in Nat
    <3>1. ToSet(S \o F) \subseteq LandscapePoint
      BY <1>2, ToSetType
    <3> QED BY <3>1 DEF LandscapePoint
  <2> QED BY <1>2, <2>1 DEF Placed, Covers
<1>7. \A d \in ToSet(L) : d.trial.gen < g + 1 /\ d.trial.gen # g + 1
  BY <1>5
<1>8. \A x \in ToSet(S \o F) : x.gen < g + 1
  BY <1>6
<1> QED BY <1>3, <1>4, <1>5, <1>7, <1>8 DEF Placed

\* The points made for a sequence of trials.
LEMMA Pointed ==
    ASSUME NEW T \in Seq(Trial), NEW stage \in Stages, NEW bundle \in 0..2, data \in Nat,
           NEW F, F = [i \in 1..Len(T) |-> Point(T[i], stage, bundle)]
    PROVE  /\ F \in Seq(LandscapePoint) /\ Len(F) = Len(T)
           /\ ToSet(F) = {Point(t, stage, bundle) : t \in ToSet(T)}
<1>1. \A i \in 1..Len(T) : T[i] \in Trial
  OBVIOUS
<1>2. \A t \in Trial : Point(t, stage, bundle) \in LandscapePoint
  BY DEF Point, LandscapePoint, Trial
<1>3. F \in Seq(LandscapePoint) /\ Len(F) = Len(T) /\ DOMAIN F = 1..Len(T) /\ DOMAIN T = 1..Len(T)
  BY <1>1, <1>2
<1>4. \A i \in 1..Len(T) : F[i] = Point(T[i], stage, bundle)
  OBVIOUS
<1> QED BY <1>3, <1>4 DEF ToSet

\* Selection, promotion and the refused trials give every trial of the
\* generation one point, and at most one of them is a promotion.
LEMMA SelectionCovers ==
    ASSUME NEW T \in Seq(Trial), NEW R \in Seq(Trial), NEW g \in Nat, NEW o, Verdicts(o, T),
           NEW m, \A t \in ToSet(T) : m[t] = 2, NEW context, data \in Nat,
           \A t \in ToSet(T) : t.gen = g, \A t \in ToSet(R) : t.gen = g
    PROVE  Selects(Selection(m, T, o, context), T, R, g)
<1> DEFINE s == Selection(m, T, o, context)
           F == s.selected \o s.rejected \o BudgetPoints(R)
           top == T[o.top]
           fate == Fate(m, top, o, context)
           lost == IF o.top = 0 THEN T ELSE RemoveAt(T, o.top)
           A == IF o.top # 0 /\ fate = "selected"
                THEN <<Point(top, "selected", CreateBundle(m, top))>> ELSE <<>>
           B == [i \in 1..Len(lost) |-> Point(lost[i], "selector", 1)]
           C == IF o.top # 0 /\ fate # "selected" THEN <<Point(top, fate, 1)>> ELSE <<>>
           D == BudgetPoints(R)
<1>1. s.selected = A /\ s.rejected = B \o C
  BY DEF Selection
<1>2. o.top \in 0..Len(T) /\ Len(T) \in Nat /\ Len(R) \in Nat
  BY DEF Verdicts
<1>3. o.top # 0 => top \in Trial /\ top \in ToSet(T) /\ top.gen = g /\ CreateBundle(m, top) = 2
  <2>1. o.top # 0 => o.top \in DOMAIN T
    BY <1>2
  <2>2. o.top # 0 => top \in Trial /\ top \in ToSet(T)
    BY <2>1 DEF ToSet
  <2> QED BY <2>2 DEF CreateBundle, VersionOnDisk
<1>4. fate \in {"gauntlet", "promotion_packet", "selected"}
  BY DEF Fate, Verdicts
<1>5. /\ lost \in Seq(Trial) /\ Len(lost) \in Nat
      /\ Len(T) = Len(lost) + (IF o.top = 0 THEN 0 ELSE 1)
      /\ ToSet(T) = ToSet(lost) \cup (IF o.top = 0 THEN {} ELSE {top})
  <2>1. CASE o.top = 0
    BY <1>2, <2>1
  <2>2. CASE o.top # 0
    <3>1. o.top \in 1..Len(T)
      BY <1>2, <2>2
    <3>2. /\ RemoveAt(T, o.top) \in Seq(Trial)
          /\ Len(RemoveAt(T, o.top)) = Len(T) - 1
          /\ ToSet(T) = ToSet(RemoveAt(T, o.top)) \cup {top}
      BY <3>1, Removed
    <3>3. lost = RemoveAt(T, o.top)
      BY <2>2
    <3> HIDE DEF top, lost
    <3> QED BY <1>2, <2>2, <3>1, <3>2, <3>3
  <2> QED BY <2>1, <2>2
<1> HIDE DEF s, top, fate, lost
<1>6. /\ B \in Seq(LandscapePoint) /\ Len(B) = Len(lost)
      /\ ToSet(B) = {Point(t, "selector", 1) : t \in ToSet(lost)}
  <2>1. B = [i \in 1..Len(lost) |-> Point(lost[i], "selector", 1)]
    OBVIOUS
  <2> HIDE DEF B
  <2>2. lost \in Seq(Trial)
    BY <1>5
  <2>3. \A i \in 1..Len(lost) : lost[i] \in Trial
    BY <2>2
  <2>4. \A t \in Trial : Point(t, "selector", 1) \in LandscapePoint
    BY DEF Point, LandscapePoint, Trial, Stages
  <2>5. B \in Seq(LandscapePoint) /\ Len(B) = Len(lost) /\ DOMAIN B = 1..Len(lost) /\ DOMAIN lost = 1..Len(lost)
    BY <2>1, <2>2, <2>3, <2>4
  <2>6. \A i \in 1..Len(lost) : B[i] = Point(lost[i], "selector", 1)
    BY <2>1
  <2> QED BY <2>5, <2>6 DEF ToSet
<1>7. /\ D \in Seq(LandscapePoint) /\ Len(D) = Len(R)
      /\ ToSet(D) = {Point(t, "trial_budget", 0) : t \in ToSet(R)}
  <2>1. "trial_budget" \in Stages /\ 0 \in 0..2 /\ D = [i \in 1..Len(R) |-> Point(R[i], "trial_budget", 0)]
    BY DEF Stages, BudgetPoints
  <2> QED BY <2>1, Pointed, Zenon
<1> DEFINE pa == Point(top, "selected", 2)
           pc1 == Point(top, fate, 1)
<1>8. o.top # 0 => /\ pa \in LandscapePoint /\ pa.gen = g /\ pa.stage = "selected" /\ pa.bundle = 2
                   /\ Records(pa, [trial |-> top, accepted |-> TRUE])
                   /\ pc1 \in LandscapePoint /\ pc1.gen = g /\ pc1.stage = fate
                   /\ Records(pc1, [trial |-> top, accepted |-> TRUE])
  <2> SUFFICES ASSUME o.top # 0 
               PROVE  /\ pa \in LandscapePoint /\ pa.gen = g /\ pa.stage = "selected" /\ pa.bundle = 2
                      /\ Records(pa, [trial |-> top, accepted |-> TRUE])
                      /\ pc1 \in LandscapePoint /\ pc1.gen = g /\ pc1.stage = fate
                      /\ Records(pc1, [trial |-> top, accepted |-> TRUE])
    OBVIOUS
  <2>1. /\ "selected" \in Stages /\ fate \in Stages /\ 1 \in 0..2 /\ 2 \in 0..2
        /\ fate # "trial_budget" /\ "selected" # "trial_budget"
    BY <1>4 DEF Stages
  <2>2. top \in Trial /\ top.gen = g
    BY <1>3
  <2>3. /\ pa \in LandscapePoint /\ pa.gen = top.gen /\ pa.stage = "selected" /\ pa.bundle = 2
        /\ Records(pa, [trial |-> top, accepted |-> TRUE])
    BY <1>4, <2>1, <2>2 DEF Point, Records, LandscapePoint, Trial
  <2>4. /\ pc1 \in LandscapePoint /\ pc1.gen = top.gen /\ pc1.stage = fate
        /\ Records(pc1, [trial |-> top, accepted |-> TRUE])
    BY <1>4, <2>1, <2>2 DEF Point, Records, LandscapePoint, Trial
  <2> QED BY <2>2, <2>3, <2>4
<1> HIDE DEF pa, pc1
<1>9. A = (IF o.top # 0 /\ fate = "selected" THEN <<pa>> ELSE <<>>)
  BY <1>3 DEF pa
<1>10. C = (IF o.top # 0 /\ fate # "selected" THEN <<pc1>> ELSE <<>>)
  BY DEF pc1
<1> HIDE DEF A, B, C, D
<1>11. /\ A \in Seq(LandscapePoint) /\ Len(A) = (IF o.top # 0 /\ fate = "selected" THEN 1 ELSE 0)
       /\ ToSet(A) = (IF o.top # 0 /\ fate = "selected" THEN {pa} ELSE {})
  BY <1>8, <1>9 DEF ToSet
<1>12. /\ C \in Seq(LandscapePoint) /\ Len(C) = (IF o.top # 0 /\ fate # "selected" THEN 1 ELSE 0)
       /\ ToSet(C) = (IF o.top # 0 /\ fate # "selected" THEN {pc1} ELSE {})
  BY <1>8, <1>10 DEF ToSet
<1>13. /\ F \in Seq(LandscapePoint)
       /\ Len(F) = Len(A) + Len(B) + Len(C) + Len(D)
       /\ ToSet(F) = ToSet(A) \cup ToSet(B) \cup ToSet(C) \cup ToSet(D)
  <2>1. F = (A \o (B \o C)) \o D
    BY <1>1 DEF D
  <2> HIDE DEF F
  <2>2. /\ B \o C \in Seq(LandscapePoint) /\ Len(B \o C) = Len(B) + Len(C)
        /\ ToSet(B \o C) = ToSet(B) \cup ToSet(C)
    <3>1. ToSet(B \o C) = ToSet(B) \cup ToSet(C)
      BY <1>6, <1>12, ToSetConcat
    <3>2. B \in Seq(LandscapePoint) /\ C \in Seq(LandscapePoint)
      BY <1>6, <1>12
    <3> QED BY <3>1, <3>2
  <2> DEFINE BC == B \o C
  <2> HIDE DEF BC
  <2>3. /\ A \o BC \in Seq(LandscapePoint) /\ Len(A \o BC) = Len(A) + Len(BC)
        /\ ToSet(A \o BC) = ToSet(A) \cup ToSet(BC)
    <3>0. BC \in Seq(LandscapePoint)
      BY <2>2 DEF BC
    <3>1. ToSet(A \o BC) = ToSet(A) \cup ToSet(BC)
      BY <1>11, <3>0, ToSetConcat
    <3>2. A \in Seq(LandscapePoint)
      BY <1>11
    <3> QED BY <3>0, <3>1, <3>2
  <2> DEFINE ABC == A \o BC
  <2> HIDE DEF ABC
  <2>4. /\ ABC \o D \in Seq(LandscapePoint) /\ Len(ABC \o D) = Len(ABC) + Len(D)
        /\ ToSet(ABC \o D) = ToSet(ABC) \cup ToSet(D)
    <3>0. ABC \in Seq(LandscapePoint)
      BY <2>3 DEF ABC
    <3>1. ToSet(ABC \o D) = ToSet(ABC) \cup ToSet(D)
      BY <1>7, <3>0, ToSetConcat
    <3> QED BY <1>7, <3>0, <3>1
  <2>5. F = ABC \o D
    BY <2>1 DEF ABC, BC
  <2>6. Len(ABC) = Len(A) + Len(BC) /\ ToSet(ABC) = ToSet(A) \cup ToSet(BC)
    BY <2>3 DEF ABC
  <2>7. Len(BC) = Len(B) + Len(C) /\ ToSet(BC) = ToSet(B) \cup ToSet(C)
    BY <2>2 DEF BC
  <2>8. Len(A) \in Nat /\ Len(B) \in Nat /\ Len(C) \in Nat /\ Len(D) \in Nat
    BY <1>6, <1>7, <1>11, <1>12
  <2> QED BY <2>4, <2>5, <2>6, <2>7, <2>8
<1> HIDE DEF F
<1>14. Len(F) = Len(T) + Len(R)
  <2>1. /\ Len(F) = Len(A) + Len(B) + Len(C) + Len(D) /\ Len(B) = Len(lost) /\ Len(D) = Len(R)
        /\ Len(lost) \in Nat /\ Len(R) \in Nat /\ Len(T) = Len(lost) + (IF o.top = 0 THEN 0 ELSE 1)
    BY <1>2, <1>5, <1>6, <1>7, <1>13
  <2>2. Len(A) + Len(C) = (IF o.top = 0 THEN 0 ELSE 1) /\ Len(A) \in Nat /\ Len(C) \in Nat
    <3>1. CASE o.top = 0
      BY <1>11, <1>12, <3>1
    <3>2. CASE o.top # 0 /\ fate = "selected"
      BY <1>11, <1>12, <3>2
    <3>3. CASE o.top # 0 /\ fate # "selected"
      BY <1>11, <1>12, <3>3
    <3> QED BY <3>1, <3>2, <3>3
  <2> QED BY <2>1, <2>2
<1>15. ToSet(lost) \subseteq Trial /\ ToSet(R) \subseteq Trial /\ ToSet(lost) \subseteq ToSet(T)
  BY <1>5, ToSetType
<1>16. \A t \in ToSet(lost) : LET x == Point(t, "selector", 1)
                             IN  /\ Records(x, [trial |-> t, accepted |-> TRUE])
                                 /\ x.gen = g /\ x.stage = "selector"
  <2>1. "selector" \in Stages /\ 1 \in 0..2 /\ "selector" # "trial_budget"
    BY DEF Stages
  <2>2. \A t \in ToSet(lost) : t \in Trial /\ t.gen = g
    BY <1>15
  <2> QED BY <2>2 DEF Point, Records
<1>17. \A t \in ToSet(R) : LET x == Point(t, "trial_budget", 0)
                          IN  /\ Records(x, [trial |-> t, accepted |-> FALSE])
                              /\ x.gen = g /\ x.stage = "trial_budget"
  <2>1. "trial_budget" \in Stages /\ 0 \in 0..2
    BY DEF Stages
  <2>2. \A t \in ToSet(R) : t \in Trial /\ t.gen = g
    BY <1>15
  <2> QED BY <2>2 DEF Point, Records
<1>18. \A t \in ToSet(T) : \E x \in ToSet(F) : Records(x, [trial |-> t, accepted |-> TRUE])
  <2> SUFFICES ASSUME NEW t \in ToSet(T)
               PROVE  \E x \in ToSet(F) : Records(x, [trial |-> t, accepted |-> TRUE])
    OBVIOUS
  <2>1. CASE t \in ToSet(lost)
    BY <1>6, <1>13, <1>16, <2>1
  <2>2. CASE o.top # 0 /\ t = top
    BY <1>8, <1>11, <1>12, <1>13, <2>2
  <2> QED BY <1>5, <2>1, <2>2
<1>19. \A t \in ToSet(R) : \E x \in ToSet(F) : Records(x, [trial |-> t, accepted |-> FALSE])
  BY <1>7, <1>13, <1>17
<1>20. ASSUME NEW x \in ToSet(F)
       PROVE  x.gen = g /\ (x.stage = "selected" <=> x \in ToSet(A)) /\ (x \in ToSet(A) => x.bundle = 2)
  <2>1. CASE x \in ToSet(A)
    BY <1>8, <1>11, <2>1
  <2>2. CASE x \in ToSet(B) /\ x \notin ToSet(A)
    BY <1>6, <1>16, <2>2
  <2>3. CASE x \in ToSet(C) /\ x \notin ToSet(A)
    BY <1>8, <1>12, <2>3
  <2>4. CASE x \in ToSet(D) /\ x \notin ToSet(A)
    BY <1>7, <1>17, <2>4
  <2> QED BY <1>13, <2>1, <2>2, <2>3, <2>4
<1>21. Covers(F, T, R, g)
  BY <1>14, <1>18, <1>19, <1>20 DEF Covers
<1>22. ToSet(A) = Promoted(F)
  BY <1>13, <1>20 DEF Promoted
<1> QED BY <1>1, <1>11, <1>13, <1>21, <1>22 DEF Selects, s, F

-----------------------------------------------------------------------------
(* Counting *)

\* The positions of accepted decisions, when one more decision is written.
LEMMA AcceptedAppend ==
    ASSUME NEW L \in Seq(Decision), NEW d \in Decision
    PROVE  LET M == Append(L, d)
               n == Len(L) + 1
           IN  /\ Accepted(M) = (IF d.accepted THEN Accepted(L) \cup {n} ELSE Accepted(L))
               /\ \A f : OfFamily(M, f) = (IF d.accepted /\ d.trial.family = f
                                           THEN OfFamily(L, f) \cup {n} ELSE OfFamily(L, f))
               /\ \A g : OfGeneration(M, g) = (IF d.accepted /\ d.trial.gen = g
                                               THEN OfGeneration(L, g) \cup {n} ELSE OfGeneration(L, g))
<1> DEFINE M == Append(L, d)
           n == Len(L) + 1
<1>1. /\ DOMAIN M = DOMAIN L \cup {n} /\ n \notin DOMAIN L
      /\ \A i \in DOMAIN L : M[i] = L[i]
      /\ M[n] = d
  OBVIOUS
<1> HIDE DEF M, n
<1>2. Accepted(M) = (IF d.accepted THEN Accepted(L) \cup {n} ELSE Accepted(L))
  BY <1>1 DEF Accepted
<1>3. \A f : OfFamily(M, f) = (IF d.accepted /\ d.trial.family = f
                               THEN OfFamily(L, f) \cup {n} ELSE OfFamily(L, f))
  <2> SUFFICES ASSUME NEW f
               PROVE  OfFamily(M, f) = (IF d.accepted /\ d.trial.family = f
                                        THEN OfFamily(L, f) \cup {n} ELSE OfFamily(L, f))
    OBVIOUS
  <2>1. \A i : i \in OfFamily(M, f) <=> i \in Accepted(M) /\ M[i].trial.family = f
    BY DEF OfFamily
  <2>2. \A i : i \in OfFamily(L, f) <=> i \in Accepted(L) /\ L[i].trial.family = f
    BY DEF OfFamily
  <2>3. \A i \in Accepted(L) : M[i] = L[i]
    BY <1>1 DEF Accepted
  <2> QED BY <1>1, <1>2, <2>1, <2>2, <2>3
<1>4. \A g : OfGeneration(M, g) = (IF d.accepted /\ d.trial.gen = g
                                   THEN OfGeneration(L, g) \cup {n} ELSE OfGeneration(L, g))
  <2> SUFFICES ASSUME NEW g
               PROVE  OfGeneration(M, g) = (IF d.accepted /\ d.trial.gen = g
                                            THEN OfGeneration(L, g) \cup {n} ELSE OfGeneration(L, g))
    OBVIOUS
  <2>1. \A i : i \in OfGeneration(M, g) <=> i \in Accepted(M) /\ M[i].trial.gen = g
    BY DEF OfGeneration
  <2>2. \A i : i \in OfGeneration(L, g) <=> i \in Accepted(L) /\ L[i].trial.gen = g
    BY DEF OfGeneration
  <2>3. \A i \in Accepted(L) : M[i] = L[i]
    BY <1>1 DEF Accepted
  <2> QED BY <1>1, <1>2, <2>1, <2>2, <2>3
<1> QED BY <1>2, <1>3, <1>4 DEF M, n

\* The three counts are numbers.
LEMMA CountsType ==
    ASSUME NEW L \in Seq(Decision)
    PROVE  /\ IsFiniteSet(Accepted(L)) /\ Cardinality(Accepted(L)) \in Nat
           /\ \A f : IsFiniteSet(OfFamily(L, f)) /\ Cardinality(OfFamily(L, f)) \in Nat
           /\ \A g : IsFiniteSet(OfGeneration(L, g)) /\ Cardinality(OfGeneration(L, g)) \in Nat
<1>1. IsFiniteSet(1..Len(L))
  <2>1. 1 \in Int /\ Len(L) \in Int
    OBVIOUS
  <2> QED BY <2>1, FS_Interval, Zenon
<1>2. DOMAIN L = 1..Len(L)
  OBVIOUS
<1>3. /\ Accepted(L) \in SUBSET (1..Len(L))
      /\ \A f : OfFamily(L, f) \in SUBSET (1..Len(L))
      /\ \A g : OfGeneration(L, g) \in SUBSET (1..Len(L))
  BY <1>2 DEF Accepted, OfFamily, OfGeneration
<1> QED BY <1>1, <1>3, FS_Subset, FS_CardinalityType

\* A decision within the limits keeps them.
LEMMA BudgetAppend ==
    ASSUME NEW L \in Seq(Decision), NEW d \in Decision, NEW k \in Nat,
           Cardinality(Accepted(L)) <= MaxTotalTrials,
           \A f \in Families : Cardinality(OfFamily(L, f)) <= MaxFamilyTrials,
           \A g \in Nat : Cardinality(OfGeneration(L, g)) <= TrialsPerGeneration,
           Cardinality(OfGeneration(L, d.trial.gen)) <= k,
           d.accepted => k < TrialsPerGeneration /\ WithinBudget(L, d.trial)
    PROVE  LET M == Append(L, d)
           IN  /\ Cardinality(Accepted(M)) <= MaxTotalTrials
               /\ \A f \in Families : Cardinality(OfFamily(M, f)) <= MaxFamilyTrials
               /\ \A g \in Nat : Cardinality(OfGeneration(M, g)) <= TrialsPerGeneration
               /\ Cardinality(OfGeneration(M, d.trial.gen)) <= (IF d.accepted THEN k + 1 ELSE k)
<1> DEFINE M == Append(L, d)
           n == Len(L) + 1
<1>1. /\ Accepted(M) = (IF d.accepted THEN Accepted(L) \cup {n} ELSE Accepted(L))
      /\ \A f : OfFamily(M, f) = (IF d.accepted /\ d.trial.family = f
                                  THEN OfFamily(L, f) \cup {n} ELSE OfFamily(L, f))
      /\ \A g : OfGeneration(M, g) = (IF d.accepted /\ d.trial.gen = g
                                      THEN OfGeneration(L, g) \cup {n} ELSE OfGeneration(L, g))
  BY AcceptedAppend, Zenon
<1>2. n \notin Accepted(L)
  BY DEF Accepted
<1>3. (\A f : n \notin OfFamily(L, f)) /\ \A g : n \notin OfGeneration(L, g)
  BY <1>2 DEF OfFamily, OfGeneration
<1> HIDE DEF M, n
<1>4. \A X : IsFiniteSet(X) /\ n \notin X => Cardinality(X \cup {n}) = Cardinality(X) + 1
  BY FS_AddElement
<1>5. TrialsPerGeneration \in Nat /\ MaxTotalTrials \in Nat /\ MaxFamilyTrials \in Nat
  BY CampaignAssumption
<1>6. Cardinality(Accepted(M)) <= MaxTotalTrials
  <2>1. CASE d.accepted
    <3>1. Cardinality(Accepted(M)) = Cardinality(Accepted(L)) + 1
      BY <1>1, <1>2, <1>4, <2>1, CountsType
    <3>2. Cardinality(Accepted(L)) < MaxTotalTrials /\ Cardinality(Accepted(L)) \in Nat
      BY <2>1, CountsType DEF WithinBudget
    <3> QED BY <1>5, <3>1, <3>2
  <2> QED BY <1>1, <2>1
<1>7. ASSUME NEW f \in Families PROVE Cardinality(OfFamily(M, f)) <= MaxFamilyTrials
  <2>1. CASE d.accepted /\ d.trial.family = f
    <3>1. Cardinality(OfFamily(M, f)) = Cardinality(OfFamily(L, f)) + 1
      BY <1>1, <1>3, <1>4, <2>1, CountsType
    <3>2. Cardinality(OfFamily(L, f)) < MaxFamilyTrials /\ Cardinality(OfFamily(L, f)) \in Nat
      BY <2>1, CountsType DEF WithinBudget
    <3> QED BY <1>5, <3>1, <3>2
  <2>2. CASE ~(d.accepted /\ d.trial.family = f)
    <3>1. OfFamily(M, f) = OfFamily(L, f)
      BY <1>1, <2>2
    <3> QED BY <3>1
  <2> QED BY <2>1, <2>2
<1>8. d.accepted => /\ Cardinality(OfGeneration(M, d.trial.gen)) = Cardinality(OfGeneration(L, d.trial.gen)) + 1
                    /\ Cardinality(OfGeneration(L, d.trial.gen)) \in Nat
  BY <1>1, <1>3, <1>4, CountsType
<1>9. ~ d.accepted => OfGeneration(M, d.trial.gen) = OfGeneration(L, d.trial.gen)
  BY <1>1
<1> DEFINE c == Cardinality(OfGeneration(L, d.trial.gen))
           c1 == Cardinality(OfGeneration(M, d.trial.gen))
<1>10. /\ d.accepted => c1 = c + 1 /\ c \in Nat
       /\ ~ d.accepted => c1 = c
       /\ c <= k
  BY <1>8, <1>9
<1> HIDE DEF c, c1
<1>11. c1 <= (IF d.accepted THEN k + 1 ELSE k)
  BY <1>10
<1>12. d.accepted => c1 <= TrialsPerGeneration
  BY <1>5, <1>10
<1>13. ASSUME NEW g \in Nat PROVE Cardinality(OfGeneration(M, g)) <= TrialsPerGeneration
  <2>1. CASE d.accepted /\ d.trial.gen = g
    BY <1>12, <2>1 DEF c1
  <2>2. CASE ~(d.accepted /\ d.trial.gen = g)
    <3>1. OfGeneration(M, g) = OfGeneration(L, g)
      BY <1>1, <2>2
    <3> QED BY <3>1
  <2> QED BY <2>1, <2>2
<1> QED BY <1>6, <1>7, <1>11, <1>13 DEF M, c1

\* As many trials as there are decisions: a set of trials, each of which some
\* position of P accepted, is no larger than P.
LEMMA NoMoreThan ==
    ASSUME NEW L, NEW P, IsFiniteSet(P), NEW X, \A t \in X : \E i \in P : L[i].trial = t
    PROVE  Cardinality(X) <= Cardinality(P) /\ Cardinality(X) \in Nat
<1> DEFINE h == [i \in P |-> L[i].trial]
           Y == {h[i] : i \in P}
<1>1. h \in Surjection(P, Y)
  BY DEF Surjection
<1>2. IsFiniteSet(Y) /\ Cardinality(Y) <= Cardinality(P)
  BY <1>1, FS_Surjection
<1>3. X \in SUBSET Y
  OBVIOUS
<1>4. IsFiniteSet(X) /\ Cardinality(X) <= Cardinality(Y)
  BY <1>2, <1>3, FS_Subset
<1>5. Cardinality(X) \in Nat /\ Cardinality(Y) \in Nat /\ Cardinality(P) \in Nat
  BY <1>2, <1>4, FS_CardinalityType
<1> HIDE DEF Y
<1> QED BY <1>2, <1>4, <1>5

\* What was run is no more than what the ledger accepted.
LEMMA RunsWithin ==
    ASSUME NEW L \in Seq(Decision), NEW X,
           \A t \in X : [trial |-> t, accepted |-> TRUE] \in ToSet(L)
    PROVE  /\ Cardinality(X) <= Cardinality(Accepted(L)) /\ Cardinality(X) \in Nat
           /\ \A f : LET c == Cardinality({t \in X : t.family = f})
                    IN  c <= Cardinality(OfFamily(L, f)) /\ c \in Nat
           /\ \A g : LET c == Cardinality({t \in X : t.gen = g})
                    IN  c <= Cardinality(OfGeneration(L, g)) /\ c \in Nat
<1>1. \A t \in X : \E i \in Accepted(L) : L[i].trial = t
  <2> SUFFICES ASSUME NEW t \in X PROVE \E i \in Accepted(L) : L[i].trial = t
    OBVIOUS
  <2>1. PICK i \in DOMAIN L : L[i] = [trial |-> t, accepted |-> TRUE]
    BY DEF ToSet
  <2>2. L[i].trial = t /\ L[i].accepted = TRUE
    BY <2>1
  <2> QED BY <2>2 DEF Accepted
<1>2. Cardinality(X) <= Cardinality(Accepted(L)) /\ Cardinality(X) \in Nat
  BY <1>1, NoMoreThan, CountsType
<1>3. ASSUME NEW f 
      PROVE  LET c == Cardinality({t \in X : t.family = f})
             IN  c <= Cardinality(OfFamily(L, f)) /\ c \in Nat
  <2> DEFINE Z == {t \in X : t.family = f}
  <2>1. \A t \in Z : \E i \in OfFamily(L, f) : L[i].trial = t
    BY <1>1 DEF OfFamily
  <2> HIDE DEF Z
  <2>2. Cardinality(Z) <= Cardinality(OfFamily(L, f)) /\ Cardinality(Z) \in Nat
    BY <2>1, NoMoreThan, CountsType
  <2> QED BY <2>2 DEF Z
<1>4. ASSUME NEW g 
      PROVE  LET c == Cardinality({t \in X : t.gen = g})
             IN  c <= Cardinality(OfGeneration(L, g)) /\ c \in Nat
  <2> DEFINE Z == {t \in X : t.gen = g}
  <2>1. \A t \in Z : \E i \in OfGeneration(L, g) : L[i].trial = t
    BY <1>1 DEF OfGeneration
  <2> HIDE DEF Z
  <2>2. Cardinality(Z) <= Cardinality(OfGeneration(L, g)) /\ Cardinality(Z) \in Nat
    BY <2>1, NoMoreThan, CountsType
  <2> QED BY <2>2 DEF Z
<1> QED BY <1>2, <1>3, <1>4

\* What is on disk is within the limits.
LEMMA WithinLimits == CampaignInv => BudgetHolds
<1> SUFFICES ASSUME CampaignInv, pc \notin {"idle", "deleting"} PROVE BudgetHolds
  BY DEF CampaignInv, Recorded, BudgetInv
<1>0. pc \notin {"idle", "deleting"}
  OBVIOUS
<1> DEFINE X == DOMAIN metrics
           L == files.ledger
<1>1. L \in Seq(Decision) /\ \A t \in X : [trial |-> t, accepted |-> TRUE] \in ToSet(L)
  BY <1>0 DEF CampaignInv, Recorded, Shapes, RanInv
<1>2. /\ Cardinality(Accepted(L)) <= MaxTotalTrials
      /\ \A f \in Families : Cardinality(OfFamily(L, f)) <= MaxFamilyTrials
      /\ \A g \in Nat : Cardinality(OfGeneration(L, g)) <= TrialsPerGeneration
  BY <1>0 DEF CampaignInv, Recorded, BudgetInv
<1> HIDE DEF X, L
<1>3. /\ Cardinality(X) <= Cardinality(Accepted(L)) /\ Cardinality(X) \in Nat
      /\ \A f : LET c == Cardinality({t \in X : t.family = f})
               IN  c <= Cardinality(OfFamily(L, f)) /\ c \in Nat
      /\ \A g : LET c == Cardinality({t \in X : t.gen = g})
               IN  c <= Cardinality(OfGeneration(L, g)) /\ c \in Nat
  BY <1>1, RunsWithin
<1>4. /\ Cardinality(Accepted(L)) \in Nat
      /\ \A f : Cardinality(OfFamily(L, f)) \in Nat
      /\ \A g : Cardinality(OfGeneration(L, g)) \in Nat
  BY <1>1, CountsType
<1>6. MaxTotalTrials \in Nat /\ MaxFamilyTrials \in Nat /\ TrialsPerGeneration \in Nat
  BY CampaignAssumption
<1>7. \A a, b, c \in Nat : a <= b /\ b <= c => a <= c
  OBVIOUS
<1>8. Cardinality(X) <= MaxTotalTrials
  BY <1>2, <1>3, <1>4, <1>6
<1>9. ASSUME NEW f \in Families PROVE Cardinality({t \in X : t.family = f}) <= MaxFamilyTrials
  BY <1>2, <1>3, <1>4, <1>6, <1>7
<1>10. ASSUME NEW g \in Generations PROVE Cardinality({t \in X : t.gen = g}) <= TrialsPerGeneration
  <2>1. g \in Nat
    BY CampaignAssumption DEF Generations
  <2> QED BY <1>2, <1>3, <1>4, <1>6, <1>7, <2>1
<1> QED BY <1>8, <1>9, <1>10 DEF BudgetHolds, X

\* Every cell of the table is a family's.
LEMMA CellFamily ==
    ASSUME NEW cell \in Nat \ {0}, NEW p, p.best \in Families \cup {None}
    PROVE  FamilyOf(cell, p) \in Families
<1> DEFINE k == 1 + ((cell - 1) % NumFamilies)
<1>1. NumFamilies \in Nat \ {0}
  BY CampaignAssumption
<1>2. k \in 1..NumFamilies
  BY <1>1
<1>3. FamilyOf(cell, p) = OrderedFamily(k, p)
  BY DEF FamilyOf
<1> HIDE DEF k
<1>4. CASE p.best = None
  BY <1>2, <1>3, <1>4 DEF OrderedFamily, Families
<1>5. CASE p.best # None
  <2>1. p.best \in 1..NumFamilies
    BY <1>5 DEF Families
  <2> QED BY <1>1, <1>2, <1>3, <1>5, <2>1 DEF OrderedFamily, Families
<1> QED BY <1>4, <1>5

-----------------------------------------------------------------------------
(* The steps *)

\* The cell Min takes from the table is one of its cells.
LEMMA LeastNumber ==
    ASSUME NEW S, S \subseteq Nat, S # {}
    PROVE  Min(S) \in S
<1> DEFINE R == OpToRel(<, Nat)
<1>1. IsWellFoundedOn(R, Nat)
  BY NatLessThanWellFounded
<1>2. \E n \in S : \A m \in S : ~(<<m, n>> \in R)
  <2> HIDE DEF R
  <2> QED BY <1>1, WFMin
<1>3. PICK n \in S : \A m \in S : ~(<<m, n>> \in R)
  BY <1>2
<1>4. ASSUME NEW m \in S PROVE n =< m
  <2>1. ~(m < n) /\ m \in Nat /\ n \in Nat
    BY <1>3 DEF OpToRel
  <2> QED BY <2>1
<1>5. \E x \in S : \A y \in S : x =< y
  BY <1>4
<1> QED BY <1>5 DEF Min

\* An empty campaign meets the invariant.
LEMMA BlankInv == Blank => Recorded
<1> SUFFICES ASSUME Blank PROVE Recorded
  OBVIOUS
<1> USE DEF Blank, Fresh
<1>1. \A S : <<>> \in Seq(S)
  OBVIOUS
<1>2. ToSet(<<>>) = {} /\ DOMAIN <<>> = {} /\ Len(<<>>) = 0
  BY DEF ToSet
<1>3. Shapes
  BY <1>1 DEF Shapes, NoProposal
<1>4. AccountInv
  BY <1>2 DEF AccountInv, Keyed, Placed
<1>5. RanInv
  BY DEF RanInv
<1>6. Accepted(<<>>) = {} /\ (\A f : OfFamily(<<>>, f) = {}) /\ \A g : OfGeneration(<<>>, g) = {}
  BY <1>2 DEF Accepted, OfFamily, OfGeneration
<1>7. BudgetInv
  <2>1. Cardinality({}) = 0
    BY FS_EmptySet
  <2>2. 0 <= MaxTotalTrials /\ 0 <= MaxFamilyTrials /\ 0 <= TrialsPerGeneration
    BY CampaignAssumption
  <2>3. /\ Cardinality(Accepted(<<>>)) = 0 /\ (\A f : Cardinality(OfFamily(<<>>, f)) = 0)
        /\ \A g : Cardinality(OfGeneration(<<>>, g)) = 0
    BY <1>6, <2>1
  <2>4. files.ledger = <<>> /\ Len(mem.trials) = 0 /\ 0 <= 0
    BY <1>2
  <2>5. BudgetHolds
    <3>1. DOMAIN metrics = {}
      OBVIOUS
    <3>2. /\ Cardinality(DOMAIN metrics) = 0
          /\ \A f : {t \in DOMAIN metrics : t.family = f} = {}
          /\ \A g : {t \in DOMAIN metrics : t.gen = g} = {}
      BY <2>1, <3>1
    <3> QED BY <2>1, <2>2, <3>2 DEF BudgetHolds
  <2> QED BY <2>2, <2>3, <2>4, <2>5 DEF BudgetInv
<1>8. EvidenceInv
  BY <1>2 DEF EvidenceInv
<1>9. PromotedInv
  BY <1>2 DEF PromotedInv, InOrder, Promoted
<1>10. ReleaseInv
  BY DEF ReleaseInv
<1> QED BY <1>3, <1>4, <1>5, <1>7, <1>8, <1>9, <1>10 DEF Recorded

\* What is recorded is kept by a step that does not touch it.
LEMMA QuietInv ==
    CampaignInv /\ Quiet => AccountInv' /\ RanInv' /\ BudgetInv' /\ EvidenceInv' /\ PromotedInv'
<1> SUFFICES ASSUME CampaignInv, Quiet PROVE AccountInv' /\ RanInv' /\ BudgetInv' /\ EvidenceInv' /\ PromotedInv'
  OBVIOUS
<1> USE DEF CampaignInv, Recorded, Quiet
<1>1. AccountInv'
  <2>1. CASE pc' \in {"idle", "deleting"}
    BY <2>1 DEF AccountInv
  <2>2. CASE pc' \notin {"idle", "deleting"}
    <3>1. /\ pc \notin {"idle", "deleting"} /\ mem'.gen = mem.gen
          /\ mem'.trials = mem.trials /\ mem'.refused = mem.refused
          /\ mem'.fresh = mem.fresh /\ (pc' \in {"select", "landscape"} => pc' = pc)
          /\ (pc' \notin {"trials", "experiment", "select", "landscape"}
                => pc \notin {"trials", "experiment", "select", "landscape"})
      BY <2>2
    <3>2. UNCHANGED <<files.ledger, files.landscape, metrics>>
      OBVIOUS
    <3> QED BY <3>1, <3>2 DEF AccountInv
  <2> QED BY <2>1, <2>2
<1>2. RanInv'
  BY DEF RanInv
<1>3. BudgetInv'
  <2>1. BudgetHolds'
    BY WithinLimits DEF BudgetHolds
  <2> QED BY <2>1 DEF BudgetInv
<1>4. EvidenceInv'
  BY DEF EvidenceInv
<1>5. PromotedInv'
  BY DEF PromotedInv
<1> QED BY <1>1, <1>2, <1>3, <1>4, <1>5

\* A new engine finds what was left.
LEMMA StartInv ==
    ASSUME NEW cmd, NEW max, NEW req, NEW approval, CampaignInv, Fields', max # 0, pc = "idle",
           StartEngine(cmd, max, req, approval), data' = data, oracle' = oracle
    PROVE  CampaignInv'
<1>1. UNCHANGED <<files, metrics>> /\ pc' = "deleting"
  BY DEF StartEngine
<1>2. Fresh' /\ mem'.max = max
  BY DEF StartEngine, Fresh, Idle
<1>3. NoProposal.best = None /\ \A S : <<>> \in Seq(S)
  BY DEF NoProposal
<1>4. Shapes'
  BY <1>1, <1>2, <1>3 DEF CampaignInv, Recorded, Shapes, Fresh
<1>5. BudgetInv'
  <2>1. BudgetHolds'
    BY <1>1, WithinLimits DEF BudgetHolds
  <2> QED BY <1>1, <2>1 DEF BudgetInv
<1>6. EvidenceInv'
  BY <1>1 DEF CampaignInv, Recorded, EvidenceInv
<1>7. ReleaseInv'
  BY <1>1, <1>2 DEF CampaignInv, Recorded, ReleaseInv, Whole
<1> QED BY <1>1, <1>4, <1>5, <1>6, <1>7 DEF CampaignInv, Recorded, AccountInv, RanInv, PromotedInv

\* The root is deleted file by file.
LEMMA DeleteInv ==
    ASSUME NEW group, CampaignInv, Fields', Delete(group)
    PROVE  CampaignInv'
<1>1. /\ files' = [f \in DOMAIN files |-> IF f \in group THEN EmptyRoot[f] ELSE files[f]]
      /\ pc = "deleting" /\ UNCHANGED <<pc, mem, data, oracle>>
      /\ metrics' = metrics \/ metrics' = [t \in {} |-> 1]
  BY DEF Delete
<1>2. /\ files'.ledger = files.ledger \/ files'.ledger = <<>>
      /\ files'.landscape = files.landscape \/ files'.landscape = <<>>
      /\ files'.selected = files.selected \/ files'.selected = <<>>
      /\ files'.proposal = files.proposal \/ files'.proposal = NoProposal
      /\ files'.graph = files.graph \/ files'.graph = FALSE
  BY <1>1 DEF CampaignInv, Fields, FileFields, EmptyRoot
<1>3. ToSet(<<>>) = {} /\ \A S : <<>> \in Seq(S)
  BY DEF ToSet
<1>4. metrics' \in [DOMAIN metrics' -> {1, 2}]
  BY <1>1 DEF CampaignInv, Recorded, Shapes
<1>5. Shapes'
  BY <1>1, <1>2, <1>3, <1>4 DEF CampaignInv, Recorded, Shapes
<1>6. BudgetInv'
  <2>1. CASE metrics' = metrics
    BY <1>1, <2>1, WithinLimits DEF BudgetInv, BudgetHolds
  <2>2. CASE metrics' = [t \in {} |-> 1]
    <3>1. DOMAIN metrics' = {}
      BY <2>2
    <3>2. Cardinality({}) = 0 /\ 0 <= MaxTotalTrials /\ 0 <= MaxFamilyTrials /\ 0 <= TrialsPerGeneration
      BY FS_EmptySet, CampaignAssumption
    <3>3. /\ \A f : {t \in DOMAIN metrics' : t.family = f} = {}
          /\ \A g : {t \in DOMAIN metrics' : t.gen = g} = {}
      BY <3>1
    <3>4. BudgetHolds'
      BY <3>1, <3>2, <3>3 DEF BudgetHolds
    <3> QED BY <1>1, <3>4 DEF BudgetInv
  <2> QED BY <1>1, <2>1, <2>2
<1>7. EvidenceInv'
  <2>1. \A x \in ToSet(files'.landscape) : x \in ToSet(files.landscape)
    BY <1>2, <1>3
  <2>2. \A t \in DOMAIN metrics' : t \in DOMAIN metrics /\ metrics'[t] = metrics[t]
    BY <1>1
  <2> QED BY <1>1, <2>1, <2>2 DEF CampaignInv, Recorded, EvidenceInv
<1>8. ReleaseInv'
  <2>1. CASE files'.graph # FALSE /\ files'.selected # <<>> /\ files'.proposal # NoProposal
             /\ files'.landscape # <<>>
    <3>1. files'.selected = files.selected /\ files'.proposal = files.proposal
          /\ files'.landscape = files.landscape /\ files'.graph = files.graph
      BY <1>2, <2>1
    <3>2. files.graph => Whole(files.selected, files.proposal)
      BY <2>1, <3>1 DEF CampaignInv, Recorded, ReleaseInv
    <3>3. files.graph => Whole(files.selected, files.proposal)'
      BY <1>2, <3>1, <3>2 DEF Whole
    <3> QED BY <1>1, <3>1, <3>3 DEF CampaignInv, Recorded, ReleaseInv, Fresh
  <2>2. CASE ~(files'.graph # FALSE /\ files'.selected # <<>> /\ files'.proposal # NoProposal
               /\ files'.landscape # <<>>)
    BY <1>1, <2>2 DEF CampaignInv, Recorded, ReleaseInv, Fresh
  <2> QED BY <2>1, <2>2
<1> QED BY <1>1, <1>5, <1>6, <1>7, <1>8 DEF CampaignInv, Recorded, AccountInv, RanInv, PromotedInv

\* Once nothing is left, the engine starts from nothing.
LEMMA MakeInv ==
    ASSUME CampaignInv, Fields', MakeRoot PROVE CampaignInv'
<1>1. /\ files = EmptyRoot /\ DOMAIN metrics = {} /\ pc = "deleting" /\ pc' = "generation"
      /\ UNCHANGED <<files, metrics, mem, data, oracle>>
  BY DEF MakeRoot, RootGone
<1>2. metrics' \in [{} -> {1, 2}]
  BY <1>1 DEF CampaignInv, Recorded, Shapes
<1>3. Fresh' /\ mem'.max # 0
  BY <1>1 DEF CampaignInv, Recorded, ReleaseInv, Fresh
<1>4. data' \in Nat /\ \A e \in oracle' : Verdicts(e.outcome, e.input.trials)
  BY <1>1 DEF CampaignInv, Recorded, Shapes
<1>5. Blank'
  BY <1>1, <1>2, <1>3, <1>4 DEF Blank, EmptyRoot
<1>6. Recorded'
  BY <1>5, BlankInv, PTL
<1> QED BY <1>6 DEF CampaignInv

\* The engine ends, by finishing or by dying, and leaves what it wrote.
LEMMA EndInv ==
    ASSUME CampaignInv, Fields', pc' = "idle", mem' = Idle, data' = data, oracle' = oracle, metrics' = metrics,
           files'.ledger = files.ledger, files'.landscape = files.landscape,
           files'.selected = files.selected, files'.proposal = files.proposal, files'.graph = files.graph
    PROVE  CampaignInv'
<1>1. Quiet
  BY DEF Quiet
<1>2. Shapes'
  <2>1. /\ mem'.gen = 0 /\ mem'.next = NoProposal /\ mem'.todo = {} /\ mem'.trials = <<>>
        /\ mem'.refused = <<>> /\ mem'.fresh = <<>> /\ mem'.selected = <<>>
    BY DEF Idle
  <2>2. NoProposal.best = None /\ \A S : <<>> \in Seq(S)
    BY DEF NoProposal
  <2> QED BY <2>1, <2>2 DEF CampaignInv, Recorded, Shapes
<1>3. ReleaseInv'
  BY DEF CampaignInv, Recorded, ReleaseInv, Whole, Fresh
<1> QED BY <1>1, <1>2, <1>3, QuietInv DEF CampaignInv, Recorded

\* A command beside the engine, which changes the campaign state file, the
\* operator's notes or the data.
LEMMA BesideInv ==
    ASSUME CampaignInv, Fields', pc' = pc, mem' = mem, data' \in Nat, oracle' \subseteq oracle, metrics' = metrics,
           files'.ledger = files.ledger, files'.landscape = files.landscape,
           files'.selected = files.selected, files'.proposal = files.proposal, files'.graph = files.graph
    PROVE  CampaignInv'
<1>1. Quiet
  BY DEF Quiet
<1>2. Shapes'
  BY DEF CampaignInv, Recorded, Shapes
<1>3. ReleaseInv'
  BY DEF CampaignInv, Recorded, ReleaseInv, Whole, Fresh
<1> QED BY <1>1, <1>2, <1>3, QuietInv DEF CampaignInv, Recorded

\* One trial is decided.
LEMMA RequestInv ==
    ASSUME CampaignInv, Fields', RequestTrial PROVE CampaignInv'
<1> DEFINE cell == Min(mem.todo)
           trial == [gen |-> mem.gen, ordinal |-> Len(mem.trials) + Len(mem.refused) + 1,
                     family |-> FamilyOf(cell, mem.next)]
           accept == Len(mem.trials) < TrialsPerGeneration /\ WithinBudget(files.ledger, trial)
<1>1. /\ pc = "trials" /\ mem.todo # {}
      /\ files' = [files EXCEPT !.ledger = Append(files.ledger, [trial |-> trial, accepted |-> accept])]
      /\ mem' = [mem EXCEPT !.todo = mem.todo \ {cell},
                            !.trials = IF accept THEN Append(mem.trials, trial) ELSE mem.trials,
                            !.refused = IF accept THEN mem.refused ELSE Append(mem.refused, trial)]
      /\ pc' \in {"experiment", "trials"}
      /\ UNCHANGED <<metrics, data, oracle>>
  BY DEF RequestTrial, CampaignInv, Fields, FileFields, MemFields, EmptyRoot, Idle
<1>2. PICK a \in BOOLEAN : a = accept
  OBVIOUS
<1>3. PICK t : t = trial
  OBVIOUS
<1>4. cell \in Nat \ {0}
  BY <1>1, LeastNumber DEF CampaignInv, Recorded, Shapes
<1>5. /\ files.ledger \in Seq(Decision) /\ files.landscape \in Seq(LandscapePoint)
      /\ mem.gen \in Nat /\ mem.trials \in Seq(Trial) /\ mem.refused \in Seq(Trial)
      /\ Len(mem.trials) \in Nat /\ Len(mem.refused) \in Nat
  BY DEF CampaignInv, Recorded, Shapes
<1>p. PICK p \in Nat : p = Len(mem.trials)
  BY <1>5
<1>q. PICK q \in Nat : q = Len(mem.refused)
  BY <1>5
<1>6. /\ t \in Trial /\ t.gen = mem.gen /\ t.ordinal = p + q + 1
  <2>1. FamilyOf(cell, mem.next) \in Families
    BY <1>4, CellFamily DEF CampaignInv, Recorded, Shapes
  <2>2. t = [gen |-> mem.gen, ordinal |-> p + q + 1, family |-> FamilyOf(cell, mem.next)]
    BY <1>3, <1>p, <1>q
  <2>3. p + q + 1 \in Nat \ {0} /\ mem.gen \in Nat
    BY <1>5
  <2> HIDE DEF cell, trial
  <2> QED BY <2>1, <2>2, <2>3 DEF Trial
<1> DEFINE d == [trial |-> t, accepted |-> a]
           M == Append(files.ledger, d)
           T1 == IF a THEN Append(mem.trials, t) ELSE mem.trials
           R1 == IF a THEN mem.refused ELSE Append(mem.refused, t)
<1>7. /\ files' = [files EXCEPT !.ledger = M]
      /\ mem' = [mem EXCEPT !.todo = mem.todo \ {cell}, !.trials = T1, !.refused = R1]
  BY <1>1, <1>2, <1>3
<1>8. a => Len(mem.trials) < TrialsPerGeneration /\ WithinBudget(files.ledger, t)
  BY <1>2, <1>3
<1> HIDE DEF cell, trial, accept
<1>9. d \in Decision /\ d.trial = t /\ d.accepted = a /\ (a => d = [trial |-> t, accepted |-> TRUE])
  BY <1>6 DEF Decision
<1> HIDE DEF d
<1>10. T1 \in Seq(Trial) /\ R1 \in Seq(Trial) /\ M \in Seq(Decision)
       /\ Len(T1) + Len(R1) = p + q + 1 /\ Len(T1) = (IF a THEN p + 1 ELSE p)
  <2>1. /\ Append(mem.trials, t) \in Seq(Trial) /\ Append(mem.refused, t) \in Seq(Trial) /\ M \in Seq(Decision)
        /\ Len(Append(mem.trials, t)) = p + 1 /\ Len(Append(mem.refused, t)) = q + 1
    BY <1>5, <1>6, <1>9, <1>p, <1>q
  <2>2. CASE a = TRUE
    <3>1. T1 = Append(mem.trials, t) /\ R1 = mem.refused
      BY <2>2
    <3> HIDE DEF T1, R1, M
    <3>2. T1 \in Seq(Trial) /\ R1 \in Seq(Trial) /\ M \in Seq(Decision)
      BY <1>5, <2>1, <3>1
    <3>3. Len(T1) = p + 1 /\ Len(R1) = q
      BY <1>p, <1>q, <2>1, <3>1
    <3>4. Len(T1) + Len(R1) = p + q + 1
      BY <3>3
    <3> QED BY <2>2, <3>2, <3>3, <3>4
  <2>3. CASE a = FALSE
    <3>1. R1 = Append(mem.refused, t) /\ T1 = mem.trials
      BY <2>3
    <3> HIDE DEF T1, R1, M
    <3>2. T1 \in Seq(Trial) /\ R1 \in Seq(Trial) /\ M \in Seq(Decision)
      BY <1>5, <2>1, <3>1
    <3>3. Len(T1) = p /\ Len(R1) = q + 1
      BY <1>p, <1>q, <2>1, <3>1
    <3>4. Len(T1) + Len(R1) = p + q + 1
      BY <3>3
    <3> QED BY <2>3, <3>2, <3>3, <3>4
  <2> QED BY <2>2, <2>3
<1>11. Keyed(M, mem.gen, Len(T1) + Len(R1))
  <2>1. Keyed(files.ledger, mem.gen, p + q)
    BY <1>1, <1>p, <1>q DEF CampaignInv, Recorded, AccountInv
  <2>2. p + q \in Nat
    OBVIOUS
  <2>3. Keyed(M, mem.gen, p + q + 1)
    BY <1>5, <1>6, <1>9, <2>1, <2>2, KeyedAppend
  <2> QED BY <1>10, <2>3
<1>12. Placed(M, files.landscape, T1, R1, mem.gen)
  <2>1. Placed(files.ledger, files.landscape, mem.trials, mem.refused, mem.gen)
    BY <1>1 DEF CampaignInv, Recorded, AccountInv
  <2> QED BY <1>5, <1>6, <2>1, PlacedAppend DEF d
<1>13. ToSet(M) = ToSet(files.ledger) \cup {d}
  BY <1>5, <1>9, ToSetAppend
<1>14. /\ Cardinality(Accepted(M)) <= MaxTotalTrials
       /\ \A f \in Families : Cardinality(OfFamily(M, f)) <= MaxFamilyTrials
       /\ \A g \in Nat : Cardinality(OfGeneration(M, g)) <= TrialsPerGeneration
       /\ Cardinality(OfGeneration(M, mem.gen)) <= Len(T1)
  <2>1. /\ Cardinality(Accepted(files.ledger)) <= MaxTotalTrials
        /\ \A f \in Families : Cardinality(OfFamily(files.ledger, f)) <= MaxFamilyTrials
        /\ \A g \in Nat : Cardinality(OfGeneration(files.ledger, g)) <= TrialsPerGeneration
        /\ Cardinality(OfGeneration(files.ledger, d.trial.gen)) <= p
    BY <1>1, <1>6, <1>9, <1>p DEF CampaignInv, Recorded, BudgetInv
  <2>2. d.accepted => p < TrialsPerGeneration /\ WithinBudget(files.ledger, d.trial)
    BY <1>8, <1>9, <1>p
  <2>3. /\ Cardinality(Accepted(M)) <= MaxTotalTrials
        /\ \A f \in Families : Cardinality(OfFamily(M, f)) <= MaxFamilyTrials
        /\ \A g \in Nat : Cardinality(OfGeneration(M, g)) <= TrialsPerGeneration
        /\ Cardinality(OfGeneration(M, d.trial.gen)) <= (IF d.accepted THEN p + 1 ELSE p)
    BY <1>5, <1>9, <2>1, <2>2, BudgetAppend
  <2> QED BY <1>6, <1>9, <1>10, <2>3
<1> HIDE DEF M, T1, R1
<1>15. /\ files'.ledger = M /\ files'.landscape = files.landscape /\ files'.graph = files.graph
       /\ mem'.trials = T1 /\ mem'.refused = R1 /\ mem'.todo = mem.todo \ {cell}
       /\ mem'.gen = mem.gen /\ mem'.next = mem.next /\ mem'.fresh = mem.fresh /\ mem'.selected = mem.selected
       /\ mem'.max = mem.max
  BY <1>7 DEF CampaignInv, Fields, FileFields, MemFields, EmptyRoot, Idle
<1> DEFINE todo == mem.todo \ {cell}
<1>16. todo \subseteq mem.todo
  OBVIOUS
<1> HIDE DEF todo
<1>17. Shapes'
  <2>1. mem'.todo = todo
    BY <1>15 DEF todo
  <2> QED BY <1>1, <1>10, <1>15, <1>16, <2>1 DEF CampaignInv, Recorded, Shapes
<1>18. AccountInv'
  <2>1. \A e \in ToSet(M) : e.accepted /\ e.trial.gen < mem.gen => e.trial \in DOMAIN metrics
    <3>1. ~(d.trial.gen < mem.gen)
      BY <1>5, <1>6, <1>9
    <3> QED BY <1>1, <1>13, <3>1 DEF CampaignInv, Recorded, AccountInv
  <2> QED BY <1>1, <1>11, <1>12, <1>15, <2>1 DEF AccountInv
<1>19. RanInv'
  BY <1>1, <1>13, <1>15 DEF CampaignInv, Recorded, RanInv
<1>20. BudgetInv'
  BY <1>1, <1>14, <1>15 DEF BudgetInv
<1>21. EvidenceInv'
  BY <1>1, <1>15 DEF CampaignInv, Recorded, EvidenceInv
<1>22. PromotedInv'
  BY <1>1, <1>15 DEF CampaignInv, Recorded, PromotedInv
<1>23. ReleaseInv'
  BY <1>1, <1>15 DEF CampaignInv, Recorded, ReleaseInv
<1> QED BY <1>17, <1>18, <1>19, <1>20, <1>21, <1>22, <1>23 DEF CampaignInv, Recorded

\* The accepted trials are run, those that were run before keep their metrics.
LEMMA ExperimentInv ==
    ASSUME CampaignInv, Fields', RunExperiment PROVE CampaignInv'
<1> DEFINE seen == {x.family : x \in ToSet(files.landscape)}
                     \cup {t.family : t \in ToSet(mem.trials \o mem.refused)}
           input == [landscape |-> files.landscape, trials |-> mem.trials]
           known == {e.outcome : e \in {e \in oracle : e.input = input}}
<1>1. /\ pc = "experiment" /\ pc' = "select" /\ UNCHANGED <<files, data>>
      /\ metrics' = [t \in DOMAIN metrics \cup ToSet(mem.trials) |->
                        IF t \in DOMAIN metrics THEN metrics[t] ELSE 1]
  BY DEF RunExperiment
<1>2. PICK o \in IF known = {} THEN Outcomes(mem.trials, seen) ELSE known :
         oracle' = oracle \cup {[input |-> input, outcome |-> o]} /\ mem' = [mem EXCEPT !.outcome = o]
  BY DEF RunExperiment
<1>3. /\ files.landscape \in Seq(LandscapePoint) /\ mem.gen \in Nat
      /\ mem.trials \in Seq(Trial) /\ mem.refused \in Seq(Trial)
      /\ metrics \in [DOMAIN metrics -> {1, 2}]
      /\ \A e \in oracle : Verdicts(e.outcome, e.input.trials)
  BY DEF CampaignInv, Recorded, Shapes
<1>4. seen \subseteq Families
  <2>1. ToSet(mem.trials \o mem.refused) = ToSet(mem.trials) \cup ToSet(mem.refused)
    BY <1>3, ToSetConcat
  <2>2. /\ ToSet(files.landscape) \subseteq LandscapePoint
        /\ ToSet(mem.trials) \subseteq Trial /\ ToSet(mem.refused) \subseteq Trial
    BY <1>3, ToSetType
  <2>3. /\ \A x \in ToSet(files.landscape) : x.family \in Families
        /\ \A t \in ToSet(mem.trials \o mem.refused) : t.family \in Families
    BY <2>1, <2>2 DEF LandscapePoint, Trial
  <2> QED BY <2>3
<1>5. Verdicts(o, mem.trials)
  <2>1. CASE known = {}
    <3>1. o \in Outcomes(mem.trials, seen)
      BY <2>1
    <3> HIDE DEF seen
    <3>2. /\ o.top \in {0} \cup (1..Len(mem.trials)) /\ o.best \in seen
          /\ o.fate \in {"gauntlet", "promotion_packet", "selected"}
      BY <3>1 DEF Outcomes
    <3>3. o.top \in 0..Len(mem.trials)
      <4>1. Len(mem.trials) \in Nat
        BY <1>3
      <4> QED BY <3>2, <4>1
    <3> QED BY <1>4, <3>2, <3>3 DEF Verdicts
  <2>2. CASE known # {}
    <3>1. PICK e \in oracle : e.input = input /\ e.outcome = o
      BY <2>2
    <3>2. e.input.trials = mem.trials
      BY <3>1
    <3> QED BY <1>3, <3>1, <3>2
  <2> QED BY <2>1, <2>2
<1> DEFINE new == [input |-> input, outcome |-> o]
<1>6. new.input.trials = mem.trials /\ new.outcome = o /\ oracle' = oracle \cup {new}
  BY <1>2
<1> HIDE DEF seen, input, known, new
<1>7. /\ mem'.outcome = o /\ mem'.gen = mem.gen /\ mem'.next = mem.next /\ mem'.todo = mem.todo
      /\ mem'.trials = mem.trials /\ mem'.refused = mem.refused /\ mem'.fresh = mem.fresh
      /\ mem'.selected = mem.selected /\ mem'.max = mem.max
  BY <1>2 DEF CampaignInv, Fields, MemFields, Idle
<1>8. /\ DOMAIN metrics' = DOMAIN metrics \cup ToSet(mem.trials)
      /\ \A t \in DOMAIN metrics : metrics'[t] = metrics[t]
      /\ \A t \in ToSet(mem.trials) \ DOMAIN metrics : metrics'[t] = 1
      /\ metrics' \in [DOMAIN metrics' -> {1, 2}]
  BY <1>1, <1>3
<1>9. Shapes'
  BY <1>1, <1>5, <1>6, <1>7, <1>8 DEF CampaignInv, Recorded, Shapes
<1>10. /\ Keyed(files.ledger, mem.gen, Len(mem.trials) + Len(mem.refused))
       /\ Placed(files.ledger, files.landscape, mem.trials, mem.refused, mem.gen)
  BY <1>1 DEF CampaignInv, Recorded, AccountInv
<1>11. AccountInv'
  <2>1. ASSUME NEW d \in ToSet(files.ledger), d.accepted PROVE d.trial \in DOMAIN metrics'
    <3>1. files.ledger \in Seq(Decision) /\ ToSet(files.ledger) \subseteq Decision
      BY ToSetType DEF CampaignInv, Recorded, Shapes
    <3>2. d.trial.gen \in Nat /\ d.trial.gen <= mem.gen
      BY <1>10, <3>1 DEF Keyed, ToSet, Decision, Trial
    <3>3. CASE d.trial.gen < mem.gen
      BY <1>1, <1>8, <2>1, <3>3 DEF CampaignInv, Recorded, AccountInv
    <3>4. CASE d.trial.gen = mem.gen
      BY <1>8, <1>10, <2>1, <3>4 DEF Placed
    <3> QED BY <1>3, <3>2, <3>3, <3>4
  <2> QED BY <1>1, <1>7, <1>10, <2>1 DEF AccountInv
<1>12. RanInv'
  BY <1>1, <1>8, <1>10 DEF CampaignInv, Recorded, RanInv, Placed
<1>13. BudgetInv'
  BY <1>1, <1>7 DEF CampaignInv, Recorded, BudgetInv
<1>14. EvidenceInv'
  <2>1. ASSUME NEW x \in ToSet(files.landscape), NEW t \in DOMAIN metrics', t.gen = x.gen
        PROVE  metrics'[t] = 2
    <3>1. x.gen < mem.gen /\ x.gen \in Nat
      <4>1. x \in LandscapePoint
        BY <1>3, ToSetType
      <4> QED BY <1>10, <4>1 DEF Placed, LandscapePoint
    <3>2. t \notin ToSet(mem.trials)
      <4>1. \A u \in ToSet(mem.trials) : u.gen = mem.gen
        BY <1>10 DEF Placed
      <4>2. x.gen # mem.gen
        BY <1>3, <3>1
      <4> QED BY <2>1, <4>1, <4>2
    <3> QED BY <1>8, <2>1, <3>2 DEF CampaignInv, Recorded, EvidenceInv
  <2> QED BY <1>1, <2>1 DEF CampaignInv, Recorded, EvidenceInv
<1>15. PromotedInv'
  BY <1>1, <1>7 DEF CampaignInv, Recorded, PromotedInv
<1>16. ReleaseInv'
  BY <1>1, <1>7 DEF CampaignInv, Recorded, ReleaseInv
<1> QED BY <1>9, <1>11, <1>12, <1>13, <1>14, <1>15, <1>16 DEF CampaignInv, Recorded

\* The generation's candidates are selected, and at most one is promoted.
LEMMA SelectInv ==
    ASSUME CampaignInv, Fields', SelectCandidates PROVE CampaignInv'
<1> DEFINE m == [t \in DOMAIN metrics |-> 2]
           s == Selection(m, mem.trials, mem.outcome, mem.selected)
           F == s.selected \o s.rejected \o BudgetPoints(mem.refused)
<1>1. /\ pc = "select" /\ pc' = "landscape" /\ UNCHANGED <<files, data, oracle>>
      /\ metrics' = m
  BY DEF SelectCandidates
<1>2. PICK rej : mem' = [mem EXCEPT !.selected = mem.selected \o s.selected, !.rejected = rej, !.fresh = F]
  BY <1>1 DEF SelectCandidates, CampaignInv, Fields, MemFields, Idle
<1>3. /\ mem.gen \in Nat /\ mem.trials \in Seq(Trial) /\ mem.refused \in Seq(Trial) /\ data \in Nat
      /\ mem.selected \in Seq(LandscapePoint) /\ Verdicts(mem.outcome, mem.trials)
  BY <1>1 DEF CampaignInv, Recorded, Shapes
<1>4. /\ Placed(files.ledger, files.landscape, mem.trials, mem.refused, mem.gen)
      /\ \A d \in ToSet(files.ledger) : d.accepted => d.trial \in DOMAIN metrics
  BY <1>1 DEF CampaignInv, Recorded, AccountInv
<1>5. \A t \in ToSet(mem.trials) : t \in DOMAIN metrics /\ t.gen = mem.gen
  BY <1>4 DEF Placed
<1>6. \A t \in ToSet(mem.refused) : t.gen = mem.gen
  BY <1>4 DEF Placed
<1>7. \A t \in ToSet(mem.trials) : m[t] = 2
  BY <1>5
<1>8. DOMAIN m = DOMAIN metrics /\ (\A t \in DOMAIN m : m[t] = 2) /\ m \in [DOMAIN m -> {1, 2}]
  OBVIOUS
<1> HIDE DEF m
<1>9. /\ F \in Seq(LandscapePoint) /\ Covers(F, mem.trials, mem.refused, mem.gen)
      /\ s.selected \in Seq(LandscapePoint) /\ Len(s.selected) <= 1
      /\ ToSet(s.selected) = Promoted(F)
  <2>1. \A t \in ToSet(mem.trials) : t.gen = mem.gen
    BY <1>5
  <2>2. Selects(Selection(m, mem.trials, mem.outcome, mem.selected), mem.trials, mem.refused, mem.gen)
    BY <1>3, <1>6, <1>7, <2>1, SelectionCovers
  <2> QED BY <2>2 DEF Selects
<1> DEFINE A == s.selected
           B == mem.selected \o A
<1> HIDE DEF s, F
<1>10. A \in Seq(LandscapePoint) /\ Len(A) <= 1 /\ ToSet(A) = Promoted(F) /\ Len(A) \in Nat
  BY <1>9
<1>11. mem' = [mem EXCEPT !.selected = B, !.rejected = rej, !.fresh = F]
  BY <1>2
<1> HIDE DEF A
<1>12. B \in Seq(LandscapePoint) /\ ToSet(B) = ToSet(mem.selected) \cup ToSet(A)
  <2>1. ToSet(B) = ToSet(mem.selected) \cup ToSet(A)
    BY <1>3, <1>10, ToSetConcat
  <2> QED BY <1>3, <1>10, <2>1
<1>13. InOrder(mem.selected) /\ ToSet(mem.selected) = Promoted(files.landscape)
       /\ \A x \in ToSet(mem.selected) : x.gen < mem.gen
  BY <1>1 DEF CampaignInv, Recorded, PromotedInv
<1>14. InOrder(B)
  <2>1. /\ DOMAIN B = 1..(Len(mem.selected) + Len(A)) /\ DOMAIN mem.selected = 1..Len(mem.selected)
        /\ DOMAIN A = 1..Len(A) /\ Len(mem.selected) \in Nat
        /\ \A i \in 1..Len(mem.selected) : B[i] = mem.selected[i]
        /\ \A i \in 1..Len(A) : B[Len(mem.selected) + i] = A[i]
    BY <1>3, <1>10
  <2>2. \A i \in 1..Len(A) : A[i].gen = mem.gen
    BY <1>9, <1>10, <2>1 DEF Covers, Promoted, ToSet
  <2>3. \A i \in 1..Len(mem.selected) : mem.selected[i].gen < mem.gen
    BY <1>13, <2>1 DEF ToSet
  <2> SUFFICES ASSUME NEW i \in DOMAIN B, NEW j \in DOMAIN B, i < j PROVE B[i].gen < B[j].gen
    BY DEF InOrder
  <2>4. i \in 1..Len(mem.selected)
    BY <1>10, <2>1
  <2>5. CASE j \in 1..Len(mem.selected)
    BY <1>13, <2>1, <2>4, <2>5 DEF InOrder
  <2>6. CASE j \notin 1..Len(mem.selected)
    <3>1. 1 \in 1..Len(A) /\ j = Len(mem.selected) + 1
      BY <1>10, <2>1, <2>6
    <3>2. B[j].gen = mem.gen
      BY <2>1, <2>2, <3>1
    <3> QED BY <2>1, <2>3, <2>4, <3>2
  <2> QED BY <2>5, <2>6
<1> HIDE DEF B
<1>15. /\ mem'.gen = mem.gen /\ mem'.next = mem.next /\ mem'.todo = mem.todo
       /\ mem'.trials = mem.trials /\ mem'.refused = mem.refused /\ mem'.fresh = F
       /\ mem'.selected = B /\ mem'.max = mem.max /\ mem'.outcome = mem.outcome
  BY <1>11 DEF CampaignInv, Fields, MemFields, Idle
<1>16. Shapes'
  <2>1. mem.outcome.best \in Families
    BY <1>3 DEF Verdicts
  <2> QED BY <1>1, <1>8, <1>9, <1>12, <1>15, <2>1 DEF CampaignInv, Recorded, Shapes
<1>17. AccountInv'
  BY <1>1, <1>4, <1>8, <1>9, <1>15 DEF CampaignInv, Recorded, AccountInv
<1>18. RanInv'
  BY <1>1, <1>8 DEF CampaignInv, Recorded, RanInv
<1>19. BudgetInv'
  BY <1>1, <1>15 DEF CampaignInv, Recorded, BudgetInv
<1>20. EvidenceInv'
  BY <1>1, <1>8 DEF CampaignInv, Recorded, EvidenceInv
<1>21. PromotedInv'
  BY <1>1, <1>10, <1>12, <1>13, <1>14, <1>15 DEF PromotedInv
<1>22. ReleaseInv'
  BY <1>1, <1>15 DEF CampaignInv, Recorded, ReleaseInv
<1> QED BY <1>16, <1>17, <1>18, <1>19, <1>20, <1>21, <1>22 DEF CampaignInv, Recorded

\* The generation's points are appended to the landscape, and the next
\* generation is proposed from it.
LEMMA AppendInv ==
    ASSUME CampaignInv, Fields', AppendLandscape PROVE CampaignInv'
<1> DEFINE S == files.landscape \o mem.fresh
           n == NextProposal(mem.gen, S, mem.outcome.best)
<1>1. /\ pc = "landscape" /\ pc' = "generation" /\ UNCHANGED <<metrics, data, oracle>>
      /\ files' = [files EXCEPT !.landscape = S]
  BY DEF AppendLandscape
<1>2. mem' = [mem EXCEPT !.gen = mem.gen + 1, !.trials = <<>>, !.refused = <<>>,
                         !.fresh = <<>>, !.outcome = None, !.next = n]
  BY DEF AppendLandscape, CampaignInv, Fields, MemFields, Idle
<1>3. /\ mem.gen \in Nat /\ mem.trials \in Seq(Trial) /\ mem.refused \in Seq(Trial)
      /\ files.ledger \in Seq(Decision) /\ files.landscape \in Seq(LandscapePoint)
      /\ mem.fresh \in Seq(LandscapePoint) /\ mem.outcome.best \in Families
  BY <1>1 DEF CampaignInv, Recorded, Shapes
<1>4. n.gen = mem.gen + 1 /\ n.best = mem.outcome.best /\ n.analytics = Analytics(S)
  BY DEF NextProposal
<1>5. n # NoProposal
  <2>1. n.gen # 0
    BY <1>3, <1>4
  <2>2. NoProposal.gen = 0
    BY DEF NoProposal
  <2> QED BY <2>1, <2>2
<1>6. S \in Seq(LandscapePoint) /\ ToSet(S) = ToSet(files.landscape) \cup ToSet(mem.fresh)
  <2>1. ToSet(S) = ToSet(files.landscape) \cup ToSet(mem.fresh)
    BY <1>3, ToSetConcat
  <2> QED BY <1>3, <2>1
<1> HIDE DEF n
<1>7. /\ Keyed(files.ledger, mem.gen, Len(mem.trials) + Len(mem.refused))
      /\ Placed(files.ledger, files.landscape, mem.trials, mem.refused, mem.gen)
      /\ Covers(mem.fresh, mem.trials, mem.refused, mem.gen)
      /\ \A d \in ToSet(files.ledger) : d.accepted => d.trial \in DOMAIN metrics
  BY <1>1 DEF CampaignInv, Recorded, AccountInv
<1>8. PICK k \in Nat : k = Len(mem.trials) + Len(mem.refused)
  <2>1. PICK p \in Nat : p = Len(mem.trials)
    BY <1>3
  <2>2. PICK q \in Nat : q = Len(mem.refused)
    BY <1>3
  <2>3. p + q \in Nat
    OBVIOUS
  <2> QED BY <2>1, <2>2, <2>3
<1>9. Keyed(files.ledger, mem.gen, k)
  BY <1>7, <1>8
<1>10. Keyed(files.ledger, mem.gen + 1, 0)
  BY <1>3, <1>9, KeyedNext
<1>11. Placed(files.ledger, S, <<>>, <<>>, mem.gen + 1)
  BY <1>3, <1>7, <1>9, PlacedNext
<1> HIDE DEF S
<1>12. /\ files'.landscape = S /\ files'.ledger = files.ledger /\ files'.graph = files.graph
       /\ mem'.gen = mem.gen + 1 /\ mem'.trials = <<>> /\ mem'.refused = <<>> /\ mem'.fresh = <<>>
       /\ mem'.next = n /\ mem'.todo = mem.todo /\ mem'.selected = mem.selected /\ mem'.max = mem.max
  BY <1>1, <1>2 DEF CampaignInv, Fields, FileFields, MemFields, EmptyRoot, Idle
<1>13. Len(<<>>) = 0 /\ Len(<<>>) + Len(<<>>) = 0 /\ mem.gen + 1 \in Nat /\ \A X : <<>> \in Seq(X)
  BY <1>3
<1>14. Shapes'
  BY <1>1, <1>3, <1>4, <1>6, <1>12, <1>13 DEF CampaignInv, Recorded, Shapes
<1>15. AccountInv'
  BY <1>1, <1>7, <1>10, <1>11, <1>12, <1>13 DEF AccountInv
<1>16. RanInv'
  BY <1>1, <1>12 DEF CampaignInv, Recorded, RanInv
<1>17. OfGeneration(files.ledger, mem.gen + 1) = {}
  <2>1. \A i \in DOMAIN files.ledger : files.ledger[i].trial.gen # mem.gen + 1
    <3>1. \A i \in DOMAIN files.ledger : files.ledger[i] \in Decision
      BY <1>3
    <3>2. \A i \in DOMAIN files.ledger : files.ledger[i].trial.gen \in Nat /\ files.ledger[i].trial.gen <= mem.gen
      BY <1>9, <3>1 DEF Keyed, Decision, Trial
    <3> QED BY <1>3, <3>2
  <2> QED BY <2>1 DEF OfGeneration, Accepted
<1>18. BudgetInv'
  <2>1. Cardinality({}) = 0 /\ 0 <= 0
    BY FS_EmptySet
  <2>2. Cardinality(OfGeneration(files.ledger, mem.gen + 1)) <= Len(<<>>)
    BY <1>13, <1>17, <2>1
  <2> QED BY <1>1, <1>12, <2>2 DEF CampaignInv, Recorded, BudgetInv
<1>19. EvidenceInv'
  BY <1>1, <1>6, <1>7, <1>12 DEF CampaignInv, Recorded, EvidenceInv, Covers
<1>20. PromotedInv'
  <2>1. InOrder(mem.selected) /\ ToSet(mem.selected) = Promoted(files.landscape) \cup Promoted(mem.fresh)
    BY <1>1 DEF CampaignInv, Recorded, PromotedInv
  <2>2. ToSet(mem.selected) = Promoted(S)
    BY <1>6, <2>1 DEF Promoted
  <2>3. \A x \in ToSet(mem.selected) : x.gen < mem.gen + 1
    BY <1>11, <2>2 DEF Placed, Promoted
  <2> QED BY <1>1, <1>12, <2>1, <2>2, <2>3 DEF PromotedInv
<1>21. ReleaseInv'
  BY <1>1, <1>4, <1>5, <1>12 DEF CampaignInv, Recorded, ReleaseInv
<1> QED BY <1>14, <1>15, <1>16, <1>18, <1>19, <1>20, <1>21 DEF CampaignInv, Recorded

\* The head of the generation loop.
LEMMA BeginInv ==
    ASSUME CampaignInv, Fields', BeginGeneration PROVE CampaignInv'
<1>1. /\ pc = "generation" /\ pc' \in {"trials", "results"} /\ UNCHANGED <<files, metrics, data, oracle>>
      /\ pc' = "results" => mem.gen = mem.max \/ mem.gen > 0
  BY DEF BeginGeneration
<1>2. /\ mem'.gen = mem.gen /\ mem'.next = mem.next /\ mem'.trials = mem.trials /\ mem'.refused = mem.refused
      /\ mem'.fresh = mem.fresh /\ mem'.selected = mem.selected /\ mem'.max = mem.max
      /\ mem'.todo = mem.todo \/ mem'.todo = RoundRobin(mem.gen, mem.next)
  BY DEF BeginGeneration, CampaignInv, Fields, MemFields, Idle
<1>3. RoundRobin(mem.gen, mem.next) \subseteq Nat \ {0}
  BY CampaignAssumption DEF RoundRobin
<1>4. Quiet
  BY <1>1, <1>2 DEF Quiet
<1>5. Shapes'
  BY <1>1, <1>2, <1>3 DEF CampaignInv, Recorded, Shapes
<1>6. pc' = "results" => mem.gen > 0
  <2>1. mem.gen \in Nat /\ mem.max # 0
    BY <1>1 DEF CampaignInv, Recorded, Shapes, ReleaseInv
  <2> QED BY <1>1, <2>1
<1>7. ReleaseInv'
  BY <1>1, <1>2, <1>6 DEF CampaignInv, Recorded, ReleaseInv
<1> QED BY <1>4, <1>5, <1>7, QuietInv DEF CampaignInv, Recorded

\* The results are written, then the summary, then the graph, which is what
\* makes the campaign acceptable.
LEMMA WriteInv ==
    ASSUME CampaignInv, Fields', WriteResults \/ WriteSummary \/ WriteGraph PROVE CampaignInv'
<1>1. UNCHANGED <<metrics, mem, data, oracle>>
  BY DEF WriteResults, WriteSummary, WriteGraph
<1>2. Shapes' /\ Quiet /\ ReleaseInv'
  <2>1. CASE WriteResults
    <3>1. /\ pc = "results" /\ pc' = "summary"
          /\ files'.ledger = files.ledger /\ files'.landscape = files.landscape
          /\ files'.selected = mem.selected /\ files'.proposal = mem.next /\ files'.graph = files.graph
      BY <2>1 DEF WriteResults, CampaignInv, Fields, FileFields, EmptyRoot
    <3> QED BY <1>1, <3>1 DEF CampaignInv, Recorded, Shapes, Quiet, ReleaseInv
  <2>2. CASE WriteSummary
    <3>1. /\ pc = "summary" /\ pc' = "graph"
          /\ files'.ledger = files.ledger /\ files'.landscape = files.landscape
          /\ files'.selected = files.selected /\ files'.proposal = files.proposal /\ files'.graph = files.graph
      BY <2>2 DEF WriteSummary, CampaignInv, Fields, FileFields, EmptyRoot
    <3> QED BY <1>1, <3>1 DEF CampaignInv, Recorded, Shapes, Quiet, ReleaseInv
  <2>3. CASE WriteGraph
    <3>1. /\ pc = "graph" /\ pc' = "command"
          /\ files'.ledger = files.ledger /\ files'.landscape = files.landscape
          /\ files'.selected = files.selected /\ files'.proposal = files.proposal
      BY <2>3 DEF WriteGraph, CampaignInv, Fields, FileFields, EmptyRoot
    <3>2. Shapes' /\ Quiet
      BY <1>1, <3>1 DEF CampaignInv, Recorded, Shapes, Quiet
    <3>3. /\ files.selected = mem.selected /\ files.proposal = mem.next
          /\ mem.next.analytics = Analytics(files.landscape)
      BY <3>1 DEF CampaignInv, Recorded, ReleaseInv
    <3>4. Len(files.landscape) = Len(files.ledger)
      <4>1. Len(files.ledger) = Len(files.landscape) + Len(<<>>) + Len(<<>>)
        BY <3>1 DEF CampaignInv, Recorded, AccountInv, Placed
      <4>2. Len(files.landscape) \in Nat /\ Len(<<>>) = 0
        BY DEF CampaignInv, Recorded, Shapes
      <4> QED BY <4>1, <4>2
    <3>5. ToSet(mem.selected) = Promoted(files.landscape) /\ InOrder(mem.selected)
      BY <3>1 DEF CampaignInv, Recorded, PromotedInv
    <3>6. Whole(files.selected, files.proposal)'
      BY <3>1, <3>3, <3>4, <3>5 DEF Whole
    <3>7. ReleaseInv'
      BY <1>1, <3>1, <3>6 DEF CampaignInv, Recorded, ReleaseInv
    <3> QED BY <3>2, <3>7
  <2> QED BY <2>1, <2>2, <2>3
<1> QED BY <1>2, QuietInv DEF CampaignInv, Recorded

\* At the start nothing is recorded.
LEMMA InitCampaign == Init => CampaignInv
<1> SUFFICES ASSUME Init PROVE CampaignInv
  OBVIOUS
<1>1. Fields
  BY InitGate DEF GateInv
<1>2. Blank
  BY DEF Init, Blank, Fresh, EmptyRoot, Idle
<1> QED BY <1>1, <1>2, BlankInv DEF CampaignInv

\* Every step of the engine, the operator and the crashes keeps the account.
LEMMA NextCampaign == GateInv /\ CampaignInv /\ [Next]_vars => CampaignInv'
<1> SUFFICES ASSUME GateInv, CampaignInv, [Next]_vars PROVE CampaignInv'
  OBVIOUS
<1>0. Fields'
  BY NextGate DEF GateInv
<1>1. CASE UNCHANGED vars
  BY <1>0, <1>1, BesideInv DEF vars, CampaignInv, Recorded, Shapes
<1>2. ASSUME NEW mode \in {"manual", "none"}, Run(mode) PROVE CampaignInv'
  <2> DEFINE max == IF mode = "manual" THEN 1 ELSE MaxGenerations
  <2>1. max # 0
    BY CampaignAssumption
  <2>2. pc = "idle" /\ StartEngine(mode, max, MaxGenerations, NoProposal) /\ data' = data /\ oracle' = oracle
    BY <1>2 DEF Run
  <2> HIDE DEF max
  <2> QED BY <1>0, <2>1, <2>2, StartInv
<1>3. CASE Resume
  <2>1. files.state.gens # 0
    BY <1>3 DEF Resume
  <2>2. /\ pc = "idle" /\ StartEngine("resume", files.state.gens, files.state.gens, files.state.approval)
        /\ data' = data /\ oracle' = oracle
    BY <1>3 DEF Resume
  <2> QED BY <1>0, <2>1, <2>2, StartInv
<1>4. CASE FinishRun \/ FinishResume \/ EngineDies \/ PreselectionRaises
  <2>1. /\ pc' = "idle" /\ mem' = Idle /\ UNCHANGED <<metrics, data, oracle>>
        /\ files' = files \/ \E st : files' = [files EXCEPT !.state = st]
    BY <1>4 DEF FinishRun, FinishResume, EngineDies, PreselectionRaises
  <2>2. /\ files'.ledger = files.ledger /\ files'.landscape = files.landscape
        /\ files'.selected = files.selected /\ files'.proposal = files.proposal /\ files'.graph = files.graph
    BY <2>1 DEF CampaignInv, Fields, FileFields, EmptyRoot
  <2> QED BY <1>0, <2>1, <2>2, EndInv
<1>5. ASSUME Review \/ Stop \/ DataChanges
             \/ \E d \in {"approved", "rejected"}, p \in reviewed : Decide(d, p)
      PROVE  CampaignInv'
  <2>1. pc' = pc /\ mem' = mem /\ metrics' = metrics
    BY <1>5 DEF Review, Stop, DataChanges, Decide
  <2>2. data' \in Nat /\ oracle' \subseteq oracle
    <3>1. data \in Nat /\ data + 1 \in Nat
      BY DEF CampaignInv, Recorded, Shapes
    <3> QED BY <1>5, <3>1 DEF Review, Stop, DataChanges, Decide
  <2>3. files' = files \/ \E st : files' = [files EXCEPT !.state = st]
    BY <1>5 DEF Review, Stop, DataChanges, Decide
  <2>4. /\ files'.ledger = files.ledger /\ files'.landscape = files.landscape
        /\ files'.selected = files.selected /\ files'.proposal = files.proposal /\ files'.graph = files.graph
    BY <2>3 DEF CampaignInv, Fields, FileFields, EmptyRoot
  <2> QED BY <1>0, <2>1, <2>2, <2>4, BesideInv
<1> QED
  BY <1>0, <1>1, <1>2, <1>3, <1>4, <1>5, BeginInv, RequestInv, ExperimentInv, SelectInv, AppendInv, WriteInv,
     DeleteInv, MakeInv
     DEF Next

\* The account of the trials holds in every reachable state.
THEOREM CampaignInvariant == Spec => []CampaignInv
  BY InitCampaign, NextCampaign, GateInvariant, PTL DEF Spec

\* EveryTrialAccounted, for any families, budgets and outcomes: whenever the
\* engine is between generations or past the last one, every decision of the
\* ledger has its point in the landscape, and was run exactly if accepted.
THEOREM EveryTrialAccountedAlways == Spec => []EveryTrialAccounted
<1>1. CampaignInv => EveryTrialAccounted
  <2> SUFFICES ASSUME CampaignInv, pc \in {"generation", "results", "summary", "graph", "command"}
               PROVE  /\ Len(files.landscape) = Len(files.ledger)
                      /\ \A d \in ToSet(files.ledger) :
                            \E x \in ToSet(files.landscape) :
                                /\ x.gen = d.trial.gen /\ x.ordinal = d.trial.ordinal
                                /\ (x.stage = "trial_budget") = ~d.accepted
                                /\ d.accepted = (d.trial \in DOMAIN metrics)
    BY DEF EveryTrialAccounted
  <2>1. /\ Keyed(files.ledger, mem.gen, Len(mem.trials) + Len(mem.refused))
        /\ Placed(files.ledger, files.landscape, mem.trials, mem.refused, mem.gen)
        /\ mem.trials = <<>> /\ mem.refused = <<>>
        /\ \A d \in ToSet(files.ledger) : d.accepted /\ d.trial.gen < mem.gen => d.trial \in DOMAIN metrics
    BY DEF CampaignInv, Recorded, AccountInv
  <2>2. files.ledger \in Seq(Decision) /\ files.landscape \in Seq(LandscapePoint) /\ mem.gen \in Nat
    BY DEF CampaignInv, Recorded, Shapes
  <2>3. Len(files.landscape) = Len(files.ledger)
    <3>1. Len(files.ledger) = Len(files.landscape) + Len(<<>>) + Len(<<>>)
      BY <2>1 DEF Placed
    <3>2. Len(files.landscape) \in Nat /\ Len(<<>>) = 0
      BY <2>2
    <3> QED BY <3>1, <3>2
  <2>4. ASSUME NEW d \in ToSet(files.ledger)
        PROVE  /\ \E x \in ToSet(files.landscape) : Records(x, d)
               /\ d.accepted = (d.trial \in DOMAIN metrics)
    <3>1. d \in Decision /\ d.accepted \in BOOLEAN /\ d.trial.gen \in Nat
      <4>1. d \in Decision
        BY <2>2, ToSetType
      <4> QED BY <4>1 DEF Decision, Trial
    <3>2. d.trial.gen < mem.gen
      <4>1. d.trial.gen <= mem.gen
        BY <2>1 DEF Keyed, ToSet
      <4>2. ToSet(<<>>) = {}
        BY DEF ToSet
      <4>3. d.trial.gen # mem.gen
        BY <2>1, <4>2 DEF Placed
      <4> QED BY <2>2, <3>1, <4>1, <4>3
    <3>3. \E x \in ToSet(files.landscape) : Records(x, d)
      BY <2>1, <3>2 DEF Placed
    <3>4. d.trial \in DOMAIN metrics => d.accepted = TRUE
      <4> SUFFICES ASSUME d.trial \in DOMAIN metrics PROVE d.accepted = TRUE
        OBVIOUS
      <4>1. PICK i \in DOMAIN files.ledger : files.ledger[i] = d
        BY DEF ToSet
      <4>2. PICK j \in DOMAIN files.ledger : files.ledger[j] = [trial |-> d.trial, accepted |-> TRUE]
        BY DEF CampaignInv, Recorded, RanInv, ToSet
      <4>3. files.ledger[i].trial = files.ledger[j].trial
        BY <4>1, <4>2
      <4>4. i = j
        BY <2>1, <4>3 DEF Keyed
      <4> QED BY <4>1, <4>2, <4>4
    <3>5. d.accepted => d.trial \in DOMAIN metrics
      BY <2>1, <3>2
    <3>6. CASE d.accepted = TRUE
      BY <3>3, <3>5, <3>6
    <3>7. CASE d.accepted = FALSE
      <4>1. d.trial \notin DOMAIN metrics
        BY <3>4, <3>7
      <4>2. (d.trial \in DOMAIN metrics) = FALSE
        BY <4>1
      <4> QED BY <3>3, <3>7, <4>2, Zenon
    <3> QED BY <3>1, <3>6, <3>7
  <2> QED BY <2>3, <2>4 DEF Records
<1> QED BY <1>1, CampaignInvariant, PTL

\* BudgetHolds: the trials on disk are no more than the ledger accepted, and the
\* ledger never accepts past the campaign's, a family's or a generation's limit.
THEOREM BudgetHoldsAlways == Spec => []BudgetHolds
  BY WithinLimits, CampaignInvariant, PTL

\* PromotedEvidenceCurrent: validation rewrites the metrics of a generation
\* before its candidate is promoted, and never afterwards.
THEOREM PromotedEvidenceCurrentAlways == Spec => []PromotedEvidenceCurrent
<1>1. CampaignInv => PromotedEvidenceCurrent
  BY DEF CampaignInv, Recorded, EvidenceInv, PromotedEvidenceCurrent, Promoted
<1> QED BY <1>1, CampaignInvariant, PTL

\* ReleaseIsWhole: the artifact graph, which verify asks for, is written last and only
\* over the landscape, candidates and proposal of one finished run, and what a
\* deletion leaves of them, also one cut short, lacks a file verify asks for or is
\* still of that run.
THEOREM ReleaseIsWholeAlways == Spec => []ReleaseIsWhole
<1>1. CampaignInv => ReleaseIsWhole
  BY DEF CampaignInv, Recorded, ReleaseInv, Whole, InOrder, ReleaseIsWhole, VerifyAccepts
<1> QED BY <1>1, CampaignInvariant, PTL

===============================================================================
