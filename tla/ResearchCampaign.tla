-------------------------- MODULE ResearchCampaign --------------------------
(***************************************************************************)
(* The autonomous research campaign: the engine that runs generations of   *)
(* trials under a trial budget, selects, validates and promotes at most    *)
(* one candidate per generation and proposes the next generation, and the  *)
(* operator commands around it (campaign run, approve-next-generation,     *)
(* stop, resume and verify).                                               *)
(*                                                                         *)
(* All state a command leaves for the next one is in files under the       *)
(* campaign's output root; the engine deletes the root, file by file, when *)
(* it starts.  One engine runs at a time, in the foreground of `run` or    *)
(* `resume`; the other commands are issued from another shell at any       *)
(* moment of it.  A backtest is external: for given data its outcome is    *)
(* fixed (`oracle`), so a repeated campaign repeats its results.           *)
(***************************************************************************)
EXTENDS Naturals, Sequences, SequencesExt, FiniteSetsExt

CONSTANTS
    NumFamilies,          \* strategy families of the campaign
    GridSize,             \* candidates in each family's search space
    MaxGenerations,       \* search.max_generations
    TrialsPerGeneration,  \* search.trials_per_generation
    MaxTotalTrials,       \* budget.max_total_trials
    MaxFamilyTrials,      \* budget.max_family_trials
    None,                 \* no value
    MaxCommands,          \* bound: operator commands
    MaxChanges,           \* bound: changes of the data between commands
    DeletedTogether       \* bound: sets of files whose deletion is one step

ASSUME CampaignAssumption ==
    /\ {NumFamilies, GridSize, MaxGenerations, TrialsPerGeneration} \subseteq Nat \ {0}
    /\ {MaxTotalTrials, MaxFamilyTrials, MaxCommands, MaxChanges} \subseteq Nat

Families == 1..NumFamilies
Generations == 0..(MaxGenerations - 1)
Smaller(a, b) == IF a < b THEN a ELSE b
Larger(a, b) == IF a < b THEN b ELSE a

VARIABLES
    files,     \* the output root: what the commands and the engine read back
    metrics,   \* of each trial on disk: 1 as the trial wrote them, 2 rewritten
    pc,        \* where the engine is, "idle": no engine runs
    mem,       \* what the running command keeps in memory
    twoStage,  \* search.two_stage_selection.enabled of the campaign file
    data,      \* version of the data and configuration the backtests read
    oracle,    \* external: the outcomes of the backtests for these data
    verdict,   \* operator audit log: the last decision on each proposal
    reviewed,  \* proposals the operator has read
    commands

vars == <<files, metrics, pc, mem, twoStage, data, oracle, verdict, reviewed, commands>>

-----------------------------------------------------------------------------
(* Trials of a generation *)

NoProposal == [gen |-> 0, budget |-> 0, best |-> None, reduced |-> {}, analytics |-> <<>>]

\* _candidate_generation_budget
CandidateBudget(p) == IF p = NoProposal THEN TrialsPerGeneration ELSE p.budget

\* A family below the planner's success rate gets half the candidates.
FamilyBudget(f, base, p) == IF f \in p.reduced THEN Smaller(base, Larger(1, base \div 2)) ELSE base

\* The k-th family: in the order of their ids, the focused one first.
OrderedFamily(k, p) ==
    IF p.best = None THEN k ELSE IF k = 1 THEN p.best ELSE IF k <= p.best THEN k - 1 ELSE k

\* CandidateGenerator.grid: as much of the grid as the budget allows.
Grid(budget) == Smaller(budget, GridSize)

\* How many candidates a family has.  Later generations skip as many as
\* generations have passed, or run the first ones again when nothing is left.
Candidates(f, g, p) ==
    LET grid == Grid(FamilyBudget(f, CandidateBudget(p) + g, p))
    IN  IF g < grid THEN grid - g ELSE grid

\* _round_robin_candidates: the candidates as the cells of a table that is read
\* row by row, with a column for each family.
Row(cell) == 1 + ((cell - 1) \div NumFamilies)
FamilyOf(cell, p) == OrderedFamily(1 + ((cell - 1) % NumFamilies), p)
RoundRobin(g, p) ==
    {cell \in 1..(GridSize * NumFamilies) : Row(cell) <= Candidates(FamilyOf(cell, p), g, p)}

Accepted(ledger) == {i \in DOMAIN ledger : ledger[i].accepted}
OfFamily(ledger, f) == {i \in Accepted(ledger) : ledger[i].trial.family = f}

\* Variant: the count before the request may still equal the limit.
WithinBudgetOrAt(ledger, trial) ==
    /\ Cardinality(Accepted(ledger)) <= MaxTotalTrials
    /\ Cardinality(OfFamily(ledger, trial.family)) <= MaxFamilyTrials

\* TrialBudgetManager._decide for the limits of the campaign and of a strategy
\* family.  The same limit on factor families and the compute limit, which can
\* only refuse more, are left out.
WithinBudget(ledger, trial) ==
    /\ Cardinality(Accepted(ledger)) < MaxTotalTrials
    /\ Cardinality(OfFamily(ledger, trial.family)) < MaxFamilyTrials

-----------------------------------------------------------------------------
(* Selection, promotion and the next proposal *)

\* The outcomes a generation's backtests and validations can have: the trials
\* the selector's limits reject, the survivor with the best score, what the
\* gauntlet and the packet validation say of it, and the best family.
Outcomes(trials, seen) ==
    {o \in [rejected: SUBSET (1..Len(trials)), top: {0} \cup (1..Len(trials)),
            fate: {"gauntlet", "promotion_packet", "selected"}, best: seen] :
        /\ IF o.rejected = 1..Len(trials) THEN o.top = 0 /\ o.fate = "selected"
           ELSE o.top \in 1..Len(trials) \ o.rejected}

\* CorrelationGate: the candidate against the promotions of earlier
\* generations, the context its validation artifacts were written with.
Correlated(trial, context) == \E s \in ToSet(context) : s.family = trial.family

\* A new evidence bundle records the artifacts as they are on disk; verify
\* accepts it while they are still the same.
VersionOnDisk(m, trial) == m[trial]
CreateBundle(m, trial) == VersionOnDisk(m, trial)
BundleVerified(m, trial, bundle) == bundle = VersionOnDisk(m, trial)

\* Gauntlet first, then the bundle, then the promotion packet.
Fate(m, trial, o, context) ==
    IF Correlated(trial, context) THEN "gauntlet"
    ELSE IF o.fate = "selected" /\ ~BundleVerified(m, trial, CreateBundle(m, trial))
    THEN "promotion_packet" ELSE o.fate

Point(trial, stage, bundle) ==
    [gen |-> trial.gen, ordinal |-> trial.ordinal, family |-> trial.family,
     stage |-> stage, bundle |-> bundle, data |-> data]

\* Variant: a survivor ranked past max_selected is in neither list.
SelectionDropsRunnersUp(m, trials, o, context) ==
    LET fate == Fate(m, trials[o.top], o, context)
        lost == SelectSeq(trials, LAMBDA t: \E i \in o.rejected : trials[i] = t)
        top == IF o.top = 0 THEN <<>>
               ELSE <<Point(trials[o.top], fate, CreateBundle(m, trials[o.top]))>>
    IN  [selected |-> SelectSeq(top, LAMBDA x: x.stage = "selected"),
         rejected |-> [i \in 1..Len(lost) |-> Point(lost[i], "selector", 1)]
                      \o SelectSeq(top, LAMBDA x: x.stage # "selected")]

\* What selection does with the trials: the points of the promoted candidate,
\* then of those the selector rejected (limits, or a rank past max_selected = 1),
\* then of one the gauntlet or the packet rejected.  A rejected candidate keeps
\* the bundle its trial was run with, version 1.
Selection(m, trials, o, context) ==
    LET fate == Fate(m, trials[o.top], o, context)
        lost == IF o.top = 0 THEN trials ELSE RemoveAt(trials, o.top)
    IN  [selected |-> IF o.top # 0 /\ fate = "selected"
                      THEN <<Point(trials[o.top], "selected",
                                   CreateBundle(m, trials[o.top]))>> ELSE <<>>,
         rejected |-> [i \in 1..Len(lost) |-> Point(lost[i], "selector", 1)]
                      \o IF o.top # 0 /\ fate # "selected"
                         THEN <<Point(trials[o.top], fate, 1)>> ELSE <<>>]

BudgetPoints(refused) == [i \in 1..Len(refused) |-> Point(refused[i], "trial_budget", 0)]

PointsOf(landscape, f) == {i \in DOMAIN landscape : landscape[i].family = f}
Promoted(landscape) == {x \in ToSet(landscape) : x.stage = "selected"}

\* _next_generation_proposal: the budget left after every recorded point, the
\* best family in focus, families that succeed in less than half of their points
\* reduced.  proposal_hash covers this and the aggregates of the analytics, which
\* name the trials and, in the rejection clusters, what became of each.  Neither
\* the data nor the evidence are in it, and its medians are not told apart here:
\* two proposals with one hash are equal, and some equal ones have two.
Analytics(landscape) ==
    [i \in DOMAIN landscape |->
        [gen |-> landscape[i].gen, ordinal |-> landscape[i].ordinal,
         family |-> landscape[i].family, stage |-> landscape[i].stage]]

NextProposal(g, landscape, best) ==
    [gen       |-> g + 1,
     budget    |-> Smaller(TrialsPerGeneration,
                           IF Len(landscape) > MaxTotalTrials THEN 0
                           ELSE MaxTotalTrials - Len(landscape)),
     best      |-> best,
     reduced   |-> {f \in Families : LET mine == PointsOf(landscape, f)
                                         won == {i \in mine : landscape[i].stage = "selected"}
                                     IN  2 * Cardinality(won) < Cardinality(mine)},
     analytics |-> Analytics(landscape)]

-----------------------------------------------------------------------------
(* The output root and the campaign state file *)

NoState == [status |-> "none", path |-> FALSE, paths |-> FALSE, gens |-> 0, approval |-> NoProposal]

EmptyRoot ==
    [summary |-> "none", state |-> NoState, proposal |-> NoProposal, landscape |-> <<>>,
     ledger |-> <<>>, selected |-> <<>>, rejected |-> <<>>, results |-> FALSE, graph |-> FALSE]

Idle == [cmd |-> None, max |-> 0, requested |-> 0, approval |-> NoProposal, gen |-> 0,
         next |-> NoProposal, todo |-> {}, trials |-> <<>>, refused |-> <<>>, outcome |-> None,
         selected |-> <<>>, rejected |-> <<>>, fresh |-> <<>>, stopped |-> FALSE, standing |-> {}]

\* Start of AutonomousResearchEngine.run.  `standing` is a history of the command:
\* the decisions that stood when it was given.
StartEngine(cmd, max, requested, approval) ==
    /\ pc' = "deleting"
    /\ mem' = [Idle EXCEPT !.cmd = cmd, !.max = max, !.requested = requested,
                           !.approval = approval, !.standing = verdict]
    /\ UNCHANGED <<files, metrics>>

\* shutil.rmtree(root), one file or directory after the other, in no particular
\* order; the campaign state file is one of them, "trials" the trials' directories.
Delete(group) ==
    /\ pc = "deleting"
    /\ files' = [f \in DOMAIN files |-> IF f \in group THEN EmptyRoot[f] ELSE files[f]]
    /\ metrics' = IF "trials" \in group THEN [t \in {} |-> 1] ELSE metrics
    /\ UNCHANGED <<pc, mem, twoStage, data, oracle, verdict, reviewed, commands>>

\* Variant: rmtree with ignore_errors.
RootGoneOrNot == files.landscape = <<>> /\ files.ledger = <<>>

RootGone == files = EmptyRoot /\ DOMAIN metrics = {}

MakeRoot ==
    /\ pc = "deleting" /\ RootGone
    /\ pc' = "generation"
    /\ UNCHANGED <<files, metrics, mem, twoStage, data, oracle, verdict, reviewed, commands>>

Command == commands < MaxCommands /\ commands' = commands + 1

\* campaign run: in manual mode one generation only, whatever was asked for.
Run(mode) ==
    /\ pc = "idle" /\ Command
    /\ StartEngine(mode, IF mode = "manual" THEN 1 ELSE MaxGenerations, MaxGenerations, NoProposal)
    /\ UNCHANGED <<twoStage, data, oracle, verdict, reviewed>>

\* campaign resume: only an approved state that still names the campaign, its
\* data and the generations asked for.
Resume ==
    /\ pc = "idle" /\ Command
    /\ files.state.status = "approved_next_generation"
    /\ files.state.path /\ files.state.paths /\ files.state.gens >= 1
    /\ StartEngine("resume", files.state.gens, files.state.gens, files.state.approval)
    /\ UNCHANGED <<twoStage, data, oracle, verdict, reviewed>>

\* Variant: the approval is matched by the proposal's id alone.
ApprovesById(approval, p) == approval # NoProposal /\ approval.gen = p.gen

\* The gate: the approval must be of a proposal with the same hash.
Approves(approval, p) == approval # NoProposal /\ approval = p

\* Head of the generation loop.
BeginGeneration ==
    /\ pc = "generation"
    /\ IF mem.gen = mem.max
       THEN pc' = "results" /\ UNCHANGED mem
       ELSE IF mem.gen > 0 /\ ~Approves(mem.approval, mem.next)
       THEN pc' = "results" /\ mem' = [mem EXCEPT !.stopped = TRUE]
       ELSE pc' = "trials" /\ mem' = [mem EXCEPT !.todo = RoundRobin(mem.gen, mem.next)]
    /\ UNCHANGED <<files, metrics, twoStage, data, oracle, verdict, reviewed, commands>>

\* _trials: each generated trial is decided in turn, first against the
\* generation's own limit, and every decision is written to the ledger.
RequestTrial ==
    LET cell == Min(mem.todo)
        trial == [gen |-> mem.gen, ordinal |-> Len(mem.trials) + Len(mem.refused) + 1,
                  family |-> FamilyOf(cell, mem.next)]
        accept == Len(mem.trials) < TrialsPerGeneration /\ WithinBudget(files.ledger, trial)
    IN  /\ pc = "trials" /\ mem.todo # {}
        /\ files' = [files EXCEPT !.ledger = Append(@, [trial |-> trial, accepted |-> accept])]
        /\ mem' = [mem EXCEPT !.todo = @ \ {cell},
                              !.trials = IF accept THEN Append(@, trial) ELSE @,
                              !.refused = IF accept THEN @ ELSE Append(@, trial)]
        /\ pc' = IF mem.todo = {cell} THEN "experiment" ELSE "trials"
        /\ UNCHANGED <<metrics, twoStage, data, oracle, verdict, reviewed, commands>>

\* The experiment job runs every accepted trial; the families analytics can
\* name as the best are those with a point in the landscape.
RunExperiment ==
    LET seen == {x.family : x \in ToSet(files.landscape)}
                  \cup {t.family : t \in ToSet(mem.trials \o mem.refused)}
        input == [landscape |-> files.landscape, trials |-> mem.trials]
        known == {e.outcome : e \in {e \in oracle : e.input = input}}
    IN  /\ pc = "experiment"
        /\ \E o \in IF known = {} THEN Outcomes(mem.trials, seen) ELSE known :
               /\ oracle' = oracle \cup {[input |-> input, outcome |-> o]}
               /\ mem' = [mem EXCEPT !.outcome = o]
        /\ metrics' = [t \in DOMAIN metrics \cup ToSet(mem.trials) |->
                          IF t \in DOMAIN metrics THEN metrics[t] ELSE 1]
        /\ pc' = "select"
        /\ UNCHANGED <<files, twoStage, data, verdict, reviewed, commands>>

\* Variant: the candidate is promoted before the metrics are rewritten.
SelectBeforeValidation ==
    /\ pc = "select" /\ ~twoStage
    /\ LET s == Selection(metrics, mem.trials, mem.outcome, mem.selected)
       IN  mem' = [mem EXCEPT !.selected = @ \o s.selected,
                              !.rejected = @ \o s.rejected \o BudgetPoints(mem.refused),
                              !.fresh = s.selected \o s.rejected \o BudgetPoints(mem.refused)]
    /\ metrics' = [t \in DOMAIN metrics |-> 2]
    /\ pc' = "landscape"
    /\ UNCHANGED <<files, twoStage, data, oracle, verdict, reviewed, commands>>

\* The finalists' validation artifacts are written and their metrics rewritten
\* from them before selection; then selection, gauntlet, bundle and packet.
SelectCandidates ==
    /\ pc = "select" /\ ~twoStage
    /\ metrics' = [t \in DOMAIN metrics |-> 2]
    /\ LET s == Selection(metrics', mem.trials, mem.outcome, mem.selected)
       IN  mem' = [mem EXCEPT !.selected = @ \o s.selected,
                              !.rejected = @ \o s.rejected \o BudgetPoints(mem.refused),
                              !.fresh = s.selected \o s.rejected \o BudgetPoints(mem.refused)]
    /\ pc' = "landscape"
    /\ UNCHANGED <<files, twoStage, data, oracle, verdict, reviewed, commands>>

AppendLandscape ==
    /\ pc = "landscape"
    /\ LET landscape == files.landscape \o mem.fresh
       IN  /\ files' = [files EXCEPT !.landscape = landscape]
           /\ mem' = [mem EXCEPT !.gen = @ + 1, !.trials = <<>>, !.refused = <<>>,
                                 !.fresh = <<>>, !.outcome = None,
                                 !.next = NextProposal(mem.gen, landscape, mem.outcome.best)]
    /\ pc' = "generation"
    /\ UNCHANGED <<metrics, twoStage, data, oracle, verdict, reviewed, commands>>

\* The end of the engine: candidate files, analytics, proposal and report,
\* then the validation summary, then the artifact graph.
WriteResults ==
    /\ pc = "results"
    /\ files' = [files EXCEPT !.selected = mem.selected, !.rejected = mem.rejected,
                              !.proposal = mem.next, !.results = TRUE]
    /\ pc' = "summary"
    /\ UNCHANGED <<metrics, mem, twoStage, data, oracle, verdict, reviewed, commands>>

ResultStatus ==
    IF mem.stopped THEN "pending_human_approval"
    ELSE IF mem.selected # <<>> THEN "accepted" ELSE "rejected"

WriteSummary ==
    /\ pc = "summary"
    /\ files' = [files EXCEPT !.summary = ResultStatus]
    /\ pc' = "graph"
    /\ UNCHANGED <<metrics, mem, twoStage, data, oracle, verdict, reviewed, commands>>

WriteGraph ==
    /\ pc = "graph"
    /\ files' = [files EXCEPT !.graph = mem.selected # <<>>]
    /\ pc' = "command"
    /\ UNCHANGED <<metrics, mem, twoStage, data, oracle, verdict, reviewed, commands>>

\* What the commands do once the engine has returned.  A state file written
\* meanwhile is replaced.
FinishRun ==
    /\ pc = "command" /\ mem.cmd # "resume"
    /\ files' = IF mem.cmd = "manual" /\ mem.requested > 1 /\ ResultStatus = "accepted"
                THEN [files EXCEPT !.state =
                         [status |-> "pending_human_approval", path |-> TRUE, paths |-> TRUE,
                          gens |-> mem.requested, approval |-> NoProposal]]
                ELSE files
    /\ pc' = "idle" /\ mem' = Idle
    /\ UNCHANGED <<metrics, twoStage, data, oracle, verdict, reviewed, commands>>

\* The state resume writes does not name the data any more.
FinishResume ==
    /\ pc = "command" /\ mem.cmd = "resume"
    /\ files' = [files EXCEPT !.state =
                     [status |-> ResultStatus, path |-> TRUE, paths |-> FALSE,
                      gens |-> mem.requested, approval |-> NoProposal]]
    /\ pc' = "idle" /\ mem' = Idle
    /\ UNCHANGED <<metrics, twoStage, data, oracle, verdict, reviewed, commands>>

\* The process is killed, or a trial raises: the job is tried once, and the
\* exception leaves the command.  What was written stays.
EngineDies ==
    /\ pc # "idle"
    /\ pc' = "idle" /\ mem' = Idle
    /\ UNCHANGED <<files, metrics, twoStage, data, oracle, verdict, reviewed, commands>>

\* With two-stage selection the preselection is appended to the audit log as a
\* record type the log does not know, which raises.
PreselectionRaises ==
    /\ pc = "select" /\ twoStage
    /\ pc' = "idle" /\ mem' = Idle
    /\ UNCHANGED <<files, metrics, twoStage, data, oracle, verdict, reviewed, commands>>

-----------------------------------------------------------------------------
(* Operator commands that run beside the engine *)

\* The operator reads the proposal and notes its hash (external).
Review ==
    /\ files.proposal # NoProposal
    /\ reviewed' = reviewed \cup {files.proposal}
    /\ reviewed' # reviewed
    /\ UNCHANGED <<files, metrics, pc, mem, twoStage, data, oracle, verdict, commands>>

\* campaign approve-next-generation, at any moment and for the proposal on disk or
\* a copy of one: it must have the hash the operator expects.  The decision goes
\* to the audit log and to the state file, which keeps what it knew of the
\* campaign.  (With the --output-root of another campaign it leaves this one alone.)
HashExpected(p) == p \in reviewed

Decide(decision, p) ==
    /\ Command
    /\ HashExpected(p)
    /\ verdict' = {v \in verdict : v.proposal # p}
                     \cup {[proposal |-> p, decision |-> decision, data |-> data]}
    /\ files' = [files EXCEPT !.state =
            [@ EXCEPT !.status = IF decision = "approved" THEN "approved_next_generation"
                                 ELSE "rejected",
                      !.approval = p]]
    /\ UNCHANGED <<metrics, pc, mem, twoStage, data, oracle, reviewed>>

\* campaign stop writes a state with nothing but the reason.
Stop ==
    /\ Command
    /\ files' = [files EXCEPT !.state = [NoState EXCEPT !.status = "stopped"]]
    /\ UNCHANGED <<metrics, pc, mem, twoStage, data, oracle, verdict, reviewed>>

\* New data or an edited campaign file between two commands (external).
DataChanges ==
    /\ pc = "idle" /\ data < MaxChanges
    /\ data' = data + 1
    /\ oracle' = {}
    /\ UNCHANGED <<files, metrics, pc, mem, twoStage, verdict, reviewed, commands>>

\* campaign verify: what makes a release bundle acceptable.  A state file that is
\* not there is as good as an accepted one, and the ledger is not asked for.
VerifyAccepts ==
    /\ files.state.status \in {"none", "accepted"}
    /\ files.summary = "accepted"
    /\ files.graph
    /\ files.landscape # <<>>
    /\ Len(files.landscape) = Len(files.selected) + Len(files.rejected)
    /\ files.selected # <<>>
    /\ files.results /\ files.proposal # NoProposal

Init ==
    /\ files = EmptyRoot /\ metrics = [t \in {} |-> 1]
    /\ pc = "idle" /\ mem = Idle
    /\ twoStage \in BOOLEAN
    /\ data = 0 /\ oracle = {}
    /\ verdict = {} /\ reviewed = {} /\ commands = 0

Next ==
    \/ \E mode \in {"manual", "none"} : Run(mode)
    \/ Resume
    \/ \E group \in DeletedTogether : Delete(group)
    \/ MakeRoot
    \/ BeginGeneration \/ RequestTrial \/ RunExperiment \/ SelectCandidates
    \/ AppendLandscape \/ WriteResults \/ WriteSummary \/ WriteGraph
    \/ FinishRun \/ FinishResume
    \/ PreselectionRaises \/ EngineDies
    \/ Review \/ Stop \/ DataChanges
    \/ \E d \in {"approved", "rejected"}, p \in reviewed : Decide(d, p)

Spec == Init /\ [][Next]_vars

-----------------------------------------------------------------------------
(* Properties *)

Statuses == {"none", "pending_human_approval", "approved_next_generation", "rejected",
             "accepted", "stopped"}

\* Type invariant.
CampaignTypeOK ==
    /\ files.summary \in {"none", "pending_human_approval", "accepted", "rejected"}
    /\ files.state.status \in Statuses /\ files.state.gens \in 0..MaxGenerations
    /\ files.results \in BOOLEAN /\ files.graph \in BOOLEAN
    /\ pc \in {"idle", "deleting", "generation", "trials", "experiment", "select", "landscape",
               "results", "summary", "graph", "command"}
    /\ mem.gen \in 0..MaxGenerations /\ mem.max \in 0..MaxGenerations
    /\ twoStage \in BOOLEAN /\ data \in 0..MaxChanges /\ commands \in 0..MaxCommands

\* A later generation starts only for a proposal that was read and whose last
\* decision, when the engine was started, was an approval, and that says of every
\* trial what the landscape says that the engine has just produced again: neither an
\* approval of a run with another outcome nor one withdrawn before the resume
\* lets it run (GenerationApprovalPolicy.execution_payload, campaign resume).
OnlyApprovedGenerations ==
    [][pc = "generation" /\ pc' = "trials" /\ mem.gen > 0 =>
          /\ mem.next \in reviewed
          /\ \E v \in mem.standing : v.proposal = mem.next /\ v.decision = "approved"
          /\ mem.approval.analytics = Analytics(files.landscape)]_vars

\* docs/architecture/system_flows.md:181, "human approval gates for additional
\* generations": an approval withdrawn while the engine runs keeps the next
\* generation from starting.
WithdrawnNeverRuns ==
    [][pc = "generation" /\ pc' = "trials" /\ mem.gen > 0 =>
          \E v \in verdict : v.proposal = mem.next /\ v.decision = "approved"]_vars

\* next_generation.py:431, "Return whether the exact proposal artifact is approved
\* for execution": an approval given on other data is not one of this proposal.
ApprovedOnTheseData ==
    [][pc = "generation" /\ pc' = "trials" /\ mem.gen > 0 =>
          \E v \in mem.standing : v.proposal = mem.next /\ v.data = data]_vars

\* Between generations, every trial the engine has generated is in the landscape
\* exactly once, as promoted or with the stage that rejected it, and a trial has
\* been run exactly if the budget ledger accepted it: no trial is lost between
\* budget, selector, gauntlet and packet.
EveryTrialAccounted ==
    pc \in {"generation", "results", "summary", "graph", "command"} =>
        /\ Len(files.landscape) = Len(files.ledger)
        /\ \A d \in ToSet(files.ledger) :
              \E x \in ToSet(files.landscape) :
                  /\ x.gen = d.trial.gen /\ x.ordinal = d.trial.ordinal
                  /\ (x.stage = "trial_budget") = ~d.accepted
                  /\ d.accepted = (d.trial \in DOMAIN metrics)

\* The trials run since the campaign started never exceed the campaign's, the
\* family's or the generation's limit, also when a proposal's budget is used up
\* and its generation runs the first candidates again.
BudgetHolds ==
    /\ Cardinality(DOMAIN metrics) <= MaxTotalTrials
    /\ \A f \in Families : Cardinality({t \in DOMAIN metrics : t.family = f}) <= MaxFamilyTrials
    /\ \A g \in Generations : Cardinality({t \in DOMAIN metrics : t.gen = g}) <= TrialsPerGeneration

\* The evidence bundle of every promoted candidate still matches the artifacts
\* on disk, which validation rewrote after the trial had made its own bundle.
PromotedEvidenceCurrent ==
    \A x \in Promoted(files.landscape) : \A t \in DOMAIN metrics :
        t.gen = x.gen /\ t.ordinal = x.ordinal => x.bundle = metrics[t]

\* What `campaign verify` accepts is one campaign's: no engine is writing it, the
\* promoted candidates on file are those of the landscape, at most one of a
\* generation and in the generations' order, the proposal on file is the one made
\* from that landscape, and so is the budget ledger if it is there: nothing of an
\* earlier campaign is left, also after a deletion that was cut short.
ReleaseIsWhole ==
    VerifyAccepts =>
        /\ pc \in {"idle", "command", "deleting"}
        /\ ToSet(files.selected) = Promoted(files.landscape)
        /\ files.ledger # <<>> => Len(files.landscape) = Len(files.ledger)
        /\ \A i, j \in DOMAIN files.selected : i < j => files.selected[i].gen < files.selected[j].gen
        /\ files.proposal.analytics = Analytics(files.landscape)

\* docs/architecture/system_flows.md:194, "Run `campaign verify` before treating
\* campaign output as release evidence": it does not accept what a deletion has
\* left of a campaign, the campaign that awaits an approval included.
ReleaseIsFinished ==
    VerifyAccepts => pc \in {"idle", "command"} /\ Len(files.landscape) = Len(files.ledger)

\* run_research.py:484, "Persist a stopped campaign state": a stopped state is
\* replaced only by a later command of the operator.
StopPersists ==
    [][files.state.status = "stopped" /\ files'.state.status # "stopped"
          => commands' > commands]_vars

\* run_research.py:493, "Clear a stopped campaign state": a campaign that was
\* stopped can be resumed.
ResumeClearsStopped == [][files.state.status = "stopped" => ENABLED Resume]_vars

\* campaign/config.py:70, "Optional finalist preselection policy before
\* promotion-grade validation": a campaign that enables it can select.
TwoStageSelects == pc = "select" => ~twoStage

\* The generation that an approved proposal starts runs no more trials than the
\* budget the operator approved.
ApprovedBudgetHolds ==
    pc = "experiment" /\ mem.gen > 0 => Len(mem.trials) <= mem.next.budget

=============================================================================
