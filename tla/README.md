# TLA+ models of QTS

QTS is an actor-based trading system for backtests, paper and live trading. This
directory models the part of it that decides whether an order leaves the system and
whether its fills arrive in the account: the order path down to the IBKR callbacks, the
risk rules and the books, the session that gates orders, the kill switch, reconciliation,
the recovery from crashes; and beside it the live market-data path and the autonomous
research campaigns. TLC checks the models on small
instances, TLAPS proves the central properties for every value of the constants.

Source paths below are relative to `src/backend/src/qts/`; `src/docs` and `src/tests`
are named in full.

- [1. The system](#1-the-system)
- [2. Modules and code](#2-modules-and-code)
- [3. Runs](#3-runs)
- [4. Bounds](#4-bounds)
- [5. Fairness](#5-fairness)
- [6. Proofs](#6-proofs)
- [7. Where code and documentation disagree](#7-where-code-and-documentation-disagree)
- [8. What is not modelled](#8-what-is-not-modelled)
- [9. Plan](#9-plan)

Every run: `tlc -config <cfg> <MC module>`; every proof: `tlapm <...Proofs>.tla`.
`PROJECT.json` maps each definition to its source lines and lists the runs, the
mutants that show each property can fail, the hazards and the theorems.

## 1. The system

### Components

| Component | State | Operations |
|---|---|---|
| Order manager (`execution/order_manager.py`, `order_state_machine.py`) | orders with their state machines, broker-id map, seen report and fill ids, the same ids by order | create and mark sent, cancel, replace, process report, discard terminal order, snapshot, restore |
| Order path actors (`runtime/actors/`: order manager, execution, account; `runtime/actor_ref.py`, `mailbox.py`) | one mailbox each, route metadata, fills list, booked fills, cash and holdings | tell, ask, process_one, process_all; submit, cancel, replace, report, apply fill |
| Broker side (`execution/adapters/broker_execution_adapter.py`, `simulation/broker.py`) | broker-id map, the broker's orders | submit, cancel, replace, emit fill |
| Intent processing (`runtime/intent_processing.py`, `runtime/session.py`, `backtest/actor_loop.py`) | order sequence or order count | target to order plans, risk check, numbering, submission and drive, compaction |
| Runtime session (`runtime/session.py`, `state.py`, `control_plane.py`, `broker_lifecycle.py`, `startup_gate.py`, `broker_startup.py`) | lifecycle state, startup decision, permissions, kill-switch flag | start, stop, pause, resume, observation, recover, disconnect, reconnect, degrade, bars |
| Actor supervision (`runtime/actor_supervisor.py`, `actor_policies.py`) | failures with their times, failed paths | handle failure, restart with drain, escalate |
| Kill switch, rollback (`runtime/safety_controller.py`, `rollback.py`) | the flag; evidence | activate and cancel active orders, roll back, deactivate |
| Event store (`runtime/event_store.py`) | a file of numbered lines, counter and lock per store | open, append, close, replay, validate |
| Snapshots, durability (`runtime/state_recovery.py`, `durability.py`, `durable_recovery.py`) | latest snapshot of each actor | save, load, recover |
| IBKR order adapter (`execution/adapters/ibkr_*.py`, `execution/transports/`) | order-id file, order map, staged executions, commissions, completed keys, seen statuses, quarantine, event queue | connect, submit, callbacks of orders, executions and commissions, resolve, flush, wait, disconnect |
| Reconciliation (`reconciliation/`) | drift streak, latch, startup decision | compare, observe, trip, notify |
| Market data (`data/transports/`, `data/sources/`, `data/bars/`, `runtime/actors/market_data_actor.py`) | requests and their symbols, quote sides, subscriptions, event times, queued events, open bars | connect, subscribe, unsubscribe, resubscribe, ticks, drain, aggregate |
| Risk (`risk/`), portfolio (`portfolio/`) | intraday baseline; cash, holdings, reservations | read the risk state, check a plan, apply a fill, value |
| Research campaigns (`research/engine/`, `research/search/`, `scripts/run_research.py`) | the campaign's output root, the operator's audit log | run, select, validate, promote, propose, approve, stop, resume, verify |
| Signals and strategies (`runtime/actors/signal_aggregator_actor.py`, `strategy_sdk/`) | contributions by bar | contribute, aggregate |

The research library, reporting, indicators, factors, quality gates, API, frontend and the
Rust crates surround these and keep no trading state.

### How they interact

A bar reaches `RuntimeMarketDataCoordinator`, which asks once whether orders are blocked
(kill switch, startup gate, permissions, lifecycle state). If not, strategies produce
targets, signals are aggregated, and `TargetIntentProcessor` turns a target into
order plans. Each plan passes the risk engine, gets a number, and is told to the
order manager actor; then one *drive* runs `process_all` on the order manager, the
execution actor, the order manager again and the account. The execution actor calls the broker
adapter synchronously and tells its answer back. Fills reported later arrive as
messages in the order manager's mailbox and wait there for the next drive.

One thread drives everything in a session. An `ask` drains the mailbox of the actor
it asks. No production `ActorRef` has a failure sink, so an exception in a handler
ends the drive: the message is gone, and what was queued behind it stays.

With IBKR there is a second thread on each side: ibapi's reader runs the order callbacks
of the execution transport and the tick handlers of the market-data transport, and shares
their maps with the driving thread. Neither side has a lock, and a disconnect abandons a
reader that does not end within two seconds, so that there may be several.

A campaign lives in files. The engine runs in the foreground of one command and deletes
its output root first, file by file; approvals, stops and verifications come from other shells
at any moment, and a decision may be on any copy of a proposal.

### What is hard

- Broker reports may be late, lost, repeated or overtake each other, and race
  cancels, replaces, compactions and the kill switch.
- An exception ends a drive in the middle: mailboxes stay filled until somebody drains
  them, which may be the kill switch.
- Order manager and account are saved separately, so a restart combines snapshots of
  different moments, and the broker repeats its reports.
- The order gate is closed and opened by five parties: startup decision,
  operator, broker connection, supervision, kill switch.
- Idempotency rests on ids that come from counters; the counters of session, backtest and
  event store can repeat.
- A crash can cut a write short.
- The reader's callbacks come before the driver has recorded what it asked for, twice, in
  either order, from a connection that was given up, between a check and the step it was for,
  or while an exception ends a replay.
- A broker refuses or ends a market-data stream by an error message that changes no table.
- A risk state is read once per intent, from one snapshot and one set of marks, and
  several orders are judged by it while others are still at the broker. Its loss is counted from
  the last change of session id, and the instruments' sessions change at different times.
- A campaign is repeated from the start when it is resumed, so an approval on file may be
  of another run, of other data, or withdrawn; and a deletion cut short leaves a part of a
  campaign.

### What makes each component correct

- Order manager: maps and id sets agree; a fill is handed to the account once; a finished
  order stays finished.
- Order path: no fill vanishes silently; every submission and fill is settled; the system
  never believes an order finished before the broker does.
- Recovery: the account books executed fills only, and none twice.
- Session: no order without approval, under a kill switch or after a fault.
- Kill switch: the call ends; when it returns, what it found is stopped.
- Intent processing: the account reaches the target; fills and holdings agree.
- Event store and durability: a log that recovery accepts is complete; recovery gives
  back the state before the crash.
- IBKR adapter: an order id is used once; a callback reaches the order it is about; an
  execution is booked once and never forgotten, and not without a commission that has come.
  Nothing in the adapter is locked, so each of these holds as far as its threads keep apart.
- Market data: what the broker streams is registered, what was active comes back after a
  reconnect, and an event is filed under its own instrument.
- Reconciliation: a session starts to trade on agreement only; lasting drift trips the kill
  switch, passing drift does not.
- Risk and books: no money appears or vanishes; limits hold as far as what they were
  computed from was exact.
- Campaigns: every trial is accounted for within the budget, later generations run under a standing
  approval of what they continue, and a release is a whole campaign with current evidence.

## 2. Modules and code

| Module | Models | Builds on |
|---|---|---|
| `OrderStateMachine` | transition table, `apply` | |
| `OrderManager` | `OrderManager` as its actor drives it | `OrderStateMachine` |
| `OrderFlow` | driver, three actors, adapter, broker, transport | `OrderManager` |
| `FillLedger` | abstract: what the path promises about fills | |
| `OrderRecovery` | snapshots and restarts; implements `FillLedger` | `OrderFlow` |
| `KillSwitch` | activation and rollback in steps on the order path | `OrderFlow` |
| `ActorSupervisor` | restart policy and drain | |
| `RuntimeSession` | lifecycle and order gate | `ActorSupervisor` |
| `EventStore` | `FileEventStore` with several stores on one file | |
| `Durability` | snapshots and `RuntimeDurabilityDrill.recover` | `EventStore` |
| `IntentProcessing` | planning, numbering, execution, compaction | |
| `IbkrOrderIds` | the order-id allocator under driver and readers | |
| `IbkrFills` | the fill normalizer under driver and readers | |
| `IbkrExecution` | IBKR transport, adapter, order map, status normalizer, quarantine on two threads | |
| `AccountRisk` | holdings, cash, risk state and risk rules | |
| `Reconciliation` | report, startup gate, persistent-drift switch | |
| `MarketDataFeed` | IBKR market-data transport and streaming source on two threads | |
| `ResearchCampaign` | autonomous engine and campaign commands | |
| `OrderFlowProofs` | theorems | `OrderManager`, `OrderFlow` |
| `KillAndRecoveryProofs` | theorems | `KillSwitch`, `OrderRecovery` and `FillLedger` |
| `SessionAndRiskProofs` | theorems | `RuntimeSession` and `ActorSupervisor`, `AccountRisk` |
| `DurabilityProofs` | theorems | `EventStore`, `Durability` |
| `IbkrExecutionProofs` | theorems | `IbkrOrderIds`, `IbkrFills`, `IbkrExecution` |
| `PositionProofs` | theorems | `IntentProcessing`, `Reconciliation` |
| `MarketDataFeedProofs` | theorems | `MarketDataFeed` |
| `ResearchCampaignProofs` | theorems | `ResearchCampaign` |

**OrderManager.** `orders` is `_orders` and `_machines` together, the other variables are
the fields of the class, and `fillsList` is the actor's. Each message handler is one
action. An order id may be submitted again, because `create_order` replaces a tracked order
and the session's numbering does that. A report that raises leaves what the code
has changed before the exception: with a missing price the order has moved and the report
id is recorded. A compaction that meets an open order has discarded those before it.

**OrderFlow.** `phase` is the position of the thread in the drive, `omBox`, `execBox` and
`accBox` are the mailboxes. `Request` tells a message, `Pump` starts a drive, `Drained`
moves on when a mailbox is empty, and each handled message is one action, so the broker
can act between any two. The broker executes (`Fill`), rejects an order it had accepted, also
one that is to be replaced (`Reject`, IBKR's status Inactive), and the transport delivers
(`Deliver`) independently: a report is lost if it is not delivered, repeated up to
`MaxCopies`, and delivered in any order. A handler that raises consumes its
message, records it in `failed`, and sets the drive idle.

**OrderRecovery.** `SaveOrders` and `SaveAccount` are separate, in any order and at any
idle moment; `Restart` comes at any point, restores both, rebuilds the adapter's map and
empties the mailboxes. The broker keeps its orders and may repeat its reports.

**KillSwitch.** `step` is the line of `activate_kill_switch` or `rollback` at which the
thread stands; each `ask` first handles the mailbox message by message, within the call.
While the flag is set bars return early, so nothing but the call itself drives.

**RuntimeSession.** `deps` is what the session was built from: mode, permission,
decision, approvals, reconciler. `SessionInit` ranges over what `RuntimeSessionBuilder` makes
(`Built`) and over what a caller can put into the dependency container, which asks for little:
any of the six modes, with a validated decision of that mode (`Assembled`) or without one
(`AssembledUndecided`), submission enabled or not. Every call on the
facade is one action. `fault`, `killed`, `reconciled` and `held` are histories for the
properties; no guard reads them.

**EventStore.** `lines` is the file, `ended` says whether its last line has its newline,
`nextSequence` is the counter of each open store (0 for one that is not open), `lock` the
`flock`. A torn append leaves a broken line, or a whole one without its newline onto
which the next append is glued. `acked` is what `append` has returned for.

**Durability.** An event carries the new state of an actor or none. A snapshot's number is not the
store's: it is the session's own count of events (`written`, `_runtime_event_sequence`), which
starts at 0 with each session and counts events the store has refused. `savedAt`, the length of the log
when a snapshot was saved, is a history. Recovery is not an action:
`Recovers` and `RecoveredState` are operators of the files, so that each reachable state
is a possible crash.

**IntentProcessing.** One continuous future over `Contracts`, `front` the contract it
resolves to. A target yields a plan for each contract to leave and one to hold. Each
plan is rejected by risk or sent under its number and filled, rested or rejected
by the simulated execution. `caller` chooses the numbering: the session counts intents, the backtest
counts orders, the streaming backtest compacts as well.

**IbkrOrderIds.** `cursor` is `_next_ids` and `file` what is persisted. Allocation and
`reconcile_next_valid_id` are cut at every access to the two: read, store, build the payload, write.
Each connection has a reader, which may deliver its `nextValidId` at any later time,
abandoned or not. A restart keeps the file.

**IbkrFills.** The driver and any number of readers (`at`, `cur`) in the normalizer, cut at every access to
the staged executions, commissions, completed keys and the quarantine. `resolve_quarantined` copies the
list (`todo`), walks it and replaces it (`unresolved`). Histories say of which executions two threads had one
at a time (`raced`) and which were quarantined during a resolve (`overwritten`).
`flush_pending_executions` has no caller outside the adapter; the driver may call it at any time.

**IbkrExecution.** The order map, the statuses and openOrders with their quarantine, and the event queue. The
driver's submission is cut where the reader can come in between: place, record. Its resolution of the
quarantine is cut where it copies a list, between the callbacks it repeats, and where it replaces the list,
so that what is quarantined in between is lost. A callback is one step; of allocations and executions this
module takes the worst: an order may be placed under any id, and a fill may be published at any time.
`Statuses` and `OpenStatuses` are the callbacks the broker may send at any time and any number of times about
an order it has received. A status that no mapping knows makes a replay of the quarantine raise half
way (`raised`). A wait takes events off the queue until one matches; a fill that does not is gone (`dropped`).

**AccountRisk.** `StartIntent` is `process_intent` up to its loop: the snapshot, the marks, the
intraday result, the risk state, the plans. `RejectPlan`, `SubmitPlan` and `RiskRaises` are the
turns of the loop, and `FillOrder` may come between them or long after, at the order's
price or the market's. `Mark` is `_build_mark_map`: an intent of a plain instrument marks every holding at the
price of its own bar, one of a continuous future knows its own contracts only.
`rules` is the configured engine. `session` is the session id of each instrument's bars, and the
calculator takes a new baseline whenever the id of an intent's bar is not the last one's, be it a
later or an earlier one. `fresh`, `marked`, `grew`, `overlapped` and `opening` are
histories that say how exact the risk state was.

**Reconciliation.** A drift key is a number in the order of its string. `Observe` is a whole
cycle: the report, the switch, the coordinator. Both books change freely in between.

**MarketDataFeed.** `symbols`, `active` and `quote` are the transport's dictionaries, `subs`,
`last`, `age` and `stale` the source's. A driver call that writes more than one of them is
several actions (`pc`), and so is a callback (`cb`): look up, record, append. A callback
that raises ends its reader and with it the connection. `HandleError` is the broker ending streams of its
own, one or all (a refusal after the request, lost data, the end of a snapshot), of which the transport
keeps a message at most; `ended` is the history of it.

**ResearchCampaign.** `files` is the output root, `metrics` says of each trial on disk whether its
metrics are as written or rewritten, `mem` is what the running command holds. `pc` walks through the
engine: generation, trials, experiment, select, landscape, results, summary, graph, and back to the
command. Each trial is decided by its own `RequestTrial`, which writes the ledger, over the cells of
the round-robin table that are still to do (`mem.todo`). `oracle` holds the outcomes
of the backtests for the present `data`, so a repeated campaign repeats its results until the data
changes. `Delete` is one step of `shutil.rmtree`. A proposal is told apart by what its hash covers, the
aggregates of the landscape (`Analytics`) and not the data they come from; `Decide` decides on any proposal
the operator has read, on file or a copy, at any moment. `NoProposal` stands where no proposal or
no approval is on file. A crash may come at any step, the deletion included.

## 3. Runs

| Run | Checks | Distinct states |
|---|---|---|
| `order_manager` | Broker map reaches exactly the tracked orders (`BrokerMapSound`); the global id sets are partitioned among the orders (`IdOwnership`); no fill is handed over twice between compactions (`NoFillReportedTwice`) | 201,021 |
| `order_flow` | A delivered fill is booked, queued or loudly refused (`NoSilentLoss`); no order is finished before the broker finished it (`NeverAheadOfBroker`); submissions are answered and fills settled (`SubmissionAnswered`, `FillSettled`) | 179,517 |
| `order_recovery` | The order path with restarts implements the fill ledger (`LedgerKept`); the account's ids and balances never part (`SeenIffApplied`) | 113,218 |
| `kill_switch` | When an activation returns, no order it found is open at the broker and no submission waits in a mailbox (`ReturnedMeansStopped`); every call ends (`CallEnds`) | 432,359 |
| `runtime_session` | No order in LIVE without a granted and permitted decision, in PAPER_BROKER without a decision, or in an observation or backtest mode that has one (`OrdersApproved`); no order under the kill switch (`KillSwitchHolds`) or after a fault (`FaultBlocksOrders`); restarts within their budget (`RestartBudget`) | 2,085,696 |
| `durability` | A log that recovery accepts is in order and holds every acknowledged event (`AllowedMeansComplete`); exactly which actors get their state back (`RecoveredIff`) | 3,253,334 |
| `intent_processing` | A target filled under numbers of its own is reached (`TargetReached`); account and execution differ only by reused numbers (`DivergesOnlyByReuse`) | 296,082 |
| `ibkr_adapter` | No order id is placed for a second order unless an allocation and a `nextValidId` overlapped (`OrderIdNeverReused`). An execution that no two threads handled at once is booked once (`BookedOnce`); none is forgotten unless it was quarantined during a resolve (`NoExecutionForgotten`); an execution and its commission never stay behind together, races included (`PairNeverStranded`). An order id leads to an order it was placed for (`RoutedToPlacer`); a status seen was reported unless a replay raised (`SeenMeansReported`) | 1,069,900 |
| `account_risk` | Cash, cost, realized result and commissions balance (`AccountBalances`); the position limit holds unless orders of one instrument overlapped (`LimitUnlessInFlight`); leverage and margin hold after the fills of an intent whose risk state was exact, whichever of its plans were filled (`LimitsAfterFills`); a session that has lost its limit sends no order, if nothing was in flight when it began and all intents since were on its bars (`LossStopsOrders`) | 1,148,509 |
| `reconciliation` | A session starts to trade on agreement only (`TradingMeansAgreement`); the switch trips only on a key that stayed divergent (`TripIsPersistent`), and does on the leading one (`LeadingDriftTrips`) | 46,080 |
| `market_data_feed` | What the broker streams is registered (`StreamingRegistered`); after a finished resubscription the broker streams exactly the active requests but those it ended itself (`RestoredStreams`); an event is filed under its own instrument (`QuoteAttribution`) | 8,528,660 |
| `research_campaign` | Every trial is in the landscape once, with its fate (`EveryTrialAccounted`); limits hold over repeated candidates (`BudgetHolds`); evidence of promotions is current (`PromotedEvidenceCurrent`); what verifies is of one campaign (`ReleaseIsWhole`); later generations run under an approval that stood when the engine was started, of a proposal that says what the landscape says (`OnlyApprovedGenerations`) | 1,477,755 |

The modules define further properties that hold and are not in a run, among them the type
invariants (`...TypeOK`), `TrackedOrderKeepsIds`, `FinishedStaysFinished`, `NothingQuarantined`,
`StaleMeansSilent`, `OneShotDegradation` and `TripActivates`: put one in place of the INVARIANTS or PROPERTIES of the
module's cfg. `MCEventStore.cfg` checks the event store by itself, with one line
more than `durability` and torn writes of any event (79,621 distinct states).

Deadlock checking is off where the system may stop: in `order_flow`, `order_recovery`,
`kill_switch`, `account_risk`, `market_data_feed`, `research_campaign` and `ibkr_adapter` when
all bounded requests, calls, orders, connections, sessions or commands are used up, in `durability` when no
store is open on a log that cannot be opened any more.

## 4. Bounds

- `order_manager`: two orders, so that ids of one can be confused with the
  other's; a fill reported under two report ids, a report without a price, a
  rejection. No counter is bounded: resubmission, repetition and compaction go on for ever.
- `order_flow`: one order with submit, cancel, replace, a rejection and two fills, the last
  one deliverable twice, and a second order whose submission is caught behind the
  first one's exceptions. Each request once, because the state space is in the
  mailboxes.
- `order_recovery`: one order with two fills, each delivered twice, and two restarts: the second one
  restores what was saved after the first. Interference of orders is covered by the
  proof, which has no bounds.
- `kill_switch`: two orders, one of which can be left in CANCEL_REQUESTED, and two
  calls, so that a second activation follows one that raised.
- `runtime_session`: all ways to build a session, in every mode, one supervised actor with one restart
  in a window of two ticks, three failures, two orders. One restart and three failures
  are the least that exhaust the budget and see it come back.
- `durability`: two stores, as one can be stale; three lines, two actors, two changes
  each: enough for a change, a snapshot of the other actor and an event after it. A session counts
  two events, so that its count can lag behind the log of an earlier session or run ahead of it. Torn
  writes are of events without state: whether an actor whose change was cut off has
  changed is not a question recovery answers.
- `intent_processing`: two contracts, targets long, flat and short, four intents: two for a
  roll and its collision, two more to go on from there.
- `ibkr_adapter`: `IbkrOrderIds`, `IbkrFills` and `IbkrExecution` share no variable. The run explores each by
  itself: `part` says which one, and the other two stay in their initial states.
  - Order ids: two orders and two order ids, so that an id can be reused; three connections, two of which
    may be abandoned with their readers still to come; two processes, with a file and without.
  - Fills: one execution of the account and one of a foreign account, two readers and the driver. All
    steps of the normalizer look at one execution only, apart from the lists of a flush and of a
    resolve. `MaxBooked` stops at what a race can reach.
  - Order path: two orders and two order ids, so that ids can be confused and reused; a status with a
    mapping and no permanent id, one without a mapping; one restart. `MaxCallbacks` keeps the adapter to
    three remembered callbacks at a time: an early, a repeated and an unmappable one together.
- `account_risk`: two instruments, once both contracts of the future and once one of
  each kind; three intents, the least for open, roll and judge; targets short, flat and long,
  two prices. Prices are multiples of 60 so that every average cost over
  six units is a whole number, and `WholeAverage` leaves out fills for which it is not; the code
  divides decimals of 28 digits. Three rule sets within one session, so that
  the stricter rules do not hide the others, and a fourth one for the loss limit (`SessionBound`): a future
  and a stock with two sessions each that do not change together, four intents (open in the first session,
  begin the second, lose, and be refused), no short targets and one order at a time at the broker.
- `reconciliation`: an order key and a quantity key, amounts on both sides of the tolerance, a
  threshold of three cycles. Nothing else is bounded.
- `market_data_feed`: two streams and two requests, as one may be mistaken for the other, two
  connections, one callback at a time, two queued events.
- `research_campaign`: two families of two candidates, three generations, a budget that ends in
  the middle of one, four commands and one change of the data: run, approve, resume and one that interferes
  or goes on. `DeletedTogether` lets the deletion go in four parts, in any order: the state file, ledger and
  trials, summary and graph, and the rest.

Symmetry is used in `durability` (stores, actors) and `ibkr_adapter` (orders), neither of which has a
liveness property.

## 5. Fairness

Only `FlowSpec` and `KillSpec` state fairness, and only of the driving thread. The other modules have
safety properties only: nothing obliges the market, the broker or an operator to act.

- `FlowFairness`: the thread drains what it has begun to drain (weak fairness of the
  order-manager and account steps together with `Drained`, and of the execution
  step), and drives again when messages wait, as each intent and each cancel does (`Pump`). This
  assumes that bars go on coming; a session that nobody feeds leaves its mailboxes as
  they are. Nothing is assumed of broker and transport: a fill need not happen and a report
  need not arrive. `MaxCopies` is part of the argument: with endless
  repetition `process_all` would never return.
- `KillSpec`: the call goes on with its steps and handles the mailbox it has
  asked. New drives outside a call are not fair there, since `CallEnds` does not need them.

## 6. Proofs

Every safety property of the runs is a theorem: it holds for any sets of orders, reports, fills,
actors, stores, instruments, streams, readers and executions and for any bounds. The proofs rest
on the named assumptions of the modules, and TLC evaluates all of these in the runs:

- broker ids are distinct (`IdAssumption`, from the derivation of both ids from one number), reports
  are well formed (`ReportAssumption`, `FlowAssumption`), a status callback has a permanent id or none
  (`ExecutionAssumption`), and a driver is no reader (`FillsAssumption`);
- the policy is a policy (`PolicyAssumption`), the drift keys are ordered (`KeyOrder`);
- instruments and contracts are finitely many, prices, limits and rates are positive whole numbers
  (`RiskAssumption`, `IntentAssumption`), campaign sizes are whole numbers (`CampaignAssumption`);
- model values differ from the sets they stand beside; bounds are numbers.

The arithmetic of `AccountRisk` is exact: `WholeAverage` is a guard of `FillOrder`, so
nothing is said of rounded average costs.

**OrderFlowProofs.** Of the order manager, `OMTypeCorrect`, `OMBrokerMapSound`, `OMIdOwnership` are
inductive with the type invariant alone. `OMNoFillReportedTwice` needs `ListedFillsSeen`: every fill
in the fills list is in `fillIds`, until a compaction fails half way. Without it a listed
fill could arrive again and be taken for a new one; a compaction that succeeds forgets ids and clears
the list in one step. `FlowImplementsManager` is a refinement: every step of the order flow is a step of
`OrderManager` or leaves it alone, so these theorems hold of the flow as well.
`FlowInv` describes the flow itself: a submission is in one mailbox or has reached the broker, once
(`SubmittedOnce`); a report in the mailbox or on the wire says what is true at the broker
(`TrueReports`); an order finished here is finished there (`NeverAheadOfBroker`); whatever the ids
remember or the transport delivered is booked, in the account's mailbox, still to be handled, or refused
(`FillsKept`); and the account quarantines nothing. None of these is inductive without the others:
a false report would finish an order too early, a second submission would reopen it, and a fill id seen but not handled
would swallow the repeated report. `FlowNoSilentLoss`, `FlowNeverAheadOfBroker`
and `FlowNothingQuarantined` follow.

**KillAndRecoveryProofs.** `RecoveryImplementsLedger` is a refinement: every step of the
order path with restarts is a step of `FillLedger` or leaves it alone. The invariant `LedgerInv`
says that every fill reported on the wire or in the order manager's mailbox, and every fill in
the account's mailbox, has been executed, that the balances of the account and of its
snapshot hold exactly the fills each has seen, once, and that the snapshot is not ahead of
the account. Steps of the order manager are handled
by one lemma on what they may put into mailboxes (`ManagerStep`), so that the
manager's own state, which a restart may set back arbitrarily, plays no part: the account's ids alone
prevent double booking. `RecoverySeenIffApplied` follows from the same invariant.
For the kill switch, `FlowInv` is kept by the call's own steps too (`KillNoSilentLoss`,
`KillImplementsManager`). `KillReturnedMeansStopped` adds `CallInv`, which says at each line of the call
where the drive stands and that the flag is set, and `CancelInv`, which follows the cancels: told, they are
in the order manager's mailbox, then in the execution actor's, and once that is drained the orders are
closed and no submission is left.

**SessionAndRiskProofs.** `SessionKillSwitchHolds`, `SessionFaultBlocksOrders` and
`SessionOrdersApproved` are action properties from one invariant, `GateInv`: the
flag equals the history of activations, a session with a standing fault is not RUNNING, and
the dependencies are ones a session can be built from. Only a bar sends (`OnlyBarsSend`), and
`ApprovedIfAllowed` shows what the startup gate lets through in each mode, for each way to build a session.
`SessionTypeCorrect` covers the supervisor too, and `SessionRestartBudget` counts the restarts in any window
by the cardinality of their entries.
The books and the risk rules need sums over the instruments. The lemmas from `SumUnfolds` to `SumCombined`
say how a sum changes with one summand, by a smallest counterexample among the finite
subsets. On them rest: `AccountBalancesAlways`; `LimitInv` (an instrument within its
limit stays there when its one open order is filled, or it overlapped) for
`LimitUnlessInFlightAlways`; `FreshInv` (an intent begun with nothing in flight has one leg for an
instrument, and one at most that grows) and `ExactInv` (on exact marks the risk state is the
account's own until the growing leg is filled, and that leg has room for what it adds) for
`LimitsAfterFillsAlways`, in any order of the fills; `LossInv` (while the latest session is counted,
which ends with an intent on another session's bar, the calculator's baseline is the realized result at its
start) for `LossStopsOrdersAlways`. All use `PlanInv`:
the books are whole numbers, and an intent plans once for an instrument.

**DurabilityProofs.** `StoreAllowedMeansComplete` needs `StoreInv`: as long as the file is
readable it holds what was acknowledged, no line's number exceeds its place, every counter is
at most one past the end, and the lines are numbered 1, 2, 3 in order or some number occurs twice. An unreadable or repeating
file stays so (`BrokenStays`), an in-order file is continued, repeated or broken by an
append (`NumberingGoesOn`). `DrillImplementsStore` carries this to the drill. `DrillRecoveredIff` needs
`LogInv` on top: in a readable file in order, an actor's changes are logged with increasing versions up to its
present one, and the end of the log when its snapshot was saved divides them at the snapshot's version,
whatever number the session gave it.

**IbkrExecutionProofs.** `IdsInv` says that as long as nothing has overlapped every copy of the cursor (in
memory, in the file, in a reader's maximum or payload) lies above the ids in use, and the id in the driver's
hand above those before it: `OrderIdNeverReusedAlways`. After an overlap only the shape of the state
(`IdsFrame`) is left.
`FillsInv` says where each thread stands in the normalizer. Three parts hold whatever the threads do: a told
execution is held by a thread, staged, completed, or in the quarantine and not about to be dropped from it
(`Remembered`); who finds the commission gone after taking the execution has lost to a thread that
completes it (`CommissionTaken`); and of an execution and a commission that both wait, a thread is on its way to
look (`PairNeverStranded`). For executions that were not raced for, one thread at most has one in its
hands and a completed one is not on its way to be booked again (`OneAtATime`, `NotAgain`): `BookedOnceAlways`.
`MapInv` says that a record has an id its order was placed under, that a quarantined or copied openOrder agrees
with what the broker received, and that a status seen was reported or is being collected, up to a
callback that raises: `RoutedToPlacerAlways`, `SeenMeansReportedAlways`.

**MarketDataFeedProofs.** `StreamingRegisteredAlways` and `QuoteAttributionAlways` follow from
`FeedInv`: the dictionaries and the broker name one contract for a request id, and only for ids that
were handed out (`Tables`); a driver in the middle of a call is at a request of its own
(`Place`); and a callback's request is known as the contract it was sent for or not at all
(`Owned`), so a lookup cannot find another one. `RestoredStreamsAlways` needs `StreamInv`: the broker
streams active requests only; all of them but those it ended itself once they are restored, those visited while
a restoration is under way; and nothing outlives a connection.

**PositionProofs.** `TargetReachedAlways` and `DivergesOnlyByReuseAlways` come from `IntentInv`: ids are
remembered only for numbers that were sent (`Remembered`), and as long as an intent's
numbers are its own, its remaining plans lead exactly from the holdings to the goal (`OnCourse`).
Of reconciliation, `SwitchInv` relates the streak, which follows one key, to the histories
of all: it counts exactly the cycles in which its key led (`StreakIsLead`), at most those in
which it was divergent (`StreakIsRun`), and a trip has reached the kill switch, unless an operator
lifted it since. From it come `LeadingDriftTripsAlways`, `TripIsPersistentAlways` and
`TripActivatesAlways`; `TradingMeansAgreementAlways` follows from the type invariant.

**ResearchCampaignProofs.** `GenerationsApproved` needs `GateInv`: an approval in the state
file is of a proposal the operator read and last approved; the one in the memory of a running engine stood
so when the engine was started, for later decisions on any proposal replace the file and not the
memory; and an engine between generations holds a proposal with the aggregates of the landscape on file. The
rest of the engine matters only through the fields it leaves alone, which the lemmas on its steps say.
`CampaignInv` is about the rest: no trial is decided twice and every decision is in the
landscape or in the memory of the generation under way (`AccountInv`); what was run was accepted
(`RanInv`); the accepted positions of the ledger are within the limits (`BudgetInv`); a promotion
recorded rewritten metrics (`EvidenceInv`); the promoted candidates in memory are those of the landscape, in
order (`PromotedInv`); and the artifact graph exists only over the files of one finished run, some of which a
deletion may have removed (`ReleaseInv`). From it come `EveryTrialAccountedAlways`, `BudgetHoldsAlways`,
`PromotedEvidenceCurrentAlways` and `ReleaseIsWholeAlways`.

Induction over sums is done with a least or greatest element (`WFMin` of the library) of a set
of numbers or of finite subsets, since the library's induction theorems cannot be instantiated.

Only model-checked: the liveness properties `SubmissionAnswered`, `FillSettled` and `CallEnds`, since
fairness and ENABLED are out of the prover's reach; and, outside the runs,
`CampaignTypeOK`, `TrackedOrderKeepsIds`, `FinishedStaysFinished`, `StaleMeansSilent` and
`OneShotDegradation`. No module has a recursive operator.

## 7. Where code and documentation disagree

TLC refutes each property of this table. To see the trace, put it in place of the INVARIANTS (or, for a
formula with a box, the PROPERTIES) of the module's cfg; `MCEventStore.cfg` for `EventStore`,
`MCIbkrAdapter.cfg` for the three IBKR modules, `MCLateStatus.cfg` as it is. The comment on the
property quotes the sentence it tests. The passing runs say what remains true.

| Module | Property | What happens |
|---|---|---|
| `OrderFlow` | `OutOfOrderHarmless` | A FILLED report overtakes a PARTIALLY_FILLED one, whose fill is then refused on every delivery |
| `KillSwitch` | `AllActiveCancelled` | An order in CANCEL_REQUESTED makes the activation raise before the other orders are asked to cancel |
| `KillSwitch` | `NoOrderOpens` | The activation's drive sends a submission that an aborted drive had left behind |
| `KillSwitch` | `RollbackStops` | The rollback asks before it latches (`runtime/rollback.py:23`); an exception leaves the gate open |
| `RuntimeSession` | `PauseHolds` | Disconnect and reconnect turn a paused session into a running one |
| `RuntimeSession` | `ReconciledBeforeRunning` | The reconcile command recovers without reconciling (`runtime/control_plane.py:113`) |
| `RuntimeSession` | `ObservationSubmitsNothing` | A LIVE_OBSERVATION session assembled without a startup decision sends orders: the gate blocks LIVE and PAPER_BROKER only |
| `Durability` | `RecoveredEqualsPreCrash` | Changes between an actor's snapshot and a higher number, of another actor's snapshot or of another session's count, are not replayed |
| `EventStore` | `LogSurvivesCrash` | A torn line makes the event log impossible to open |
| `EventStore` | `MonotonicSequences` | A store opened early appends under a stale counter once the lock is free |
| `IntentProcessing` | `FillsReachAccount` | A roll takes two numbers and advances the session's counter by one |
| `IntentProcessing` | `CompactsTerminalOrders` | The streaming backtest asks to discard a resting order |
| `AccountRisk` | `ReducingPassesMargin` | An account whose margin is used up cannot close a position: zero exceeds a negative headroom |
| `AccountRisk` | `ReducingPassesLimit` | A position past the limit cannot be reduced to one that is still past it |
| `AccountRisk` | `LeverageWithAnyMarks` | A holding outside the intent's own instrument is marked at the wrong price, or at none and counts for nothing |
| `AccountRisk` | `ClosedEventsAgree` | A reduction realizes a result and emits no event, so the events add up to less than the holdings |
| `AccountRisk` | `WindowKeptInSession` | An intent on a bar of another instrument's session takes a new baseline, and so does the way back: the loss of the session is forgotten |
| `Reconciliation` | `PersistentKeyTrips` | A smaller key that flickers takes the focus and resets the streak of one that stays divergent |
| `IbkrOrderIds` | `OrderIdNeverReusedAtAll` | An abandoned reader stores an old maximum after an allocation and rolls the cursor back: the next order gets the same id |
| `IbkrFills` | `BookedOnceAtAll` | A repeated execution passes the duplicate check before a flush, is staged again after it, and is booked twice |
| `IbkrFills` | `NothingForgotten` | An execution quarantined between the copy of the list and its replacement is gone |
| `IbkrExecution` | `NoFillDropped` | A wait for one order takes the fill of another off the queue and drops it |
| `IbkrExecution` | `FilledStaysFilled` (`MCLateStatus.cfg`) | A late openOrder callback replaces Filled by an open status in the order map |
| `MarketDataFeed` | `ActiveIsStreamed` | A refusal after the request, lost data or the end of a snapshot leaves the request in the map of active ones, though the broker streams nothing for it |
| `MarketDataFeed` | `NoEventLost` | An event queued between `tuple()` and `clear()` of a drain is lost |
| `MarketDataFeed` | `SilenceReported` | An event between check and mark leaves the stream marked as stale, and its next silence is not signalled |
| `MarketDataFeed` | `ReaderNeverRaises` | A tick of a request that was just cancelled raises into ibapi's reader |
| `MarketDataFeed` | `QuoteOfOneConnection` | After a lost connection a quote combines a new side with an old one |
| `ResearchCampaign` | `WithdrawnNeverRuns` | A rejection recorded while a resumed engine runs does not keep the next generation from starting |
| `ResearchCampaign` | `ApprovedOnTheseData` | An approval given on other data counts when the aggregates are equal |
| `ResearchCampaign` | `ReleaseIsFinished` | `campaign verify` accepts what a deletion cut short has left: summary, graph, landscape and proposal without state and ledger |
| `ResearchCampaign` | `StopPersists` | A stop issued while the engine runs is overwritten when the run ends |
| `ResearchCampaign` | `ResumeClearsStopped` | A stopped campaign cannot be resumed |
| `ResearchCampaign` | `TwoStageSelects` | The audit log refuses the record of a two-stage selection, so the campaign raises |
| `ResearchCampaign` | `ApprovedBudgetHolds` | A generation runs more trials than the budget its proposal was approved with |

## 8. What is not modelled

- Prices, quantities and cash outside `AccountRisk`: the order path's properties are about
  which fills are booked. Within it: FIFO lots, several currencies and multipliers,
  the rounding of decimals, `MarginLedger` and `ReservationBook`, which the runtime does not call.
- Risk rules that look at one request only: order specification, order quantity, permission and
  freshness of market data, trading session, volatility.
- The time-out of `ask`: the asking thread drains the mailbox itself, so the answer is there
  or the actor raised.
- Event writing, evidence payloads, logs and metrics.
- Schema migration and `InMemoryEventStore`.
- Several account partitions in one session: partitions share only the kill switch and the
  session's counter, which the modules have.
- IBKR contract and order objects, real-time bars, cancel and replace requests of the order transport.
  Of the market-data transport's errors the queue and the pacing deadline, which make a later subscription raise
  without any change; what the broker does to streams when it sends an error is modelled (`HandleError`).
- A crash in the middle of a write of the order-id file or of an audit log.
- The rejection of a request by the simulated broker: it accepts every replace and cancel of an order it
  knows and raises for another. A broker's own rejection of an order is modelled (`Reject`).
- How the broker snapshot of a reconciliation is collected.
- What a backtest computes, statistics, scores and artifact contents of a campaign: verdicts of
  the oracle. The experiment queue, which the campaign engine does not use, and the commands of
  `run_research.py` that are not about campaigns.
- Bar aggregation and the market-data actor, signal aggregation: planned, see below.
- Sockets, files of historical data, the rest of the research library, reporting, indicators and factors, API,
  frontend, quality gates, Rust crates: I/O, offline computation or display, most of the
  repository's lines.

## 9. Plan

Done, in this order: order manager, order flow, recovery with the fill ledger, session and
supervision, kill switch, event store and durability, intent processing; IBKR order ids, fills and order
path, research campaigns, market-data feed, reconciliation, risk and books.

Next modules:

1. Bar aggregation across gaps, late bars and session ends (`data/bars/aggregator.py`), and the
   market-data actor whose subscriber is registered before the feed is asked.
2. Deferred execution at the next open in the backtest (`backtest/actor_loop.py`,
   `defer_strategy_intent`).
3. Signal aggregation over several strategies and accounts.
4. FIFO lots as operators against a reference definition.
5. The composition of `IbkrExecution` with `OrderFlow` through the execution report handler.

Next proofs:

1. The properties outside the runs that only TLC has checked: `CampaignTypeOK`, `TrackedOrderKeepsIds`,
   `FinishedStaysFinished`, `StaleMeansSilent`, `OneShotDegradation`.
2. An abstract specification of the order gate (closed by five parties, opened by an approval)
   which `RuntimeSession` and `KillSwitch` both implement.
3. With the composition of `IbkrExecution` and `OrderFlow`: the adapter implements the broker side
   that `OrderFlow` assumes.
