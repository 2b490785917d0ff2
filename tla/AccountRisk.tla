------------------------------ MODULE AccountRisk ------------------------------
(***************************************************************************)
(* What an account holds and what its risk rules let it buy: the holdings  *)
(* and the cash of AccountActor, the risk state that                       *)
(* TargetIntentProcessor.process_intent reads once per intent, and the     *)
(* rules RiskEngine applies to each order plan of that intent.             *)
(*                                                                         *)
(* An approved order fills at once, as in a simulation, or at any later    *)
(* moment, as at a broker.  Fills are whole, in one currency, with         *)
(* multiplier 1, and leave average costs that are whole numbers (the       *)
(* code's are decimals of 28 digits).                                      *)
(***************************************************************************)
EXTENDS Integers, Sequences, FiniteSets, Functions, SequencesExt

CONSTANTS
    Instruments,     \* what is traded
    Continuous,      \* the sets of contracts that a continuous future may stand for
    Quantities,      \* targets a strategy may ask for
    Prices,          \* prices
    InitialCash,
    Commission,      \* of each fill
    RuleSets,        \* the sets of rules a risk engine may be configured with
    MaxPosition, MaxLeverage, MaxNotional, MaxLoss,
    MaxPercent,      \* max_fraction of ConcentrationLimitRule, in percent
    MarginDivisor,   \* 1 / initial_margin_rate
    Future,          \* the continuous future, as the asset of an intent
    None,            \* no mark
    MaxIntents,      \* bound: intents
    MaxSessions      \* bound: trading sessions

ASSUME RiskAssumption ==
    /\ IsFiniteSet(Instruments) /\ Continuous \subseteq SUBSET Instruments
    /\ Future \notin Instruments
    /\ 0 \in Quantities /\ Quantities \subseteq Int
    /\ Prices \subseteq Nat \ {0} /\ None \notin Int
    /\ InitialCash \in Nat /\ Commission \in Nat
    /\ {MaxPosition, MaxLeverage, MaxNotional, MaxLoss, MarginDivisor} \subseteq Nat \ {0}
    /\ MaxPercent \in 1..100
    /\ MaxIntents \in Nat /\ MaxSessions \in Nat \ {0}

VARIABLES
    contracts,    \* related_contracts_for the continuous future
    rules,        \* RiskEngine._rules
    front,        \* the contract the continuous future resolves to
    price,        \* the market
    session,      \* session_id of each instrument's bars, as the number of its day
    cash,         \* CashBook
    holding,      \* HoldingBook
    closedPnl,    \* realized_pnl of the PositionClosed events
    calculator,   \* IntradayPnlCalculator: session and realized baseline
    intents,      \* how many intents were processed
    plans,        \* order plans of the current intent that are still to be checked
    risk,         \* its risk state
    open,         \* orders at the broker
    fresh,        \* history: at the start of the intent nothing was open, and no price moved since
    marked,       \* history: its risk state marked every holding at its own price
    grew,         \* history: a fill since its start increased a position
    paid,         \* history: commissions
    paidBefore,   \* history: commissions before the intent
    overlapped,   \* history: instruments planned for while an order of theirs was open
    opening       \* history: the latest session, the realized result at its start, whether no
                  \* order was open then, and whether an intent since was on a bar of an earlier one

books == <<cash, holding, closedPnl, paid>>
market == <<contracts, rules, front, price, session>>
riskVars == <<market, books, calculator, intents, plans, risk, open, fresh, marked, grew,
              paidBefore, overlapped, opening>>

Abs(n) == IF n < 0 THEN -n ELSE n
Sign(n) == IF n < 0 THEN -1 ELSE 1
Lesser(a, b) == IF a < b THEN a ELSE b

Flat == [quantity |-> 0, cost |-> 0, realized |-> 0]

RiskInit ==
    /\ contracts \in Continuous /\ rules \in RuleSets
    /\ front \in IF contracts = {} THEN {None} ELSE contracts
    /\ price \in [Instruments -> Prices]
    /\ session = [i \in Instruments |-> 1]
    /\ cash = InitialCash /\ holding = [i \in Instruments |-> Flat] /\ closedPnl = 0
    /\ calculator = [session |-> None, baseline |-> [i \in Instruments |-> 0]]
    /\ intents = 0 /\ plans = <<>> /\ risk = None /\ open = {}
    /\ fresh = FALSE /\ marked = FALSE /\ grew = FALSE
    /\ paid = 0 /\ paidBefore = 0 /\ overlapped = {}
    /\ opening = [session |-> 1, realized |-> 0, settled |-> TRUE, strayed |-> FALSE]

-----------------------------------------------------------------------------
(***************************************************************************)
(* Holdings: HoldingBook under average cost.                               *)
(***************************************************************************)
SameSide(a, b) == (a > 0) = (b > 0)

\* _increase: quantities on one side are averaged.
Increase(h, d, p) ==
    [h EXCEPT !.quantity = @ + d,
              !.cost = IF h.quantity = 0 THEN p
                       ELSE (Abs(h.quantity) * h.cost + Abs(d) * p) \div Abs(h.quantity + d)]

\* Bound: that average is a whole number.
WholeAverage(h, d, p) ==
    h.quantity # 0 /\ SameSide(h.quantity, d) =>
        (Abs(h.quantity) * h.cost + Abs(d) * p) % Abs(h.quantity + d) = 0

\* The result of closing what d closes of h at price p.
CloseRealized(h, d, p) == Lesser(Abs(h.quantity), Abs(d)) * (p - h.cost) * Sign(h.quantity)

\* A flip that keeps the average cost of the side it leaves.
ReduceKeepsCost(h, d, p) ==
    [h EXCEPT !.quantity = @ + d, !.realized = @ + CloseRealized(h, d, p)]

\* _reduce_or_flip: the other side of a flip starts at the fill's price.
ReduceOrFlip(h, d, p) ==
    [h EXCEPT !.quantity = @ + d,
              !.realized = @ + CloseRealized(h, d, p),
              !.cost = IF Abs(d) > Abs(h.quantity) THEN p ELSE @]

ApplyFill(h, d, p) ==
    IF h.quantity = 0 \/ SameSide(h.quantity, d) THEN Increase(h, d, p) ELSE ReduceOrFlip(h, d, p)

\* The realized_pnl of the PositionClosed event, if there is one: a fill that
\* leaves part of the position open emits none.
ClosedPnl(h, d, p) ==
    IF h.quantity # 0 /\ ~SameSide(h.quantity, d) /\ Abs(d) >= Abs(h.quantity)
    THEN CloseRealized(h, d, p) ELSE 0

-----------------------------------------------------------------------------
(***************************************************************************)
(* The risk state: PortfolioValuator, MarginCalculator and                 *)
(* IntradayPnlCalculator on one snapshot of the account.                   *)
(***************************************************************************)
\* _build_mark_map of an intent for an asset on a bar of b.  A continuous future
\* knows the prices of its own contracts only; any other asset takes the price
\* of the bar for everything that is held.
Mark(asset, b) ==
    [i \in Instruments |-> IF asset # Future THEN price[b]
                           ELSE IF i \in contracts THEN price[i] ELSE None]

\* valuate: a holding without a mark is worth nothing.
Values(mark) ==
    [i \in Instruments |-> IF mark[i] = None THEN 0 ELSE holding[i].quantity * mark[i]]

Unrealized(mark) ==
    [i \in Instruments |-> IF mark[i] = None THEN 0
                           ELSE holding[i].quantity * (mark[i] - holding[i].cost)]

Realized == [i \in Instruments |-> holding[i].realized]

\* A calculator that keeps the baseline of its first session.
BaselineOfFirst(id) == IF calculator.session = None THEN Realized ELSE calculator.baseline

\* compute, first half: a session other than that of the last intent, be it a later
\* or an earlier one, takes the realized result of this moment as its baseline.
Baseline(id) == IF calculator.session # id THEN Realized ELSE calculator.baseline

\* RiskStateSnapshot.from_account, with compute's second half.
RiskState(mark, id) ==
    LET value == Values(mark)
    IN  [equity   |-> cash + SumFunction(value),
         exposure |-> SumFunction([i \in Instruments |-> Abs(value[i])]),
         notional |-> [i \in Instruments |-> Abs(value[i])],
         quantity |-> [i \in Instruments |-> holding[i].quantity],
         pnl      |-> SumFunction([i \in Instruments |->
                          Realized[i] - Baseline(id)[i] + Unrealized(mark)[i]])]

-----------------------------------------------------------------------------
(***************************************************************************)
(* The rules, each for a plan and the intent's risk state.                 *)
(***************************************************************************)
Notional(plan) == Abs(plan.delta) * plan.price

\* A limit that forgets the short side.
PositionLimitLongOnly(plan) == risk.quantity[plan.instrument] + plan.delta > MaxPosition

PositionLimit(plan) == Abs(risk.quantity[plan.instrument] + plan.delta) > MaxPosition

\* A rule that looks at the order alone.
LeverageLimitOfOrder(plan) == Notional(plan) > MaxLeverage * risk.equity

\* Every order adds to the exposure, one that closes a position too.
LeverageLimit(plan) == risk.exposure + Notional(plan) > MaxLeverage * risk.equity

\* So does one that closes a position in its own instrument.
ConcentrationLimit(plan) ==
    100 * (risk.notional[plan.instrument] + Notional(plan)) > MaxPercent * risk.equity

\* _projected_initial_margin: the part of the order that increases the position.
Increasing(plan) ==
    LET now == risk.quantity[plan.instrument]
        grown == Abs(now + plan.delta) - Abs(now)
    IN  IF grown > 0 THEN grown ELSE 0

\* margin_requirement and order_initial_margin, both multiplied by MarginDivisor.
AvailableMargin == MarginDivisor * risk.equity - risk.exposure
OrderInitialMargin(plan) == Increasing(plan) * plan.price

MarginLimit(plan) == OrderInitialMargin(plan) > AvailableMargin

MaxNotionalLimit(plan) == Notional(plan) > MaxNotional

IntradayLossLimit == risk.pnl < -MaxLoss

\* RiskEngine.check
Rejected(plan) ==
    \/ "position_limit" \in rules /\ PositionLimit(plan)
    \/ "leverage_limit" \in rules /\ LeverageLimit(plan)
    \/ "concentration_limit" \in rules /\ ConcentrationLimit(plan)
    \/ "margin_limit" \in rules /\ MarginLimit(plan)
    \/ "max_notional" \in rules /\ MaxNotionalLimit(plan)
    \/ "intraday_loss_limit" \in rules /\ IntradayLossLimit

-----------------------------------------------------------------------------
(***************************************************************************)
(* Between intents.                                                        *)
(***************************************************************************)
busy == plans # <<>>

\* The instruments with an order at the broker.
InFlight == {o.plan.instrument : o \in open}

\* A price moves.
Bar(i, p) ==
    /\ ~busy /\ p # price[i]
    /\ price' = [price EXCEPT ![i] = p]
    /\ fresh' = FALSE
    /\ UNCHANGED <<contracts, rules, front, session, books, calculator, intents, plans, risk,
                   open, marked, grew, paidBefore, overlapped, opening>>

\* The next trading session of an instrument.  Session windows are per instrument,
\* and an overnight session is that of the next day: one instrument may be in it
\* while another one still is in the last.
NextSession(i) ==
    /\ ~busy /\ session[i] < MaxSessions
    /\ session' = [session EXCEPT ![i] = @ + 1]
    /\ opening' = IF session[i] < opening.session THEN opening
                  ELSE [session |-> session[i] + 1, realized |-> SumFunction(Realized),
                        settled |-> open = {}, strayed |-> FALSE]
    /\ UNCHANGED <<contracts, rules, front, price, books, calculator, intents, plans, risk,
                   open, fresh, marked, grew, paidBefore, overlapped>>

\* The roll registry resolves to another contract.
Roll(c) ==
    /\ ~busy /\ c # front
    /\ front' = c
    /\ UNCHANGED <<contracts, rules, price, session, books, calculator, intents, plans, risk,
                   open, fresh, marked, grew, paidBefore, overlapped, opening>>

-----------------------------------------------------------------------------
(***************************************************************************)
(* An intent.                                                              *)
(***************************************************************************)
Plan(i, target, mark) == [instrument |-> i, delta |-> target - holding[i].quantity, price |-> mark[i]]

\* OrderPlanBuilder.build: a continuous future leaves its other contracts first.
BuildPlans(asset, target, mark) ==
    LET traded == IF asset = Future THEN front ELSE asset
        left == {c \in contracts \ {front} : asset = Future /\ holding[c].quantity # 0}
        leave == SetToSeq(left)
    IN  [k \in 1..Len(leave) |-> Plan(leave[k], 0, mark)]
            \o (IF target = holding[traded].quantity THEN <<>> ELSE <<Plan(traded, target, mark)>>)

\* process_intent up to its loop.  The bar of an intent need not be one of its asset.
StartIntent(asset, b, target) ==
    LET mark == Mark(asset, b)
        held == {i \in Instruments : holding[i].quantity # 0}
        built == BuildPlans(asset, target, mark)
        planned == {built[k].instrument : k \in DOMAIN built}
    IN  /\ ~busy /\ intents < MaxIntents
        /\ intents' = intents + 1
        /\ calculator' = [session |-> session[b], baseline |-> Baseline(session[b])]
        /\ plans' = built
        /\ risk' = IF built = <<>> THEN None ELSE RiskState(mark, session[b])
        /\ fresh' = (open = {})
        /\ marked' = \A i \in held \cup planned : mark[i] = price[i]
        /\ grew' = FALSE /\ paidBefore' = paid
        /\ overlapped' = (planned \cap InFlight) \cup
              {i \in overlapped : i \in InFlight \/ Abs(holding[i].quantity) > MaxPosition}
        /\ opening' = [opening EXCEPT !.strayed = @ \/ session[b] # opening.session]
        /\ UNCHANGED <<market, books, open>>

Proceed == plans' = Tail(plans) /\ risk' = IF Len(plans) = 1 THEN None ELSE risk

\* OrderRiskRequest refuses an equity that is not positive: the intent ends.
RiskRaises ==
    /\ busy /\ risk.equity <= 0
    /\ plans' = <<>> /\ risk' = None
    /\ UNCHANGED <<market, books, calculator, intents, open, fresh, marked, grew, paidBefore,
                   overlapped, opening>>

RejectPlan ==
    /\ busy /\ risk.equity > 0 /\ Rejected(Head(plans))
    /\ Proceed
    /\ UNCHANGED <<market, books, calculator, intents, open, fresh, marked, grew, paidBefore,
                   overlapped, opening>>

\* The order goes to the broker.
SubmitPlan ==
    LET plan == Head(plans)
    IN  /\ busy /\ risk.equity > 0 /\ ~Rejected(plan)
        /\ Proceed
        /\ open' = open \cup {[intent |-> intents, plan |-> plan]}
        /\ UNCHANGED <<market, books, calculator, intents, fresh, marked, grew, paidBefore,
                       overlapped, opening>>

\* AccountActor._apply_fill of an order's one fill, at its own price or at the
\* market's of the moment.
FillOrder(o, p) ==
    LET i == o.plan.instrument
        d == o.plan.delta
    IN  /\ WholeAverage(holding[i], d, p)
        /\ open' = open \ {o}
        /\ holding' = [holding EXCEPT ![i] = ApplyFill(@, d, p)]
        /\ closedPnl' = closedPnl + ClosedPnl(holding[i], d, p)
        /\ cash' = cash - d * p - Commission
        /\ paid' = paid + Commission
        /\ grew' = (grew \/ Abs(holding[i].quantity + d) > Abs(holding[i].quantity))
        /\ fresh' = (fresh /\ p = o.plan.price)
        /\ UNCHANGED <<market, calculator, intents, plans, risk, marked, paidBefore,
                       overlapped, opening>>

\* The broker rejects or cancels it.
DropOrder(o) ==
    /\ open' = open \ {o}
    /\ UNCHANGED <<market, books, calculator, intents, plans, risk, fresh, marked, grew,
                   paidBefore, overlapped, opening>>

RiskNext ==
    \/ \E i \in Instruments, p \in Prices : Bar(i, p)
    \/ \E i \in Instruments : NextSession(i)
    \/ \E c \in contracts : Roll(c)
    \/ \E b \in Instruments, q \in Quantities :
          \/ \E i \in Instruments \ contracts : StartIntent(i, b, q)
          \/ contracts # {} /\ b = front /\ StartIntent(Future, b, q)
    \/ RiskRaises
    \/ RejectPlan
    \/ SubmitPlan
    \/ \E o \in open : \E p \in {o.plan.price, price[o.plan.instrument]} : FillOrder(o, p)
    \/ \E o \in open : DropOrder(o)

RiskSpec == RiskInit /\ [][RiskNext]_riskVars

-----------------------------------------------------------------------------
(***************************************************************************)
(* Properties.                                                             *)
(***************************************************************************)
\* No sequence of openings, increases, reductions, flips and reopenings creates
\* or loses money: cash and the cost of what is held are the initial cash, what
\* was realized, and the commissions paid (HoldingBook.apply_fill, _apply_fill).
AccountBalances ==
    cash + SumFunction([i \in Instruments |-> holding[i].quantity * holding[i].cost])
        = InitialCash + SumFunction(Realized) - paid

\* The position limit holds through rolls, flips and rejected legs, except where
\* an order was planned while another one for its instrument was still open:
\* the rule counts what is held, never what is on its way (PositionLimitRule).
LimitUnlessInFlight ==
    "position_limit" \in rules =>
        \A i \in Instruments : Abs(holding[i].quantity) <= MaxPosition \/ i \in overlapped

Equity == cash + SumFunction(Values(price))
Exposure == SumFunction([i \in Instruments |-> Abs(Values(price)[i])])

\* Although all plans of an intent are judged by the state before the first of
\* them, whichever of them are filled, rejected or dropped, in any order, the
\* account ends within its leverage and with its initial margin covered,
\* commissions aside, if the intent's risk state was exact: nothing in flight,
\* every holding at its own price (process_intent, LeverageLimitRule, MarginRule).
LimitsAfterFills ==
    fresh /\ marked /\ grew =>
        LET before == Equity + (paid - paidBefore)
        IN  /\ "leverage_limit" \in rules => Exposure <= MaxLeverage * before
            /\ "margin_limit" \in rules => Exposure <= MarginDivisor * before

\* What the latest session has lost: realized since its start, and unrealized.
SessionPnl == SumFunction(Realized) - opening.realized + SumFunction(Unrealized(price))

\* Once the latest session's loss exceeds the limit no order leaves, if the risk state
\* was exact, nothing was in flight when the session began, and every intent since
\* was on a bar of it; neither the result of earlier sessions nor intents on bars of
\* two sessions before it began offset it (IntradayPnlCalculator,
\* IntradayLossLimitRule).
LossStopsOrders ==
    [][SubmitPlan /\ "intraday_loss_limit" \in rules /\ fresh /\ marked
          /\ opening.settled /\ ~opening.strayed
          => SessionPnl >= -MaxLoss]_riskVars

\* _session_id_for: another key than the bar's session_id "would reset the
\* intraday-loss window mid-session".  With this key the window is not reset: an
\* intent on a bar of the calculator's own session is judged by all that was lost
\* since the session began.
WindowKeptInSession ==
    [][SubmitPlan /\ "intraday_loss_limit" \in rules /\ fresh /\ marked
          /\ opening.settled /\ calculator.session = opening.session
          => SessionPnl >= -MaxLoss]_riskVars

\* MarginRule: "Risk-reducing orders carry non-positive incremental margin and
\* always pass."
ReducingPassesMargin ==
    [][RejectPlan /\ "margin_limit" \in rules /\ MarginLimit(Head(plans))
          => Increasing(Head(plans)) > 0]_riskVars

\* PositionLimitRule: "a risk-reducing order (...) is never blocked by an absolute
\* position limit".
ReducingPassesLimit ==
    [][RejectPlan /\ "position_limit" \in rules /\ PositionLimit(Head(plans))
          => Increasing(Head(plans)) > 0]_riskVars

\* RiskStateSnapshot: a missing field must "fail closed (reject the order), NOT
\* silently pass": leverage within its limit also when a holding had no mark of its own.
LeverageWithAnyMarks ==
    fresh /\ grew /\ "leverage_limit" \in rules =>
        Exposure <= MaxLeverage * (Equity + (paid - paidBefore))

\* drain_position_closed_events: the events keep "Holdings and the report artifacts
\* in single-source-of-truth agreement on realized PnL".
ClosedEventsAgree ==
    (\A i \in Instruments : holding[i].quantity = 0) => closedPnl = SumFunction(Realized)

=============================================================================
