----------------------------- MODULE MCAccountRisk -----------------------------
(***************************************************************************)
(* Instance of AccountRisk for TLC: three sets of rules within one trading *)
(* session, and the loss limit over sessions of two instruments that do    *)
(* not change together.                                                    *)
(***************************************************************************)
EXTENDS AccountRisk

\* A future with two contracts, a future and a stock.
MCContinuous == {{"a", "b"}, {"a"}}

MCQuantities == {-2, 0, 1}

\* Each rule on the books with rules that do not hide it.
MCLimitRules == {{"position_limit", "concentration_limit"},
                 {"leverage_limit", "intraday_loss_limit", "max_notional"},
                 {"margin_limit"}}
MCLossRules == {"leverage_limit", "intraday_loss_limit"}
MCRuleSets == MCLimitRules \cup {MCLossRules}

\* Bound: several sessions, and the fourth intent, for the loss limit only, on an
\* account with a future and a stock that does not go short and has one order at a
\* time at the broker.
SessionBound ==
    IF rules = MCLossRules
    THEN /\ contracts = {"a"} /\ Cardinality(open) <= 1
         /\ \A k \in DOMAIN plans : plans[k].delta >= -1
    ELSE intents <= 3 /\ \A i \in Instruments : session[i] = 1
=============================================================================
