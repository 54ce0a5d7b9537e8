----------------------------- MODULE RiskRules -----------------------------
(***************************************************************************)
(* The deterministic rules of app/risk.py and app/strategies.py, in ticks: *)
(* setup priority and risk profiles, the size of a position, the trailing  *)
(* stop and the delivery costs.  Money is counted in 1/Unit of a tick.     *)
(***************************************************************************)
EXTENDS Integers

CONSTANTS
  RiskDivisor,   \* RISK_PER_TRADE_PCT is 1 / RiskDivisor
  Unit,
  CostRate       \* delivery costs of a turnover of one tick, in 1/Unit of a tick

ASSUME RiskRulesPositive == RiskDivisor \in Nat \ {0} /\ Unit \in Nat \ {0} /\ CostRate \in Nat

Least(a, b) == IF a <= b THEN a ELSE b
Greatest(a, b) == IF a >= b THEN a ELSE b

Strategies == {"breakout", "pullback", "reversion"}
\* STRATEGY_PRIORITY
Place(s) == CASE s = "breakout" -> 1 [] s = "pullback" -> 2 [] s = "reversion" -> 3
\* atr_hard_mult, in halves, and min_risk_to_reward
HardHalves(s) == IF s = "pullback" THEN 5 ELSE 4
Reward(s) == IF s = "breakout" THEN 3 ELSE 2

\* What the strategies ask of a bar; a comparison with a missing indicator does
\* not hold, and a weekly indicator that is missing counts as good.
Signals ==
  [zone : {"above the high of 20 days", "inside", "below the band"},
   aboveEma50 : BOOLEAN, aboveEma200 : BOOLEAN,
   oversold : BOOLEAN, below30 : BOOLEAN,     \* rsi_14 < RSI_OVERSOLD_MAX, < 30
   traded : BOOLEAN, heavy : BOOLEAN,         \* volume > VOLUME_RATIO_MIN, > 1.5 times its average
   weeklyRsi : {"below 45", "below 50", "good"},
   weeklyEma : {"far below", "below", "good"}] \* the close, under 85% of it or under it

Qualifies(s, g) ==
  CASE s = "pullback" ->
         /\ g.aboveEma200 /\ g.oversold /\ g.traded
         /\ g.weeklyRsi # "below 45" /\ g.weeklyEma = "good"
    [] s = "breakout" ->
         /\ g.zone = "above the high of 20 days" /\ g.aboveEma50 /\ g.heavy
         /\ g.weeklyRsi = "good" /\ g.weeklyEma = "good"
    [] s = "reversion" ->
         /\ g.zone = "below the band" /\ g.below30 /\ g.aboveEma200 /\ g.traded
         /\ g.weeklyEma # "far below"

\* The sets of setups that can qualify together.
Setups == {{s \in Strategies : Qualifies(s, g)} : g \in Signals}

\* evaluate_all_strategies, of the setups that qualify
Primary(setups) == CHOOSE s \in setups : \A o \in setups : Place(s) <= Place(o)

\* calculate_risk.  The range of an instance is even, so that halves are ticks.
HardStop(entry, atr, s) == entry - (HardHalves(s) * atr) \div 2
Target(entry, atr, s) == entry + Reward(s) * (entry - HardStop(entry, atr, s))
\* Mutant: sized by the soft stop, one range below the entry.
QuantityBySoftStop(entry, atr, capital, s) == capital \div (RiskDivisor * Unit * atr)

Quantity(entry, atr, capital, s) ==
  capital \div (RiskDivisor * Unit * (entry - HardStop(entry, atr, s)))

\* Mutant: a stop at zero or below it is accepted.
AcceptedAnyStop(entry, atr, capital, s) ==
  entry > 0 /\ atr > 0 /\ capital > 0 /\ Quantity(entry, atr, capital, s) > 0

Accepted(entry, atr, capital, s) ==
  /\ entry > 0 /\ atr > 0 /\ capital > 0
  /\ HardStop(entry, atr, s) > 0
  /\ Quantity(entry, atr, capital, s) > 0

\* calculate_trailing_stop.
InitialRisk(entry, hard) == entry - hard
AtTrailing(entry, hard, highest) ==
  InitialRisk(entry, hard) > 0 /\ highest >= entry + 2 * InitialRisk(entry, hard)
AtBreakEven(entry, hard, highest) ==
  InitialRisk(entry, hard) > 0 /\ 2 * highest >= 2 * entry + 3 * InitialRisk(entry, hard)
\* Mutant: the stop goes to the entry once the risk is earned.
StopAimedAtOneR(entry, hard, highest, atr, base) ==
  IF highest >= entry + InitialRisk(entry, hard) THEN Greatest(base, entry) ELSE base

StopAimedAt(entry, hard, highest, atr, base) ==
  IF AtTrailing(entry, hard, highest)
    THEN Greatest(Greatest(base, entry), highest - (3 * atr) \div 2)
    ELSE IF AtBreakEven(entry, hard, highest) THEN Greatest(base, entry) ELSE base

\* Mutant: the stop is not capped at the price.
TrailingStopUncapped(entry, hard, highest, price, atr, previous) ==
  StopAimedAt(entry, hard, highest, atr, Greatest(previous, hard))

TrailingStop(entry, hard, highest, price, atr, previous) ==
  LET base == Greatest(previous, hard) IN
  IF InitialRisk(entry, hard) <= 0
    THEN hard
    ELSE Greatest(Least(StopAimedAt(entry, hard, highest, atr, base), price), base)

\* calculate_delivery_costs, in proportion to the turnover
DeliveryCosts(value) == CostRate * value

=============================================================================
