--------------------------- MODULE BacktestProofs ---------------------------
(***************************************************************************)
(* Theorems of Backtest: its types, that exits are honest and that losses  *)
(* are planned, for every set of prices and ranges, every capital, rate    *)
(* and divisor, and any number of bars.                                    *)
(***************************************************************************)
EXTENDS Backtest, TLAPS

-----------------------------------------------------------------------------
(***************************************************************************)
(* Integer division, by divisors that are not numerals.                    *)
(***************************************************************************)
LEMMA Division ==
  ASSUME NEW a \in Int, NEW b \in Nat \ {0}
  PROVE  /\ a \div b \in Int
         /\ b * (a \div b) <= a
         /\ a < b * (a \div b) + b
  BY SMT

LEMMA Whole ==
  ASSUME NEW a \in Int, NEW b \in Nat \ {0}, NEW m \in Int, m * b <= a
  PROVE  m <= a \div b
  BY Division

LEMMA Part ==
  ASSUME NEW a \in Nat, NEW b \in Nat \ {0}
  PROVE  a \div b \in 0..a
  BY Division

LEMMA Times ==
  ASSUME NEW a \in Int, NEW b \in Int, NEW c \in Nat, a <= b
  PROVE  c * a <= c * b
  OBVIOUS

-----------------------------------------------------------------------------
(***************************************************************************)
(* The rules of RiskRules.                                                 *)
(***************************************************************************)
LEMMA PrimaryIsASetup ==
  ASSUME NEW setups \in Setups, setups # {}
  PROVE  Primary(setups) \in Strategies
  <1>1. setups \subseteq Strategies
    BY DEF Setups
  <1>2. \E s \in setups : \A o \in setups : Place(s) <= Place(o)
    <2>1. CASE "breakout" \in setups
      BY <1>1, <2>1 DEF Strategies, Place
    <2>2. CASE "breakout" \notin setups /\ "pullback" \in setups
      BY <1>1, <2>2 DEF Strategies, Place
    <2>3. CASE "breakout" \notin setups /\ "pullback" \notin setups
      BY <1>1, <2>3 DEF Strategies, Place
    <2> QED BY <2>1, <2>2, <2>3
  <1> QED BY <1>1, <1>2 DEF Primary

LEMMA HardStopBelow ==
  ASSUME NEW entry \in Nat, NEW atr \in Nat, atr > 0, NEW s \in Strategies
  PROVE  HardStop(entry, atr, s) \in Int /\ HardStop(entry, atr, s) < entry
  BY DEF HardStop, HardHalves

\* calculate_trailing_stop never lowers a stop, never sets one above the price
\* (unless it was there before), and raises one only once the highest price
\* has reached the break-even gate; at any prices and ranges.
THEOREM StopRatchets ==
  ASSUME NEW entry \in Nat, NEW hard \in Nat, hard < entry, NEW highest \in Nat,
         NEW price \in Nat, NEW atr \in Nat, NEW previous \in Nat,
         NEW stop, stop = TrailingStop(entry, hard, highest, price, atr, previous)
  PROVE  /\ stop \in Nat
         /\ stop >= previous /\ stop >= hard
         /\ stop <= Greatest(Greatest(previous, hard), price)
         /\ stop > Greatest(previous, hard) => AtBreakEven(entry, hard, highest)
  BY DEF TrailingStop, InitialRisk, StopAimedAt, AtTrailing, AtBreakEven, Greatest, Least

LEMMA SlippageKeepsOrder ==
  ASSUME NEW p \in Nat, NEW q \in Nat, p <= q
  PROVE  /\ Sold(p) \in Nat /\ Bought(p) \in Nat
         /\ Bought(p) >= p
         /\ Sold(p) <= Sold(q)
  BY BacktestSane, Division DEF Sold, Bought

\* The quantity risks no more than the budget.
LEMMA SizedToBudget ==
  ASSUME NEW money \in Int, NEW distance \in Nat \ {0},
         NEW q \in Nat, q = money \div (RiskDivisor * Unit * distance)
  PROVE  Unit * q * distance <= money \div RiskDivisor
  <1>1. RiskDivisor * Unit * distance \in Nat \ {0}
    BY RiskRulesPositive
  <1>2. (RiskDivisor * Unit * distance) * q <= money
    BY <1>1, Division
  <1>3. (Unit * q * distance) * RiskDivisor <= money /\ Unit * q * distance \in Int
    BY <1>2, RiskRulesPositive
  <1> QED BY <1>3, Whole, RiskRulesPositive

\* calculate_risk rounds down: at any entry, range and capital, the loss from
\* the entry to the hard stop stays within the budget of one trade, and a
\* share more would exceed it.
THEOREM QuantityUsesTheBudget ==
  ASSUME NEW entry \in Nat, NEW atr \in Nat \ {0}, NEW money \in Nat, NEW s \in Strategies,
         NEW q, q = Quantity(entry, atr, money, s),
         NEW distance, distance = entry - HardStop(entry, atr, s)
  PROVE  /\ q \in Nat
         /\ Unit * q * distance <= money \div RiskDivisor
         /\ money < (RiskDivisor * Unit * distance) * (q + 1)
  <1>1. distance \in Nat \ {0}
    BY HardStopBelow
  <1>2. RiskDivisor * Unit * distance \in Nat \ {0}
    BY <1>1, RiskRulesPositive
  <1>3. q = money \div (RiskDivisor * Unit * distance)
    BY DEF Quantity
  <1>4. q \in Nat
    BY <1>2, <1>3, Part
  <1>5. Unit * q * distance <= money \div RiskDivisor
    BY <1>1, <1>3, <1>4, SizedToBudget
  <1> DEFINE d == RiskDivisor * Unit * distance
  <1>6. d \in Nat \ {0} /\ q = money \div d
    BY <1>2, <1>3
  <1> HIDE DEF d
  <1>7. money < d * q + d
    <2>1. money \in Int /\ d \in Nat \ {0}
      BY <1>6
    <2>2. money < d * (money \div d) + d
      BY <2>1, Division
    <2> QED BY <1>6, <2>2, Zenon
  <1>8. d * (q + 1) = d * q + d
    BY <1>4, <1>6
  <1>9. money < d * (q + 1)
    BY <1>7, <1>8
  <1> QED BY <1>4, <1>5, <1>9 DEF d

-----------------------------------------------------------------------------
(***************************************************************************)
(* The inductive invariant: what an open trade was sized with, what its    *)
(* stop has earned, and that a bar which leaves it open closes above its   *)
(* hard stop.                                                              *)
(***************************************************************************)
Sized ==
  /\ trade.hard < trade.proposed /\ trade.proposed <= trade.entry
  /\ Unit * trade.quantity * (trade.proposed - trade.hard) <= trade.budget

Earned ==
  /\ trade.hard <= trade.trailing
  /\ trade.hard < trade.trailing => AtBreakEven(trade.entry, trade.hard, trade.highest)

TradeSound ==
  IsOpen => trade \in Trade /\ Sized /\ Earned /\ (pc = "next" => trade.hard < bar.close)

IInv == TypeOK /\ TradeSound

LEMMA BarIsPriced ==
  ASSUME NEW b \in Bar
  PROVE  /\ b.open \in Nat \ {0} /\ b.high \in Nat \ {0} /\ b.low \in Nat \ {0}
         /\ b.close \in Nat \ {0} /\ b.atr \in Nat
         /\ b.low <= b.open /\ b.open <= b.high /\ b.low <= b.close /\ b.close <= b.high
  BY BacktestSane DEF Bar

LEMMA InitSound == Init => IInv /\ ExitsAreHonest /\ LossIsPlanned
  BY BacktestSane
  DEF Init, IInv, TypeOK, TradeSound, IsOpen, Flat, NoneYet, ExitsAreHonest, LossIsPlanned, HasClosed

\* What a bar makes of the open trade.
LEMMA UpdatedSound ==
  ASSUME IInv, pc = "manage"
  PROVE  /\ trade \in Trade /\ Sized /\ Earned /\ trade.hard < trade.entry
         /\ Updated \in Trade
         /\ Updated = [trade EXCEPT !.highest = Updated.highest, !.trailing = Updated.trailing]
         /\ Updated.highest = Greatest(trade.highest, bar.high)
         /\ Updated.highest \in Nat /\ Updated.trailing \in Nat
         /\ trade.hard <= Updated.trailing /\ trade.trailing <= Updated.trailing
         /\ Updated.trailing <= Greatest(trade.trailing, bar.close)
         /\ trade.hard < Updated.trailing =>
              AtBreakEven(trade.entry, trade.hard, Updated.highest)
  <1> DEFINE high == Greatest(trade.highest, bar.high)
             stop == TrailingStop(trade.entry, trade.hard, high, bar.close, AtrOfBar, trade.trailing)
  <1>1. trade \in Trade /\ Sized /\ Earned
    BY DEF IInv, TypeOK, TradeSound
  <1>2. /\ trade.entry \in Nat /\ trade.hard \in Nat \ {0} /\ trade.highest \in Nat
        /\ trade.trailing \in Nat /\ trade.proposed \in Nat
    BY <1>1 DEF Trade
  <1>3. trade.hard < trade.entry /\ trade.hard <= trade.trailing
    BY <1>1, <1>2 DEF Sized, Earned
  <1>4. bar \in Bar
    BY DEF IInv, TypeOK
  <1>5. high \in Nat /\ high >= trade.highest /\ AtrOfBar \in Nat /\ bar.close \in Nat
    BY <1>2, <1>4, BarIsPriced DEF Greatest, AtrOfBar, DefaultRange
  <1>6. Updated = [trade EXCEPT !.highest = high, !.trailing = stop]
    BY <1>1 DEF Updated, Trade
  <1>7. Updated.highest = high /\ Updated.trailing = stop
    BY <1>1, <1>6 DEF Trade
  <1> HIDE DEF high, stop
  <1>8. /\ stop \in Nat /\ stop >= trade.trailing /\ stop >= trade.hard
        /\ stop <= Greatest(Greatest(trade.trailing, trade.hard), bar.close)
        /\ stop > Greatest(trade.trailing, trade.hard) => AtBreakEven(trade.entry, trade.hard, high)
    <2>1. stop = TrailingStop(trade.entry, trade.hard, high, bar.close, AtrOfBar, trade.trailing)
      BY DEF stop
    <2> QED BY <2>1, <1>2, <1>3, <1>5, StopRatchets
  <1>9. Updated \in Trade
    BY <1>1, <1>5, <1>6, <1>8 DEF Trade
  <1>10. stop <= Greatest(trade.trailing, bar.close)
    BY <1>2, <1>3, <1>5, <1>8 DEF Greatest
  <1>11. ASSUME trade.hard < stop PROVE AtBreakEven(trade.entry, trade.hard, high)
    <2>1. CASE stop > Greatest(trade.trailing, trade.hard)
      BY <2>1, <1>8
    <2>2. CASE stop = trade.trailing
      BY <2>2, <1>1, <1>2, <1>3, <1>5, <1>11 DEF Earned, AtBreakEven, InitialRisk
    <2> QED BY <2>1, <2>2, <1>2, <1>3, <1>8 DEF Greatest
  <1>12. high = Greatest(trade.highest, bar.high)
    BY DEF high
  <1> QED BY <1>1, <1>3, <1>5, <1>6, <1>7, <1>8, <1>9, <1>10, <1>11, <1>12

-----------------------------------------------------------------------------
(***************************************************************************)
(* Closing a trade.                                                        *)
(***************************************************************************)
LEMMA CloseTyped ==
  ASSUME IInv, IsOpen, NEW price \in Nat, NEW reason \in Reason, Close(price, reason)
  PROVE  /\ closed' \in Closed /\ capital' \in Int /\ trade' = Flat /\ ~IsOpen'
         /\ closed'.reason = reason /\ closed'.price = price /\ closed'.bar = bar
         /\ closed'.fill = Sold(price)
         /\ closed'.gross = Unit * (Sold(price) - trade.entry) * trade.quantity
         /\ closed'.entry = trade.entry /\ closed'.hard = trade.hard
         /\ closed'.quantity = trade.quantity /\ closed'.proposed = trade.proposed
         /\ closed'.budget = trade.budget /\ closed'.resting = trade.trailing
         /\ closed'.highest = Greatest(trade.highest, bar.high)
  <1> DEFINE fill == Sold(price)
             gross == Unit * (fill - trade.entry) * trade.quantity
             net == gross - DeliveryCosts(fill * trade.quantity)
             high == Greatest(trade.highest, bar.high)
  <1>1. trade \in Trade /\ bar \in Bar
    BY DEF IInv, TypeOK, TradeSound
  <1>2. /\ trade.entry \in Nat /\ trade.hard \in Nat \ {0} /\ trade.quantity \in Nat \ {0}
        /\ trade.proposed \in Nat /\ trade.budget \in Int /\ trade.trailing \in Nat
        /\ trade.highest \in Nat
    BY <1>1 DEF Trade
  <1>3. fill \in Nat
    BY SlippageKeepsOrder
  <1>4. gross \in Int
    BY <1>2, <1>3, RiskRulesPositive
  <1>5. net \in Int
    BY <1>2, <1>3, <1>4, RiskRulesPositive DEF DeliveryCosts
  <1>6. high \in Nat
    BY <1>1, <1>2, BarIsPriced DEF Greatest
  <1>7. /\ closed' = [reason |-> reason, price |-> price, fill |-> fill, gross |-> gross,
                      net |-> net, entry |-> trade.entry, hard |-> trade.hard,
                      quantity |-> trade.quantity, proposed |-> trade.proposed,
                      budget |-> trade.budget, highest |-> high, resting |-> trade.trailing,
                      bar |-> bar]
        /\ capital' = capital + net /\ trade' = Flat
    BY DEF Close
  <1>8. ~IsOpen' /\ capital \in Int
    BY <1>7 DEF IsOpen, Flat, IInv, TypeOK
  <1> HIDE DEF fill, gross, net, high
  <1>9. closed' \in Closed
    BY <1>1, <1>2, <1>3, <1>4, <1>5, <1>6, <1>7 DEF Closed
  <1>10. fill = Sold(price) /\ gross = Unit * (fill - trade.entry) * trade.quantity
         /\ high = Greatest(trade.highest, bar.high)
    BY DEF fill, gross, high
  <1> QED BY <1>5, <1>7, <1>8, <1>9, <1>10

\* A price no worse than the hard stop loses no more than was planned.
LEMMA ClosePlanned ==
  ASSUME IInv, IsOpen, NEW price \in Nat, NEW reason \in Reason, Close(price, reason),
         bar.open >= trade.hard => trade.hard <= price
  PROVE  LossIsPlanned'
  <1> DEFINE q == trade.quantity
             slip == (trade.entry - trade.proposed) + (trade.hard - Sold(trade.hard))
  <1>1. trade \in Trade /\ Sized
    BY DEF IInv, TypeOK, TradeSound
  <1>2. /\ trade.entry \in Nat /\ trade.hard \in Nat \ {0} /\ q \in Nat \ {0}
        /\ trade.proposed \in Nat /\ trade.budget \in Int
    BY <1>1 DEF Trade
  <1>3. SUFFICES ASSUME trade.hard <= price
                 PROVE  -(Unit * (Sold(price) - trade.entry) * q) <= trade.budget + Unit * q * slip
    BY CloseTyped DEF LossIsPlanned
  <1>4. /\ Sold(trade.hard) \in Nat /\ Sold(price) \in Nat
        /\ Sold(trade.hard) <= Sold(price)
    BY <1>2, <1>3, SlippageKeepsOrder
  <1>5. Unit * q \in Nat
    BY <1>2, RiskRulesPositive
  <1>6. (Unit * q) * (trade.entry - Sold(price)) <= (Unit * q) * (trade.entry - Sold(trade.hard))
    BY <1>2, <1>4, <1>5, Times
  <1>7. (Unit * q) * (trade.entry - Sold(trade.hard))
          = (Unit * q) * (trade.proposed - trade.hard) + (Unit * q) * slip
    BY <1>2, <1>4, <1>5
  <1>8. (Unit * q) * (trade.proposed - trade.hard) <= trade.budget
    BY <1>1 DEF Sized
  <1>9. -(Unit * (Sold(price) - trade.entry) * q) = (Unit * q) * (trade.entry - Sold(price))
    BY <1>2, <1>4, RiskRulesPositive
  <1> QED BY <1>2, <1>4, <1>5, <1>6, <1>7, <1>8, <1>9

-----------------------------------------------------------------------------
(***************************************************************************)
(* The steps.                                                              *)
(***************************************************************************)
Honest == IInv /\ ExitsAreHonest /\ LossIsPlanned

\* A close on the way to entering or to the end: what is left to show of it.
LEMMA ClosingStep ==
  ASSUME IInv, IsOpen, NEW price \in Nat, NEW reason \in Reason, Close(price, reason),
         pc' \in {"enter", "done"}, UNCHANGED <<day, bar>>,
         bar.open >= trade.hard => trade.hard <= price,
         bar.low <= price, price <= bar.high,
         reason = "TARGET_HIT" => bar.low > trade.trailing,
         reason \in {"TRAILING_STOP_HIT", "BREAK_EVEN_STOP_HIT"} =>
           price <= Greatest(trade.trailing, bar.close),
         reason = "BREAK_EVEN_STOP_HIT" =>
           AtBreakEven(trade.entry, trade.hard, Greatest(trade.highest, bar.high)),
         reason = "TRAILING_STOP_HIT" =>
           AtTrailing(trade.entry, trade.hard, Greatest(trade.highest, bar.high))
  PROVE  Honest'
  <1>1. /\ closed' \in Closed /\ capital' \in Int /\ trade' = Flat /\ ~IsOpen'
        /\ closed'.reason = reason /\ closed'.price = price /\ closed'.bar = bar
        /\ closed'.entry = trade.entry /\ closed'.hard = trade.hard
        /\ closed'.resting = trade.trailing
        /\ closed'.highest = Greatest(trade.highest, bar.high)
    BY CloseTyped
  <1>2. /\ trade.entry \in Nat /\ trade.hard \in Nat \ {0} /\ trade.highest \in Nat
        /\ bar \in Bar
    BY DEF IInv, TypeOK, TradeSound, Trade
  <1>3. TypeOK'
    BY <1>1 DEF IInv, TypeOK
  <1>4. TradeSound'
    BY <1>1 DEF TradeSound
  <1>5. PricedInBar' /\ NoForesight'
    BY <1>1 DEF PricedInBar, NoForesight
  <1>6. ReasonIsEarned'
    <2> DEFINE high == Greatest(trade.highest, bar.high)
    <2>1. high \in Nat
      BY <1>2, BarIsPriced DEF Greatest
    <2>2. high = Greatest(trade.highest, bar.high)
      OBVIOUS
    <2> HIDE DEF high
    <2> QED BY <1>1, <1>2, <2>1, <2>2 DEF ReasonIsEarned, AtBreakEven, AtTrailing, InitialRisk
  <1>7. ExitsAreHonest'
    BY <1>5, <1>6 DEF ExitsAreHonest
  <1>8. LossIsPlanned'
    BY ClosePlanned
  <1> QED BY <1>3, <1>4, <1>7, <1>8 DEF Honest, IInv

LEMMA StopOutSound == Honest /\ StopOut => Honest'
  <1> SUFFICES ASSUME Honest, StopOut PROVE Honest'
    OBVIOUS
  <1>1. pc = "manage" /\ IInv /\ IsOpen
    BY DEF StopOut, Honest, IInv, TypeOK
  <1>2. /\ trade.hard \in Nat \ {0} /\ bar \in Bar
    BY <1>1 DEF IInv, TypeOK, TradeSound, Trade
  <1> DEFINE price == Least(bar.open, trade.hard)
  <1>3. /\ price \in Nat /\ bar.low <= price /\ price <= bar.high
        /\ bar.open >= trade.hard => trade.hard <= price
    <2>1. bar.low <= trade.hard
      BY DEF StopOut, HitsHard
    <2> QED BY <1>2, <2>1, BarIsPriced DEF Least
  <1>4. Close(price, "STOPPED_OUT") /\ pc' = "enter" /\ UNCHANGED <<day, bar>>
    BY DEF StopOut
  <1> HIDE DEF price
  <1> QED BY <1>1, <1>3, <1>4, ClosingStep DEF Reason

LEMMA TrailOutSound == Honest /\ TrailOut => Honest'
  <1> SUFFICES ASSUME Honest, TrailOut PROVE Honest'
    OBVIOUS
  <1>1. pc = "manage" /\ IInv /\ IsOpen
    BY DEF TrailOut, Honest, IInv, TypeOK
  <1>2. /\ trade.hard \in Nat \ {0} /\ trade.trailing \in Nat /\ bar \in Bar
    BY <1>1 DEF IInv, TypeOK, TradeSound, Trade
  <1> DEFINE price == Least(bar.open, Updated.trailing)
             high == Greatest(trade.highest, bar.high)
             reason == IF AtTrailing(trade.entry, trade.hard, Updated.highest)
                         THEN "TRAILING_STOP_HIT" ELSE "BREAK_EVEN_STOP_HIT"
  <1>3. /\ bar.low <= Updated.trailing /\ trade.hard < Updated.trailing
    BY DEF TrailOut, HitsTrailing
  <1>4. /\ Updated.trailing \in Nat /\ Updated.highest = high
        /\ Updated.trailing <= Greatest(trade.trailing, bar.close)
        /\ AtBreakEven(trade.entry, trade.hard, Updated.highest)
    BY <1>1, <1>3, UpdatedSound
  <1>5. /\ price \in Nat /\ bar.low <= price /\ price <= bar.high
        /\ bar.open >= trade.hard => trade.hard <= price
        /\ price <= Greatest(trade.trailing, bar.close)
    BY <1>2, <1>3, <1>4, BarIsPriced DEF Least, Greatest
  <1>6. /\ reason \in {"TRAILING_STOP_HIT", "BREAK_EVEN_STOP_HIT"}
        /\ reason = "TRAILING_STOP_HIT" => AtTrailing(trade.entry, trade.hard, high)
        /\ AtBreakEven(trade.entry, trade.hard, high)
    BY <1>4
  <1>7. Close(price, reason) /\ pc' = "enter" /\ UNCHANGED <<day, bar>>
    BY DEF TrailOut
  <1>8. reason \in Reason /\ reason # "TARGET_HIT"
    BY <1>6 DEF Reason
  <1> HIDE DEF price, reason
  <1> QED BY <1>1, <1>5, <1>6, <1>7, <1>8, ClosingStep

LEMMA ReachTargetSound == Honest /\ ReachTarget => Honest'
  <1> SUFFICES ASSUME Honest, ReachTarget PROVE Honest'
    OBVIOUS
  <1>1. pc = "manage" /\ IInv /\ IsOpen
    BY DEF ReachTarget, Honest, IInv, TypeOK
  <1>2. /\ trade.hard \in Nat \ {0} /\ trade.trailing \in Nat /\ trade.target \in Nat
        /\ bar \in Bar
    BY <1>1 DEF IInv, TypeOK, TradeSound, Trade
  <1> DEFINE price == Greatest(bar.open, trade.target)
  <1>3. ~HitsHard /\ ~HitsTrailing /\ bar.high >= trade.target
    BY DEF ReachTarget, HitsTarget
  <1>4. bar.low > trade.hard
    BY <1>2, <1>3, BarIsPriced DEF HitsHard
  <1>5. /\ price \in Nat /\ bar.low <= price /\ price <= bar.high
        /\ bar.open >= trade.hard => trade.hard <= price
    BY <1>2, <1>3, BarIsPriced DEF Greatest
  <1>6. bar.low > trade.trailing
    <2>1. /\ Updated.trailing \in Nat /\ trade.trailing <= Updated.trailing
      BY <1>1, UpdatedSound
    <2>2. bar.low > Updated.trailing \/ Updated.trailing <= trade.hard
      BY <1>2, <1>3, <2>1, BarIsPriced DEF HitsTrailing
    <2> QED BY <1>2, <1>4, <2>1, <2>2, BarIsPriced
  <1>7. Close(price, "TARGET_HIT") /\ pc' = "enter" /\ UNCHANGED <<day, bar>>
    BY DEF ReachTarget
  <1> HIDE DEF price
  <1> QED BY <1>1, <1>5, <1>6, <1>7, ClosingStep DEF Reason

LEMMA HoldSound == Honest /\ Hold => Honest'
  <1> SUFFICES ASSUME Honest, Hold PROVE Honest'
    OBVIOUS
  <1>1. pc = "manage" /\ IInv /\ bar \in Bar
    BY DEF Hold, Honest, IInv, TypeOK
  <1>2. /\ trade' = Updated /\ pc' = "next" /\ UNCHANGED <<day, bar, closed, capital>>
        /\ ~HitsHard
    BY DEF Hold
  <1>3. /\ trade \in Trade /\ Sized
        /\ Updated \in Trade
        /\ Updated = [trade EXCEPT !.highest = Updated.highest, !.trailing = Updated.trailing]
        /\ trade.hard <= Updated.trailing
        /\ trade.hard < Updated.trailing => AtBreakEven(trade.entry, trade.hard, Updated.highest)
    BY <1>1, UpdatedSound
  <1>4. /\ trade'.entry = trade.entry /\ trade'.hard = trade.hard
        /\ trade'.quantity = trade.quantity /\ trade'.proposed = trade.proposed
        /\ trade'.budget = trade.budget
    BY <1>2, <1>3 DEF Trade
  <1>5. TypeOK'
    BY <1>1, <1>2, <1>3 DEF IInv, TypeOK
  <1>6. Sized' /\ Earned'
    BY <1>2, <1>3, <1>4 DEF Sized, Earned
  <1>7. trade.hard < bar.close
    <2>1. trade.hard \in Nat /\ trade.hard < bar.low
      BY <1>1, <1>2, <1>3, BarIsPriced DEF HitsHard, Trade
    <2> QED BY <1>1, <2>1, BarIsPriced
  <1>8. TradeSound'
    BY <1>2, <1>3, <1>4, <1>6, <1>7 DEF TradeSound
  <1> QED BY <1>2, <1>5, <1>8 DEF Honest, IInv, ExitsAreHonest, LossIsPlanned, HasClosed,
                                   PricedInBar, NoForesight, ReasonIsEarned

LEMMA EndOfDataSound == Honest /\ EndOfData => Honest'
  <1> SUFFICES ASSUME Honest, EndOfData PROVE Honest'
    OBVIOUS
  <1>1. /\ pc = "next" /\ IInv /\ bar \in Bar
        /\ pc' = "done" /\ UNCHANGED <<day, bar>>
    BY DEF EndOfData, Honest, IInv, TypeOK
  <1>2. CASE IsOpen
    <2>1. Close(bar.close, "END_OF_DATA")
      BY <1>2 DEF EndOfData
    <2>2. trade.hard \in Nat /\ trade.hard < bar.close
      BY <1>1, <1>2 DEF IInv, TradeSound, Trade
    <2> QED BY <1>1, <1>2, <2>1, <2>2, ClosingStep, BarIsPriced DEF Reason
  <1>3. CASE ~IsOpen
    <2>1. UNCHANGED <<closed, capital, trade>>
      BY <1>3 DEF EndOfData
    <2> QED BY <1>1, <1>3, <2>1 DEF Honest, IInv, TypeOK, TradeSound, IsOpen, ExitsAreHonest,
                                    LossIsPlanned, HasClosed, PricedInBar, NoForesight, ReasonIsEarned
  <1> QED BY <1>2, <1>3

LEMMA NextBarSound == ASSUME NEW b \in Bar PROVE Honest /\ NextBar(b) => Honest'
  <1> SUFFICES ASSUME Honest, NextBar(b) PROVE Honest'
    OBVIOUS
  <1>1. /\ pc = "next" /\ day < MaxBars /\ bar' = b /\ closed' = NoneYet /\ day' = day + 1
        /\ pc' = IF IsOpen THEN "manage" ELSE "enter"
        /\ UNCHANGED <<trade, capital>>
    BY DEF NextBar
  <1>2. TypeOK'
    BY <1>1, BacktestSane DEF Honest, IInv, TypeOK, IsOpen
  <1>3. TradeSound'
    BY <1>1 DEF Honest, IInv, TradeSound, IsOpen, Sized, Earned
  <1> QED BY <1>1, <1>2, <1>3 DEF Honest, IInv, ExitsAreHonest, LossIsPlanned, HasClosed, NoneYet

LEMMA EnterSound == ASSUME NEW setups \in Setups PROVE Honest /\ Enter(setups) => Honest'
  <1> SUFFICES ASSUME Honest, Enter(setups) PROVE Honest'
    OBVIOUS
  <1> DEFINE s == Primary(setups)
             hard == HardStop(bar.close, bar.atr, s)
             quantity == Quantity(bar.close, bar.atr, capital, s)
  <1>1. /\ IInv /\ pc = "enter" /\ bar \in Bar /\ capital \in Int
        /\ setups # {} /\ Accepted(bar.close, bar.atr, capital, s)
        /\ trade' = Opened(s) /\ pc' = "next" /\ UNCHANGED <<day, bar, closed, capital>>
    BY DEF Enter, Wanted, Honest, IInv, TypeOK
  <1>2. s \in Strategies
    BY <1>1, PrimaryIsASetup
  <1> HIDE DEF s
  <1>3. /\ bar.close \in Nat /\ bar.atr \in Nat /\ bar.atr > 0 /\ hard > 0 /\ quantity > 0
    BY <1>1, BarIsPriced DEF Accepted
  <1>4. hard \in Nat \ {0} /\ hard < bar.close
    BY <1>2, <1>3, HardStopBelow
  <1>5. RiskDivisor * Unit * (bar.close - hard) \in Nat \ {0}
    BY <1>3, <1>4, RiskRulesPositive
  <1>6. quantity = capital \div (RiskDivisor * Unit * (bar.close - hard))
    BY DEF Quantity
  <1>7. quantity \in Nat \ {0}
    BY <1>1, <1>3, <1>5, <1>6, Division
  <1>8. Unit * quantity * (bar.close - hard) <= capital \div RiskDivisor
    BY <1>1, <1>3, <1>4, <1>6, <1>7, SizedToBudget
  <1>9. Bought(bar.close) \in Nat /\ Bought(bar.close) >= bar.close
    BY <1>3, SlippageKeepsOrder
  <1>10. Target(bar.close, bar.atr, s) \in Nat
    BY <1>2, <1>3, <1>4 DEF Target, Reward
  <1>11. capital \div RiskDivisor \in Int
    BY <1>1, RiskRulesPositive, Division
  <1>12. trade' = [open |-> TRUE, entry |-> Bought(bar.close), hard |-> hard,
                   target |-> Target(bar.close, bar.atr, s), quantity |-> quantity,
                   highest |-> Bought(bar.close), trailing |-> hard,
                   proposed |-> bar.close, budget |-> capital \div RiskDivisor]
    BY <1>1 DEF Opened
  <1> HIDE DEF hard, quantity
  <1>13. trade' \in Trade
    BY <1>3, <1>4, <1>7, <1>9, <1>10, <1>11, <1>12 DEF Trade
  <1>14. TypeOK'
    BY <1>1, <1>13 DEF IInv, TypeOK
  <1>15. Sized' /\ Earned'
    BY <1>4, <1>8, <1>9, <1>12 DEF Sized, Earned
  <1>16. TradeSound'
    BY <1>1, <1>4, <1>12, <1>13, <1>15 DEF TradeSound
  <1> QED BY <1>1, <1>14, <1>16 DEF Honest, IInv, ExitsAreHonest, LossIsPlanned, HasClosed,
                                     PricedInBar, NoForesight, ReasonIsEarned

LEMMA StayFlatSound == ASSUME NEW setups \in Setups PROVE Honest /\ StayFlat(setups) => Honest'
  BY DEF StayFlat, Honest, IInv, TypeOK, TradeSound, IsOpen, Sized, Earned, ExitsAreHonest,
         LossIsPlanned, HasClosed, PricedInBar, NoForesight, ReasonIsEarned

LEMMA StutterSound == Honest /\ UNCHANGED vars => Honest'
  BY DEF vars, Honest, IInv, TypeOK, TradeSound, IsOpen, Sized, Earned, ExitsAreHonest,
         LossIsPlanned, HasClosed, PricedInBar, NoForesight, ReasonIsEarned

LEMMA NextSound == Honest /\ [Next]_vars => Honest'
  BY NextBarSound, StopOutSound, TrailOutSound, ReachTargetSound, HoldSound, EnterSound,
     StayFlatSound, EndOfDataSound, StutterSound
  DEF Next

LEMMA AlwaysHonest == Spec => []Honest
  <1>1. Init => Honest
    BY InitSound DEF Honest
  <1> QED BY <1>1, NextSound, PTL DEF Spec

-----------------------------------------------------------------------------
(***************************************************************************)
(* The theorems.                                                           *)
(***************************************************************************)

\* Every variable of the simulation keeps its type: the trade and the trade
\* that was closed are well-formed, with a positive stop and quantity.
THEOREM BacktestTypeCorrectness == Spec => []TypeOK
  BY AlwaysHonest, PTL DEF Honest, IInv

\* An exit is at a price of its bar, without the hindsight of a stop that the
\* bar itself raised, and under a name that its high has earned.
THEOREM ExitsStayHonest == Spec => []ExitsAreHonest
  BY AlwaysHonest, PTL DEF Honest

\* A trade loses its budget and the slippage at most, gaps excepted.
THEOREM LossesStayPlanned == Spec => []LossIsPlanned
  BY AlwaysHonest, PTL DEF Honest

=============================================================================
