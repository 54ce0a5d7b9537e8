------------------------------ MODULE Backtest ------------------------------
(***************************************************************************)
(* The bar-by-bar simulation of app/backtester.py.  On each bar the open   *)
(* trade is managed, and a trade is entered if there is none.  Prices are  *)
(* ticks; indicators are abstracted to the range (ATR) of a bar and the    *)
(* setups that qualify on it, none where an indicator is missing.  The     *)
(* equity curve and the figures drawn from it are left out.                *)
(***************************************************************************)
EXTENDS RiskRules

CONSTANTS
  Prices, Ranges,
  SlipDivisor,   \* SLIPPAGE_PCT is 1 / SlipDivisor
  MaxBars        \* bound: bars of the evaluation window

VARIABLES
  pc,        \* what the loop does next
  day,       \* bars so far
  bar,
  trade,     \* the open trade
  closed,    \* the trade that was closed on this bar
  capital    \* current_capital, of Capital at the start

CONSTANT Capital
ASSUME BacktestSane ==
  /\ Prices \subseteq Nat \ {0} /\ Ranges \subseteq Nat /\ Capital \in Nat /\ MaxBars \in Nat
  /\ SlipDivisor \in Nat \ {0, 1}

vars == <<pc, day, bar, trade, closed, capital>>

Bar == {b \in [open : Prices, high : Prices, low : Prices, close : Prices, atr : Ranges] :
          /\ b.low <= b.open /\ b.open <= b.high
          /\ b.low <= b.close /\ b.close <= b.high}

\* round(price * (1 +- SLIPPAGE_PCT), 2)
Bought(p) == p + p \div SlipDivisor
Sold(p) == p - p \div SlipDivisor

Flat == [open |-> FALSE]
NoneYet == [reason |-> "none"]
IsOpen == trade.open

Init ==
  /\ pc = "next" /\ day = 0
  /\ bar \in Bar
  /\ trade = Flat /\ closed = NoneYet
  /\ capital = Capital

NextBar(b) ==
  /\ pc = "next" /\ day < MaxBars
  /\ bar' = b /\ closed' = NoneYet
  /\ day' = day + 1
  /\ pc' = IF IsOpen THEN "manage" ELSE "enter"
  /\ UNCHANGED <<trade, capital>>

-----------------------------------------------------------------------------
(***************************************************************************)
(* 1. Manage the active position.                                          *)
(***************************************************************************)
DefaultRange == 10
AtrOfBar == IF bar.atr = 0 THEN DefaultRange ELSE bar.atr

\* The trade with its high and its trailing stop as the bar leaves them.
Updated ==
  LET high == Greatest(trade.highest, bar.high) IN
  [trade EXCEPT !.highest = high,
     !.trailing = TrailingStop(trade.entry, trade.hard, high, bar.close, AtrOfBar, @)]

HitsHard == bar.low <= trade.hard
HitsTrailing == ~HitsHard /\ bar.low <= Updated.trailing /\ Updated.trailing > trade.hard
HitsTarget == ~HitsHard /\ ~HitsTrailing /\ bar.high >= trade.target

\* The trade is closed at a price, which slippage worsens.
Close(price, reason) ==
  LET fill == Sold(price)
      gross == Unit * (fill - trade.entry) * trade.quantity
      net == gross - DeliveryCosts(fill * trade.quantity)
  IN
  /\ closed' = [reason |-> reason, price |-> price, fill |-> fill, gross |-> gross, net |-> net,
                entry |-> trade.entry, hard |-> trade.hard, quantity |-> trade.quantity,
                proposed |-> trade.proposed, budget |-> trade.budget,
                highest |-> Greatest(trade.highest, bar.high),
                resting |-> trade.trailing, bar |-> bar]
  /\ capital' = capital + net
  /\ trade' = Flat

StopOut ==
  /\ pc = "manage" /\ HitsHard
  /\ Close(Least(bar.open, trade.hard), "STOPPED_OUT")
  /\ pc' = "enter" /\ UNCHANGED <<day, bar>>

TrailOut ==
  /\ pc = "manage" /\ HitsTrailing
  /\ Close(Least(bar.open, Updated.trailing),
           IF AtTrailing(trade.entry, trade.hard, Updated.highest)
             THEN "TRAILING_STOP_HIT" ELSE "BREAK_EVEN_STOP_HIT")
  /\ pc' = "enter" /\ UNCHANGED <<day, bar>>

ReachTarget ==
  /\ pc = "manage" /\ HitsTarget
  /\ Close(Greatest(bar.open, trade.target), "TARGET_HIT")
  /\ pc' = "enter" /\ UNCHANGED <<day, bar>>

Hold ==
  /\ pc = "manage" /\ ~HitsHard /\ ~HitsTrailing /\ ~HitsTarget
  /\ trade' = Updated
  /\ pc' = "next" /\ UNCHANGED <<day, bar, closed, capital>>

-----------------------------------------------------------------------------
(***************************************************************************)
(* 2. Evaluate setups and risk rules, on the bar of an exit too.           *)
(***************************************************************************)
Wanted(setups) == setups # {} /\ Accepted(bar.close, bar.atr, capital, Primary(setups))

\* The stop and the target are of the close, the entry price is the fill.
Opened(s) ==
  [open |-> TRUE, entry |-> Bought(bar.close), hard |-> HardStop(bar.close, bar.atr, s),
   target |-> Target(bar.close, bar.atr, s),
   quantity |-> Quantity(bar.close, bar.atr, capital, s),
   highest |-> Bought(bar.close), trailing |-> HardStop(bar.close, bar.atr, s),
   proposed |-> bar.close, budget |-> capital \div RiskDivisor]

Enter(setups) ==
  /\ pc = "enter" /\ Wanted(setups)
  /\ trade' = Opened(Primary(setups))
  /\ pc' = "next" /\ UNCHANGED <<day, bar, closed, capital>>

StayFlat(setups) ==
  /\ pc = "enter" /\ ~Wanted(setups)
  /\ pc' = "next" /\ UNCHANGED <<day, bar, trade, closed, capital>>

\* The trade that is open after the last bar is closed at its close.
EndOfData ==
  /\ pc = "next" /\ day > 0
  /\ IF IsOpen THEN Close(bar.close, "END_OF_DATA") ELSE UNCHANGED <<closed, capital, trade>>
  /\ pc' = "done" /\ UNCHANGED <<day, bar>>

Next ==
  \/ \E b \in Bar : NextBar(b)
  \/ StopOut \/ TrailOut \/ ReachTarget \/ Hold
  \/ \E setups \in Setups : Enter(setups) \/ StayFlat(setups)
  \/ EndOfData

Spec == Init /\ [][Next]_vars

-----------------------------------------------------------------------------
(***************************************************************************)
(* Properties.                                                             *)
(***************************************************************************)
Trade == [open : {TRUE}, entry : Nat, hard : Nat \ {0}, target : Nat, quantity : Nat \ {0},
          highest : Nat, trailing : Nat, proposed : Nat, budget : Int]
Reason == {"STOPPED_OUT", "TRAILING_STOP_HIT", "BREAK_EVEN_STOP_HIT", "TARGET_HIT", "END_OF_DATA"}
Closed == [reason : Reason, price : Nat, fill : Nat, gross : Int, net : Int, entry : Nat,
           hard : Nat \ {0}, quantity : Nat \ {0}, proposed : Nat, budget : Int,
           highest : Nat, resting : Nat, bar : Bar]

TypeOK ==
  /\ pc \in {"next", "manage", "enter", "done"}
  /\ day \in 0..MaxBars
  /\ bar \in Bar
  /\ trade \in Trade \cup {Flat} /\ closed \in Closed \cup {NoneYet}
  /\ capital \in Int
  /\ pc = "manage" => IsOpen
  /\ pc = "enter" => ~IsOpen

HasClosed == closed.reason # "none"

\* An exit is at a price of its bar.
PricedInBar == closed.bar.low <= closed.price /\ closed.price <= closed.bar.high

\* backtester.py:5, "zero lookahead bias": a bar that fell to the stop that
\* rested when it opened never ends at the target, and where the bar itself
\* raised the stop that it hits, the exit is no better than its close.
NoForesight ==
  /\ closed.reason = "TARGET_HIT" => closed.bar.low > closed.resting
  /\ closed.reason \in {"TRAILING_STOP_HIT", "BREAK_EVEN_STOP_HIT"}
       => closed.price <= Greatest(closed.resting, closed.bar.close)

\* ADR-028: the break-even stop was earned by a gain of 1.5 times the risk, the
\* trailing stop by twice the risk.
ReasonIsEarned ==
  LET gain == closed.highest - closed.entry
      risk == closed.entry - closed.hard
  IN /\ closed.reason = "BREAK_EVEN_STOP_HIT" => 2 * gain >= 3 * risk
     /\ closed.reason = "TRAILING_STOP_HIT" => gain >= 2 * risk

\* A closed trade was sold as it could have been sold.
ExitsAreHonest == HasClosed => PricedInBar /\ NoForesight /\ ReasonIsEarned

\* The 1% rule (risk.calculate_risk): a trade loses no more than the budget it
\* was sized with and the slippage of its two fills, unless the bar it was
\* closed on opened below its hard stop.
LossIsPlanned ==
  HasClosed /\ closed.bar.open >= closed.hard =>
    -closed.gross <= closed.budget
      + Unit * closed.quantity * ((closed.entry - closed.proposed) + (closed.hard - Sold(closed.hard)))

=============================================================================
