-------------------------- MODULE PositionsProofs --------------------------
(***************************************************************************)
(* Proofs about Positions for every number of trades, monitors and manual  *)
(* closes, every quote and level, and any number of failures.              *)
(***************************************************************************)
EXTENDS Positions, TLAPS

(***************************************************************************)
(* The arithmetic of the levels.                                           *)
(***************************************************************************)
LEMMA LevelsAreOrdered ==
  ASSUME NEW at \in Levels
  PROVE  /\ at \in Level
         /\ at.hard <= at.soft /\ at.soft < at.fill /\ at.fill <= at.target
BY LevelsAssumption DEF Level

LEMMA TrailingStopBounds ==
  ASSUME NEW at \in Level, NEW highest \in Nat, NEW current \in Nat,
         NEW distance \in Nat, NEW previous \in Nat
  PROVE  /\ TrailingStop(at, highest, current, distance, previous) \in Nat
         /\ TrailingStop(at, highest, current, distance, previous) >= previous
BY DEF TrailingStop, TargetStop, Higher, Lower, Level

LEMMA HighestSeenBounds ==
  ASSUME NEW row \in Row, NEW quote \in Nat
  PROVE  HighestSeen(row, quote) \in Nat
BY DEF HighestSeen, Higher, Row, Level

LEMMA PreviousStopIsTyped ==
  ASSUME NEW row \in Row
  PROVE  PreviousStop(row) \in Nat
BY DEF PreviousStop, Row, Level

\* A stop computed from a locked row locks: at the quote that first reaches
\* +1.5R the cap at the current price lies above the entry.
LEMMA TrailingStopLocks ==
  ASSUME NEW row \in Row, row.at \in Levels, RowLocked(row),
         NEW quote \in Nat, NEW distance \in Nat
  PROVE  Locked(row.at, HighestSeen(row, quote),
                TrailingStop(row.at, HighestSeen(row, quote), quote, distance, PreviousStop(row)))
<1> DEFINE highest == HighestSeen(row, quote)
           previous == PreviousStop(row)
           stop == TrailingStop(row.at, highest, quote, distance, previous)
<1>1. /\ row.at \in Level /\ row.at.hard < row.at.fill
      /\ row.at.fill \in Nat /\ row.at.hard \in Nat
  BY LevelsAreOrdered DEF Level
<1>2. previous \in Nat /\ highest \in Nat /\ stop \in Nat /\ stop >= previous
  BY <1>1, TrailingStopBounds, HighestSeenBounds, PreviousStopIsTyped
<1>3. SUFFICES ASSUME ReachedBreakEven(row.at, highest) PROVE stop >= row.at.fill
  BY <1>2 DEF Locked
<1>4. CASE row.highest # NoVal /\ highest = row.highest
  <2>1. row.stop \in Nat /\ row.stop >= row.at.fill
    BY <1>3, <1>4 DEF RowLocked, Locked
  <2>2. previous = row.stop
    BY <2>1, PositionsNoVal DEF PreviousStop
  <2>. QED  BY <1>1, <1>2, <2>1, <2>2
<1>5. CASE highest = quote
  <2>1. quote >= row.at.fill
    BY <1>1, <1>3, <1>5 DEF ReachedBreakEven
  <2>2. TargetStop(row.at, highest, distance, Higher(previous, row.at.hard)) >= row.at.fill
    BY <1>1, <1>2, <1>3 DEF TargetStop, Higher
  <2>3. TargetStop(row.at, highest, distance, Higher(previous, row.at.hard)) \in Int
    BY <1>1, <1>2 DEF TargetStop, Higher
  <2>. QED  BY <1>1, <1>2, <2>1, <2>2, <2>3 DEF TrailingStop, Higher, Lower
<1>6. CASE row.highest = NoVal /\ highest = row.at.fill
  BY <1>1, <1>3, <1>6 DEF ReachedBreakEven
<1>7. highest = quote \/ (row.highest # NoVal /\ highest = row.highest)
        \/ (row.highest = NoVal /\ highest = row.at.fill)
  BY DEF HighestSeen, Higher
<1>. QED  BY <1>4, <1>5, <1>6, <1>7

LEMMA ExitCategoryExplains ==
  ASSUME NEW at \in Level, NEW highest \in Nat, NEW stop \in Nat, NEW quote \in Nat
  PROVE  /\ ExitCategory(at, highest, stop, quote) \in Category \cup {NoVal}
         /\ Explains(ExitCategory(at, highest, stop, quote), at, quote)
BY PositionsNoVal DEF ExitCategory, Explains, Category, Level

(***************************************************************************)
(* Types.                                                                  *)
(***************************************************************************)
LEMMA RowsAreTyped == NoRow \in Row /\ Idle \in ActorState
BY PositionsNoVal DEF NoRow, NoLevel, Row, Level, Idle, ActorState, Category

LEMMA InitTypeOK == Init => TypeOK
BY RowsAreTyped, NumbersAssumption DEF Init, TypeOK

\* One actor goes on, and nothing else changes but the counts and history.
LEMMA MoveIsTyped ==
  ASSUME TypeOK, NEW a \in Actors, NEW me \in ActorState, actor' = [actor EXCEPT ![a] = me]
  PROVE  actor' \in [Actors -> ActorState] /\ actor'[a] = me
         /\ \A b \in Actors \ {a} : actor'[b] = actor[b]
BY DEF TypeOK

LEMMA ActorIsTyped ==
  ASSUME TypeOK, NEW a \in Actors
  PROVE  /\ actor[a] \in ActorState
         /\ actor[a].todo \subseteq Trades
         /\ \A t \in Trades : actor[a].seen[t] \in Row
BY DEF TypeOK, ActorState

LEMMA NextTradeIsTyped ==
  ASSUME TypeOK, NEW a \in Actors
  PROVE  NextTrade(a) \in ActorState /\ Done(a) \in ActorState
<1>1. [actor[a].seen EXCEPT ![actor[a].trade] = NoRow] \in [Trades -> Row]
  BY RowsAreTyped DEF TypeOK, ActorState
<1>2. actor[a].todo \in SUBSET Trades
  BY ActorIsTyped
<1>3. NextTrade(a) \in ActorState
  BY <1>1, <1>2, RowsAreTyped DEF NextTrade, Idle, ActorState
<1>. QED  BY <1>3, RowsAreTyped DEF Done

LEMMA FaultIsCounted ==
  ASSUME TypeOK, Fault
  PROVE  counts' \in [moves : 0..MaxMoves, closes : 0..MaxCloses, faults : 0..MaxFaults]
BY NumbersAssumption DEF TypeOK, Fault

LEMMA QuoteIsTyped ==
  ASSUME TypeOK, NEW m \in Monitors, NEW t \in Trades, NEW distance \in Distances,
         Quote(m, t, distance)
  PROVE  /\ HighestSeen(actor[m].seen[t], price[t]) \in Nat
         /\ TrailingStop(actor[m].seen[t].at, HighestSeen(actor[m].seen[t], price[t]), price[t],
                         distance, PreviousStop(actor[m].seen[t])) \in Nat
         /\ price[t] \in Nat /\ distance \in Nat
<1>1. actor[m].seen[t] \in Row /\ actor[m].seen[t].at \in Level
  BY ActorIsTyped DEF Actors, Row
<1>2. price[t] \in Nat /\ distance \in Nat
  BY NumbersAssumption DEF TypeOK
<1>. QED  BY <1>1, <1>2, HighestSeenBounds, PreviousStopIsTyped, TrailingStopBounds

LEMMA TypeStep == TypeOK /\ [Next]_vars => TypeOK'
<1>. SUFFICES ASSUME TypeOK, [Next]_vars PROVE TypeOK'
  OBVIOUS
<1>1. ASSUME NEW t \in Trades, NEW at \in Levels, Open(t, at) PROVE TypeOK'
  <2>1. [NoRow EXCEPT !.status = "OPEN_PAPER", !.at = at] \in Row
    BY RowsAreTyped, LevelsAreOrdered DEF Row, NoRow
  <2>. QED  BY <1>1, <2>1 DEF TypeOK, Open, history
<1>2. ASSUME NEW t \in Trades, NEW p \in Prices, MovePrice(t, p) PROVE TypeOK'
  BY <1>2, NumbersAssumption DEF TypeOK, MovePrice, history
<1>3. ASSUME NEW m \in Monitors, Sweep(m) PROVE TypeOK'
  <2> DEFINE open == {t \in Trades : IsOpen(t)}
             me == [Idle EXCEPT !.pc = "quote", !.seen = rows, !.todo = open]
  <2>1. me \in ActorState
    BY RowsAreTyped DEF TypeOK, Idle, ActorState
  <2>2. actor' = [actor EXCEPT ![m] = me] /\ shared' \subseteq Trades
    BY <1>3 DEF Sweep, NoteShared, TypeOK
  <2>. HIDE DEF me
  <2>3. actor' \in [Actors -> ActorState]
    BY <2>1, <2>2 DEF TypeOK
  <2>. QED  BY <1>3, <2>2, <2>3 DEF Sweep, TypeOK
<1>4. ASSUME NEW m \in Monitors, NEW t \in Trades, NEW distance \in Distances,
             Quote(m, t, distance)
      PROVE  TypeOK'
  <2> DEFINE row == actor[m].seen[t]
             highest == HighestSeen(row, price[t])
             stop == TrailingStop(row.at, highest, price[t], distance, PreviousStop(row))
             me == [actor[m] EXCEPT !.pc = "ratchet", !.todo = @ \ {t}, !.trade = t,
                                    !.quote = price[t], !.highest = highest, !.stop = stop]
  <2>1. actor' \in [Actors -> ActorState]
    <3>1. highest \in Nat /\ stop \in Nat /\ price[t] \in Nat
      BY <1>4, QuoteIsTyped
    <3>2. actor' = [actor EXCEPT ![m] = me]
      <4>. HIDE DEF highest, stop
      <4>1. actor' = [actor EXCEPT
              ![m].pc = "ratchet", ![m].todo = @ \ {t}, ![m].trade = t, ![m].quote = price[t],
              ![m].highest = highest, ![m].stop = stop]
        BY <1>4 DEF Quote, highest, stop
      <4>. QED  BY <4>1 DEF TypeOK, Actors
    <3>3. actor[m] \in ActorState
      BY DEF TypeOK, Actors
    <3>4. me \in ActorState
      <4>. HIDE DEF highest, stop
      <4>. QED  BY <3>1, <3>3 DEF ActorState
    <3>. QED  BY <3>2, <3>4 DEF TypeOK
  <2>. QED  BY <1>4, <2>1 DEF TypeOK, Quote, history
<1>5. ASSUME NEW m \in Monitors, NEW t \in Trades, NoQuote(m, t) PROVE TypeOK'
  <2>1. actor' \in [Actors -> ActorState]
    BY <1>5 DEF NoQuote, TypeOK, ActorState, Actors
  <2>. QED  BY <1>5, <2>1, FaultIsCounted DEF TypeOK, NoQuote, history
<1>6. ASSUME NEW m \in Monitors, Ratchet(m) PROVE TypeOK'
  <2>1. actor[m] \in ActorState
    BY DEF TypeOK, Actors
  <2>2. actor' \in [Actors -> ActorState]
    BY <1>6 DEF Ratchet, TypeOK, ActorState, Actors
  <2>3. rows' \in [Trades -> Row]
    <3>1. CASE actor[m].trade \in Trades
      <4> DEFINE t == actor[m].trade
                 row == [rows[t] EXCEPT !.highest = actor[m].highest, !.stop = actor[m].stop]
      <4>1. row \in Row
        <5>1. rows[t] \in Row
          BY <3>1 DEF TypeOK
        <5>2. actor[m].highest \in Nat \cup {NoVal} /\ actor[m].stop \in Nat \cup {NoVal}
          BY <2>1 DEF ActorState
        <5>. QED  BY <5>1, <5>2 DEF Row
      <4>2. rows' = [rows EXCEPT ![t] = row]
        BY <1>6, <3>1 DEF Ratchet, TypeOK
      <4>. QED  BY <4>1, <4>2 DEF TypeOK
    <3>2. CASE actor[m].trade \notin Trades
      BY <1>6, <3>2 DEF Ratchet, TypeOK
    <3>. QED  BY <3>1, <3>2
  <2>. QED  BY <1>6, <2>2, <2>3 DEF TypeOK, Ratchet, history
<1>7. ASSUME NEW m \in Monitors, RatchetFails(m) PROVE TypeOK'
  <2>1. actor' \in [Actors -> ActorState]
    BY <1>7 DEF RatchetFails, TypeOK, ActorState, Actors
  <2>. QED  BY <1>7, <2>1, FaultIsCounted DEF TypeOK, RatchetFails, history
<1>8. ASSUME NEW m \in Monitors, Judge(m) PROVE TypeOK'
  <2> DEFINE me == actor[m]
             category == ExitCategory(me.seen[me.trade].at, me.highest, me.stop, me.quote)
  <2>1. category \in Category \cup {NoVal}
    BY DEF ExitCategory, Category
  <2>2. me \in ActorState /\ m \in Actors
    BY DEF TypeOK, Actors
  <2>3. [me EXCEPT !.pc = "read", !.category = category] \in ActorState
    <3>. HIDE DEF category
    <3>. QED  BY <2>1, <2>2 DEF ActorState
  <2>4. actor' \in [Actors -> ActorState]
    <3>1. \E new \in ActorState : actor' = [actor EXCEPT ![m] = new]
      BY <1>8, <2>2, <2>3, NextTradeIsTyped DEF Judge
    <3>. QED  BY <3>1 DEF TypeOK
  <2>. QED  BY <1>8, <2>4 DEF TypeOK, Judge, history
<1>9. ASSUME NEW m \in Monitors, EndSweep(m) PROVE TypeOK'
  BY <1>9, RowsAreTyped DEF TypeOK, EndSweep, history
<1>10. ASSUME NEW a \in Actors, ReadRow(a) PROVE TypeOK'
  <2>1. actor' \in [Actors -> ActorState]
    <3>1. actor[a] \in ActorState
      BY DEF TypeOK
    <3>2. [actor[a] EXCEPT !.pc = "close"] \in ActorState
      BY <3>1 DEF ActorState
    <3>3. [actor EXCEPT ![a].pc = "close"] = [actor EXCEPT ![a] = [actor[a] EXCEPT !.pc = "close"]]
      BY DEF TypeOK
    <3>4. \E me \in ActorState : actor' = [actor EXCEPT ![a] = me]
      BY <1>10, <3>2, <3>3, NextTradeIsTyped DEF ReadRow
    <3>. QED  BY <3>4 DEF TypeOK
  <2>2. raced' \subseteq Trades
    BY <1>10 DEF ReadRow, TypeOK
  <2>. QED  BY <1>10, <2>1, <2>2 DEF TypeOK, ReadRow
<1>11. ASSUME NEW a \in Actors, CloseRow(a) PROVE TypeOK'
  <2>1. actor[a] \in ActorState
    BY DEF TypeOK
  <2>2. actor' \in [Actors -> ActorState]
    BY <1>11, NextTradeIsTyped DEF CloseRow, TypeOK
  <2>3. rows' \in [Trades -> Row]
    <3>1. CASE actor[a].trade \in Trades
      <4> DEFINE t == actor[a].trade
                 row == [rows[t] EXCEPT !.status = "CLOSED", !.exit = actor[a].quote,
                                        !.category = actor[a].category]
      <4>1. row \in Row
        <5>1. rows[t] \in Row
          BY <3>1 DEF TypeOK
        <5>2. actor[a].quote \in Nat \cup {NoVal} /\ actor[a].category \in Category \cup {NoVal}
          BY <2>1 DEF ActorState
        <5>. QED  BY <5>1, <5>2 DEF Row
      <4>2. rows' = [rows EXCEPT ![t] = row]
        BY <1>11, <3>1 DEF CloseRow, TypeOK
      <4>. QED  BY <4>1, <4>2 DEF TypeOK
    <3>2. CASE actor[a].trade \notin Trades
      BY <1>11, <3>2 DEF CloseRow, TypeOK
    <3>. QED  BY <3>1, <3>2
  <2>. QED  BY <1>11, <2>2, <2>3 DEF TypeOK, CloseRow, history
<1>12. ASSUME NEW c \in Closers, NEW t \in Trades,
              NEW exit \in Asked \cup {price[t], rows[t].at.fill}, RequestClose(c, t, exit)
       PROVE  TypeOK'
  <2>1. exit \in Nat
    BY NumbersAssumption DEF TypeOK, Row, Level
  <2>2. [Idle EXCEPT !.pc = "read", !.trade = t, !.quote = exit, !.category = "MANUAL_WEB_EXIT"]
          \in ActorState
    BY <2>1, RowsAreTyped DEF Idle, ActorState, Category
  <2>3. actor' \in [Actors -> ActorState]
    BY <1>12, <2>2 DEF RequestClose, TypeOK
  <2>. QED  BY <1>12, <2>3, NumbersAssumption DEF TypeOK, RequestClose, history
<1>13. ASSUME NEW a \in Actors, Abort(a) PROVE TypeOK'
  BY <1>13, RowsAreTyped, FaultIsCounted DEF TypeOK, Abort, history
<1>14. CASE UNCHANGED vars
  BY <1>14 DEF TypeOK, vars, history
<1>. QED
  BY <1>1, <1>2, <1>3, <1>4, <1>5, <1>6, <1>7, <1>8, <1>9, <1>10, <1>11, <1>12, <1>13, <1>14
  DEF Next, Work, Actors

\* Every variable of Positions keeps its type.
THEOREM PositionsTypeCorrectness == Spec => []TypeOK
<1>. QED  BY InitTypeOK, TypeStep, PTL DEF Spec

(***************************************************************************)
(* Levels and exits.                                                       *)
(***************************************************************************)
RowsSound ==
  /\ \A t \in Trades : Known(t) => rows[t].at \in Levels
  /\ ProfitIsLocked
  /\ CategoryExplainsExit

\* No step forgets a trade or changes the levels it was opened with.
RowsGrow == \A t \in Trades : Known(t) => Known(t)' /\ rows'[t].at = rows[t].at

LEMMA OthersStaySound ==
  ASSUME LevelsInv, RowsGrow, NEW b \in Actors, actor'[b] = actor[b]
  PROVE  ReadsSound(b)' /\ WritesSound(b)'
<1>1. ReadsSound(b)'
  BY DEF LevelsInv, RowsGrow, ReadsSound, Reads
<1>2. WritesSound(b)'
  BY DEF LevelsInv, RowsGrow, WritesSound
<1>. QED  BY <1>1, <1>2

LEMMA StepKeepsLevels ==
  ASSUME LevelsInv, TypeOK', NEW a \in Actors, \A b \in Actors \ {a} : actor'[b] = actor[b],
         RowsGrow, RowsSound', ReadsSound(a)', WritesSound(a)'
  PROVE  LevelsInv'
BY OthersStaySound DEF LevelsInv, RowsSound

LEMMA SameRowsAreSound ==
  ASSUME LevelsInv, rows' = rows
  PROVE  RowsGrow /\ RowsSound'
BY DEF LevelsInv, RowsGrow, RowsSound, Known, ProfitIsLocked, CategoryExplainsExit

\* An actor that is idle, or has gone on to the next trade.
LEMMA IdleIsSound ==
  ASSUME NEW a \in Actors, actor'[a] = Idle
  PROVE  ReadsSound(a)' /\ WritesSound(a)'
BY PositionsNoVal DEF ReadsSound, Reads, WritesSound, Idle

LEMMA NextTradeIsSound ==
  ASSUME LevelsInv, RowsGrow, NEW a \in Actors, actor[a].trade \notin actor[a].todo,
         actor'[a] = NextTrade(a)
  PROVE  ReadsSound(a)' /\ WritesSound(a)'
<1>1. /\ actor'[a].pc = "quote" /\ actor'[a].todo = actor[a].todo
      /\ actor'[a].seen = [actor[a].seen EXCEPT ![actor[a].trade] = NoRow]
  BY DEF NextTrade, Idle
<1>2. \A t \in actor[a].todo : t \in Trades /\ actor'[a].seen[t] = actor[a].seen[t]
  BY <1>1 DEF LevelsInv, TypeOK, ActorState
<1>3. ReadsSound(a)'
  BY <1>1, <1>2 DEF LevelsInv, RowsGrow, ReadsSound, Reads
<1>4. WritesSound(a)'
  BY <1>1 DEF WritesSound
<1>. QED  BY <1>3, <1>4

LEMMA DoneIsSound ==
  ASSUME LevelsInv, RowsGrow, NEW a \in Actors, actor[a].trade \notin actor[a].todo,
         actor'[a] = Done(a)
  PROVE  ReadsSound(a)' /\ WritesSound(a)'
BY IdleIsSound, NextTradeIsSound DEF Done

LEMMA SweepKeepsLevels ==
  ASSUME LevelsInv, TypeOK', NEW m \in Monitors, Sweep(m)
  PROVE  LevelsInv'
<1>1. m \in Actors /\ \A b \in Actors \ {m} : actor'[b] = actor[b]
  BY DEF Sweep, LevelsInv, TypeOK, Actors
<1>2. /\ actor'[m].pc = "quote" /\ actor'[m].todo = {t \in Trades : IsOpen(t)}
      /\ actor'[m].seen = rows /\ actor'[m].trade = NoVal
  BY DEF Sweep, LevelsInv, TypeOK, Actors, Idle
<1>3. rows' = rows
  BY DEF Sweep
<1>4. ReadsSound(m)'
  BY <1>2, <1>3 DEF ReadsSound, Reads, LevelsInv, ProfitIsLocked, Known, IsOpen
<1>5. WritesSound(m)'
  BY <1>2 DEF WritesSound
<1>. QED  BY <1>1, <1>3, <1>4, <1>5, SameRowsAreSound, StepKeepsLevels

\* What Quote leaves in the actor.
LEMMA QuoteEffect ==
  ASSUME TypeOK, NEW m \in Monitors, NEW t \in Trades, NEW distance \in Distances,
         Quote(m, t, distance)
  PROVE  /\ actor'[m].pc = "ratchet" /\ actor'[m].trade = t /\ actor'[m].todo = actor[m].todo \ {t}
         /\ actor'[m].seen = actor[m].seen /\ actor'[m].quote = price[t]
         /\ actor'[m].highest = HighestSeen(actor[m].seen[t], price[t])
         /\ actor'[m].stop = TrailingStop(actor[m].seen[t].at,
              HighestSeen(actor[m].seen[t], price[t]), price[t], distance,
              PreviousStop(actor[m].seen[t]))
         /\ \A b \in Actors \ {m} : actor'[b] = actor[b]
<1>1. m \in Actors /\ actor[m] \in ActorState
  BY DEF TypeOK, Actors
<1>2. \A b \in Actors \ {m} : actor'[b] = actor[b]
  BY <1>1 DEF TypeOK, Quote
<1>. QED  BY <1>1, <1>2 DEF TypeOK, Quote, ActorState

LEMMA QuoteKeepsLevels ==
  ASSUME LevelsInv, TypeOK', NEW m \in Monitors, NEW t \in Trades, NEW distance \in Distances,
         Quote(m, t, distance)
  PROVE  LevelsInv'
<1> DEFINE row == actor[m].seen[t]
<1>1. m \in Actors /\ TypeOK /\ t \in actor[m].todo /\ rows' = rows
  BY DEF Quote, LevelsInv, Actors
<1>2. row \in Row /\ Known(t) /\ row.at = rows[t].at /\ RowLocked(row) /\ row.at \in Levels
  BY <1>1, ActorIsTyped DEF LevelsInv, ReadsSound, Reads
<1>3. price[t] \in Nat /\ distance \in Nat
  BY <1>1, QuoteIsTyped
<1>4. Locked(row.at, HighestSeen(row, price[t]),
             TrailingStop(row.at, HighestSeen(row, price[t]), price[t], distance, PreviousStop(row)))
  BY <1>2, <1>3, TrailingStopLocks
<1>5. Locked(rows'[t].at, actor'[m].highest, actor'[m].stop)
  BY <1>1, <1>2, <1>4, QuoteEffect
<1>6. ReadsSound(m)'
  BY <1>1, QuoteEffect DEF LevelsInv, ReadsSound, Reads, Known
<1>7. actor'[m].highest \in Nat /\ actor'[m].stop \in Nat
  BY <1>1, QuoteEffect, QuoteIsTyped
<1>8. WritesSound(m)'
  BY <1>1, <1>2, <1>3, <1>5, <1>7, QuoteEffect DEF WritesSound, Known
<1>. QED  BY <1>1, <1>6, <1>8, QuoteEffect, SameRowsAreSound, StepKeepsLevels

LEMMA NoQuoteKeepsLevels ==
  ASSUME LevelsInv, TypeOK', NEW m \in Monitors, NEW t \in Trades, NoQuote(m, t)
  PROVE  LevelsInv'
<1>1. m \in Actors /\ \A b \in Actors \ {m} : actor'[b] = actor[b]
  BY DEF NoQuote, LevelsInv, TypeOK, Actors
<1>2. /\ actor'[m].pc = "quote" /\ actor'[m].todo = actor[m].todo \ {t}
      /\ actor'[m].seen = actor[m].seen
  BY DEF NoQuote, LevelsInv, TypeOK, Actors, ActorState
<1>3. rows' = rows
  BY DEF NoQuote
<1>4. ReadsSound(m)' /\ WritesSound(m)'
  BY <1>1, <1>2, <1>3 DEF LevelsInv, ReadsSound, Reads, Known, WritesSound
<1>. QED  BY <1>1, <1>3, <1>4, SameRowsAreSound, StepKeepsLevels

\* The trade goes on to be judged, whether or not its levels were written.
LEMMA RatchetedIsSound ==
  ASSUME LevelsInv, RowsGrow, NEW m \in Monitors, actor[m].pc = "ratchet",
         actor' = [actor EXCEPT ![m].pc = "judge"]
  PROVE  /\ m \in Actors /\ \A b \in Actors \ {m} : actor'[b] = actor[b]
         /\ ReadsSound(m)' /\ WritesSound(m)'
<1>1. m \in Actors /\ \A b \in Actors \ {m} : actor'[b] = actor[b]
  BY DEF LevelsInv, TypeOK, Actors
<1>2. /\ actor'[m].pc = "judge" /\ actor'[m].todo = actor[m].todo
      /\ actor'[m].seen = actor[m].seen /\ actor'[m].trade = actor[m].trade
      /\ actor'[m].highest = actor[m].highest /\ actor'[m].stop = actor[m].stop
      /\ actor'[m].quote = actor[m].quote
  BY <1>1 DEF LevelsInv, TypeOK, ActorState
<1>3. ReadsSound(m)'
  BY <1>1, <1>2 DEF LevelsInv, RowsGrow, ReadsSound, Reads
<1>4. WritesSound(m)'
  BY <1>1, <1>2 DEF LevelsInv, RowsGrow, WritesSound
<1>. QED  BY <1>1, <1>3, <1>4

LEMMA RatchetKeepsLevels ==
  ASSUME LevelsInv, TypeOK', NEW m \in Monitors, Ratchet(m)
  PROVE  LevelsInv'
<1> DEFINE t == actor[m].trade
           row == [rows[t] EXCEPT !.highest = actor[m].highest, !.stop = actor[m].stop]
<1>1. /\ m \in Actors /\ t \in Trades /\ Known(t)
      /\ actor[m].highest \in Nat /\ actor[m].stop \in Nat
      /\ Locked(rows[t].at, actor[m].highest, actor[m].stop)
  BY DEF Ratchet, LevelsInv, WritesSound, Actors
<1>2. rows[t] \in Row
  BY <1>1 DEF LevelsInv, TypeOK
<1>3. /\ row.at = rows[t].at /\ row.status = rows[t].status /\ row.highest = actor[m].highest
      /\ row.stop = actor[m].stop /\ row.exit = rows[t].exit /\ row.category = rows[t].category
  BY <1>2 DEF Row
<1>4. rows'[t] = row /\ \A u \in Trades \ {t} : rows'[u] = rows[u]
  BY <1>1 DEF Ratchet, LevelsInv, TypeOK
<1>. HIDE DEF row
<1>5. RowsGrow
  BY <1>3, <1>4 DEF RowsGrow, Known
<1>6. RowsSound'
  <2>1. ProfitIsLocked'
    BY <1>1, <1>3, <1>4 DEF LevelsInv, ProfitIsLocked, RowLocked
  <2>2. CategoryExplainsExit'
    BY <1>3, <1>4 DEF LevelsInv, CategoryExplainsExit
  <2>. QED  BY <1>3, <1>4, <2>1, <2>2 DEF LevelsInv, RowsSound, Known
<1>. QED  BY <1>5, <1>6, RatchetedIsSound, StepKeepsLevels DEF Ratchet

LEMMA RatchetFailsKeepsLevels ==
  ASSUME LevelsInv, TypeOK', NEW m \in Monitors, RatchetFails(m)
  PROVE  LevelsInv'
<1>1. rows' = rows /\ actor[m].pc = "ratchet" /\ actor' = [actor EXCEPT ![m].pc = "judge"]
  BY DEF RatchetFails
<1>. QED  BY <1>1, SameRowsAreSound, RatchetedIsSound, StepKeepsLevels

LEMMA JudgeKeepsLevels ==
  ASSUME LevelsInv, TypeOK', NEW m \in Monitors, Judge(m)
  PROVE  LevelsInv'
<1> DEFINE me == actor[m]
           category == ExitCategory(me.seen[me.trade].at, me.highest, me.stop, me.quote)
<1>1. /\ m \in Actors /\ rows' = rows /\ me.pc = "judge"
      /\ me.trade \in Trades /\ me.trade \notin me.todo /\ Known(me.trade)
      /\ me.quote \in Nat /\ me.highest \in Nat /\ me.stop \in Nat
  BY DEF Judge, LevelsInv, WritesSound, Actors
<1>2. RowsGrow /\ RowsSound'
  BY <1>1, SameRowsAreSound
<1>3. \A b \in Actors \ {m} : actor'[b] = actor[b]
  BY DEF Judge, LevelsInv, TypeOK
<1>4. me.seen[me.trade].at = rows[me.trade].at /\ rows[me.trade].at \in Levels
  BY <1>1 DEF LevelsInv, ReadsSound, Reads
<1>5. Explains(category, rows[me.trade].at, me.quote)
  BY <1>1, <1>4, LevelsAreOrdered, ExitCategoryExplains
<1>6. ReadsSound(m)' /\ WritesSound(m)'
  <2>1. CASE category = NoVal
    <3>1. actor'[m] = NextTrade(m)
      BY <1>1, <2>1 DEF Judge, LevelsInv, TypeOK
    <3>. QED  BY <1>1, <1>2, <3>1, NextTradeIsSound
  <2>2. CASE category # NoVal
    <3>1. actor'[m] = [me EXCEPT !.pc = "read", !.category = category]
      BY <1>1, <2>2 DEF Judge, LevelsInv, TypeOK
    <3>2. me \in ActorState
      BY <1>1 DEF LevelsInv, TypeOK
    <3>. HIDE DEF category
    <3>3. /\ actor'[m].pc = "read" /\ actor'[m].todo = me.todo /\ actor'[m].trade = me.trade
          /\ actor'[m].seen = me.seen /\ actor'[m].quote = me.quote
          /\ actor'[m].category = category
      BY <3>1, <3>2 DEF ActorState
    <3>4. ReadsSound(m)'
      BY <1>1, <3>3 DEF LevelsInv, ReadsSound, Reads, Known
    <3>5. WritesSound(m)'
      BY <1>1, <1>5, <3>3 DEF WritesSound, Known
    <3>. QED  BY <3>4, <3>5
  <2>. QED  BY <2>1, <2>2
<1>. QED  BY <1>1, <1>2, <1>3, <1>6, StepKeepsLevels

LEMMA EndKeepsLevels ==
  ASSUME LevelsInv, TypeOK', NEW a \in Actors, rows' = rows, actor' = [actor EXCEPT ![a] = Idle]
  PROVE  LevelsInv'
<1>1. actor'[a] = Idle /\ \A b \in Actors \ {a} : actor'[b] = actor[b]
  BY DEF LevelsInv, TypeOK
<1>. QED  BY <1>1, SameRowsAreSound, IdleIsSound, StepKeepsLevels

LEMMA RequestCloseKeepsLevels ==
  ASSUME LevelsInv, TypeOK', NEW c \in Closers, NEW t \in Trades,
         NEW exit \in Asked \cup {price[t], rows[t].at.fill}, RequestClose(c, t, exit)
  PROVE  LevelsInv'
<1>1. c \in Actors /\ rows' = rows /\ Known(t)
  BY DEF RequestClose, Actors, IsOpen, Known
<1>2. exit \in Nat
  BY NumbersAssumption DEF LevelsInv, TypeOK, Row, Level
<1>3. /\ actor'[c].pc = "read" /\ actor'[c].trade = t /\ actor'[c].quote = exit
      /\ actor'[c].category = "MANUAL_WEB_EXIT" /\ actor'[c].todo = {}
      /\ \A b \in Actors \ {c} : actor'[b] = actor[b]
  BY <1>1 DEF RequestClose, LevelsInv, TypeOK, Idle
<1>4. ReadsSound(c)' /\ WritesSound(c)'
  BY <1>1, <1>2, <1>3 DEF ReadsSound, Reads, WritesSound, Explains, Known
<1>. QED  BY <1>1, <1>3, <1>4, SameRowsAreSound, StepKeepsLevels

LEMMA ReadRowKeepsLevels ==
  ASSUME LevelsInv, TypeOK', NEW a \in Actors, ReadRow(a)
  PROVE  LevelsInv'
<1>1. /\ rows' = rows /\ actor[a].pc = "read" /\ actor[a].trade \notin actor[a].todo
      /\ actor[a] \in ActorState
  BY DEF ReadRow, LevelsInv, WritesSound, TypeOK
<1>2. RowsGrow /\ RowsSound'
  BY <1>1, SameRowsAreSound
<1>3. \A b \in Actors \ {a} : actor'[b] = actor[b]
  BY DEF ReadRow, LevelsInv, TypeOK
<1>4. ReadsSound(a)' /\ WritesSound(a)'
  <2>1. CASE IsOpen(actor[a].trade)
    <3>1. /\ actor'[a].pc = "close" /\ actor'[a].todo = actor[a].todo
          /\ actor'[a].trade = actor[a].trade /\ actor'[a].seen = actor[a].seen
          /\ actor'[a].quote = actor[a].quote /\ actor'[a].category = actor[a].category
      BY <1>1, <2>1 DEF ReadRow, LevelsInv, TypeOK, ActorState
    <3>2. ReadsSound(a)'
      BY <1>1, <3>1 DEF LevelsInv, ReadsSound, Reads, Known
    <3>3. WritesSound(a)'
      BY <1>1, <3>1 DEF LevelsInv, WritesSound, Known
    <3>. QED  BY <3>2, <3>3
  <2>2. CASE ~IsOpen(actor[a].trade)
    <3>1. actor'[a] = Done(a)
      BY <2>2 DEF ReadRow, LevelsInv, TypeOK
    <3>. QED  BY <1>1, <1>2, <3>1, DoneIsSound
  <2>. QED  BY <2>1, <2>2
<1>. QED  BY <1>2, <1>3, <1>4, StepKeepsLevels

LEMMA CloseRowKeepsLevels ==
  ASSUME LevelsInv, TypeOK', NEW a \in Actors, CloseRow(a)
  PROVE  LevelsInv'
<1> DEFINE t == actor[a].trade
           row == [rows[t] EXCEPT !.status = "CLOSED", !.exit = actor[a].quote,
                                  !.category = actor[a].category]
<1>1. /\ t \in Trades /\ t \notin actor[a].todo /\ Known(t)
      /\ Explains(actor[a].category, rows[t].at, actor[a].quote)
  BY DEF CloseRow, LevelsInv, WritesSound
<1>2. rows[t] \in Row
  BY <1>1 DEF LevelsInv, TypeOK
<1>3. /\ row.at = rows[t].at /\ row.status = "CLOSED" /\ row.highest = rows[t].highest
      /\ row.stop = rows[t].stop /\ row.exit = actor[a].quote /\ row.category = actor[a].category
  BY <1>2 DEF Row
<1>4. rows'[t] = row /\ \A u \in Trades \ {t} : rows'[u] = rows[u]
  BY <1>1 DEF CloseRow, LevelsInv, TypeOK
<1>. HIDE DEF row
<1>5. RowsGrow
  BY <1>3, <1>4 DEF RowsGrow, Known
<1>6. RowsSound'
  <2>1. ProfitIsLocked'
    BY <1>3, <1>4 DEF LevelsInv, ProfitIsLocked, RowLocked
  <2>2. CategoryExplainsExit'
    BY <1>1, <1>3, <1>4 DEF LevelsInv, CategoryExplainsExit
  <2>. QED  BY <1>1, <1>3, <1>4, <2>1, <2>2 DEF LevelsInv, RowsSound, Known
<1>7. actor'[a] = Done(a) /\ \A b \in Actors \ {a} : actor'[b] = actor[b]
  BY DEF CloseRow, LevelsInv, TypeOK
<1>. QED  BY <1>1, <1>5, <1>6, <1>7, DoneIsSound, StepKeepsLevels

LEMMA OpenKeepsLevels ==
  ASSUME LevelsInv, TypeOK', NEW t \in Trades, NEW at \in Levels, Open(t, at)
  PROVE  LevelsInv'
<1>1. /\ rows'[t] = [NoRow EXCEPT !.status = "OPEN_PAPER", !.at = at]
      /\ \A u \in Trades \ {t} : rows'[u] = rows[u]
  BY DEF Open, LevelsInv, TypeOK
<1>2. /\ rows'[t].at = at /\ rows'[t].status = "OPEN_PAPER" /\ rows'[t].highest = NoVal
      /\ rows'[t].category = NoVal /\ ~Known(t)
  <2>1. ~Known(t)
    BY DEF Open, NoRow, Known
  <2>. QED  BY <1>1, <2>1 DEF NoRow
<1>3. RowsGrow
  BY <1>1, <1>2 DEF RowsGrow, Known
<1>4. ProfitIsLocked'
  BY <1>1, <1>2 DEF LevelsInv, ProfitIsLocked, RowLocked
<1>5. CategoryExplainsExit'
  <2>1. Explains(NoVal, rows'[t].at, rows'[t].exit)
    BY PositionsNoVal DEF Explains, Category
  <2>. QED  BY <1>1, <1>2, <2>1 DEF LevelsInv, CategoryExplainsExit
<1>6. RowsSound'
  BY <1>1, <1>2, <1>4, <1>5 DEF LevelsInv, RowsSound, Known
<1>7. actor' = actor
  BY DEF Open
<1>. QED  BY <1>3, <1>6, <1>7, OthersStaySound DEF LevelsInv, RowsSound

LEMMA LevelsStep == LevelsInv /\ [Next]_vars => LevelsInv'
<1>. SUFFICES ASSUME LevelsInv, [Next]_vars PROVE LevelsInv'
  OBVIOUS
<1>1. TypeOK'
  BY TypeStep DEF LevelsInv
<1>2. CASE rows' = rows /\ actor' = actor
  BY <1>1, <1>2, SameRowsAreSound, OthersStaySound DEF LevelsInv, RowsSound
<1>3. ASSUME NEW m \in Monitors, Sweep(m) \/ Work(m) \/ RatchetFails(m)
                                   \/ \E t \in Trades : NoQuote(m, t)
      PROVE  LevelsInv'
  <2>1. ASSUME EndSweep(m) PROVE LevelsInv'
    BY <1>1, <2>1, EndKeepsLevels DEF EndSweep, Actors
  <2>. QED
    BY <1>1, <1>3, <2>1, SweepKeepsLevels, QuoteKeepsLevels, NoQuoteKeepsLevels,
       RatchetKeepsLevels, RatchetFailsKeepsLevels, JudgeKeepsLevels, ReadRowKeepsLevels,
       CloseRowKeepsLevels
    DEF Work, Actors
<1>4. ASSUME NEW a \in Actors, Abort(a) PROVE LevelsInv'
  BY <1>1, <1>4, EndKeepsLevels DEF Abort
<1>5. ASSUME NEW t \in Trades, NEW p \in Prices, MovePrice(t, p) PROVE LevelsInv'
  BY <1>2, <1>5 DEF MovePrice
<1>6. CASE UNCHANGED vars
  BY <1>2, <1>6 DEF vars
<1>. QED
  BY <1>1, <1>3, <1>4, <1>5, <1>6, OpenKeepsLevels, RequestCloseKeepsLevels,
     ReadRowKeepsLevels, CloseRowKeepsLevels
  DEF Next, Actors

LEMMA InitLevels == Init => LevelsInv
<1>. SUFFICES ASSUME Init PROVE LevelsInv
  OBVIOUS
<1>1. \A t \in Trades : rows[t] = NoRow
  BY DEF Init
<1>2. \A a \in Actors : actor[a] = Idle
  BY DEF Init
<1>3. ProfitIsLocked /\ CategoryExplainsExit /\ \A t \in Trades : ~Known(t)
  BY <1>1, PositionsNoVal
  DEF ProfitIsLocked, RowLocked, CategoryExplainsExit, Explains, Known, NoRow, Category
<1>4. \A a \in Actors : ReadsSound(a) /\ WritesSound(a)
  BY <1>2, PositionsNoVal DEF ReadsSound, Reads, WritesSound, Idle
<1>. QED  BY <1>3, <1>4, InitTypeOK DEF LevelsInv

LEMMA LevelsHold == Spec => []LevelsInv
BY InitLevels, LevelsStep, PTL DEF Spec

\* Once the recorded high has reached +1.5R, the recorded stop is at the entry
\* or above, however many monitors write the row.
THEOREM ProfitStaysLocked == Spec => []ProfitIsLocked
<1>1. LevelsInv => ProfitIsLocked
  BY DEF LevelsInv
<1>. QED  BY <1>1, LevelsHold, PTL

\* The category of every closed trade is borne out by its exit price.
THEOREM ExitsAreExplained == Spec => []CategoryExplainsExit
<1>1. LevelsInv => CategoryExplainsExit
  BY DEF LevelsInv
<1>. QED  BY <1>1, LevelsHold, PTL

(***************************************************************************)
(* What the steps that write rows leave in them.                           *)
(***************************************************************************)
\* Only these steps write rows.
LEMMA Writers ==
  ASSUME [Next]_vars
  PROVE  \/ rows' = rows
         \/ \E m \in Monitors : Ratchet(m)
         \/ \E a \in Actors : CloseRow(a)
         \/ \E t \in Trades, at \in Levels : Open(t, at)
<1>1. ASSUME NEW m \in Monitors, Work(m)
      PROVE  rows' = rows \/ Ratchet(m) \/ CloseRow(m)
  BY <1>1 DEF Work, Quote, Judge, EndSweep, ReadRow
<1>2. ASSUME NEW m \in Monitors,
             Sweep(m) \/ Work(m) \/ RatchetFails(m) \/ \E t \in Trades : NoQuote(m, t)
      PROVE  rows' = rows \/ Ratchet(m) \/ CloseRow(m)
  BY <1>1, <1>2 DEF Sweep, RatchetFails, NoQuote
<1>3. ASSUME NEW t \in Trades, NEW p \in Prices, MovePrice(t, p) PROVE rows' = rows
  BY <1>3 DEF MovePrice
<1>4. ASSUME NEW c \in Closers, ReadRow(c) \/ CloseRow(c) PROVE rows' = rows \/ CloseRow(c)
  BY <1>4 DEF ReadRow
<1>5. ASSUME NEW c \in Closers, NEW t \in Trades, NEW exit, RequestClose(c, t, exit)
      PROVE  rows' = rows
  BY <1>5 DEF RequestClose
<1>6. ASSUME NEW a \in Actors, Abort(a) PROVE rows' = rows
  BY <1>6 DEF Abort
<1>7. CASE UNCHANGED vars
  BY <1>7 DEF vars
<1>. QED  BY <1>2, <1>3, <1>4, <1>5, <1>6, <1>7 DEF Next, Actors

LEMMA RatchetEffect ==
  ASSUME LevelsInv, NEW m \in Monitors, Ratchet(m)
  PROVE  LET t == actor[m].trade IN
         /\ t \in Trades /\ Known(t) /\ actor[m].stop \in Nat
         /\ rows'[t].status = rows[t].status /\ rows'[t].exit = rows[t].exit
         /\ rows'[t].at = rows[t].at /\ rows'[t].stop = actor[m].stop
         /\ \A u \in Trades \ {t} : rows'[u] = rows[u]
<1> DEFINE t == actor[m].trade
<1>1. t \in Trades /\ Known(t) /\ actor[m].stop \in Nat
  BY DEF Ratchet, LevelsInv, WritesSound, Actors
<1>2. rows[t] \in Row
  BY <1>1 DEF LevelsInv, TypeOK
<1>3. rows'[t] = [rows[t] EXCEPT !.highest = actor[m].highest, !.stop = actor[m].stop]
  BY <1>1 DEF Ratchet, LevelsInv, TypeOK
<1>4. \A u \in Trades \ {t} : rows'[u] = rows[u]
  BY <1>1 DEF Ratchet, LevelsInv, TypeOK
<1>. QED  BY <1>1, <1>2, <1>3, <1>4 DEF Row

LEMMA CloseRowEffect ==
  ASSUME LevelsInv, NEW a \in Actors, CloseRow(a)
  PROVE  LET t == actor[a].trade IN
         /\ t \in Trades /\ Known(t)
         /\ rows'[t].status = "CLOSED"
         /\ rows'[t].at = rows[t].at /\ rows'[t].stop = rows[t].stop
         /\ \A u \in Trades \ {t} : rows'[u] = rows[u]
<1> DEFINE t == actor[a].trade
<1>1. t \in Trades /\ Known(t)
  BY DEF CloseRow, LevelsInv, WritesSound
<1>2. rows[t] \in Row
  BY <1>1 DEF LevelsInv, TypeOK
<1>3. rows'[t] = [rows[t] EXCEPT !.status = "CLOSED", !.exit = actor[a].quote,
                                 !.category = actor[a].category]
  BY <1>1 DEF CloseRow, LevelsInv, TypeOK
<1>4. \A u \in Trades \ {t} : rows'[u] = rows[u]
  BY <1>1 DEF CloseRow, LevelsInv, TypeOK
<1>. QED  BY <1>1, <1>2, <1>3, <1>4 DEF Row

LEMMA OpenEffect ==
  ASSUME LevelsInv, NEW t \in Trades, NEW at \in Levels, Open(t, at)
  PROVE  /\ rows[t] = NoRow /\ ~Known(t) /\ actor' = actor
         /\ raced' = raced /\ shared' = shared
         /\ \A u \in Trades \ {t} : rows'[u] = rows[u]
<1>1. ~Known(t)
  BY DEF Open, NoRow, Known
<1>. QED  BY <1>1 DEF Open, history, LevelsInv, TypeOK

(***************************************************************************)
(* Closes that overlap.                                                    *)
(***************************************************************************)
LEMMA RaceIsKept ==
  ASSUME RaceInv, raced' = raced,
         \A t \in Trades : IsOpen(t) => IsOpen(t)',
         \A b \in Actors : actor'[b].pc = "close" =>
           actor[b].pc = "close" /\ actor'[b].trade = actor[b].trade /\ actor[b].trade \in Trades
  PROVE  RaceInv'
BY DEF RaceInv, Unrivalled, Closing

\* What a step does to the actors that are about to close: ReadRow adds one.
LEMMA ClosersOnlyLeave ==
  ASSUME LevelsInv, NEW a \in Actors, NEW me \in ActorState, me.pc # "close",
         actor' = [actor EXCEPT ![a] = me]
  PROVE  \A b \in Actors : actor'[b].pc = "close" =>
           actor[b].pc = "close" /\ actor'[b].trade = actor[b].trade /\ actor[b].trade \in Trades
BY DEF LevelsInv, TypeOK, WritesSound

LEMMA MonitorStepKeepsRace ==
  ASSUME LevelsInv, RaceInv, TypeOK', NEW m \in Monitors,
         \/ Sweep(m) \/ Ratchet(m) \/ RatchetFails(m) \/ Judge(m) \/ EndSweep(m)
         \/ \E t \in Trades, distance \in Distances : Quote(m, t, distance)
         \/ \E t \in Trades : NoQuote(m, t)
  PROVE  RaceInv'
<1>1. m \in Actors /\ actor[m] \in ActorState /\ raced' = raced
  BY DEF LevelsInv, TypeOK, Actors, Sweep, Ratchet, RatchetFails, Judge, EndSweep, Quote, NoQuote,
         history
<1>2. actor'[m].pc # "close" /\ \A b \in Actors \ {m} : actor'[b] = actor[b]
  <2>1. CASE Judge(m)
    BY <1>1, <2>1 DEF Judge, LevelsInv, TypeOK, ActorState, NextTrade, Idle
  <2>2. CASE \E t \in Trades, distance \in Distances : Quote(m, t, distance)
    BY <2>2, QuoteEffect DEF LevelsInv
  <2>3. CASE Sweep(m) \/ EndSweep(m)
    <3>1. CASE Sweep(m)
      BY <1>1, <3>1 DEF Sweep, LevelsInv, TypeOK, Idle
    <3>2. CASE EndSweep(m)
      BY <1>1, <3>2 DEF EndSweep, LevelsInv, TypeOK, Idle
    <3>. QED  BY <2>3, <3>1, <3>2
  <2>4. CASE Ratchet(m) \/ RatchetFails(m)
    BY <1>1, <2>4 DEF Ratchet, RatchetFails, LevelsInv, TypeOK, ActorState
  <2>5. CASE \E t \in Trades : NoQuote(m, t)
    BY <1>1, <2>5 DEF NoQuote, LevelsInv, TypeOK, ActorState
  <2>. QED  BY <2>1, <2>2, <2>3, <2>4, <2>5
<1>3. \A t \in Trades : IsOpen(t) => IsOpen(t)'
  <2>1. CASE Ratchet(m)
    BY <2>1, RatchetEffect DEF IsOpen
  <2>2. CASE rows' = rows
    BY <2>2 DEF IsOpen
  <2>. QED  BY <2>1, <2>2 DEF Sweep, RatchetFails, Judge, EndSweep, Quote, NoQuote
<1>4. \A b \in Actors : actor'[b].pc = "close" =>
        actor[b].pc = "close" /\ actor'[b].trade = actor[b].trade /\ actor[b].trade \in Trades
  BY <1>2 DEF LevelsInv, WritesSound
<1>. QED  BY <1>1, <1>3, <1>4, RaceIsKept

LEMMA ReadRowKeepsRace ==
  ASSUME LevelsInv, RaceInv, NEW a \in Actors, ReadRow(a)
  PROVE  RaceInv'
<1> DEFINE t == actor[a].trade
<1>1. /\ t \in Trades /\ actor[a].pc = "read" /\ rows' = rows /\ actor[a] \in ActorState
      /\ \A b \in Actors \ {a} : actor'[b] = actor[b]
  BY DEF ReadRow, LevelsInv, WritesSound, TypeOK
<1>2. CASE IsOpen(t)
  <2>1. actor'[a].pc = "close" /\ actor'[a].trade = t
    BY <1>1, <1>2 DEF ReadRow, LevelsInv, TypeOK, ActorState
  <2>2. raced \subseteq raced' /\ (t \in raced' \/ Closing(t) = {})
    BY <1>1, <1>2 DEF ReadRow
  <2>3. ASSUME NEW b \in Actors, actor'[b].pc = "close", actor'[b].trade = t
        PROVE  Unrivalled(b)'
    <3>1. CASE t \in raced'
      BY <2>3, <3>1 DEF Unrivalled
    <3>2. CASE Closing(t) = {}
      <4>1. b = a
        BY <1>1, <2>3, <3>2 DEF Closing
      <4>2. {c \in Actors : actor'[c].pc = "close" /\ actor'[c].trade = t} = {a}
        BY <1>1, <2>1, <3>2 DEF Closing
      <4>. QED  BY <1>1, <1>2, <2>3, <4>1, <4>2 DEF Unrivalled, Closing, IsOpen
    <3>. QED  BY <2>2, <3>1, <3>2
  <2>4. ASSUME NEW b \in Actors, actor'[b].pc = "close", actor'[b].trade # t
        PROVE  Unrivalled(b)'
    <3>1. actor'[b] = actor[b] /\ Unrivalled(b)
      BY <1>1, <2>1, <2>4 DEF RaceInv
    <3>2. {c \in Actors : actor'[c].pc = "close" /\ actor'[c].trade = actor[b].trade}
            = Closing(actor[b].trade)
      BY <1>1, <2>1, <2>4, <3>1 DEF Closing
    <3>. QED  BY <1>1, <2>2, <3>1, <3>2 DEF Unrivalled, Closing, IsOpen
  <2>. QED  BY <2>3, <2>4 DEF RaceInv
<1>3. CASE ~IsOpen(t)
  <2>1. actor'[a].pc # "close"
    BY <1>1, <1>3 DEF ReadRow, LevelsInv, TypeOK, Done, NextTrade, Idle
  <2>2. raced' = raced
    BY <1>1, <1>3 DEF ReadRow
  <2>3. \A b \in Actors : actor'[b].pc = "close" =>
          actor[b].pc = "close" /\ actor'[b].trade = actor[b].trade /\ actor[b].trade \in Trades
    BY <1>1, <2>1 DEF LevelsInv, WritesSound
  <2>. QED  BY <1>1, <2>2, <2>3, RaceIsKept DEF IsOpen
<1>. QED  BY <1>2, <1>3

LEMMA CloseRowKeepsRace ==
  ASSUME LevelsInv, RaceInv, NEW a \in Actors, CloseRow(a)
  PROVE  RaceInv'
<1> DEFINE t == actor[a].trade
<1>1. /\ actor[a].pc = "close" /\ raced' = raced
      /\ actor'[a] = Done(a) /\ \A b \in Actors \ {a} : actor'[b] = actor[b]
  BY DEF CloseRow, LevelsInv, TypeOK, history
<1>2. actor'[a].pc # "close"
  BY <1>1 DEF Done, NextTrade, Idle
<1>3. ASSUME NEW b \in Actors, actor'[b].pc = "close"
      PROVE  Unrivalled(b)'
  <2>1. b # a /\ actor'[b] = actor[b] /\ actor[b].pc = "close" /\ actor[b].trade \in Trades
    BY <1>1, <1>2, <1>3 DEF LevelsInv, WritesSound
  <2>2. CASE actor[b].trade = t
    <3>1. t \in raced
      BY <1>1, <2>1, <2>2 DEF RaceInv, Unrivalled, Closing
    <3>. QED  BY <1>1, <2>1, <2>2, <3>1 DEF Unrivalled
  <2>3. CASE actor[b].trade # t
    <3>1. rows'[actor[b].trade] = rows[actor[b].trade]
      BY <2>1, <2>3, CloseRowEffect
    <3>2. {c \in Actors : actor'[c].pc = "close" /\ actor'[c].trade = actor[b].trade}
            = Closing(actor[b].trade)
      BY <1>1, <1>2, <2>3 DEF Closing
    <3>. QED  BY <1>1, <2>1, <3>1, <3>2 DEF RaceInv, Unrivalled, Closing, IsOpen
  <2>. QED  BY <2>2, <2>3
<1>. QED  BY <1>3 DEF RaceInv

LEMMA RaceStep == LevelsInv /\ RaceInv /\ [Next]_vars => RaceInv'
<1>. SUFFICES ASSUME LevelsInv, RaceInv, [Next]_vars PROVE RaceInv'
  OBVIOUS
<1>1. TypeOK'
  BY TypeStep DEF LevelsInv
<1>2. CASE rows' = rows /\ actor' = actor /\ raced' = raced
  BY <1>2 DEF RaceInv, Unrivalled, IsOpen, Closing
<1>3. ASSUME NEW t \in Trades, NEW at \in Levels, Open(t, at) PROVE RaceInv'
  <2>1. \A u \in Trades : IsOpen(u) => IsOpen(u)'
    BY <1>3, OpenEffect DEF IsOpen, Known
  <2>2. \A b \in Actors : actor[b].pc = "close" => actor[b].trade \in Trades
    BY DEF LevelsInv, WritesSound
  <2>. QED  BY <1>3, <2>1, <2>2, OpenEffect, RaceIsKept
<1>4. ASSUME NEW t \in Trades, NEW p \in Prices, MovePrice(t, p) PROVE RaceInv'
  BY <1>2, <1>4 DEF MovePrice, history
<1>5. ASSUME NEW c \in Closers, NEW t \in Trades,
             NEW exit \in Asked \cup {price[t], rows[t].at.fill}, RequestClose(c, t, exit)
      PROVE  RaceInv'
  <2>1. /\ c \in Actors /\ actor'[c].pc = "read" /\ rows' = rows /\ raced' = raced
        /\ \A b \in Actors \ {c} : actor'[b] = actor[b]
    BY <1>5 DEF RequestClose, LevelsInv, TypeOK, Actors, Idle, history
  <2>2. \A b \in Actors : actor'[b].pc = "close" =>
          actor[b].pc = "close" /\ actor'[b].trade = actor[b].trade /\ actor[b].trade \in Trades
    BY <2>1 DEF LevelsInv, WritesSound
  <2>. QED  BY <2>1, <2>2, RaceIsKept DEF IsOpen
<1>6. ASSUME NEW a \in Actors, Abort(a) PROVE RaceInv'
  <2>1. rows' = rows /\ raced' = raced
    BY <1>6 DEF Abort, history
  <2>2. \A b \in Actors : actor'[b].pc = "close" =>
          actor[b].pc = "close" /\ actor'[b].trade = actor[b].trade /\ actor[b].trade \in Trades
    BY <1>6, RowsAreTyped, ClosersOnlyLeave DEF Abort, Idle
  <2>. QED  BY <2>1, <2>2, RaceIsKept DEF IsOpen
<1>7. CASE UNCHANGED vars
  BY <1>2, <1>7 DEF vars, history
<1>. QED
  BY <1>1, <1>3, <1>4, <1>5, <1>6, <1>7, MonitorStepKeepsRace, ReadRowKeepsRace,
     CloseRowKeepsRace
  DEF Next, Work, Actors

LEMMA RaceHolds == Spec => [](LevelsInv /\ RaceInv)
<1>1. Init => RaceInv
  BY DEF Init, RaceInv, Idle
<1>. QED  BY <1>1, RaceStep, LevelsHold, PTL DEF Spec

\* A closed trade stays closed, and its exit is overwritten only by a close
\* that read the row while another was about to write it.
THEOREM SecondClosesRace == Spec => SecondCloseNeedsRace
<1> DEFINE Final(t) == rows[t].status = "CLOSED" =>
                         /\ rows'[t].status = "CLOSED"
                         /\ rows'[t].exit # rows[t].exit => t \in raced
<1>1. LevelsInv /\ RaceInv /\ [Next]_vars => \A t \in Trades : Final(t)
  <2>. SUFFICES ASSUME LevelsInv, RaceInv, [Next]_vars, NEW t \in Trades PROVE Final(t)
    OBVIOUS
  <2>1. CASE rows' = rows
    BY <2>1
  <2>2. ASSUME NEW m \in Monitors, Ratchet(m) PROVE Final(t)
    BY <2>2, RatchetEffect
  <2>3. ASSUME NEW a \in Actors, CloseRow(a) PROVE Final(t)
    <3>1. actor[a].trade = t /\ rows[t].status = "CLOSED" => t \in raced
      BY <2>3 DEF CloseRow, RaceInv, Unrivalled, IsOpen
    <3>. QED  BY <2>3, <3>1, CloseRowEffect
  <2>4. ASSUME NEW u \in Trades, NEW at \in Levels, Open(u, at) PROVE Final(t)
    BY <2>4, OpenEffect DEF NoRow
  <2>. QED  BY <2>1, <2>2, <2>3, <2>4, Writers
<1>. QED  BY <1>1, RaceHolds, PTL DEF Spec, SecondCloseNeedsRace

(***************************************************************************)
(* Stops that are lowered.                                                 *)
(***************************************************************************)
LEMMA WorkIsRead ==
  ASSUME LevelsInv, NEW m \in Monitors, NEW t \in Trades, t \in InWork(m)
  PROVE  Known(t)
BY DEF LevelsInv, ReadsSound, Reads, InWork, Actors

\* Work is only finished, and the recorded stops stay what they are.
LEMMA ShareIsKept ==
  ASSUME LevelsInv, ShareInv, shared' = shared,
         \A t \in Trades : Known(t) => PreviousStop(rows'[t]) = PreviousStop(rows[t]),
         \A m \in Monitors, t \in Trades :
           t \in InWork(m)' =>
             /\ t \in InWork(m)
             /\ actor'[m].seen[t] = actor[m].seen[t]
             /\ actor'[m].pc = "ratchet" /\ actor'[m].trade = t =>
                  actor[m].pc = "ratchet" /\ actor[m].trade = t /\ actor'[m].stop = actor[m].stop
  PROVE  ShareInv'
BY WorkIsRead DEF ShareInv

\* The same when one monitor's work is what is left on its list.
LEMMA ShareIsKeptByRest ==
  ASSUME LevelsInv, ShareInv, shared' = shared, NEW a \in Actors,
         \A b \in Actors \ {a} : actor'[b] = actor[b],
         \A t \in Trades : Known(t) => PreviousStop(rows'[t]) = PreviousStop(rows[t]),
         actor'[a].pc # "ratchet", actor'[a].todo \subseteq actor[a].todo,
         \A t \in actor'[a].todo : actor'[a].seen[t] = actor[a].seen[t]
  PROVE  ShareInv'
<1>1. ASSUME NEW m \in Monitors, NEW t \in Trades, t \in InWork(m)'
      PROVE  /\ t \in InWork(m)
             /\ actor'[m].seen[t] = actor[m].seen[t]
             /\ actor'[m].pc = "ratchet" /\ actor'[m].trade = t =>
                  actor[m].pc = "ratchet" /\ actor[m].trade = t /\ actor'[m].stop = actor[m].stop
  <2>1. CASE m = a
    BY <1>1, <2>1 DEF InWork
  <2>2. CASE m # a
    BY <1>1, <2>2 DEF InWork, Actors
  <2>. QED  BY <2>1, <2>2
<1>. QED  BY <1>1, ShareIsKept

\* Ending, or going on to the next trade, leaves less work.
LEMMA DoneLeavesRest ==
  ASSUME LevelsInv, NEW a \in Actors, actor[a].trade \notin actor[a].todo,
         actor'[a] \in {Idle, Done(a), NextTrade(a)}
  PROVE  /\ actor'[a].pc # "ratchet" /\ actor'[a].todo \subseteq actor[a].todo
         /\ \A t \in actor'[a].todo : actor'[a].seen[t] = actor[a].seen[t]
<1>1. CASE actor'[a] = Idle
  BY <1>1 DEF Idle
<1>2. CASE actor'[a] = NextTrade(a)
  <2>1. /\ actor'[a].pc = "quote" /\ actor'[a].todo = actor[a].todo
        /\ actor'[a].seen = [actor[a].seen EXCEPT ![actor[a].trade] = NoRow]
    BY <1>2 DEF NextTrade, Idle
  <2>. QED  BY <2>1 DEF LevelsInv, TypeOK, ActorState
<1>. QED  BY <1>1, <1>2 DEF Done

LEMMA SweepKeepsShare ==
  ASSUME LevelsInv, ShareInv, NEW m \in Monitors, Sweep(m)
  PROVE  ShareInv'
<1> DEFINE open == {t \in Trades : IsOpen(t)}
<1>1. /\ actor'[m].pc = "quote" /\ actor'[m].todo = open /\ actor'[m].seen = rows
      /\ \A n \in Monitors \ {m} : actor'[n] = actor[n]
  BY DEF Sweep, LevelsInv, TypeOK, Actors, Idle
<1>2. rows' = rows /\ NoteShared(m, open)
  BY DEF Sweep
<1>3. ASSUME NEW t \in Trades \ shared', NEW n \in Monitors, t \in InWork(n)'
      PROVE  /\ \A k \in Monitors \ {n} : t \notin InWork(k)'
             /\ PreviousStop(actor'[n].seen[t]) = PreviousStop(rows[t])
             /\ actor'[n].pc = "ratchet" /\ actor'[n].trade = t =>
                  actor'[n].stop >= PreviousStop(rows[t])
  <2>1. t \notin shared /\ (t \in open => \A k \in Monitors \ {m} : t \notin InWork(k))
    BY <1>2, <1>3 DEF NoteShared
  <2>2. InWork(m)' = open
    BY <1>1 DEF InWork
  <2>3. \A k \in Monitors \ {m} : InWork(k)' = InWork(k)
    BY <1>1 DEF InWork
  <2>4. CASE n = m
    BY <1>1, <1>3, <2>1, <2>2, <2>3, <2>4
  <2>5. CASE n # m
    BY <1>1, <1>3, <2>1, <2>2, <2>3, <2>5 DEF ShareInv
  <2>. QED  BY <2>4, <2>5
<1>. QED  BY <1>2, <1>3 DEF ShareInv

LEMMA QuoteKeepsShare ==
  ASSUME LevelsInv, ShareInv, NEW m \in Monitors, NEW t \in Trades, NEW distance \in Distances,
         Quote(m, t, distance)
  PROVE  ShareInv'
<1>1. m \in Actors /\ TypeOK /\ t \in actor[m].todo /\ actor[m].pc = "quote"
      /\ rows' = rows /\ shared' = shared
  BY DEF Quote, LevelsInv, Actors, history
<1>2. actor[m].seen[t] \in Row /\ actor[m].seen[t].at \in Level
  BY <1>1, ActorIsTyped DEF Row
<1>3. actor'[m].stop >= PreviousStop(actor[m].seen[t])
  <2>1. price[t] \in Nat /\ distance \in Nat /\ HighestSeen(actor[m].seen[t], price[t]) \in Nat
    BY <1>1, QuoteIsTyped
  <2>2. PreviousStop(actor[m].seen[t]) \in Nat
    BY <1>2, PreviousStopIsTyped
  <2>3. \A at \in Level, highest, current, dist, previous \in Nat :
          TrailingStop(at, highest, current, dist, previous) >= previous
    BY TrailingStopBounds
  <2>4. TrailingStop(actor[m].seen[t].at, HighestSeen(actor[m].seen[t], price[t]), price[t],
                     distance, PreviousStop(actor[m].seen[t]))
          >= PreviousStop(actor[m].seen[t])
    BY <1>2, <2>1, <2>2, <2>3
  <2>. QED  BY <1>1, <2>4, QuoteEffect
<1>4. \A n \in Monitors : InWork(n)' = InWork(n)
  <2>1. InWork(m)' = InWork(m)
    BY <1>1, QuoteEffect DEF InWork
  <2>2. \A n \in Monitors \ {m} : InWork(n)' = InWork(n)
    BY <1>1, QuoteEffect DEF InWork, Actors
  <2>. QED  BY <2>1, <2>2
<1>5. ASSUME NEW u \in Trades \ shared, NEW n \in Monitors, u \in InWork(n)
      PROVE  /\ PreviousStop(actor'[n].seen[u]) = PreviousStop(rows[u])
             /\ actor'[n].pc = "ratchet" /\ actor'[n].trade = u =>
                  actor'[n].stop >= PreviousStop(rows[u])
  <2>1. PreviousStop(actor[n].seen[u]) = PreviousStop(rows[u])
    BY <1>5 DEF ShareInv
  <2>2. CASE n = m
    BY <1>1, <1>3, <2>1, <2>2, QuoteEffect
  <2>3. CASE n # m
    <3>1. actor'[n] = actor[n]
      BY <1>1, <2>3, QuoteEffect DEF Actors
    <3>. QED  BY <1>5, <3>1 DEF ShareInv
  <2>. QED  BY <2>2, <2>3
<1>6. \A u \in Trades \ shared, n \in Monitors :
        u \in InWork(n) => \A k \in Monitors \ {n} : u \notin InWork(k)
  BY DEF ShareInv
<1>. QED  BY <1>1, <1>4, <1>5, <1>6 DEF ShareInv

LEMMA RatchetKeepsShare ==
  ASSUME LevelsInv, ShareInv, NEW m \in Monitors, Ratchet(m)
  PROVE  ShareInv'
<1> DEFINE t == actor[m].trade
<1>1. /\ m \in Actors /\ actor[m].pc = "ratchet" /\ shared' = shared
      /\ t \in Trades /\ t \notin actor[m].todo /\ \A u \in Trades \ {t} : rows'[u] = rows[u]
  BY RatchetEffect DEF Ratchet, LevelsInv, WritesSound, Actors, history
<1>2. /\ actor'[m].pc = "judge" /\ actor'[m].todo = actor[m].todo
      /\ actor'[m].seen = actor[m].seen
      /\ \A n \in Monitors \ {m} : actor'[n] = actor[n]
  BY <1>1 DEF Ratchet, LevelsInv, TypeOK, ActorState, Actors
<1>3. InWork(m)' = actor[m].todo /\ \A n \in Monitors \ {m} : InWork(n)' = InWork(n)
  <2>1. InWork(m)' = actor[m].todo
    BY <1>2 DEF InWork
  <2>2. \A n \in Monitors \ {m} : InWork(n)' = InWork(n)
    BY <1>2 DEF InWork
  <2>. QED  BY <2>1, <2>2
<1>4. t \in InWork(m) /\ actor[m].todo \subseteq InWork(m)
  BY <1>1 DEF InWork
<1>5. ASSUME NEW u \in Trades \ shared, NEW n \in Monitors, u \in InWork(n)'
      PROVE  /\ \A k \in Monitors \ {n} : u \notin InWork(k)'
             /\ PreviousStop(actor'[n].seen[u]) = PreviousStop(rows'[u])
             /\ actor'[n].pc = "ratchet" /\ actor'[n].trade = u =>
                  actor'[n].stop >= PreviousStop(rows'[u])
  <2>1. u \in InWork(n)
    BY <1>3, <1>4, <1>5
  <2>2. u # t
    <3>1. CASE n = m
      BY <1>1, <1>3, <1>5, <3>1
    <3>2. CASE n # m
      BY <1>4, <2>1, <3>2 DEF ShareInv
    <3>. QED  BY <3>1, <3>2
  <2>3. rows'[u] = rows[u] /\ actor'[n].seen = actor[n].seen
    BY <1>1, <1>2, <2>2
  <2>4. \A k \in Monitors \ {n} : u \notin InWork(k)'
    BY <1>3, <1>4, <2>1 DEF ShareInv
  <2>5. actor'[n].pc = "ratchet" => actor'[n] = actor[n]
    BY <1>2
  <2>. QED  BY <2>1, <2>3, <2>4, <2>5 DEF ShareInv
<1>. QED  BY <1>1, <1>5 DEF ShareInv

LEMMA CloserStepKeepsShare ==
  ASSUME LevelsInv, ShareInv, NEW a \in Actors, ReadRow(a) \/ CloseRow(a)
  PROVE  ShareInv'
<1>1. /\ actor[a].trade \notin actor[a].todo /\ actor[a] \in ActorState /\ shared' = shared
      /\ \A b \in Actors \ {a} : actor'[b] = actor[b]
  BY DEF ReadRow, CloseRow, LevelsInv, WritesSound, TypeOK, history
<1>2. \A t \in Trades : Known(t) => PreviousStop(rows'[t]) = PreviousStop(rows[t])
  <2>1. CASE ReadRow(a)
    BY <2>1 DEF ReadRow
  <2>2. CASE CloseRow(a)
    BY <2>2, CloseRowEffect DEF PreviousStop
  <2>. QED  BY <2>1, <2>2
<1>3. /\ actor'[a].pc # "ratchet" /\ actor'[a].todo \subseteq actor[a].todo
      /\ \A t \in actor'[a].todo : actor'[a].seen[t] = actor[a].seen[t]
  <2>1. CASE ReadRow(a) /\ IsOpen(actor[a].trade)
    <3>1. actor'[a].pc = "close" /\ actor'[a].todo = actor[a].todo /\ actor'[a].seen = actor[a].seen
      BY <1>1, <2>1 DEF ReadRow, LevelsInv, TypeOK, ActorState
    <3>. QED  BY <3>1
  <2>2. CASE CloseRow(a) \/ (ReadRow(a) /\ ~IsOpen(actor[a].trade))
    <3>1. actor'[a] = Done(a)
      BY <2>2 DEF CloseRow, ReadRow, LevelsInv, TypeOK
    <3>. QED  BY <1>1, <3>1, DoneLeavesRest
  <2>. QED  BY <2>1, <2>2
<1>. QED  BY <1>1, <1>2, <1>3, ShareIsKeptByRest

LEMMA QuietStepKeepsShare ==
  ASSUME LevelsInv, ShareInv, NEW m \in Monitors,
         \/ Judge(m) \/ RatchetFails(m) \/ \E t \in Trades : NoQuote(m, t)
  PROVE  ShareInv'
<1>1. /\ m \in Actors /\ actor[m] \in ActorState /\ shared' = shared /\ rows' = rows
      /\ \A b \in Actors \ {m} : actor'[b] = actor[b]
  BY DEF Judge, RatchetFails, NoQuote, LevelsInv, TypeOK, Actors, history
<1>2. /\ actor'[m].pc # "ratchet" /\ actor'[m].todo \subseteq actor[m].todo
      /\ \A t \in actor'[m].todo : actor'[m].seen[t] = actor[m].seen[t]
  <2>1. CASE RatchetFails(m) \/ \E t \in Trades : NoQuote(m, t)
    <3>1. /\ actor'[m].pc # "ratchet" /\ actor'[m].todo \subseteq actor[m].todo
          /\ actor'[m].seen = actor[m].seen
      <4>1. CASE RatchetFails(m)
        BY <1>1, <4>1 DEF RatchetFails, LevelsInv, TypeOK, ActorState
      <4>2. ASSUME NEW t \in Trades, NoQuote(m, t)
            PROVE  /\ actor'[m].pc = "quote" /\ actor'[m].todo = actor[m].todo \ {t}
                   /\ actor'[m].seen = actor[m].seen
        BY <1>1, <4>2 DEF NoQuote, LevelsInv, TypeOK, ActorState
      <4>. QED  BY <2>1, <4>1, <4>2
    <3>. QED  BY <3>1
  <2>2. CASE Judge(m)
    <3>1. actor[m].trade \notin actor[m].todo
      BY <1>1, <2>2 DEF Judge, LevelsInv, WritesSound
    <3>2. CASE actor'[m] = NextTrade(m)
      BY <1>1, <3>1, <3>2, DoneLeavesRest
    <3>3. CASE \E category : actor'[m] = [actor[m] EXCEPT !.pc = "read", !.category = category]
      <4>1. actor'[m].pc = "read" /\ actor'[m].todo = actor[m].todo /\ actor'[m].seen = actor[m].seen
        BY <1>1, <3>3 DEF ActorState
      <4>. QED  BY <4>1
    <3>4. \/ actor'[m] = NextTrade(m)
          \/ \E category : actor'[m] = [actor[m] EXCEPT !.pc = "read", !.category = category]
      BY <1>1, <2>2 DEF Judge, LevelsInv, TypeOK
    <3>. QED  BY <3>2, <3>3, <3>4
  <2>. QED  BY <2>1, <2>2
<1>. QED  BY <1>1, <1>2, ShareIsKeptByRest

LEMMA EndKeepsShare ==
  ASSUME LevelsInv, ShareInv, NEW a \in Actors, rows' = rows, shared' = shared,
         actor' = [actor EXCEPT ![a] = Idle]
  PROVE  ShareInv'
<1>1. actor'[a] = Idle /\ \A b \in Actors \ {a} : actor'[b] = actor[b]
  BY DEF LevelsInv, TypeOK
<1>2. /\ actor'[a].pc # "ratchet" /\ actor'[a].todo \subseteq actor[a].todo
      /\ \A t \in actor'[a].todo : actor'[a].seen[t] = actor[a].seen[t]
  BY <1>1 DEF Idle
<1>. QED  BY <1>1, <1>2, ShareIsKeptByRest

LEMMA ShareStep == LevelsInv /\ ShareInv /\ [Next]_vars => ShareInv'
<1>. SUFFICES ASSUME LevelsInv, ShareInv, [Next]_vars PROVE ShareInv'
  OBVIOUS
<1>1. CASE rows' = rows /\ actor' = actor /\ shared' = shared
  BY <1>1 DEF ShareInv, InWork
<1>2. ASSUME NEW t \in Trades, NEW at \in Levels, Open(t, at) PROVE ShareInv'
  <2>1. \A u \in Trades : Known(u) => PreviousStop(rows'[u]) = PreviousStop(rows[u])
    BY <1>2, OpenEffect
  <2>2. actor' = actor /\ shared' = shared
    BY <1>2, OpenEffect
  <2>. QED  BY <2>1, <2>2, ShareIsKept DEF InWork
<1>3. ASSUME NEW t \in Trades, NEW p \in Prices, MovePrice(t, p) PROVE ShareInv'
  BY <1>1, <1>3 DEF MovePrice, history
<1>4. ASSUME NEW c \in Closers, NEW t \in Trades,
             NEW exit \in Asked \cup {price[t], rows[t].at.fill}, RequestClose(c, t, exit)
      PROVE  ShareInv'
  <2>1. /\ c \in Actors /\ rows' = rows /\ shared' = shared
        /\ actor'[c].pc = "read" /\ actor'[c].todo = {}
        /\ \A b \in Actors \ {c} : actor'[b] = actor[b]
    BY <1>4 DEF RequestClose, LevelsInv, TypeOK, Actors, Idle, history
  <2>. QED  BY <2>1, ShareIsKeptByRest
<1>5. ASSUME NEW a \in Actors, Abort(a) PROVE ShareInv'
  BY <1>5, EndKeepsShare DEF Abort, history
<1>6. ASSUME NEW m \in Monitors, EndSweep(m) PROVE ShareInv'
  BY <1>6, EndKeepsShare DEF EndSweep, Actors, history
<1>7. CASE UNCHANGED vars
  BY <1>1, <1>7 DEF vars, history
<1>. QED
  BY <1>2, <1>3, <1>4, <1>5, <1>6, <1>7, SweepKeepsShare, QuoteKeepsShare, RatchetKeepsShare,
     CloserStepKeepsShare, QuietStepKeepsShare
  DEF Next, Work, Actors

LEMMA ShareHolds == Spec => [](LevelsInv /\ ShareInv)
<1>1. Init => ShareInv
  BY DEF Init, ShareInv, InWork, Idle, Actors
<1>. QED  BY <1>1, ShareStep, LevelsHold, PTL DEF Spec

\* A recorded stop is lowered only where two sweeps had read the trade before
\* either wrote it.
THEOREM LowerStopsOverlap == Spec => LowerStopNeedsOverlap
<1> DEFINE Ratcheted(t) ==
      rows[t] # NoRow /\ PreviousStop(rows'[t]) < PreviousStop(rows[t]) => t \in shared
<1>1. LevelsInv /\ ShareInv /\ [Next]_vars => \A t \in Trades : Ratcheted(t)
  <2>. SUFFICES ASSUME LevelsInv, ShareInv, [Next]_vars, NEW t \in Trades PROVE Ratcheted(t)
    OBVIOUS
  <2>1. PreviousStop(rows[t]) \in Nat
    BY PreviousStopIsTyped DEF LevelsInv, TypeOK
  <2>2. CASE rows' = rows
    BY <2>1, <2>2
  <2>3. ASSUME NEW m \in Monitors, Ratchet(m) PROVE Ratcheted(t)
    <3>1. CASE actor[m].trade = t
      <4>1. t \notin shared => actor[m].stop >= PreviousStop(rows[t])
        BY <2>3, <3>1 DEF Ratchet, ShareInv, InWork
      <4>2. PreviousStop(rows'[t]) = actor[m].stop /\ actor[m].stop \in Nat
        BY <2>3, <3>1, RatchetEffect, PositionsNoVal DEF PreviousStop
      <4>. QED  BY <2>1, <4>1, <4>2
    <3>2. CASE actor[m].trade # t
      BY <2>1, <2>3, <3>2, RatchetEffect
    <3>. QED  BY <3>1, <3>2
  <2>4. ASSUME NEW a \in Actors, CloseRow(a) PROVE Ratcheted(t)
    <3>1. PreviousStop(rows'[t]) = PreviousStop(rows[t])
      BY <2>4, CloseRowEffect DEF PreviousStop
    <3>. QED  BY <2>1, <3>1
  <2>5. ASSUME NEW u \in Trades, NEW at \in Levels, Open(u, at) PROVE Ratcheted(t)
    BY <2>1, <2>5, OpenEffect
  <2>. QED  BY <2>2, <2>3, <2>4, <2>5, Writers
<1>. QED  BY <1>1, ShareHolds, PTL DEF Spec, LowerStopNeedsOverlap

=============================================================================
