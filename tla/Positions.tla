----------------------------- MODULE Positions -----------------------------
(***************************************************************************)
(* Open paper positions: the monitor of app/monitor.py, the trailing stop  *)
(* of app/risk.py and close_trade of app/executor.py.                      *)
(*                                                                         *)
(* A sweep of the monitor runs at the start of every universe scan.  The   *)
(* lock around a scan is local to its process, so each process (engine,    *)
(* dashboard, command line) has a monitor of its own; the dashboard closes *)
(* positions by hand.  They share the trade_audit_log table and hold no    *)
(* lock between reading a row and writing it.  Prices are in paise, or in  *)
(* whatever unit the audit log is rounded to.                              *)
(***************************************************************************)
EXTENDS Integers

CONSTANTS
  Trades,      \* trade ids
  Levels,      \* the [fill, hard, soft, target] an opened trade may have
  Prices,      \* the quotes there may be
  Distances,   \* 1.5 ATR, as it may come with a snapshot
  Asked,       \* exit prices a user may name
  Monitors,    \* processes that run universe scans
  Closers,     \* dashboard threads that close positions by hand
  NoVal,       \* NULL
  MaxMoves,    \* bound: changes of a quote
  MaxCloses,   \* bound: manual closes requested
  MaxFaults    \* bound: missing quotes, failed updates, invocations ended early

\* calculate_risk puts the stops below the entry, the hard one at least as
\* far as the soft one, and the target above it; the fill is above the entry.
ASSUME LevelsAssumption ==
  \A l \in Levels :
    /\ l \in [fill : Nat, hard : Nat, soft : Nat, target : Nat]
    /\ l.hard <= l.soft /\ l.soft < l.fill /\ l.fill <= l.target
ASSUME NumbersAssumption ==
  /\ Prices \subseteq Nat /\ Distances \subseteq Nat /\ Asked \subseteq Nat
  /\ MaxMoves \in Nat /\ MaxCloses \in Nat /\ MaxFaults \in Nat
ASSUME PositionsActors == Monitors \cap Closers = {}

VARIABLES
  rows,      \* trade_audit_log: [trade -> row], status "none" when there is none
  price,     \* [trade -> quote of its symbol]
  actor,     \* [monitor or closer -> where its sweep or request is]
  counts,    \* moves, closes and faults so far
  raced,     \* history: trades that were being closed when another close read them
  shared     \* history: trades that two sweeps had read and not written at once

history == <<raced, shared>>
vars == <<rows, price, actor, counts, history>>

Actors == Monitors \cup Closers
Level == [fill : Nat, hard : Nat, soft : Nat, target : Nat]
Category == {"STOPPED_OUT", "TRAILING_STOP_HIT", "BREAK_EVEN_STOP_HIT", "TARGET_HIT",
             "MANUAL_WEB_EXIT"}
ASSUME PositionsNoVal == NoVal \notin Nat \cup Trades \cup Category

Row == [status : {"none", "OPEN_PAPER", "CLOSED"}, at : Level,
        highest : Nat \cup {NoVal}, stop : Nat \cup {NoVal},
        exit : Nat \cup {NoVal}, category : Category \cup {NoVal}]
NoLevel == [fill |-> 0, hard |-> 0, soft |-> 0, target |-> 0]
NoRow == [status |-> "none", at |-> NoLevel, highest |-> NoVal, stop |-> NoVal,
          exit |-> NoVal, category |-> NoVal]

\* todo: trades of the sweep not looked at yet; seen: the rows it read.  The
\* rest is about the trade in work: the quote, the levels and the verdict.
Idle == [pc |-> "idle", todo |-> {}, seen |-> [t \in Trades |-> NoRow], trade |-> NoVal,
         quote |-> NoVal, highest |-> NoVal, stop |-> NoVal, category |-> NoVal]
ActorState ==
  [pc : {"idle", "quote", "ratchet", "judge", "read", "close"}, todo : SUBSET Trades,
   seen : [Trades -> Row], trade : Trades \cup {NoVal}, quote : Nat \cup {NoVal},
   highest : Nat \cup {NoVal}, stop : Nat \cup {NoVal}, category : Category \cup {NoVal}]

Init ==
  /\ rows = [t \in Trades |-> NoRow]
  /\ price \in [Trades -> Prices]
  /\ actor = [a \in Actors |-> Idle]
  /\ counts = [moves |-> 0, closes |-> 0, faults |-> 0]
  /\ raced = {} /\ shared = {}

IsOpen(t) == rows[t].status = "OPEN_PAPER"

-----------------------------------------------------------------------------
(***************************************************************************)
(* The levels of a position (risk.calculate_trailing_stop).                *)
(***************************************************************************)
Higher(a, b) == IF a >= b THEN a ELSE b
Lower(a, b) == IF a <= b THEN a ELSE b

\* +2R and +1.5R, by the highest price since entry.
ReachedTrailing(at, highest) == highest >= at.fill + 2 * (at.fill - at.hard)
ReachedBreakEven(at, highest) == 2 * highest >= 2 * at.fill + 3 * (at.fill - at.hard)

TargetStop(at, highest, distance, base) ==
  IF ReachedTrailing(at, highest) THEN Higher(base, Higher(at.fill, highest - distance))
  ELSE IF ReachedBreakEven(at, highest) THEN Higher(base, at.fill)
  ELSE base

\* Mutant: the stop is capped at the current price and nothing else.
TrailingStopCapped(at, highest, current, distance, previous) ==
  Lower(TargetStop(at, highest, distance, Higher(previous, at.hard)), current)

\* Mutant: below +2R the stop stays where it is.
TrailingStopLate(at, highest, current, distance, previous) ==
  LET base == Higher(previous, at.hard)
      target == IF ReachedTrailing(at, highest)
                  THEN Higher(base, Higher(at.fill, highest - distance)) ELSE base
  IN Higher(Lower(target, current), base)

\* The new stop: not above the current price, and not below the previous one.
TrailingStop(at, highest, current, distance, previous) ==
  LET base == Higher(previous, at.hard) IN
    Higher(Lower(TargetStop(at, highest, distance, base), current), base)

HighestSeen(row, quote) ==
  Higher(IF row.highest = NoVal THEN row.at.fill ELSE row.highest, quote)
PreviousStop(row) == IF row.stop = NoVal THEN row.at.soft ELSE row.stop

\* Mutant: the trailing stop is looked at before the hard stop.
ExitCategoryTrailingFirst(at, highest, stop, quote) ==
  CASE quote <= stop /\ stop > at.hard ->
         IF ReachedTrailing(at, highest) THEN "TRAILING_STOP_HIT" ELSE "BREAK_EVEN_STOP_HIT"
    [] ~(quote <= stop /\ stop > at.hard) /\ quote <= at.hard -> "STOPPED_OUT"
    [] ~(quote <= stop /\ stop > at.hard) /\ quote > at.hard /\ quote >= at.target -> "TARGET_HIT"
    [] OTHER -> NoVal

\* Mutant: only the hard stop and the target end a position.
ExitCategoryHardOnly(at, highest, stop, quote) ==
  CASE quote <= at.hard -> "STOPPED_OUT"
    [] quote > at.hard /\ quote >= at.target -> "TARGET_HIT"
    [] OTHER -> NoVal

\* Mutant: the mode of the stop is recorded in place of a category.
ExitCategoryByMode(at, highest, stop, quote) ==
  IF quote <= at.hard THEN "STOPPED_OUT"
  ELSE IF quote <= stop /\ stop > at.hard
    THEN IF ReachedTrailing(at, highest) THEN "ATR_TRAILING" ELSE "BREAK_EVEN"
  ELSE IF quote >= at.target THEN "TARGET_HIT" ELSE NoVal

\* Why a position is closed at this quote, if it is.
ExitCategory(at, highest, stop, quote) ==
  IF quote <= at.hard THEN "STOPPED_OUT"
  ELSE IF quote <= stop /\ stop > at.hard
    THEN IF ReachedTrailing(at, highest) THEN "TRAILING_STOP_HIT" ELSE "BREAK_EVEN_STOP_HIT"
  ELSE IF quote >= at.target THEN "TARGET_HIT" ELSE NoVal

-----------------------------------------------------------------------------
(***************************************************************************)
(* check_open_trades.                                                      *)
(***************************************************************************)

\* What a sweep has read and not written yet.
InWork(m) == actor[m].todo \cup {t \in Trades : actor[m].trade = t /\ actor[m].pc = "ratchet"}
NoteShared(m, T) == shared' = shared \cup (T \cap UNION {InWork(n) : n \in Monitors \ {m}})

Sweep(m) ==
  /\ actor[m].pc = "idle"
  /\ LET open == {t \in Trades : IsOpen(t)} IN
       /\ actor' = [actor EXCEPT ![m] = [Idle EXCEPT !.pc = "quote", !.seen = rows, !.todo = open]]
       /\ NoteShared(m, open)
  /\ UNCHANGED <<rows, price, counts, raced>>

Fault == counts.faults < MaxFaults /\ counts' = [counts EXCEPT !.faults = @ + 1]

\* A snapshot of the symbol, and the levels computed from it and the row.
Quote(m, t, distance) ==
  /\ actor[m].pc = "quote" /\ t \in actor[m].todo
  /\ LET row == actor[m].seen[t]
         highest == HighestSeen(row, price[t]) IN
       actor' = [actor EXCEPT
         ![m].pc = "ratchet", ![m].todo = @ \ {t}, ![m].trade = t, ![m].quote = price[t],
         ![m].highest = highest,
         ![m].stop = TrailingStop(row.at, highest, price[t], distance, PreviousStop(row))]
  /\ UNCHANGED <<rows, price, counts, history>>

\* No snapshot: the position is skipped this round.
NoQuote(m, t) ==
  /\ actor[m].pc = "quote" /\ t \in actor[m].todo
  /\ Fault
  /\ actor' = [actor EXCEPT ![m].todo = @ \ {t}]
  /\ UNCHANGED <<rows, price, history>>

\* UPDATE ... SET highest_price, trailing_stop WHERE trade_id: whatever the
\* row has come to hold since the sweep read it.
Ratchet(m) ==
  /\ actor[m].pc = "ratchet"
  /\ rows' = [rows EXCEPT ![actor[m].trade].highest = actor[m].highest,
                          ![actor[m].trade].stop = actor[m].stop]
  /\ actor' = [actor EXCEPT ![m].pc = "judge"]
  /\ UNCHANGED <<price, counts, history>>

\* A failed update is logged, and the sweep goes on.
RatchetFails(m) ==
  /\ actor[m].pc = "ratchet"
  /\ Fault
  /\ actor' = [actor EXCEPT ![m].pc = "judge"]
  /\ UNCHANGED <<rows, price, history>>

\* The sweep is done with a trade and goes on to the next.
NextTrade(m) ==
  [Idle EXCEPT !.pc = "quote", !.todo = actor[m].todo,
               !.seen = [actor[m].seen EXCEPT ![actor[m].trade] = NoRow]]

Judge(m) ==
  /\ actor[m].pc = "judge"
  /\ LET me == actor[m]
         category == ExitCategory(me.seen[me.trade].at, me.highest, me.stop, me.quote) IN
       actor' = [actor EXCEPT ![m] = IF category = NoVal THEN NextTrade(m)
                                     ELSE [me EXCEPT !.pc = "read", !.category = category]]
  /\ UNCHANGED <<rows, price, counts, history>>

EndSweep(m) ==
  /\ actor[m].pc = "quote" /\ actor[m].todo = {}
  /\ actor' = [actor EXCEPT ![m] = Idle]
  /\ UNCHANGED <<rows, price, counts, history>>

-----------------------------------------------------------------------------
(***************************************************************************)
(* POST /api/positions/{trade_id}/close, up to the call of close_trade: at *)
(* the requested price, the quote, or the fill price if there is no quote. *)
(***************************************************************************)
RequestClose(c, t, exit) ==
  /\ actor[c].pc = "idle" /\ IsOpen(t)
  /\ counts.closes < MaxCloses
  /\ counts' = [counts EXCEPT !.closes = @ + 1]
  /\ actor' = [actor EXCEPT ![c] = [Idle EXCEPT !.pc = "read", !.trade = t, !.quote = exit,
                                                !.category = "MANUAL_WEB_EXIT"]]
  /\ UNCHANGED <<rows, price, history>>

-----------------------------------------------------------------------------
(***************************************************************************)
(* close_trade: the row is read, and updated if it was not closed yet.     *)
(***************************************************************************)
Closing(t) == {a \in Actors : actor[a].pc = "close" /\ actor[a].trade = t}
Done(a) == IF a \in Monitors THEN NextTrade(a) ELSE Idle

\* Mutant: a position that is closed already is closed again.
ReadRowUnguarded(a) ==
  /\ actor[a].pc = "read"
  /\ actor' = [actor EXCEPT ![a].pc = "close"]
  /\ raced' = raced \cup {t \in Trades : t = actor[a].trade /\ IsOpen(t) /\ Closing(t) # {}}
  /\ UNCHANGED <<rows, price, counts, shared>>

ReadRow(a) ==
  /\ actor[a].pc = "read"
  /\ actor' = IF IsOpen(actor[a].trade) THEN [actor EXCEPT ![a].pc = "close"]
              ELSE [actor EXCEPT ![a] = Done(a)]
  /\ raced' = raced \cup {t \in Trades : t = actor[a].trade /\ IsOpen(t) /\ Closing(t) # {}}
  /\ UNCHANGED <<rows, price, counts, shared>>

CloseRow(a) ==
  /\ actor[a].pc = "close"
  /\ rows' = [rows EXCEPT ![actor[a].trade].status = "CLOSED",
                          ![actor[a].trade].exit = actor[a].quote,
                          ![actor[a].trade].category = actor[a].category]
  /\ actor' = [actor EXCEPT ![a] = Done(a)]
  /\ UNCHANGED <<price, counts, history>>

-----------------------------------------------------------------------------
(***************************************************************************)
(* record_open_trade, prices, failures.                                    *)
(***************************************************************************)
Open(t, at) ==
  /\ rows[t] = NoRow
  /\ rows' = [rows EXCEPT ![t] = [NoRow EXCEPT !.status = "OPEN_PAPER", !.at = at]]
  /\ UNCHANGED <<price, actor, counts, history>>

MovePrice(t, p) ==
  /\ counts.moves < MaxMoves
  /\ counts' = [counts EXCEPT !.moves = @ + 1]
  /\ price' = [price EXCEPT ![t] = p]
  /\ UNCHANGED <<rows, actor, history>>

\* A statement raises, or the process dies: the sweep or request is over.
Abort(a) ==
  /\ actor[a].pc # "idle"
  /\ Fault
  /\ actor' = [actor EXCEPT ![a] = Idle]
  /\ UNCHANGED <<rows, price, history>>

Work(m) ==
  \/ \E t \in Trades, distance \in Distances : Quote(m, t, distance)
  \/ Ratchet(m) \/ Judge(m) \/ EndSweep(m) \/ ReadRow(m) \/ CloseRow(m)

Next ==
  \/ \E t \in Trades, at \in Levels : Open(t, at)
  \/ \E t \in Trades, p \in Prices : MovePrice(t, p)
  \/ \E m \in Monitors : Sweep(m) \/ Work(m) \/ RatchetFails(m) \/ \E t \in Trades : NoQuote(m, t)
  \/ \E c \in Closers : ReadRow(c) \/ CloseRow(c)
  \/ \E c \in Closers, t \in Trades : \E exit \in Asked \cup {price[t], rows[t].at.fill} :
       RequestClose(c, t, exit)
  \/ \E a \in Actors : Abort(a)

Spec == Init /\ [][Next]_vars
\* Scans are scheduled day after day, and a sweep that has begun goes on.
FairSpec == Spec /\ \A m \in Monitors : WF_vars(Sweep(m) \/ Work(m))

-----------------------------------------------------------------------------
(***************************************************************************)
(* Properties.                                                             *)
(***************************************************************************)
TypeOK ==
  /\ rows \in [Trades -> Row]
  /\ price \in [Trades -> Prices]
  /\ actor \in [Actors -> ActorState]
  /\ counts \in [moves : 0..MaxMoves, closes : 0..MaxCloses, faults : 0..MaxFaults]
  /\ raced \subseteq Trades /\ shared \subseteq Trades

\* Once the recorded high of a position has reached +1.5R, its recorded stop
\* protects the entry, even when monitors overwrite each other's levels:
\* the two columns are written together.
Locked(at, highest, stop) ==
  ReachedBreakEven(at, highest) => stop \in Nat /\ stop >= at.fill
RowLocked(row) == row.highest # NoVal => Locked(row.at, row.highest, row.stop)
ProfitIsLocked == \A t \in Trades : RowLocked(rows[t])

\* A closed position says truthfully why the monitor closed it, although
\* the quote it was judged by, the levels and the row are of three moments.
Explains(category, at, exit) ==
  /\ category = "STOPPED_OUT" => exit <= at.hard
  /\ category \in {"TRAILING_STOP_HIT", "BREAK_EVEN_STOP_HIT", "TARGET_HIT"} => exit > at.hard
  /\ category = "TARGET_HIT" => exit >= at.target
CategoryExplainsExit ==
  \A t \in Trades : Explains(rows[t].category, rows[t].at, rows[t].exit)

\* A closed position stays closed, and its exit is overwritten only by a
\* close that read the row as open while the first was about to write it.
SecondCloseNeedsRace ==
  [][\A t \in Trades : rows[t].status = "CLOSED" =>
       /\ rows'[t].status = "CLOSED"
       /\ rows'[t].exit # rows[t].exit => t \in raced]_vars

\* The stop is lowered only where two sweeps had read the position before
\* either wrote it: one that reads after another has written never does.
LowerStopNeedsOverlap ==
  [][\A t \in Trades :
       rows[t] # NoRow /\ PreviousStop(rows'[t]) < PreviousStop(rows[t]) => t \in shared]_vars

\* A position whose quote stays at or below its soft stop is closed.
BreachIsClosed ==
  \A t \in Trades : ~ <>[](IsOpen(t) /\ price[t] <= rows[t].at.soft)

-----------------------------------------------------------------------------
(***************************************************************************)
(* The inductive invariants behind the safety properties.                  *)
(***************************************************************************)
Known(t) == rows[t].status # "none"

\* The trades whose rows, as a sweep read them, its next steps rely on.
Reads(a, t) ==
  t \in actor[a].todo \/ (actor[a].trade = t /\ actor[a].pc \in {"ratchet", "judge"})

\* What a sweep has read: the levels are those of the row, high and stop may
\* be of an earlier moment, but they are of the same moment.
ReadsSound(a) ==
  \A t \in Trades :
    Reads(a, t) => /\ Known(t)
                   /\ actor[a].seen[t].at = rows[t].at
                   /\ RowLocked(actor[a].seen[t])

\* What it is about to write.
WritesSound(a) ==
  LET me == actor[a] IN
  /\ me.pc \in {"ratchet", "judge", "read", "close"} =>
       me.trade \in Trades /\ me.trade \notin me.todo /\ Known(me.trade) /\ me.quote \in Nat
  /\ me.pc \in {"ratchet", "judge"} =>
       /\ me.highest \in Nat /\ me.stop \in Nat
       /\ Locked(rows[me.trade].at, me.highest, me.stop)
  /\ me.pc \in {"read", "close"} => Explains(me.category, rows[me.trade].at, me.quote)

LevelsInv ==
  /\ TypeOK
  /\ \A t \in Trades : Known(t) => rows[t].at \in Levels
  /\ ProfitIsLocked
  /\ CategoryExplainsExit
  /\ \A a \in Actors : ReadsSound(a) /\ WritesSound(a)

\* Outside raced, a trade that is about to be closed is open and nobody else
\* is about to close it.
Unrivalled(a) ==
  actor[a].trade \in raced \/ (IsOpen(actor[a].trade) /\ Closing(actor[a].trade) = {a})
RaceInv == \A a \in Actors : actor[a].pc = "close" => Unrivalled(a)

\* Outside shared, a trade is in the work of one sweep, which has read the
\* stop that is recorded and does not go below it.
ShareInv ==
  \A t \in Trades \ shared, m \in Monitors :
    t \in InWork(m) =>
      /\ \A n \in Monitors \ {m} : t \notin InWork(n)
      /\ PreviousStop(actor[m].seen[t]) = PreviousStop(rows[t])
      /\ actor[m].pc = "ratchet" /\ actor[m].trade = t => actor[m].stop >= PreviousStop(rows[t])

=============================================================================
