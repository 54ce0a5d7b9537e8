------------------------------ MODULE Holdings ------------------------------
(***************************************************************************)
(* The user's positions: user_positions and user_portfolios as the Groww   *)
(* sync (app/groww_sync.py), the Command Center (app/command_center.py)    *)
(* and the baskets (app/portfolio_manager.py) share them.                  *)
(*                                                                         *)
(* Syncers are threads in a sync: polls of the Command Center, forced      *)
(* syncs, the engine's schedule.  Those of one process share one           *)
(* GrowwClient, whose last error is a field that every portfolio call      *)
(* overwrites.  Desks are dashboard threads that confirm a basket or edit  *)
(* a manual row.  No statement is in a transaction with another.  One      *)
(* user; which shares and prices a row holds is left out, but for whether  *)
(* the number of shares is the broker's or the user's.                     *)
(***************************************************************************)
EXTENDS Integers, FiniteSets, Sequences

CONSTANTS
  Symbols,
  Tracked,      \* the symbols that are entered by hand or planned
  Manuals,      \* uuids of rows entered by hand
  Baskets,      \* basket ids, each with an allocation of every symbol
  Broker,       \* owner of the rows a sync inserts: their id is "groww-<symbol>"
  ByHand,       \* the portfolio "manual-<user>"
  Syncers,
  Processes,
  Home,         \* [syncer -> the process it runs in]
  Desks,
  NoVal,
  MaxTrades,    \* bound: purchases, settlements and sales at the broker
  MaxConfirms,  \* bound: confirmations sent
  MaxFaults     \* bound: refused reads, reads by others, threads that end early

ASSUME HoldingsOwners ==
  /\ Manuals \cap Baskets = {} /\ Syncers \cap Desks = {}
  /\ Broker \notin Manuals \cup Baskets /\ ByHand \notin Baskets \cup {Broker}
  /\ Home \in [Syncers -> Processes] /\ Tracked \subseteq Symbols
ASSUME HoldingsBounds == MaxTrades \in Nat /\ MaxConfirms \in Nat /\ MaxFaults \in Nat
Owners == {Broker} \cup Manuals \cup Baskets
Ids == Owners \X Symbols
Folios == {Broker, ByHand} \cup Baskets
ASSUME HoldingsNoVal == NoVal \notin Ids \cup Symbols \cup Syncers \cup Baskets

VARIABLES
  broker,    \* [symbol -> what the account has of it]
  rows,      \* user_positions: [id -> row], status "none" when there is none
  folios,    \* user_portfolios: [portfolio -> status]
  newest,    \* the portfolios, latest created_at first
  drafting,  \* [basket -> allocations its creation has not inserted yet]
  error,     \* [process -> portfolio_access_error of its client]
  latest,    \* the run of groww_sync_runs with the latest started_at
  syncer,    \* [syncer -> where it is]
  desk,      \* [desk -> where its request is]
  counts,
  muddled,   \* history: syncers whose client another call has used meanwhile
  stale,     \* history: [syncer -> symbols whose rows others wrote since it read them]
  disturbed  \* history: symbols that a sync wrote from a stale reading, or left half done

history == <<muddled, stale, disturbed>>
tables == <<rows, folios, newest, drafting>>
vars == <<broker, tables, error, latest, syncer, desk, counts, history>>

Status == {"none", "PENDING_CONFIRMATION", "ACTIVE", "INACTIVE", "deleted"}
Source == {"GROWW_SYNC", "BASKET", "MANUAL"}
ASSUME HoldingsNoSource == NoVal \notin Source
Row == [status : Status, source : Source, folio : Folios, shares : {"broker", "user"}]
NoRow == [status |-> "none", source |-> "GROWW_SYNC", folio |-> Broker, shares |-> "broker"]
ManualRow == [status |-> "ACTIVE", source |-> "MANUAL", folio |-> ByHand, shares |-> "user"]
\* Mutant: the plan_status in the place of the status.
PlannedRowMislabelled(b) ==
  [status |-> "PLANNED", source |-> "BASKET", folio |-> b, shares |-> "user"]
PlannedRow(b) ==
  [status |-> "PENDING_CONFIRMATION", source |-> "BASKET", folio |-> b, shares |-> "user"]

Exists(i) == rows[i].status \notin {"none", "deleted"}
IsOpen(i) == rows[i].status \in {"ACTIVE", "PENDING_CONFIRMATION"}
IsSynced(i) == rows[i].status = "ACTIVE" /\ rows[i].source = "GROWW_SYNC"
RowsOf(s) == Owners \X {s}
Open(s) == {i \in RowsOf(s) : IsOpen(i)}

\* get_overview: what is shown of a symbol, and what its totals count.
Shown(s) ==
  LET synced == {i \in RowsOf(s) : IsSynced(i)} IN
  synced \cup {i \in Open(s) : rows[i].source = "GROWW_SYNC" => synced = {}}
Counted(s) == {i \in Shown(s) : rows[i].status = "ACTIVE"}

\* denied: get_holdings was refused.  todo: symbols to go through; seen: those
\* that were reported; existing and was: the row of each symbol and its source
\* as they were read.
Resting == [pc |-> "idle", denied |-> FALSE, partial |-> FALSE,
            todo |-> {}, seen |-> {}, existing |-> [s \in Symbols |-> NoVal],
            was |-> [s \in Symbols |-> NoVal], folio |-> NoVal, now |-> NoVal]
AtDesk == [pc |-> "idle", basket |-> NoVal, todo |-> {}, id |-> NoVal]

Init ==
  /\ broker \in [Symbols -> {"none", "holding"}]
  /\ rows = [i \in Ids |-> NoRow]
  /\ folios = [f \in Folios |-> "none"] /\ newest = <<>>
  /\ drafting = [b \in Baskets |-> {}]
  /\ error = [p \in Processes |-> FALSE]
  /\ latest = [run |-> NoVal, state |-> "none"]
  /\ syncer = [t \in Syncers |-> Resting] /\ desk = [d \in Desks |-> AtDesk]
  /\ counts = [trades |-> 0, confirms |-> 0, faults |-> 0]
  /\ muddled = {} /\ stale = [t \in Syncers |-> {}] /\ disturbed = {}

-----------------------------------------------------------------------------
(***************************************************************************)
(* The account at the broker.                                              *)
(***************************************************************************)
Move(s, from, to) ==
  /\ broker[s] \in from /\ counts.trades < MaxTrades
  /\ broker' = [broker EXCEPT ![s] = to]
  /\ counts' = [counts EXCEPT !.trades = @ + 1]
  /\ UNCHANGED <<tables, error, latest, syncer, desk, history>>

\* A purchase is a CASH position first, and a Demat holding when it settles.
Buy(s) == Move(s, {"none"}, "position")
Settle(s) == Move(s, {"position"}, "holding")
Sell(s) == Move(s, {"position", "holding"}, "none")

-----------------------------------------------------------------------------
(***************************************************************************)
(* groww_sync.sync_groww_portfolio.                                        *)
(***************************************************************************)
Fault ==
  /\ counts.faults < MaxFaults
  /\ counts' = [counts EXCEPT !.faults = @ + 1]

\* A call writes the error of the client that its process shares.
Answer(p, refused) == error' = [error EXCEPT ![p] = refused]
Others(p, t) == {o \in Syncers \ {t} : Home[o] = p /\ syncer[o].pc # "idle"}
CallBy(t, refused) ==
  Answer(Home[t], refused) /\ muddled' = muddled \cup Others(Home[t], t)

\* Rows of the symbols S are written: what other syncers read of them is stale.
HasRead(o) == syncer[o].pc \in {"apply", "retire", "close"}
Touch(S, t) ==
  stale' = [o \in Syncers |-> IF o # t /\ HasRead(o) THEN stale[o] \cup S ELSE stale[o]]

Held(state) == {s \in Symbols : broker[s] = state}

\* Forced by the user, or on the engine's schedule.
StartSync(t) ==
  /\ syncer[t].pc = "idle"
  /\ CallBy(t, FALSE)
  /\ latest' = [run |-> t, state |-> "RUNNING"]
  /\ syncer' = [syncer EXCEPT ![t] = [Resting EXCEPT !.pc = "holdings"]]
  /\ UNCHANGED <<broker, tables, desk, counts, stale, disturbed>>

\* Mutant: a run that has not finished counts as fresh.
PollTrusting(t) == latest.state \notin {"FRESH", "RUNNING"} /\ StartSync(t)

\* get_overview syncs first unless the latest run finished within 10 minutes.
Poll(t) == latest.state # "FRESH" /\ StartSync(t)

\* get_holdings answers, and clears the error.
ReadHoldings(t) ==
  /\ syncer[t].pc = "holdings"
  /\ CallBy(t, FALSE)
  /\ syncer' = [syncer EXCEPT ![t].todo = Held("holding"), ![t].seen = Held("holding"),
                              ![t].pc = IF Held("holding") = {} THEN "positions" ELSE "rows"]
  /\ UNCHANGED <<broker, tables, latest, desk, counts, stale, disturbed>>

HoldingsDenied(t) ==
  /\ syncer[t].pc = "holdings"
  /\ Fault /\ CallBy(t, TRUE)
  /\ syncer' = [syncer EXCEPT ![t].denied = TRUE, ![t].pc = "positions"]
  /\ UNCHANGED <<broker, tables, latest, desk, stale, disturbed>>

\* _holdings_from_positions; get_positions leaves the error as it is.
ReadPositions(t) ==
  /\ syncer[t].pc = "positions"
  /\ syncer' = [syncer EXCEPT ![t].todo = Held("position"), ![t].seen = Held("position"),
                              ![t].pc = IF Held("position") = {} THEN "judge" ELSE "rows"]
  /\ UNCHANGED <<broker, tables, error, latest, desk, counts, history>>

PositionsDenied(t) ==
  /\ syncer[t].pc = "positions"
  /\ Fault /\ CallBy(t, TRUE)
  /\ syncer' = [syncer EXCEPT ![t].pc = "judge"]
  /\ UNCHANGED <<broker, tables, latest, desk, stale, disturbed>>

\* Mutant: an empty answer is taken for an empty account.
JudgeEmpty(t) ==
  /\ syncer[t].pc = "judge"
  /\ syncer' = [syncer EXCEPT ![t].pc = "closeall"]
  /\ UNCHANGED <<broker, tables, error, latest, desk, counts, history>>

\* Nothing was found: is that because a read was refused?
Judge(t) ==
  /\ syncer[t].pc = "judge"
  /\ syncer' = [syncer EXCEPT ![t].pc = IF error[Home[t]] THEN "verdict" ELSE "closeall"]
  /\ UNCHANGED <<broker, tables, error, latest, desk, counts, history>>

CloseAll(t) ==
  /\ syncer[t].pc = "closeall"
  /\ rows' = [i \in Ids |-> IF IsSynced(i) THEN [rows[i] EXCEPT !.status = "INACTIVE"] ELSE rows[i]]
  /\ Touch({s \in Symbols : \E i \in RowsOf(s) : IsSynced(i)}, t)
  /\ syncer' = [syncer EXCEPT ![t].pc = "verdict"]
  /\ UNCHANGED <<broker, folios, newest, drafting, error, latest, desk, counts, muddled, disturbed>>

\* ORDER BY source: baskets, manual rows, synced rows; the first one counts.
Rank(i) == CASE rows[i].source = "BASKET" -> 0
             [] rows[i].source = "MANUAL" -> 1
             [] OTHER -> 2
First(s) == {i \in Open(s) : \A j \in Open(s) : Rank(i) <= Rank(j)}
IsActive(n) == folios[newest[n]] = "ACTIVE"
TargetFolio ==
  LET first == {n \in DOMAIN newest : IsActive(n) /\ \A m \in 1..(n - 1) : ~IsActive(m)} IN
  IF first = {} THEN Broker ELSE newest[CHOOSE n \in first : TRUE]

\* The two SELECTs, and the portfolio of the sync if the user has no other.
ReadRows(t) ==
  /\ syncer[t].pc = "rows"
  /\ \E found \in [Symbols -> Ids \cup {NoVal}] :
       /\ \A s \in Symbols : IF Open(s) = {} THEN found[s] = NoVal ELSE found[s] \in First(s)
       /\ syncer' = [syncer EXCEPT ![t].existing = found, ![t].folio = TargetFolio,
            ![t].was = [s \in Symbols |->
                          IF found[s] = NoVal THEN NoVal ELSE rows[found[s]].source],
            ![t].pc = "apply"]
  /\ IF TargetFolio = Broker /\ folios[Broker] = "none"
       THEN folios' = [folios EXCEPT ![Broker] = "ACTIVE"] /\ newest' = <<Broker>> \o newest
       ELSE UNCHANGED <<folios, newest>>
  /\ stale' = [stale EXCEPT ![t] = {}]
  /\ UNCHANGED <<broker, rows, drafting, error, latest, desk, counts, muddled, disturbed>>

SyncedRow(t) == [status |-> "ACTIVE", source |-> "GROWW_SYNC", folio |-> syncer[t].folio,
                 shares |-> "broker"]

\* A reported symbol whose row was found: the row becomes the holding.
TakeOver(t, s) ==
  LET i == syncer[t].existing[s] IN
  /\ syncer[t].pc = "apply" /\ s \in syncer[t].todo /\ i # NoVal
  /\ IF Exists(i)
       THEN rows' = [rows EXCEPT ![i] = SyncedRow(t)] /\ Touch({s}, t)
       ELSE UNCHANGED <<rows, stale>>
  /\ syncer' = [syncer EXCEPT ![t].pc = "retire", ![t].now = s]
  /\ UNCHANGED <<broker, folios, newest, drafting, error, latest, desk, counts, muddled, disturbed>>

\* Mutant: the other rows of the symbol stay as they are.
RetireNone(t) ==
  /\ syncer[t].pc = "retire"
  /\ syncer' = [syncer EXCEPT ![t].pc = "apply", ![t].now = NoVal,
                              ![t].todo = @ \ {syncer[t].now}]
  /\ UNCHANGED <<broker, tables, error, latest, desk, counts, history>>

\* Every other row of the symbol, whatever its status.
Retire(t) ==
  LET s == syncer[t].now IN
  /\ syncer[t].pc = "retire"
  /\ rows' = [i \in Ids |-> IF i[2] = s /\ i # syncer[t].existing[s] /\ Exists(i)
                             THEN [rows[i] EXCEPT !.status = "INACTIVE"] ELSE rows[i]]
  /\ Touch({s}, t)
  /\ disturbed' = IF s \in stale[t] THEN disturbed \cup {s} ELSE disturbed \ {s}
  /\ syncer' = [syncer EXCEPT ![t].pc = "apply", ![t].now = NoVal, ![t].todo = @ \ {s}]
  /\ UNCHANGED <<broker, folios, newest, drafting, error, latest, desk, counts, muddled>>

\* A reported symbol without an open row gets one, unless the id is taken.
Insert(t, s) ==
  /\ syncer[t].pc = "apply" /\ s \in syncer[t].todo
  /\ syncer[t].existing[s] = NoVal /\ ~Exists(<<Broker, s>>)
  /\ rows' = [rows EXCEPT ![<<Broker, s>>] = SyncedRow(t)]
  /\ Touch({s}, t)
  /\ disturbed' = IF s \in stale[t] THEN disturbed \cup {s} ELSE disturbed
  /\ syncer' = [syncer EXCEPT ![t].todo = @ \ {s}]
  /\ UNCHANGED <<broker, folios, newest, drafting, error, latest, desk, counts, muddled>>

\* A statement raises out of the sync: its run stays RUNNING.
Abandon(t) ==
  /\ syncer' = [syncer EXCEPT ![t] = Resting]
  /\ disturbed' = disturbed \cup ({syncer[t].now} \ {NoVal})
  /\ muddled' = muddled \ {t} /\ stale' = [stale EXCEPT ![t] = {}]
  /\ UNCHANGED <<broker, tables, error, latest, desk>>

\* The id is taken by an INACTIVE row, or by one inserted meanwhile.
Collide(t, s) ==
  /\ syncer[t].pc = "apply" /\ s \in syncer[t].todo
  /\ syncer[t].existing[s] = NoVal /\ Exists(<<Broker, s>>)
  /\ Abandon(t) /\ UNCHANGED counts

Raise(t) ==
  /\ syncer[t].pc # "idle"
  /\ Fault /\ Abandon(t)

\* Mutant: only an empty account closes rows.
UnseenNever(t) == {}

\* Synced rows, as they were read, of symbols that were not reported.
Unseen(t) == {s \in Symbols \ syncer[t].seen : syncer[t].was[s] = "GROWW_SYNC"}

StartClosing(t) ==
  /\ syncer[t].pc = "apply" /\ syncer[t].todo = {}
  /\ syncer' = [syncer EXCEPT ![t].pc = "close", ![t].todo = Unseen(t)]
  /\ UNCHANGED <<broker, tables, error, latest, desk, counts, history>>

CloseOne(t, s) ==
  LET i == syncer[t].existing[s] IN
  /\ syncer[t].pc = "close" /\ s \in syncer[t].todo
  /\ IF Exists(i)
       THEN rows' = [rows EXCEPT ![i].status = "INACTIVE"] /\ Touch({s}, t)
       ELSE UNCHANGED <<rows, stale>>
  /\ syncer' = [syncer EXCEPT ![t].todo = @ \ {s}]
  /\ UNCHANGED <<broker, folios, newest, drafting, error, latest, desk, counts, muddled, disturbed>>

\* The rows are done.
Applied(t) ==
  syncer[t].pc = "verdict" \/ (syncer[t].pc = "close" /\ syncer[t].todo = {})

\* Mutant: the error is looked at once, at the end of the run.
VerdictLate(t) ==
  /\ Applied(t)
  /\ syncer' = [syncer EXCEPT ![t] = [Resting EXCEPT !.pc = "margin", !.denied = syncer[t].denied]]
  /\ UNCHANGED <<broker, tables, error, latest, desk, counts, history>>

Verdict(t) ==
  /\ Applied(t)
  /\ syncer' = [syncer EXCEPT ![t] = [Resting EXCEPT !.pc = "margin", !.denied = syncer[t].denied,
                                                      !.partial = error[Home[t]]]]
  /\ stale' = [stale EXCEPT ![t] = {}]
  /\ UNCHANGED <<broker, tables, error, latest, desk, counts, muddled, disturbed>>

\* get_user_margin clears the error when it is answered.
ReadMargin(t) ==
  /\ syncer[t].pc = "margin"
  /\ CallBy(t, FALSE)
  /\ syncer' = [syncer EXCEPT ![t].pc = "activate"]
  /\ UNCHANGED <<broker, tables, latest, desk, counts, stale, disturbed>>

MarginDenied(t) ==
  /\ syncer[t].pc = "margin"
  /\ Fault /\ CallBy(t, TRUE)
  /\ syncer' = [syncer EXCEPT ![t].pc = "activate"]
  /\ UNCHANGED <<broker, tables, latest, desk, stale, disturbed>>

\* Every portfolio of the user becomes ACTIVE, one that waits for its
\* confirmation too.
Activate(t) ==
  /\ syncer[t].pc = "activate"
  /\ folios' = [f \in Folios |-> IF folios[f] = "none" THEN "none" ELSE "ACTIVE"]
  /\ syncer' = [syncer EXCEPT ![t].pc = "finish"]
  /\ UNCHANGED <<broker, rows, newest, drafting, error, latest, desk, counts, history>>

\* The last get_positions; answered, it changes nothing.
LastReadDenied(t) ==
  /\ syncer[t].pc = "finish"
  /\ Fault /\ CallBy(t, TRUE)
  /\ UNCHANGED <<broker, tables, latest, syncer, desk, stale, disturbed>>

Outcome(t) == IF syncer[t].partial \/ error[Home[t]] THEN "PARTIAL" ELSE "OK"

\* The row of the run is closed, with its Outcome.
Finish(t) ==
  /\ syncer[t].pc = "finish"
  /\ latest' = IF latest.run = t THEN [latest EXCEPT !.state = "FRESH"] ELSE latest
  /\ syncer' = [syncer EXCEPT ![t] = Resting] /\ muddled' = muddled \ {t}
  /\ UNCHANGED <<broker, tables, error, desk, counts, stale, disturbed>>

\* Ten minutes pass.
Age ==
  /\ latest.state = "FRESH"
  /\ latest' = [latest EXCEPT !.state = "OLD"]
  /\ UNCHANGED <<broker, tables, error, syncer, desk, counts, history>>

\* Another dashboard request reads the balance, the holdings or the overview.
ReadElsewhere(p, refused) ==
  /\ Fault /\ Answer(p, refused)
  /\ muddled' = muddled \cup Others(p, NoVal)
  /\ UNCHANGED <<broker, tables, latest, syncer, desk, stale, disturbed>>

-----------------------------------------------------------------------------
(***************************************************************************)
(* Rows entered by hand (command_center.py).                               *)
(***************************************************************************)

\* _ensure_manual_portfolio and the row; another uuid for every row.
AddManual(m, s) ==
  /\ \A x \in Symbols : rows[<<m, x>>].status = "none"
  /\ rows' = [rows EXCEPT ![<<m, s>>] = ManualRow] /\ Touch({s}, NoVal)
  /\ folios' = [folios EXCEPT ![ByHand] = "ACTIVE"]
  /\ newest' = IF folios[ByHand] = "none" THEN <<ByHand>> \o newest ELSE newest
  /\ UNCHANGED <<broker, drafting, error, latest, syncer, desk, counts, muddled, disturbed>>

\* One statement, with the source in its WHERE.
DeleteManual(i) ==
  /\ Exists(i) /\ rows[i].source = "MANUAL"
  /\ rows' = [rows EXCEPT ![i].status = "deleted"] /\ Touch({i[2]}, NoVal)
  /\ UNCHANGED <<broker, folios, newest, drafting, error, latest, syncer, desk, counts,
                 muddled, disturbed>>

\* update_manual_stock looks for the row and its source ...
StartEdit(d, i) ==
  /\ desk[d].pc = "idle"
  /\ Exists(i) /\ rows[i].source = "MANUAL"
  /\ desk' = [desk EXCEPT ![d] = [AtDesk EXCEPT !.pc = "edit", !.id = i]]
  /\ UNCHANGED <<broker, tables, error, latest, syncer, counts, history>>

\* ... and writes to the id.
Edit(d) ==
  LET i == desk[d].id IN
  /\ desk[d].pc = "edit"
  /\ IF Exists(i)
       THEN rows' = [rows EXCEPT ![i].shares = "user"] /\ Touch({i[2]}, NoVal)
       ELSE UNCHANGED <<rows, stale>>
  /\ desk' = [desk EXCEPT ![d] = AtDesk]
  /\ UNCHANGED <<broker, folios, newest, drafting, error, latest, syncer, counts,
                 muddled, disturbed>>

-----------------------------------------------------------------------------
(***************************************************************************)
(* Baskets (portfolio_manager.py).                                         *)
(***************************************************************************)

\* generate_strategy_basket: whatever the candidates cost, it allocates each
\* symbol once and at least one.
Plans == (SUBSET Tracked) \ {{}}

\* create_user_portfolio_from_basket: the portfolio, then row by row.
DraftBasket(b, chosen) ==
  /\ folios[b] = "none"
  /\ folios' = [folios EXCEPT ![b] = "PENDING_CONFIRMATION"] /\ newest' = <<b>> \o newest
  /\ drafting' = [drafting EXCEPT ![b] = chosen]
  /\ UNCHANGED <<broker, rows, error, latest, syncer, desk, counts, history>>

DraftRow(b, s) ==
  /\ s \in drafting[b]
  /\ rows' = [rows EXCEPT ![<<b, s>>] = PlannedRow(b)] /\ Touch({s}, NoVal)
  /\ drafting' = [drafting EXCEPT ![b] = @ \ {s}]
  /\ UNCHANGED <<broker, folios, newest, error, latest, syncer, desk, counts, muddled, disturbed>>

\* confirm_batch_execution: the card is shown once the basket is stored.
StartConfirm(d, b, bought) ==
  /\ desk[d].pc = "idle"
  /\ folios[b] # "none" /\ drafting[b] = {} /\ counts.confirms < MaxConfirms
  /\ counts' = [counts EXCEPT !.confirms = @ + 1]
  /\ desk' = [desk EXCEPT ![d] = [AtDesk EXCEPT !.pc = "select", !.basket = b, !.todo = bought]]
  /\ UNCHANGED <<broker, tables, error, latest, syncer, history>>

\* Any row of the portfolio with the symbol, whatever its status.
SelectBought(d, s) ==
  LET found == {i \in RowsOf(s) : Exists(i) /\ rows[i].folio = desk[d].basket} IN
  /\ desk[d].pc = "select" /\ s \in desk[d].todo
  /\ IF found = {}
       THEN desk' = [desk EXCEPT ![d].todo = @ \ {s}]
       ELSE \E i \in found : desk' = [desk EXCEPT ![d].todo = @ \ {s}, ![d].pc = "buy", ![d].id = i]
  /\ UNCHANGED <<broker, tables, error, latest, syncer, counts, history>>

MarkBought(d) ==
  LET i == desk[d].id IN
  /\ desk[d].pc = "buy"
  /\ IF Exists(i)
       THEN /\ rows' = [rows EXCEPT ![i] = [@ EXCEPT !.status = "ACTIVE", !.source = "BASKET",
                                                   !.shares = "user"]]
            /\ Touch({i[2]}, NoVal)
       ELSE UNCHANGED <<rows, stale>>
  /\ desk' = [desk EXCEPT ![d].pc = "select", ![d].id = NoVal]
  /\ UNCHANGED <<broker, folios, newest, drafting, error, latest, syncer, counts,
                 muddled, disturbed>>

ConfirmFolio(d) ==
  /\ desk[d].pc = "select" /\ desk[d].todo = {}
  /\ folios' = [folios EXCEPT ![desk[d].basket] = "ACTIVE"]
  /\ desk' = [desk EXCEPT ![d] = AtDesk]
  /\ UNCHANGED <<broker, rows, newest, drafting, error, latest, syncer, counts, history>>

DeskRaises(d) ==
  /\ desk[d].pc # "idle"
  /\ Fault
  /\ desk' = [desk EXCEPT ![d] = AtDesk]
  /\ UNCHANGED <<broker, tables, error, latest, syncer, history>>

-----------------------------------------------------------------------------
SyncStep(t) ==
  \/ ReadHoldings(t) \/ ReadPositions(t) \/ Judge(t) \/ CloseAll(t) \/ ReadRows(t)
  \/ \E s \in Symbols : TakeOver(t, s) \/ Insert(t, s) \/ Collide(t, s) \/ CloseOne(t, s)
  \/ Retire(t) \/ StartClosing(t) \/ Verdict(t) \/ ReadMargin(t) \/ Activate(t) \/ Finish(t)

SyncFault(t) ==
  HoldingsDenied(t) \/ PositionsDenied(t) \/ MarginDenied(t) \/ LastReadDenied(t) \/ Raise(t)

ByUser ==
  \/ \E m \in Manuals, s \in Tracked : AddManual(m, s)
  \/ \E i \in Ids : DeleteManual(i)
  \/ \E b \in Baskets, chosen \in Plans : DraftBasket(b, chosen)
  \/ \E b \in Baskets, s \in Symbols : DraftRow(b, s)
  \/ \E d \in Desks : \/ \E i \in Ids : StartEdit(d, i)
                      \/ \E b \in Baskets, bought \in (SUBSET Tracked) \ {{}} :
                           StartConfirm(d, b, bought)
                      \/ \E s \in Symbols : SelectBought(d, s)
                      \/ Edit(d) \/ MarkBought(d) \/ ConfirmFolio(d) \/ DeskRaises(d)

Next ==
  \/ \E s \in Symbols : Buy(s) \/ Settle(s) \/ Sell(s)
  \/ \E t \in Syncers : StartSync(t) \/ Poll(t) \/ SyncStep(t) \/ SyncFault(t)
  \/ \E p \in Processes, refused \in BOOLEAN : ReadElsewhere(p, refused)
  \/ ByUser \/ Age

Spec == Init /\ [][Next]_vars

\* The Command Center is polled while it is open, and a sync that has begun goes on.
FairSpec ==
  Spec /\ WF_vars(Age) /\ \A t \in Syncers : WF_vars(Poll(t)) /\ WF_vars(SyncStep(t))

-----------------------------------------------------------------------------
(***************************************************************************)
(* Properties.                                                             *)
(***************************************************************************)
SyncerState ==
  [pc : {"idle", "holdings", "positions", "judge", "closeall", "rows", "apply", "retire",
         "close", "verdict", "margin", "activate", "finish"},
   denied : BOOLEAN, partial : BOOLEAN, todo : SUBSET Symbols, seen : SUBSET Symbols,
   existing : [Symbols -> Ids \cup {NoVal}], was : [Symbols -> Source \cup {NoVal}],
   folio : Folios \cup {NoVal}, now : Symbols \cup {NoVal}]
DeskState ==
  [pc : {"idle", "edit", "select", "buy"}, basket : Baskets \cup {NoVal},
   todo : SUBSET Symbols, id : Ids \cup {NoVal}]

TypeOK ==
  /\ broker \in [Symbols -> {"none", "position", "holding"}]
  /\ rows \in [Ids -> Row]
  /\ folios \in [Folios -> {"none", "PENDING_CONFIRMATION", "ACTIVE"}]
  /\ newest \in Seq(Folios)
  /\ drafting \in [Baskets -> SUBSET Symbols]
  /\ error \in [Processes -> BOOLEAN]
  /\ latest \in [run : Syncers \cup {NoVal}, state : {"none", "RUNNING", "FRESH", "OLD"}]
  /\ syncer \in [Syncers -> SyncerState] /\ desk \in [Desks -> DeskState]
  /\ counts \in [trades : 0..MaxTrades, confirms : 0..MaxConfirms, faults : 0..MaxFaults]
  /\ muddled \subseteq Syncers /\ stale \in [Syncers -> SUBSET Symbols]
  /\ disturbed \subseteq Symbols

\* A sync wrote the rows of s from a stale reading, or is or was left between
\* the two statements of a take-over.
HalfDone(s) == s \in disturbed \/ \E t \in Syncers : syncer[t].now = s

\* A sync that nobody interfered with leaves the rows as the account is: each
\* reported symbol has one open row, a synced one with the broker's shares.  A
\* symbol that was not reported has no synced row, unless another open row of
\* it, entered by hand or planned, came first and hid the synced one, or an
\* earlier sync had left two.
QuietSyncMirrors ==
  \A t \in Syncers : syncer[t].pc = "close" /\ syncer[t].todo = {} =>
    \A s \in Symbols \ stale[t] :
      IF s \in syncer[t].seen
        THEN /\ Cardinality(Open(s)) = 1
             /\ \A i \in Open(s) : IsSynced(i) /\ rows[i].shares = "broker"
        ELSE (\E i \in RowsOf(s) : IsSynced(i)) =>
               HalfDone(s) \/ \E i \in Open(s) : ~IsSynced(i)

\* The totals of the overview count a holding of the broker once: two synced
\* rows of a symbol come only from a sync that wrote from a stale reading or
\* ended between its two statements.
OneSyncedRow ==
  \A s \in Symbols :
    Cardinality({i \in Counted(s) : rows[i].source = "GROWW_SYNC"}) > 1 => HalfDone(s)

\* ADR-037: a refused read is visible.  A sync whose holdings were refused is
\* recorded PARTIAL, although the margin call clears the error, unless another
\* request has used the client meanwhile.
OkIsHonest ==
  \A t \in Syncers \ muddled :
    syncer[t].pc = "finish" /\ syncer[t].denied => Outcome(t) = "PARTIAL"

\* A sync whose holdings were refused closes rows only if cash positions were
\* taken for the whole account, or another request cleared the error.
DeniedSyncCloses ==
  [][\A t \in Syncers \ muddled, i \in Ids :
       /\ syncer[t].denied /\ syncer'[t] # syncer[t]
       /\ rows[i].status = "ACTIVE" /\ rows'[i].status = "INACTIVE"
       => syncer[t].seen # {}]_vars

\* A symbol in the account has no open row, and its id is taken by a closed
\* one: no sync gets past its INSERT.
Blocked == \E s \in Symbols : broker[s] # "none" /\ Open(s) = {} /\ Exists(<<Broker, s>>)

\* A settled holding that stays in the account is shown as the broker's in the
\* end, whatever was refused and whichever sync ended early, unless a closed row
\* blocks the syncs.
HoldingIsShown ==
  \A s \in Symbols :
    [](broker[s] = "holding") => <>(Blocked \/ \E i \in Counted(s) : rows[i].source = "GROWW_SYNC")

=============================================================================
