----------------------------- MODULE Screening -----------------------------
(***************************************************************************)
(* What a proposal of a symbol rests on: the macro regime (app/regime.py), *)
(* its price history (app/market_data.py, app/screener.py) and the debate  *)
(* of the agents (app/agents), each read through the table research_cache  *)
(* (app/cache.py) that all processes share.                                *)
(*                                                                         *)
(* A runner is a thread in pipeline.run_universe_scan or process_symbol.   *)
(* One symbol, whose headlines stay the same.  An entry of the cache is    *)
(* fresh until it Expires; the history is the set of days that have a bar. *)
(* Of a regime only whether it allows entries counts, of a verdict only    *)
(* whether the arbiter gave it.  Whether a snapshot qualifies and whether  *)
(* an argued verdict is BUY is a choice wherever it is read.               *)
(***************************************************************************)
EXTENDS Integers, FiniteSets

CONSTANTS
  Scanners,   \* threads that scan the universe
  Requesters, \* threads that run one symbol on request
  Processes,
  Home,       \* [runner -> the process it runs in]
  NoVal,
  Enough,     \* bars that make a warm start (50)
  Window,     \* days of a delta download (5)
  MaxDays,    \* bound: the last day
  MaxMoves,   \* bound: changes of the regime
  MaxFaults   \* bound: downloads and agents that fail

ASSUME ScreeningBounds ==
  /\ Enough \in Nat /\ Window \in Nat \ {0} /\ MaxDays \in Nat \ {0}
  /\ MaxMoves \in Nat /\ MaxFaults \in Nat
Runners == Scanners \cup Requesters
ASSUME ScreeningNames == Home \in [Runners -> Processes] /\ NoVal \notin Runners

VARIABLES
  today,
  crisis,     \* what the macro data of the moment say
  cache,      \* [namespace -> entry]
  bars,       \* ohlcv_daily_bars: the days that have one
  lock,       \* [process -> the runner that holds _scan_lock]
  runner,     \* [runner -> where it is]
  counts,
  broken,     \* history: a bar was not saved, or more days passed than a download covers
  doomed      \* history: scans that began in a crisis that no fresh entry hid

vars == <<today, crisis, cache, bars, lock, runner, counts, broken, doomed>>
history == <<broken, doomed>>

Namespaces == {"macro_regime", "technical", "catalyst"}
\* A verdict is argued if the arbiter or an early veto gave it.
Values == {"calm", "crisis", "snapshot", "argued", "fallback"}
Entry == [state : {"none", "fresh", "expired"}, value : Values \cup {NoVal}]
NoEntry == [state |-> "none", value |-> NoVal]

Resting == [step |-> "idle", scan |-> FALSE, ns |-> NoVal, value |-> NoVal]

Init ==
  /\ today = 1 /\ crisis \in BOOLEAN
  /\ cache = [n \in Namespaces |-> NoEntry]
  /\ bars = {}
  /\ lock = [p \in Processes |-> NoVal]
  /\ runner = [r \in Runners |-> Resting]
  /\ counts = [moves |-> 0, faults |-> 0]
  /\ broken = FALSE /\ doomed = {}

-----------------------------------------------------------------------------
(***************************************************************************)
(* Time, the market and the cache's clock.                                 *)
(***************************************************************************)
NextDay ==
  /\ today < MaxDays
  /\ today' = today + 1
  /\ UNCHANGED <<crisis, cache, bars, lock, runner, counts, history>>

MacroMoves ==
  /\ counts.moves < MaxMoves
  /\ counts' = [counts EXCEPT !.moves = @ + 1]
  /\ crisis' = ~crisis
  /\ doomed' = {}
  /\ UNCHANGED <<today, cache, bars, lock, runner, broken>>

Expire(n) ==
  /\ cache[n].state = "fresh"
  /\ cache' = [cache EXCEPT ![n].state = "expired"]
  /\ UNCHANGED <<today, crisis, bars, lock, runner, counts, history>>

Fault ==
  /\ counts.faults < MaxFaults
  /\ counts' = [counts EXCEPT !.faults = @ + 1]

-----------------------------------------------------------------------------
(***************************************************************************)
(* Where a runner goes.                                                    *)
(***************************************************************************)
Move(r, where) == runner' = [runner EXCEPT ![r] = where]
Ask(r, n) == [runner[r] EXCEPT !.step = "select", !.ns = n, !.value = NoVal]
At(r, step, n) == runner[r].step = step /\ runner[r].ns = n

\* The runner ends; a scan releases its lock.
Leave(r) ==
  /\ Move(r, Resting)
  /\ lock' = IF runner[r].scan THEN [lock EXCEPT ![Home[r]] = NoVal] ELSE lock
  /\ doomed' = doomed \ {r}

\* What is made of a value, read or fetched.  A crisis ends the scan, and a
\* fallback, which is not a BUY, the run; so may a snapshot or a verdict.
Follow(r, value) ==
  Move(r, CASE value = "calm" -> Ask(r, "technical")
            [] value = "snapshot" -> Ask(r, "catalyst")
            [] value = "argued" -> [runner[r] EXCEPT !.step = "propose", !.value = NoVal])

Use(r, value) ==
  \/ value # "calm" /\ Leave(r)
  \/ value \in {"calm", "snapshot", "argued"} /\ Follow(r, value) /\ UNCHANGED <<lock, doomed>>

\* A runner that has fetched macro data and not stored them yet.
Storing(r) == At(r, "store", "macro_regime")

\* run_universe_scan: the lock is not waited for.
StartScan(r) ==
  /\ runner[r].step = "idle" /\ lock[Home[r]] = NoVal
  /\ lock' = [lock EXCEPT ![Home[r]] = r]
  /\ Move(r, [Resting EXCEPT !.step = "select", !.scan = TRUE, !.ns = "macro_regime"])
  /\ doomed' = IF crisis /\ cache["macro_regime"].state # "fresh" /\ ~(\E o \in Runners : Storing(o))
                 THEN doomed \cup {r} ELSE doomed
  /\ UNCHANGED <<today, crisis, cache, bars, counts, broken>>

\* process_symbol on its own: /run, the dashboard, the chat agent.  No regime
\* is assessed, and no event known.
StartRun(r) ==
  /\ runner[r].step = "idle"
  /\ Move(r, [Resting EXCEPT !.step = "select", !.ns = "technical"])
  /\ UNCHANGED <<today, crisis, cache, bars, lock, counts, history>>

-----------------------------------------------------------------------------
(***************************************************************************)
(* cache.get_value: a SELECT, and a DELETE of an expired row by its key.   *)
(***************************************************************************)
\* Mutant: expires_at is not looked at.
SelectAnyAge(r) ==
  LET e == cache[runner[r].ns] IN
  /\ runner[r].step = "select"
  /\ IF e.state = "none"
       THEN Move(r, [runner[r] EXCEPT !.step = "fetch"]) /\ UNCHANGED <<lock, doomed>>
       ELSE Use(r, e.value)
  /\ UNCHANGED <<today, crisis, cache, bars, counts, broken>>

Select(r) ==
  LET e == cache[runner[r].ns] IN
  /\ runner[r].step = "select"
  /\ CASE e.state = "fresh" -> Use(r, e.value)
       [] e.state = "none" -> Move(r, [runner[r] EXCEPT !.step = "fetch"]) /\ UNCHANGED <<lock, doomed>>
       [] e.state = "expired" -> Move(r, [runner[r] EXCEPT !.step = "delete"]) /\ UNCHANGED <<lock, doomed>>
  /\ UNCHANGED <<today, crisis, cache, bars, counts, broken>>

\* The row may have been replaced since it was read.
Delete(r) ==
  /\ runner[r].step = "delete"
  /\ cache' = [cache EXCEPT ![runner[r].ns] = NoEntry]
  /\ Move(r, [runner[r] EXCEPT !.step = "fetch"])
  /\ UNCHANGED <<today, crisis, bars, lock, counts, history>>

\* cache.set_value: the time to live counts from here.
Store(r) ==
  /\ runner[r].step = "store"
  /\ cache' = [cache EXCEPT ![runner[r].ns] = [state |-> "fresh", value |-> runner[r].value]]
  /\ Use(r, runner[r].value)
  /\ UNCHANGED <<today, crisis, bars, counts, broken>>

Fetched(r, value) == Move(r, [runner[r] EXCEPT !.step = "store", !.value = value])

-----------------------------------------------------------------------------
(***************************************************************************)
(* regime.fetch_macro_data, which fails closed.                            *)
(***************************************************************************)
FetchRegime(r) ==
  /\ At(r, "fetch", "macro_regime")
  /\ Fetched(r, IF crisis THEN "crisis" ELSE "calm")
  /\ UNCHANGED <<today, crisis, cache, bars, lock, counts, history>>

\* Mutant: entries are allowed where the regime is not known.
RegimeUnknownAllows(r) ==
  /\ At(r, "fetch", "macro_regime")
  /\ Fault /\ Use(r, "calm")
  /\ UNCHANGED <<today, crisis, cache, bars, broken>>

RegimeUnknown(r) ==
  /\ At(r, "fetch", "macro_regime")
  /\ Fault /\ Leave(r)
  /\ UNCHANGED <<today, crisis, cache, bars, broken>>

-----------------------------------------------------------------------------
(***************************************************************************)
(* market_data.load_history and the snapshot that is made of it.           *)
(***************************************************************************)
\* Mutant: the window of a warm start is a day short.
DownloadedShort ==
  IF Cardinality(bars) >= Enough THEN {d \in 1..today : d > today - Window + 1} ELSE 1..today

\* Mutant: the download ends a day late.
DownloadedAhead ==
  IF Cardinality(bars) >= Enough THEN {d \in 1..(today + 1) : d > today - Window} ELSE 1..today

\* The days of a download: the window if the history is warm, else all.
Downloaded ==
  IF Cardinality(bars) >= Enough THEN {d \in 1..today : d > today - Window} ELSE 1..today

\* The latest bar is older than a download reaches.
Idled == bars # {} /\ \A d \in bars : d < today - Window

\* Bars are saved one by one; one that fails is skipped.
LoadHistory(r) ==
  /\ At(r, "fetch", "technical")
  /\ bars' = bars \cup Downloaded
  /\ broken' = (broken \/ Idled)
  /\ Fetched(r, "snapshot")
  /\ UNCHANGED <<today, crisis, cache, lock, counts, doomed>>

LoadWithoutBar(r, d) ==
  /\ At(r, "fetch", "technical") /\ d \in Downloaded
  /\ Fault
  /\ bars' = bars \cup (Downloaded \ {d}) /\ broken' = TRUE
  /\ Fetched(r, "snapshot")
  /\ UNCHANGED <<today, crisis, cache, lock, doomed>>

\* No download: what is stored is taken, and passed on as of now.
LoadStored(r) ==
  /\ At(r, "fetch", "technical") /\ bars # {}
  /\ Fault /\ Fetched(r, "snapshot")
  /\ UNCHANGED <<today, crisis, cache, bars, lock, history>>

\* Nothing is stored either: there is no snapshot, and nothing is cached.
LoadFails(r) ==
  /\ At(r, "fetch", "technical") /\ bars = {}
  /\ Fault /\ Leave(r)
  /\ UNCHANGED <<today, crisis, cache, bars, broken>>

-----------------------------------------------------------------------------
(***************************************************************************)
(* research_subgraph.run_qualitative_research.                             *)
(***************************************************************************)
\* The arbiter answers, or the critic or the analyst vetoes early.
Debate(r) ==
  /\ At(r, "fetch", "catalyst")
  /\ Fetched(r, "argued")
  /\ UNCHANGED <<today, crisis, cache, bars, lock, counts, history>>

\* The critic fails.  Its fallback has no confidence, so there is no early exit
\* and the arbiter decides.
CriticFails(r) ==
  /\ At(r, "fetch", "catalyst")
  /\ Fault /\ Fetched(r, "argued")
  /\ UNCHANGED <<today, crisis, cache, bars, lock, history>>

\* The analyst fails, and the arbiter decides.
AnalystFails(r) == CriticFails(r)

\* The arbiter fails: its fallback is a verdict like any other, and is cached.
ArbiterFails(r) ==
  /\ At(r, "fetch", "catalyst")
  /\ Fault /\ Fetched(r, "fallback")
  /\ UNCHANGED <<today, crisis, cache, bars, lock, history>>

-----------------------------------------------------------------------------
(***************************************************************************)
(* The risk node: the proposal is made, or turned down for an event, its   *)
(* sector or its size.                                                     *)
(***************************************************************************)
Conclude(r) ==
  /\ runner[r].step = "propose"
  /\ Leave(r)
  /\ UNCHANGED <<today, crisis, cache, bars, counts, broken>>

Step(r) ==
  \/ Select(r) \/ Delete(r) \/ Store(r)
  \/ FetchRegime(r) \/ LoadHistory(r) \/ Debate(r) \/ Conclude(r)

Failure(r) ==
  \/ RegimeUnknown(r) \/ LoadStored(r) \/ LoadFails(r) \/ CriticFails(r) \/ AnalystFails(r) \/ ArbiterFails(r)
  \/ \E d \in 1..today : LoadWithoutBar(r, d)

Next ==
  \/ NextDay \/ MacroMoves
  \/ \E n \in Namespaces : Expire(n)
  \/ \E r \in Scanners : StartScan(r)
  \/ \E r \in Requesters : StartRun(r)
  \/ \E r \in Runners : Step(r) \/ Failure(r)

Spec == Init /\ [][Next]_vars

\* A stored verdict ages, and a run that has begun goes on.
FairSpec ==
  /\ Spec
  /\ WF_vars(Expire("catalyst"))
  /\ \A r \in Runners : WF_vars(Step(r))

-----------------------------------------------------------------------------
(***************************************************************************)
(* Properties.                                                             *)
(***************************************************************************)
RunnerState ==
  [step : {"idle", "select", "delete", "fetch", "store", "propose"}, scan : BOOLEAN,
   ns : Namespaces \cup {NoVal}, value : Values \cup {NoVal}]

TypeOK ==
  /\ today \in 1..MaxDays /\ crisis \in BOOLEAN
  /\ cache \in [Namespaces -> Entry]
  /\ bars \subseteq 1..today
  /\ lock \in [Processes -> Runners \cup {NoVal}]
  /\ runner \in [Runners -> RunnerState]
  /\ counts \in [moves : 0..MaxMoves, faults : 0..MaxFaults]
  /\ broken \in BOOLEAN /\ doomed \subseteq Runners

\* The indicators are computed over the stored bars as if they were adjacent
\* days.  A day without a bar, between days that have one, is there only if a
\* bar was not saved, or the history was once not loaded for longer than a
\* download reaches; failed downloads and cached snapshots do not tear it.
SeriesIsWhole ==
  ~broken => \A d \in 1..MaxDays \ bars : ~(\E a, b \in bars : a < d /\ d < b)

\* settings.py, "completely vetoes new proposals": a scan that began in a
\* crisis, with no regime in the cache or on its way there, does not get to a
\* proposal before the crisis ends, whatever fails meanwhile.
CrisisStopsScans == \A r \in doomed : runner[r].step # "propose"

Researches == \E r \in Runners : At(r, "select", "catalyst")
Argued ==
  \/ cache["catalyst"].value = "argued"
  \/ \E r \in Runners : runner[r].value = "argued"

\* An outage of the model is not remembered forever: if the symbol is researched
\* again and again, verdicts that were argued come again.
OutageIsForgotten == []<>Researches => []<>Argued

=============================================================================
