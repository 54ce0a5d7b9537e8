---------------------------- MODULE TradingGraph ----------------------------
(***************************************************************************)
(* The approval pipeline: the LangGraph trading graph of app/graph.py, the *)
(* pending_proposals ledger of app/proposals.py, and the three kinds of    *)
(* caller that drive them concurrently.                                    *)
(*                                                                         *)
(*   - Web actors: threads of the dashboard process, POST .../approve and  *)
(*     .../reject (read the row, update the row, resume the graph).        *)
(*   - Telegram actors: the bot's callback handler, which resumes the      *)
(*     graph by symbol and never looks at pending_proposals.               *)
(*   - Run actors: pipeline.process_symbol on a worker or scheduler thread.*)
(*                                                                         *)
(* A graph thread is named by a symbol and a calendar day.  Its checkpoint *)
(* is written after every node (durability="sync").  Every database        *)
(* statement is its own transaction, so each one is a step of its own.     *)
(* Any busy actor may end early: an exception in a node, or the death of   *)
(* its process; what it wrote stays.                                       *)
(***************************************************************************)
EXTENDS Integers, Sequences, FiniteSets

CONSTANTS
  Symbols,          \* trading symbols
  Prices,           \* abstract quotes; two of them differ by more than STALE_PROPOSAL_PRICE_MOVE_PCT
  WebActors,        \* request threads of the dashboard
  TelegramActors,   \* the bot's update loop (one, as the library runs handlers one at a time)
  RunActors,        \* threads running process_symbol
  Verdicts,         \* analyst verdicts that occur, a subset of AllVerdicts
  RiskOutcomes,     \* outcomes of calculate_risk that occur, a subset of AllRiskOutcomes
  IndexFails,       \* whether statements on graph_threads may fail (they are best effort)
  StaleAge,         \* STALE_PROPOSAL_MINUTES, in clock ticks
  NoVal,            \* Python's None, or a channel that was never written
  MaxTime,          \* bound: the clock stops here
  MaxDay,           \* bound: last calendar day
  MaxRuns,          \* bound: invocations of run_symbol
  MaxDecisions,     \* bound: approvals and rejections submitted
  MaxAborts         \* bound: invocations that end early

AllVerdicts == {"PULLBACK", "GENERAL", "STRUCTURAL", "UNAVAILABLE"}
AllRiskOutcomes == {"OK", "BLACKOUT", "SECTOR", "SIZE"}

ASSUME BoundsAssumption ==
  /\ StaleAge \in Nat /\ MaxTime \in Nat /\ MaxDay \in Nat
  /\ MaxRuns \in Nat /\ MaxDecisions \in Nat /\ MaxAborts \in Nat
ASSUME DataAssumption ==
  /\ Verdicts \subseteq AllVerdicts
  /\ RiskOutcomes \subseteq AllRiskOutcomes
  /\ IndexFails \in BOOLEAN
ASSUME NoValAssumption ==
  /\ NoVal \notin Prices /\ NoVal \notin Int /\ NoVal \notin Symbols
  /\ NoVal \notin AllVerdicts
  /\ NoVal \notin [run : Nat, entry : Prices]
  /\ NoVal \notin [sym : Symbols, day : Nat, entry : Prices,
                  status : {"PENDING", "APPROVED", "REJECTED"}]
ASSUME ActorsAssumption ==
  /\ WebActors \cap TelegramActors = {}
  /\ WebActors \cap RunActors = {}
  /\ TelegramActors \cap RunActors = {}

VARIABLES
  now,        \* wall clock, in ticks
  today,      \* date.today()
  price,      \* [symbol -> quote]
  thread,     \* [symbol, day -> checkpoint]: the newest checkpoint of each graph thread
  latest,     \* [symbol -> day]: the thread with the greatest graph_threads.updated_at
  rows,       \* [run -> pending_proposals row], NoVal when there is none
  outbox,     \* symbols with a proposal message enqueued and not sent yet
  carded,     \* symbols for which the chat holds a card with buttons
  trades,     \* trade_audit_log, in insertion order
  actor,      \* [actor -> local state of its invocation]
  runs,       \* run_symbol invocations so far
  decisions,  \* approvals and rejections submitted so far
  aborts,     \* invocations ended early so far
  approvals,  \* history: the runs (symbol, day, number) whose pause an APPROVED answered
  disturbed   \* history: threads on which two invocations overlapped or one ended early

vars == <<now, today, price, thread, latest, rows, outbox, carded, trades,
          actor, runs, decisions, aborts, approvals, disturbed>>
counters == <<runs, decisions, aborts>>
history == <<approvals, disturbed>>
clock == <<now, today, price>>

Days == 0..MaxDay
RunIds == 1..MaxRuns
Actors == WebActors \cup TelegramActors \cup RunActors
HumanDecision == {"APPROVED", "REJECTED"}

(***************************************************************************)
(* A checkpoint: the pending node and the channels of TradingState that    *)
(* routing or execution reads.  scan says whether the input came from a    *)
(* universe scan, which passes a snapshot, the regime and the corporate    *)
(* events, or from /run, which passes none of them.  run numbers the       *)
(* run_symbol call that wrote the input.  shownAt is when the interrupt    *)
(* was raised (the proposed_at of the card a human sees).                  *)
(***************************************************************************)
Node == {"math_screener", "analyze_catalyst", "calculate_risk",
         "human_approval", "paper_execute", "rejected"}
Next_ == Node \cup {"absent", "end"}
Decision == {"NONE", "NO_SETUP", "REJECTED_RISK", "BLACKOUT",
             "APPROVED", "REJECTED", "REJECTED_STALE"}
Reason == {"NONE", "SECTOR", "SIZE", "ANALYST_UNAVAILABLE", "STRUCTURAL_DAMAGE",
           "MISSING_MARKET_REGIME_EVIDENCE", "RISK_GATE",
           "CORPORATE_EVENT_BLACKOUT", "REJECTED"}
Exec == {"NONE", "NOT_EXECUTED", "REJECTED_STALE", "OPEN_PAPER", "REJECTED"}
Order == [run : RunIds, entry : Prices]
Checkpoint ==
  [next : Next_, run : RunIds \cup {0}, decision : Decision, reason : Reason,
   close : Prices \cup {NoVal}, scan : BOOLEAN, verdict : AllVerdicts \cup {NoVal},
   order : Order \cup {NoVal}, cardAt : Nat \cup {NoVal}, exec : Exec,
   shownAt : Nat \cup {NoVal}]
NoCheckpoint ==
  [next |-> "absent", run |-> 0, decision |-> "NONE", reason |-> "NONE",
   close |-> NoVal, scan |-> FALSE, verdict |-> NoVal, order |-> NoVal,
   cardAt |-> NoVal, exec |-> "NONE", shownAt |-> NoVal]

Row == [sym : Symbols, day : Days, entry : Prices,
        status : {"PENDING", "APPROVED", "REJECTED"}]
Trade == [sym : Symbols, day : Days, order : Order, shownAt : Nat \cup {NoVal},
          decidedAt : Nat, at : Nat, quote : Prices]

(***************************************************************************)
(* The local state of an invocation: what it was called with (run is the   *)
(* proposal a web request names, or the number of this run_symbol call),   *)
(* the thread it resolved, and the checkpoint it loaded and has advanced.  *)
(***************************************************************************)
Pc == {"idle", "update", "resolve", "record", "load", "node", "execute", "propose"}
Idle == [pc |-> "idle", sym |-> NoVal, day |-> NoVal, run |-> NoVal,
         decision |-> "NONE", snapshot |-> NoVal, cp |-> NoCheckpoint]
ActorState ==
  [pc : Pc, sym : Symbols \cup {NoVal}, day : Days \cup {NoVal},
   run : RunIds \cup {NoVal}, decision : HumanDecision \cup {"NONE"},
   snapshot : Prices \cup {NoVal}, cp : Checkpoint]

Init ==
  /\ now = 0
  /\ today = 0
  /\ price \in [Symbols -> Prices]
  /\ thread = [t \in Symbols \X Days |-> NoCheckpoint]
  /\ latest = [s \in Symbols |-> NoVal]
  /\ rows = [r \in RunIds |-> NoVal]
  /\ outbox = {}
  /\ carded = {}
  /\ trades = <<>>
  /\ actor = [a \in Actors |-> Idle]
  /\ runs = 0
  /\ decisions = 0
  /\ aborts = 0
  /\ approvals = {}
  /\ disturbed = {}

ThreadOf(a) == <<actor[a].sym, actor[a].day>>
Become(a, state) == actor' = [actor EXCEPT ![a] = state]
GoTo(a, label) == actor' = [actor EXCEPT ![a].pc = label]

-----------------------------------------------------------------------------
(***************************************************************************)
(* Callers.                                                                *)
(***************************************************************************)

\* approve_proposal / reject_proposal up to the status check: any other
\* status raises ValueError before anything is written.
WebDecide(a, r, d) ==
  /\ actor[a].pc = "idle"
  /\ decisions < MaxDecisions
  /\ rows[r] # NoVal /\ rows[r].status = "PENDING"
  /\ Become(a, [Idle EXCEPT !.pc = "update", !.sym = rows[r].sym,
                            !.run = r, !.decision = d])
  /\ decisions' = decisions + 1
  /\ UNCHANGED <<clock, thread, latest, rows, outbox, carded, trades, runs, aborts, history>>

\* Mutant: an UPDATE that does not look at the status.
WebUpdateUnguarded(a) ==
  /\ actor[a].pc = "update"
  /\ rows' = [rows EXCEPT ![actor[a].run].status = actor[a].decision]
  /\ GoTo(a, "resolve")
  /\ UNCHANGED <<clock, thread, latest, outbox, carded, trades, counters, history>>

\* Mutant: a rejection that only updates the row and resumes nothing.
WebUpdateKeepsThread(a) ==
  /\ actor[a].pc = "update"
  /\ LET r == actor[a].run IN
       rows' = IF rows[r].status = "PENDING"
                 THEN [rows EXCEPT ![r].status = actor[a].decision]
                 ELSE rows
  /\ IF actor[a].decision = "REJECTED" THEN Become(a, Idle) ELSE GoTo(a, "resolve")
  /\ UNCHANGED <<clock, thread, latest, outbox, carded, trades, counters, history>>

\* UPDATE ... WHERE proposal_id = %s AND status = 'PENDING'; the number of
\* rows it changed is not looked at, so the resume follows either way.
WebUpdate(a) ==
  /\ actor[a].pc = "update"
  /\ LET r == actor[a].run IN
       rows' = IF rows[r].status = "PENDING"
                 THEN [rows EXCEPT ![r].status = actor[a].decision]
                 ELSE rows
  /\ GoTo(a, "resolve")
  /\ UNCHANGED <<clock, thread, latest, outbox, carded, trades, counters, history>>

\* _on_callback: the button carries the action and the symbol, nothing else.
TelegramTap(a, s, d) ==
  /\ actor[a].pc = "idle"
  /\ decisions < MaxDecisions
  /\ s \in carded
  /\ Become(a, [Idle EXCEPT !.pc = "resolve", !.sym = s, !.decision = d])
  /\ decisions' = decisions + 1
  /\ UNCHANGED <<clock, thread, latest, rows, outbox, carded, trades, runs, aborts, history>>

\* process_symbol -> run_symbol: the thread is named after today.
StartRun(a, s, snapshot) ==
  /\ actor[a].pc = "idle"
  /\ runs < MaxRuns
  /\ Become(a, [Idle EXCEPT !.pc = "record", !.sym = s, !.day = today,
                            !.run = runs + 1, !.snapshot = snapshot])
  /\ runs' = runs + 1
  /\ UNCHANGED <<clock, thread, latest, rows, outbox, carded, trades, decisions, aborts, history>>

-----------------------------------------------------------------------------
(***************************************************************************)
(* Finding the thread and loading its checkpoint.                          *)
(***************************************************************************)

\* resume_symbol: the most recently updated thread of the symbol, or
\* today's if there is none, or none could be listed.
LatestThread(s) == IF latest[s] = NoVal THEN today ELSE latest[s]

Resolve(a) ==
  /\ actor[a].pc = "resolve"
  /\ \E day \in {LatestThread(actor[a].sym)} \cup (IF IndexFails THEN {today} ELSE {}) :
       actor' = [actor EXCEPT ![a].pc = "record", ![a].day = day]
  /\ UNCHANGED <<clock, thread, latest, rows, outbox, carded, trades, counters, history>>

\* _record_thread: the upsert makes this the newest updated_at; if it fails
\* the run goes on all the same.
RecordThread(a) ==
  /\ actor[a].pc = "record"
  /\ latest' \in {[latest EXCEPT ![actor[a].sym] = actor[a].day]}
                \cup (IF IndexFails THEN {latest} ELSE {})
  /\ GoTo(a, "load")
  /\ UNCHANGED <<clock, thread, rows, outbox, carded, trades, counters, history>>

\* What a new input does to a checkpoint: it overwrites the channels it
\* names, keeps the others, drops the pending interrupt and starts over.
WithInput(cp, run, snapshot) ==
  LET close == IF snapshot = NoVal THEN cp.close ELSE snapshot
      scan == snapshot # NoVal
  IN [cp EXCEPT !.next = "math_screener", !.run = run, !.scan = scan,
                !.close = close, !.shownAt = NoVal]

Loaded(a) == actor[a].pc \in {"node", "execute"}
Overlaps(a) == \E b \in Actors \ {a} : Loaded(b) /\ ThreadOf(b) = ThreadOf(a)
NoteOverlap(a) ==
  disturbed' = IF Overlaps(a) THEN disturbed \cup {ThreadOf(a)} ELSE disturbed
RunOf(s, d, run) == <<s, d, run>>
NoteApproval(a, cp) ==
  approvals' = IF cp.next = "human_approval" /\ actor[a].decision = "APPROVED"
                 THEN approvals \cup {RunOf(actor[a].sym, actor[a].day, cp.run)}
                 ELSE approvals

LoadRun(a) ==
  /\ actor[a].pc = "load" /\ actor[a].decision = "NONE"
  /\ LET cp == WithInput(thread[ThreadOf(a)], actor[a].run, actor[a].snapshot) IN
       /\ thread' = [thread EXCEPT ![ThreadOf(a)] = cp]
       /\ actor' = [actor EXCEPT ![a].pc = "node", ![a].cp = cp]
  /\ UNCHANGED <<clock, latest, rows, outbox, carded, trades, counters>>
  /\ NoteOverlap(a) /\ UNCHANGED approvals

\* Command(resume=decision): nothing happens to a thread that has finished
\* or was never started; otherwise the pending node runs (again), and only
\* human_approval reads the decision.
LoadResume(a) ==
  /\ actor[a].pc = "load" /\ actor[a].decision # "NONE"
  /\ LET cp == thread[ThreadOf(a)] IN
       IF cp.next \in {"absent", "end"}
         THEN Become(a, Idle)
         ELSE actor' = [actor EXCEPT
                ![a].pc = "node", ![a].cp = cp,
                ![a].decision = IF cp.next = "human_approval" THEN @ ELSE "NONE"]
  /\ UNCHANGED <<clock, thread, latest, rows, outbox, carded, trades, counters>>
  /\ NoteOverlap(a) /\ NoteApproval(a, thread[ThreadOf(a)])

-----------------------------------------------------------------------------
(***************************************************************************)
(* The nodes and the conditional edges behind them.                        *)
(***************************************************************************)
RouteAfterScreener(cp) ==
  IF cp.decision = "NO_SETUP" THEN "end" ELSE "analyze_catalyst"

RouteAfterAnalyst(cp) ==
  IF \/ cp.verdict \in {"STRUCTURAL", "UNAVAILABLE"}
     \/ cp.verdict = "GENERAL" /\ ~cp.scan
    THEN "rejected" ELSE "calculate_risk"

\* Mutant: a decision already in the channel spares the human the prompt.
RouteAfterRiskTrustsDecision(cp) ==
  CASE cp.decision \in {"REJECTED_RISK", "BLACKOUT"} -> "rejected"
    [] cp.decision = "APPROVED"                      -> "paper_execute"
    [] OTHER                                         -> "human_approval"

\* Mutant: routing on the presence of an order instead of the risk verdict.
RouteAfterRiskOnOrder(cp) == IF cp.order = NoVal THEN "rejected" ELSE "human_approval"

RouteAfterRisk(cp) ==
  IF cp.decision \in {"REJECTED_RISK", "BLACKOUT"} THEN "rejected" ELSE "human_approval"

RouteAfterApproval(cp) ==
  IF cp.decision = "APPROVED" THEN "paper_execute" ELSE "rejected"

\* _rejected: a reason already in the channel wins.
RejectionReason(cp) ==
  CASE cp.reason # "NONE"              -> cp.reason
    [] cp.verdict = "UNAVAILABLE"      -> "ANALYST_UNAVAILABLE"
    [] cp.verdict = "STRUCTURAL"       -> "STRUCTURAL_DAMAGE"
    [] cp.verdict = "GENERAL"          -> "MISSING_MARKET_REGIME_EVIDENCE"
    [] cp.decision = "REJECTED_RISK"   -> "RISK_GATE"
    [] cp.decision = "BLACKOUT"        -> "CORPORATE_EVENT_BLACKOUT"
    [] OTHER                           -> "REJECTED"

\* Mutant: the screener does not return the price it found.
ScreenedWithoutPrice(cp, s) ==
  IF cp.close # NoVal THEN {cp} ELSE {[cp EXCEPT !.decision = "NO_SETUP"], cp}

\* _math_screener: a no-op if the price is already in the state.
Screened(cp, s) ==
  IF cp.close # NoVal THEN {cp}
  ELSE {[cp EXCEPT !.decision = "NO_SETUP"], [cp EXCEPT !.close = price[s]]}

\* _calculate_risk: the blackout check sees the events of a scan only; a
\* rejection leaves the order of an earlier run where it was.
Sized(cp, outcome) ==
  CASE outcome = "BLACKOUT" -> [cp EXCEPT !.decision = "BLACKOUT"]
    [] outcome \in {"SECTOR", "SIZE"} ->
         [cp EXCEPT !.decision = "REJECTED_RISK", !.reason = outcome]
    [] outcome = "OK" -> [cp EXCEPT !.order = [run |-> cp.run, entry |-> cp.close]]

AtNode(a, node) == actor[a].pc = "node" /\ actor[a].cp.next = node

\* The checkpoint cp is persisted and the invocation goes on at label.
Put(a, cp, label) ==
  /\ thread' = [thread EXCEPT ![ThreadOf(a)] = cp]
  /\ actor' = [actor EXCEPT ![a] = IF label = "idle" THEN Idle
                                   ELSE [@ EXCEPT !.pc = label, !.cp = cp]]

Advance(a, cp) == Put(a, cp, IF cp.next = "end" THEN "idle" ELSE "node")

MathScreener(a) ==
  /\ AtNode(a, "math_screener")
  /\ \E cp \in Screened(actor[a].cp, actor[a].sym) :
       Advance(a, [cp EXCEPT !.next = RouteAfterScreener(cp)])
  /\ UNCHANGED <<clock, latest, rows, outbox, carded, trades, counters, history>>

AnalyzeCatalyst(a) ==
  /\ AtNode(a, "analyze_catalyst")
  /\ \E v \in Verdicts :
       LET cp == [actor[a].cp EXCEPT !.verdict = v] IN
       Advance(a, [cp EXCEPT !.next = RouteAfterAnalyst(cp)])
  /\ UNCHANGED <<clock, latest, rows, outbox, carded, trades, counters, history>>

CalculateRisk(a) ==
  /\ AtNode(a, "calculate_risk")
  /\ \E outcome \in RiskOutcomes :
       /\ outcome = "BLACKOUT" => actor[a].cp.scan
       /\ LET cp == Sized(actor[a].cp, outcome) IN
          Advance(a, [cp EXCEPT !.next = RouteAfterRisk(cp)])
  /\ UNCHANGED <<clock, latest, rows, outbox, carded, trades, counters, history>>

Rejected(a) ==
  /\ AtNode(a, "rejected")
  /\ Advance(a, [actor[a].cp EXCEPT !.reason = RejectionReason(actor[a].cp),
                                    !.exec = "REJECTED", !.next = "end"])
  /\ UNCHANGED <<clock, latest, rows, outbox, carded, trades, counters, history>>

\* _human_approval without an answer: interrupt() suspends the thread.  A
\* resume that got here from an earlier node just returns.
Pause(a) ==
  /\ AtNode(a, "human_approval") /\ actor[a].decision = "NONE"
  /\ Put(a, [actor[a].cp EXCEPT !.shownAt = now],
         IF a \in RunActors THEN "propose" ELSE "idle")
  /\ UNCHANGED <<clock, latest, rows, outbox, carded, trades, counters, history>>

\* Mutant: the answer is not looked at.
DecideApproves(a) ==
  /\ AtNode(a, "human_approval") /\ actor[a].decision # "NONE"
  /\ Advance(a, [actor[a].cp EXCEPT !.decision = "APPROVED", !.cardAt = now,
                                    !.next = "paper_execute"])
  /\ UNCHANGED <<clock, latest, rows, outbox, carded, trades, counters, history>>

\* _human_approval with an answer: the node runs again from its first line,
\* so the card it saves is stamped with the time of the answer.
Decide(a) ==
  /\ AtNode(a, "human_approval") /\ actor[a].decision # "NONE"
  /\ LET cp == [actor[a].cp EXCEPT !.decision = actor[a].decision, !.cardAt = now] IN
       Advance(a, [cp EXCEPT !.next = RouteAfterApproval(cp)])
  /\ UNCHANGED <<clock, latest, rows, outbox, carded, trades, counters, history>>

\* Mutant: an age of exactly STALE_PROPOSAL_MINUTES still counts as fresh.
StaleVerdictsOneLate(cp, s) ==
  IF cp.cardAt = NoVal \/ now - cp.cardAt <= StaleAge
    THEN {FALSE} ELSE {TRUE, price[s] # cp.order.entry}

\* _proposal_is_stale: the quote may be unavailable, and then an old
\* proposal counts as stale.
StaleVerdicts(cp, s) ==
  IF cp.cardAt = NoVal \/ now - cp.cardAt < StaleAge
    THEN {FALSE} ELSE {TRUE, price[s] # cp.order.entry}

\* _paper_execute, the ways out that open no trade: not approved, stale.
DoNotExecute(a) ==
  /\ AtNode(a, "paper_execute")
  /\ LET cp == actor[a].cp
         approved == cp.decision = "APPROVED" IN
       /\ approved => TRUE \in StaleVerdicts(cp, actor[a].sym)
       /\ Advance(a, [cp EXCEPT
            !.exec = IF approved THEN "REJECTED_STALE" ELSE "NOT_EXECUTED",
            !.decision = IF approved THEN "REJECTED_STALE" ELSE @,
            !.next = "end"])
  /\ UNCHANGED <<clock, latest, rows, outbox, carded, trades, counters, history>>

\* _paper_execute, the INSERT of record_open_trade under a fresh trade id.
OpenTrade(a) ==
  /\ AtNode(a, "paper_execute")
  /\ LET cp == actor[a].cp
         s == actor[a].sym IN
       /\ cp.decision = "APPROVED"
       /\ FALSE \in StaleVerdicts(cp, s)
       /\ trades' = Append(trades, [sym |-> s, day |-> actor[a].day, order |-> cp.order,
                                    shownAt |-> cp.shownAt, decidedAt |-> cp.cardAt,
                                    at |-> now, quote |-> price[s]])
  /\ GoTo(a, "execute")
  /\ UNCHANGED <<clock, thread, latest, rows, outbox, carded, counters, history>>

\* Mutant: the execution is not checkpointed, the thread stays where it was.
FinishExecutionUnsaved(a) ==
  /\ actor[a].pc = "execute"
  /\ Put(a, actor[a].cp, "idle")
  /\ UNCHANGED <<clock, latest, rows, outbox, carded, trades, counters, history>>

\* Mutant: the edge behind paper_execute leads back to it.
FinishExecutionLoops(a) ==
  /\ actor[a].pc = "execute"
  /\ Put(a, [actor[a].cp EXCEPT !.exec = "OPEN_PAPER"], "node")
  /\ UNCHANGED <<clock, latest, rows, outbox, carded, trades, counters, history>>

\* ... and the checkpoint that says it has been done.
FinishExecution(a) ==
  /\ actor[a].pc = "execute"
  /\ Advance(a, [actor[a].cp EXCEPT !.exec = "OPEN_PAPER", !.next = "end"])
  /\ UNCHANGED <<clock, latest, rows, outbox, carded, trades, counters, history>>

-----------------------------------------------------------------------------
(***************************************************************************)
(* After a pause: record_proposal (any exception is swallowed, such as two *)
(* ids of the same second), then the outbox.                               *)
(***************************************************************************)
Propose(a) ==
  /\ actor[a].pc = "propose"
  /\ LET order == actor[a].cp.order IN
       rows' \in {rows, [rows EXCEPT ![order.run] =
                 [sym |-> actor[a].sym, day |-> actor[a].day,
                  entry |-> order.entry, status |-> "PENDING"]]}
  /\ outbox' = outbox \cup {actor[a].sym}
  /\ Become(a, Idle)
  /\ UNCHANGED <<clock, thread, latest, carded, trades, counters, history>>

\* deliver_pending, then or in a later sweep.
Deliver(s) ==
  /\ s \in outbox
  /\ outbox' = outbox \ {s}
  /\ carded' = carded \cup {s}
  /\ UNCHANGED <<clock, thread, latest, rows, trades, actor, counters, history>>

-----------------------------------------------------------------------------
(***************************************************************************)
(* The environment: time passes, prices move, invocations die.             *)
(***************************************************************************)
Tick ==
  /\ now < MaxTime
  /\ now' = now + 1
  /\ today' \in {today, today + 1} \cap Days
  /\ price' \in [Symbols -> Prices]
  /\ UNCHANGED <<thread, latest, rows, outbox, carded, trades, actor, counters, history>>

Abort(a) ==
  /\ actor[a].pc # "idle"
  /\ aborts < MaxAborts
  /\ aborts' = aborts + 1
  /\ disturbed' = IF Loaded(a) THEN disturbed \cup {ThreadOf(a)} ELSE disturbed
  /\ Become(a, Idle)
  /\ UNCHANGED <<clock, thread, latest, rows, outbox, carded, trades, runs, decisions, approvals>>

Call ==
  \/ \E a \in WebActors, r \in RunIds, d \in HumanDecision : WebDecide(a, r, d)
  \/ \E a \in TelegramActors, s \in Symbols, d \in HumanDecision : TelegramTap(a, s, d)
  \/ \E a \in RunActors, s \in Symbols : \E snapshot \in {NoVal, price[s]} :
       StartRun(a, s, snapshot)

\* One step of the code of invocation a.
Step(a) ==
  \/ WebUpdate(a) \/ Resolve(a) \/ RecordThread(a) \/ LoadRun(a) \/ LoadResume(a)
  \/ MathScreener(a) \/ AnalyzeCatalyst(a) \/ CalculateRisk(a) \/ Rejected(a)
  \/ Pause(a) \/ Decide(a) \/ DoNotExecute(a) \/ OpenTrade(a) \/ FinishExecution(a)
  \/ Propose(a)

Next ==
  \/ Call
  \/ \E a \in Actors : Step(a) \/ Abort(a)
  \/ \E s \in Symbols : Deliver(s)
  \/ Tick

Spec == Init /\ [][Next]_vars
\* Nothing blocks an invocation: each is a thread of a running process.
FairSpec == Spec /\ \A a \in Actors : WF_vars(Step(a))

-----------------------------------------------------------------------------
(***************************************************************************)
(* Properties.                                                             *)
(***************************************************************************)

\* Every variable has its type: no None reaches a column or a channel that
\* the code reads as a number, and every status is one the code writes.
TypeOK ==
  /\ now \in 0..MaxTime /\ today \in Days /\ price \in [Symbols -> Prices]
  /\ thread \in [Symbols \X Days -> Checkpoint]
  /\ latest \in [Symbols -> Days \cup {NoVal}]
  /\ rows \in [RunIds -> Row \cup {NoVal}]
  /\ outbox \subseteq Symbols /\ carded \subseteq Symbols
  /\ trades \in Seq(Trade)
  /\ actor \in [Actors -> ActorState]
  /\ runs \in 0..MaxRuns /\ decisions \in 0..MaxDecisions /\ aborts \in 0..MaxAborts
  /\ approvals \subseteq Symbols \X Days \X (RunIds \cup {0})
  /\ disturbed \subseteq Symbols \X Days

\* The audit log holds a trade of a run only if a human's APPROVED answered
\* the pause of that very run: under any overlap of callers, any re-run of
\* the symbol on the same day and any loss of an invocation, paper_execute
\* is never reached on a decision left over in the checkpoint.
FillOf(trade) == RunOf(trade.sym, trade.day, trade.order.run)
TradeNeedsApproval == \A i \in DOMAIN trades : FillOf(trades[i]) \in approvals

\* A thread that waits for a human, and one that is about to execute, holds
\* an order sized by the run that wrote its input, never the order a
\* previous run of the day left in the channel when risk rejected this one.
OrderIsOfThisRun ==
  \A t \in Symbols \X Days :
    thread[t].next \in {"human_approval", "paper_execute"} =>
      /\ thread[t].order # NoVal
      /\ thread[t].order.run = thread[t].run
      /\ thread[t].order.entry = thread[t].close

\* A run's order is filled twice only on a thread where two invocations
\* overlapped or one ended early: resumes that follow each other, however
\* many and from whatever channel, fill it once.
SecondFillNeedsDisturbance ==
  \A i, j \in DOMAIN trades :
    i # j /\ trades[i].order.run = trades[j].order.run
      => <<trades[i].sym, trades[i].day>> \in disturbed

\* On an undisturbed thread nothing is filled whose card was never raised:
\* whatever a decision answers, it answers a pause of the run it fills.
FillFollowsCard ==
  \A i \in DOMAIN trades :
    <<trades[i].sym, trades[i].day>> \in disturbed \/ trades[i].shownAt # NoVal

\* Each approval or rejection submitted, from whatever channel, opens at
\* most one trade: one that runs into a crashed or concurrent execution may
\* repeat that execution's trade, but never opens two.
DecisionsBoundTrades == Len(trades) <= decisions

\* The staleness gate of paper_execute: a fill that comes StaleAge or more
\* after its decision (a crash lay between them) is at the order's price.
LateFillIsAtOrderPrice ==
  \A i \in DOMAIN trades :
    trades[i].at - trades[i].decidedAt >= StaleAge => trades[i].quote = trades[i].order.entry

\* A row of pending_proposals is decided once: of an approval and a
\* rejection that both read PENDING, the later UPDATE changes nothing.
DecidedRowsAreFinal ==
  [][\A r \in RunIds :
       rows[r] # NoVal /\ rows[r].status # "PENDING" => rows'[r] = rows[r]]_vars

\* A decided proposal does not leave its own run waiting for a human: the
\* thread moves on or a newer run takes it over, unless invocations overlap
\* on it (a slow resume can put the pause back) or one of them is lost.
DecidedProposalSettles ==
  \A r \in RunIds :
    (rows[r] # NoVal /\ rows[r].status # "PENDING") ~>
      (/\ rows[r] # NoVal
       /\ LET cp == thread[<<rows[r].sym, rows[r].day>>] IN
            \/ cp.next # "human_approval"
            \/ cp.run # r
            \/ <<rows[r].sym, rows[r].day>> \in disturbed)

\* The pipeline implements ApprovalGate: runs are approved, and a run is
\* filled only after its approval, one fill for a decision, and again only
\* where invocations had overlapped or ended early before; fills are never
\* taken back.
Fills == [i \in DOMAIN trades |-> FillOf(trades[i])]
Gate == INSTANCE ApprovalGate WITH
          Run <- Symbols \X Days \X (RunIds \cup {0}),
          approved <- approvals,
          fills <- Fills,
          decided <- decisions,
          broken <- disturbed
ImplementsApprovalGate == Gate!Spec

-----------------------------------------------------------------------------
(***************************************************************************)
(* The inductive invariant behind the safety properties.                   *)
(***************************************************************************)
Priced == {"analyze_catalyst", "calculate_risk", "human_approval", "paper_execute"}
Ordered == {"human_approval", "paper_execute"}
Unanswered == {"math_screener", "analyze_catalyst", "calculate_risk"}

\* What a checkpoint's pending node may rely on.
SoundCheckpoint(cp) ==
  /\ cp \in Checkpoint
  /\ cp.next # "absent" => cp.run \in RunIds
  /\ cp.next \in Priced => cp.close # NoVal
  /\ cp.next \in Ordered =>
       cp.order # NoVal /\ cp.order.run = cp.run /\ cp.order.entry = cp.close
  /\ cp.next = "paper_execute" => cp.decision = "APPROVED" /\ cp.cardAt # NoVal

\* A checkpoint about to execute was approved for the run it holds.
Approved(s, d, cp) == cp.next = "paper_execute" => RunOf(s, d, cp.run) \in approvals

ThreadsSound ==
  \A s \in Symbols, d \in Days :
    SoundCheckpoint(thread[<<s, d>>]) /\ Approved(s, d, thread[<<s, d>>])

\* What an invocation knows at each point of its code.
ActorSound(a) ==
  LET me == actor[a] IN
  /\ me.pc # "idle" => me.sym # NoVal
  /\ me.pc \notin {"idle", "update", "resolve"} => me.day # NoVal
  /\ me.pc = "update" => me.run # NoVal /\ rows[me.run] # NoVal
  /\ me.pc \in {"update", "resolve"} => me.decision # "NONE"
  /\ me.pc \in {"record", "load"} /\ me.decision = "NONE" => me.run # NoVal
  /\ me.pc = "node" => me.cp.next \in Node
  /\ me.pc = "execute" => me.cp.next = "paper_execute"
  /\ me.pc = "propose" => me.cp.next = "human_approval"
  /\ me.pc \in {"node", "execute", "propose"} =>
       SoundCheckpoint(me.cp) /\ Approved(me.sym, me.day, me.cp)
  /\ me.pc = "node" /\ me.cp.next \in Unanswered => me.decision = "NONE"
  /\ me.pc = "node" /\ me.cp.next = "human_approval" /\ me.decision = "APPROVED" =>
       RunOf(me.sym, me.day, me.cp.run) \in approvals

IInv ==
  /\ TypeOK
  /\ ThreadsSound
  /\ \A a \in Actors : ActorSound(a)
  /\ TradeNeedsApproval

\* A run_symbol call that is under way has no row in pending_proposals yet,
\* shares its number with no other, and only such a call proposes.
Underway(a) == actor[a].pc # "idle"
RunSound(a) ==
  LET me == actor[a] IN
  /\ me.run \in 1..runs /\ me.decision = "NONE" /\ rows[me.run] = NoVal
  /\ Loaded(a) \/ me.pc = "propose" => me.cp.run = me.run
LedgerInv ==
  /\ \A r \in RunIds : rows[r] # NoVal => r <= runs
  /\ \A a \in Actors : actor[a].pc = "propose" => a \in RunActors
  /\ \A a \in RunActors : Underway(a) => RunSound(a)
  /\ \A a, b \in RunActors :
       a # b /\ Underway(a) /\ Underway(b) => actor[a].run # actor[b].run

\* On an undisturbed thread one invocation works at a time, on the thread's
\* own newest checkpoint.
AloneInv ==
  \A a \in Actors :
    Loaded(a) /\ ThreadOf(a) \notin disturbed =>
      actor[a].cp = thread[ThreadOf(a)] /\ ~Overlaps(a)

\* There, a pause is answered after its card was raised: until then the
\* invocation that reached the pause is still the one at work.
CardInv ==
  /\ FillFollowsCard
  /\ \A t \in (Symbols \X Days) \ disturbed :
       /\ thread[t].next = "paper_execute" => thread[t].shownAt # NoVal
       /\ thread[t].next = "human_approval" /\ thread[t].shownAt = NoVal =>
            \E a \in Actors : Loaded(a) /\ ThreadOf(a) = t /\ actor[a].decision = "NONE"

\* A run number lives on one thread: in its checkpoint, in the memory of the
\* invocations that loaded it, in the trades they opened.  A run_symbol call
\* that has not written its input yet has a number nobody else holds.
ThreadOfTrade(trade) == <<trade.sym, trade.day>>
HeldAt(r, t) ==
  \/ thread[t].run = r
  \/ \E a \in Actors : Loaded(a) /\ ThreadOf(a) = t /\ actor[a].cp.run = r
  \/ \E i \in DOMAIN trades : ThreadOfTrade(trades[i]) = t /\ trades[i].order.run = r
Waiting(a) == actor[a].pc \in {"record", "load"} /\ actor[a].decision = "NONE"
HomeInv ==
  /\ \A r \in RunIds : \A t, u \in Symbols \X Days : HeldAt(r, t) /\ HeldAt(r, u) => t = u
  /\ \A r \in RunIds : \A t \in Symbols \X Days : HeldAt(r, t) => r <= runs
  /\ \A a \in Actors : Waiting(a) =>
       a \in RunActors /\ \A t \in Symbols \X Days : ~HeldAt(actor[a].run, t)

\* Once the run an undisturbed thread is at has been filled, the thread has
\* finished, or the invocation that filled it is about to say so.
Finishing(t) == \E a \in Actors : actor[a].pc = "execute" /\ ThreadOf(a) = t
OnceInv ==
  /\ SecondFillNeedsDisturbance
  /\ \A i \in DOMAIN trades :
       LET t == ThreadOfTrade(trades[i]) IN
       t \notin disturbed /\ thread[t].run = trades[i].order.run =>
         thread[t].next = "end" \/ Finishing(t)

\* A decision is worth one trade, until its invocation ends or spends it;
\* an invocation of run_symbol never executes.
Armed == {a \in Actors \ RunActors : actor[a].pc \notin {"idle", "execute", "propose"}}
BudgetInv ==
  /\ IsFiniteSet(Armed)
  /\ Len(trades) + Cardinality(Armed) <= decisions
  /\ \A a \in RunActors : Loaded(a) => actor[a].cp.next # "paper_execute"

-----------------------------------------------------------------------------
(***************************************************************************)
(* What the documentation says and the code does not keep.                 *)
(***************************************************************************)

\* README.md: "Stale proposals (old + price has moved) are rejected on
\* resume instead of executed at outdated levels."
StaleProposalIsNotExecuted ==
  \A i \in DOMAIN trades :
    trades[i].shownAt # NoVal /\ trades[i].at - trades[i].shownAt >= StaleAge
      => trades[i].quote = trades[i].order.entry

\* proposals.approve_proposal: "Atomically approve a proposal and resume
\* execution": an approved run is filled once.
ApprovedRunFillsOnce ==
  \A i, j \in DOMAIN trades : i # j => trades[i].order.run # trades[j].order.run

=============================================================================
