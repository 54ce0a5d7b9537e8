------------------------- MODULE TradingGraphProofs -------------------------
(***************************************************************************)
(* Proofs about TradingGraph for every number of symbols, callers, runs    *)
(* and days: the inductive invariant IInv, and from it the types, the      *)
(* approval behind every trade and the order of every thread; and the      *)
(* invariant of the ledger of proposals.                                   *)
(***************************************************************************)
EXTENDS TradingGraph, TLAPS

(***************************************************************************)
(* Writing a checkpoint.  Every node ends in Put; a node keeps IInv if the *)
(* checkpoint it writes is sound and approved where it needs to be.        *)
(***************************************************************************)
LEMMA PutKeepsIInv ==
  ASSUME IInv, NEW a \in Actors, NEW cp, NEW label \in {"idle", "node", "propose"},
         actor[a].pc \in {"node", "execute"},
         SoundCheckpoint(cp), Approved(actor[a].sym, actor[a].day, cp),
         label = "node" => /\ cp.next \in Node
                           /\ cp.next \in Unanswered \cup {"human_approval"}
                                => actor[a].decision = "NONE",
         label = "propose" => cp.next = "human_approval",
         Put(a, cp, label),
         UNCHANGED <<clock, latest, rows, outbox, carded, trades, counters, history>>
  PROVE  IInv'
<1>. USE DEF history, counters, clock
<1>1. /\ actor[a].sym \in Symbols /\ actor[a].day \in Days
      /\ ThreadOf(a) \in Symbols \X Days
      /\ cp \in Checkpoint
  BY NoValAssumption DEF IInv, TypeOK, ActorSound, ActorState, ThreadOf, SoundCheckpoint
<1>2. TypeOK'
  <2>1. thread' \in [Symbols \X Days -> Checkpoint]
    BY <1>1 DEF IInv, TypeOK, Put
  <2>2. actor' \in [Actors -> ActorState]
    <3>1. Idle \in ActorState
      BY DEF Idle, ActorState, NoCheckpoint, Checkpoint, Pc, HumanDecision, Next_, Node,
             Decision, Reason, Exec
    <3>2. [actor[a] EXCEPT !.pc = label, !.cp = cp] \in ActorState
      BY <1>1 DEF IInv, TypeOK, ActorState, Pc
    <3>. QED  BY <3>1, <3>2 DEF IInv, TypeOK, Put
  <2>. QED  BY <2>1, <2>2 DEF IInv, TypeOK
<1>3. ThreadsSound'
  <2>. SUFFICES ASSUME NEW s \in Symbols, NEW d \in Days
                PROVE  /\ SoundCheckpoint(thread'[<<s, d>>])
                       /\ Approved(s, d, thread'[<<s, d>>])
    BY DEF ThreadsSound, Approved, RunOf
  <2>1. CASE <<s, d>> = ThreadOf(a)
    <3>1. thread'[<<s, d>>] = cp
      BY <2>1, <1>1 DEF Put, IInv, TypeOK
    <3>2. s = actor[a].sym /\ d = actor[a].day
      BY <2>1 DEF ThreadOf
    <3>. QED  BY <3>1, <3>2
  <2>2. CASE <<s, d>> # ThreadOf(a)
    <3>1. thread'[<<s, d>>] = thread[<<s, d>>]
      BY <2>2, <1>1 DEF Put, IInv, TypeOK
    <3>. QED  BY <3>1 DEF IInv, ThreadsSound
  <2>. QED  BY <2>1, <2>2
<1>4. ASSUME NEW b \in Actors PROVE ActorSound(b)'
  <2>1. CASE b # a
    <3>1. actor'[b] = actor[b]
      BY <2>1 DEF Put, IInv, TypeOK
    <3>. QED  BY <3>1 DEF IInv, ActorSound, Approved, RunOf
  <2>2. CASE b = a /\ label = "idle"
    <3>1. actor'[b] = Idle
      BY <2>2 DEF Put, IInv, TypeOK
    <3>. QED  BY <3>1 DEF ActorSound, Idle
  <2>3. CASE b = a /\ label # "idle"
    <3>1. actor'[b] = [actor[a] EXCEPT !.pc = label, !.cp = cp]
      BY <2>3 DEF Put, IInv, TypeOK
    <3>2. /\ actor'[b].pc = label /\ actor'[b].cp = cp
          /\ actor'[b].sym = actor[a].sym /\ actor'[b].day = actor[a].day
          /\ actor'[b].run = actor[a].run /\ actor'[b].decision = actor[a].decision
      BY <3>1 DEF IInv, TypeOK, ActorState
    <3>. QED  BY <3>2, <1>1, NoValAssumption
              DEF ActorSound, Approved, RunOf, Node, Unanswered, IInv, TypeOK, Days
  <2>. QED  BY <2>1, <2>2, <2>3
<1>5. TradeNeedsApproval'
  BY DEF IInv, TradeNeedsApproval, FillOf, RunOf
<1>. QED  BY <1>2, <1>3, <1>4, <1>5 DEF IInv

(***************************************************************************)
(* What an invocation that is running a node holds.                        *)
(***************************************************************************)
LEMMA AtNodeIsSound ==
  ASSUME IInv, NEW a \in Actors, actor[a].pc \in {"node", "execute", "propose"}
  PROVE  /\ actor[a].sym \in Symbols /\ actor[a].day \in Days
         /\ SoundCheckpoint(actor[a].cp)
         /\ Approved(actor[a].sym, actor[a].day, actor[a].cp)
         /\ actor[a].cp \in Checkpoint
BY NoValAssumption DEF IInv, TypeOK, ActorSound, ActorState, SoundCheckpoint

(***************************************************************************)
(* The nodes, one by one.                                                  *)
(***************************************************************************)
LEMMA ScreenerKeepsIInv ==
  ASSUME IInv, NEW a \in Actors, MathScreener(a)
  PROVE  IInv'
<1>1. PICK cp0 \in Screened(actor[a].cp, actor[a].sym) :
        Advance(a, [cp0 EXCEPT !.next = RouteAfterScreener(cp0)])
  BY DEF MathScreener
<1> DEFINE cp == [cp0 EXCEPT !.next = RouteAfterScreener(cp0)]
<1>2. /\ actor[a].pc = "node" /\ actor[a].cp.next = "math_screener"
      /\ actor[a].decision = "NONE"
  BY DEF MathScreener, AtNode, IInv, ActorSound, Unanswered
<1>3. price[actor[a].sym] \in Prices
  BY <1>2, AtNodeIsSound DEF IInv, TypeOK
<1>4. /\ cp0 \in Checkpoint /\ cp0.run \in RunIds
      /\ cp0.close = NoVal => cp0.decision = "NO_SETUP"
  <2>1. actor[a].cp \in Checkpoint /\ actor[a].cp.run \in RunIds
    BY <1>2, AtNodeIsSound DEF SoundCheckpoint
  <2>2. CASE actor[a].cp.close # NoVal
    BY <1>1, <2>1, <2>2 DEF Screened
  <2>3. CASE cp0 = [actor[a].cp EXCEPT !.decision = "NO_SETUP"]
    BY <2>1, <2>3 DEF Checkpoint, Decision
  <2>4. CASE cp0 = [actor[a].cp EXCEPT !.close = price[actor[a].sym]]
    BY <2>1, <2>4, <1>3, NoValAssumption DEF Checkpoint
  <2>. QED  BY <1>1, <2>2, <2>3, <2>4 DEF Screened
<1>5. SoundCheckpoint(cp)
  BY <1>4 DEF SoundCheckpoint, RouteAfterScreener, Checkpoint, Next_, Node, Priced, Ordered
<1>6. cp.next \in {"analyze_catalyst", "end"}
  BY <1>4 DEF RouteAfterScreener, Checkpoint
<1>. QED
  BY <1>1, <1>2, <1>5, <1>6, PutKeepsIInv
  DEF MathScreener, Advance, Approved, Unanswered, Node

LEMMA AnalystKeepsIInv ==
  ASSUME IInv, NEW a \in Actors, AnalyzeCatalyst(a)
  PROVE  IInv'
<1>1. PICK v \in Verdicts :
        LET cp == [actor[a].cp EXCEPT !.verdict = v] IN
        Advance(a, [cp EXCEPT !.next = RouteAfterAnalyst(cp)])
  BY DEF AnalyzeCatalyst
<1> DEFINE cp0 == [actor[a].cp EXCEPT !.verdict = v]
           cp == [cp0 EXCEPT !.next = RouteAfterAnalyst(cp0)]
<1>2. /\ actor[a].pc = "node" /\ actor[a].cp.next = "analyze_catalyst"
      /\ actor[a].decision = "NONE"
  BY DEF AnalyzeCatalyst, AtNode, IInv, ActorSound, Unanswered
<1>3. /\ cp0 \in Checkpoint /\ cp0.run \in RunIds /\ cp0.close # NoVal
  BY <1>2, AtNodeIsSound, DataAssumption
  DEF Checkpoint, SoundCheckpoint, Priced
<1>4. cp.next \in {"calculate_risk", "rejected"} /\ cp = [cp0 EXCEPT !.next = cp.next]
  BY <1>3 DEF RouteAfterAnalyst, Checkpoint
<1>5. SoundCheckpoint(cp)
  BY <1>3, <1>4 DEF SoundCheckpoint, Checkpoint, Next_, Node, Priced, Ordered
<1>. QED
  BY <1>1, <1>2, <1>4, <1>5, PutKeepsIInv
  DEF AnalyzeCatalyst, Advance, Approved, Unanswered, Node

LEMMA RiskKeepsIInv ==
  ASSUME IInv, NEW a \in Actors, CalculateRisk(a)
  PROVE  IInv'
<1>1. PICK outcome \in RiskOutcomes :
        LET cp == Sized(actor[a].cp, outcome) IN
        Advance(a, [cp EXCEPT !.next = RouteAfterRisk(cp)])
  BY DEF CalculateRisk
<1> DEFINE cp0 == Sized(actor[a].cp, outcome)
           cp == [cp0 EXCEPT !.next = RouteAfterRisk(cp0)]
<1>2. /\ actor[a].pc = "node" /\ actor[a].cp.next = "calculate_risk"
      /\ actor[a].decision = "NONE"
  BY DEF CalculateRisk, AtNode, IInv, ActorSound, Unanswered
<1>3. /\ actor[a].cp \in Checkpoint /\ actor[a].cp.run \in RunIds
      /\ actor[a].cp.close \in Prices
  BY <1>2, AtNodeIsSound DEF Checkpoint, SoundCheckpoint, Priced
<1>4. /\ cp0 \in Checkpoint /\ cp0.run \in RunIds /\ cp0.close \in Prices
      /\ \/ cp0.decision \in {"REJECTED_RISK", "BLACKOUT"}
         \/ cp0.order = [run |-> cp0.run, entry |-> cp0.close]
  <2>1. CASE outcome = "BLACKOUT"
    BY <2>1, <1>3 DEF Sized, Checkpoint, Decision
  <2>2. CASE outcome \in {"SECTOR", "SIZE"}
    BY <2>2, <1>3 DEF Sized, Checkpoint, Decision, Reason
  <2>3. CASE outcome = "OK"
    BY <2>3, <1>3 DEF Sized, Checkpoint, Order
  <2>. QED  BY <2>1, <2>2, <2>3, DataAssumption DEF AllRiskOutcomes
<1>5. cp.next \in {"human_approval", "rejected"} /\ cp = [cp0 EXCEPT !.next = cp.next]
      /\ (cp.next = "human_approval" => cp0.order = [run |-> cp0.run, entry |-> cp0.close])
  <2>. HIDE DEF cp0
  <2>. QED  BY <1>4 DEF RouteAfterRisk, Checkpoint
<1>6. SoundCheckpoint(cp)
  <2>1. [run |-> cp0.run, entry |-> cp0.close] # NoVal \/ cp.next = "rejected"
    BY <1>4, <1>5, NoValAssumption, BoundsAssumption DEF RunIds
  <2>. HIDE DEF cp0
  <2>. QED  BY <1>4, <1>5, <2>1, NoValAssumption
            DEF SoundCheckpoint, Checkpoint, Next_, Node, Priced, Ordered
<1>. QED
  BY <1>1, <1>2, <1>5, <1>6, PutKeepsIInv
  DEF CalculateRisk, Advance, Approved, Unanswered, Node

LEMMA NowIsNat ==
  ASSUME IInv
  PROVE  now \in Nat
BY BoundsAssumption DEF IInv, TypeOK

LEMMA RejectedKeepsIInv ==
  ASSUME IInv, NEW a \in Actors, Rejected(a)
  PROVE  IInv'
<1> DEFINE cp == [actor[a].cp EXCEPT !.reason = RejectionReason(actor[a].cp),
                                     !.exec = "REJECTED", !.next = "end"]
<1>1. actor[a].pc = "node" /\ actor[a].cp.next = "rejected"
  BY DEF Rejected, AtNode
<1>2. actor[a].cp \in Checkpoint /\ actor[a].cp.run \in RunIds
  BY <1>1, AtNodeIsSound DEF SoundCheckpoint
<1>3. RejectionReason(actor[a].cp) \in Reason
  BY <1>2 DEF RejectionReason, Checkpoint, Reason
<1>4. cp \in Checkpoint /\ cp.next = "end" /\ cp.run \in RunIds
  BY <1>2, <1>3 DEF Checkpoint, Next_, Exec
<1>5. SoundCheckpoint(cp)
  BY <1>4 DEF SoundCheckpoint, Priced, Ordered
<1>. QED
  BY <1>1, <1>4, <1>5, PutKeepsIInv DEF Rejected, Advance, Approved

LEMMA PauseKeepsIInv ==
  ASSUME IInv, NEW a \in Actors, Pause(a)
  PROVE  IInv'
<1> DEFINE cp == [actor[a].cp EXCEPT !.shownAt = now]
<1>1. /\ actor[a].pc = "node" /\ actor[a].cp.next = "human_approval"
      /\ actor[a].decision = "NONE"
  BY DEF Pause, AtNode
<1>2. SoundCheckpoint(actor[a].cp)
  BY <1>1, AtNodeIsSound
<1>3. /\ cp \in Checkpoint /\ cp.next = "human_approval"
      /\ cp.run = actor[a].cp.run /\ cp.close = actor[a].cp.close
      /\ cp.order = actor[a].cp.order
  BY <1>1, <1>2, NowIsNat DEF SoundCheckpoint, Checkpoint
<1>4. SoundCheckpoint(cp)
  BY <1>1, <1>2, <1>3 DEF SoundCheckpoint
<1>. QED
  BY <1>1, <1>3, <1>4, PutKeepsIInv DEF Pause, Approved, Node

LEMMA DecideKeepsIInv ==
  ASSUME IInv, NEW a \in Actors, Decide(a)
  PROVE  IInv'
<1> DEFINE cp0 == [actor[a].cp EXCEPT !.decision = actor[a].decision, !.cardAt = now]
           cp == [cp0 EXCEPT !.next = RouteAfterApproval(cp0)]
<1>1. /\ actor[a].pc = "node" /\ actor[a].cp.next = "human_approval"
      /\ actor[a].decision \in HumanDecision
  BY DEF Decide, AtNode, IInv, TypeOK, ActorState
<1>2. SoundCheckpoint(actor[a].cp)
  BY <1>1, AtNodeIsSound
<1>3. /\ cp0 \in Checkpoint /\ cp0.decision = actor[a].decision /\ cp0.cardAt = now
      /\ cp0.run = actor[a].cp.run /\ cp0.close = actor[a].cp.close
      /\ cp0.order = actor[a].cp.order
  BY <1>1, <1>2, NowIsNat DEF SoundCheckpoint, Checkpoint, HumanDecision, Decision
<1>4. /\ cp.next \in {"paper_execute", "rejected"}
      /\ cp.next = "paper_execute" => cp0.decision = "APPROVED"
      /\ cp = [cp0 EXCEPT !.next = cp.next]
  <2>. HIDE DEF cp0
  <2>. QED  BY <1>3 DEF RouteAfterApproval, Checkpoint
<1>5. SoundCheckpoint(cp)
  <2>1. now # NoVal
    BY NowIsNat, NoValAssumption
  <2>2. /\ actor[a].cp.run \in RunIds /\ actor[a].cp.close # NoVal
        /\ actor[a].cp.order # NoVal /\ actor[a].cp.order.run = actor[a].cp.run
        /\ actor[a].cp.order.entry = actor[a].cp.close
    BY <1>1, <1>2 DEF SoundCheckpoint, Priced, Ordered
  <2>. HIDE DEF cp0
  <2>. QED  BY <1>3, <1>4, <2>1, <2>2
            DEF SoundCheckpoint, Checkpoint, Next_, Node, Priced, Ordered
<1>6. Approved(actor[a].sym, actor[a].day, cp)
  BY <1>1, <1>3, <1>4 DEF Approved, IInv, ActorSound, Checkpoint
<1>. QED
  BY <1>1, <1>4, <1>5, <1>6, PutKeepsIInv
  DEF Decide, Advance, Unanswered, Node

LEMMA DoNotExecuteKeepsIInv ==
  ASSUME IInv, NEW a \in Actors, DoNotExecute(a)
  PROVE  IInv'
<1> DEFINE approved == actor[a].cp.decision = "APPROVED"
           cp == [actor[a].cp EXCEPT
                    !.exec = IF approved THEN "REJECTED_STALE" ELSE "NOT_EXECUTED",
                    !.decision = IF approved THEN "REJECTED_STALE" ELSE @,
                    !.next = "end"]
<1>1. actor[a].pc = "node" /\ actor[a].cp.next = "paper_execute"
  BY DEF DoNotExecute, AtNode
<1>2. actor[a].cp \in Checkpoint /\ actor[a].cp.run \in RunIds
  BY <1>1, AtNodeIsSound DEF SoundCheckpoint
<1>3. cp \in Checkpoint /\ cp.next = "end" /\ cp.run \in RunIds
  <2>1. CASE approved
    BY <1>2, <2>1 DEF Checkpoint, Next_, Exec, Decision
  <2>2. CASE ~approved
    BY <1>2, <2>2 DEF Checkpoint, Next_, Exec
  <2>. QED  BY <2>1, <2>2
<1>4. SoundCheckpoint(cp)
  BY <1>3 DEF SoundCheckpoint, Priced, Ordered
<1>. QED
  BY <1>1, <1>3, <1>4, PutKeepsIInv DEF DoNotExecute, Advance, Approved

LEMMA FinishKeepsIInv ==
  ASSUME IInv, NEW a \in Actors, FinishExecution(a)
  PROVE  IInv'
<1> DEFINE cp == [actor[a].cp EXCEPT !.exec = "OPEN_PAPER", !.next = "end"]
<1>1. actor[a].pc = "execute" /\ actor[a].cp.next = "paper_execute"
  BY DEF FinishExecution, IInv, ActorSound
<1>2. actor[a].cp \in Checkpoint /\ actor[a].cp.run \in RunIds
  BY <1>1, AtNodeIsSound DEF SoundCheckpoint
<1>3. cp \in Checkpoint /\ cp.next = "end" /\ cp.run \in RunIds
  BY <1>2 DEF Checkpoint, Next_, Exec
<1>4. SoundCheckpoint(cp)
  BY <1>3 DEF SoundCheckpoint, Priced, Ordered
<1>. QED
  BY <1>1, <1>3, <1>4, PutKeepsIInv DEF FinishExecution, Advance, Approved

(***************************************************************************)
(* Steps that move one invocation and leave every checkpoint alone.        *)
(***************************************************************************)
LEMMA MoveKeepsIInv ==
  ASSUME IInv, NEW a \in Actors, NEW me \in ActorState,
         actor' = [actor EXCEPT ![a] = me],
         UNCHANGED <<now, today, price, thread, trades>>,
         approvals \subseteq approvals',
         \A r \in RunIds : rows[r] # NoVal => rows'[r] # NoVal,
         ActorSound(a)',
         TypeOK'
  PROVE  IInv'
<1>1. ThreadsSound'
  BY DEF IInv, ThreadsSound, Approved
<1>2. ASSUME NEW b \in Actors PROVE ActorSound(b)'
  <2>1. CASE b = a
    BY <2>1
  <2>2. CASE b # a
    <3>1. actor'[b] = actor[b] /\ ActorSound(b) /\ actor[b] \in ActorState
      BY <2>2 DEF IInv, TypeOK
    <3>2. actor[b].pc = "update" => rows'[actor[b].run] # NoVal
      BY <3>1 DEF ActorSound, ActorState
    <3>. QED  BY <3>1, <3>2 DEF ActorSound, Approved
  <2>. QED  BY <2>1, <2>2
<1>3. TradeNeedsApproval'
  BY DEF IInv, TradeNeedsApproval
<1>. QED  BY <1>1, <1>2, <1>3 DEF IInv

LEMMA IdleIsSound ==
  /\ Idle \in ActorState
  /\ NoCheckpoint \in Checkpoint
BY DEF Idle, ActorState, NoCheckpoint, Checkpoint, Pc, HumanDecision, Next_, Node,
       Decision, Reason, Exec

LEMMA RowIsNotNone ==
  ASSUME NEW row \in Row
  PROVE  row # NoVal
BY NoValAssumption, BoundsAssumption DEF Row, Days

LEMMA WebDecideKeepsIInv ==
  ASSUME IInv, NEW a \in WebActors, NEW r \in RunIds, NEW d \in HumanDecision,
         WebDecide(a, r, d)
  PROVE  IInv'
<1> DEFINE me == [Idle EXCEPT !.pc = "update", !.sym = rows[r].sym, !.run = r, !.decision = d]
<1>1. a \in Actors /\ rows[r] \in Row /\ rows[r].sym \in Symbols
  BY DEF Actors, WebDecide, IInv, TypeOK, Row
<1>2. me \in ActorState
  BY <1>1, IdleIsSound DEF ActorState, Idle, Pc
<1>3. actor' = [actor EXCEPT ![a] = me]
  BY DEF WebDecide, Become
<1>4. TypeOK'
  <2>1. actor' \in [Actors -> ActorState]
    BY <1>1, <1>2, <1>3 DEF IInv, TypeOK
  <2>2. decisions' \in 0..MaxDecisions
    BY BoundsAssumption DEF WebDecide, IInv, TypeOK
  <2>. QED  BY <2>1, <2>2 DEF WebDecide, IInv, TypeOK, clock, history
<1>5. actor'[a] = me
  BY <1>1, <1>3 DEF IInv, TypeOK
<1>6. ActorSound(a)'
  <2>1. /\ me.pc = "update" /\ me.sym = rows[r].sym /\ me.run = r /\ me.decision = d
    BY DEF Idle
  <2>. QED  BY <1>1, <1>5, <2>1, NoValAssumption, BoundsAssumption
            DEF ActorSound, WebDecide, HumanDecision, RunIds
<1>. QED
  BY <1>1, <1>2, <1>3, <1>4, <1>6, MoveKeepsIInv DEF WebDecide, clock, history

LEMMA TelegramTapKeepsIInv ==
  ASSUME IInv, NEW a \in TelegramActors, NEW s \in Symbols, NEW d \in HumanDecision,
         TelegramTap(a, s, d)
  PROVE  IInv'
<1> DEFINE me == [Idle EXCEPT !.pc = "resolve", !.sym = s, !.decision = d]
<1>1. a \in Actors
  BY DEF Actors
<1>2. me \in ActorState
  BY IdleIsSound DEF ActorState, Idle, Pc
<1>3. actor' = [actor EXCEPT ![a] = me]
  BY DEF TelegramTap, Become
<1>4. TypeOK'
  <2>1. actor' \in [Actors -> ActorState]
    BY <1>1, <1>2, <1>3 DEF IInv, TypeOK
  <2>2. decisions' \in 0..MaxDecisions
    BY BoundsAssumption DEF TelegramTap, IInv, TypeOK
  <2>. QED  BY <2>1, <2>2 DEF TelegramTap, IInv, TypeOK, clock, history
<1>5. actor'[a] = me
  BY <1>1, <1>3 DEF IInv, TypeOK
<1>6. ActorSound(a)'
  <2>1. me.pc = "resolve" /\ me.sym = s /\ me.decision = d
    BY DEF Idle
  <2>. QED  BY <1>5, <2>1, NoValAssumption DEF ActorSound, HumanDecision
<1>. QED
  BY <1>1, <1>2, <1>3, <1>4, <1>6, MoveKeepsIInv DEF TelegramTap, clock, history

LEMMA StartRunKeepsIInv ==
  ASSUME IInv, NEW a \in RunActors, NEW s \in Symbols, NEW snapshot \in {NoVal, price[s]},
         StartRun(a, s, snapshot)
  PROVE  IInv'
<1> DEFINE me == [Idle EXCEPT !.pc = "record", !.sym = s, !.day = today,
                              !.run = runs + 1, !.snapshot = snapshot]
<1>1. /\ a \in Actors /\ today \in Days /\ runs + 1 \in RunIds
      /\ snapshot \in Prices \cup {NoVal}
  BY BoundsAssumption DEF Actors, StartRun, IInv, TypeOK, RunIds
<1>2. me \in ActorState
  BY <1>1, IdleIsSound DEF ActorState, Idle, Pc
<1>3. actor' = [actor EXCEPT ![a] = me]
  BY DEF StartRun, Become
<1>4. TypeOK'
  <2>1. actor' \in [Actors -> ActorState]
    BY <1>1, <1>2, <1>3 DEF IInv, TypeOK
  <2>2. runs' \in 0..MaxRuns
    BY BoundsAssumption DEF StartRun, IInv, TypeOK
  <2>. QED  BY <2>1, <2>2 DEF StartRun, IInv, TypeOK, clock, history
<1>5. actor'[a] = me
  BY <1>1, <1>3 DEF IInv, TypeOK
<1>6. ActorSound(a)'
  <2>1. me.pc = "record" /\ me.sym = s /\ me.day = today /\ me.run = runs + 1
    BY DEF Idle
  <2>2. s # NoVal /\ today # NoVal /\ runs + 1 # NoVal
    BY <1>1, NoValAssumption, BoundsAssumption DEF Days, RunIds
  <2>. QED  BY <1>5, <2>1, <2>2 DEF ActorSound
<1>. QED
  BY <1>1, <1>2, <1>3, <1>4, <1>6, MoveKeepsIInv DEF StartRun, clock, history

LEMMA WebUpdateKeepsIInv ==
  ASSUME IInv, NEW a \in Actors, WebUpdate(a)
  PROVE  IInv'
<1> DEFINE me == [actor[a] EXCEPT !.pc = "resolve"]
           r == actor[a].run
<1>1. /\ actor[a] \in ActorState /\ actor[a].pc = "update" /\ ActorSound(a)
  BY DEF WebUpdate, IInv, TypeOK
<1>2. me \in ActorState
  BY <1>1 DEF ActorState, Pc
<1>3. actor' = [actor EXCEPT ![a] = me]
  BY <1>1 DEF WebUpdate, GoTo
<1>4. /\ r \in RunIds /\ rows[r] \in Row /\ actor[a].decision \in HumanDecision
  BY <1>1 DEF ActorSound, ActorState, IInv, TypeOK
<1>5. /\ rows' \in [RunIds -> Row \cup {NoVal}]
      /\ \A q \in RunIds : rows[q] # NoVal => rows'[q] # NoVal
  <2>1. CASE rows[r].status = "PENDING"
    <3>1. rows' = [rows EXCEPT ![r].status = actor[a].decision]
      BY <2>1 DEF WebUpdate
    <3>2. [rows[r] EXCEPT !.status = actor[a].decision] \in Row
      BY <1>4 DEF Row, HumanDecision
    <3>3. [rows[r] EXCEPT !.status = actor[a].decision] # NoVal
      BY <3>2, RowIsNotNone
    <3>. QED  BY <1>4, <3>1, <3>2, <3>3 DEF IInv, TypeOK
  <2>2. CASE rows[r].status # "PENDING"
    BY <2>2 DEF WebUpdate, IInv, TypeOK
  <2>. QED  BY <2>1, <2>2
<1>6. TypeOK'
  <2>1. actor' \in [Actors -> ActorState]
    BY <1>2, <1>3 DEF IInv, TypeOK
  <2>. QED  BY <2>1, <1>5 DEF WebUpdate, IInv, TypeOK, clock, history, counters
<1>7. ActorSound(a)'
  <2>1. actor'[a] = me
    BY <1>3 DEF IInv, TypeOK
  <2>2. /\ me.pc = "resolve" /\ me.sym = actor[a].sym /\ me.decision = actor[a].decision
    BY <1>1 DEF ActorState
  <2>. QED  BY <1>1, <1>4, <2>1, <2>2 DEF ActorSound, HumanDecision
<1>. QED
  BY <1>2, <1>3, <1>5, <1>6, <1>7, MoveKeepsIInv DEF WebUpdate, clock, history

LEMMA ResolveKeepsIInv ==
  ASSUME IInv, NEW a \in Actors, Resolve(a)
  PROVE  IInv'
<1>1. actor[a] \in ActorState /\ actor[a].pc = "resolve" /\ ActorSound(a)
  BY DEF Resolve, IInv, TypeOK
<1>2a. PICK day \in {LatestThread(actor[a].sym), today} :
        actor' = [actor EXCEPT ![a].pc = "record", ![a].day = day]
  BY DEF Resolve
<1> DEFINE me == [actor[a] EXCEPT !.pc = "record", !.day = day]
<1>2. actor[a].sym \in Symbols /\ day \in Days
  BY <1>1 DEF ActorSound, ActorState, LatestThread, IInv, TypeOK
<1>3. me \in ActorState
  BY <1>1, <1>2 DEF ActorState, Pc
<1>4. actor' = [actor EXCEPT ![a] = me]
  BY <1>1, <1>2a DEF IInv, TypeOK
<1>5. TypeOK'
  BY <1>3, <1>4 DEF Resolve, IInv, TypeOK, clock, history, counters
<1>6. ActorSound(a)'
  <2>1. actor'[a] = me
    BY <1>4 DEF IInv, TypeOK
  <2>2. /\ me.pc = "record" /\ me.sym = actor[a].sym /\ me.day = day
        /\ me.decision = actor[a].decision
    BY <1>1 DEF ActorState
  <2>3. day # NoVal
    BY <1>2, NoValAssumption, BoundsAssumption DEF Days
  <2>. QED  BY <1>1, <2>1, <2>2, <2>3 DEF ActorSound
<1>. QED
  BY <1>3, <1>4, <1>5, <1>6, MoveKeepsIInv DEF Resolve, clock, history

LEMMA RecordThreadKeepsIInv ==
  ASSUME IInv, NEW a \in Actors, RecordThread(a)
  PROVE  IInv'
<1> DEFINE me == [actor[a] EXCEPT !.pc = "load"]
<1>1. actor[a] \in ActorState /\ actor[a].pc = "record" /\ ActorSound(a)
  BY DEF RecordThread, IInv, TypeOK
<1>2. me \in ActorState /\ actor[a].day \in Days
  BY <1>1 DEF ActorState, ActorSound, Pc
<1>3. actor' = [actor EXCEPT ![a] = me]
  BY <1>1 DEF RecordThread, GoTo
<1>4. TypeOK'
  BY <1>2, <1>3 DEF RecordThread, IInv, TypeOK, clock, history, counters
<1>5. ActorSound(a)'
  <2>1. actor'[a] = me
    BY <1>3 DEF IInv, TypeOK
  <2>2. /\ me.pc = "load" /\ me.sym = actor[a].sym /\ me.day = actor[a].day
        /\ me.decision = actor[a].decision /\ me.run = actor[a].run
    BY <1>1 DEF ActorState
  <2>. QED  BY <1>1, <2>1, <2>2 DEF ActorSound
<1>. QED
  BY <1>2, <1>3, <1>4, <1>5, MoveKeepsIInv DEF RecordThread, clock, history

LEMMA LoadRunKeepsIInv ==
  ASSUME IInv, NEW a \in Actors, LoadRun(a)
  PROVE  IInv'
<1> DEFINE cp == WithInput(thread[ThreadOf(a)], actor[a].run, actor[a].snapshot)
           me == [actor[a] EXCEPT !.pc = "node", !.cp = cp]
<1>1. /\ actor[a] \in ActorState /\ actor[a].pc = "load" /\ actor[a].decision = "NONE"
      /\ ActorSound(a)
  BY DEF LoadRun, IInv, TypeOK
<1>2. /\ actor[a].sym \in Symbols /\ actor[a].day \in Days /\ actor[a].run \in RunIds
      /\ ThreadOf(a) \in Symbols \X Days
  BY <1>1 DEF ActorSound, ActorState, ThreadOf
<1>3. /\ cp \in Checkpoint /\ cp.next = "math_screener" /\ cp.run = actor[a].run
  <2>1. thread[ThreadOf(a)] \in Checkpoint
    BY <1>2 DEF IInv, TypeOK
  <2>2. actor[a].snapshot \in Prices \cup {NoVal}
    BY <1>1 DEF ActorState
  <2> DEFINE old == thread[ThreadOf(a)]
             close == IF actor[a].snapshot = NoVal THEN old.close ELSE actor[a].snapshot
             scan == actor[a].snapshot # NoVal
  <2>3. close \in Prices \cup {NoVal} /\ scan \in BOOLEAN
    BY <2>1, <2>2 DEF Checkpoint
  <2>4. cp = [old EXCEPT !.next = "math_screener", !.run = actor[a].run, !.scan = scan,
                         !.close = close, !.shownAt = NoVal]
    BY DEF WithInput
  <2>. HIDE DEF old, close, scan, cp
  <2>5. old \in Checkpoint
    BY <2>1 DEF old
  <2>. QED  BY <1>2, <2>3, <2>4, <2>5 DEF Checkpoint, Next_, Node
<1>4. SoundCheckpoint(cp)
  BY <1>2, <1>3 DEF SoundCheckpoint, Priced, Ordered
<1>5. me \in ActorState
  BY <1>1, <1>3 DEF ActorState, Pc
<1>6. actor' = [actor EXCEPT ![a] = me] /\ thread' = [thread EXCEPT ![ThreadOf(a)] = cp]
  BY <1>1 DEF LoadRun, IInv, TypeOK
<1>7. TypeOK'
  <2>1. actor' \in [Actors -> ActorState] /\ thread' \in [Symbols \X Days -> Checkpoint]
    BY <1>2, <1>3, <1>5, <1>6 DEF IInv, TypeOK
  <2>2. disturbed' \subseteq Symbols \X Days
    BY <1>2 DEF LoadRun, NoteOverlap, IInv, TypeOK
  <2>. QED  BY <2>1, <2>2 DEF LoadRun, IInv, TypeOK, clock, counters
<1>8. ThreadsSound'
  <2>. SUFFICES ASSUME NEW s \in Symbols, NEW d \in Days
                PROVE  (/\ SoundCheckpoint(thread[<<s, d>>])
                        /\ Approved(s, d, thread[<<s, d>>]))'
    BY DEF ThreadsSound, SoundCheckpoint, Approved, RunOf
  <2>1. CASE <<s, d>> = ThreadOf(a)
    <3>1. thread'[<<s, d>>] = cp
      BY <2>1, <1>2, <1>6 DEF IInv, TypeOK
    <3>. QED  BY <3>1, <1>3, <1>4 DEF Approved, SoundCheckpoint
  <2>2. CASE <<s, d>> # ThreadOf(a)
    <3>1. thread'[<<s, d>>] = thread[<<s, d>>]
      BY <2>2, <1>6 DEF IInv, TypeOK
    <3>. QED  BY <3>1 DEF IInv, ThreadsSound, SoundCheckpoint, Approved, RunOf, LoadRun
  <2>. QED  BY <2>1, <2>2
<1>9. ASSUME NEW b \in Actors PROVE ActorSound(b)'
  <2>1. CASE b # a
    <3>1. actor'[b] = actor[b]
      BY <2>1, <1>6 DEF IInv, TypeOK
    <3>2. UNCHANGED <<rows, approvals>>
      BY DEF LoadRun
    <3>. QED  BY <3>1, <3>2 DEF IInv, ActorSound, SoundCheckpoint, Approved, RunOf
  <2>2. CASE b = a
    <3>1. actor'[b] = me
      BY <2>2, <1>6 DEF IInv, TypeOK
    <3>2. /\ me.pc = "node" /\ me.cp = cp /\ me.sym = actor[a].sym /\ me.day = actor[a].day
          /\ me.decision = "NONE"
      BY <1>1 DEF ActorState
    <3>. QED  BY <1>1, <1>3, <1>4, <3>1, <3>2
              DEF ActorSound, Approved, Node, Unanswered
  <2>. QED  BY <2>1, <2>2
<1>10. TradeNeedsApproval'
  BY DEF LoadRun, IInv, TradeNeedsApproval
<1>. QED  BY <1>7, <1>8, <1>9, <1>10 DEF IInv

LEMMA LoadResumeKeepsIInv ==
  ASSUME IInv, NEW a \in Actors, LoadResume(a)
  PROVE  IInv'
<1> DEFINE cp == thread[ThreadOf(a)]
<1>1. /\ actor[a] \in ActorState /\ actor[a].pc = "load" /\ actor[a].decision # "NONE"
      /\ ActorSound(a)
  BY DEF LoadResume, IInv, TypeOK
<1>2. /\ actor[a].sym \in Symbols /\ actor[a].day \in Days
      /\ ThreadOf(a) = <<actor[a].sym, actor[a].day>>
      /\ ThreadOf(a) \in Symbols \X Days
  BY <1>1 DEF ActorSound, ActorState, ThreadOf
<1>3. /\ cp \in Checkpoint /\ SoundCheckpoint(cp)
      /\ Approved(actor[a].sym, actor[a].day, cp)
  BY <1>2 DEF IInv, ThreadsSound, SoundCheckpoint
<1>4. /\ disturbed' \subseteq Symbols \X Days
      /\ approvals \subseteq approvals'
      /\ approvals' \subseteq Symbols \X Days \X (RunIds \cup {0})
      /\ UNCHANGED <<now, today, price, thread, latest, rows, outbox, carded, trades,
                     runs, decisions, aborts>>
  <2>1. cp.run \in RunIds \cup {0}
    BY <1>3 DEF Checkpoint
  <2>. QED  BY <1>2, <2>1
            DEF LoadResume, NoteOverlap, NoteApproval, RunOf, IInv, TypeOK, clock, counters
<1>5. CASE cp.next \in {"absent", "end"}
  <2>1. actor' = [actor EXCEPT ![a] = Idle]
    BY <1>5 DEF LoadResume, Become
  <2>2. TypeOK'
    BY <1>4, <2>1, IdleIsSound DEF IInv, TypeOK
  <2>3. ActorSound(a)'
    <3>1. actor'[a] = Idle
      BY <2>1 DEF IInv, TypeOK
    <3>. QED  BY <3>1 DEF ActorSound, Idle
  <2>. QED  BY <1>4, <2>1, <2>2, <2>3, IdleIsSound, MoveKeepsIInv
<1>6. CASE cp.next \notin {"absent", "end"}
  <2> DEFINE answer == IF cp.next = "human_approval" THEN actor[a].decision ELSE "NONE"
             me == [actor[a] EXCEPT !.pc = "node", !.cp = cp, !.decision = answer]
  <2>1. me \in ActorState
    BY <1>1, <1>3 DEF ActorState, Pc
  <2>2. actor' = [actor EXCEPT ![a] = me]
    BY <1>1, <1>6 DEF LoadResume, IInv, TypeOK
  <2>3. TypeOK'
    BY <1>4, <2>1, <2>2 DEF IInv, TypeOK
  <2>4. ActorSound(a)'
    <3>1. actor'[a] = me
      BY <2>2 DEF IInv, TypeOK
    <3>2. /\ me.pc = "node" /\ me.cp = cp /\ me.sym = actor[a].sym /\ me.day = actor[a].day
          /\ me.decision = answer
      BY <1>1 DEF ActorState
    <3>3. cp.next \in Node
      BY <1>3, <1>6 DEF Checkpoint, Next_
    <3>4. (cp.next = "human_approval" /\ answer = "APPROVED") =>
             RunOf(actor[a].sym, actor[a].day, cp.run) \in approvals'
      BY DEF LoadResume, NoteApproval
    <3>5. cp.next = "paper_execute" =>
             RunOf(actor[a].sym, actor[a].day, cp.run) \in approvals'
      BY <1>3, <1>4 DEF Approved
    <3>6. cp.next \in Unanswered => answer = "NONE"
      BY DEF Unanswered
    <3>. HIDE DEF cp, answer, me
    <3>. QED  BY <1>1, <1>3, <3>1, <3>2, <3>3, <3>4, <3>5, <3>6
              DEF ActorSound, SoundCheckpoint, Approved, RunOf
  <2>. QED  BY <1>4, <2>1, <2>2, <2>3, <2>4, MoveKeepsIInv
<1>. QED  BY <1>5, <1>6

LEMMA OpenTradeKeepsIInv ==
  ASSUME IInv, NEW a \in Actors, OpenTrade(a)
  PROVE  IInv'
<1> DEFINE cp == actor[a].cp
           s == actor[a].sym
           trade == [sym |-> s, day |-> actor[a].day, order |-> cp.order,
                     shownAt |-> cp.shownAt, decidedAt |-> cp.cardAt,
                     at |-> now, quote |-> price[s]]
           me == [actor[a] EXCEPT !.pc = "execute"]
<1>1. /\ actor[a] \in ActorState /\ actor[a].pc = "node" /\ cp.next = "paper_execute"
      /\ ActorSound(a)
  BY DEF OpenTrade, AtNode, IInv, TypeOK
<1>2. /\ s \in Symbols /\ actor[a].day \in Days /\ SoundCheckpoint(cp)
      /\ Approved(s, actor[a].day, cp) /\ cp \in Checkpoint
  BY <1>1, AtNodeIsSound
<1>3. /\ cp.order \in Order /\ cp.order.run = cp.run /\ cp.cardAt \in Nat
      /\ cp.shownAt \in Nat \cup {NoVal}
  BY <1>1, <1>2 DEF SoundCheckpoint, Checkpoint, Ordered
<1>4. trade \in Trade
  <2>1. price[s] \in Prices
    BY <1>2 DEF IInv, TypeOK
  <2>. HIDE DEF cp, s
  <2>. QED  BY <1>2, <1>3, <2>1, NowIsNat DEF Trade
<1>5. FillOf(trade) \in approvals
  <2>1. RunOf(s, actor[a].day, cp.run) \in approvals
    BY <1>1, <1>2 DEF Approved
  <2>. QED  BY <1>3, <2>1 DEF FillOf
<1>6. trades' = Append(trades, trade) /\ actor' = [actor EXCEPT ![a] = me]
  BY <1>1 DEF OpenTrade, GoTo
<1>7. UNCHANGED <<now, today, price, thread, latest, rows, outbox, carded, runs,
                  decisions, aborts, approvals, disturbed>>
  BY DEF OpenTrade, clock, counters, history
<1>8. me \in ActorState
  BY <1>1 DEF ActorState, Pc
<1>9. TypeOK'
  <2>1. trades' \in Seq(Trade)
    <3>. HIDE DEF trade
    <3>. QED  BY <1>4, <1>6 DEF IInv, TypeOK
  <2>2. actor' \in [Actors -> ActorState]
    BY <1>6, <1>8 DEF IInv, TypeOK
  <2>. QED  BY <1>7, <2>1, <2>2 DEF IInv, TypeOK
<1>10. ThreadsSound'
  BY <1>7 DEF IInv, ThreadsSound, SoundCheckpoint, Approved, RunOf
<1>11. ASSUME NEW b \in Actors PROVE ActorSound(b)'
  <2>1. CASE b # a
    <3>1. actor'[b] = actor[b]
      BY <2>1, <1>6 DEF IInv, TypeOK
    <3>. QED  BY <3>1, <1>7 DEF IInv, ActorSound, SoundCheckpoint, Approved, RunOf
  <2>2. CASE b = a
    <3>1. actor'[b] = me
      BY <2>2, <1>6 DEF IInv, TypeOK
    <3>2. /\ me.pc = "execute" /\ me.cp = cp /\ me.sym = s /\ me.day = actor[a].day
      BY <1>1 DEF ActorState
    <3>. QED  BY <1>1, <1>2, <1>7, <3>1, <3>2
              DEF ActorSound, SoundCheckpoint, Approved, RunOf
  <2>. QED  BY <2>1, <2>2
<1>12. TradeNeedsApproval'
  <2>. SUFFICES ASSUME NEW i \in DOMAIN trades' PROVE FillOf(trades'[i]) \in approvals
    BY <1>7 DEF TradeNeedsApproval, FillOf, RunOf
  <2>. HIDE DEF trade
  <2>1. trades \in Seq(Trade)
    BY DEF IInv, TypeOK
  <2>2. CASE i = Len(trades) + 1
    BY <1>4, <1>5, <1>6, <2>1, <2>2
  <2>3. CASE i # Len(trades) + 1
    <3>1. i \in DOMAIN trades /\ trades'[i] = trades[i]
      BY <1>4, <1>6, <2>1, <2>3
    <3>. QED  BY <3>1 DEF IInv, TradeNeedsApproval
  <2>. QED  BY <2>2, <2>3
<1>. QED  BY <1>9, <1>10, <1>11, <1>12 DEF IInv

LEMMA ProposeKeepsIInv ==
  ASSUME IInv, NEW a \in Actors, Propose(a)
  PROVE  IInv'
<1> DEFINE order == actor[a].cp.order
           row == [sym |-> actor[a].sym, day |-> actor[a].day,
                   entry |-> order.entry, status |-> "PENDING"]
<1>1. actor[a].pc = "propose" /\ actor[a].cp.next = "human_approval"
  BY DEF Propose, IInv, ActorSound
<1>2. /\ actor[a].sym \in Symbols /\ actor[a].day \in Days /\ order \in Order
  BY <1>1, AtNodeIsSound DEF SoundCheckpoint, Checkpoint, Ordered
<1>3. row \in Row /\ row # NoVal
  <2>1. row \in Row
    BY <1>2 DEF Row, Order
  <2>. QED  BY <2>1, RowIsNotNone
<1>4. /\ rows' \in [RunIds -> Row \cup {NoVal}]
      /\ \A r \in RunIds : rows[r] # NoVal => rows'[r] # NoVal
  <2>. HIDE DEF row
  <2>1. rows' \in {rows, [rows EXCEPT ![order.run] = row]}
    BY DEF Propose, row
  <2>. QED  BY <1>2, <1>3, <2>1 DEF IInv, TypeOK, Order
<1>5. actor' = [actor EXCEPT ![a] = Idle]
  BY DEF Propose, Become
<1>6. /\ outbox' \subseteq Symbols
      /\ UNCHANGED <<now, today, price, thread, latest, carded, trades, runs,
                     decisions, aborts, approvals, disturbed>>
  BY <1>2 DEF Propose, clock, counters, history, IInv, TypeOK
<1>7. TypeOK'
  <2>1. actor' \in [Actors -> ActorState]
    BY <1>5, IdleIsSound DEF IInv, TypeOK
  <2>. QED  BY <1>4, <1>6, <2>1 DEF IInv, TypeOK
<1>8. ActorSound(a)'
  <2>1. actor'[a] = Idle
    BY <1>5 DEF IInv, TypeOK
  <2>. QED  BY <2>1 DEF ActorSound, Idle
<1>. QED  BY <1>4, <1>5, <1>6, <1>7, <1>8, IdleIsSound, MoveKeepsIInv

LEMMA AbortKeepsIInv ==
  ASSUME IInv, NEW a \in Actors, Abort(a)
  PROVE  IInv'
<1>1. actor' = [actor EXCEPT ![a] = Idle]
  BY DEF Abort, Become
<1>2. disturbed' \subseteq Symbols \X Days
  <2>1. Loaded(a) => ThreadOf(a) \in Symbols \X Days
    BY AtNodeIsSound DEF Loaded, ThreadOf
  <2>. QED  BY <2>1 DEF Abort, IInv, TypeOK
<1>3. aborts' \in 0..MaxAborts
  BY BoundsAssumption DEF Abort, IInv, TypeOK
<1>4. UNCHANGED <<now, today, price, thread, latest, rows, outbox, carded, trades, runs,
                  decisions, approvals>>
  BY DEF Abort, clock
<1>5. TypeOK'
  <2>1. actor' \in [Actors -> ActorState]
    BY <1>1, IdleIsSound DEF IInv, TypeOK
  <2>. QED  BY <1>2, <1>3, <1>4, <2>1 DEF IInv, TypeOK
<1>6. ActorSound(a)'
  <2>1. actor'[a] = Idle
    BY <1>1 DEF IInv, TypeOK
  <2>. QED  BY <2>1 DEF ActorSound, Idle
<1>. QED  BY <1>1, <1>4, <1>5, <1>6, IdleIsSound, MoveKeepsIInv

(***************************************************************************)
(* Delivery and the clock touch nothing the other conjuncts speak of.      *)
(***************************************************************************)
LEMMA EnvironmentKeepsIInv ==
  ASSUME IInv, TypeOK', UNCHANGED <<thread, rows, trades, actor, approvals>>
  PROVE  IInv'
BY DEF IInv, ThreadsSound, ActorSound, SoundCheckpoint, Approved, RunOf,
       TradeNeedsApproval, FillOf

LEMMA DeliverKeepsIInv ==
  ASSUME IInv, NEW s \in Symbols, Deliver(s)
  PROVE  IInv'
<1>1. TypeOK'
  BY DEF Deliver, clock, counters, history, IInv, TypeOK
<1>. QED  BY <1>1, EnvironmentKeepsIInv DEF Deliver, history

LEMMA TickKeepsIInv ==
  ASSUME IInv, Tick
  PROVE  IInv'
<1>1. now' \in 0..MaxTime
  BY BoundsAssumption DEF Tick, IInv, TypeOK
<1>2. today' \in Days
  BY DEF Tick
<1>3. TypeOK'
  BY <1>1, <1>2 DEF Tick, counters, history, IInv, TypeOK
<1>. QED  BY <1>3, EnvironmentKeepsIInv DEF Tick, history

-----------------------------------------------------------------------------
(***************************************************************************)
(* IInv is an inductive invariant.                                         *)
(***************************************************************************)
LEMMA InitIInv == Init => IInv
<1>. SUFFICES ASSUME Init PROVE IInv
  OBVIOUS
<1>1. NoCheckpoint \in Checkpoint /\ SoundCheckpoint(NoCheckpoint)
      /\ NoCheckpoint.next = "absent"
  BY IdleIsSound DEF SoundCheckpoint, NoCheckpoint, Priced, Ordered
<1>2. TypeOK
  BY <1>1, IdleIsSound, BoundsAssumption DEF Init, TypeOK, Days
<1>3. ThreadsSound
  BY <1>1 DEF Init, ThreadsSound, Approved
<1>4. \A a \in Actors : ActorSound(a)
  BY DEF Init, ActorSound, Idle
<1>5. TradeNeedsApproval
  BY DEF Init, TradeNeedsApproval
<1>. QED  BY <1>2, <1>3, <1>4, <1>5 DEF IInv

LEMMA StutterKeepsIInv ==
  ASSUME IInv, UNCHANGED vars
  PROVE  IInv'
<1>1. TypeOK'
  BY DEF vars, IInv, TypeOK
<1>. QED  BY <1>1, EnvironmentKeepsIInv DEF vars

LEMMA NextKeepsIInv == IInv /\ [Next]_vars => IInv'
<1>. SUFFICES ASSUME IInv, [Next]_vars PROVE IInv'
  OBVIOUS
<1>1. CASE Call
  <2>1. ASSUME NEW a \in WebActors, NEW r \in RunIds, NEW d \in HumanDecision,
               WebDecide(a, r, d)
        PROVE  IInv'
    BY <2>1, WebDecideKeepsIInv
  <2>2. ASSUME NEW a \in TelegramActors, NEW s \in Symbols, NEW d \in HumanDecision,
               TelegramTap(a, s, d)
        PROVE  IInv'
    BY <2>2, TelegramTapKeepsIInv
  <2>3. ASSUME NEW a \in RunActors, NEW s \in Symbols,
               NEW snapshot \in {NoVal, price[s]}, StartRun(a, s, snapshot)
        PROVE  IInv'
    BY <2>3, StartRunKeepsIInv
  <2>. QED  BY <1>1, <2>1, <2>2, <2>3 DEF Call
<1>2. ASSUME NEW a \in Actors, Step(a) PROVE IInv'
  BY <1>2, WebUpdateKeepsIInv, ResolveKeepsIInv, RecordThreadKeepsIInv, LoadRunKeepsIInv,
     LoadResumeKeepsIInv, ScreenerKeepsIInv, AnalystKeepsIInv, RiskKeepsIInv,
     RejectedKeepsIInv, PauseKeepsIInv, DecideKeepsIInv, DoNotExecuteKeepsIInv,
     OpenTradeKeepsIInv, FinishKeepsIInv, ProposeKeepsIInv
  DEF Step
<1>3. ASSUME NEW a \in Actors, Abort(a) PROVE IInv'
  BY <1>3, AbortKeepsIInv
<1>4. ASSUME NEW s \in Symbols, Deliver(s) PROVE IInv'
  BY <1>4, DeliverKeepsIInv
<1>5. CASE Tick
  BY <1>5, TickKeepsIInv
<1>6. CASE UNCHANGED vars
  BY <1>6, StutterKeepsIInv
<1>. QED  BY <1>1, <1>2, <1>3, <1>4, <1>5, <1>6 DEF Next

\* The inductive invariant holds of every reachable state of the pipeline:
\* what a pending node relies on is in its checkpoint, in the table and in
\* the memory of every invocation that has loaded it.
THEOREM Invariance == Spec => []IInv
BY InitIInv, NextKeepsIInv, PTL DEF Spec

\* Type correctness of the pipeline's state, under any interleaving of its
\* callers: in particular nothing executes on a missing price or order.
THEOREM TypeCorrectness == Spec => []TypeOK
<1>1. IInv => TypeOK
  BY DEF IInv
<1>. QED  BY <1>1, Invariance, PTL

\* No trade is recorded for a run no human approved (graph._paper_execute
\* behind graph._human_approval), whatever overlaps, re-runs or crashes.
THEOREM TradesAreApproved == Spec => []TradeNeedsApproval
<1>1. IInv => TradeNeedsApproval
  BY DEF IInv
<1>. QED  BY <1>1, Invariance, PTL

\* The order a paused or executing thread holds was sized by the run that
\* started it (graph._calculate_risk), never left over from an earlier one.
THEOREM OrdersAreCurrent == Spec => []OrderIsOfThisRun
<1>1. IInv => OrderIsOfThisRun
  BY DEF IInv, ThreadsSound, SoundCheckpoint, OrderIsOfThisRun, Ordered
<1>. QED  BY <1>1, Invariance, PTL

-----------------------------------------------------------------------------
(***************************************************************************)
(* The ledger of proposals.  LedgerInv says that a run proposes under a    *)
(* number of its own, which no row has; so record_proposal never replaces  *)
(* a row, and only the guarded UPDATE changes one.                         *)
(***************************************************************************)

\* A step that leaves the ledger alone keeps LedgerInv if the invocation
\* that moved is still sound, or has ended.
LEMMA MoveKeepsLedger ==
  ASSUME TypeOK, LedgerInv, NEW a \in Actors, NEW me \in ActorState,
         actor' = [actor EXCEPT ![a] = me], UNCHANGED <<rows, runs>>,
         me.pc = "propose" => a \in RunActors,
         a \in RunActors /\ me.pc # "idle" =>
           /\ Underway(a) /\ me.run = actor[a].run /\ me.decision = "NONE"
           /\ me.pc \in {"node", "execute", "propose"} => me.cp.run = me.run
  PROVE  LedgerInv'
<1>1. actor'[a] = me /\ \A b \in Actors \ {a} : actor'[b] = actor[b]
  BY DEF TypeOK
<1>2. ASSUME NEW b \in RunActors, Underway(b)'
      PROVE  RunSound(b)' /\ Underway(b) /\ actor'[b].run = actor[b].run
  <2>1. b \in Actors
    BY DEF Actors
  <2>2. CASE b = a
    BY <1>1, <1>2, <2>2 DEF LedgerInv, RunSound, Underway, Loaded
  <2>3. CASE b # a
    BY <1>1, <1>2, <2>1, <2>3 DEF LedgerInv, RunSound, Underway, Loaded
  <2>. QED  BY <2>2, <2>3
<1>3. \A r \in RunIds : rows'[r] # NoVal => r <= runs'
  BY DEF LedgerInv
<1>4. \A b \in Actors : actor'[b].pc = "propose" => b \in RunActors
  BY <1>1 DEF LedgerInv
<1>5. \A b, c \in RunActors :
        b # c /\ Underway(b)' /\ Underway(c)' => actor'[b].run # actor'[c].run
  BY <1>2 DEF LedgerInv
<1>. QED  BY <1>2, <1>3, <1>4, <1>5 DEF LedgerInv, Underway

LEMMA PutKeepsLedger ==
  ASSUME IInv, LedgerInv, NEW a \in Actors, NEW cp, NEW label \in {"idle", "node", "propose"},
         actor[a].pc \in {"node", "execute"},
         cp \in Checkpoint, cp.run = actor[a].cp.run,
         label = "propose" => a \in RunActors,
         Put(a, cp, label), UNCHANGED <<rows, runs>>
  PROVE  LedgerInv'
<1>1. TypeOK /\ actor[a] \in ActorState
  BY DEF IInv, TypeOK
<1>2. a \in RunActors => actor[a].decision = "NONE" /\ actor[a].cp.run = actor[a].run
  BY DEF LedgerInv, RunSound, Underway, Loaded
<1>3. CASE label = "idle"
  <2>1. actor' = [actor EXCEPT ![a] = Idle]
    BY <1>3 DEF Put
  <2>2. Idle.pc = "idle"
    BY DEF Idle
  <2>. QED  BY <1>1, <2>1, <2>2, IdleIsSound, MoveKeepsLedger
<1>4. CASE label # "idle"
  <2> DEFINE me == [actor[a] EXCEPT !.pc = label, !.cp = cp]
  <2>1. actor' = [actor EXCEPT ![a] = me]
    BY <1>1, <1>4 DEF Put, TypeOK
  <2>2. me \in ActorState /\ me.pc = label /\ me.cp = cp /\ me.run = actor[a].run
        /\ me.decision = actor[a].decision
    BY <1>1 DEF ActorState, Pc
  <2>3. Underway(a)
    BY DEF Underway
  <2>. HIDE DEF me
  <2>. QED  BY <1>1, <1>2, <2>1, <2>2, <2>3, MoveKeepsLedger
<1>. QED  BY <1>3, <1>4

(***************************************************************************)
(* What a node writes: a checkpoint of the run it works on, that is past   *)
(* the execution if it executed, about to execute only if a human answered *)
(* its pause, and at a pause only after raising the card or on its way to  *)
(* raising it.                                                             *)
(***************************************************************************)
NodeWrite(a, cp, label) ==
  /\ Put(a, cp, label)
  /\ label = "propose" => a \in RunActors
  /\ label = "node" => cp.next # "end"
  /\ cp.run = actor[a].cp.run
  /\ actor[a].pc = "execute" => cp.next = "end"
  /\ cp.next = "paper_execute" =>
       /\ actor[a].cp.next = "human_approval" /\ actor[a].decision # "NONE"
       /\ cp.shownAt = actor[a].cp.shownAt
  /\ cp.next = "human_approval" =>
       cp.shownAt # NoVal \/ (label = "node" /\ actor[a].decision = "NONE")

Nodes(a) ==
  \/ MathScreener(a) \/ AnalyzeCatalyst(a) \/ CalculateRisk(a) \/ Rejected(a)
  \/ Pause(a) \/ Decide(a) \/ DoNotExecute(a) \/ FinishExecution(a)

LEMMA NodeWrites ==
  ASSUME IInv, NEW a \in Actors, Nodes(a)
  PROVE  /\ Loaded(a)
         /\ \E cp \in Checkpoint, label \in {"idle", "node", "propose"} :
              NodeWrite(a, cp, label)
         /\ UNCHANGED <<clock, latest, rows, outbox, carded, trades, counters, history>>
<1>1. /\ Loaded(a) /\ actor[a].pc \in {"node", "execute"}
      /\ UNCHANGED <<clock, latest, rows, outbox, carded, trades, counters, history>>
  BY DEF Nodes, MathScreener, AnalyzeCatalyst, CalculateRisk, Rejected, Pause, Decide,
         DoNotExecute, FinishExecution, AtNode, Loaded
<1>2. /\ actor[a].cp \in Checkpoint
      /\ actor[a].sym \in Symbols /\ actor[a].day \in Days
  BY <1>1, AtNodeIsSound
<1>3. TypeOK'
  BY ScreenerKeepsIInv, AnalystKeepsIInv, RiskKeepsIInv, RejectedKeepsIInv, PauseKeepsIInv,
     DecideKeepsIInv, DoNotExecuteKeepsIInv, FinishKeepsIInv
  DEF IInv, Nodes
<1>4. ASSUME NEW cp, Advance(a, cp), cp.run = actor[a].cp.run,
             actor[a].pc = "execute" => cp.next = "end",
             cp.next = "paper_execute" =>
               /\ actor[a].cp.next = "human_approval" /\ actor[a].decision # "NONE"
               /\ cp.shownAt = actor[a].cp.shownAt,
             cp.next = "human_approval" => actor[a].decision = "NONE"
      PROVE  \E label \in {"idle", "node", "propose"} : NodeWrite(a, cp, label)
  BY <1>4 DEF Advance, NodeWrite
<1>5. PICK cp : \E label \in {"idle", "node", "propose"} : NodeWrite(a, cp, label)
  <2>1. CASE MathScreener(a)
    <3>1. PICK cp0 \in Screened(actor[a].cp, actor[a].sym) :
            Advance(a, [cp0 EXCEPT !.next = RouteAfterScreener(cp0)])
      BY <2>1 DEF MathScreener
    <3> DEFINE cp == [cp0 EXCEPT !.next = RouteAfterScreener(cp0)]
    <3>2. /\ cp.run = actor[a].cp.run /\ cp.next \in {"end", "analyze_catalyst"}
          /\ actor[a].pc = "node"
      BY <1>2, <2>1, <3>1 DEF Screened, Checkpoint, RouteAfterScreener, MathScreener, AtNode
    <3>5. Advance(a, cp)
      BY <3>1
    <3>. HIDE DEF cp
    <3>. QED  BY <1>4, <3>2, <3>5
  <2>2. CASE AnalyzeCatalyst(a)
    <3>1. PICK v \in Verdicts :
            LET cp == [actor[a].cp EXCEPT !.verdict = v] IN
            Advance(a, [cp EXCEPT !.next = RouteAfterAnalyst(cp)])
      BY <2>2 DEF AnalyzeCatalyst
    <3> DEFINE cp0 == [actor[a].cp EXCEPT !.verdict = v]
               cp == [cp0 EXCEPT !.next = RouteAfterAnalyst(cp0)]
    <3>2. /\ cp.run = actor[a].cp.run /\ cp.next \in {"rejected", "calculate_risk"}
          /\ actor[a].pc = "node"
      BY <1>2, <2>2 DEF Checkpoint, RouteAfterAnalyst, AnalyzeCatalyst, AtNode
    <3>5. Advance(a, cp)
      BY <3>1
    <3>. HIDE DEF cp
    <3>. QED  BY <1>4, <3>2, <3>5
  <2>3. CASE CalculateRisk(a)
    <3>1. PICK outcome \in RiskOutcomes :
            LET cp == Sized(actor[a].cp, outcome) IN
            Advance(a, [cp EXCEPT !.next = RouteAfterRisk(cp)])
      BY <2>3 DEF CalculateRisk
    <3> DEFINE cp0 == Sized(actor[a].cp, outcome)
               cp == [cp0 EXCEPT !.next = RouteAfterRisk(cp0)]
    <3>2. cp0 \in [DOMAIN actor[a].cp -> {cp0[f] : f \in DOMAIN cp0}] /\ cp0.run = actor[a].cp.run
          /\ "next" \in DOMAIN cp0
      BY <1>2, DataAssumption DEF Sized, Checkpoint, AllRiskOutcomes
    <3>3. cp.run = actor[a].cp.run /\ cp.next \in {"rejected", "human_approval"}
      <4>. HIDE DEF cp0
      <4>. QED  BY <1>2, <3>2 DEF RouteAfterRisk, Checkpoint
    <3>4. actor[a].pc = "node" /\ actor[a].decision = "NONE"
      BY <2>3 DEF CalculateRisk, AtNode, IInv, ActorSound, Unanswered
    <3>5. Advance(a, cp)
      BY <3>1
    <3>. HIDE DEF cp
    <3>. QED  BY <1>4, <3>3, <3>4, <3>5
  <2>4. CASE Rejected(a)
    <3> DEFINE cp == [actor[a].cp EXCEPT !.reason = RejectionReason(actor[a].cp),
                                         !.exec = "REJECTED", !.next = "end"]
    <3>1. cp.run = actor[a].cp.run /\ cp.next = "end" /\ Advance(a, cp)
      BY <1>2, <2>4 DEF Checkpoint, Rejected
    <3>. HIDE DEF cp
    <3>. QED  BY <1>4, <3>1
  <2>5. CASE Pause(a)
    <3> DEFINE cp == [actor[a].cp EXCEPT !.shownAt = now]
    <3>1. /\ cp.run = actor[a].cp.run /\ cp.next = "human_approval" /\ cp.shownAt = now
          /\ actor[a].pc = "node"
      BY <1>2, <2>5 DEF Checkpoint, Pause, AtNode
    <3>2. now # NoVal
      BY NowIsNat, NoValAssumption
    <3>3. Put(a, cp, IF a \in RunActors THEN "propose" ELSE "idle")
      BY <2>5 DEF Pause
    <3>. HIDE DEF cp
    <3>. QED  BY <3>1, <3>2, <3>3 DEF NodeWrite
  <2>6. CASE Decide(a)
    <3> DEFINE cp0 == [actor[a].cp EXCEPT !.decision = actor[a].decision, !.cardAt = now]
               cp == [cp0 EXCEPT !.next = RouteAfterApproval(cp0)]
    <3>1. /\ cp.run = actor[a].cp.run /\ cp.next \in {"paper_execute", "rejected"}
          /\ cp.shownAt = actor[a].cp.shownAt
      BY <1>2 DEF Checkpoint, RouteAfterApproval
    <3>2. /\ actor[a].pc = "node" /\ actor[a].cp.next = "human_approval"
          /\ actor[a].decision # "NONE" /\ Advance(a, cp)
      BY <2>6 DEF Decide, AtNode
    <3>. HIDE DEF cp
    <3>. QED  BY <1>4, <3>1, <3>2
  <2>7. CASE DoNotExecute(a)
    <3>1. PICK cp : Advance(a, cp) /\ cp.run = actor[a].cp.run /\ cp.next = "end"
      <4> DEFINE approved == actor[a].cp.decision = "APPROVED"
                 cp == [actor[a].cp EXCEPT
                          !.exec = IF approved THEN "REJECTED_STALE" ELSE "NOT_EXECUTED",
                          !.decision = IF approved THEN "REJECTED_STALE" ELSE @,
                          !.next = "end"]
      <4>1. cp.run = actor[a].cp.run /\ cp.next = "end"
        BY <1>2 DEF Checkpoint
      <4>2. Advance(a, cp)
        BY <2>7 DEF DoNotExecute
      <4>. HIDE DEF cp
      <4>. QED  BY <4>1, <4>2
    <3>. QED  BY <1>4, <3>1
  <2>8. CASE FinishExecution(a)
    <3> DEFINE cp == [actor[a].cp EXCEPT !.exec = "OPEN_PAPER", !.next = "end"]
    <3>1. cp.run = actor[a].cp.run /\ cp.next = "end" /\ Advance(a, cp)
      BY <1>2, <2>8 DEF Checkpoint, FinishExecution
    <3>. HIDE DEF cp
    <3>. QED  BY <1>4, <3>1
  <2>. QED  BY <2>1, <2>2, <2>3, <2>4, <2>5, <2>6, <2>7, <2>8 DEF Nodes
<1>6. cp \in Checkpoint
  <2>1. thread'[ThreadOf(a)] = cp
    BY <1>2, <1>5 DEF NodeWrite, Put, IInv, TypeOK, ThreadOf
  <2>2. ThreadOf(a) \in Symbols \X Days
    BY <1>2 DEF ThreadOf
  <2>. QED  BY <1>3, <2>1, <2>2 DEF TypeOK
<1>. QED  BY <1>1, <1>5, <1>6

\* The nodes keep the run of the checkpoint they work on.
LEMMA NodeKeepsLedger ==
  ASSUME IInv, LedgerInv, NEW a \in Actors, Nodes(a)
  PROVE  LedgerInv'
<1>1. PICK cp \in Checkpoint, label \in {"idle", "node", "propose"} : NodeWrite(a, cp, label)
  BY NodeWrites
<1>2. Loaded(a) /\ UNCHANGED <<rows, runs>>
  BY NodeWrites DEF counters
<1>. QED  BY <1>1, <1>2, PutKeepsLedger DEF NodeWrite, Loaded

\* So does every other step of the code of an invocation, save Propose.
LEMMA StepKeepsLedger ==
  ASSUME IInv, LedgerInv, NEW a \in Actors,
         \/ WebUpdate(a) \/ Resolve(a) \/ RecordThread(a) \/ LoadRun(a) \/ LoadResume(a)
         \/ OpenTrade(a)
  PROVE  LedgerInv'
<1> DEFINE me == actor'[a]
<1>1. TypeOK /\ TypeOK' /\ actor[a] \in ActorState /\ me \in ActorState
      /\ UNCHANGED runs
  BY WebUpdateKeepsIInv, ResolveKeepsIInv, RecordThreadKeepsIInv, LoadRunKeepsIInv,
     LoadResumeKeepsIInv, OpenTradeKeepsIInv
  DEF IInv, TypeOK, WebUpdate, Resolve, RecordThread, LoadRun, LoadResume, OpenTrade, counters
<1>2. a \in RunActors /\ Underway(a) => RunSound(a)
  BY DEF LedgerInv
<1>3. actor' = [actor EXCEPT ![a] = me] /\ Underway(a) /\ me.pc # "propose"
  <2>1. Underway(a)
    BY DEF WebUpdate, Resolve, RecordThread, LoadRun, LoadResume, OpenTrade, Underway, AtNode
  <2>2. (\A b \in Actors \ {a} : actor'[b] = actor[b]) /\ actor'[a].pc # "propose"
    <3>1. CASE WebUpdate(a)
      BY <1>1, <3>1 DEF WebUpdate, GoTo, ActorState, TypeOK
    <3>2. CASE Resolve(a)
      <4>1. PICK day : actor' = [actor EXCEPT ![a].pc = "record", ![a].day = day]
        BY <3>2 DEF Resolve
      <4>. QED  BY <1>1, <4>1 DEF ActorState, TypeOK
    <3>3. CASE RecordThread(a)
      BY <1>1, <3>3 DEF RecordThread, GoTo, ActorState, TypeOK
    <3>4. CASE LoadRun(a)
      BY <1>1, <3>4 DEF LoadRun, ActorState, TypeOK
    <3>5. CASE LoadResume(a)
      BY <1>1, <3>5 DEF LoadResume, Become, Idle, ActorState, TypeOK
    <3>6. CASE OpenTrade(a)
      BY <1>1, <3>6 DEF OpenTrade, GoTo, ActorState, TypeOK
    <3>. QED  BY <3>1, <3>2, <3>3, <3>4, <3>5, <3>6
  <2>3. actor' = [actor EXCEPT ![a] = actor'[a]]
    BY <1>1, <2>2 DEF TypeOK
  <2>. QED  BY <2>1, <2>2, <2>3
<1>4. CASE WebUpdate(a)
  <2>1. a \notin RunActors
    <3>1. rows[actor[a].run] # NoVal
      BY <1>4 DEF WebUpdate, IInv, ActorSound
    <3>. QED  BY <1>2, <1>3, <3>1 DEF RunSound
  <2>2. actor[a].run \in RunIds
    BY <1>1, <1>4 DEF WebUpdate, IInv, ActorSound, ActorState
  <2>3. \A r \in RunIds : rows'[r] # NoVal => rows[r] # NoVal
    BY <1>4, <2>2 DEF WebUpdate, IInv, TypeOK, ActorSound
  <2>4. \A r \in RunIds : rows[r] = NoVal => rows'[r] = NoVal
    BY <2>3
  <2>5. \A b \in RunActors : actor'[b] = actor[b] /\ actor[b] \in ActorState
    BY <1>3, <2>1, <1>1 DEF TypeOK, Actors
  <2>6. \A r \in 1..runs : r \in RunIds
    BY <1>1, BoundsAssumption DEF TypeOK, RunIds
  <2>7. ASSUME NEW b \in RunActors, Underway(b)' PROVE RunSound(b)'
    BY <1>1, <2>4, <2>5, <2>6, <2>7 DEF LedgerInv, RunSound, Underway, Loaded
  <2>8. \A b \in Actors : actor'[b].pc = "propose" => b \in RunActors
    BY <1>1, <1>3 DEF LedgerInv, TypeOK
  <2>. QED  BY <1>1, <2>3, <2>5, <2>7, <2>8 DEF LedgerInv, Underway
<1>5. CASE Resolve(a)
  <2>1. a \notin RunActors
    <3>1. actor[a].decision # "NONE"
      BY <1>5 DEF Resolve, IInv, ActorSound
    <3>. QED  BY <1>2, <1>3, <3>1 DEF RunSound
  <2>2. UNCHANGED rows
    BY <1>5 DEF Resolve
  <2>. HIDE DEF me
  <2>. QED  BY <1>1, <1>3, <2>1, <2>2, MoveKeepsLedger
<1>6. CASE RecordThread(a)
  <2>1. me = [actor[a] EXCEPT !.pc = "load"] /\ UNCHANGED rows
    BY <1>1, <1>6 DEF RecordThread, GoTo, TypeOK
  <2>2. me.pc = "load" /\ me.run = actor[a].run /\ me.decision = actor[a].decision
    BY <1>1, <2>1 DEF ActorState
  <2>. HIDE DEF me
  <2>. QED  BY <1>1, <1>2, <1>3, <2>1, <2>2, MoveKeepsLedger DEF RunSound
<1>7. CASE LoadRun(a)
  <2>1. /\ actor[a].sym \in Symbols /\ actor[a].day \in Days /\ actor[a].run \in RunIds
    BY <1>1, <1>7 DEF LoadRun, IInv, ActorSound, ActorState
  <2>2. thread[ThreadOf(a)] \in Checkpoint
    BY <1>1, <2>1 DEF TypeOK, ThreadOf
  <2> DEFINE cp == WithInput(thread[ThreadOf(a)], actor[a].run, actor[a].snapshot)
  <2>3. cp.run = actor[a].run
    BY <2>2 DEF WithInput, Checkpoint
  <2>4. me = [actor[a] EXCEPT !.pc = "node", !.cp = cp] /\ UNCHANGED rows
    BY <1>1, <1>7 DEF LoadRun, TypeOK
  <2>5. me.run = actor[a].run /\ me.decision = actor[a].decision /\ me.cp = cp
    BY <1>1, <2>4 DEF ActorState
  <2>. HIDE DEF me, cp
  <2>. QED  BY <1>1, <1>2, <1>3, <2>3, <2>4, <2>5, MoveKeepsLedger DEF RunSound
<1>8. CASE LoadResume(a)
  <2>1. a \notin RunActors
    BY <1>2, <1>3, <1>8 DEF RunSound, LoadResume
  <2>2. UNCHANGED rows
    BY <1>8 DEF LoadResume
  <2>. HIDE DEF me
  <2>. QED  BY <1>1, <1>3, <2>1, <2>2, MoveKeepsLedger
<1>9. CASE OpenTrade(a)
  <2>1. me = [actor[a] EXCEPT !.pc = "execute"] /\ UNCHANGED rows
    BY <1>1, <1>9 DEF OpenTrade, GoTo, TypeOK
  <2>2. /\ me.run = actor[a].run /\ me.decision = actor[a].decision
        /\ me.cp = actor[a].cp
    BY <1>1, <2>1 DEF ActorState
  <2>3. Loaded(a)
    BY <1>9 DEF OpenTrade, AtNode, Loaded
  <2>. HIDE DEF me
  <2>. QED  BY <1>1, <1>2, <1>3, <2>1, <2>2, <2>3, MoveKeepsLedger DEF RunSound
<1>. QED  BY <1>4, <1>5, <1>6, <1>7, <1>8, <1>9

\* Propose fills in the row of its own run, and ends the invocation.
LEMMA ProposeFillsOwnRow ==
  ASSUME IInv, LedgerInv, NEW a \in Actors, Propose(a)
  PROVE  /\ a \in RunActors /\ Underway(a) /\ RunSound(a)
         /\ actor[a].run \in RunIds
         /\ \A r \in RunIds : r # actor[a].run => rows'[r] = rows[r]
<1>1. /\ actor[a].pc = "propose" /\ actor[a].cp.next = "human_approval"
  BY DEF Propose, IInv, ActorSound
<1>2. a \in RunActors /\ Underway(a) /\ RunSound(a)
  BY <1>1 DEF LedgerInv, Underway
<1>3. actor[a].cp.order.run = actor[a].run /\ actor[a].cp.order \in Order
  BY <1>1, <1>2, AtNodeIsSound DEF RunSound, SoundCheckpoint, Checkpoint, Ordered
<1>. QED  BY <1>2, <1>3 DEF Propose, IInv, TypeOK, Order

LEMMA ProposeKeepsLedger ==
  ASSUME IInv, LedgerInv, NEW a \in Actors, Propose(a)
  PROVE  LedgerInv'
<1>1. /\ actor'[a] = Idle /\ \A b \in Actors \ {a} : actor'[b] = actor[b]
      /\ UNCHANGED runs
  BY DEF Propose, Become, IInv, TypeOK, counters
<1>2. /\ a \in RunActors /\ Underway(a) /\ RunSound(a) /\ actor[a].run \in RunIds
      /\ \A r \in RunIds : r # actor[a].run => rows'[r] = rows[r]
  BY ProposeFillsOwnRow
<1>3. ASSUME NEW b \in RunActors, Underway(b)' PROVE Underway(b) /\ RunSound(b)'
  <2>1. b # a /\ actor'[b] = actor[b]
    BY <1>1, <1>3 DEF Underway, Idle, Actors
  <2>2. /\ Underway(b) /\ RunSound(b) /\ actor[b].run # actor[a].run
    BY <1>2, <1>3, <2>1 DEF LedgerInv, Underway
  <2>3. actor[b].run \in RunIds
    BY <2>2, BoundsAssumption DEF RunSound, IInv, TypeOK, RunIds
  <2>. QED  BY <1>1, <1>2, <2>1, <2>2, <2>3 DEF RunSound, Loaded
<1>4. \A r \in RunIds : rows'[r] # NoVal => r <= runs'
  BY <1>1, <1>2, BoundsAssumption DEF LedgerInv, RunSound, IInv, TypeOK
<1>5. \A b \in Actors : actor'[b].pc = "propose" => b \in RunActors
  BY <1>1, <1>2 DEF LedgerInv
<1>6. \A b \in RunActors : Underway(b)' => b \in Actors \ {a}
  BY <1>1 DEF Underway, Idle, Actors
<1>7. \A b, c \in RunActors :
        b # c /\ Underway(b)' /\ Underway(c)' => actor'[b].run # actor'[c].run
  BY <1>1, <1>3, <1>6 DEF LedgerInv
<1>. QED  BY <1>3, <1>4, <1>5, <1>7 DEF LedgerInv, Underway

\* A new invocation: only a run_symbol call gets a number, the next one.
LEMMA CallKeepsLedger ==
  ASSUME IInv, LedgerInv, Call
  PROVE  LedgerInv'
<1>1. ASSUME NEW a \in WebActors, NEW r \in RunIds, NEW d \in HumanDecision,
             WebDecide(a, r, d)
      PROVE  LedgerInv'
  <2>1. a \in Actors /\ a \notin RunActors /\ UNCHANGED <<rows, runs>> /\ TypeOK
    BY <1>1, ActorsAssumption DEF Actors, WebDecide, IInv
  <2> DEFINE me == [Idle EXCEPT !.pc = "update", !.sym = rows[r].sym, !.run = r, !.decision = d]
  <2>2. me \in ActorState /\ me.pc = "update" /\ actor' = [actor EXCEPT ![a] = me]
    <3>1. rows[r].sym \in Symbols
      BY <1>1 DEF WebDecide, IInv, TypeOK, Row
    <3>. QED  BY <1>1, <3>1, IdleIsSound DEF WebDecide, Become, ActorState, Idle, Pc
  <2>. HIDE DEF me
  <2>. QED  BY <2>1, <2>2, MoveKeepsLedger
<1>2. ASSUME NEW a \in TelegramActors, NEW s \in Symbols, NEW d \in HumanDecision,
             TelegramTap(a, s, d)
      PROVE  LedgerInv'
  <2>1. a \in Actors /\ a \notin RunActors /\ UNCHANGED <<rows, runs>> /\ TypeOK
    BY <1>2, ActorsAssumption DEF Actors, TelegramTap, IInv
  <2> DEFINE me == [Idle EXCEPT !.pc = "resolve", !.sym = s, !.decision = d]
  <2>2. me \in ActorState /\ me.pc = "resolve" /\ actor' = [actor EXCEPT ![a] = me]
    BY <1>2, IdleIsSound DEF TelegramTap, Become, ActorState, Idle, Pc
  <2>. HIDE DEF me
  <2>. QED  BY <2>1, <2>2, MoveKeepsLedger
<1>3. ASSUME NEW a \in RunActors, NEW s \in Symbols, NEW snapshot \in {NoVal, price[s]},
             StartRun(a, s, snapshot)
      PROVE  LedgerInv'
  <2> DEFINE me == [Idle EXCEPT !.pc = "record", !.sym = s, !.day = today,
                                !.run = runs + 1, !.snapshot = snapshot]
  <2>1. a \in Actors /\ ~Underway(a) /\ actor' = [actor EXCEPT ![a] = me]
    BY <1>3 DEF Actors, StartRun, Become, Underway
  <2>2. me.pc = "record" /\ me.run = runs + 1 /\ me.decision = "NONE"
    BY DEF Idle
  <2>. HIDE DEF me
  <2>3. actor'[a] = me /\ \A b \in Actors \ {a} : actor'[b] = actor[b]
    BY <2>1 DEF IInv, TypeOK
  <2>4. UNCHANGED rows /\ runs' = runs + 1 /\ runs \in Nat /\ runs + 1 \in RunIds
    BY <1>3, BoundsAssumption DEF StartRun, IInv, TypeOK, RunIds
  <2>5. \A r \in RunIds : rows'[r] # NoVal => r <= runs /\ r \in Nat
    BY <2>4, BoundsAssumption DEF LedgerInv, RunIds
  <2>6. ASSUME NEW b \in RunActors \ {a}, Underway(b)'
        PROVE  /\ Underway(b) /\ actor'[b].run = actor[b].run
               /\ RunSound(b)' /\ actor[b].run \in 1..runs
    <3>1. b \in Actors /\ actor'[b] = actor[b]
      BY <2>3 DEF Actors
    <3>. QED  BY <2>4, <2>6, <3>1 DEF LedgerInv, Underway, RunSound, Loaded
  <2>7. RunSound(a)'
    BY <2>2, <2>3, <2>4, <2>5 DEF RunSound, Loaded
  <2>8. \A b \in Actors : actor'[b].pc = "propose" => b \in RunActors
    BY <2>2, <2>3 DEF LedgerInv
  <2>9. \A b, c \in RunActors :
          b # c /\ Underway(b)' /\ Underway(c)' => actor'[b].run # actor'[c].run
    <3>. SUFFICES ASSUME NEW b \in RunActors, NEW c \in RunActors, b # c,
                         Underway(b)', Underway(c)'
                  PROVE  actor'[b].run # actor'[c].run
      OBVIOUS
    <3>1. CASE b # a /\ c # a
      BY <2>6, <3>1 DEF LedgerInv
    <3>2. CASE b = a
      BY <2>2, <2>3, <2>4, <2>6, <3>2
    <3>3. CASE c = a
      BY <2>2, <2>3, <2>4, <2>6, <3>3
    <3>. QED  BY <3>1, <3>2, <3>3
  <2>10. \A r \in RunIds : rows'[r] # NoVal => r <= runs'
    BY <2>4, <2>5
  <2>. QED  BY <2>6, <2>7, <2>8, <2>9, <2>10 DEF LedgerInv, Underway
<1>. QED  BY <1>1, <1>2, <1>3 DEF Call

LEMMA LedgerUnchanged ==
  ASSUME LedgerInv, UNCHANGED <<rows, runs, actor>>
  PROVE  LedgerInv'
BY DEF LedgerInv, RunSound, Underway, Loaded

LEMMA NextKeepsLedger == IInv /\ LedgerInv /\ [Next]_vars => LedgerInv'
<1>. SUFFICES ASSUME IInv, LedgerInv, [Next]_vars PROVE LedgerInv'
  OBVIOUS
<1>1. CASE Call
  BY <1>1, CallKeepsLedger
<1>2. ASSUME NEW a \in Actors, Step(a) PROVE LedgerInv'
  BY <1>2, NodeKeepsLedger, StepKeepsLedger, ProposeKeepsLedger DEF Step, Nodes
<1>3. ASSUME NEW a \in Actors, Abort(a) PROVE LedgerInv'
  <2>1. actor' = [actor EXCEPT ![a] = Idle] /\ UNCHANGED <<rows, runs>> /\ TypeOK
    BY <1>3 DEF Abort, Become, IInv
  <2>2. Idle.pc = "idle"
    BY DEF Idle
  <2>. QED  BY <2>1, <2>2, IdleIsSound, MoveKeepsLedger
<1>4. ASSUME NEW s \in Symbols, Deliver(s) PROVE LedgerInv'
  BY <1>4, LedgerUnchanged DEF Deliver, counters
<1>5. CASE Tick \/ UNCHANGED vars
  BY <1>5, LedgerUnchanged DEF Tick, vars, counters
<1>. QED  BY <1>1, <1>2, <1>3, <1>4, <1>5 DEF Next

LEMMA InitLedger == Init => LedgerInv
<1>1. Idle.pc = "idle"
  BY DEF Idle
<1>. QED  BY <1>1 DEF Init, LedgerInv, Underway, Actors

\* The numbers of runs are unique in the ledger: every row, and every run that
\* is still under way, has a number of its own that was given out before.
THEOREM LedgerInvariance == Spec => []LedgerInv
BY InitIInv, NextKeepsIInv, InitLedger, NextKeepsLedger, PTL DEF Spec

\* Only WebUpdate and Propose write the ledger.
LEMMA RowsChangeBy ==
  ASSUME [Next]_vars, rows' # rows
  PROVE  \E a \in Actors : WebUpdate(a) \/ Propose(a)
<1>1. Call => UNCHANGED rows
  BY DEF Call, WebDecide, TelegramTap, StartRun
<1>2. ASSUME NEW a \in Actors, Step(a)
      PROVE  UNCHANGED rows \/ WebUpdate(a) \/ Propose(a)
  BY <1>2 DEF Step, Resolve, RecordThread, LoadRun, LoadResume, MathScreener,
       AnalyzeCatalyst, CalculateRisk, Rejected, Pause, Decide, DoNotExecute, OpenTrade,
       FinishExecution
<1>3. ASSUME NEW a \in Actors, Abort(a) PROVE UNCHANGED rows
  BY <1>3 DEF Abort
<1>4. ASSUME NEW s \in Symbols, Deliver(s) PROVE UNCHANGED rows
  BY <1>4 DEF Deliver
<1>5. Tick \/ UNCHANGED vars => UNCHANGED rows
  BY DEF Tick, vars
<1>. QED  BY <1>1, <1>2, <1>3, <1>4, <1>5 DEF Next

LEMMA StepKeepsDecidedRows ==
  ASSUME IInv, LedgerInv, [Next]_vars, NEW r \in RunIds,
         rows[r] # NoVal, rows[r].status # "PENDING"
  PROVE  rows'[r] = rows[r]
<1>1. CASE rows' = rows
  BY <1>1
<1>2. ASSUME NEW a \in Actors, WebUpdate(a) PROVE rows'[r] = rows[r]
  <2>1. actor[a].run \in RunIds
    BY <1>2 DEF WebUpdate, IInv, TypeOK, ActorSound, ActorState
  <2>. QED  BY <1>2, <2>1 DEF WebUpdate, IInv, TypeOK
<1>3. ASSUME NEW a \in Actors, Propose(a) PROVE rows'[r] = rows[r]
  BY <1>3, ProposeFillsOwnRow DEF RunSound
<1>. QED  BY <1>1, <1>2, <1>3, RowsChangeBy

\* A decided row of pending_proposals is never changed again: neither by
\* the other of two concurrent decisions (proposals.approve_proposal and
\* reject_proposal) nor by record_proposal of any later run.
THEOREM DecisionsAreFinal == Spec => DecidedRowsAreFinal
<1>1. IInv /\ LedgerInv /\ [Next]_vars =>
        [\A r \in RunIds :
           rows[r] # NoVal /\ rows[r].status # "PENDING" => rows'[r] = rows[r]]_vars
  BY StepKeepsDecidedRows
<1>. QED  BY <1>1, Invariance, LedgerInvariance, PTL DEF Spec, DecidedRowsAreFinal

=============================================================================
