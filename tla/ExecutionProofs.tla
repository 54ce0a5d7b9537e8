--------------------------- MODULE ExecutionProofs ---------------------------
(***************************************************************************)
(* Proofs about the trades TradingGraph opens, for every number of         *)
(* symbols, callers, runs and days: when a run can be filled twice, that a *)
(* fill follows the card a human saw, how many trades the decisions pay    *)
(* for, and at what price a late fill happens; and with them, that the     *)
(* pipeline implements ApprovalGate.                                       *)
(***************************************************************************)
EXTENDS TradingGraphProofs, FiniteSetTheorems

-----------------------------------------------------------------------------
(***************************************************************************)
(* Steps by what they do to the threads.  A quiet step writes no thread    *)
(* and loads none; if it ends an invocation at work, it notes that.        *)
(***************************************************************************)
Quiet ==
  /\ UNCHANGED <<thread, trades>>
  /\ disturbed \subseteq disturbed' /\ runs <= runs'
  /\ \A a \in Actors :
       /\ Loaded(a)' => actor'[a] = actor[a]
       /\ Loaded(a) => actor'[a] = actor[a] \/ ThreadOf(a) \in disturbed'
       /\ Waiting(a)' => \/ Waiting(a) /\ actor'[a].run = actor[a].run
                         \/ a \in RunActors /\ runs < actor'[a].run

Resumes(a) == LoadResume(a) /\ thread[ThreadOf(a)].next \notin {"absent", "end"}

MovesTo(a, me) ==
  actor'[a] = me /\ \A b \in Actors \ {a} : actor'[b] = actor[b]

LEMMA MoveIsQuiet ==
  ASSUME NEW a \in Actors,
         \A b \in Actors \ {a} : actor'[b] = actor[b],
         actor'[a].pc \notin {"node", "execute"},
         Loaded(a) => ThreadOf(a) \in disturbed',
         Waiting(a)' => \/ Waiting(a) /\ actor'[a].run = actor[a].run
                        \/ a \in RunActors /\ runs < actor'[a].run,
         UNCHANGED <<thread, trades>>, disturbed \subseteq disturbed', runs <= runs'
  PROVE  Quiet
<1>1. ASSUME NEW b \in Actors
      PROVE  /\ Loaded(b)' => actor'[b] = actor[b]
             /\ Loaded(b) => actor'[b] = actor[b] \/ ThreadOf(b) \in disturbed'
             /\ Waiting(b)' => \/ Waiting(b) /\ actor'[b].run = actor[b].run
                               \/ b \in RunActors /\ runs < actor'[b].run
  BY DEF Loaded, Waiting
<1>. QED  BY <1>1 DEF Quiet

LEMMA RunsIsNat ==
  ASSUME IInv
  PROVE  runs \in Nat /\ runs \in 0..MaxRuns
BY BoundsAssumption DEF IInv, TypeOK

LEMMA CallIsQuiet ==
  ASSUME IInv, Call
  PROVE  Quiet
<1>0. TypeOK /\ runs \in Nat
  BY RunsIsNat DEF IInv
<1>1. ASSUME NEW a \in WebActors, NEW r \in RunIds, NEW d \in HumanDecision,
             WebDecide(a, r, d)
      PROVE  Quiet
  <2> DEFINE me == [Idle EXCEPT !.pc = "update", !.sym = rows[r].sym, !.run = r, !.decision = d]
  <2>1. /\ a \in Actors /\ MovesTo(a, me) /\ ~Loaded(a)
        /\ UNCHANGED <<thread, trades, disturbed, runs>>
    BY <1>1 DEF MovesTo, IInv, TypeOK, Actors, WebDecide, Become, history, Loaded
  <2>2. me.pc = "update"
    BY DEF Idle
  <2>. HIDE DEF me
  <2>. QED  BY <1>0, <2>1, <2>2, MoveIsQuiet DEF MovesTo, Waiting
<1>2. ASSUME NEW a \in TelegramActors, NEW s \in Symbols, NEW d \in HumanDecision,
             TelegramTap(a, s, d)
      PROVE  Quiet
  <2> DEFINE me == [Idle EXCEPT !.pc = "resolve", !.sym = s, !.decision = d]
  <2>1. /\ a \in Actors /\ MovesTo(a, me) /\ ~Loaded(a)
        /\ UNCHANGED <<thread, trades, disturbed, runs>>
    BY <1>2 DEF MovesTo, IInv, TypeOK, Actors, TelegramTap, Become, history, Loaded
  <2>2. me.pc = "resolve"
    BY DEF Idle
  <2>. HIDE DEF me
  <2>. QED  BY <1>0, <2>1, <2>2, MoveIsQuiet DEF MovesTo, Waiting
<1>3. ASSUME NEW a \in RunActors, NEW s \in Symbols, NEW snapshot \in {NoVal, price[s]},
             StartRun(a, s, snapshot)
      PROVE  Quiet
  <2> DEFINE me == [Idle EXCEPT !.pc = "record", !.sym = s, !.day = today,
                                !.run = runs + 1, !.snapshot = snapshot]
  <2>1. /\ a \in Actors /\ MovesTo(a, me) /\ ~Loaded(a)
        /\ UNCHANGED <<thread, trades, disturbed>> /\ runs' = runs + 1
    BY <1>3 DEF MovesTo, IInv, TypeOK, Actors, StartRun, Become, history, Loaded
  <2>2. me.pc = "record" /\ me.run = runs + 1
    BY DEF Idle
  <2>. HIDE DEF me
  <2>. QED  BY <1>0, <2>1, <2>2, MoveIsQuiet DEF MovesTo, Waiting
<1>. QED  BY <1>1, <1>2, <1>3 DEF Call

LEMMA PreparingIsQuiet ==
  ASSUME IInv, NEW a \in Actors,
         \/ WebUpdate(a) \/ Resolve(a) \/ RecordThread(a) \/ Propose(a)
         \/ (LoadResume(a) /\ ~Resumes(a)) \/ Abort(a)
  PROVE  Quiet
<1>0. TypeOK /\ runs \in Nat /\ actor[a] \in ActorState
  BY RunsIsNat DEF IInv, TypeOK
<1>i. Idle.pc = "idle"
  BY DEF Idle
<1>1. CASE WebUpdate(a)
  <2> DEFINE me == [actor[a] EXCEPT !.pc = "resolve"]
  <2>1. /\ MovesTo(a, me) /\ ~Loaded(a)
        /\ UNCHANGED <<thread, trades, disturbed, runs>>
    BY <1>0, <1>1 DEF WebUpdate, GoTo, history, counters, Loaded, TypeOK, MovesTo
  <2>2. me.pc = "resolve"
    BY <1>0 DEF ActorState
  <2>. HIDE DEF me
  <2>. QED  BY <1>0, <2>1, <2>2, MoveIsQuiet DEF MovesTo, Waiting
<1>2. CASE Resolve(a)
  <2>1. PICK day : actor' = [actor EXCEPT ![a].pc = "record", ![a].day = day]
    BY <1>2 DEF Resolve
  <2> DEFINE me == [actor[a] EXCEPT !.pc = "record", !.day = day]
  <2>2. /\ MovesTo(a, me) /\ ~Loaded(a)
        /\ UNCHANGED <<thread, trades, disturbed, runs>>
    BY <1>0, <1>2, <2>1 DEF Resolve, history, counters, Loaded, TypeOK, MovesTo
  <2>3. me.pc = "record" /\ me.decision # "NONE"
    BY <1>0, <1>2 DEF ActorState, Resolve, IInv, ActorSound
  <2>. HIDE DEF me
  <2>. QED  BY <1>0, <2>2, <2>3, MoveIsQuiet DEF MovesTo, Waiting
<1>3. CASE RecordThread(a)
  <2> DEFINE me == [actor[a] EXCEPT !.pc = "load"]
  <2>1. /\ MovesTo(a, me) /\ ~Loaded(a)
        /\ UNCHANGED <<thread, trades, disturbed, runs>>
    BY <1>0, <1>3 DEF RecordThread, GoTo, history, counters, Loaded, TypeOK, MovesTo
  <2>2. me.pc = "load" /\ me.run = actor[a].run /\ me.decision = actor[a].decision
    BY <1>0 DEF ActorState
  <2>3. me.decision = "NONE" => Waiting(a)
    BY <1>3, <2>2 DEF Waiting, RecordThread
  <2>. HIDE DEF me
  <2>. QED  BY <1>0, <2>1, <2>2, <2>3, MoveIsQuiet DEF MovesTo, Waiting
<1>4. CASE Propose(a)
  <2>1. /\ MovesTo(a, Idle) /\ ~Loaded(a)
        /\ UNCHANGED <<thread, trades, disturbed, runs>>
    BY <1>0, <1>4 DEF Propose, Become, history, counters, Loaded, TypeOK, MovesTo
  <2>. QED  BY <1>0, <1>i, <2>1, MoveIsQuiet DEF MovesTo, Waiting
<1>5. CASE LoadResume(a) /\ ~Resumes(a)
  <2>1. /\ MovesTo(a, Idle) /\ ~Loaded(a)
        /\ UNCHANGED <<thread, trades, runs>> /\ disturbed \subseteq disturbed'
    BY <1>0, <1>5 DEF LoadResume, Resumes, Become, NoteOverlap, counters, Loaded, TypeOK, MovesTo
  <2>. QED  BY <1>0, <1>i, <2>1, MoveIsQuiet DEF MovesTo, Waiting
<1>6. CASE Abort(a)
  <2>1. /\ MovesTo(a, Idle)
        /\ Loaded(a) => ThreadOf(a) \in disturbed'
        /\ UNCHANGED <<thread, trades, runs>> /\ disturbed \subseteq disturbed'
    BY <1>0, <1>6 DEF Abort, Become, TypeOK, MovesTo
  <2>. QED  BY <1>0, <1>i, <2>1, MoveIsQuiet DEF MovesTo, Waiting
<1>. QED  BY <1>1, <1>2, <1>3, <1>4, <1>5, <1>6

\* Every step is quiet, loads a thread, opens a trade or writes a thread.
LEMMA StepKinds ==
  ASSUME IInv, [Next]_vars
  PROVE  \/ Quiet
         \/ \E a \in Actors : LoadRun(a) \/ Resumes(a) \/ OpenTrade(a) \/ Nodes(a)
<1>1. CASE Call
  BY <1>1, CallIsQuiet
<1>2. ASSUME NEW a \in Actors, Step(a)
      PROVE  Quiet \/ LoadRun(a) \/ Resumes(a) \/ OpenTrade(a) \/ Nodes(a)
  BY <1>2, PreparingIsQuiet DEF Step, Nodes, Resumes
<1>3. ASSUME NEW a \in Actors, Abort(a) PROVE Quiet
  BY <1>3, PreparingIsQuiet
<1>4. ASSUME UNCHANGED <<thread, trades, disturbed, runs, actor>> PROVE Quiet
  BY <1>4, RunsIsNat DEF Quiet, Waiting
<1>5. ASSUME NEW s \in Symbols, Deliver(s) PROVE Quiet
  BY <1>4, <1>5 DEF Deliver, counters, history
<1>6. CASE Tick \/ UNCHANGED vars
  BY <1>4, <1>6 DEF Tick, vars, counters, history
<1>. QED  BY <1>1, <1>2, <1>3, <1>5, <1>6 DEF Next

(***************************************************************************)
(* A working step, of an invocation that loads a thread or has loaded it:  *)
(* it touches its own thread only, and to load one that another has loaded *)
(* disturbs it.                                                            *)
(***************************************************************************)
Works(a) ==
  /\ ThreadOf(a) \in Symbols \X Days
  /\ \A b \in Actors \ {a} : actor'[b] = actor[b]
  /\ \A t \in Symbols \X Days : t # ThreadOf(a) => thread'[t] = thread[t]
  /\ Loaded(a)' =>
       /\ actor'[a].sym = actor[a].sym /\ actor'[a].day = actor[a].day
       /\ \/ actor'[a].cp = thread'[ThreadOf(a)]
          \/ Loaded(a) /\ UNCHANGED thread /\ actor'[a].cp = actor[a].cp
  /\ ~Loaded(a) /\ Overlaps(a) => ThreadOf(a) \in disturbed'
  /\ Waiting(a)' => FALSE
  /\ disturbed \subseteq disturbed' /\ UNCHANGED runs

\* What the two ways to load a thread make of it.
LEMMA LoadRunWorks ==
  ASSUME IInv, NEW a \in Actors, LoadRun(a)
  PROVE  /\ Works(a) /\ ~Loaded(a) /\ Waiting(a) /\ UNCHANGED trades
         /\ actor[a].run \in RunIds
         /\ thread'[ThreadOf(a)].run = actor[a].run
         /\ thread'[ThreadOf(a)].next = "math_screener"
         /\ actor'[a].cp = thread'[ThreadOf(a)] /\ actor'[a].pc = "node"
<1>1. /\ actor[a] \in ActorState /\ actor[a].sym \in Symbols /\ actor[a].day \in Days
      /\ actor[a].run \in RunIds /\ ThreadOf(a) \in Symbols \X Days
  BY DEF LoadRun, IInv, TypeOK, ActorSound, ActorState, ThreadOf
<1>2. thread[ThreadOf(a)] \in Checkpoint
  BY <1>1 DEF IInv, TypeOK
<1>3. PICK cp : cp = WithInput(thread[ThreadOf(a)], actor[a].run, actor[a].snapshot)
  OBVIOUS
<1>4. cp.run = actor[a].run /\ cp.next = "math_screener"
  BY <1>2, <1>3 DEF WithInput, Checkpoint
<1>5. /\ thread' = [thread EXCEPT ![ThreadOf(a)] = cp]
      /\ actor' = [actor EXCEPT ![a].pc = "node", ![a].cp = cp]
  BY <1>3 DEF LoadRun
<1>6. /\ thread'[ThreadOf(a)] = cp
      /\ \A t \in Symbols \X Days : t # ThreadOf(a) => thread'[t] = thread[t]
  BY <1>1, <1>5 DEF IInv, TypeOK
<1>7. /\ actor'[a] = [actor[a] EXCEPT !.pc = "node", !.cp = cp]
      /\ \A b \in Actors \ {a} : actor'[b] = actor[b]
  BY <1>5 DEF IInv, TypeOK
<1>8. /\ actor'[a].pc = "node" /\ actor'[a].cp = cp
      /\ actor'[a].sym = actor[a].sym /\ actor'[a].day = actor[a].day
  BY <1>1, <1>7 DEF ActorState
<1>9. ~Loaded(a) /\ Waiting(a)
  BY DEF LoadRun, Loaded, Waiting
<1>10. /\ disturbed \subseteq disturbed' /\ UNCHANGED <<runs, trades>>
       /\ Overlaps(a) => ThreadOf(a) \in disturbed'
  BY DEF LoadRun, NoteOverlap, counters
<1>11. Waiting(a)' => FALSE
  BY <1>8 DEF Waiting
<1>. QED  BY <1>1, <1>4, <1>6, <1>7, <1>8, <1>9, <1>10, <1>11 DEF Works

LEMMA ResumeWorks ==
  ASSUME IInv, NEW a \in Actors, Resumes(a)
  PROVE  /\ Works(a) /\ ~Loaded(a) /\ actor[a].decision # "NONE"
         /\ UNCHANGED <<thread, trades>>
         /\ actor'[a].cp = thread[ThreadOf(a)] /\ actor'[a].pc = "node"
<1>1. /\ actor[a] \in ActorState /\ actor[a].sym \in Symbols /\ actor[a].day \in Days
      /\ ThreadOf(a) \in Symbols \X Days
  BY DEF Resumes, LoadResume, IInv, TypeOK, ActorSound, ActorState, ThreadOf
<1>2. PICK cp, d : /\ cp = thread[ThreadOf(a)]
                   /\ actor' = [actor EXCEPT ![a].pc = "node", ![a].cp = cp, ![a].decision = d]
  BY DEF Resumes, LoadResume
<1>3. /\ actor'[a] = [actor[a] EXCEPT !.pc = "node", !.cp = cp, !.decision = d]
      /\ \A b \in Actors \ {a} : actor'[b] = actor[b]
  BY <1>2 DEF IInv, TypeOK
<1>4. /\ actor'[a].pc = "node" /\ actor'[a].cp = cp
      /\ actor'[a].sym = actor[a].sym /\ actor'[a].day = actor[a].day
  BY <1>1, <1>3 DEF ActorState
<1>5. ~Loaded(a) /\ actor[a].decision # "NONE"
  BY DEF Resumes, LoadResume, Loaded
<1>6. /\ disturbed \subseteq disturbed' /\ UNCHANGED <<runs, trades, thread>>
      /\ Overlaps(a) => ThreadOf(a) \in disturbed'
  BY DEF Resumes, LoadResume, NoteOverlap, counters
<1>7. Waiting(a)' => FALSE
  BY <1>4 DEF Waiting
<1>. QED  BY <1>1, <1>2, <1>3, <1>4, <1>5, <1>6, <1>7 DEF Works

\* What opening a trade does to the invocation and to the ledger of trades.
TradeOf(a) ==
  [sym |-> actor[a].sym, day |-> actor[a].day, order |-> actor[a].cp.order,
   shownAt |-> actor[a].cp.shownAt, decidedAt |-> actor[a].cp.cardAt,
   at |-> now, quote |-> price[actor[a].sym]]

LEMMA OpenTradeWorks ==
  ASSUME IInv, NEW a \in Actors, OpenTrade(a)
  PROVE  /\ Works(a) /\ Loaded(a) /\ UNCHANGED <<thread, disturbed>>
         /\ actor[a].pc = "node" /\ actor[a].cp.next = "paper_execute"
         /\ actor'[a].pc = "execute" /\ actor'[a].cp = actor[a].cp
         /\ actor'[a].decision = actor[a].decision
         /\ actor'[a].sym = actor[a].sym /\ actor'[a].day = actor[a].day
         /\ TradeOf(a) \in Trade /\ ThreadOfTrade(TradeOf(a)) = ThreadOf(a)
         /\ TradeOf(a).order.run = actor[a].cp.run
         /\ trades \in Seq(Trade) /\ trades' = Append(trades, TradeOf(a))
<1>1. actor[a].pc = "node" /\ actor[a].cp.next = "paper_execute" /\ Loaded(a)
  BY DEF OpenTrade, AtNode, Loaded
<1>2. /\ actor[a].sym \in Symbols /\ actor[a].day \in Days
      /\ SoundCheckpoint(actor[a].cp) /\ actor[a].cp \in Checkpoint
      /\ actor[a] \in ActorState /\ ThreadOf(a) \in Symbols \X Days
  BY <1>1, AtNodeIsSound DEF IInv, TypeOK, ThreadOf
<1>3. /\ actor[a].cp.order \in Order /\ actor[a].cp.order.run = actor[a].cp.run
      /\ actor[a].cp.cardAt \in Nat /\ actor[a].cp.shownAt \in Nat \cup {NoVal}
  BY <1>1, <1>2 DEF SoundCheckpoint, Checkpoint, Ordered
<1>4. price[actor[a].sym] \in Prices
  BY <1>2 DEF IInv, TypeOK
<1>5. TradeOf(a) \in Trade
  BY <1>2, <1>3, <1>4, NowIsNat DEF TradeOf, Trade
<1>6. /\ ThreadOfTrade(TradeOf(a)) = ThreadOf(a)
      /\ TradeOf(a).order.run = actor[a].cp.run
  BY <1>3 DEF TradeOf, ThreadOfTrade, ThreadOf
<1>7. /\ actor'[a] = [actor[a] EXCEPT !.pc = "execute"]
      /\ \A b \in Actors \ {a} : actor'[b] = actor[b]
  BY DEF OpenTrade, GoTo, IInv, TypeOK
<1>8. /\ actor'[a].pc = "execute" /\ actor'[a].cp = actor[a].cp
      /\ actor'[a].decision = actor[a].decision
      /\ actor'[a].sym = actor[a].sym /\ actor'[a].day = actor[a].day
  BY <1>2, <1>7 DEF ActorState
<1>9. /\ UNCHANGED <<thread, disturbed, runs>>
      /\ trades \in Seq(Trade) /\ trades' = Append(trades, TradeOf(a))
  BY DEF OpenTrade, TradeOf, IInv, TypeOK, counters, history
<1>10. Waiting(a)' => FALSE
  BY <1>8 DEF Waiting
<1>11. Works(a)
  BY <1>1, <1>2, <1>7, <1>8, <1>9, <1>10 DEF Works
<1>. QED  BY <1>1, <1>5, <1>6, <1>8, <1>9, <1>11

LEMMA NodeWorks ==
  ASSUME IInv, NEW a \in Actors, Nodes(a),
         NEW cp, NEW label \in {"idle", "node", "propose"}, NodeWrite(a, cp, label)
  PROVE  /\ Works(a) /\ Loaded(a) /\ UNCHANGED <<trades, disturbed>>
         /\ thread'[ThreadOf(a)] = cp
         /\ actor'[a].pc = label
         /\ label # "idle" => /\ actor'[a].cp = cp
                              /\ actor'[a].decision = actor[a].decision
<1>1. /\ Loaded(a) /\ actor[a] \in ActorState
      /\ actor[a].sym \in Symbols /\ actor[a].day \in Days
      /\ ThreadOf(a) \in Symbols \X Days
  BY NodeWrites, AtNodeIsSound DEF Loaded, IInv, TypeOK, ThreadOf
<1>2. Put(a, cp, label)
  BY DEF NodeWrite
<1>3. /\ thread'[ThreadOf(a)] = cp
      /\ \A t \in Symbols \X Days : t # ThreadOf(a) => thread'[t] = thread[t]
  BY <1>1, <1>2 DEF Put, IInv, TypeOK
<1>4. /\ actor'[a] = IF label = "idle" THEN Idle ELSE [actor[a] EXCEPT !.pc = label, !.cp = cp]
      /\ \A b \in Actors \ {a} : actor'[b] = actor[b]
  BY <1>2 DEF Put, IInv, TypeOK
<1>5. /\ actor'[a].pc = label
      /\ label # "idle" =>
           /\ actor'[a].cp = cp /\ actor'[a].decision = actor[a].decision
           /\ actor'[a].sym = actor[a].sym /\ actor'[a].day = actor[a].day
  BY <1>1, <1>4 DEF Idle, ActorState
<1>6. UNCHANGED <<trades, disturbed, runs>>
  BY NodeWrites DEF history, counters
<1>7. (Waiting(a)' => FALSE) /\ (Loaded(a)' => label = "node")
  BY <1>5 DEF Waiting, Loaded
<1>8. Works(a)
  BY <1>1, <1>3, <1>4, <1>5, <1>6, <1>7 DEF Works
<1>. QED  BY <1>1, <1>3, <1>5, <1>6, <1>8

LEMMA WorkingSteps ==
  ASSUME IInv, NEW a \in Actors, LoadRun(a) \/ Resumes(a) \/ OpenTrade(a) \/ Nodes(a)
  PROVE  Works(a)
BY LoadRunWorks, ResumeWorks, OpenTradeWorks, NodeWorks, NodeWrites

-----------------------------------------------------------------------------
(***************************************************************************)
(* AloneInv.                                                               *)
(***************************************************************************)
LEMMA QuietKeepsAlone ==
  ASSUME AloneInv, Quiet
  PROVE  AloneInv'
<1>. SUFFICES ASSUME NEW b \in Actors, Loaded(b)', ThreadOf(b)' \notin disturbed'
              PROVE  actor'[b].cp = thread'[ThreadOf(b)'] /\ ~Overlaps(b)'
  BY DEF AloneInv
<1>1. \A c \in Actors : Loaded(c)' => /\ actor'[c] = actor[c]
                                      /\ Loaded(c) /\ ThreadOf(c)' = ThreadOf(c)
  BY DEF Quiet, Loaded, ThreadOf
<1>2. ThreadOf(b) \notin disturbed
  BY <1>1 DEF Quiet
<1>3. actor[b].cp = thread[ThreadOf(b)] /\ ~Overlaps(b)
  BY <1>1, <1>2 DEF AloneInv
<1>4. ~Overlaps(b)'
  BY <1>1, <1>3 DEF Overlaps
<1>5. actor'[b].cp = thread'[ThreadOf(b)']
  BY <1>1, <1>3 DEF Quiet
<1>. QED  BY <1>4, <1>5

\* Whoever else has loaded the thread an invocation works on, disturbs it.
LEMMA WorksAlone ==
  ASSUME AloneInv, NEW a \in Actors, Works(a), ThreadOf(a) \notin disturbed',
         NEW b \in Actors \ {a}, Loaded(b)
  PROVE  ThreadOf(b) # ThreadOf(a)
<1>. SUFFICES ASSUME ThreadOf(b) = ThreadOf(a) PROVE FALSE
  OBVIOUS
<1>1. Overlaps(a)
  BY DEF Overlaps
<1>2. CASE ~Loaded(a)
  BY <1>1, <1>2 DEF Works
<1>3. CASE Loaded(a)
  BY <1>1, <1>3 DEF Works, AloneInv
<1>. QED  BY <1>2, <1>3

LEMMA WorkKeepsAlone ==
  ASSUME IInv, AloneInv, NEW a \in Actors, Works(a)
  PROVE  AloneInv'
<1>. SUFFICES ASSUME NEW b \in Actors, Loaded(b)', ThreadOf(b)' \notin disturbed'
              PROVE  actor'[b].cp = thread'[ThreadOf(b)'] /\ ~Overlaps(b)'
  BY DEF AloneInv
<1>1. \A c \in Actors \ {a} : /\ actor'[c] = actor[c] /\ ThreadOf(c)' = ThreadOf(c)
                              /\ Loaded(c)' <=> Loaded(c)
  BY DEF Works, Loaded, ThreadOf
<1>2. Loaded(a)' => ThreadOf(a)' = ThreadOf(a)
  BY DEF Works, ThreadOf
<1>3. CASE b = a
  <2>1. ThreadOf(a) \notin disturbed' /\ ThreadOf(a) \notin disturbed
    BY <1>2, <1>3 DEF Works
  <2>2. ~Overlaps(a)'
    BY <1>1, <1>2, <1>3, <2>1, WorksAlone DEF Overlaps
  <2>3. actor'[a].cp = thread'[ThreadOf(a)]
    BY <1>3, <2>1 DEF Works, AloneInv
  <2>. QED  BY <1>2, <1>3, <2>2, <2>3
<1>4. CASE b # a
  <2>1. Loaded(b) /\ ThreadOf(b) \notin disturbed' /\ ThreadOf(b) \notin disturbed
    BY <1>1, <1>4 DEF Works
  <2>2. actor[b].cp = thread[ThreadOf(b)] /\ ~Overlaps(b)
    BY <2>1 DEF AloneInv
  <2>3. ThreadOf(b) # ThreadOf(a)
    BY <1>4, <2>1, WorksAlone
  <2>4. ~Overlaps(b)'
    BY <1>1, <1>2, <1>4, <2>2, <2>3 DEF Overlaps
  <2>5. ThreadOf(b) \in Symbols \X Days
    BY <2>1, AtNodeIsSound DEF Loaded, ThreadOf
  <2>6. thread'[ThreadOf(b)] = thread[ThreadOf(b)]
    BY <2>3, <2>5 DEF Works
  <2>. QED  BY <1>1, <1>4, <2>2, <2>4, <2>6
<1>. QED  BY <1>3, <1>4

LEMMA NextKeepsAlone == IInv /\ AloneInv /\ [Next]_vars => AloneInv'
BY StepKinds, QuietKeepsAlone, WorkingSteps, WorkKeepsAlone

-----------------------------------------------------------------------------
(***************************************************************************)
(* CardInv.                                                                *)
(***************************************************************************)
Reached(t) ==
  /\ thread[t].next = "paper_execute" => thread[t].shownAt # NoVal
  /\ thread[t].next = "human_approval" /\ thread[t].shownAt = NoVal =>
       \E a \in Actors : Loaded(a) /\ ThreadOf(a) = t /\ actor[a].decision = "NONE"

LEMMA CardInvIs ==
  CardInv <=> FillFollowsCard /\ \A t \in (Symbols \X Days) \ disturbed : Reached(t)
BY DEF CardInv, Reached

\* The trades of a longer log, one by one.
LEMMA TradesOfAppend ==
  ASSUME trades \in Seq(Trade), NEW trade \in Trade, trades' = Append(trades, trade)
  PROVE  /\ DOMAIN trades = 1..Len(trades) /\ DOMAIN trades' = 1..Len(trades) + 1
         /\ Len(trades) \in Nat /\ Len(trades') = Len(trades) + 1
         /\ \A i \in DOMAIN trades' :
              \/ i \in DOMAIN trades /\ trades'[i] = trades[i]
              \/ i = Len(trades) + 1 /\ trades'[i] = trade
OBVIOUS

LEMMA FillsStayCarded ==
  ASSUME FillFollowsCard, UNCHANGED trades, disturbed \subseteq disturbed'
  PROVE  FillFollowsCard'
BY DEF FillFollowsCard

LEMMA OpenTradeFollowsCard ==
  ASSUME IInv, AloneInv, CardInv, NEW a \in Actors, OpenTrade(a)
  PROVE  FillFollowsCard'
<1>. SUFFICES ASSUME NEW i \in DOMAIN trades'
              PROVE  \/ <<trades'[i].sym, trades'[i].day>> \in disturbed'
                     \/ trades'[i].shownAt # NoVal
  BY DEF FillFollowsCard
<1>1. /\ ThreadOf(a) \in Symbols \X Days /\ Loaded(a) /\ actor[a].cp.next = "paper_execute"
      /\ UNCHANGED disturbed
      /\ TradeOf(a) \in Trade /\ trades \in Seq(Trade) /\ trades' = Append(trades, TradeOf(a))
  BY OpenTradeWorks DEF Works
<1>2. CASE i \in DOMAIN trades /\ trades'[i] = trades[i]
  BY <1>1, <1>2 DEF CardInv, FillFollowsCard
<1>3. CASE trades'[i] = TradeOf(a)
  <2>1. /\ <<trades'[i].sym, trades'[i].day>> = ThreadOf(a)
        /\ trades'[i].shownAt = actor[a].cp.shownAt
    BY <1>3 DEF TradeOf, ThreadOf
  <2>2. ASSUME ThreadOf(a) \notin disturbed PROVE actor[a].cp.shownAt # NoVal
    BY <1>1, <2>2 DEF AloneInv, CardInv
  <2>. QED  BY <1>1, <2>1, <2>2
<1>. QED  BY <1>1, <1>2, <1>3, TradesOfAppend

LEMMA QuietKeepsCard ==
  ASSUME CardInv, Quiet
  PROVE  CardInv'
<1>1. FillFollowsCard'
  BY FillsStayCarded DEF Quiet, CardInv
<1>2. ASSUME NEW t \in (Symbols \X Days) \ disturbed' PROVE Reached(t)'
  <2>1. Reached(t) /\ UNCHANGED thread
    BY CardInvIs DEF Quiet
  <2>2. \A a \in Actors : Loaded(a) /\ ThreadOf(a) = t =>
          actor'[a] = actor[a] /\ Loaded(a)' /\ ThreadOf(a)' = t
    BY DEF Quiet, Loaded, ThreadOf
  <2>. QED  BY <2>1, <2>2 DEF Reached
<1>3. CardInv' <=> FillFollowsCard' /\ \A t \in (Symbols \X Days) \ disturbed' : Reached(t)'
  BY DEF CardInv, Reached
<1>. QED  BY <1>1, <1>2, <1>3

\* A step on one thread leaves the others as they were.
LEMMA WorkElsewhere ==
  ASSUME CardInv, NEW a \in Actors, Works(a),
         NEW t \in (Symbols \X Days) \ disturbed', t # ThreadOf(a)
  PROVE  Reached(t)'
<1>1. Reached(t)
  BY CardInvIs DEF Works
<1>2. \A b \in Actors : Loaded(b) /\ ThreadOf(b) = t =>
        actor'[b] = actor[b] /\ Loaded(b)' /\ ThreadOf(b)' = t
  BY DEF Works, Loaded, ThreadOf
<1>. QED  BY <1>1, <1>2 DEF Reached, Works

LEMMA WorkKeepsCard ==
  ASSUME IInv, AloneInv, CardInv, NEW a \in Actors,
         LoadRun(a) \/ Resumes(a) \/ OpenTrade(a) \/ Nodes(a)
  PROVE  CardInv'
<1>1. Works(a)
  BY WorkingSteps
<1>2. FillFollowsCard'
  <2>1. OpenTrade(a) \/ UNCHANGED trades
    BY LoadRunWorks, ResumeWorks, NodeWrites
  <2>2. disturbed \subseteq disturbed' /\ FillFollowsCard
    BY <1>1 DEF Works, CardInv
  <2>. QED  BY <2>1, <2>2, OpenTradeFollowsCard, FillsStayCarded
<1>3. ASSUME NEW t \in (Symbols \X Days) \ disturbed', t = ThreadOf(a)
      PROVE  Reached(t)'
  <2>1. t \in (Symbols \X Days) \ disturbed /\ ThreadOf(a) \notin disturbed'
    BY <1>1, <1>3 DEF Works
  <2>2. Reached(t)
    BY <2>1, CardInvIs
  <2>3. CASE LoadRun(a)
    BY <1>3, <2>3, LoadRunWorks DEF Reached
  <2>4. CASE Resumes(a)
    <3>1. \A b \in Actors : Loaded(b) => ThreadOf(b) # t
      BY <1>1, <1>3, <2>1, <2>4, WorksAlone, ResumeWorks
    <3>. QED  BY <2>2, <2>4, <3>1, ResumeWorks DEF Reached
  <2>5. CASE OpenTrade(a)
    <3>1. \A b \in Actors : Loaded(b) /\ ThreadOf(b) = t => b = a
      BY <1>1, <1>3, <2>1, WorksAlone
    <3>2. Loaded(a)' /\ ThreadOf(a)' = t /\ actor'[a].decision = actor[a].decision
      BY <1>3, <2>5, OpenTradeWorks DEF Loaded, ThreadOf
    <3>. QED  BY <2>2, <2>5, <3>1, <3>2, OpenTradeWorks DEF Reached
  <2>6. CASE Nodes(a)
    <3>1. PICK cp \in Checkpoint : \E label \in {"idle", "node", "propose"} :
            NodeWrite(a, cp, label)
      BY <2>6, NodeWrites
    <3>2. PICK label \in {"idle", "node", "propose"} : NodeWrite(a, cp, label)
      BY <3>1
    <3>3. /\ thread'[t] = cp /\ actor'[a].pc = label
          /\ label # "idle" => actor'[a].decision = actor[a].decision
      BY <1>3, <2>6, <3>2, NodeWorks
    <3>4. CASE cp.next = "paper_execute"
      <4>1. /\ actor[a].cp.next = "human_approval" /\ actor[a].decision # "NONE"
            /\ cp.shownAt = actor[a].cp.shownAt
        BY <3>2, <3>4 DEF NodeWrite
      <4>2. actor[a].cp = thread[t]
        BY <1>3, <2>1, <2>6, NodeWrites DEF AloneInv
      <4>3. \A b \in Actors : Loaded(b) /\ ThreadOf(b) = t => b = a
        BY <1>1, <1>3, <2>1, WorksAlone
      <4>. QED  BY <2>2, <3>3, <3>4, <4>1, <4>2, <4>3 DEF Reached
    <3>5. CASE cp.next = "human_approval"
      <4>1. CASE cp.shownAt # NoVal
        BY <3>3, <3>5, <4>1 DEF Reached
      <4>2. CASE label = "node" /\ actor[a].decision = "NONE"
        <5>1. Loaded(a)' /\ ThreadOf(a)' = t /\ actor'[a].decision = "NONE"
          BY <1>1, <1>3, <3>3, <4>2 DEF Loaded, Works, ThreadOf
        <5>. QED  BY <3>3, <3>5, <5>1 DEF Reached
      <4>. QED  BY <3>2, <3>5, <4>1, <4>2 DEF NodeWrite
    <3>. QED  BY <3>3, <3>4, <3>5 DEF Reached
  <2>. QED  BY <2>3, <2>4, <2>5, <2>6
<1>4. \A t \in (Symbols \X Days) \ disturbed' : Reached(t)'
  BY <1>1, <1>3, WorkElsewhere
<1>5. CardInv' <=> FillFollowsCard' /\ \A t \in (Symbols \X Days) \ disturbed' : Reached(t)'
  BY DEF CardInv, Reached
<1>. QED  BY <1>2, <1>4, <1>5

LEMMA NextKeepsCard == IInv /\ AloneInv /\ CardInv /\ [Next]_vars => CardInv'
BY StepKinds, QuietKeepsCard, WorkKeepsCard

-----------------------------------------------------------------------------
(***************************************************************************)
(* HomeInv.  No step but LoadRun puts a run number where it was not, and   *)
(* LoadRun writes the number of a call, which nobody else holds.           *)
(***************************************************************************)
Spreads == \E r \in RunIds : \E t \in Symbols \X Days : HeldAt(r, t)' /\ ~HeldAt(r, t)

LEMMA NoSpreadKeepsHome ==
  ASSUME IInv, IInv', HomeInv, ~Spreads, runs <= runs',
         \A a \in Actors : Waiting(a)' =>
           \/ Waiting(a) /\ actor'[a].run = actor[a].run
           \/ a \in RunActors /\ runs < actor'[a].run
  PROVE  HomeInv'
<1>1. \A r \in RunIds : \A t \in Symbols \X Days : HeldAt(r, t)' => HeldAt(r, t)
  BY DEF Spreads
<1>2. \A r \in RunIds : \A t, u \in Symbols \X Days : HeldAt(r, t)' /\ HeldAt(r, u)' => t = u
  BY <1>1 DEF HomeInv
<1>3. RunIds \subseteq Nat /\ runs \in Nat /\ runs' \in Nat
  BY BoundsAssumption DEF RunIds, IInv, TypeOK
<1>4. ASSUME NEW r \in RunIds, NEW t \in Symbols \X Days, HeldAt(r, t)'
      PROVE  r <= runs'
  <2>1. r <= runs /\ r \in Nat
    BY <1>1, <1>3, <1>4 DEF HomeInv
  <2>. QED  BY <1>3, <2>1
<1>5. ASSUME NEW a \in Actors, Waiting(a)'
      PROVE  a \in RunActors /\ \A t \in Symbols \X Days : ~HeldAt(actor[a].run, t)'
  <2>1. PICK r \in RunIds : r = actor'[a].run
    BY <1>5 DEF Waiting, IInv, TypeOK, ActorSound, ActorState
  <2>2. CASE Waiting(a) /\ r = actor[a].run
    <3>1. a \in RunActors /\ \A t \in Symbols \X Days : ~HeldAt(r, t)
      BY <2>2 DEF HomeInv
    <3>2. \A t \in Symbols \X Days : ~HeldAt(r, t)'
      BY <1>1, <3>1
    <3>. QED  BY <2>1, <3>1, <3>2 DEF HeldAt
  <2>3. CASE a \in RunActors /\ runs < r
    <3>1. \A t \in Symbols \X Days : ~HeldAt(r, t)
      BY <1>3, <2>3 DEF HomeInv
    <3>2. \A t \in Symbols \X Days : ~HeldAt(r, t)'
      BY <1>1, <3>1
    <3>. QED  BY <2>1, <2>3, <3>2 DEF HeldAt
  <2>. QED  BY <1>5, <2>1, <2>2, <2>3
<1>. QED  BY <1>2, <1>4, <1>5 DEF HomeInv

LEMMA QuietKeepsHome ==
  ASSUME IInv, IInv', HomeInv, Quiet
  PROVE  HomeInv'
<1>1. ASSUME NEW r \in RunIds, NEW t \in Symbols \X Days, HeldAt(r, t)' PROVE HeldAt(r, t)
  BY <1>1 DEF HeldAt, Quiet, Loaded, ThreadOf, ThreadOfTrade
<1>. QED  BY <1>1, NoSpreadKeepsHome DEF Spreads, Quiet

\* A working step puts a number nowhere but on its thread and in its memory.
LEMMA WorkSpreads ==
  ASSUME NEW a \in Actors, Works(a), UNCHANGED trades,
         NEW r \in RunIds, NEW t \in Symbols \X Days, HeldAt(r, t)'
  PROVE  \/ HeldAt(r, t)
         \/ t = ThreadOf(a) /\ (thread'[t].run = r \/ (Loaded(a)' /\ actor'[a].cp.run = r))
<1>1. CASE thread'[t].run = r
  BY <1>1 DEF Works, HeldAt
<1>2. ASSUME NEW b \in Actors, Loaded(b)', ThreadOf(b)' = t, actor'[b].cp.run = r
      PROVE  HeldAt(r, t) \/ (t = ThreadOf(a) /\ Loaded(a)' /\ actor'[a].cp.run = r)
  <2>1. CASE b = a
    BY <1>2, <2>1 DEF Works, ThreadOf
  <2>2. CASE b # a
    BY <1>2, <2>2 DEF Works, ThreadOf, HeldAt, Loaded
  <2>. QED  BY <2>1, <2>2
<1>3. CASE \E i \in DOMAIN trades' : ThreadOfTrade(trades'[i]) = t /\ trades'[i].order.run = r
  BY <1>3 DEF HeldAt
<1>. QED  BY <1>1, <1>2, <1>3 DEF HeldAt

LEMMA LoadRunKeepsHome ==
  ASSUME IInv, LedgerInv, HomeInv, NEW a \in Actors, LoadRun(a)
  PROVE  HomeInv'
<1>1. PICK n \in RunIds : n = actor[a].run
  BY LoadRunWorks
<1>2. /\ Works(a) /\ ~Loaded(a) /\ Waiting(a) /\ UNCHANGED <<trades, runs>>
      /\ ThreadOf(a) \in Symbols \X Days
      /\ thread'[ThreadOf(a)].run = n /\ actor'[a].cp.run = n
      /\ actor'[a].pc = "node"
  BY <1>1, LoadRunWorks DEF Works
<1>3. a \in RunActors /\ n <= runs /\ \A t \in Symbols \X Days : ~HeldAt(n, t)
  BY <1>1, <1>2 DEF HomeInv, LedgerInv, RunSound, Underway, Waiting
<1>4. ASSUME NEW r \in RunIds, NEW t \in Symbols \X Days, HeldAt(r, t)'
      PROVE  HeldAt(r, t) \/ (r = n /\ t = ThreadOf(a))
  BY <1>2, <1>4, WorkSpreads
<1>5. \A r \in RunIds : \A t, u \in Symbols \X Days : HeldAt(r, t)' /\ HeldAt(r, u)' => t = u
  BY <1>3, <1>4 DEF HomeInv
<1>6. \A r \in RunIds : \A t \in Symbols \X Days : HeldAt(r, t)' => r <= runs'
  BY <1>2, <1>3, <1>4 DEF HomeInv
<1>7. ASSUME NEW b \in Actors, Waiting(b)'
      PROVE  b \in RunActors /\ \A t \in Symbols \X Days : ~HeldAt(actor[b].run, t)'
  <2>1. b # a
    BY <1>2, <1>7 DEF Waiting
  <2>2. actor'[b] = actor[b] /\ Waiting(b)
    BY <1>2, <1>7, <2>1 DEF Works, Waiting
  <2>3. PICK r \in RunIds : r = actor[b].run
    BY <2>2 DEF Waiting, IInv, TypeOK, ActorSound, ActorState
  <2>4. b \in RunActors /\ \A t \in Symbols \X Days : ~HeldAt(r, t)
    BY <2>2, <2>3 DEF HomeInv
  <2>5. r # n
    BY <1>1, <1>2, <1>3, <2>1, <2>2, <2>3, <2>4 DEF LedgerInv, Underway, Waiting
  <2>6. \A t \in Symbols \X Days : ~HeldAt(r, t)'
    BY <1>4, <2>4, <2>5
  <2>. QED  BY <2>2, <2>3, <2>4, <2>6 DEF HeldAt
<1>. QED  BY <1>5, <1>6, <1>7 DEF HomeInv

LEMMA WorkKeepsHome ==
  ASSUME IInv, IInv', HomeInv, NEW a \in Actors, Resumes(a) \/ OpenTrade(a) \/ Nodes(a)
  PROVE  HomeInv'
<1>1. Works(a) /\ ThreadOf(a) \in Symbols \X Days
  BY WorkingSteps DEF Works
<1>2. ASSUME NEW r \in RunIds, NEW t \in Symbols \X Days, HeldAt(r, t)' PROVE HeldAt(r, t)
  <2>1. CASE Resumes(a)
    BY <1>1, <1>2, <2>1, WorkSpreads, ResumeWorks DEF HeldAt
  <2>2. CASE Nodes(a)
    <3>1. PICK cp \in Checkpoint : \E label \in {"idle", "node", "propose"} :
            NodeWrite(a, cp, label)
      BY <2>2, NodeWrites
    <3>2. PICK label \in {"idle", "node", "propose"} : NodeWrite(a, cp, label)
      BY <3>1
    <3>3. /\ Loaded(a) /\ UNCHANGED trades /\ cp.run = actor[a].cp.run
          /\ thread'[ThreadOf(a)] = cp /\ (Loaded(a)' => actor'[a].cp = cp)
      BY <2>2, <3>2, NodeWorks DEF NodeWrite, Loaded
    <3>. QED  BY <1>1, <1>2, <3>3, WorkSpreads DEF HeldAt
  <2>3. CASE OpenTrade(a)
    <3>1. /\ Loaded(a) /\ UNCHANGED thread /\ actor'[a].cp = actor[a].cp
          /\ ThreadOfTrade(TradeOf(a)) = ThreadOf(a) /\ TradeOf(a).order.run = actor[a].cp.run
          /\ TradeOf(a) \in Trade /\ trades \in Seq(Trade) /\ trades' = Append(trades, TradeOf(a))
      BY <2>3, OpenTradeWorks
    <3>2. CASE thread'[t].run = r
      BY <3>1, <3>2 DEF HeldAt
    <3>3. ASSUME NEW b \in Actors, Loaded(b)', ThreadOf(b)' = t, actor'[b].cp.run = r
          PROVE  HeldAt(r, t)
      <4>1. Loaded(b) /\ ThreadOf(b) = t /\ actor[b].cp.run = r
        BY <1>1, <3>1, <3>3 DEF Works, Loaded, ThreadOf
      <4>. QED  BY <4>1 DEF HeldAt
    <3>4. ASSUME NEW i \in DOMAIN trades', ThreadOfTrade(trades'[i]) = t,
                 trades'[i].order.run = r
          PROVE  HeldAt(r, t)
      <4>1. CASE i \in DOMAIN trades /\ trades'[i] = trades[i]
        BY <3>4, <4>1 DEF HeldAt
      <4>2. CASE trades'[i] = TradeOf(a)
        BY <3>1, <3>4, <4>2 DEF HeldAt
      <4>. QED  BY <3>1, <4>1, <4>2, TradesOfAppend
    <3>. QED  BY <1>2, <3>2, <3>3, <3>4 DEF HeldAt
  <2>. QED  BY <2>1, <2>2, <2>3
<1>3. ASSUME NEW b \in Actors, Waiting(b)' PROVE Waiting(b) /\ actor'[b].run = actor[b].run
  BY <1>1, <1>3 DEF Works, Waiting
<1>4. runs <= runs'
  BY <1>1, RunsIsNat DEF Works
<1>. QED  BY <1>2, <1>3, <1>4, NoSpreadKeepsHome DEF Spreads

LEMMA NextKeepsHome == IInv /\ LedgerInv /\ HomeInv /\ [Next]_vars => HomeInv'
BY StepKinds, NextKeepsIInv, QuietKeepsHome, LoadRunKeepsHome, WorkKeepsHome

-----------------------------------------------------------------------------
(***************************************************************************)
(* OnceInv.                                                                *)
(***************************************************************************)
Settles(trade) ==
  LET t == ThreadOfTrade(trade) IN
  t \notin disturbed /\ thread[t].run = trade.order.run => thread[t].next = "end" \/ Finishing(t)

LEMMA OnceInvIs ==
  OnceInv <=> SecondFillNeedsDisturbance /\ \A i \in DOMAIN trades : Settles(trades[i])
BY DEF OnceInv, Settles

LEMMA TradesAreHeld ==
  ASSUME IInv, NEW i \in DOMAIN trades
  PROVE  /\ trades[i].order.run \in RunIds
         /\ ThreadOfTrade(trades[i]) \in Symbols \X Days
         /\ HeldAt(trades[i].order.run, ThreadOfTrade(trades[i]))
<1>1. trades[i] \in Trade
  BY DEF IInv, TypeOK
<1>. QED  BY <1>1 DEF Trade, Order, ThreadOfTrade, HeldAt

LEMMA QuietSettles ==
  ASSUME Quiet, NEW trade, Settles(trade)
  PROVE  Settles(trade)'
<1>1. PICK t : t = ThreadOfTrade(trade)
  OBVIOUS
<1>. SUFFICES ASSUME t \notin disturbed', thread'[t].run = trade.order.run
              PROVE  thread'[t].next = "end" \/ Finishing(t)'
  BY <1>1 DEF Settles, ThreadOfTrade
<1>2. thread[t].next = "end" \/ Finishing(t)
  BY <1>1 DEF Settles, Quiet
<1>3. ASSUME NEW b \in Actors, actor[b].pc = "execute", ThreadOf(b) = t
      PROVE  Finishing(t)'
  BY <1>3 DEF Quiet, Loaded, Finishing, ThreadOf
<1>. QED  BY <1>2, <1>3 DEF Finishing, Quiet

\* On another thread, and on its own unless it executes, a working step
\* takes no finishing invocation away.
LEMMA FinishingStays ==
  ASSUME NEW a \in Actors, Works(a), NEW t, Finishing(t),
         actor[a].pc # "execute" \/ ThreadOf(a) # t
  PROVE  Finishing(t)'
<1>1. PICK b \in Actors : actor[b].pc = "execute" /\ ThreadOf(b) = t
  BY DEF Finishing
<1>. QED  BY <1>1 DEF Works, Finishing, ThreadOf

LEMMA WorkElsewhereSettles ==
  ASSUME NEW a \in Actors, Works(a), NEW trade, Settles(trade),
         ThreadOfTrade(trade) \in Symbols \X Days,
         ThreadOfTrade(trade) # ThreadOf(a) \/ (UNCHANGED thread /\ actor[a].pc # "execute")
  PROVE  Settles(trade)'
<1>1. PICK t \in Symbols \X Days : t = ThreadOfTrade(trade)
  OBVIOUS
<1>. SUFFICES ASSUME t \notin disturbed', thread'[t].run = trade.order.run
              PROVE  thread'[t].next = "end" \/ Finishing(t)'
  BY <1>1 DEF Settles, ThreadOfTrade
<1>2. t \notin disturbed /\ thread'[t] = thread[t]
  BY <1>1 DEF Works
<1>3. thread[t].next = "end" \/ Finishing(t)
  BY <1>1, <1>2 DEF Settles
<1>. QED  BY <1>1, <1>2, <1>3, FinishingStays

LEMMA WorkSettles ==
  ASSUME IInv, AloneInv, HomeInv, NEW a \in Actors,
         LoadRun(a) \/ Resumes(a) \/ OpenTrade(a) \/ Nodes(a),
         NEW i \in DOMAIN trades, Settles(trades[i]), NEW trade, trade = trades[i]
  PROVE  Settles(trade)'
<1>1. /\ trade.order.run \in RunIds /\ ThreadOfTrade(trade) \in Symbols \X Days
      /\ HeldAt(trade.order.run, ThreadOfTrade(trade)) /\ Settles(trade)
  BY TradesAreHeld
<1>2. Works(a)
  BY WorkingSteps
<1>3. CASE ThreadOfTrade(trade) # ThreadOf(a)
  BY <1>1, <1>2, <1>3, WorkElsewhereSettles
<1>4. CASE Resumes(a) \/ OpenTrade(a)
  <2>1. UNCHANGED thread /\ actor[a].pc # "execute"
    BY <1>4, ResumeWorks, OpenTradeWorks DEF Loaded
  <2>. QED  BY <1>1, <1>2, <2>1, WorkElsewhereSettles
<1>5. PICK t \in Symbols \X Days : t = ThreadOfTrade(trade)
  BY <1>1
<1>6. CASE LoadRun(a) /\ t = ThreadOf(a)
  <2>1. thread'[t].run = actor[a].run /\ Waiting(a)
    BY <1>6, LoadRunWorks
  <2>2. trade.order.run # actor[a].run
    BY <1>1, <1>5, <2>1 DEF HomeInv
  <2>. QED  BY <1>5, <2>1, <2>2 DEF Settles, ThreadOfTrade
<1>7. CASE Nodes(a) /\ t = ThreadOf(a)
  <2>. SUFFICES ASSUME t \notin disturbed', thread'[t].run = trade.order.run
                PROVE  thread'[t].next = "end"
    BY <1>5 DEF Settles, ThreadOfTrade
  <2>1. PICK cp \in Checkpoint : \E label \in {"idle", "node", "propose"} :
          NodeWrite(a, cp, label)
    BY <1>7, NodeWrites
  <2>2. PICK label \in {"idle", "node", "propose"} : NodeWrite(a, cp, label)
    BY <2>1
  <2>3. /\ Loaded(a) /\ thread'[t] = cp /\ cp.run = actor[a].cp.run
        /\ actor[a].pc = "execute" => cp.next = "end"
    BY <1>7, <2>2, NodeWorks DEF NodeWrite
  <2>4. t \notin disturbed /\ actor[a].cp = thread[t]
    BY <1>2, <1>7, <2>3 DEF Works, AloneInv
  <2>5. thread[t].next = "end" \/ Finishing(t)
    BY <1>1, <1>5, <2>3, <2>4 DEF Settles
  <2>6. actor[a].cp.next # "end"
    BY <2>3 DEF Loaded, IInv, ActorSound, Node
  <2>7. \A b \in Actors : Loaded(b) /\ ThreadOf(b) = t => b = a
    BY <1>2, <1>7, WorksAlone
  <2>8. actor[a].pc = "execute"
    BY <2>4, <2>5, <2>6, <2>7 DEF Finishing, Loaded
  <2>. QED  BY <2>3, <2>8
<1>. QED  BY <1>3, <1>4, <1>5, <1>6, <1>7

LEMMA OpenTradeSettles ==
  ASSUME IInv, NEW a \in Actors, OpenTrade(a), NEW trade, trade = TradeOf(a)
  PROVE  Settles(trade)'
<1>1. PICK t : t = ThreadOf(a) /\ t = ThreadOfTrade(trade)
  BY OpenTradeWorks
<1>2. actor'[a].pc = "execute" /\ ThreadOf(a)' = t
  BY <1>1, OpenTradeWorks DEF ThreadOf
<1>3. Finishing(t)'
  BY <1>2 DEF Finishing
<1>. QED  BY <1>1, <1>3 DEF Settles, ThreadOfTrade

\* A second fill of a run finds the thread disturbed.
LEMMA OpenTradeTwice ==
  ASSUME IInv, AloneInv, HomeInv, OnceInv, NEW a \in Actors, OpenTrade(a),
         NEW i \in DOMAIN trades, trades[i].order.run = TradeOf(a).order.run
  PROVE  ThreadOfTrade(trades[i]) = ThreadOf(a) /\ ThreadOf(a) \in disturbed
<1>1. /\ Loaded(a) /\ actor[a].pc = "node" /\ actor[a].cp.next = "paper_execute"
      /\ ThreadOf(a) \in Symbols \X Days /\ TradeOf(a).order.run = actor[a].cp.run
  BY OpenTradeWorks DEF Works
<1>2. PICK r \in RunIds : r = trades[i].order.run /\ r = actor[a].cp.run
  BY <1>1, TradesAreHeld
<1>3. HeldAt(r, ThreadOf(a)) /\ HeldAt(r, ThreadOfTrade(trades[i]))
      /\ ThreadOfTrade(trades[i]) \in Symbols \X Days
  BY <1>1, <1>2, TradesAreHeld DEF HeldAt
<1>4. ThreadOfTrade(trades[i]) = ThreadOf(a)
  BY <1>1, <1>3 DEF HomeInv
<1>5. ASSUME ThreadOf(a) \notin disturbed PROVE FALSE
  <2>1. actor[a].cp = thread[ThreadOf(a)] /\ ~Overlaps(a)
    BY <1>1, <1>5 DEF AloneInv
  <2>2. Settles(trades[i])
    BY OnceInvIs
  <2>3. Finishing(ThreadOf(a))
    BY <1>1, <1>2, <1>4, <1>5, <2>1, <2>2 DEF Settles
  <2>4. PICK b \in Actors : actor[b].pc = "execute" /\ ThreadOf(b) = ThreadOf(a)
    BY <2>3 DEF Finishing
  <2>. QED  BY <1>1, <2>1, <2>4 DEF Overlaps, Loaded
<1>. QED  BY <1>4, <1>5

LEMMA FillsStaySingle ==
  ASSUME SecondFillNeedsDisturbance, UNCHANGED trades, disturbed \subseteq disturbed'
  PROVE  SecondFillNeedsDisturbance'
BY DEF SecondFillNeedsDisturbance

LEMMA OpenTradeStaysSingle ==
  ASSUME IInv, AloneInv, HomeInv, OnceInv, NEW a \in Actors, OpenTrade(a)
  PROVE  SecondFillNeedsDisturbance'
<1>. SUFFICES ASSUME NEW i \in DOMAIN trades', NEW j \in DOMAIN trades', i # j,
                     trades'[i].order.run = trades'[j].order.run
              PROVE  ThreadOfTrade(trades'[i]) \in disturbed'
  BY DEF SecondFillNeedsDisturbance, ThreadOfTrade
<1>1. /\ UNCHANGED disturbed /\ ThreadOfTrade(TradeOf(a)) = ThreadOf(a)
      /\ TradeOf(a) \in Trade /\ trades \in Seq(Trade) /\ trades' = Append(trades, TradeOf(a))
  BY OpenTradeWorks
<1>2. \A k \in DOMAIN trades' : \/ k \in DOMAIN trades /\ trades'[k] = trades[k]
                                \/ k = Len(trades) + 1 /\ trades'[k] = TradeOf(a)
  BY <1>1, TradesOfAppend
<1>3. CASE /\ i \in DOMAIN trades /\ trades'[i] = trades[i]
           /\ j \in DOMAIN trades /\ trades'[j] = trades[j]
  BY <1>1, <1>3 DEF OnceInv, SecondFillNeedsDisturbance, ThreadOfTrade
<1>4. CASE /\ i \in DOMAIN trades /\ trades'[i] = trades[i]
           /\ trades'[j] = TradeOf(a)
  BY <1>1, <1>4, OpenTradeTwice
<1>5. CASE /\ j \in DOMAIN trades /\ trades'[j] = trades[j]
           /\ trades'[i] = TradeOf(a)
  BY <1>1, <1>5, OpenTradeTwice
<1>. QED  BY <1>2, <1>3, <1>4, <1>5

LEMMA QuietKeepsOnce ==
  ASSUME OnceInv, Quiet
  PROVE  OnceInv'
<1>1. SecondFillNeedsDisturbance'
  BY FillsStaySingle DEF Quiet, OnceInv
<1>2. ASSUME NEW i \in DOMAIN trades' PROVE Settles(trades[i])'
  <2>1. PICK trade : trade = trades[i] /\ trade = trades'[i] /\ Settles(trade)
    BY OnceInvIs DEF Quiet
  <2>2. Settles(trade)'
    BY <2>1, QuietSettles
  <2>. QED  BY <2>1, <2>2 DEF Settles, ThreadOfTrade
<1>. QED  BY <1>1, <1>2 DEF OnceInv, Settles

LEMMA WorkKeepsOnce ==
  ASSUME IInv, AloneInv, HomeInv, OnceInv, NEW a \in Actors,
         LoadRun(a) \/ Resumes(a) \/ OpenTrade(a) \/ Nodes(a)
  PROVE  OnceInv'
<1>1. disturbed \subseteq disturbed' /\ (OpenTrade(a) \/ UNCHANGED trades)
  BY WorkingSteps, LoadRunWorks, ResumeWorks, NodeWrites DEF Works
<1>2. SecondFillNeedsDisturbance'
  BY <1>1, OpenTradeStaysSingle, FillsStaySingle DEF OnceInv
<1>3. ASSUME NEW i \in DOMAIN trades' PROVE Settles(trades[i])'
  <2>1. PICK trade : trade = trades'[i]
    OBVIOUS
  <2>2. CASE i \in DOMAIN trades /\ trades'[i] = trades[i]
    <3>1. Settles(trades[i])
      BY <2>2, OnceInvIs
    <3>2. Settles(trade)'
      BY <2>1, <2>2, <3>1, WorkSettles
    <3>. QED  BY <2>1, <3>2 DEF Settles, ThreadOfTrade
  <2>3. CASE OpenTrade(a) /\ trades'[i] = TradeOf(a)
    <3>1. Settles(trade)'
      BY <2>1, <2>3, OpenTradeSettles
    <3>. QED  BY <2>1, <3>1 DEF Settles, ThreadOfTrade
  <2>. QED  BY <1>1, <2>2, <2>3, OpenTradeWorks, TradesOfAppend
<1>. QED  BY <1>2, <1>3 DEF OnceInv, Settles

LEMMA NextKeepsOnce == IInv /\ AloneInv /\ HomeInv /\ OnceInv /\ [Next]_vars => OnceInv'
BY StepKinds, QuietKeepsOnce, WorkKeepsOnce

-----------------------------------------------------------------------------
(***************************************************************************)
(* BudgetInv.                                                              *)
(***************************************************************************)
LEMMA EndedStaysUnarmed ==
  ASSUME NEW a \in Actors, \A b \in Actors \ {a} : actor'[b] = actor[b],
         a \in Armed \/ a \in RunActors \/ actor'[a].pc \in {"idle", "execute", "propose"}
  PROVE  Armed' \subseteq Armed
BY DEF Armed

\* Only a decision arms an invocation, and only a trade disarms the log.
LEMMA BudgetSteps ==
  ASSUME IInv, LedgerInv, [Next]_vars
  PROVE  \/ /\ UNCHANGED trades /\ decisions <= decisions' /\ decisions' \in Int
            /\ Armed' \subseteq Armed
         \/ /\ UNCHANGED trades /\ decisions' = decisions + 1
            /\ \E a \in Actors \ RunActors : Armed' = Armed \cup {a}
         \/ \E a \in Actors : OpenTrade(a)
<1>0. decisions \in Nat /\ TypeOK
  BY BoundsAssumption DEF IInv, TypeOK
<1>i. Idle.pc = "idle"
  BY DEF Idle
<1>1. ASSUME NEW a \in WebActors, NEW r \in RunIds, NEW d \in HumanDecision,
             WebDecide(a, r, d)
      PROVE  /\ UNCHANGED trades /\ decisions' = decisions + 1
             /\ \E b \in Actors \ RunActors : Armed' = Armed \cup {b}
  <2>1. /\ a \in Actors \ RunActors /\ \A b \in Actors \ {a} : actor'[b] = actor[b]
        /\ actor'[a].pc = "update"
    BY <1>0, <1>1, ActorsAssumption DEF WebDecide, Become, Actors, TypeOK, Idle
  <2>2. Armed' = Armed \cup {a}
    BY <2>1 DEF Armed
  <2>. QED  BY <1>1, <2>1, <2>2 DEF WebDecide
<1>2. ASSUME NEW a \in TelegramActors, NEW s \in Symbols, NEW d \in HumanDecision,
             TelegramTap(a, s, d)
      PROVE  /\ UNCHANGED trades /\ decisions' = decisions + 1
             /\ \E b \in Actors \ RunActors : Armed' = Armed \cup {b}
  <2>1. /\ a \in Actors \ RunActors /\ \A b \in Actors \ {a} : actor'[b] = actor[b]
        /\ actor'[a].pc = "resolve"
    BY <1>0, <1>2, ActorsAssumption DEF TelegramTap, Become, Actors, TypeOK, Idle
  <2>2. Armed' = Armed \cup {a}
    BY <2>1 DEF Armed
  <2>. QED  BY <1>2, <2>1, <2>2 DEF TelegramTap
<1>3. ASSUME NEW a \in RunActors, NEW s \in Symbols, NEW snapshot \in {NoVal, price[s]},
             StartRun(a, s, snapshot)
      PROVE  UNCHANGED <<trades, decisions>> /\ Armed' \subseteq Armed
  <2>1. a \in Actors /\ \A b \in Actors \ {a} : actor'[b] = actor[b]
    BY <1>0, <1>3 DEF StartRun, Become, Actors, TypeOK
  <2>. QED  BY <1>3, <2>1, EndedStaysUnarmed DEF StartRun
<1>4. ASSUME NEW a \in Actors, Step(a)
      PROVE  OpenTrade(a) \/ (UNCHANGED <<trades, decisions>> /\ Armed' \subseteq Armed)
  <2>1. CASE WebUpdate(a) \/ Resolve(a) \/ RecordThread(a)
    <3>1. \A b \in Actors \ {a} : actor'[b] = actor[b]
      BY <1>0, <2>1 DEF WebUpdate, Resolve, RecordThread, GoTo, TypeOK
    <3>2. a \in Armed \/ a \in RunActors
      BY <2>1 DEF WebUpdate, Resolve, RecordThread, Armed
    <3>. QED  BY <2>1, <3>1, <3>2, EndedStaysUnarmed
              DEF WebUpdate, Resolve, RecordThread, counters
  <2>2. CASE LoadRun(a) \/ LoadResume(a)
    <3>1. \A b \in Actors \ {a} : actor'[b] = actor[b]
      BY <1>0, <2>2 DEF LoadRun, LoadResume, Become, TypeOK
    <3>2. a \in Armed \/ a \in RunActors
      BY <2>2 DEF LoadRun, LoadResume, Armed
    <3>. QED  BY <2>2, <3>1, <3>2, EndedStaysUnarmed DEF LoadRun, LoadResume, counters
  <2>3. CASE Nodes(a)
    <3>1. PICK cp \in Checkpoint : \E label \in {"idle", "node", "propose"} :
            NodeWrite(a, cp, label)
      BY <2>3, NodeWrites
    <3>2. PICK label \in {"idle", "node", "propose"} : NodeWrite(a, cp, label)
      BY <3>1
    <3>3. /\ Works(a) /\ Loaded(a) /\ actor'[a].pc = label
          /\ UNCHANGED <<trades, decisions>>
      BY <2>3, <3>2, NodeWorks, NodeWrites DEF counters
    <3>4. actor[a].pc = "node" => a \in Armed \/ a \in RunActors
      BY DEF Armed
    <3>5. actor[a].pc = "execute" => label # "node"
      BY <3>2 DEF NodeWrite
    <3>. QED  BY <3>3, <3>4, <3>5, EndedStaysUnarmed DEF Works, Loaded
  <2>4. CASE Propose(a)
    <3>1. actor'[a].pc = "idle" /\ \A b \in Actors \ {a} : actor'[b] = actor[b]
      BY <1>0, <1>i, <2>4 DEF Propose, Become, TypeOK
    <3>. QED  BY <2>4, <3>1, EndedStaysUnarmed DEF Propose, counters
  <2>. QED  BY <1>4, <2>1, <2>2, <2>3, <2>4 DEF Step, Nodes
<1>5. ASSUME NEW a \in Actors, Abort(a)
      PROVE  UNCHANGED <<trades, decisions>> /\ Armed' \subseteq Armed
  <2>1. actor'[a].pc = "idle" /\ \A b \in Actors \ {a} : actor'[b] = actor[b]
    BY <1>0, <1>i, <1>5 DEF Abort, Become, TypeOK
  <2>. QED  BY <1>5, <2>1, EndedStaysUnarmed DEF Abort
<1>6. ASSUME NEW s \in Symbols, Deliver(s)
      PROVE  UNCHANGED <<trades, decisions>> /\ Armed' \subseteq Armed
  BY <1>6 DEF Deliver, counters, Armed
<1>7. CASE Tick \/ UNCHANGED vars
  BY <1>0, <1>7 DEF Tick, vars, counters, Armed
<1>. QED  BY <1>0, <1>1, <1>2, <1>3, <1>4, <1>5, <1>6, <1>7 DEF Next, Call

\* An invocation of run_symbol has no answer to give, so it executes nothing.
Harmless == \A a \in RunActors : Loaded(a) => actor[a].cp.next # "paper_execute"

LEMMA RunsAnswerNothing ==
  ASSUME LedgerInv, NEW a \in RunActors, Underway(a)
  PROVE  actor[a].decision = "NONE"
BY DEF LedgerInv, RunSound

LEMMA NextStaysHarmless ==
  ASSUME IInv, LedgerInv, Harmless, [Next]_vars
  PROVE  Harmless'
<1>. SUFFICES ASSUME NEW b \in RunActors, Loaded(b)' PROVE actor'[b].cp.next # "paper_execute"
  BY DEF Harmless
<1>0. b \in Actors
  BY DEF Actors
<1>1. CASE Quiet
  BY <1>0, <1>1 DEF Quiet, Harmless, Loaded
<1>2. ASSUME NEW a \in Actors, Works(a), b # a PROVE actor'[b].cp.next # "paper_execute"
  BY <1>0, <1>2 DEF Works, Harmless, Loaded
<1>3. CASE LoadRun(b)
  BY <1>0, <1>3, LoadRunWorks
<1>4. ~Resumes(b)
  BY <1>0, ResumeWorks, RunsAnswerNothing DEF Resumes, LoadResume, Underway
<1>5. CASE OpenTrade(b)
  BY <1>0, <1>5, OpenTradeWorks DEF Harmless
<1>6. CASE Nodes(b)
  <2>1. PICK cp \in Checkpoint : \E label \in {"idle", "node", "propose"} :
          NodeWrite(b, cp, label)
    BY <1>0, <1>6, NodeWrites
  <2>2. PICK label \in {"idle", "node", "propose"} : NodeWrite(b, cp, label)
    BY <2>1
  <2>3. Loaded(b) /\ actor'[b].cp = cp
    BY <1>0, <1>6, <2>2, NodeWorks DEF Loaded
  <2>4. actor[b].decision = "NONE"
    BY <2>3, RunsAnswerNothing DEF Underway, Loaded
  <2>. QED  BY <2>2, <2>3, <2>4 DEF NodeWrite
<1>. QED  BY <1>0, <1>1, <1>2, <1>3, <1>4, <1>5, <1>6, StepKinds, WorkingSteps

LEMMA NextKeepsBudget == IInv /\ LedgerInv /\ BudgetInv /\ [Next]_vars => BudgetInv'
<1>. SUFFICES ASSUME IInv, LedgerInv, BudgetInv, [Next]_vars PROVE BudgetInv'
  OBVIOUS
<1>1. Harmless'
  BY NextStaysHarmless DEF BudgetInv, Harmless
<1>2. /\ IsFiniteSet(Armed) /\ Cardinality(Armed) \in Nat
      /\ Len(trades) + Cardinality(Armed) <= decisions
      /\ Len(trades) \in Nat /\ decisions \in Nat
  BY FS_CardinalityType, BoundsAssumption DEF BudgetInv, IInv, TypeOK
<1>3. IsFiniteSet(Armed)' /\ Len(trades') + Cardinality(Armed)' <= decisions'
  <2>1. CASE /\ UNCHANGED trades /\ decisions <= decisions' /\ decisions' \in Int
             /\ Armed' \subseteq Armed
    <3>1. IsFiniteSet(Armed') /\ Cardinality(Armed') <= Cardinality(Armed)
      BY <1>2, <2>1, FS_Subset
    <3>2. Cardinality(Armed') \in Nat
      BY <3>1, FS_CardinalityType
    <3>. QED  BY <1>2, <2>1, <3>1, <3>2
  <2>2. ASSUME NEW a \in Actors \ RunActors, UNCHANGED trades, decisions' = decisions + 1,
               Armed' = Armed \cup {a}
        PROVE  IsFiniteSet(Armed)' /\ Len(trades') + Cardinality(Armed)' <= decisions'
    <3>1. /\ IsFiniteSet(Armed')
          /\ Cardinality(Armed') \in {Cardinality(Armed), Cardinality(Armed) + 1}
      BY <1>2, <2>2, FS_AddElement
    <3>. QED  BY <1>2, <2>2, <3>1
  <2>3. ASSUME NEW a \in Actors, OpenTrade(a)
        PROVE  IsFiniteSet(Armed)' /\ Len(trades') + Cardinality(Armed)' <= decisions'
    <3>1. /\ Works(a) /\ Loaded(a) /\ actor[a].pc = "node" /\ actor'[a].pc = "execute"
          /\ actor[a].cp.next = "paper_execute"
          /\ Len(trades') = Len(trades) + 1 /\ UNCHANGED decisions
      BY <2>3, OpenTradeWorks, TradesOfAppend DEF OpenTrade, counters
    <3>2. a \in Armed
      BY <3>1 DEF BudgetInv, Armed
    <3>3. Armed' = Armed \ {a}
      BY <3>1 DEF Armed, Works
    <3>4. IsFiniteSet(Armed') /\ Cardinality(Armed') = Cardinality(Armed) - 1
      BY <1>2, <3>2, <3>3, FS_RemoveElement
    <3>. QED  BY <1>2, <3>1, <3>4
  <2>. QED  BY <2>1, <2>2, <2>3, BudgetSteps
<1>. QED  BY <1>1, <1>3 DEF BudgetInv, Harmless

-----------------------------------------------------------------------------
(***************************************************************************)
(* The price of a late fill.                                               *)
(***************************************************************************)
LEMMA NextKeepsLatePrice ==
  IInv /\ LateFillIsAtOrderPrice /\ [Next]_vars => LateFillIsAtOrderPrice'
<1>. SUFFICES ASSUME IInv, LateFillIsAtOrderPrice, [Next]_vars
              PROVE  LateFillIsAtOrderPrice'
  OBVIOUS
<1>1. CASE UNCHANGED trades
  BY <1>1 DEF LateFillIsAtOrderPrice
<1>2. ASSUME NEW a \in Actors, OpenTrade(a) PROVE LateFillIsAtOrderPrice'
  <2>1. /\ actor[a].pc = "node" /\ actor[a].cp.next = "paper_execute"
        /\ TradeOf(a) \in Trade /\ trades \in Seq(Trade) /\ trades' = Append(trades, TradeOf(a))
    BY <1>2, OpenTradeWorks
  <2>2. SoundCheckpoint(actor[a].cp)
    BY <2>1, AtNodeIsSound
  <2>3. actor[a].cp.cardAt # NoVal /\ actor[a].cp.cardAt \in Nat
    BY <2>1, <2>2 DEF SoundCheckpoint, Checkpoint
  <2>4. FALSE \in StaleVerdicts(actor[a].cp, actor[a].sym)
    BY <1>2 DEF OpenTrade
  <2>5. ASSUME TradeOf(a).at - TradeOf(a).decidedAt >= StaleAge
        PROVE  TradeOf(a).quote = TradeOf(a).order.entry
    <3>1. ~(now - actor[a].cp.cardAt < StaleAge)
      BY <2>3, <2>5, NowIsNat, BoundsAssumption DEF TradeOf
    <3>2. StaleVerdicts(actor[a].cp, actor[a].sym)
            = {TRUE, price[actor[a].sym] # actor[a].cp.order.entry}
      BY <2>3, <3>1 DEF StaleVerdicts
    <3>3. price[actor[a].sym] = actor[a].cp.order.entry
      BY <2>4, <3>2
    <3>. QED  BY <3>3 DEF TradeOf
  <2>6. ASSUME NEW i \in DOMAIN trades', trades'[i].at - trades'[i].decidedAt >= StaleAge
        PROVE  trades'[i].quote = trades'[i].order.entry
    <3>1. CASE i \in DOMAIN trades /\ trades'[i] = trades[i]
      BY <2>6, <3>1 DEF LateFillIsAtOrderPrice
    <3>2. CASE trades'[i] = TradeOf(a)
      BY <2>5, <2>6, <3>2
    <3>. QED  BY <2>1, <3>1, <3>2, TradesOfAppend
  <2>. QED  BY <2>6 DEF LateFillIsAtOrderPrice
<1>. QED  BY <1>1, <1>2, StepKinds, LoadRunWorks, ResumeWorks, NodeWrites DEF Quiet

-----------------------------------------------------------------------------
(***************************************************************************)
(* The invariants hold initially, and so in every reachable state.         *)
(***************************************************************************)
LEMMA InitExecution ==
  Init => /\ AloneInv /\ CardInv /\ HomeInv /\ OnceInv /\ BudgetInv
          /\ LateFillIsAtOrderPrice
<1>. SUFFICES ASSUME Init
              PROVE  /\ AloneInv /\ CardInv /\ HomeInv /\ OnceInv /\ BudgetInv
                     /\ LateFillIsAtOrderPrice
  OBVIOUS
<1>1. /\ \A a \in Actors : actor[a] = Idle /\ ~Loaded(a) /\ ~Waiting(a)
      /\ DOMAIN trades = {} /\ Len(trades) = 0 /\ decisions = 0
  BY DEF Init, Idle, Loaded, Waiting
<1>2. \A t \in Symbols \X Days : thread[t].next = "absent" /\ thread[t].run = 0
  BY DEF Init, NoCheckpoint
<1>3. AloneInv
  BY <1>1 DEF AloneInv
<1>4. CardInv
  BY <1>1, <1>2 DEF CardInv, FillFollowsCard
<1>5. HomeInv
  <2>1. \A r \in RunIds : r # 0
    BY DEF RunIds
  <2>. QED  BY <1>1, <1>2, <2>1 DEF HomeInv, HeldAt
<1>6. OnceInv
  BY <1>1 DEF OnceInv, SecondFillNeedsDisturbance
<1>7. BudgetInv
  <2>1. Armed = {}
    BY <1>1 DEF Armed, Idle
  <2>2. \A a \in RunActors : ~Loaded(a)
    BY <1>1 DEF Actors
  <2>. QED  BY <1>1, <2>1, <2>2, FS_EmptySet DEF BudgetInv
<1>8. LateFillIsAtOrderPrice
  BY <1>1 DEF LateFillIsAtOrderPrice
<1>. QED  BY <1>3, <1>4, <1>5, <1>6, <1>7, <1>8

\* Between two disturbances of a thread (graph.run_symbol and resume_symbol
\* called while another call of the same symbol is in its nodes, or a call
\* that dies there), one call at a time works on it, on its own checkpoint.
THEOREM CallsWorkAlone == Spec => []AloneInv
<1>1. Init => AloneInv
  BY InitExecution
<1>. QED  BY <1>1, InitIInv, NextKeepsIInv, NextKeepsAlone, PTL DEF Spec

\* On an undisturbed thread a fill (graph._paper_execute) follows the card
\* that graph._human_approval raised for the run: no decision is ever spent
\* on a pause the human was not shown.
THEOREM FillsFollowCards == Spec => []FillFollowsCard
<1>1. Init => CardInv
  BY InitExecution
<1>2. CardInv => FillFollowsCard
  BY DEF CardInv
<1>. QED  BY <1>1, <1>2, InitIInv, NextKeepsIInv, CallsWorkAlone, NextKeepsCard, PTL DEF Spec

\* A run number never leaves the thread it was started on: no two threads,
\* no two days' trades and no later call share one.
THEOREM RunsStayHome == Spec => []HomeInv
<1>1. Init => HomeInv
  BY InitExecution
<1>. QED  BY <1>1, Invariance, LedgerInvariance, NextKeepsHome, PTL DEF Spec

\* A run's order is filled a second time only after two calls overlapped on
\* its thread or one died there: any number of approvals that follow each
\* other, from the dashboard and from Telegram, fill it once.
THEOREM SecondFillsNeedDisturbance == Spec => []SecondFillNeedsDisturbance
<1>1. Init => OnceInv
  BY InitExecution
<1>2. OnceInv => SecondFillNeedsDisturbance
  BY DEF OnceInv
<1>. QED  BY <1>1, <1>2, Invariance, CallsWorkAlone, RunsStayHome, NextKeepsOnce, PTL DEF Spec

\* The audit log never holds more trades than decisions were submitted
\* (proposals.approve_proposal, the Telegram callback), whatever crashes and
\* overlaps: the worst a lost or concurrent call can do is spend its own
\* decision on a trade another call has opened already.
THEOREM DecisionsPayForTrades == Spec => []DecisionsBoundTrades
<1>1. Init => BudgetInv
  BY InitExecution
<1>2. IInv /\ BudgetInv => DecisionsBoundTrades
  <2>. SUFFICES ASSUME IInv, BudgetInv PROVE DecisionsBoundTrades
    OBVIOUS
  <2>1. Cardinality(Armed) \in Nat /\ Len(trades) \in Nat /\ decisions \in Nat
    BY FS_CardinalityType, BoundsAssumption DEF BudgetInv, IInv, TypeOK
  <2>. QED  BY <2>1 DEF BudgetInv, DecisionsBoundTrades
<1>. QED  BY <1>1, <1>2, Invariance, LedgerInvariance, NextKeepsBudget, PTL DEF Spec

\* The staleness gate (graph._proposal_is_stale behind _paper_execute): a
\* trade opened STALE_PROPOSAL_MINUTES or more after its decision is at the
\* price its order was sized for, after any crash and resume.
THEOREM LateFillsAreAtOrderPrice == Spec => []LateFillIsAtOrderPrice
<1>1. Init => LateFillIsAtOrderPrice
  BY InitExecution
<1>. QED  BY <1>1, Invariance, NextKeepsLatePrice, PTL DEF Spec

-----------------------------------------------------------------------------
(***************************************************************************)
(* The pipeline implements ApprovalGate.  Only LoadResume changes the      *)
(* approvals, only OpenTrade the trades, only a call the decisions.        *)
(***************************************************************************)
LEMMA FillsOfAppend ==
  ASSUME trades \in Seq(Trade), NEW trade \in Trade, trades' = Append(trades, trade)
  PROVE  Fills' = Append(Fills, FillOf(trade))
<1>1. /\ Fills = [i \in 1..Len(trades) |-> FillOf(trades[i])]
      /\ Fills' = [i \in 1..Len(trades)+1 |-> FillOf(trades'[i])]
  BY DEF Fills, FillOf, RunOf
<1>2. /\ \A i \in 1..Len(trades) : trades'[i] = trades[i]
      /\ trades'[Len(trades)+1] = trade
  OBVIOUS
<1> DEFINE S == {FillOf(trades[i]) : i \in 1..Len(trades)} \cup {FillOf(trade)}
<1>3. Fills \in Seq(S) /\ Len(Fills) = Len(trades) /\ FillOf(trade) \in S
  BY <1>1
<1>. QED  BY <1>1, <1>2, <1>3

\* A trade is opened while a decision is left over for it.
LEMMA OpenTradeIsPaid ==
  ASSUME IInv, BudgetInv, NEW a \in Actors, OpenTrade(a)
  PROVE  Len(trades) < decisions
<1>1. a \in Armed
  BY OpenTradeWorks DEF BudgetInv, Armed
<1>2. IsFiniteSet(Armed) /\ Cardinality(Armed) \in Nat /\ Cardinality(Armed) # 0
  BY <1>1, FS_EmptySet, FS_CardinalityType DEF BudgetInv
<1>3. Len(trades) \in Nat /\ decisions \in Nat
  BY BoundsAssumption DEF IInv, TypeOK
<1>. QED  BY <1>2, <1>3 DEF BudgetInv

LEMMA OpenTradeFills ==
  ASSUME IInv, AloneInv, HomeInv, OnceInv, BudgetInv, NEW a \in Actors, OpenTrade(a)
  PROVE  \E r \in Symbols \X Days \X (RunIds \cup {0}) : Gate!Fill(r)
<1>1. /\ actor[a].pc = "node" /\ actor[a].cp.next = "paper_execute"
      /\ TradeOf(a) \in Trade /\ TradeOf(a).order.run = actor[a].cp.run
      /\ trades \in Seq(Trade) /\ trades' = Append(trades, TradeOf(a))
  BY OpenTradeWorks
<1>2. /\ actor[a].sym \in Symbols /\ actor[a].day \in Days /\ SoundCheckpoint(actor[a].cp)
      /\ Approved(actor[a].sym, actor[a].day, actor[a].cp) /\ actor[a].cp \in Checkpoint
  BY <1>1, AtNodeIsSound
<1>3. PICK r : r = FillOf(TradeOf(a))
  OBVIOUS
<1>4. r = <<actor[a].sym, actor[a].day, actor[a].cp.run>>
  BY <1>1, <1>3 DEF FillOf, RunOf, TradeOf
<1>5. r \in Symbols \X Days \X (RunIds \cup {0})
  BY <1>2, <1>4 DEF Checkpoint
<1>6. r \in approvals
  BY <1>1, <1>2, <1>4 DEF Approved, RunOf
<1>7. Len(Fills) < decisions
  <2>1. Len(Fills) = Len(trades)
    BY <1>1 DEF Fills
  <2>. QED  BY <2>1, OpenTradeIsPaid
<1>8. ASSUME NEW i \in DOMAIN Fills, Fills[i] = r PROVE <<r[1], r[2]>> \in disturbed
  <2>1. i \in DOMAIN trades /\ FillOf(trades[i]) = r
    BY <1>8 DEF Fills
  <2>2. trades[i].order.run = TradeOf(a).order.run
    BY <1>1, <1>4, <2>1 DEF FillOf, RunOf
  <2>3. ThreadOf(a) \in disturbed
    BY <2>1, <2>2, OpenTradeTwice
  <2>. QED  BY <1>4, <2>3 DEF ThreadOf
<1>9. Fills' = Append(Fills, r)
  BY <1>1, <1>3, FillsOfAppend
<1>10. UNCHANGED <<approvals, decisions>>
  BY DEF OpenTrade, history, counters
<1>. QED  BY <1>5, <1>6, <1>7, <1>8, <1>9, <1>10 DEF Gate!Fill, Gate!IsFilled, Gate!Thread

LEMMA LoadResumeApproves ==
  ASSUME IInv, NEW a \in Actors, LoadResume(a)
  PROVE  \/ UNCHANGED <<approvals, Fills, decisions>>
         \/ \E r \in Symbols \X Days \X (RunIds \cup {0}) : Gate!Approve(r)
<1> DEFINE cp == thread[ThreadOf(a)]
           r == RunOf(actor[a].sym, actor[a].day, cp.run)
<1>1. actor[a].sym \in Symbols /\ actor[a].day \in Days
  BY DEF LoadResume, IInv, TypeOK, ActorSound, ActorState
<1>2. cp \in Checkpoint
  BY <1>1 DEF IInv, TypeOK, ThreadOf
<1>3. r \in Symbols \X Days \X (RunIds \cup {0})
  BY <1>1, <1>2 DEF RunOf, Checkpoint
<1>4. UNCHANGED <<Fills, decisions>>
  BY DEF LoadResume, Fills, FillOf, RunOf, counters
<1>5. approvals' = approvals \/ approvals' = approvals \cup {r}
  BY DEF LoadResume, NoteApproval
<1>. QED  BY <1>3, <1>4, <1>5 DEF Gate!Approve

LEMMA InitGate == Init => Gate!Init
<1>. SUFFICES ASSUME Init PROVE Gate!Init
  OBVIOUS
<1>1. Fills = <<>>
  BY DEF Init, Fills
<1>. QED  BY <1>1 DEF Init, Gate!Init

\* What a step does to the three ledgers that the gate is about.
LEMMA GateSteps ==
  ASSUME [Next]_vars
  PROVE  \/ UNCHANGED <<approvals, trades, decisions>>
         \/ UNCHANGED <<approvals, trades>> /\ decisions' = decisions + 1
         \/ \E a \in Actors : OpenTrade(a) \/ LoadResume(a)
<1>1. ASSUME NEW a \in Actors, Step(a)
      PROVE  UNCHANGED <<approvals, trades, decisions>> \/ OpenTrade(a) \/ LoadResume(a)
  BY <1>1 DEF Step, WebUpdate, Resolve, RecordThread, LoadRun, MathScreener,
       AnalyzeCatalyst, CalculateRisk, Rejected, Pause, Decide, DoNotExecute,
       FinishExecution, Propose, history, counters
<1>2. Call => /\ UNCHANGED <<approvals, trades>>
              /\ UNCHANGED decisions \/ decisions' = decisions + 1
  BY DEF Call, WebDecide, TelegramTap, StartRun, history
<1>3. ASSUME NEW a \in Actors, Abort(a) PROVE UNCHANGED <<approvals, trades, decisions>>
  BY <1>3 DEF Abort
<1>4. ASSUME NEW s \in Symbols, Deliver(s) PROVE UNCHANGED <<approvals, trades, decisions>>
  BY <1>4 DEF Deliver, history, counters
<1>5. Tick \/ UNCHANGED vars => UNCHANGED <<approvals, trades, decisions>>
  BY DEF Tick, vars, history, counters
<1>. QED  BY <1>1, <1>2, <1>3, <1>4, <1>5 DEF Next

LEMMA BrokenStaysBroken ==
  ASSUME IInv, [Next]_vars
  PROVE  disturbed \subseteq disturbed'
BY StepKinds, WorkingSteps DEF Quiet, Works

LEMMA NextGate ==
  IInv /\ AloneInv /\ HomeInv /\ OnceInv /\ BudgetInv /\ [Next]_vars => Gate!Next
<1>. SUFFICES ASSUME IInv, AloneInv, HomeInv, OnceInv, BudgetInv, [Next]_vars
              PROVE  Gate!Next
  OBVIOUS
<1>1. disturbed \subseteq disturbed'
  BY BrokenStaysBroken
<1>2. UNCHANGED trades => UNCHANGED Fills
  BY DEF Fills, FillOf, RunOf
<1>3. ASSUME NEW a \in Actors, OpenTrade(a) PROVE Gate!Next
  BY <1>1, <1>3, OpenTradeFills DEF Gate!Next
<1>4. ASSUME NEW a \in Actors, LoadResume(a) PROVE Gate!Next
  BY <1>1, <1>4, LoadResumeApproves DEF Gate!Next
<1>5. CASE UNCHANGED <<approvals, trades, decisions>>
  BY <1>1, <1>2, <1>5 DEF Gate!Next
<1>6. CASE UNCHANGED <<approvals, trades>> /\ decisions' = decisions + 1
  BY <1>1, <1>2, <1>6 DEF Gate!Next, Gate!Submit
<1>. QED  BY <1>3, <1>4, <1>5, <1>6, GateSteps

\* The pipeline (graph.run_symbol, graph.resume_symbol and their callers)
\* implements ApprovalGate: every step submits a decision, approves a run,
\* fills a run under the conditions of the gate, or changes no ledger.
THEOREM PipelineImplementsGate == Spec => ImplementsApprovalGate
<1>1. Init => OnceInv /\ BudgetInv
  BY InitExecution
<1>2. Spec => [](OnceInv /\ BudgetInv)
  BY <1>1, Invariance, LedgerInvariance, CallsWorkAlone, RunsStayHome, NextKeepsOnce,
     NextKeepsBudget, PTL DEF Spec
<1>. QED  BY <1>2, InitGate, NextGate, Invariance, CallsWorkAlone, RunsStayHome, PTL
          DEF Spec, ImplementsApprovalGate, Gate!Spec

=============================================================================
