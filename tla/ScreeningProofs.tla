--------------------------- MODULE ScreeningProofs --------------------------
(***************************************************************************)
(* Theorems of Screening: its types, that a series is whole and that a     *)
(* crisis stops the scans that it finds, for any runners and processes,    *)
(* any history, and any number of changes and failures.                    *)
(***************************************************************************)
EXTENDS Screening, TLAPS

Reading == {"select", "delete", "fetch", "store"}

-----------------------------------------------------------------------------
(***************************************************************************)
(* The inductive invariant.                                                *)
(***************************************************************************)
NamespaceKnown ==
  \A r \in Runners : runner[r].step \in Reading => runner[r].ns \in Namespaces

\* While a scan is doomed, nothing that it may read says that entries are
\* allowed: not the cache, and nothing on its way there.
NoCalmToRead ==
  doomed # {} =>
    /\ crisis
    /\ cache["macro_regime"].state = "fresh" => cache["macro_regime"].value = "crisis"
    /\ \A o \in Runners : Storing(o) => runner[o].value = "crisis"

DoomedAssess ==
  \A r \in doomed : runner[r].ns = "macro_regime" /\ runner[r].step \in Reading

\* A day between two bars has one.
Whole == ~broken => \A a, b \in bars, d \in Int : a < d /\ d < b => d \in bars

IInv == TypeOK /\ NamespaceKnown /\ NoCalmToRead /\ DoomedAssess /\ Whole

LEMMA InitSound == Init => IInv
  <1> SUFFICES ASSUME Init PROVE IInv
    OBVIOUS
  <1>1. /\ NoEntry \in Entry /\ NoEntry.state = "none"
        /\ Resting \in RunnerState /\ Resting.step \notin Reading
    BY DEF NoEntry, Entry, Resting, RunnerState, Reading
  <1>2. TypeOK
    <2>1. today \in 1..MaxDays /\ bars \subseteq 1..today
      BY ScreeningBounds DEF Init
    <2>2. counts \in [moves : 0..MaxMoves, faults : 0..MaxFaults]
      BY ScreeningBounds DEF Init
    <2>3. /\ cache \in [Namespaces -> Entry] /\ runner \in [Runners -> RunnerState]
          /\ lock \in [Processes -> Runners \cup {NoVal}]
      BY <1>1 DEF Init
    <2> QED BY <2>1, <2>2, <2>3 DEF Init, TypeOK
  <1>3. NamespaceKnown
    BY <1>1 DEF Init, NamespaceKnown
  <1>4. NoCalmToRead /\ DoomedAssess /\ Whole
    BY DEF Init, NoCalmToRead, DoomedAssess, Whole
  <1> QED BY <1>2, <1>3, <1>4 DEF IInv

-----------------------------------------------------------------------------
(***************************************************************************)
(* A step moves one runner.                                                *)
(***************************************************************************)
LEMMA Moved ==
  ASSUME TypeOK, NEW r \in Runners, NEW me \in RunnerState, Move(r, me)
  PROVE  /\ runner' \in [Runners -> RunnerState]
         /\ runner'[r] = me
         /\ \A o \in Runners \ {r} : runner'[o] = runner[o]
  BY DEF TypeOK, Move

\* A move of r that lets the invariant be.
Sound(r, me) ==
  /\ me \in RunnerState /\ Move(r, me)
  /\ me.step \in Reading => me.ns \in Namespaces
  /\ lock' \in [Processes -> Runners \cup {NoVal}]
  /\ doomed' \subseteq doomed
  /\ r \in doomed' => me.ns = "macro_regime" /\ me.step \in Reading
  /\ me.step = "store" /\ me.ns = "macro_regime" => me.value = "crisis" \/ doomed' = {}

LEMMA SoundMove ==
  ASSUME IInv, NEW r \in Runners, NEW me, Sound(r, me),
         UNCHANGED <<today, crisis>>,
         cache' \in [Namespaces -> Entry], bars' \subseteq 1..today,
         counts' \in [moves : 0..MaxMoves, faults : 0..MaxFaults], broken' \in BOOLEAN,
         Whole',
         cache'["macro_regime"].state = "fresh" =>
           cache'["macro_regime"] = cache["macro_regime"]
             \/ cache'["macro_regime"].value = "crisis" \/ doomed' = {}
  PROVE  IInv'
  <1>1. /\ runner' \in [Runners -> RunnerState]
        /\ runner'[r] = me
        /\ \A o \in Runners \ {r} : runner'[o] = runner[o]
    BY Moved DEF IInv, Sound
  <1>2. TypeOK'
    BY <1>1 DEF IInv, TypeOK, Sound
  <1>3. NamespaceKnown'
    BY <1>1 DEF IInv, NamespaceKnown, Sound
  <1>4. NoCalmToRead'
    BY <1>1 DEF IInv, NoCalmToRead, Storing, At, Sound
  <1>5. DoomedAssess'
    BY <1>1, <1>2 DEF IInv, DoomedAssess, Sound, TypeOK
  <1> QED BY <1>2, <1>3, <1>4, <1>5 DEF IInv

\* A value is used: the runner ends, or goes on from a value that lets it.
LEMMA UseMoves ==
  ASSUME TypeOK, NEW r \in Runners, NEW value, Use(r, value),
         r \in doomed => value = "crisis"
  PROVE  \E me \in RunnerState : Sound(r, me) /\ me.step # "store"
  <1>1. CASE Leave(r)
    <2>1. Resting \in RunnerState /\ Resting.step = "idle"
      BY DEF Resting, RunnerState
    <2>2. lock' \in [Processes -> Runners \cup {NoVal}] /\ doomed' = doomed \ {r}
      BY <1>1 DEF Leave, TypeOK
    <2>3. Move(r, Resting)
      BY <1>1 DEF Leave
    <2> QED BY <2>1, <2>2, <2>3 DEF Sound, Reading
  <1>2. CASE value \in {"calm", "snapshot", "argued"} /\ Follow(r, value) /\ UNCHANGED <<lock, doomed>>
    <2>1. runner[r] \in RunnerState
      BY DEF TypeOK
    <2>2. PICK me \in {Ask(r, "technical"), Ask(r, "catalyst"),
                       [runner[r] EXCEPT !.step = "propose", !.value = NoVal]} : Move(r, me)
      BY <1>2 DEF Follow
    <2>3. /\ me \in RunnerState /\ me.step \in {"select", "propose"}
          /\ me.step = "select" => me.ns \in Namespaces
      BY <2>1, <2>2 DEF Ask, RunnerState, Namespaces
    <2>4. lock' \in [Processes -> Runners \cup {NoVal}] /\ doomed' = doomed /\ r \notin doomed
      BY <1>2 DEF TypeOK
    <2> QED BY <2>2, <2>3, <2>4 DEF Sound, Reading
  <1> QED BY <1>1, <1>2 DEF Use

\* The runner goes on with what it reads.
LEMMA StepsOn ==
  ASSUME IInv, NEW r \in Runners, NEW step \in Reading, NEW value \in Values \cup {NoVal},
         Move(r, [runner[r] EXCEPT !.step = step, !.value = value]),
         runner[r].step \in Reading, UNCHANGED <<lock, doomed>>,
         step = "store" /\ runner[r].ns = "macro_regime" => value = "crisis" \/ doomed = {}
  PROVE  \E me \in RunnerState : Sound(r, me)
  <1> DEFINE me == [runner[r] EXCEPT !.step = step, !.value = value]
  <1>1. runner[r] \in RunnerState /\ runner[r].ns \in Namespaces
    BY DEF IInv, TypeOK, NamespaceKnown
  <1>2. me \in RunnerState /\ me.step = step /\ me.ns = runner[r].ns /\ me.value = value
    BY <1>1 DEF RunnerState, Reading
  <1>3. r \in doomed => runner[r].ns = "macro_regime"
    BY DEF IInv, DoomedAssess
  <1>4. Move(r, me)
    OBVIOUS
  <1> HIDE DEF me
  <1> QED BY <1>1, <1>2, <1>3, <1>4 DEF Sound, IInv, TypeOK

-----------------------------------------------------------------------------
(***************************************************************************)
(* The steps, first those of the cache.                                    *)
(***************************************************************************)
LEMMA CrisisIsRead ==
  ASSUME IInv, NEW r \in doomed, cache["macro_regime"].state = "fresh"
  PROVE  cache[runner[r].ns].value = "crisis"
  BY DEF IInv, NoCalmToRead, DoomedAssess

LEMMA SelectSound == ASSUME NEW r \in Runners PROVE IInv /\ Select(r) => IInv'
  <1> SUFFICES ASSUME IInv, Select(r) PROVE IInv'
    OBVIOUS
  <1> DEFINE e == cache[runner[r].ns]
  <1>1. /\ TypeOK /\ runner[r] \in RunnerState /\ runner[r].step = "select"
        /\ runner[r].ns \in Namespaces
    BY DEF IInv, TypeOK, NamespaceKnown, Reading, Select
  <1>2. e \in Entry
    BY <1>1 DEF TypeOK
  <1>3. UNCHANGED <<today, crisis, cache, bars, counts, broken>>
    BY DEF Select
  <1>4. \A step : [runner[r] EXCEPT !.step = step]
                    = [runner[r] EXCEPT !.step = step, !.value = runner[r].value]
    BY <1>1 DEF RunnerState
  <1>5. runner[r].value \in Values \cup {NoVal}
    BY <1>1 DEF RunnerState
  <1>6. \E me \in RunnerState : Sound(r, me)
    <2>1. CASE e.state = "fresh"
      <3>1. Use(r, e.value)
        BY <2>1 DEF Select
      <3>2. r \in doomed => e.value = "crisis"
        BY <2>1, CrisisIsRead DEF IInv, DoomedAssess
      <3> QED BY <1>1, <3>1, <3>2, UseMoves
    <2>2. CASE e.state = "none"
      <3>1. Move(r, [runner[r] EXCEPT !.step = "fetch"]) /\ UNCHANGED <<lock, doomed>>
        BY <2>2 DEF Select
      <3>2. Move(r, [runner[r] EXCEPT !.step = "fetch", !.value = runner[r].value])
        BY <1>4, <3>1 DEF Move
      <3> QED BY <1>1, <1>5, <3>1, <3>2, StepsOn DEF Reading
    <2>3. CASE e.state = "expired"
      <3>1. Move(r, [runner[r] EXCEPT !.step = "delete"]) /\ UNCHANGED <<lock, doomed>>
        BY <2>3 DEF Select
      <3>2. Move(r, [runner[r] EXCEPT !.step = "delete", !.value = runner[r].value])
        BY <1>4, <3>1 DEF Move
      <3> QED BY <1>1, <1>5, <3>1, <3>2, StepsOn DEF Reading
    <2> QED BY <1>2, <2>1, <2>2, <2>3 DEF Entry
  <1> QED BY <1>1, <1>3, <1>6, SoundMove DEF TypeOK, IInv, Whole

LEMMA DeleteSound == ASSUME NEW r \in Runners PROVE IInv /\ Delete(r) => IInv'
  <1> SUFFICES ASSUME IInv, Delete(r) PROVE IInv'
    OBVIOUS
  <1>1. /\ TypeOK /\ runner[r] \in RunnerState /\ runner[r].step = "delete"
    BY DEF IInv, TypeOK, Delete
  <1>2. cache' = [cache EXCEPT ![runner[r].ns] = NoEntry] /\ NoEntry \in Entry
        /\ NoEntry.state = "none"
    BY DEF Delete, NoEntry, Entry
  <1>3. \E me \in RunnerState : Sound(r, me)
    <2>1. [runner[r] EXCEPT !.step = "fetch"]
            = [runner[r] EXCEPT !.step = "fetch", !.value = runner[r].value]
          /\ runner[r].value \in Values \cup {NoVal}
      BY <1>1 DEF RunnerState
    <2>2. Move(r, [runner[r] EXCEPT !.step = "fetch", !.value = runner[r].value])
          /\ UNCHANGED <<lock, doomed>>
      BY <2>1 DEF Delete, Move, history
    <2> QED BY <1>1, <2>1, <2>2, StepsOn DEF Reading
  <1>4. /\ cache' \in [Namespaces -> Entry]
        /\ cache'["macro_regime"].state = "fresh" => cache'["macro_regime"] = cache["macro_regime"]
    BY <1>1, <1>2 DEF TypeOK, Namespaces
  <1>5. UNCHANGED <<today, crisis, bars, counts, broken>>
    BY DEF Delete, history
  <1> QED BY <1>1, <1>3, <1>4, <1>5, SoundMove DEF TypeOK, IInv, Whole

LEMMA StoreSound == ASSUME NEW r \in Runners PROVE IInv /\ Store(r) => IInv'
  <1> SUFFICES ASSUME IInv, Store(r) PROVE IInv'
    OBVIOUS
  <1> DEFINE new == [state |-> "fresh", value |-> runner[r].value]
  <1>1. /\ TypeOK /\ runner[r] \in RunnerState /\ runner[r].step = "store"
        /\ cache' = [cache EXCEPT ![runner[r].ns] = new] /\ Use(r, runner[r].value)
        /\ UNCHANGED <<today, crisis, bars, counts, broken>>
    BY DEF IInv, TypeOK, Store
  <1>2. new \in Entry
    BY <1>1 DEF RunnerState, Entry
  <1>3. runner[r].ns = "macro_regime" => runner[r].value = "crisis" \/ doomed = {}
    BY <1>1 DEF IInv, NoCalmToRead, Storing, At
  <1>4. r \in doomed => runner[r].value = "crisis"
    BY <1>3 DEF IInv, DoomedAssess
  <1>5. PICK me \in RunnerState : Sound(r, me)
    BY <1>1, <1>4, UseMoves
  <1>6. cache'["macro_regime"] = cache["macro_regime"]
          \/ cache'["macro_regime"].value = "crisis" \/ doomed' = {}
    BY <1>1, <1>3, <1>5 DEF TypeOK, Namespaces, Sound
  <1>7. cache' \in [Namespaces -> Entry]
    BY <1>1, <1>2 DEF TypeOK
  <1> QED BY <1>1, <1>5, <1>6, <1>7, SoundMove DEF TypeOK, IInv, Whole

-----------------------------------------------------------------------------
(***************************************************************************)
(* What is fetched.                                                        *)
(***************************************************************************)
LEMMA FaultTyped ==
  ASSUME TypeOK, Fault
  PROVE  counts' \in [moves : 0..MaxMoves, faults : 0..MaxFaults]
  BY ScreeningBounds DEF TypeOK, Fault

LEMMA LeaveMoves ==
  ASSUME TypeOK, NEW r \in Runners, Leave(r)
  PROVE  \E me \in RunnerState : Sound(r, me)
  <1>1. Resting \in RunnerState /\ Resting.step = "idle"
    BY DEF Resting, RunnerState
  <1>2. lock' \in [Processes -> Runners \cup {NoVal}] /\ doomed' = doomed \ {r}
    BY DEF Leave, TypeOK
  <1>3. Move(r, Resting)
    BY DEF Leave
  <1> QED BY <1>1, <1>2, <1>3 DEF Sound, Reading

\* A runner that fetched a value has it to store.
LEMMA FetchedMoves ==
  ASSUME IInv, NEW r \in Runners, NEW value \in Values, Fetched(r, value),
         runner[r].step = "fetch", UNCHANGED <<lock, doomed>>,
         runner[r].ns = "macro_regime" => value = "crisis" \/ doomed = {}
  PROVE  \E me \in RunnerState : Sound(r, me)
  BY StepsOn DEF Fetched, Reading

LEMMA FetchRegimeSound == ASSUME NEW r \in Runners PROVE IInv /\ FetchRegime(r) => IInv'
  <1> SUFFICES ASSUME IInv, FetchRegime(r) PROVE IInv'
    OBVIOUS
  <1> DEFINE value == IF crisis THEN "crisis" ELSE "calm"
  <1>1. /\ Fetched(r, value) /\ runner[r].step = "fetch"
        /\ UNCHANGED <<today, crisis, cache, bars, lock, counts, broken, doomed>>
    BY DEF FetchRegime, At, history
  <1>2. value \in Values /\ (value = "crisis" \/ doomed = {})
    BY DEF Values, IInv, NoCalmToRead
  <1>3. \E me \in RunnerState : Sound(r, me)
    BY <1>1, <1>2, FetchedMoves
  <1> QED BY <1>1, <1>3, SoundMove DEF IInv, TypeOK, Whole

LEMMA RegimeUnknownSound == ASSUME NEW r \in Runners PROVE IInv /\ RegimeUnknown(r) => IInv'
  <1> SUFFICES ASSUME IInv, RegimeUnknown(r) PROVE IInv'
    OBVIOUS
  <1>1. /\ Leave(r) /\ Fault
        /\ UNCHANGED <<today, crisis, cache, bars, broken>>
    BY DEF RegimeUnknown
  <1>2. \E me \in RunnerState : Sound(r, me)
    BY <1>1, LeaveMoves DEF IInv
  <1> QED BY <1>1, <1>2, SoundMove, FaultTyped DEF IInv, TypeOK, Whole

\* A download that reaches back to the latest bar, or starts over, leaves no hole.
LEMMA DownloadedWhole ==
  ASSUME TypeOK, Whole, ~broken, ~Idled,
         NEW a \in bars \cup Downloaded, NEW b \in bars \cup Downloaded, NEW d \in Int,
         a < d, d < b
  PROVE  d \in bars \cup Downloaded
  <1>1. today \in Nat /\ bars \subseteq 1..today /\ Window \in Nat \ {0}
    BY ScreeningBounds DEF TypeOK
  <1>2. Downloaded \subseteq 1..today
    BY DEF Downloaded
  <1>3. a \in 1..today /\ b \in 1..today /\ d \in 1..today
    BY <1>1, <1>2
  <1>4. CASE ~(Cardinality(bars) >= Enough)
    BY <1>3, <1>4 DEF Downloaded
  <1>5. CASE Cardinality(bars) >= Enough
    <2>1. Downloaded = {e \in 1..today : e > today - Window}
      BY <1>5 DEF Downloaded
    <2>2. SUFFICES ASSUME ~(d > today - Window) PROVE d \in bars
      BY <1>3, <2>1
    <2>3. a \in bars
      BY <1>1, <1>3, <2>1, <2>2
    <2>4. PICK c \in bars : c >= today - Window
      BY <1>1, <2>3 DEF Idled
    <2>5. CASE d < c
      BY <2>3, <2>5 DEF Whole
    <2>6. CASE ~(d < c)
      BY <1>1, <1>3, <2>2, <2>4, <2>6
    <2> QED BY <2>5, <2>6
  <1> QED BY <1>4, <1>5

LEMMA LoadHistorySound == ASSUME NEW r \in Runners PROVE IInv /\ LoadHistory(r) => IInv'
  <1> SUFFICES ASSUME IInv, LoadHistory(r) PROVE IInv'
    OBVIOUS
  <1>1. /\ Fetched(r, "snapshot") /\ runner[r].step = "fetch" /\ runner[r].ns = "technical"
        /\ bars' = bars \cup Downloaded /\ broken' = (broken \/ Idled)
        /\ UNCHANGED <<today, crisis, cache, lock, counts, doomed>>
    BY DEF LoadHistory, At
  <1>2. \E me \in RunnerState : Sound(r, me)
    BY <1>1, FetchedMoves DEF Values
  <1>3. bars' \subseteq 1..today /\ broken' \in BOOLEAN
    BY <1>1 DEF Downloaded, IInv, TypeOK
  <1>4. Whole'
    BY <1>1, DownloadedWhole DEF IInv, Whole
  <1> QED BY <1>1, <1>2, <1>3, <1>4, SoundMove DEF IInv, TypeOK

LEMMA LoadWithoutBarSound ==
  ASSUME NEW r \in Runners, NEW d \in 1..today
  PROVE  IInv /\ LoadWithoutBar(r, d) => IInv'
  <1> SUFFICES ASSUME IInv, LoadWithoutBar(r, d) PROVE IInv'
    OBVIOUS
  <1>1. /\ Fetched(r, "snapshot") /\ runner[r].step = "fetch" /\ runner[r].ns = "technical"
        /\ bars' = bars \cup (Downloaded \ {d}) /\ broken' = TRUE /\ Fault
        /\ UNCHANGED <<today, crisis, cache, lock, doomed>>
    BY DEF LoadWithoutBar, At
  <1>2. \E me \in RunnerState : Sound(r, me)
    BY <1>1, FetchedMoves DEF Values
  <1>3. bars' \subseteq 1..today /\ Whole'
    BY <1>1 DEF Downloaded, IInv, TypeOK, Whole
  <1> QED BY <1>1, <1>2, <1>3, SoundMove, FaultTyped DEF IInv, TypeOK

LEMMA LoadStoredSound == ASSUME NEW r \in Runners PROVE IInv /\ LoadStored(r) => IInv'
  <1> SUFFICES ASSUME IInv, LoadStored(r) PROVE IInv'
    OBVIOUS
  <1>1. /\ Fetched(r, "snapshot") /\ runner[r].step = "fetch" /\ runner[r].ns = "technical"
        /\ Fault /\ UNCHANGED <<today, crisis, cache, bars, lock, broken, doomed>>
    BY DEF LoadStored, At, history
  <1>2. \E me \in RunnerState : Sound(r, me)
    BY <1>1, FetchedMoves DEF Values
  <1> QED BY <1>1, <1>2, SoundMove, FaultTyped DEF IInv, TypeOK, Whole

LEMMA LoadFailsSound == ASSUME NEW r \in Runners PROVE IInv /\ LoadFails(r) => IInv'
  <1> SUFFICES ASSUME IInv, LoadFails(r) PROVE IInv'
    OBVIOUS
  <1>1. /\ Leave(r) /\ Fault
        /\ UNCHANGED <<today, crisis, cache, bars, broken>>
    BY DEF LoadFails
  <1>2. \E me \in RunnerState : Sound(r, me)
    BY <1>1, LeaveMoves DEF IInv
  <1> QED BY <1>1, <1>2, SoundMove, FaultTyped DEF IInv, TypeOK, Whole

LEMMA DebateSound == ASSUME NEW r \in Runners PROVE IInv /\ Debate(r) => IInv'
  <1> SUFFICES ASSUME IInv, Debate(r) PROVE IInv'
    OBVIOUS
  <1>1. /\ Fetched(r, "argued") /\ runner[r].step = "fetch" /\ runner[r].ns = "catalyst"
        /\ UNCHANGED <<today, crisis, cache, bars, lock, counts, broken, doomed>>
    BY DEF Debate, At, history
  <1>2. \E me \in RunnerState : Sound(r, me)
    BY <1>1, FetchedMoves DEF Values
  <1> QED BY <1>1, <1>2, SoundMove DEF IInv, TypeOK, Whole

\* The critic, the analyst or the arbiter fails.
LEMMA AgentFailsSound ==
  ASSUME NEW r \in Runners
  PROVE  IInv /\ (CriticFails(r) \/ AnalystFails(r) \/ ArbiterFails(r)) => IInv'
  <1> SUFFICES ASSUME IInv, CriticFails(r) \/ AnalystFails(r) \/ ArbiterFails(r) PROVE IInv'
    OBVIOUS
  <1>1. PICK value \in {"argued", "fallback"} :
          /\ Fetched(r, value) /\ runner[r].step = "fetch" /\ runner[r].ns = "catalyst"
          /\ Fault /\ UNCHANGED <<today, crisis, cache, bars, lock, broken, doomed>>
    BY DEF CriticFails, AnalystFails, ArbiterFails, At, history
  <1>2. \E me \in RunnerState : Sound(r, me)
    BY <1>1, FetchedMoves DEF Values
  <1> QED BY <1>1, <1>2, SoundMove, FaultTyped DEF IInv, TypeOK, Whole

-----------------------------------------------------------------------------
(***************************************************************************)
(* Beginnings, ends and the world.                                         *)
(***************************************************************************)
LEMMA ConcludeSound == ASSUME NEW r \in Runners PROVE IInv /\ Conclude(r) => IInv'
  <1> SUFFICES ASSUME IInv, Conclude(r) PROVE IInv'
    OBVIOUS
  <1>1. Leave(r) /\ UNCHANGED <<today, crisis, cache, bars, counts, broken>>
    BY DEF Conclude
  <1>2. \E me \in RunnerState : Sound(r, me)
    BY <1>1, LeaveMoves DEF IInv
  <1> QED BY <1>1, <1>2, SoundMove DEF IInv, TypeOK, Whole

LEMMA StartRunSound == ASSUME NEW r \in Requesters PROVE IInv /\ StartRun(r) => IInv'
  <1> SUFFICES ASSUME IInv, StartRun(r) PROVE IInv'
    OBVIOUS
  <1> DEFINE me == [Resting EXCEPT !.step = "select", !.ns = "technical"]
  <1>1. /\ runner[r].step = "idle" /\ Move(r, me)
        /\ UNCHANGED <<today, crisis, cache, bars, lock, counts, broken, doomed>>
    BY DEF StartRun, history
  <1>2. me \in RunnerState /\ me.step = "select" /\ me.ns \in Namespaces
    BY DEF Resting, RunnerState, Namespaces
  <1>3. r \in Runners /\ r \notin doomed
    BY <1>1 DEF Runners, IInv, DoomedAssess, Reading
  <1> HIDE DEF me
  <1>4. Sound(r, me)
    BY <1>1, <1>2, <1>3 DEF Sound, IInv, TypeOK
  <1> QED BY <1>1, <1>3, <1>4, SoundMove DEF IInv, TypeOK, Whole

\* A scan begins doomed only where there is nothing calm to read.
LEMMA StartScanSound == ASSUME NEW r \in Scanners PROVE IInv /\ StartScan(r) => IInv'
  <1> SUFFICES ASSUME IInv, StartScan(r) PROVE IInv'
    OBVIOUS
  <1> DEFINE me == [Resting EXCEPT !.step = "select", !.scan = TRUE, !.ns = "macro_regime"]
             found == crisis /\ cache["macro_regime"].state # "fresh"
                        /\ ~(\E o \in Runners : Storing(o))
  <1>1. /\ runner[r].step = "idle" /\ Move(r, me)
        /\ lock' = [lock EXCEPT ![Home[r]] = r]
        /\ doomed' = IF found THEN doomed \cup {r} ELSE doomed
        /\ UNCHANGED <<today, crisis, cache, bars, counts, broken>>
    BY DEF StartScan
  <1>2. /\ me \in RunnerState /\ me.step = "select" /\ me.ns = "macro_regime"
    BY DEF Resting, RunnerState, Namespaces
  <1>3. r \in Runners /\ r \notin doomed
    BY <1>1 DEF Runners, IInv, DoomedAssess, Reading
  <1> HIDE DEF me
  <1>4. /\ runner' \in [Runners -> RunnerState] /\ runner'[r] = me
        /\ \A o \in Runners \ {r} : runner'[o] = runner[o]
    BY <1>1, <1>2, <1>3, Moved DEF IInv
  <1>5. lock' \in [Processes -> Runners \cup {NoVal}]
    BY <1>1, <1>3 DEF IInv, TypeOK
  <1>6. doomed' \subseteq Runners
    BY <1>1, <1>3 DEF IInv, TypeOK
  <1> HIDE DEF found
  <1>7. TypeOK'
    BY <1>1, <1>4, <1>5, <1>6 DEF IInv, TypeOK
  <1>8. NamespaceKnown'
    BY <1>2, <1>4 DEF IInv, NamespaceKnown, Namespaces
  <1>9. NoCalmToRead'
    <2>1. CASE found
      BY <1>1, <1>2, <1>4, <2>1 DEF found, NoCalmToRead, Storing, At
    <2>2. CASE ~found
      BY <1>1, <1>2, <1>4, <2>2 DEF IInv, NoCalmToRead, Storing, At
    <2> QED BY <2>1, <2>2
  <1>10. DoomedAssess'
    BY <1>1, <1>2, <1>3, <1>4, <1>6 DEF IInv, DoomedAssess, Reading
  <1> QED BY <1>1, <1>7, <1>8, <1>9, <1>10 DEF IInv, Whole

LEMMA NextDaySound == IInv /\ NextDay => IInv'
  <1> SUFFICES ASSUME IInv, NextDay PROVE IInv'
    OBVIOUS
  <1>1. /\ today < MaxDays /\ today' = today + 1
        /\ UNCHANGED <<crisis, cache, bars, lock, runner, counts, broken, doomed>>
    BY DEF NextDay, history
  <1>2. today' \in 1..MaxDays /\ bars' \subseteq 1..today'
    BY <1>1, ScreeningBounds DEF IInv, TypeOK
  <1> QED BY <1>1, <1>2
          DEF IInv, TypeOK, NamespaceKnown, NoCalmToRead, DoomedAssess, Whole, Storing, At

LEMMA MacroMovesSound == IInv /\ MacroMoves => IInv'
  <1> SUFFICES ASSUME IInv, MacroMoves PROVE IInv'
    OBVIOUS
  <1>1. /\ counts' = [counts EXCEPT !.moves = @ + 1] /\ counts.moves < MaxMoves
        /\ crisis' = ~crisis /\ doomed' = {}
        /\ UNCHANGED <<today, cache, bars, lock, runner, broken>>
    BY DEF MacroMoves
  <1>2. counts' \in [moves : 0..MaxMoves, faults : 0..MaxFaults]
    BY <1>1, ScreeningBounds DEF IInv, TypeOK
  <1> QED BY <1>1, <1>2 DEF IInv, TypeOK, NamespaceKnown, NoCalmToRead, DoomedAssess, Whole

LEMMA ExpireSound == ASSUME NEW n \in Namespaces PROVE IInv /\ Expire(n) => IInv'
  <1> SUFFICES ASSUME IInv, Expire(n) PROVE IInv'
    OBVIOUS
  <1>1. /\ cache' = [cache EXCEPT ![n].state = "expired"]
        /\ UNCHANGED <<today, crisis, bars, lock, runner, counts, broken, doomed>>
    BY DEF Expire, history
  <1>2. /\ cache' \in [Namespaces -> Entry]
        /\ cache'["macro_regime"].state = "fresh" => cache'["macro_regime"] = cache["macro_regime"]
    BY <1>1 DEF IInv, TypeOK, Entry, Namespaces
  <1> QED BY <1>1, <1>2 DEF IInv, TypeOK, NamespaceKnown, NoCalmToRead, DoomedAssess, Whole,
                            Storing, At

LEMMA StutterSound == IInv /\ UNCHANGED vars => IInv'
  BY DEF vars, history, IInv, TypeOK, NamespaceKnown, NoCalmToRead, DoomedAssess, Whole,
         Storing, At

LEMMA NextSound == IInv /\ [Next]_vars => IInv'
  <1> SUFFICES ASSUME IInv, [Next]_vars PROVE IInv'
    OBVIOUS
  <1>1. ASSUME NEW r \in Runners, Step(r) PROVE IInv'
    BY <1>1, SelectSound, DeleteSound, StoreSound, FetchRegimeSound, LoadHistorySound,
       DebateSound, ConcludeSound
    DEF Step
  <1>2. ASSUME NEW r \in Runners, Failure(r) PROVE IInv'
    BY <1>2, RegimeUnknownSound, LoadStoredSound, LoadFailsSound, AgentFailsSound,
       LoadWithoutBarSound
    DEF Failure
  <1> QED BY <1>1, <1>2, NextDaySound, MacroMovesSound, ExpireSound, StartScanSound,
             StartRunSound, StutterSound
          DEF Next

LEMMA AlwaysIInv == Spec => []IInv
  BY InitSound, NextSound, PTL DEF Spec

-----------------------------------------------------------------------------
(***************************************************************************)
(* The theorems.                                                           *)
(***************************************************************************)

\* Every variable of the screening model keeps its type.
THEOREM ScreeningTypeCorrectness == Spec => []TypeOK
  BY AlwaysIInv, PTL DEF IInv

\* Failed downloads, stored snapshots and expiry do not tear a series.
THEOREM SeriesStayWhole == Spec => []SeriesIsWhole
  <1>1. IInv => SeriesIsWhole
    BY ScreeningBounds DEF IInv, Whole, SeriesIsWhole
  <1> QED BY <1>1, AlwaysIInv, PTL

\* A scan that finds a crisis gets to no proposal while it lasts.
THEOREM CrisesStopScans == Spec => []CrisisStopsScans
  <1>1. IInv => CrisisStopsScans
    BY DEF IInv, DoomedAssess, CrisisStopsScans, Reading
  <1> QED BY <1>1, AlwaysIInv, PTL

=============================================================================
