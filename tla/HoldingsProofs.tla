--------------------------- MODULE HoldingsProofs ---------------------------
(***************************************************************************)
(* Theorems of Holdings: its types, that a refused read shows in the       *)
(* outcome and closes no rows, that a holding is counted once, and that a  *)
(* quiet sync mirrors the account; for any symbols, syncers, processes,    *)
(* desks, rows and baskets.                                                *)
(***************************************************************************)
EXTENDS Holdings, FiniteSetTheorems, TLAPS

-----------------------------------------------------------------------------
(***************************************************************************)
(* What a syncer carries at each of its steps, and what the error of its   *)
(* client says while nobody else has used it.                              *)
(***************************************************************************)
ShapeOf(y) ==
  /\ y.pc = "idle" => y.denied = FALSE
  /\ y.pc \in {"apply", "retire"} => y.folio \in Folios
  /\ y.pc = "retire" => y.now \in y.todo
  /\ y.pc # "retire" => y.now = NoVal
  /\ y.pc \in {"rows", "apply", "retire", "close"} => y.seen # {}
  /\ y.pc = "rows" => y.todo = y.seen
  /\ y.pc \in {"apply", "retire"} => y.todo \subseteq y.seen
  /\ y.pc = "close" => y.todo \cap y.seen = {}
  /\ y.pc \in {"apply", "retire", "close"} =>
       \A s \in Symbols : y.existing[s] \in RowsOf(s) \cup {NoVal}

Shaped == \A t \in Syncers : ShapeOf(syncer[t])

\* What the error flag of a client says of a denied run at y.
Tells(y, flag) ==
  y.denied =>
    /\ y.pc \notin {"idle", "holdings", "closeall"}
    /\ y.pc \in {"positions", "judge", "rows", "apply", "retire", "close", "verdict"} => flag = TRUE
    /\ y.pc \in {"margin", "activate", "finish"} => y.partial = TRUE

ErrorKept == \A t \in Syncers \ muddled : Tells(syncer[t], error[Home[t]])

DeskShaped ==
  \A d \in Desks :
    /\ desk[d].pc \in {"edit", "buy"} => desk[d].id \in Ids
    /\ desk[d].pc \in {"select", "buy"} => desk[d].basket \in Baskets

TInv == TypeOK /\ Shaped /\ ErrorKept /\ DeskShaped

\* The types of everything that is neither a syncer, a desk nor a client.
RestOK ==
  /\ broker \in [Symbols -> {"none", "position", "holding"}]
  /\ rows \in [Ids -> Row]
  /\ folios \in [Folios -> {"none", "PENDING_CONFIRMATION", "ACTIVE"}]
  /\ newest \in Seq(Folios)
  /\ drafting \in [Baskets -> SUBSET Symbols]
  /\ latest \in [run : Syncers \cup {NoVal}, state : {"none", "RUNNING", "FRESH", "OLD"}]
  /\ counts \in [trades : 0..MaxTrades, confirms : 0..MaxConfirms, faults : 0..MaxFaults]
  /\ stale \in [Syncers -> SUBSET Symbols]
  /\ disturbed \subseteq Symbols

LEMMA RestingShaped ==
  /\ Resting \in SyncerState /\ Resting.pc = "idle" /\ Resting.denied = FALSE
  /\ Resting.now = NoVal /\ ShapeOf(Resting)
  BY DEF Resting, SyncerState, ShapeOf

Plain == {"holdings", "positions", "judge", "closeall", "verdict", "margin", "activate", "finish"}

LEMMA PlainShape ==
  ASSUME NEW y, y.pc \in Plain, y.now = NoVal
  PROVE  ShapeOf(y)
  BY DEF Plain, ShapeOf

\* Only the step changes.
Goes(y, pc) == [y EXCEPT !.pc = pc]

LEMMA GoesOn ==
  ASSUME NEW y \in SyncerState, ShapeOf(y), y.pc # "retire", NEW pc \in Plain
  PROVE  /\ Goes(y, pc) \in SyncerState /\ ShapeOf(Goes(y, pc))
         /\ Goes(y, pc).pc = pc /\ Goes(y, pc).denied = y.denied /\ Goes(y, pc).partial = y.partial
  <1> DEFINE me == Goes(y, pc)
  <1>1. me \in SyncerState
    BY DEF Goes, SyncerState, Plain
  <1>2. me.pc = pc /\ me.denied = y.denied /\ me.partial = y.partial /\ me.now = y.now
    BY DEF Goes, SyncerState
  <1>3. y.now = NoVal
    BY DEF ShapeOf
  <1> HIDE DEF me
  <1>4. ShapeOf(me)
    BY <1>1, <1>2, <1>3, PlainShape
  <1> QED BY <1>1, <1>2, <1>4 DEF me

\* The holdings were refused.
Refused(y) == [y EXCEPT !.denied = TRUE, !.pc = "positions"]

LEMMA RefusedTyped ==
  ASSUME NEW y \in SyncerState, ShapeOf(y), y.pc # "retire"
  PROVE  Refused(y) \in SyncerState /\ ShapeOf(Refused(y)) /\ Refused(y).pc = "positions"
  <1> DEFINE me == Refused(y)
  <1>1. me \in SyncerState
    BY DEF Refused, SyncerState
  <1>2. me.pc = "positions" /\ me.now = y.now
    BY DEF Refused, SyncerState
  <1>3. y.now = NoVal
    BY DEF ShapeOf
  <1> HIDE DEF me
  <1>4. ShapeOf(me)
    BY <1>1, <1>2, <1>3, PlainShape DEF Plain
  <1> QED BY <1>1, <1>2, <1>4 DEF me

\* A reading: what was reported is to be gone through.
Reads(y, H, pc) == [y EXCEPT !.todo = H, !.seen = H, !.pc = IF H = {} THEN pc ELSE "rows"]

LEMMA ReadsTyped ==
  ASSUME NEW y \in SyncerState, ShapeOf(y), y.pc # "retire", NEW H \in SUBSET Symbols,
         NEW pc \in Plain
  PROVE  /\ Reads(y, H, pc) \in SyncerState /\ ShapeOf(Reads(y, H, pc))
         /\ Reads(y, H, pc).pc \in {pc, "rows"} /\ Reads(y, H, pc).denied = y.denied
         /\ Reads(y, H, pc).partial = y.partial
  <1> DEFINE me == Reads(y, H, pc)
  <1>1. me \in SyncerState
    BY DEF Reads, SyncerState, Plain
  <1>2. /\ me.pc = (IF H = {} THEN pc ELSE "rows") /\ me.denied = y.denied
        /\ me.partial = y.partial /\ me.now = y.now /\ me.todo = H /\ me.seen = H
    BY DEF Reads, SyncerState
  <1>3. y.now = NoVal
    BY DEF ShapeOf
  <1> HIDE DEF me
  <1>4. CASE H = {}
    BY <1>1, <1>2, <1>3, <1>4, PlainShape DEF me
  <1>5. CASE H # {}
    <2>1. ShapeOf(me)
      BY <1>1, <1>2, <1>3, <1>5 DEF ShapeOf
    <2> QED BY <1>1, <1>2, <1>5, <2>1 DEF me
  <1> QED BY <1>4, <1>5

LEMMA InitTyped == Init => TInv
  <1> SUFFICES ASSUME Init PROVE TInv
    OBVIOUS
  <1>1. syncer = [t \in Syncers |-> Resting] /\ desk = [d \in Desks |-> AtDesk]
    BY DEF Init
  <1>2. AtDesk \in DeskState /\ AtDesk.pc = "idle"
    BY DEF AtDesk, DeskState
  <1>3. RestOK
    <2>1. counts \in [trades : 0..MaxTrades, confirms : 0..MaxConfirms, faults : 0..MaxFaults]
      BY HoldingsBounds DEF Init
    <2>2. NoRow \in Row
      BY DEF NoRow, Row, Status, Source, Folios
    <2>3. broker \in [Symbols -> {"none", "position", "holding"}]
      BY DEF Init
    <2> QED BY <2>1, <2>2, <2>3 DEF Init, RestOK
  <1>4. TypeOK
    BY <1>1, <1>2, <1>3, RestingShaped DEF Init, TypeOK, RestOK
  <1>5. Shaped /\ ErrorKept
    BY <1>1, RestingShaped DEF Shaped, ErrorKept, Tells
  <1>6. DeskShaped
    BY <1>1, <1>2 DEF DeskShaped
  <1> QED BY <1>4, <1>5, <1>6 DEF TInv

-----------------------------------------------------------------------------
(***************************************************************************)
(* A step of one syncer.                                                   *)
(***************************************************************************)
Turn(t, me) ==
  /\ me \in SyncerState /\ ShapeOf(me)
  /\ syncer' = [syncer EXCEPT ![t] = me]
  /\ t \notin muddled' => Tells(me, error'[Home[t]])

\* Whoever is under way and not muddled afterwards finds its error as it was.
CallsKept(t) ==
  /\ error' \in [Processes -> BOOLEAN] /\ muddled' \subseteq Syncers
  /\ \A o \in Syncers \ {t} :
       o \notin muddled' /\ syncer[o].pc # "idle" =>
         o \notin muddled /\ error'[Home[o]] = error[Home[o]]

LEMMA TurnStep ==
  ASSUME TInv, NEW t \in Syncers, NEW me, Turn(t, me), CallsKept(t), RestOK', UNCHANGED desk
  PROVE  TInv'
  <1>1. /\ syncer' \in [Syncers -> SyncerState] /\ syncer'[t] = me
        /\ \A o \in Syncers \ {t} : syncer'[o] = syncer[o]
    BY DEF TInv, TypeOK, Turn
  <1>2. TypeOK'
    <2>1. desk' \in [Desks -> DeskState]
      BY DEF TInv, TypeOK
    <2> QED BY <1>1, <2>1 DEF CallsKept, TypeOK, RestOK
  <1>3. Shaped'
    BY <1>1 DEF TInv, Shaped, Turn
  <1>4. ErrorKept'
    <2> SUFFICES ASSUME NEW o \in Syncers, o \notin muddled'
                 PROVE  Tells(syncer'[o], error'[Home[o]])
      BY DEF ErrorKept
    <2>1. CASE o = t
      BY <1>1, <2>1 DEF Turn
    <2>2. CASE o # t /\ syncer[o].pc = "idle"
      BY <1>1, <2>2 DEF TInv, Shaped, ShapeOf, Tells
    <2>3. CASE o # t /\ syncer[o].pc # "idle"
      BY <1>1, <2>3 DEF TInv, ErrorKept, CallsKept
    <2> QED BY <2>1, <2>2, <2>3
  <1>5. DeskShaped'
    BY DEF TInv, DeskShaped
  <1> QED BY <1>2, <1>3, <1>4, <1>5 DEF TInv

LEMMA CallMade ==
  ASSUME TypeOK, NEW t \in Syncers, NEW refused \in BOOLEAN, CallBy(t, refused)
  PROVE  CallsKept(t) /\ error'[Home[t]] = refused /\ (t \notin muddled' => t \notin muddled)
  <1>1. /\ error' = [error EXCEPT ![Home[t]] = refused]
        /\ muddled' = muddled \cup Others(Home[t], t)
    BY DEF CallBy, Answer
  <1>2. error \in [Processes -> BOOLEAN] /\ muddled \subseteq Syncers /\ Home[t] \in Processes
    BY HoldingsOwners DEF TypeOK
  <1>3. ASSUME NEW o \in Syncers \ {t}, o \notin muddled', syncer[o].pc # "idle"
        PROVE  o \notin muddled /\ Home[o] # Home[t]
    BY <1>1, <1>3 DEF Others
  <1>4. ASSUME NEW o \in Syncers \ {t}, o \notin muddled', syncer[o].pc # "idle"
        PROVE  error'[Home[o]] = error[Home[o]]
    BY <1>1, <1>2, <1>3, <1>4, HoldingsOwners
  <1> QED BY <1>1, <1>2, <1>3, <1>4 DEF Others, CallsKept

LEMMA NoCall ==
  ASSUME TypeOK, NEW t \in Syncers, UNCHANGED error, muddled' \in {muddled, muddled \ {t}}
  PROVE  CallsKept(t)
  BY DEF CallsKept, TypeOK

LEMMA Touched ==
  ASSUME TypeOK, NEW S \in SUBSET Symbols, NEW t, Touch(S, t)
  PROVE  stale' \in [Syncers -> SUBSET Symbols]
  BY DEF Touch, TypeOK

LEMMA Faulted ==
  ASSUME TypeOK, Fault
  PROVE  counts' \in [trades : 0..MaxTrades, confirms : 0..MaxConfirms, faults : 0..MaxFaults]
  BY HoldingsBounds DEF Fault, TypeOK

\* Where t stands, as the invariant has it.
LEMMA Standing ==
  ASSUME TInv, NEW t \in Syncers
  PROVE  /\ syncer[t] \in SyncerState /\ ShapeOf(syncer[t])
         /\ t \notin muddled => Tells(syncer[t], error[Home[t]])
         /\ syncer[t].todo \subseteq Symbols /\ syncer[t].seen \subseteq Symbols
         /\ syncer[t].existing \in [Symbols -> Ids \cup {NoVal}]
         /\ syncer[t].was \in [Symbols -> Source \cup {NoVal}]
         /\ syncer[t].now \in Symbols \cup {NoVal}
         /\ syncer[t].folio \in Folios \cup {NoVal}
  BY DEF TInv, TypeOK, Shaped, ErrorKept, SyncerState

-----------------------------------------------------------------------------
(***************************************************************************)
(* The steps of a sync: reading the account.                               *)
(***************************************************************************)
LEMMA StartSyncTyped == ASSUME NEW t \in Syncers PROVE TInv /\ StartSync(t) => TInv'
  <1> SUFFICES ASSUME TInv, StartSync(t) PROVE TInv'
    OBVIOUS
  <1> DEFINE me == [Resting EXCEPT !.pc = "holdings"]
  <1>1. /\ CallBy(t, FALSE) /\ latest' = [run |-> t, state |-> "RUNNING"]
        /\ syncer' = [syncer EXCEPT ![t] = me]
        /\ UNCHANGED <<broker, tables, desk, counts, stale, disturbed>>
    BY DEF StartSync
  <1>2. me \in SyncerState /\ ShapeOf(me) /\ me.denied = FALSE
    BY RestingShaped DEF SyncerState, ShapeOf, Resting
  <1>3. Turn(t, me)
    BY <1>1, <1>2 DEF Turn, Tells
  <1>4. CallsKept(t)
    BY <1>1, CallMade DEF TInv
  <1>5. RestOK'
    BY <1>1 DEF TInv, TypeOK, RestOK, tables
  <1> QED BY <1>1, <1>3, <1>4, <1>5, TurnStep

LEMMA ReadHoldingsTyped == ASSUME NEW t \in Syncers PROVE TInv /\ ReadHoldings(t) => TInv'
  <1> SUFFICES ASSUME TInv, ReadHoldings(t) PROVE TInv'
    OBVIOUS
  <1> DEFINE me == Reads(syncer[t], Held("holding"), "positions")
  <1>1. /\ CallBy(t, FALSE) /\ syncer[t].pc = "holdings" /\ syncer' = [syncer EXCEPT ![t] = me]
        /\ UNCHANGED <<broker, tables, latest, desk, counts, stale, disturbed>>
    BY DEF ReadHoldings, Reads, TInv, TypeOK
  <1>2. Held("holding") \in SUBSET Symbols /\ "positions" \in Plain
    BY DEF Held, Plain
  <1>3. me \in SyncerState /\ ShapeOf(me) /\ me.denied = syncer[t].denied
    BY <1>1, <1>2, Standing, ReadsTyped
  <1> HIDE DEF me
  <1>4. CallsKept(t) /\ (t \notin muddled' => t \notin muddled)
    BY <1>1, CallMade DEF TInv
  <1>5. t \notin muddled => syncer[t].denied = FALSE
    BY <1>1, Standing DEF Tells, SyncerState
  <1>6. Turn(t, me)
    BY <1>1, <1>3, <1>4, <1>5 DEF Turn, Tells
  <1>7. RestOK'
    BY <1>1 DEF TInv, TypeOK, RestOK, tables
  <1> QED BY <1>1, <1>4, <1>6, <1>7, TurnStep

LEMMA HoldingsDeniedTyped == ASSUME NEW t \in Syncers PROVE TInv /\ HoldingsDenied(t) => TInv'
  <1> SUFFICES ASSUME TInv, HoldingsDenied(t) PROVE TInv'
    OBVIOUS
  <1> DEFINE me == Refused(syncer[t])
  <1>1. /\ CallBy(t, TRUE) /\ Fault /\ syncer[t].pc = "holdings"
        /\ syncer' = [syncer EXCEPT ![t] = me]
        /\ UNCHANGED <<broker, tables, latest, desk, stale, disturbed>>
    BY DEF HoldingsDenied, Refused, TInv, TypeOK
  <1>2. me \in SyncerState /\ ShapeOf(me) /\ me.pc = "positions"
    BY <1>1, Standing, RefusedTyped
  <1> HIDE DEF me
  <1>3. CallsKept(t) /\ error'[Home[t]] = TRUE
    BY <1>1, CallMade DEF TInv
  <1>4. Turn(t, me)
    BY <1>1, <1>2, <1>3 DEF Turn, Tells
  <1>5. RestOK'
    BY <1>1, Faulted DEF TInv, TypeOK, RestOK, tables
  <1> QED BY <1>1, <1>3, <1>4, <1>5, TurnStep

LEMMA ReadPositionsTyped == ASSUME NEW t \in Syncers PROVE TInv /\ ReadPositions(t) => TInv'
  <1> SUFFICES ASSUME TInv, ReadPositions(t) PROVE TInv'
    OBVIOUS
  <1> DEFINE me == Reads(syncer[t], Held("position"), "judge")
  <1>1. /\ syncer[t].pc = "positions" /\ syncer' = [syncer EXCEPT ![t] = me]
        /\ UNCHANGED <<broker, tables, error, latest, desk, counts, muddled, stale, disturbed>>
    BY DEF ReadPositions, Reads, history, TInv, TypeOK
  <1>2. Held("position") \in SUBSET Symbols /\ "judge" \in Plain
    BY DEF Held, Plain
  <1>3. /\ me \in SyncerState /\ ShapeOf(me) /\ me.denied = syncer[t].denied
        /\ me.pc \in {"judge", "rows"}
    BY <1>1, <1>2, Standing, ReadsTyped
  <1> HIDE DEF me
  <1>4. CallsKept(t)
    BY <1>1, NoCall DEF TInv
  <1>5. Turn(t, me)
    BY <1>1, <1>3, Standing DEF Turn, Tells
  <1>6. RestOK'
    BY <1>1 DEF TInv, TypeOK, RestOK, tables
  <1> QED BY <1>1, <1>4, <1>5, <1>6, TurnStep

LEMMA PositionsDeniedTyped == ASSUME NEW t \in Syncers PROVE TInv /\ PositionsDenied(t) => TInv'
  <1> SUFFICES ASSUME TInv, PositionsDenied(t) PROVE TInv'
    OBVIOUS
  <1> DEFINE me == Goes(syncer[t], "judge")
  <1>1. /\ CallBy(t, TRUE) /\ Fault /\ syncer[t].pc = "positions"
        /\ syncer' = [syncer EXCEPT ![t] = me]
        /\ UNCHANGED <<broker, tables, latest, desk, stale, disturbed>>
    BY DEF PositionsDenied, Goes, TInv, TypeOK
  <1>2. "judge" \in Plain
    BY DEF Plain
  <1>3. me \in SyncerState /\ ShapeOf(me) /\ me.pc = "judge"
    BY <1>1, <1>2, Standing, GoesOn
  <1> HIDE DEF me
  <1>4. CallsKept(t) /\ error'[Home[t]] = TRUE
    BY <1>1, CallMade DEF TInv
  <1>5. Turn(t, me)
    BY <1>1, <1>3, <1>4 DEF Turn, Tells
  <1>6. RestOK'
    BY <1>1, Faulted DEF TInv, TypeOK, RestOK, tables
  <1> QED BY <1>1, <1>4, <1>5, <1>6, TurnStep

LEMMA JudgeTyped == ASSUME NEW t \in Syncers PROVE TInv /\ Judge(t) => TInv'
  <1> SUFFICES ASSUME TInv, Judge(t) PROVE TInv'
    OBVIOUS
  <1> DEFINE pc == IF error[Home[t]] THEN "verdict" ELSE "closeall"
             me == Goes(syncer[t], pc)
  <1>1. /\ syncer[t].pc = "judge" /\ syncer' = [syncer EXCEPT ![t] = me]
        /\ UNCHANGED <<broker, tables, error, latest, desk, counts, muddled, stale, disturbed>>
    BY DEF Judge, Goes, history, TInv, TypeOK
  <1>2. pc \in Plain /\ (error[Home[t]] = TRUE => pc = "verdict")
    BY DEF Plain
  <1>3. pc \in {"verdict", "closeall"}
    OBVIOUS
  <1> HIDE DEF pc
  <1>4. me \in SyncerState /\ ShapeOf(me) /\ me.pc = pc /\ me.denied = syncer[t].denied
    BY <1>1, <1>2, Standing, GoesOn
  <1> HIDE DEF me
  <1>5. t \notin muddled /\ me.denied => error[Home[t]] = TRUE /\ me.pc = "verdict"
    BY <1>1, <1>2, <1>4, Standing DEF Tells, SyncerState
  <1>6. CallsKept(t)
    BY <1>1, NoCall DEF TInv
  <1>7. Turn(t, me)
    BY <1>1, <1>3, <1>4, <1>5 DEF Turn, Tells
  <1>8. RestOK'
    BY <1>1 DEF TInv, TypeOK, RestOK, tables
  <1> QED BY <1>1, <1>6, <1>7, <1>8, TurnStep

-----------------------------------------------------------------------------
(***************************************************************************)
(* The steps of a sync: the rows.                                          *)
(***************************************************************************)
LEMMA RowKinds ==
  ASSUME NEW r \in Row
  PROVE  /\ [r EXCEPT !.status = "INACTIVE"] \in Row
         /\ [r EXCEPT !.status = "deleted"] \in Row
         /\ [r EXCEPT !.shares = "user"] \in Row
         /\ [r EXCEPT !.status = "ACTIVE", !.source = "BASKET", !.shares = "user"] \in Row
  BY DEF Row, Status, Source

LEMMA CloseAllTyped == ASSUME NEW t \in Syncers PROVE TInv /\ CloseAll(t) => TInv'
  <1> SUFFICES ASSUME TInv, CloseAll(t) PROVE TInv'
    OBVIOUS
  <1> DEFINE me == Goes(syncer[t], "verdict")
             S == {s \in Symbols : \E i \in RowsOf(s) : IsSynced(i)}
  <1>1. /\ syncer[t].pc = "closeall" /\ syncer' = [syncer EXCEPT ![t] = me]
        /\ UNCHANGED <<broker, folios, newest, drafting, error, latest, desk, counts, muddled,
                       disturbed>>
        /\ Touch(S, t)
    BY DEF CloseAll, Goes, TInv, TypeOK
  <1>2. rows' \in [Ids -> Row]
    <2>1. rows' = [i \in Ids |-> IF IsSynced(i) THEN [rows[i] EXCEPT !.status = "INACTIVE"]
                                               ELSE rows[i]]
      BY DEF CloseAll
    <2>2. rows \in [Ids -> Row]
      BY DEF TInv, TypeOK
    <2> QED BY <2>1, <2>2, RowKinds
  <1>3. stale' \in [Syncers -> SUBSET Symbols]
    <2>1. S \in SUBSET Symbols
      OBVIOUS
    <2> HIDE DEF S
    <2> QED BY <1>1, <2>1, Touched DEF TInv
  <1>4. "verdict" \in Plain
    BY DEF Plain
  <1>5. me \in SyncerState /\ ShapeOf(me) /\ me.denied = syncer[t].denied
    BY <1>1, <1>4, Standing, GoesOn
  <1> HIDE DEF me
  <1>6. CallsKept(t)
    BY <1>1, NoCall DEF TInv
  <1>7. Turn(t, me)
    BY <1>1, <1>5, Standing DEF Turn, Tells
  <1>8. RestOK'
    BY <1>1, <1>2, <1>3 DEF TInv, TypeOK, RestOK
  <1> QED BY <1>1, <1>6, <1>7, <1>8, TurnStep

LEMMA TargetTyped == ASSUME TypeOK PROVE TargetFolio \in Folios
  <1> DEFINE first == {n \in DOMAIN newest : IsActive(n) /\ \A m \in 1..(n - 1) : ~IsActive(m)}
  <1>1. CASE first = {}
    BY <1>1 DEF TargetFolio, Folios
  <1>2. CASE first # {}
    <2>1. (CHOOSE n \in first : TRUE) \in DOMAIN newest
      BY <1>2
    <2>2. \A n \in DOMAIN newest : newest[n] \in Folios
      BY DEF TypeOK
    <2>3. TargetFolio = newest[CHOOSE n \in first : TRUE]
      BY <1>2 DEF TargetFolio
    <2> HIDE DEF first
    <2> QED BY <2>1, <2>2, <2>3
  <1> QED BY <1>1, <1>2

Finds(y, found, folio, was) ==
  [y EXCEPT !.existing = found, !.folio = folio, !.was = was, !.pc = "apply"]

LEMMA FindsTyped ==
  ASSUME NEW y \in SyncerState, ShapeOf(y), y.pc = "rows",
         NEW found \in [Symbols -> Ids \cup {NoVal}], NEW folio \in Folios,
         NEW was \in [Symbols -> Source \cup {NoVal}],
         \A s \in Symbols : found[s] \in RowsOf(s) \cup {NoVal}
  PROVE  LET me == Finds(y, found, folio, was) IN
         /\ me \in SyncerState /\ ShapeOf(me) /\ me.pc = "apply" /\ me.denied = y.denied
         /\ me.todo = y.todo /\ me.seen = y.seen /\ me.existing = found /\ me.was = was
         /\ me.folio = folio /\ me.now = NoVal
  <1> DEFINE me == Finds(y, found, folio, was)
  <1>1. me \in SyncerState
    BY DEF Finds, SyncerState
  <1>2. /\ me.pc = "apply" /\ me.denied = y.denied /\ me.todo = y.todo /\ me.seen = y.seen
        /\ me.existing = found /\ me.was = was /\ me.folio = folio /\ me.now = y.now
    BY DEF Finds, SyncerState
  <1> HIDE DEF me
  <1>3. ShapeOf(me) /\ me.now = NoVal
    BY <1>2 DEF ShapeOf
  <1> QED BY <1>1, <1>2, <1>3 DEF me

\* What a reading of the rows leaves in the state of its syncer.
WasOf(found) == [s \in Symbols |-> IF found[s] = NoVal THEN NoVal ELSE rows[found[s]].source]

Fits(found) ==
  \A s \in Symbols : IF Open(s) = {} THEN found[s] = NoVal ELSE found[s] \in First(s)

LEMMA FitsTyped ==
  ASSUME TypeOK, NEW found \in [Symbols -> Ids \cup {NoVal}], Fits(found)
  PROVE  /\ \A s \in Symbols : found[s] \in RowsOf(s) \cup {NoVal}
         /\ WasOf(found) \in [Symbols -> Source \cup {NoVal}]
  <1>1. \A s \in Symbols : found[s] \in RowsOf(s) \cup {NoVal}
    BY DEF Fits, First, Open
  <1>2. \A i \in Ids : rows[i].source \in Source
    BY DEF TypeOK, Row
  <1> QED BY <1>1, <1>2 DEF WasOf

LEMMA ReadRowsStep ==
  ASSUME TInv, NEW t \in Syncers, ReadRows(t)
  PROVE  \E found \in [Symbols -> Ids \cup {NoVal}] :
           /\ Fits(found)
           /\ syncer' = [syncer EXCEPT ![t] = Finds(syncer[t], found, TargetFolio, WasOf(found))]
  <1>1. PICK found \in [Symbols -> Ids \cup {NoVal}] :
          /\ \A s \in Symbols : IF Open(s) = {} THEN found[s] = NoVal ELSE found[s] \in First(s)
          /\ syncer' = [syncer EXCEPT ![t].existing = found, ![t].folio = TargetFolio,
               ![t].was = [s \in Symbols |->
                             IF found[s] = NoVal THEN NoVal ELSE rows[found[s]].source],
               ![t].pc = "apply"]
    BY DEF ReadRows
  <1>2. Fits(found)
    BY <1>1 DEF Fits
  <1>3. syncer' = [syncer EXCEPT ![t].existing = found, ![t].folio = TargetFolio,
                                 ![t].was = WasOf(found), ![t].pc = "apply"]
    BY <1>1 DEF WasOf
  <1>4. syncer' = [syncer EXCEPT ![t] = Finds(syncer[t], found, TargetFolio, WasOf(found))]
    BY <1>3 DEF Finds, TInv, TypeOK
  <1> QED BY <1>2, <1>4

LEMMA ReadRowsTyped == ASSUME NEW t \in Syncers PROVE TInv /\ ReadRows(t) => TInv'
  <1> SUFFICES ASSUME TInv, ReadRows(t) PROVE TInv'
    OBVIOUS
  <1>1. PICK found \in [Symbols -> Ids \cup {NoVal}] :
           /\ Fits(found)
           /\ syncer' = [syncer EXCEPT ![t] = Finds(syncer[t], found, TargetFolio, WasOf(found))]
    BY ReadRowsStep
  <1> DEFINE me == Finds(syncer[t], found, TargetFolio, WasOf(found))
  <1>2. /\ syncer[t].pc = "rows" /\ stale' = [stale EXCEPT ![t] = {}]
        /\ UNCHANGED <<broker, rows, drafting, error, latest, desk, counts, muddled, disturbed>>
    BY DEF ReadRows
  <1>3. /\ folios' \in [Folios -> {"none", "PENDING_CONFIRMATION", "ACTIVE"}]
        /\ newest' \in Seq(Folios)
    <2>1. CASE TargetFolio = Broker /\ folios[Broker] = "none"
      <3>1. folios' = [folios EXCEPT ![Broker] = "ACTIVE"] /\ newest' = <<Broker>> \o newest
        BY <2>1 DEF ReadRows
      <3>2. Broker \in Folios
        BY DEF Folios
      <3> QED BY <3>1, <3>2 DEF TInv, TypeOK
    <2>2. CASE ~(TargetFolio = Broker /\ folios[Broker] = "none")
      <3>1. UNCHANGED <<folios, newest>>
        BY <2>2 DEF ReadRows
      <3> QED BY <3>1 DEF TInv, TypeOK
    <2> QED BY <2>1, <2>2
  <1>4. me \in SyncerState /\ ShapeOf(me) /\ me.pc = "apply" /\ me.denied = syncer[t].denied
    <2>1. /\ \A s \in Symbols : found[s] \in RowsOf(s) \cup {NoVal}
          /\ WasOf(found) \in [Symbols -> Source \cup {NoVal}]
      BY <1>1, FitsTyped DEF TInv
    <2>2. TargetFolio \in Folios /\ syncer[t] \in SyncerState /\ ShapeOf(syncer[t])
      BY TargetTyped, Standing DEF TInv
    <2> QED BY <1>2, <2>1, <2>2, FindsTyped
  <1> HIDE DEF me
  <1>5. CallsKept(t)
    BY <1>2, NoCall DEF TInv
  <1>6. Turn(t, me)
    BY <1>1, <1>2, <1>4, Standing DEF Turn, Tells, me
  <1>7. RestOK'
    BY <1>2, <1>3 DEF TInv, TypeOK, RestOK
  <1> QED BY <1>2, <1>5, <1>6, <1>7, TurnStep

Takes(y, s) == [y EXCEPT !.pc = "retire", !.now = s]

LEMMA TakesTyped ==
  ASSUME NEW y \in SyncerState, ShapeOf(y), y.pc = "apply", NEW s \in Symbols, s \in y.todo
  PROVE  LET me == Takes(y, s) IN
         /\ me \in SyncerState /\ ShapeOf(me) /\ me.pc = "retire" /\ me.denied = y.denied
         /\ me.todo = y.todo /\ me.seen = y.seen /\ me.existing = y.existing /\ me.was = y.was
         /\ me.folio = y.folio /\ me.now = s
  <1> DEFINE me == Takes(y, s)
  <1>1. me \in SyncerState
    BY DEF Takes, SyncerState
  <1>2. /\ me.pc = "retire" /\ me.denied = y.denied /\ me.todo = y.todo /\ me.seen = y.seen
        /\ me.existing = y.existing /\ me.was = y.was /\ me.folio = y.folio /\ me.now = s
    BY DEF Takes, SyncerState
  <1> HIDE DEF me
  <1>3. ShapeOf(me)
    BY <1>2 DEF ShapeOf
  <1> QED BY <1>1, <1>2, <1>3 DEF me

\* s has been gone through.
Drops(y, s) == [y EXCEPT !.pc = IF y.pc = "retire" THEN "apply" ELSE @, !.now = NoVal,
                        !.todo = @ \ {s}]

LEMMA DropsTyped ==
  ASSUME NEW y \in SyncerState, ShapeOf(y), y.pc \in {"apply", "retire", "close"},
         NEW s \in Symbols
  PROVE  LET me == Drops(y, s) IN
         /\ me \in SyncerState /\ ShapeOf(me) /\ me.denied = y.denied
         /\ me.pc = (IF y.pc = "retire" THEN "apply" ELSE y.pc)
         /\ me.todo = y.todo \ {s} /\ me.seen = y.seen /\ me.existing = y.existing
         /\ me.was = y.was /\ me.folio = y.folio /\ me.now = NoVal
  <1> DEFINE me == Drops(y, s)
  <1>1. me \in SyncerState
    BY DEF Drops, SyncerState
  <1>2. /\ me.pc = (IF y.pc = "retire" THEN "apply" ELSE y.pc) /\ me.denied = y.denied
        /\ me.todo = y.todo \ {s} /\ me.seen = y.seen /\ me.existing = y.existing
        /\ me.was = y.was /\ me.folio = y.folio /\ me.now = NoVal
    BY DEF Drops, SyncerState
  <1> HIDE DEF me
  <1>3. ShapeOf(me)
    BY <1>2 DEF ShapeOf
  <1> QED BY <1>1, <1>2, <1>3 DEF me

\* A row becomes the holding.
LEMMA SyncedRowTyped ==
  ASSUME NEW t \in Syncers, syncer[t].folio \in Folios
  PROVE  /\ SyncedRow(t) \in Row /\ SyncedRow(t).status = "ACTIVE"
         /\ SyncedRow(t).source = "GROWW_SYNC" /\ SyncedRow(t).shares = "broker"
  BY DEF SyncedRow, Row, Status, Source

LEMMA TakeOverTyped ==
  ASSUME NEW t \in Syncers, NEW s \in Symbols PROVE TInv /\ TakeOver(t, s) => TInv'
  <1> SUFFICES ASSUME TInv, TakeOver(t, s) PROVE TInv'
    OBVIOUS
  <1> DEFINE me == Takes(syncer[t], s)
             i == syncer[t].existing[s]
  <1>1. /\ syncer[t].pc = "apply" /\ s \in syncer[t].todo /\ i # NoVal
        /\ syncer' = [syncer EXCEPT ![t] = me]
        /\ UNCHANGED <<broker, folios, newest, drafting, error, latest, desk, counts, muddled,
                       disturbed>>
    BY DEF TakeOver, Takes, TInv, TypeOK
  <1>2. \/ rows' = [rows EXCEPT ![i] = SyncedRow(t)] /\ Touch({s}, t)
        \/ UNCHANGED <<rows, stale>>
    BY DEF TakeOver
  <1>3. rows' \in [Ids -> Row] /\ stale' \in [Syncers -> SUBSET Symbols]
    <2>1. SyncedRow(t) \in Row
      BY <1>1, Standing, SyncedRowTyped DEF ShapeOf
    <2>2. Touch({s}, t) => stale' \in [Syncers -> SUBSET Symbols]
      BY Touched DEF TInv
    <2>3. rows \in [Ids -> Row] /\ stale \in [Syncers -> SUBSET Symbols]
      BY DEF TInv, TypeOK
    <2> HIDE DEF i, me
    <2> QED BY <1>2, <2>1, <2>2, <2>3
  <1>4. me \in SyncerState /\ ShapeOf(me) /\ me.denied = syncer[t].denied /\ me.pc = "retire"
    BY <1>1, Standing, TakesTyped
  <1> HIDE DEF me, i
  <1>5. CallsKept(t)
    BY <1>1, NoCall DEF TInv
  <1>6. Turn(t, me)
    BY <1>1, <1>4, Standing DEF Turn, Tells
  <1>7. RestOK'
    BY <1>1, <1>3 DEF TInv, TypeOK, RestOK
  <1> QED BY <1>1, <1>5, <1>6, <1>7, TurnStep

LEMMA RetireTyped == ASSUME NEW t \in Syncers PROVE TInv /\ Retire(t) => TInv'
  <1> SUFFICES ASSUME TInv, Retire(t) PROVE TInv'
    OBVIOUS
  <1> DEFINE s == syncer[t].now
             me == Drops(syncer[t], s)
  <1>1. /\ syncer[t].pc = "retire" /\ Touch({s}, t)
        /\ syncer' = [syncer EXCEPT ![t] = me]
        /\ UNCHANGED <<broker, folios, newest, drafting, error, latest, desk, counts, muddled>>
    BY DEF Retire, Drops, TInv, TypeOK
  <1>2. s \in Symbols
    <2>1. s \in syncer[t].todo
      BY <1>1, Standing DEF ShapeOf
    <2> QED BY <2>1, Standing
  <1>3. rows' \in [Ids -> Row]
    <2>1. rows' = [i \in Ids |-> IF i[2] = s /\ i # syncer[t].existing[s] /\ Exists(i)
                                 THEN [rows[i] EXCEPT !.status = "INACTIVE"] ELSE rows[i]]
      BY DEF Retire
    <2>2. rows \in [Ids -> Row]
      BY DEF TInv, TypeOK
    <2> QED BY <2>1, <2>2, RowKinds
  <1>4. disturbed' \subseteq Symbols
    BY <1>2 DEF Retire, TInv, TypeOK
  <1>5. stale' \in [Syncers -> SUBSET Symbols]
    BY <1>1, <1>2, Touched DEF TInv
  <1>6. me \in SyncerState /\ ShapeOf(me) /\ me.denied = syncer[t].denied /\ me.pc = "apply"
    BY <1>1, <1>2, Standing, DropsTyped
  <1> HIDE DEF me, s
  <1>7. CallsKept(t)
    BY <1>1, NoCall DEF TInv
  <1>8. Turn(t, me)
    BY <1>1, <1>6, Standing DEF Turn, Tells
  <1>9. RestOK'
    BY <1>1, <1>3, <1>4, <1>5 DEF TInv, TypeOK, RestOK
  <1> QED BY <1>1, <1>7, <1>8, <1>9, TurnStep

LEMMA InsertTyped ==
  ASSUME NEW t \in Syncers, NEW s \in Symbols PROVE TInv /\ Insert(t, s) => TInv'
  <1> SUFFICES ASSUME TInv, Insert(t, s) PROVE TInv'
    OBVIOUS
  <1> DEFINE me == Drops(syncer[t], s)
  <1>1. /\ syncer[t].pc = "apply" /\ s \in syncer[t].todo /\ Touch({s}, t)
        /\ rows' = [rows EXCEPT ![<<Broker, s>>] = SyncedRow(t)]
        /\ disturbed' \in {disturbed \cup {s}, disturbed}
        /\ UNCHANGED <<broker, folios, newest, drafting, error, latest, desk, counts, muddled>>
    BY DEF Insert
  <1>2. syncer' = [syncer EXCEPT ![t] = me]
    <2>1. syncer[t] = [syncer[t] EXCEPT !.now = NoVal, !.pc = "apply"]
      BY <1>1, Standing DEF ShapeOf, SyncerState
    <2>2. me = [syncer[t] EXCEPT !.todo = @ \ {s}]
      BY <1>1, <2>1, Standing DEF Drops, SyncerState, ShapeOf
    <2>3. syncer' = [syncer EXCEPT ![t] = [syncer[t] EXCEPT !.todo = @ \ {s}]]
      BY DEF Insert, TInv, TypeOK
    <2> QED BY <2>2, <2>3
  <1>3. rows' \in [Ids -> Row]
    <2>1. SyncedRow(t) \in Row
      BY <1>1, Standing, SyncedRowTyped DEF ShapeOf
    <2> QED BY <1>1, <2>1 DEF TInv, TypeOK
  <1>4. stale' \in [Syncers -> SUBSET Symbols] /\ disturbed' \subseteq Symbols
    BY <1>1, Touched DEF TInv, TypeOK
  <1>5. me \in SyncerState /\ ShapeOf(me) /\ me.denied = syncer[t].denied /\ me.pc = "apply"
    BY <1>1, Standing, DropsTyped
  <1> HIDE DEF me
  <1>6. CallsKept(t)
    BY <1>1, NoCall DEF TInv
  <1>7. Turn(t, me)
    BY <1>1, <1>2, <1>5, Standing DEF Turn, Tells
  <1>8. RestOK'
    BY <1>1, <1>3, <1>4 DEF TInv, TypeOK, RestOK
  <1> QED BY <1>1, <1>6, <1>7, <1>8, TurnStep

LEMMA AbandonTyped ==
  ASSUME TInv, NEW t \in Syncers, Abandon(t),
         counts' \in [trades : 0..MaxTrades, confirms : 0..MaxConfirms, faults : 0..MaxFaults]
  PROVE  TInv'
  <1>1. /\ syncer' = [syncer EXCEPT ![t] = Resting] /\ muddled' = muddled \ {t}
        /\ disturbed' = disturbed \cup ({syncer[t].now} \ {NoVal})
        /\ stale' = [stale EXCEPT ![t] = {}]
        /\ UNCHANGED <<broker, tables, error, latest, desk>>
    BY DEF Abandon
  <1>2. Turn(t, Resting)
    BY <1>1, RestingShaped DEF Turn, Tells
  <1>3. CallsKept(t)
    BY <1>1, NoCall DEF TInv
  <1>4. disturbed' \subseteq Symbols
    BY <1>1, Standing DEF TInv, TypeOK
  <1>5. RestOK'
    BY <1>1, <1>4 DEF TInv, TypeOK, RestOK, tables
  <1> QED BY <1>1, <1>2, <1>3, <1>5, TurnStep

LEMMA CollideTyped ==
  ASSUME NEW t \in Syncers, NEW s \in Symbols PROVE TInv /\ Collide(t, s) => TInv'
  BY AbandonTyped DEF Collide, TInv, TypeOK

LEMMA RaiseTyped == ASSUME NEW t \in Syncers PROVE TInv /\ Raise(t) => TInv'
  BY AbandonTyped, Faulted DEF Raise, TInv

\* What is left to close.
Closes(y, S) == [y EXCEPT !.pc = "close", !.todo = S]

LEMMA ClosesTyped ==
  ASSUME NEW y \in SyncerState, ShapeOf(y), y.pc = "apply",
         NEW S \in SUBSET Symbols, S \cap y.seen = {}
  PROVE  LET me == Closes(y, S) IN
         /\ me \in SyncerState /\ ShapeOf(me) /\ me.pc = "close" /\ me.denied = y.denied
         /\ me.todo = S /\ me.seen = y.seen /\ me.existing = y.existing /\ me.was = y.was
         /\ me.now = NoVal
  <1> DEFINE me == Closes(y, S)
  <1>1. me \in SyncerState
    BY DEF Closes, SyncerState
  <1>2. /\ me.pc = "close" /\ me.denied = y.denied /\ me.todo = S /\ me.seen = y.seen
        /\ me.existing = y.existing /\ me.was = y.was /\ me.now = y.now
    BY DEF Closes, SyncerState
  <1> HIDE DEF me
  <1>3. ShapeOf(me) /\ me.now = NoVal
    BY <1>2 DEF ShapeOf
  <1> QED BY <1>1, <1>2, <1>3 DEF me

LEMMA StartClosingTyped == ASSUME NEW t \in Syncers PROVE TInv /\ StartClosing(t) => TInv'
  <1> SUFFICES ASSUME TInv, StartClosing(t) PROVE TInv'
    OBVIOUS
  <1> DEFINE me == Closes(syncer[t], Unseen(t))
  <1>1. /\ syncer[t].pc = "apply" /\ syncer' = [syncer EXCEPT ![t] = me]
        /\ UNCHANGED <<broker, tables, error, latest, desk, counts, muddled, stale, disturbed>>
    BY DEF StartClosing, Closes, history, TInv, TypeOK
  <1>2. Unseen(t) \in SUBSET Symbols /\ Unseen(t) \cap syncer[t].seen = {}
    BY DEF Unseen
  <1>3. me \in SyncerState /\ ShapeOf(me) /\ me.denied = syncer[t].denied /\ me.pc = "close"
    BY <1>1, <1>2, Standing, ClosesTyped
  <1> HIDE DEF me
  <1>4. CallsKept(t)
    BY <1>1, NoCall DEF TInv
  <1>5. Turn(t, me)
    BY <1>1, <1>3, Standing DEF Turn, Tells
  <1>6. RestOK'
    BY <1>1 DEF TInv, TypeOK, RestOK, tables
  <1> QED BY <1>1, <1>4, <1>5, <1>6, TurnStep

LEMMA CloseOneTyped ==
  ASSUME NEW t \in Syncers, NEW s \in Symbols PROVE TInv /\ CloseOne(t, s) => TInv'
  <1> SUFFICES ASSUME TInv, CloseOne(t, s) PROVE TInv'
    OBVIOUS
  <1> DEFINE me == Drops(syncer[t], s)
             i == syncer[t].existing[s]
  <1>1. /\ syncer[t].pc = "close" /\ s \in syncer[t].todo
        /\ UNCHANGED <<broker, folios, newest, drafting, error, latest, desk, counts, muddled,
                       disturbed>>
    BY DEF CloseOne
  <1>2. syncer' = [syncer EXCEPT ![t] = me]
    <2>1. syncer[t] = [syncer[t] EXCEPT !.now = NoVal, !.pc = "close"]
      BY <1>1, Standing DEF ShapeOf, SyncerState
    <2>2. me = [syncer[t] EXCEPT !.todo = @ \ {s}]
      BY <1>1, <2>1, Standing DEF Drops, SyncerState, ShapeOf
    <2>3. syncer' = [syncer EXCEPT ![t] = [syncer[t] EXCEPT !.todo = @ \ {s}]]
      BY DEF CloseOne, TInv, TypeOK
    <2> QED BY <2>2, <2>3
  <1>3. \/ rows' = [rows EXCEPT ![i].status = "INACTIVE"] /\ Touch({s}, t)
        \/ UNCHANGED <<rows, stale>>
    BY DEF CloseOne
  <1>4. rows' \in [Ids -> Row] /\ stale' \in [Syncers -> SUBSET Symbols]
    <2>1. Touch({s}, t) => stale' \in [Syncers -> SUBSET Symbols]
      BY Touched DEF TInv
    <2>2. rows \in [Ids -> Row] /\ stale \in [Syncers -> SUBSET Symbols]
      BY DEF TInv, TypeOK
    <2> HIDE DEF i, me
    <2>3. rows' = [rows EXCEPT ![i].status = "INACTIVE"] => rows' \in [Ids -> Row]
      BY <2>2, RowKinds
    <2> QED BY <1>3, <2>1, <2>2, <2>3
  <1>5. me \in SyncerState /\ ShapeOf(me) /\ me.denied = syncer[t].denied /\ me.pc = "close"
    BY <1>1, Standing, DropsTyped
  <1> HIDE DEF me, i
  <1>6. CallsKept(t)
    BY <1>1, NoCall DEF TInv
  <1>7. Turn(t, me)
    BY <1>1, <1>2, <1>5, Standing DEF Turn, Tells
  <1>8. RestOK'
    BY <1>1, <1>4 DEF TInv, TypeOK, RestOK
  <1> QED BY <1>1, <1>6, <1>7, <1>8, TurnStep

-----------------------------------------------------------------------------
(***************************************************************************)
(* The steps of a sync: its end.                                           *)
(***************************************************************************)
LEMMA VerdictTyped == ASSUME NEW t \in Syncers PROVE TInv /\ Verdict(t) => TInv'
  <1> SUFFICES ASSUME TInv, Verdict(t) PROVE TInv'
    OBVIOUS
  <1> DEFINE me == [Resting EXCEPT !.pc = "margin", !.denied = syncer[t].denied,
                                   !.partial = error[Home[t]]]
  <1>1. /\ syncer[t].pc \in {"verdict", "close"} /\ syncer' = [syncer EXCEPT ![t] = me]
        /\ stale' = [stale EXCEPT ![t] = {}]
        /\ UNCHANGED <<broker, tables, error, latest, desk, counts, muddled, disturbed>>
    BY DEF Verdict, Applied
  <1>2. error[Home[t]] \in BOOLEAN /\ syncer[t].denied \in BOOLEAN
    BY Standing, HoldingsOwners DEF TInv, TypeOK, SyncerState
  <1>3. /\ me \in SyncerState /\ me.pc = "margin" /\ me.now = NoVal
        /\ me.denied = syncer[t].denied /\ me.partial = error[Home[t]]
    BY <1>2, RestingShaped DEF SyncerState, Resting
  <1> HIDE DEF me
  <1>4. ShapeOf(me)
    BY <1>3, PlainShape DEF Plain
  <1>5. CallsKept(t)
    BY <1>1, NoCall DEF TInv
  <1>6. Turn(t, me)
    BY <1>1, <1>3, <1>4, Standing DEF Turn, Tells
  <1>7. RestOK'
    BY <1>1 DEF TInv, TypeOK, RestOK, tables
  <1> QED BY <1>1, <1>5, <1>6, <1>7, TurnStep

\* Past the verdict the outcome is kept in the run, not in the client.
LEMMA MarginTyped ==
  ASSUME TInv, NEW t \in Syncers, syncer[t].pc = "margin", NEW refused \in BOOLEAN,
         CallBy(t, refused), syncer' = [syncer EXCEPT ![t] = Goes(syncer[t], "activate")],
         RestOK', UNCHANGED desk
  PROVE  TInv'
  <1> DEFINE me == Goes(syncer[t], "activate")
  <1>1. "activate" \in Plain
    BY DEF Plain
  <1>2. /\ me \in SyncerState /\ ShapeOf(me) /\ me.denied = syncer[t].denied
        /\ me.partial = syncer[t].partial /\ me.pc = "activate"
    BY <1>1, Standing, GoesOn
  <1>3. syncer' = [syncer EXCEPT ![t] = me]
    OBVIOUS
  <1> HIDE DEF me
  <1>4. CallsKept(t) /\ (t \notin muddled' => t \notin muddled)
    BY CallMade DEF TInv
  <1>5. Turn(t, me)
    BY <1>2, <1>3, <1>4, Standing DEF Turn, Tells
  <1> QED BY <1>4, <1>5, TurnStep

LEMMA ReadMarginTyped == ASSUME NEW t \in Syncers PROVE TInv /\ ReadMargin(t) => TInv'
  <1> SUFFICES ASSUME TInv, ReadMargin(t) PROVE TInv'
    OBVIOUS
  <1>1. /\ syncer[t].pc = "margin" /\ CallBy(t, FALSE)
        /\ UNCHANGED <<broker, tables, latest, desk, counts, stale, disturbed>>
    BY DEF ReadMargin
  <1>2. syncer' = [syncer EXCEPT ![t] = Goes(syncer[t], "activate")]
    BY DEF ReadMargin, Goes, TInv, TypeOK
  <1>3. RestOK'
    BY <1>1 DEF TInv, TypeOK, RestOK, tables
  <1> QED BY <1>1, <1>2, <1>3, MarginTyped

LEMMA MarginDeniedTyped == ASSUME NEW t \in Syncers PROVE TInv /\ MarginDenied(t) => TInv'
  <1> SUFFICES ASSUME TInv, MarginDenied(t) PROVE TInv'
    OBVIOUS
  <1>1. /\ syncer[t].pc = "margin" /\ CallBy(t, TRUE) /\ Fault
        /\ UNCHANGED <<broker, tables, latest, desk, stale, disturbed>>
    BY DEF MarginDenied
  <1>2. syncer' = [syncer EXCEPT ![t] = Goes(syncer[t], "activate")]
    BY DEF MarginDenied, Goes, TInv, TypeOK
  <1>3. RestOK'
    BY <1>1, Faulted DEF TInv, TypeOK, RestOK, tables
  <1> QED BY <1>1, <1>2, <1>3, MarginTyped

LEMMA ActivateTyped == ASSUME NEW t \in Syncers PROVE TInv /\ Activate(t) => TInv'
  <1> SUFFICES ASSUME TInv, Activate(t) PROVE TInv'
    OBVIOUS
  <1> DEFINE me == Goes(syncer[t], "finish")
  <1>1. /\ syncer[t].pc = "activate" /\ syncer' = [syncer EXCEPT ![t] = me]
        /\ folios' = [f \in Folios |-> IF folios[f] = "none" THEN "none" ELSE "ACTIVE"]
        /\ UNCHANGED <<broker, rows, newest, drafting, error, latest, desk, counts,
                       muddled, stale, disturbed>>
    BY DEF Activate, Goes, history, TInv, TypeOK
  <1>2. "finish" \in Plain
    BY DEF Plain
  <1>3. /\ me \in SyncerState /\ ShapeOf(me) /\ me.denied = syncer[t].denied
        /\ me.partial = syncer[t].partial /\ me.pc = "finish"
    BY <1>1, <1>2, Standing, GoesOn
  <1> HIDE DEF me
  <1>4. CallsKept(t)
    BY <1>1, NoCall DEF TInv
  <1>5. Turn(t, me)
    BY <1>1, <1>3, Standing DEF Turn, Tells
  <1>6. RestOK'
    BY <1>1 DEF TInv, TypeOK, RestOK
  <1> QED BY <1>1, <1>4, <1>5, <1>6, TurnStep

LEMMA LastReadDeniedTyped ==
  ASSUME NEW t \in Syncers PROVE TInv /\ LastReadDenied(t) => TInv'
  <1> SUFFICES ASSUME TInv, LastReadDenied(t) PROVE TInv'
    OBVIOUS
  <1>1. /\ syncer[t].pc = "finish" /\ Fault /\ CallBy(t, TRUE)
        /\ UNCHANGED <<broker, tables, latest, syncer, desk, stale, disturbed>>
    BY DEF LastReadDenied
  <1>2. CallsKept(t) /\ (t \notin muddled' => t \notin muddled)
    BY <1>1, CallMade DEF TInv
  <1>3. Turn(t, syncer[t])
    <2>1. syncer' = [syncer EXCEPT ![t] = syncer[t]]
      BY <1>1 DEF TInv, TypeOK
    <2> QED BY <1>1, <1>2, <2>1, Standing DEF Turn, Tells
  <1>4. RestOK'
    BY <1>1, Faulted DEF TInv, TypeOK, RestOK, tables
  <1> QED BY <1>1, <1>2, <1>3, <1>4, TurnStep

LEMMA FinishTyped == ASSUME NEW t \in Syncers PROVE TInv /\ Finish(t) => TInv'
  <1> SUFFICES ASSUME TInv, Finish(t) PROVE TInv'
    OBVIOUS
  <1>1. /\ syncer' = [syncer EXCEPT ![t] = Resting] /\ muddled' = muddled \ {t}
        /\ latest' = IF latest.run = t THEN [latest EXCEPT !.state = "FRESH"] ELSE latest
        /\ UNCHANGED <<broker, tables, error, desk, counts, stale, disturbed>>
    BY DEF Finish
  <1>2. Turn(t, Resting)
    BY <1>1, RestingShaped DEF Turn, Tells
  <1>3. CallsKept(t)
    BY <1>1, NoCall DEF TInv
  <1>4. RestOK'
    BY <1>1 DEF TInv, TypeOK, RestOK, tables
  <1> QED BY <1>1, <1>2, <1>3, <1>4, TurnStep

-----------------------------------------------------------------------------
(***************************************************************************)
(* Steps of others.                                                        *)
(***************************************************************************)
DeskOK(k) ==
  /\ k \in DeskState
  /\ k.pc \in {"edit", "buy"} => k.id \in Ids
  /\ k.pc \in {"select", "buy"} => k.basket \in Baskets

LEMMA AtDeskOK == DeskOK(AtDesk) /\ AtDesk.pc = "idle"
  BY DEF DeskOK, AtDesk, DeskState

LEMMA OtherStep ==
  ASSUME TInv, RestOK', UNCHANGED <<error, syncer, muddled>>,
         desk' \in [Desks -> DeskState], DeskShaped'
  PROVE  TInv'
  <1>1. TypeOK'
    BY DEF TInv, TypeOK, RestOK
  <1>2. Shaped' /\ ErrorKept'
    BY DEF TInv, Shaped, ErrorKept
  <1> QED BY <1>1, <1>2 DEF TInv

LEMMA StillDesks ==
  ASSUME TInv, UNCHANGED desk
  PROVE  desk' \in [Desks -> DeskState] /\ DeskShaped'
  BY DEF TInv, TypeOK, DeskShaped

LEMMA DeskMoves ==
  ASSUME TInv, NEW d \in Desks, NEW k, DeskOK(k), desk' = [desk EXCEPT ![d] = k]
  PROVE  desk' \in [Desks -> DeskState] /\ DeskShaped'
  BY DEF TInv, TypeOK, DeskShaped, DeskOK

LEMMA MoveTyped ==
  ASSUME NEW s \in Symbols, NEW from, NEW to \in {"none", "position", "holding"}
  PROVE  TInv /\ Move(s, from, to) => TInv'
  <1> SUFFICES ASSUME TInv, Move(s, from, to) PROVE TInv'
    OBVIOUS
  <1>1. counts' \in [trades : 0..MaxTrades, confirms : 0..MaxConfirms, faults : 0..MaxFaults]
    BY HoldingsBounds DEF Move, TInv, TypeOK
  <1>2. broker' \in [Symbols -> {"none", "position", "holding"}]
    BY DEF Move, TInv, TypeOK
  <1>3. UNCHANGED <<tables, error, latest, syncer, desk, muddled, stale, disturbed>>
    BY DEF Move, history
  <1>4. RestOK'
    BY <1>1, <1>2, <1>3 DEF TInv, TypeOK, RestOK, tables
  <1> QED BY <1>3, <1>4, OtherStep, StillDesks

LEMMA AgeTyped == TInv /\ Age => TInv'
  <1> SUFFICES ASSUME TInv, Age PROVE TInv'
    OBVIOUS
  <1>1. /\ latest' = [latest EXCEPT !.state = "OLD"]
        /\ UNCHANGED <<broker, tables, error, syncer, desk, counts, muddled, stale, disturbed>>
    BY DEF Age, history
  <1>2. RestOK'
    BY <1>1 DEF TInv, TypeOK, RestOK, tables
  <1> QED BY <1>1, <1>2, OtherStep, StillDesks

LEMMA ReadElsewhereTyped ==
  ASSUME NEW p \in Processes, NEW refused \in BOOLEAN
  PROVE  TInv /\ ReadElsewhere(p, refused) => TInv'
  <1> SUFFICES ASSUME TInv, ReadElsewhere(p, refused) PROVE TInv'
    OBVIOUS
  <1>1. /\ Fault /\ error' = [error EXCEPT ![p] = refused]
        /\ muddled' = muddled \cup Others(p, NoVal)
        /\ UNCHANGED <<broker, tables, latest, syncer, desk, stale, disturbed>>
    BY DEF ReadElsewhere, Answer
  <1>2. NoVal \notin Syncers
    BY HoldingsNoVal
  <1>3. TypeOK'
    <2>1. error' \in [Processes -> BOOLEAN] /\ muddled' \subseteq Syncers
      BY <1>1 DEF TInv, TypeOK, Others
    <2> QED BY <1>1, <2>1, Faulted DEF TInv, TypeOK, tables
  <1>4. Shaped' /\ DeskShaped'
    BY <1>1 DEF TInv, Shaped, DeskShaped
  <1>5. ErrorKept'
    <2> SUFFICES ASSUME NEW o \in Syncers, o \notin muddled'
                 PROVE  Tells(syncer[o], error'[Home[o]])
      BY <1>1 DEF ErrorKept
    <2>1. CASE syncer[o].pc = "idle"
      BY <2>1 DEF TInv, Shaped, ShapeOf, Tells
    <2>2. CASE syncer[o].pc # "idle"
      <3>1. o \notin muddled /\ Home[o] # p
        BY <1>1, <1>2, <2>2 DEF Others
      <3>2. error'[Home[o]] = error[Home[o]]
        BY <1>1, <3>1, HoldingsOwners DEF TInv, TypeOK
      <3> QED BY <3>1, <3>2 DEF TInv, ErrorKept
    <2> QED BY <2>1, <2>2
  <1> QED BY <1>3, <1>4, <1>5 DEF TInv

\* A row is written.
LEMMA Written ==
  ASSUME TInv, NEW i \in Ids, NEW r \in Row, rows' = [rows EXCEPT ![i] = r],
         Touch({i[2]}, NoVal)
  PROVE  rows' \in [Ids -> Row] /\ stale' \in [Syncers -> SUBSET Symbols]
  <1>1. i[2] \in Symbols
    BY DEF Ids
  <1> QED BY <1>1, Touched DEF TInv, TypeOK

LEMMA AddManualTyped ==
  ASSUME NEW m \in Manuals, NEW s \in Symbols PROVE TInv /\ AddManual(m, s) => TInv'
  <1> SUFFICES ASSUME TInv, AddManual(m, s) PROVE TInv'
    OBVIOUS
  <1>1. /\ rows' = [rows EXCEPT ![<<m, s>>] = ManualRow] /\ Touch({s}, NoVal)
        /\ folios' = [folios EXCEPT ![ByHand] = "ACTIVE"]
        /\ newest' = IF folios[ByHand] = "none" THEN <<ByHand>> \o newest ELSE newest
        /\ UNCHANGED <<broker, drafting, error, latest, syncer, desk, counts, muddled, disturbed>>
    BY DEF AddManual
  <1>2. ManualRow \in Row /\ <<m, s>> \in Ids
    BY DEF ManualRow, Row, Status, Source, Folios, Ids, Owners
  <1>3. rows' \in [Ids -> Row] /\ stale' \in [Syncers -> SUBSET Symbols]
    BY <1>1, <1>2, Written
  <1>4. /\ folios' \in [Folios -> {"none", "PENDING_CONFIRMATION", "ACTIVE"}]
        /\ newest' \in Seq(Folios)
    <2>1. ByHand \in Folios
      BY DEF Folios
    <2> QED BY <1>1, <2>1 DEF TInv, TypeOK
  <1>5. RestOK'
    BY <1>1, <1>3, <1>4 DEF TInv, TypeOK, RestOK
  <1> QED BY <1>1, <1>5, OtherStep, StillDesks

LEMMA DeleteManualTyped == ASSUME NEW i \in Ids PROVE TInv /\ DeleteManual(i) => TInv'
  <1> SUFFICES ASSUME TInv, DeleteManual(i) PROVE TInv'
    OBVIOUS
  <1>1. /\ rows' = [rows EXCEPT ![i].status = "deleted"] /\ Touch({i[2]}, NoVal)
        /\ UNCHANGED <<broker, folios, newest, drafting, error, latest, syncer, desk, counts,
                       muddled, disturbed>>
    BY DEF DeleteManual
  <1>2. rows \in [Ids -> Row] /\ rows[i] \in Row
    BY DEF TInv, TypeOK
  <1>3. rows' = [rows EXCEPT ![i] = [rows[i] EXCEPT !.status = "deleted"]]
    BY <1>1, <1>2
  <1>4. rows' \in [Ids -> Row] /\ stale' \in [Syncers -> SUBSET Symbols]
    BY <1>1, <1>2, <1>3, RowKinds, Written
  <1>5. RestOK'
    BY <1>1, <1>4 DEF TInv, TypeOK, RestOK
  <1> QED BY <1>1, <1>5, OtherStep, StillDesks

LEMMA StartEditTyped ==
  ASSUME NEW d \in Desks, NEW i \in Ids PROVE TInv /\ StartEdit(d, i) => TInv'
  <1> SUFFICES ASSUME TInv, StartEdit(d, i) PROVE TInv'
    OBVIOUS
  <1> DEFINE k == [AtDesk EXCEPT !.pc = "edit", !.id = i]
  <1>1. /\ desk' = [desk EXCEPT ![d] = k]
        /\ UNCHANGED <<broker, tables, error, latest, syncer, counts, muddled, stale, disturbed>>
    BY DEF StartEdit, history
  <1>2. DeskOK(k)
    BY DEF DeskOK, AtDesk, DeskState
  <1>3. RestOK'
    BY <1>1 DEF TInv, TypeOK, RestOK, tables
  <1> HIDE DEF k
  <1> QED BY <1>1, <1>2, <1>3, OtherStep, DeskMoves

LEMMA DeskAt ==
  ASSUME TInv, NEW d \in Desks
  PROVE  DeskOK(desk[d])
  BY DEF TInv, TypeOK, DeskShaped, DeskOK

LEMMA EditTyped == ASSUME NEW d \in Desks PROVE TInv /\ Edit(d) => TInv'
  <1> SUFFICES ASSUME TInv, Edit(d) PROVE TInv'
    OBVIOUS
  <1> DEFINE i == desk[d].id
  <1>1. /\ desk[d].pc = "edit" /\ desk' = [desk EXCEPT ![d] = AtDesk]
        /\ UNCHANGED <<broker, folios, newest, drafting, error, latest, syncer, counts,
                       muddled, disturbed>>
    BY DEF Edit
  <1>2. \/ rows' = [rows EXCEPT ![i].shares = "user"] /\ Touch({i[2]}, NoVal)
        \/ UNCHANGED <<rows, stale>>
    BY DEF Edit
  <1>3. i \in Ids
    BY <1>1, DeskAt DEF DeskOK
  <1> HIDE DEF i
  <1>4. rows' \in [Ids -> Row] /\ stale' \in [Syncers -> SUBSET Symbols]
    <2>1. CASE rows' = [rows EXCEPT ![i].shares = "user"] /\ Touch({i[2]}, NoVal)
      <3>1. rows \in [Ids -> Row] /\ rows[i] \in Row
        BY <1>3 DEF TInv, TypeOK
      <3>2. rows' = [rows EXCEPT ![i] = [rows[i] EXCEPT !.shares = "user"]]
        BY <2>1, <3>1
      <3> QED BY <1>3, <2>1, <3>1, <3>2, RowKinds, Written
    <2>2. CASE UNCHANGED <<rows, stale>>
      BY <2>2 DEF TInv, TypeOK
    <2> QED BY <1>2, <2>1, <2>2
  <1>5. RestOK'
    BY <1>1, <1>4 DEF TInv, TypeOK, RestOK
  <1> QED BY <1>1, <1>5, OtherStep, DeskMoves, AtDeskOK

LEMMA DraftBasketTyped ==
  ASSUME NEW b \in Baskets, NEW chosen \in SUBSET Symbols
  PROVE  TInv /\ DraftBasket(b, chosen) => TInv'
  <1> SUFFICES ASSUME TInv, DraftBasket(b, chosen) PROVE TInv'
    OBVIOUS
  <1>1. /\ folios' = [folios EXCEPT ![b] = "PENDING_CONFIRMATION"] /\ newest' = <<b>> \o newest
        /\ drafting' = [drafting EXCEPT ![b] = chosen]
        /\ UNCHANGED <<broker, rows, error, latest, syncer, desk, counts, muddled, stale, disturbed>>
    BY DEF DraftBasket, history
  <1>2. b \in Folios
    BY DEF Folios
  <1>3. /\ folios' \in [Folios -> {"none", "PENDING_CONFIRMATION", "ACTIVE"}]
        /\ newest' \in Seq(Folios) /\ drafting' \in [Baskets -> SUBSET Symbols]
    BY <1>1, <1>2 DEF TInv, TypeOK
  <1>4. RestOK'
    BY <1>1, <1>3 DEF TInv, TypeOK, RestOK
  <1> QED BY <1>1, <1>4, OtherStep, StillDesks

LEMMA DraftRowTyped ==
  ASSUME NEW b \in Baskets, NEW s \in Symbols PROVE TInv /\ DraftRow(b, s) => TInv'
  <1> SUFFICES ASSUME TInv, DraftRow(b, s) PROVE TInv'
    OBVIOUS
  <1>1. /\ rows' = [rows EXCEPT ![<<b, s>>] = PlannedRow(b)] /\ Touch({s}, NoVal)
        /\ drafting' = [drafting EXCEPT ![b] = @ \ {s}]
        /\ UNCHANGED <<broker, folios, newest, error, latest, syncer, desk, counts, muddled,
                       disturbed>>
    BY DEF DraftRow
  <1>2. PlannedRow(b) \in Row /\ <<b, s>> \in Ids
    BY DEF PlannedRow, Row, Status, Source, Folios, Ids, Owners
  <1>3. rows' \in [Ids -> Row] /\ stale' \in [Syncers -> SUBSET Symbols]
    BY <1>1, <1>2, Written
  <1>4. drafting' \in [Baskets -> SUBSET Symbols]
    BY <1>1 DEF TInv, TypeOK
  <1>5. RestOK'
    BY <1>1, <1>3, <1>4 DEF TInv, TypeOK, RestOK
  <1> QED BY <1>1, <1>5, OtherStep, StillDesks

LEMMA StartConfirmTyped ==
  ASSUME NEW d \in Desks, NEW b \in Baskets, NEW bought \in SUBSET Symbols
  PROVE  TInv /\ StartConfirm(d, b, bought) => TInv'
  <1> SUFFICES ASSUME TInv, StartConfirm(d, b, bought) PROVE TInv'
    OBVIOUS
  <1> DEFINE k == [AtDesk EXCEPT !.pc = "select", !.basket = b, !.todo = bought]
  <1>1. /\ desk' = [desk EXCEPT ![d] = k] /\ counts.confirms < MaxConfirms
        /\ counts' = [counts EXCEPT !.confirms = @ + 1]
        /\ UNCHANGED <<broker, tables, error, latest, syncer, muddled, stale, disturbed>>
    BY DEF StartConfirm, history
  <1>2. DeskOK(k)
    BY DEF DeskOK, AtDesk, DeskState
  <1>3. counts' \in [trades : 0..MaxTrades, confirms : 0..MaxConfirms, faults : 0..MaxFaults]
    BY <1>1, HoldingsBounds DEF TInv, TypeOK
  <1>4. RestOK'
    BY <1>1, <1>3 DEF TInv, TypeOK, RestOK, tables
  <1> HIDE DEF k
  <1> QED BY <1>1, <1>2, <1>4, OtherStep, DeskMoves

LEMMA SelectBoughtTyped ==
  ASSUME NEW d \in Desks, NEW s \in Symbols PROVE TInv /\ SelectBought(d, s) => TInv'
  <1> SUFFICES ASSUME TInv, SelectBought(d, s) PROVE TInv'
    OBVIOUS
  <1> DEFINE k == desk[d]
  <1>1. /\ k.pc = "select"
        /\ UNCHANGED <<broker, tables, error, latest, syncer, counts, muddled, stale, disturbed>>
    BY DEF SelectBought, history
  <1>2. \/ desk' = [desk EXCEPT ![d].todo = @ \ {s}]
        \/ \E i \in RowsOf(s) :
             desk' = [desk EXCEPT ![d].todo = @ \ {s}, ![d].pc = "buy", ![d].id = i]
    BY DEF SelectBought
  <1>3. DeskOK(k)
    BY DeskAt
  <1>4. RestOK'
    BY <1>1 DEF TInv, TypeOK, RestOK, tables
  <1>5. desk' \in [Desks -> DeskState] /\ DeskShaped'
    <2>1. CASE desk' = [desk EXCEPT ![d].todo = @ \ {s}]
      <3> DEFINE next == [k EXCEPT !.todo = @ \ {s}]
      <3>1. desk' = [desk EXCEPT ![d] = next]
        BY <2>1 DEF TInv, TypeOK
      <3>2. DeskOK(next)
        BY <1>3 DEF DeskOK, DeskState
      <3> HIDE DEF next
      <3> QED BY <3>1, <3>2, DeskMoves
    <2>2. ASSUME NEW i \in RowsOf(s),
                 desk' = [desk EXCEPT ![d].todo = @ \ {s}, ![d].pc = "buy", ![d].id = i]
          PROVE  desk' \in [Desks -> DeskState] /\ DeskShaped'
      <3> DEFINE next == [k EXCEPT !.todo = @ \ {s}, !.pc = "buy", !.id = i]
      <3>1. desk' = [desk EXCEPT ![d] = next]
        BY <2>2 DEF TInv, TypeOK
      <3>2. i \in Ids
        BY DEF RowsOf, Ids
      <3>3. next \in DeskState
        BY <1>3, <3>2 DEF DeskOK, DeskState
      <3>4. next.id = i /\ next.basket = k.basket
        BY <1>3 DEF DeskOK, DeskState
      <3>5. k.basket \in Baskets
        BY <1>1, <1>3 DEF DeskOK
      <3> HIDE DEF next, k
      <3>6. DeskOK(next)
        BY <3>2, <3>3, <3>4, <3>5 DEF DeskOK
      <3> QED BY <3>1, <3>6, DeskMoves
    <2> QED BY <1>2, <2>1, <2>2
  <1> QED BY <1>1, <1>4, <1>5, OtherStep

LEMMA MarkBoughtTyped == ASSUME NEW d \in Desks PROVE TInv /\ MarkBought(d) => TInv'
  <1> SUFFICES ASSUME TInv, MarkBought(d) PROVE TInv'
    OBVIOUS
  <1> DEFINE i == desk[d].id
             k == [desk[d] EXCEPT !.pc = "select", !.id = NoVal]
             r == [rows[i] EXCEPT !.status = "ACTIVE", !.source = "BASKET", !.shares = "user"]
  <1>1. /\ desk[d].pc = "buy" /\ desk' = [desk EXCEPT ![d] = k]
        /\ UNCHANGED <<broker, folios, newest, drafting, error, latest, syncer, counts,
                       muddled, disturbed>>
    BY DEF MarkBought, TInv, TypeOK
  <1>2. i \in Ids /\ DeskOK(k)
    BY <1>1, DeskAt DEF DeskOK, DeskState
  <1>3. \/ rows' = [rows EXCEPT ![i] = r] /\ Touch({i[2]}, NoVal)
        \/ UNCHANGED <<rows, stale>>
    BY DEF MarkBought
  <1>4. r \in Row
    BY <1>2, RowKinds DEF TInv, TypeOK
  <1> HIDE DEF i, k, r
  <1>5. rows' \in [Ids -> Row] /\ stale' \in [Syncers -> SUBSET Symbols]
    <2>1. CASE rows' = [rows EXCEPT ![i] = r] /\ Touch({i[2]}, NoVal)
      BY <1>2, <1>4, <2>1, Written
    <2>2. CASE UNCHANGED <<rows, stale>>
      BY <2>2 DEF TInv, TypeOK
    <2> QED BY <1>3, <2>1, <2>2
  <1>6. RestOK'
    BY <1>1, <1>5 DEF TInv, TypeOK, RestOK
  <1> QED BY <1>1, <1>2, <1>6, OtherStep, DeskMoves

LEMMA ConfirmFolioTyped == ASSUME NEW d \in Desks PROVE TInv /\ ConfirmFolio(d) => TInv'
  <1> SUFFICES ASSUME TInv, ConfirmFolio(d) PROVE TInv'
    OBVIOUS
  <1>1. /\ desk' = [desk EXCEPT ![d] = AtDesk]
        /\ folios' = [folios EXCEPT ![desk[d].basket] = "ACTIVE"]
        /\ UNCHANGED <<broker, rows, newest, drafting, error, latest, syncer, counts,
                       muddled, stale, disturbed>>
    BY DEF ConfirmFolio, history
  <1>2. RestOK'
    BY <1>1 DEF TInv, TypeOK, RestOK
  <1> QED BY <1>1, <1>2, OtherStep, DeskMoves, AtDeskOK

LEMMA DeskRaisesTyped == ASSUME NEW d \in Desks PROVE TInv /\ DeskRaises(d) => TInv'
  <1> SUFFICES ASSUME TInv, DeskRaises(d) PROVE TInv'
    OBVIOUS
  <1>1. /\ desk' = [desk EXCEPT ![d] = AtDesk] /\ Fault
        /\ UNCHANGED <<broker, tables, error, latest, syncer, muddled, stale, disturbed>>
    BY DEF DeskRaises, history
  <1>2. RestOK'
    BY <1>1, Faulted DEF TInv, TypeOK, RestOK, tables
  <1> QED BY <1>1, <1>2, OtherStep, DeskMoves, AtDeskOK

-----------------------------------------------------------------------------
(***************************************************************************)
(* The types, and what a refused read does.                                *)
(***************************************************************************)
LEMMA SyncStepTyped ==
  ASSUME NEW t \in Syncers
  PROVE  TInv /\ (StartSync(t) \/ Poll(t) \/ SyncStep(t) \/ SyncFault(t)) => TInv'
  <1> SUFFICES ASSUME TInv, StartSync(t) \/ Poll(t) \/ SyncStep(t) \/ SyncFault(t) PROVE TInv'
    OBVIOUS
  <1>1. CASE StartSync(t) \/ Poll(t)
    BY <1>1, StartSyncTyped DEF Poll
  <1>2. CASE SyncStep(t)
    BY <1>2, ReadHoldingsTyped, ReadPositionsTyped, JudgeTyped, CloseAllTyped, ReadRowsTyped,
       TakeOverTyped, InsertTyped, CollideTyped, CloseOneTyped, RetireTyped, StartClosingTyped,
       VerdictTyped, ReadMarginTyped, ActivateTyped, FinishTyped DEF SyncStep
  <1>3. CASE SyncFault(t)
    BY <1>3, HoldingsDeniedTyped, PositionsDeniedTyped, MarginDeniedTyped, LastReadDeniedTyped,
       RaiseTyped DEF SyncFault
  <1> QED BY <1>1, <1>2, <1>3

LEMMA UserStepTyped == TInv /\ ByUser => TInv'
  <1> SUFFICES ASSUME TInv, ByUser PROVE TInv'
    OBVIOUS
  <1>1. Tracked \subseteq Symbols /\ \A chosen \in SUBSET Tracked : chosen \in SUBSET Symbols
    BY HoldingsOwners
  <1>2. CASE \E m \in Manuals, s \in Tracked : AddManual(m, s)
    BY <1>1, <1>2, AddManualTyped
  <1>3. CASE \E i \in Ids : DeleteManual(i)
    BY <1>3, DeleteManualTyped
  <1>4. CASE \E b \in Baskets, chosen \in Plans : DraftBasket(b, chosen)
    BY <1>1, <1>4, DraftBasketTyped DEF Plans
  <1>5. CASE \E b \in Baskets, s \in Symbols : DraftRow(b, s)
    BY <1>5, DraftRowTyped
  <1>6. ASSUME NEW d \in Desks,
               \/ \E i \in Ids : StartEdit(d, i)
               \/ \E b \in Baskets, bought \in (SUBSET Tracked) \ {{}} : StartConfirm(d, b, bought)
               \/ \E s \in Symbols : SelectBought(d, s)
               \/ Edit(d) \/ MarkBought(d) \/ ConfirmFolio(d) \/ DeskRaises(d)
        PROVE  TInv'
    BY <1>1, <1>6, StartEditTyped, StartConfirmTyped, SelectBoughtTyped, EditTyped, MarkBoughtTyped,
       ConfirmFolioTyped, DeskRaisesTyped
  <1> QED BY <1>2, <1>3, <1>4, <1>5, <1>6 DEF ByUser

LEMMA StepTyped == TInv /\ [Next]_vars => TInv'
  <1> SUFFICES ASSUME TInv, [Next]_vars PROVE TInv'
    OBVIOUS
  <1>1. CASE \E s \in Symbols : Buy(s) \/ Settle(s) \/ Sell(s)
    BY <1>1, MoveTyped DEF Buy, Settle, Sell
  <1>2. CASE \E t \in Syncers : StartSync(t) \/ Poll(t) \/ SyncStep(t) \/ SyncFault(t)
    BY <1>2, SyncStepTyped
  <1>3. CASE \E p \in Processes, refused \in BOOLEAN : ReadElsewhere(p, refused)
    BY <1>3, ReadElsewhereTyped
  <1>4. CASE ByUser \/ Age
    BY <1>4, UserStepTyped, AgeTyped
  <1>5. CASE UNCHANGED vars
    <2>1. RestOK' /\ UNCHANGED <<error, syncer, muddled, desk>>
      BY <1>5 DEF vars, tables, history, TInv, TypeOK, RestOK
    <2> QED BY <2>1, OtherStep, StillDesks
  <1> QED BY <1>1, <1>2, <1>3, <1>4, <1>5 DEF Next

LEMMA AlwaysTyped == Spec => []TInv
  BY InitTyped, StepTyped, PTL DEF Spec

\* Every variable has its type: rows, portfolios, runs, the threads in a sync
\* and at the dashboard, and the bounded counters.
THEOREM HoldingsTypeCorrectness == Spec => []TypeOK
  <1>1. TInv => TypeOK
    BY DEF TInv
  <1> QED BY <1>1, AlwaysTyped, PTL

\* A sync whose holdings were refused is recorded PARTIAL, whatever the later
\* calls of the same client answered.
THEOREM OkStaysHonest == Spec => []OkIsHonest
  <1>1. TInv => OkIsHonest
    BY DEF TInv, ErrorKept, Tells, OkIsHonest, Outcome
  <1> QED BY <1>1, AlwaysTyped, PTL

\* Who writes rows: a syncer that moves, past its reading of the account.
LEMMA WhoWrites ==
  ASSUME TInv, Next, NEW t \in Syncers, syncer'[t] # syncer[t]
  PROVE  UNCHANGED rows \/ syncer[t].pc \in {"closeall", "apply", "retire", "close"}
  <1>1. CASE \E s \in Symbols : Buy(s) \/ Settle(s) \/ Sell(s)
    BY <1>1 DEF Buy, Settle, Sell, Move
  <1>2. ASSUME NEW u \in Syncers, StartSync(u) \/ Poll(u) \/ SyncStep(u) \/ SyncFault(u)
        PROVE  UNCHANGED rows \/ syncer[t].pc \in {"closeall", "apply", "retire", "close"}
    <2>1. u = t
      <3>1. u # t => syncer'[t] = syncer[t]
        <4>1. CASE StartSync(u) \/ Poll(u)
          BY <4>1 DEF StartSync, Poll, TInv, TypeOK
        <4>2. CASE SyncStep(u)
          BY <4>2 DEF SyncStep, ReadHoldings, ReadPositions, Judge, CloseAll, ReadRows, TakeOver,
                      Insert, Collide, Abandon, CloseOne, Retire, StartClosing, Verdict, ReadMargin,
                      Activate, Finish, TInv, TypeOK
        <4>3. CASE SyncFault(u)
          BY <4>3 DEF SyncFault, HoldingsDenied, PositionsDenied, MarginDenied, LastReadDenied,
                      Raise, Abandon, TInv, TypeOK
        <4> QED BY <1>2, <4>1, <4>2, <4>3
      <3> QED BY <3>1
    <2>2. CASE StartSync(t) \/ Poll(t)
      BY <2>2 DEF StartSync, Poll, tables
    <2>3. CASE SyncStep(t)
      <3>1. CASE ReadHoldings(t) \/ ReadPositions(t) \/ Judge(t) \/ ReadRows(t) \/ StartClosing(t)
        BY <3>1 DEF ReadHoldings, ReadPositions, Judge, ReadRows, StartClosing, tables
      <3>2. CASE \E s \in Symbols : TakeOver(t, s) \/ Insert(t, s) \/ Collide(t, s) \/ CloseOne(t, s)
        BY <3>2 DEF TakeOver, Insert, Collide, CloseOne
      <3>3. CASE CloseAll(t) \/ Retire(t)
        BY <3>3 DEF CloseAll, Retire
      <3>4. CASE Verdict(t) \/ ReadMargin(t) \/ Activate(t) \/ Finish(t)
        BY <3>4 DEF Verdict, ReadMargin, Activate, Finish, tables
      <3> QED BY <2>3, <3>1, <3>2, <3>3, <3>4 DEF SyncStep
    <2>4. CASE SyncFault(t)
      BY <2>4 DEF SyncFault, HoldingsDenied, PositionsDenied, MarginDenied, LastReadDenied,
                  Raise, Abandon, tables
    <2> QED BY <1>2, <2>1, <2>2, <2>3, <2>4
  <1>3. CASE \E p \in Processes, refused \in BOOLEAN : ReadElsewhere(p, refused)
    BY <1>3 DEF ReadElsewhere
  <1>4. CASE ByUser \/ Age
    BY <1>4 DEF ByUser, Age, AddManual, DeleteManual, DraftBasket, DraftRow, StartEdit, StartConfirm,
                SelectBought, Edit, MarkBought, ConfirmFolio, DeskRaises
  <1> QED BY <1>1, <1>2, <1>3, <1>4 DEF Next

\* A sync whose holdings were refused closes rows only if cash positions were
\* reported in their place, or another request has used its client.
THEOREM DeniedSyncsClose == Spec => DeniedSyncCloses
  <1>1. ASSUME TInv, [Next]_vars, NEW t \in Syncers \ muddled, NEW i \in Ids,
               syncer[t].denied, syncer'[t] # syncer[t],
               rows[i].status = "ACTIVE", rows'[i].status = "INACTIVE"
        PROVE  syncer[t].seen # {}
    <2>1. Next /\ rows' # rows
      BY <1>1 DEF vars
    <2>2. syncer[t].pc \in {"closeall", "apply", "retire", "close"}
      BY <1>1, <2>1, WhoWrites
    <2>3. syncer[t].pc # "closeall"
      BY <1>1, Standing DEF Tells
    <2> QED BY <1>1, <2>2, <2>3, Standing DEF ShapeOf
  <1>2. TInv /\ [Next]_vars =>
          [\A t \in Syncers \ muddled, i \in Ids :
             /\ syncer[t].denied /\ syncer'[t] # syncer[t]
             /\ rows[i].status = "ACTIVE" /\ rows'[i].status = "INACTIVE"
             => syncer[t].seen # {}]_vars
    BY <1>1
  <1> QED BY <1>2, AlwaysTyped, PTL DEF Spec, DeniedSyncCloses

-----------------------------------------------------------------------------
(***************************************************************************)
(* The invariant.  What a syncer has read of a symbol still holds while    *)
(* nobody else has written its rows; what it has written, too.             *)
(***************************************************************************)
Single(s) ==
  \A i, j \in RowsOf(s) : i # j /\ IsSynced(i) /\ IsSynced(j) => HalfDone(s)

PendingPlanned ==
  \A i \in Ids : rows[i].status = "PENDING_CONFIRMATION" => rows[i].source = "BASKET"

AsRead(y, s) ==
  IF y.existing[s] = NoVal
    THEN Open(s) = {} /\ y.was[s] = NoVal
    ELSE y.existing[s] \in First(s) /\ y.was[s] = rows[y.existing[s]].source

Mirrored(s) ==
  \E i \in RowsOf(s) : Open(s) = {i} /\ IsSynced(i) /\ rows[i].shares = "broker"

Settled(s) ==
  (\E i \in RowsOf(s) : IsSynced(i)) => HalfDone(s) \/ \E i \in Open(s) : ~IsSynced(i)

Sees(y, s) ==
  /\ y.pc \in {"apply", "retire"} /\ (s \in y.todo \/ s \notin y.seen) /\ s # y.now => AsRead(y, s)
  /\ y.pc = "retire" /\ s = y.now =>
       /\ y.existing[s] \in RowsOf(s) /\ IsSynced(y.existing[s])
       /\ rows[y.existing[s]].shares = "broker"
  /\ y.pc \in {"apply", "retire", "close"} /\ s \in y.seen /\ s \notin y.todo => Mirrored(s)
  /\ y.pc = "close" /\ s \in y.todo => AsRead(y, s) /\ y.was[s] = "GROWW_SYNC"
  /\ y.pc = "close" /\ s \notin y.seen /\ s \notin y.todo => Settled(s)

RowInv ==
  /\ \A s \in Symbols : Single(s)
  /\ PendingPlanned
  /\ \A t \in Syncers : \A s \in Symbols \ stale[t] : Sees(syncer[t], s)

LEMMA InitRows == Init => RowInv
  <1> SUFFICES ASSUME Init PROVE RowInv
    OBVIOUS
  <1>1. \A i \in Ids : rows[i] = NoRow
    BY DEF Init
  <1>2. \A s \in Symbols : \A i \in RowsOf(s) : i \in Ids
    BY DEF RowsOf, Ids
  <1>3. \A s \in Symbols : Single(s)
    BY <1>1, <1>2 DEF Single, IsSynced, NoRow
  <1>4. PendingPlanned
    BY <1>1 DEF PendingPlanned, NoRow
  <1>5. \A t \in Syncers : syncer[t].pc = "idle"
    BY RestingShaped DEF Init
  <1> QED BY <1>3, <1>4, <1>5 DEF RowInv, Sees

-----------------------------------------------------------------------------
(***************************************************************************)
(* Steps leave most symbols alone.                                         *)
(***************************************************************************)
SameRows(s) == \A i \in RowsOf(s) : rows'[i] = rows[i]

LEMMA SameReading ==
  ASSUME NEW s \in Symbols, SameRows(s)
  PROVE  /\ Open(s)' = Open(s) /\ First(s)' = First(s)
         /\ \A i \in RowsOf(s) : (IsSynced(i)' <=> IsSynced(i)) /\ (IsOpen(i)' <=> IsOpen(i))
         /\ Open(s) \subseteq RowsOf(s) /\ First(s) \subseteq RowsOf(s)
  <1>1. Open(s)' = Open(s) /\ Open(s) \subseteq RowsOf(s)
    BY DEF SameRows, Open, IsOpen
  <1>2. \A i \in RowsOf(s) : Rank(i)' = Rank(i)
    BY DEF SameRows, Rank
  <1>3. First(s)' = First(s) /\ First(s) \subseteq RowsOf(s)
    BY <1>1, <1>2 DEF First
  <1>4. \A i \in RowsOf(s) : (IsSynced(i)' <=> IsSynced(i)) /\ (IsOpen(i)' <=> IsOpen(i))
    BY DEF SameRows, IsSynced, IsOpen
  <1> QED BY <1>1, <1>3, <1>4

LEMMA SameSees ==
  ASSUME NEW s \in Symbols, NEW t \in Syncers, SameRows(s), HalfDone(s) => HalfDone(s)',
         syncer'[t] = syncer[t], Sees(syncer[t], s)
  PROVE  Sees(syncer[t], s)'
  <1> DEFINE y == syncer[t]
  <1>1. /\ Open(s)' = Open(s) /\ First(s)' = First(s)
        /\ \A i \in RowsOf(s) : IsSynced(i)' <=> IsSynced(i)
        /\ Open(s) \subseteq RowsOf(s) /\ First(s) \subseteq RowsOf(s)
    BY SameReading
  <1>2. \A i \in RowsOf(s) : rows'[i] = rows[i]
    BY DEF SameRows
  <1>3. AsRead(y, s) => AsRead(y, s)'
    BY <1>1, <1>2 DEF AsRead
  <1>4. Mirrored(s) => Mirrored(s)'
    BY <1>1, <1>2 DEF Mirrored
  <1>5. Settled(s) => Settled(s)'
    BY <1>1 DEF Settled
  <1>6. \A i \in RowsOf(s) : IsSynced(i) /\ rows[i].shares = "broker" =>
                             (IsSynced(i)' /\ rows'[i].shares = "broker")
    BY <1>1, <1>2
  <1> QED BY <1>3, <1>4, <1>5, <1>6 DEF Sees

LEMMA SameSingle ==
  ASSUME NEW s \in Symbols, SameRows(s), HalfDone(s) => HalfDone(s)', Single(s)
  PROVE  Single(s)'
  BY SameReading DEF Single

\* A step of t, or of a desk, writes rows of the symbols S only.
Frame(S, t) ==
  /\ \A i \in Ids : i[2] \notin S => rows'[i] = rows[i]
  /\ \A o \in Syncers \ {t} :
       /\ syncer'[o] = syncer[o]
       /\ HasRead(o) => S \subseteq stale'[o] /\ stale[o] \subseteq stale'[o]
  /\ \A s \in Symbols \ S : HalfDone(s) => HalfDone(s)'

LEMMA FrameRows ==
  ASSUME NEW S, NEW t, Frame(S, t), NEW s \in Symbols, s \notin S
  PROVE  SameRows(s)
  BY DEF Frame, SameRows, RowsOf, Ids

LEMMA FrameStep ==
  ASSUME RowInv, NEW S \in SUBSET Symbols, NEW t, Frame(S, t),
         \A s \in S : Single(s)', PendingPlanned',
         t \in Syncers => \A s \in Symbols \ stale'[t] : Sees(syncer[t], s)'
  PROVE  RowInv'
  <1>1. ASSUME NEW s \in Symbols PROVE Single(s)'
    <2>1. CASE s \notin S
      BY <2>1, FrameRows, SameSingle DEF Frame, RowInv
    <2> QED BY <2>1
  <1>2. ASSUME NEW o \in Syncers, NEW s \in Symbols \ stale'[o] PROVE Sees(syncer[o], s)'
    <2>1. CASE o = t
      BY <2>1
    <2>2. CASE o # t /\ HasRead(o)
      <3>1. s \notin S /\ s \notin stale[o] /\ syncer'[o] = syncer[o]
        BY <2>2 DEF Frame
      <3>2. SameRows(s) /\ (HalfDone(s) => HalfDone(s)')
        BY <3>1, FrameRows DEF Frame
      <3> QED BY <3>1, <3>2, SameSees DEF RowInv
    <2>3. CASE o # t /\ ~HasRead(o)
      <3>1. syncer'[o] = syncer[o]
        BY <2>3 DEF Frame
      <3> QED BY <2>3, <3>1 DEF HasRead, Sees
    <2> QED BY <2>1, <2>2, <2>3
  <1> QED BY <1>1, <1>2 DEF RowInv

\* Nobody's rows are written.
LEMMA NoRowsFrame ==
  ASSUME NEW t, UNCHANGED rows, \A o \in Syncers \ {t} : syncer'[o] = syncer[o] /\ stale'[o] = stale[o],
         disturbed \subseteq disturbed',
         t \in Syncers => syncer[t].now \in {syncer'[t].now, NoVal} \cup disturbed'
  PROVE  Frame({}, t)
  <1>1. ASSUME NEW s \in Symbols, HalfDone(s) PROVE HalfDone(s)'
    <2>1. CASE s \in disturbed
      BY <2>1 DEF HalfDone
    <2>2. ASSUME NEW o \in Syncers, syncer[o].now = s PROVE HalfDone(s)'
      <3>1. CASE o # t
        BY <2>2, <3>1 DEF HalfDone
      <3>2. CASE o = t
        <4>1. s # NoVal
          BY HoldingsNoVal
        <4> QED BY <2>2, <3>2, <4>1 DEF HalfDone
      <3> QED BY <3>1, <3>2
    <2> QED BY <1>1, <2>1, <2>2 DEF HalfDone
  <1> QED BY <1>1 DEF Frame

\* A step of a sync that has not read the rows, or is done with them.
LEMMA AsideStep ==
  ASSUME TInv, RowInv, NEW t \in Syncers, NEW me,
         syncer' = [syncer EXCEPT ![t] = me], me.pc \notin {"apply", "retire", "close"},
         UNCHANGED rows, stale' \in {stale, [stale EXCEPT ![t] = {}]},
         disturbed \subseteq disturbed', syncer[t].now \in {NoVal} \cup disturbed'
  PROVE  RowInv'
  <1>1. /\ syncer'[t] = me
        /\ \A o \in Syncers \ {t} : syncer'[o] = syncer[o] /\ stale'[o] = stale[o]
    BY DEF TInv, TypeOK
  <1>2. Frame({}, t)
    BY <1>1, NoRowsFrame
  <1>3. PendingPlanned'
    BY DEF RowInv, PendingPlanned
  <1>4. \A s \in Symbols \ stale'[t] : Sees(syncer[t], s)'
    BY <1>1 DEF Sees
  <1> QED BY <1>2, <1>3, <1>4, FrameStep

\* Neither rows nor syncers move.
LEMMA StillStep ==
  ASSUME RowInv, UNCHANGED <<rows, syncer, stale, disturbed>>
  PROVE  RowInv'
  <1>1. Frame({}, NoVal)
    BY HoldingsNoVal, NoRowsFrame
  <1>2. PendingPlanned'
    BY DEF RowInv, PendingPlanned
  <1>3. NoVal \notin Syncers
    BY HoldingsNoVal
  <1> QED BY <1>1, <1>2, <1>3, FrameStep

\* A desk writes a row, and does not make it a synced one.
LEMMA WriteStep ==
  ASSUME TInv, RowInv, NEW i \in Ids, NEW r \in Row, rows' = [rows EXCEPT ![i] = r],
         Touch({i[2]}, NoVal), UNCHANGED <<syncer, disturbed>>,
         r.status = "ACTIVE" /\ r.source = "GROWW_SYNC" => IsSynced(i),
         r.status = "PENDING_CONFIRMATION" => r.source = "BASKET"
  PROVE  RowInv'
  <1> DEFINE S == {i[2]}
  <1>1. NoVal \notin Syncers /\ S \in SUBSET Symbols
    BY HoldingsNoVal DEF Ids
  <1>2. /\ rows'[i] = r
        /\ \A j \in Ids : j # i => rows'[j] = rows[j]
    BY DEF TInv, TypeOK
  <1>3. \A s \in Symbols : HalfDone(s) => HalfDone(s)'
    BY DEF HalfDone
  <1>4. Frame(S, NoVal)
    <2>1. \A o \in Syncers : HasRead(o) => stale'[o] = stale[o] \cup S
      BY <1>1 DEF Touch
    <2> QED BY <1>2, <1>3, <2>1 DEF Frame
  <1>5. \A j \in Ids : IsSynced(j)' => IsSynced(j)
    BY <1>2 DEF IsSynced
  <1>6. ASSUME NEW s \in S PROVE Single(s)'
    <2>1. s \in Symbols /\ RowsOf(s) \subseteq Ids
      BY <1>1 DEF RowsOf, Ids
    <2> QED BY <1>3, <1>5, <2>1 DEF Single, RowInv
  <1>7. PendingPlanned'
    BY <1>2 DEF PendingPlanned, RowInv
  <1> QED BY <1>1, <1>4, <1>6, <1>7, FrameStep

-----------------------------------------------------------------------------
(***************************************************************************)
(* The steps of a sync that write no rows.                                 *)
(***************************************************************************)
LEMMA NowNone == ASSUME TInv, NEW t \in Syncers, syncer[t].pc # "retire" PROVE syncer[t].now = NoVal
  BY Standing DEF ShapeOf

\* Reading the account.
LEMMA AccountRows ==
  ASSUME NEW t \in Syncers
  PROVE  TInv /\ RowInv /\ (ReadHoldings(t) \/ HoldingsDenied(t) \/ ReadPositions(t)
           \/ PositionsDenied(t) \/ Judge(t) \/ StartSync(t)) => RowInv'
  <1> SUFFICES ASSUME TInv, RowInv PROVE
        ReadHoldings(t) \/ HoldingsDenied(t) \/ ReadPositions(t)
           \/ PositionsDenied(t) \/ Judge(t) \/ StartSync(t) => RowInv'
    OBVIOUS
  <1>1. syncer[t] \in SyncerState /\ (syncer[t].pc # "retire" => syncer[t].now = NoVal)
    BY Standing, NowNone
  <1>2. CASE ReadHoldings(t)
    <2> DEFINE me == Reads(syncer[t], Held("holding"), "positions")
    <2>1. /\ syncer[t].pc = "holdings" /\ syncer' = [syncer EXCEPT ![t] = me]
          /\ UNCHANGED <<rows, stale, disturbed>>
      BY <1>2 DEF ReadHoldings, Reads, tables, TInv, TypeOK
    <2>2. me.pc \in {"positions", "rows"}
      BY <1>1 DEF Reads, SyncerState
    <2> HIDE DEF me
    <2> QED BY <1>1, <2>1, <2>2, AsideStep
  <1>3. CASE HoldingsDenied(t)
    <2> DEFINE me == Refused(syncer[t])
    <2>1. /\ syncer[t].pc = "holdings" /\ syncer' = [syncer EXCEPT ![t] = me]
          /\ UNCHANGED <<rows, stale, disturbed>>
      BY <1>3 DEF HoldingsDenied, Refused, tables, TInv, TypeOK
    <2>2. me.pc = "positions"
      BY <1>1 DEF Refused, SyncerState
    <2> HIDE DEF me
    <2> QED BY <1>1, <2>1, <2>2, AsideStep
  <1>4. CASE ReadPositions(t)
    <2> DEFINE me == Reads(syncer[t], Held("position"), "judge")
    <2>1. /\ syncer[t].pc = "positions" /\ syncer' = [syncer EXCEPT ![t] = me]
          /\ UNCHANGED <<rows, stale, disturbed>>
      BY <1>4 DEF ReadPositions, Reads, tables, history, TInv, TypeOK
    <2>2. me.pc \in {"judge", "rows"}
      BY <1>1 DEF Reads, SyncerState
    <2> HIDE DEF me
    <2> QED BY <1>1, <2>1, <2>2, AsideStep
  <1>5. CASE PositionsDenied(t)
    <2> DEFINE me == Goes(syncer[t], "judge")
    <2>1. /\ syncer[t].pc = "positions" /\ syncer' = [syncer EXCEPT ![t] = me]
          /\ UNCHANGED <<rows, stale, disturbed>>
      BY <1>5 DEF PositionsDenied, Goes, tables, TInv, TypeOK
    <2>2. me.pc = "judge"
      BY <1>1 DEF Goes, SyncerState
    <2> HIDE DEF me
    <2> QED BY <1>1, <2>1, <2>2, AsideStep
  <1>6. CASE Judge(t)
    <2> DEFINE pc == IF error[Home[t]] THEN "verdict" ELSE "closeall"
               me == Goes(syncer[t], pc)
    <2>1. /\ syncer[t].pc = "judge" /\ syncer' = [syncer EXCEPT ![t] = me]
          /\ UNCHANGED <<rows, stale, disturbed>>
      BY <1>6 DEF Judge, Goes, tables, history, TInv, TypeOK
    <2>2. me.pc \in {"verdict", "closeall"}
      BY <1>1 DEF Goes, SyncerState
    <2> HIDE DEF me
    <2> QED BY <1>1, <2>1, <2>2, AsideStep
  <1>7. CASE StartSync(t)
    <2> DEFINE me == [Resting EXCEPT !.pc = "holdings"]
    <2>1. /\ syncer[t].pc = "idle" /\ syncer' = [syncer EXCEPT ![t] = me]
          /\ UNCHANGED <<rows, stale, disturbed>>
      BY <1>7 DEF StartSync, tables
    <2>2. me.pc = "holdings"
      BY DEF Resting
    <2> HIDE DEF me
    <2> QED BY <1>1, <2>1, <2>2, AsideStep
  <1> QED BY <1>2, <1>3, <1>4, <1>5, <1>6, <1>7

\* The end of a sync.
LEMMA EndingRows ==
  ASSUME NEW t \in Syncers
  PROVE  TInv /\ RowInv /\ (Verdict(t) \/ ReadMargin(t) \/ MarginDenied(t) \/ Activate(t)
           \/ LastReadDenied(t) \/ Finish(t)) => RowInv'
  <1> SUFFICES ASSUME TInv, RowInv PROVE
        Verdict(t) \/ ReadMargin(t) \/ MarginDenied(t) \/ Activate(t)
           \/ LastReadDenied(t) \/ Finish(t) => RowInv'
    OBVIOUS
  <1>1. syncer[t] \in SyncerState /\ (syncer[t].pc # "retire" => syncer[t].now = NoVal)
    BY Standing, NowNone
  <1>2. CASE Verdict(t)
    <2> DEFINE me == [Resting EXCEPT !.pc = "margin", !.denied = syncer[t].denied,
                                     !.partial = error[Home[t]]]
    <2>1. /\ syncer[t].pc \in {"verdict", "close"} /\ syncer' = [syncer EXCEPT ![t] = me]
          /\ stale' = [stale EXCEPT ![t] = {}] /\ UNCHANGED <<rows, disturbed>>
      BY <1>2 DEF Verdict, Applied, tables
    <2>2. me.pc = "margin"
      BY DEF Resting
    <2> HIDE DEF me
    <2> QED BY <1>1, <2>1, <2>2, AsideStep
  <1>3. CASE ReadMargin(t) \/ MarginDenied(t)
    <2> DEFINE me == Goes(syncer[t], "activate")
    <2>1. /\ syncer[t].pc = "margin" /\ syncer' = [syncer EXCEPT ![t] = me]
          /\ UNCHANGED <<rows, stale, disturbed>>
      BY <1>3 DEF ReadMargin, MarginDenied, Goes, tables, TInv, TypeOK
    <2>2. me.pc = "activate"
      BY <1>1 DEF Goes, SyncerState
    <2> HIDE DEF me
    <2> QED BY <1>1, <2>1, <2>2, AsideStep
  <1>4. CASE Activate(t)
    <2> DEFINE me == Goes(syncer[t], "finish")
    <2>1. /\ syncer[t].pc = "activate" /\ syncer' = [syncer EXCEPT ![t] = me]
          /\ UNCHANGED <<rows, stale, disturbed>>
      BY <1>4 DEF Activate, Goes, history, TInv, TypeOK
    <2>2. me.pc = "finish"
      BY <1>1 DEF Goes, SyncerState
    <2> HIDE DEF me
    <2> QED BY <1>1, <2>1, <2>2, AsideStep
  <1>5. CASE LastReadDenied(t)
    BY <1>5, StillStep DEF LastReadDenied, tables
  <1>6. CASE Finish(t)
    <2>1. syncer[t].pc = "finish" /\ syncer' = [syncer EXCEPT ![t] = Resting]
          /\ UNCHANGED <<rows, stale, disturbed>>
      BY <1>6 DEF Finish, tables
    <2> QED BY <1>1, <2>1, RestingShaped, AsideStep
  <1> QED BY <1>2, <1>3, <1>4, <1>5, <1>6

LEMMA AbandonRows == ASSUME TInv, RowInv, NEW t \in Syncers, Abandon(t) PROVE RowInv'
  <1>1. /\ syncer' = [syncer EXCEPT ![t] = Resting] /\ stale' = [stale EXCEPT ![t] = {}]
        /\ disturbed' = disturbed \cup ({syncer[t].now} \ {NoVal}) /\ UNCHANGED rows
    BY DEF Abandon, tables
  <1>2. syncer[t].now \in {NoVal} \cup disturbed' /\ disturbed \subseteq disturbed'
    BY <1>1
  <1> QED BY <1>1, <1>2, RestingShaped, AsideStep

\* What is read is read of the rows as they are.
LEMMA ReadRowsRows == ASSUME NEW t \in Syncers PROVE TInv /\ RowInv /\ ReadRows(t) => RowInv'
  <1> SUFFICES ASSUME TInv, RowInv, ReadRows(t) PROVE RowInv'
    OBVIOUS
  <1>1. PICK found \in [Symbols -> Ids \cup {NoVal}] :
           /\ Fits(found)
           /\ syncer' = [syncer EXCEPT ![t] = Finds(syncer[t], found, TargetFolio, WasOf(found))]
    BY ReadRowsStep
  <1> DEFINE me == Finds(syncer[t], found, TargetFolio, WasOf(found))
  <1>2. /\ syncer[t].pc = "rows" /\ stale' = [stale EXCEPT ![t] = {}]
        /\ UNCHANGED <<rows, disturbed>>
    BY DEF ReadRows
  <1>3. /\ me.pc = "apply" /\ me.todo = syncer[t].todo /\ me.seen = syncer[t].seen
        /\ me.existing = found /\ me.was = WasOf(found) /\ me.now = NoVal
    <2>1. /\ \A s \in Symbols : found[s] \in RowsOf(s) \cup {NoVal}
          /\ WasOf(found) \in [Symbols -> Source \cup {NoVal}]
      BY <1>1, FitsTyped DEF TInv
    <2>2. TargetFolio \in Folios /\ syncer[t] \in SyncerState /\ ShapeOf(syncer[t])
      BY TargetTyped, Standing DEF TInv
    <2> QED BY <1>2, <2>1, <2>2, FindsTyped
  <1>4. syncer[t].todo = syncer[t].seen
    BY <1>2, Standing DEF ShapeOf
  <1> HIDE DEF me
  <1>5. /\ syncer'[t] = me /\ \A o \in Syncers \ {t} : syncer'[o] = syncer[o] /\ stale'[o] = stale[o]
    BY <1>1, <1>2 DEF TInv, TypeOK, me
  <1>6. Frame({}, t)
    <2>1. syncer[t].now = NoVal
      BY <1>2, NowNone
    <2> QED BY <1>2, <1>5, <2>1, NoRowsFrame
  <1>7. PendingPlanned'
    BY <1>2 DEF RowInv, PendingPlanned
  <1>8. ASSUME NEW s \in Symbols PROVE Sees(syncer[t], s)'
    <2>1. AsRead(me, s)
      <3>1. CASE Open(s) = {}
        BY <1>1, <1>3, <3>1 DEF Fits, WasOf, AsRead
      <3>2. CASE Open(s) # {}
        <4>1. found[s] \in First(s) /\ found[s] # NoVal
          <5>1. found[s] \in First(s)
            BY <1>1, <3>2 DEF Fits
          <5>2. First(s) \subseteq Ids
            BY DEF First, Open, RowsOf, Ids
          <5> QED BY <5>1, <5>2, HoldingsNoVal
        <4> QED BY <1>3, <4>1 DEF WasOf, AsRead
      <3> QED BY <3>1, <3>2
    <2>2. SameRows(s)
      BY <1>2 DEF SameRows
    <2>3. (syncer'[t].existing[s] = NoVal => Open(s)' = {} /\ syncer'[t].was[s] = NoVal)
          /\ (syncer'[t].existing[s] # NoVal =>
               syncer'[t].existing[s] \in First(s)'
               /\ syncer'[t].was[s] = rows'[syncer'[t].existing[s]].source)
      BY <1>2, <1>5, <2>1, <2>2, SameReading DEF AsRead
    <2>4. AsRead(syncer[t], s)'
      BY <2>3 DEF AsRead
    <2> QED BY <1>3, <1>4, <1>5, <2>4 DEF Sees
  <1> QED BY <1>6, <1>7, <1>8, FrameStep

-----------------------------------------------------------------------------
(***************************************************************************)
(* The steps of a sync that write rows.                                    *)
(***************************************************************************)
\* t writes rows of s.
LEMMA OwnFrame ==
  ASSUME TInv, NEW t \in Syncers, NEW s \in Symbols, NEW me, syncer' = [syncer EXCEPT ![t] = me],
         \A i \in Ids : i[2] # s => rows'[i] = rows[i], Touch({s}, t),
         disturbed \ {s} \subseteq disturbed', syncer[t].now \in {NoVal, s}
  PROVE  /\ Frame({s}, t) /\ syncer'[t] = me /\ stale'[t] = stale[t]
         /\ \A x \in Symbols \ {s} : HalfDone(x) => HalfDone(x)'
  <1>1. /\ syncer'[t] = me /\ \A o \in Syncers \ {t} : syncer'[o] = syncer[o]
        /\ stale'[t] = stale[t]
        /\ \A o \in Syncers \ {t} : HasRead(o) => stale'[o] = stale[o] \cup {s}
    BY DEF TInv, TypeOK, Touch
  <1>2. ASSUME NEW x \in Symbols \ {s}, HalfDone(x) PROVE HalfDone(x)'
    <2>1. CASE x \in disturbed
      BY <2>1 DEF HalfDone
    <2>2. ASSUME NEW o \in Syncers, syncer[o].now = x PROVE HalfDone(x)'
      <3>1. x # NoVal
        BY HoldingsNoVal
      <3>2. o # t
        BY <2>2, <3>1
      <3> QED BY <1>1, <2>2, <3>2 DEF HalfDone
    <2> QED BY <1>2, <2>1, <2>2 DEF HalfDone
  <1> QED BY <1>1, <1>2 DEF Frame

\* What t has to do with the other symbols stays.
LEMMA OwnOthers ==
  ASSUME NEW t \in Syncers, NEW s \in Symbols, NEW x \in Symbols \ {s}, SameRows(x),
         HalfDone(x) => HalfDone(x)', Sees(syncer[t], x), NEW me, syncer'[t] = me,
         me.existing = syncer[t].existing, me.was = syncer[t].was, me.seen = syncer[t].seen,
         x \in me.todo <=> x \in syncer[t].todo,
         \/ syncer[t].pc \in {"apply", "retire"} /\ me.pc \in {"apply", "retire"}
         \/ syncer[t].pc = "close" /\ me.pc = "close",
         syncer[t].now \in {NoVal, s}, me.now \in {NoVal, s}
  PROVE  Sees(syncer[t], x)'
  <1> DEFINE y == syncer[t]
  <1>1. /\ Open(x)' = Open(x) /\ First(x)' = First(x)
        /\ \A i \in RowsOf(x) : IsSynced(i)' <=> IsSynced(i)
        /\ Open(x) \subseteq RowsOf(x) /\ First(x) \subseteq RowsOf(x)
    BY SameReading
  <1>2. \A i \in RowsOf(x) : rows'[i] = rows[i]
    BY DEF SameRows
  <1>3. AsRead(y, x) => AsRead(y, x)'
    BY <1>1, <1>2 DEF AsRead
  <1>4. Mirrored(x) => Mirrored(x)'
    BY <1>1, <1>2 DEF Mirrored
  <1>5. Settled(x) => Settled(x)'
    BY <1>1 DEF Settled
  <1>6. x # NoVal /\ x # s
    BY HoldingsNoVal
  <1> QED BY <1>3, <1>4, <1>5, <1>6 DEF Sees

LEMMA RowsAreIds == ASSUME NEW s \in Symbols PROVE \A i \in RowsOf(s) : i \in Ids /\ i[2] = s /\ i # NoVal
  BY HoldingsNoVal DEF RowsOf, Ids

LEMMA FirstExists ==
  ASSUME NEW s \in Symbols, NEW i \in First(s)
  PROVE  i \in RowsOf(s) /\ i \in Ids /\ IsOpen(i) /\ Exists(i)
  BY RowsAreIds DEF First, Open, IsOpen, Exists

LEMMA CloseAllRows == ASSUME NEW t \in Syncers PROVE TInv /\ RowInv /\ CloseAll(t) => RowInv'
  <1> SUFFICES ASSUME TInv, RowInv, CloseAll(t) PROVE RowInv'
    OBVIOUS
  <1> DEFINE S == {s \in Symbols : \E i \in RowsOf(s) : IsSynced(i)}
             me == Goes(syncer[t], "verdict")
  <1>1. /\ syncer[t].pc = "closeall" /\ syncer' = [syncer EXCEPT ![t] = me] /\ Touch(S, t)
        /\ UNCHANGED disturbed
        /\ rows' = [i \in Ids |-> IF IsSynced(i) THEN [rows[i] EXCEPT !.status = "INACTIVE"]
                                              ELSE rows[i]]
    BY DEF CloseAll, Goes, TInv, TypeOK
  <1>2. me.pc = "verdict" /\ me.now = NoVal /\ syncer[t].now = NoVal
    BY <1>1, Standing DEF Goes, SyncerState, ShapeOf
  <1> HIDE DEF me
  <1>3. /\ syncer'[t] = me /\ \A o \in Syncers \ {t} : syncer'[o] = syncer[o]
        /\ \A o \in Syncers \ {t} : HasRead(o) => stale'[o] = stale[o] \cup S
    BY <1>1 DEF TInv, TypeOK, Touch
  <1>4. \A s \in Symbols : HalfDone(s) => HalfDone(s)'
    <2> SUFFICES ASSUME NEW s \in Symbols, HalfDone(s) PROVE HalfDone(s)'
      OBVIOUS
    <2>1. s # NoVal
      BY HoldingsNoVal
    <2> QED BY <1>1, <1>2, <1>3, <2>1 DEF HalfDone
  <1>5. \A i \in Ids : i[2] \notin S => rows'[i] = rows[i]
    <2> SUFFICES ASSUME NEW i \in Ids, i[2] \notin S PROVE rows'[i] = rows[i]
      OBVIOUS
    <2>1. i[2] \in Symbols /\ i \in RowsOf(i[2])
      BY DEF RowsOf, Ids
    <2>2. ~IsSynced(i)
      BY <2>1
    <2> QED BY <1>1, <2>2
  <1>6. Frame(S, t)
    BY <1>3, <1>4, <1>5 DEF Frame
  <1>7. rows \in [Ids -> Row]
    BY DEF TInv, TypeOK
  <1>8. \A i \in Ids : ~IsSynced(i)'
    BY <1>1, <1>7 DEF IsSynced, Row
  <1>9. \A s \in S : Single(s)'
    BY <1>8, RowsAreIds DEF Single
  <1>10. PendingPlanned'
    BY <1>1, <1>7 DEF PendingPlanned, RowInv, Row
  <1>11. \A s \in Symbols \ stale'[t] : Sees(syncer[t], s)'
    BY <1>2, <1>3 DEF Sees
  <1>12. S \in SUBSET Symbols
    OBVIOUS
  <1> HIDE DEF S
  <1> QED BY <1>6, <1>9, <1>10, <1>11, <1>12, FrameStep

LEMMA TakeOverRows ==
  ASSUME NEW t \in Syncers, NEW s \in Symbols PROVE TInv /\ RowInv /\ TakeOver(t, s) => RowInv'
  <1> SUFFICES ASSUME TInv, RowInv, TakeOver(t, s) PROVE RowInv'
    OBVIOUS
  <1> DEFINE me == Takes(syncer[t], s)
             i == syncer[t].existing[s]
  <1>1. /\ syncer[t].pc = "apply" /\ s \in syncer[t].todo /\ i # NoVal
        /\ syncer' = [syncer EXCEPT ![t] = me] /\ UNCHANGED disturbed
    BY DEF TakeOver, Takes, TInv, TypeOK
  <1>2. /\ me.pc = "retire" /\ me.todo = syncer[t].todo /\ me.seen = syncer[t].seen
        /\ me.existing = syncer[t].existing /\ me.was = syncer[t].was /\ me.now = s
    BY <1>1, Standing, TakesTyped
  <1>3. /\ syncer[t].now = NoVal /\ syncer[t].todo \subseteq syncer[t].seen
        /\ i \in RowsOf(s) /\ i \in Ids /\ syncer[t].folio \in Folios
    BY <1>1, Standing, RowsAreIds DEF ShapeOf
  <1> HIDE DEF me
  <1>4. CASE Exists(i)
    <2>1. rows' = [rows EXCEPT ![i] = SyncedRow(t)] /\ Touch({s}, t)
      BY <1>4 DEF TakeOver
    <2>2. /\ rows'[i] = SyncedRow(t) /\ \A j \in Ids : j # i => rows'[j] = rows[j]
      BY <1>3, <2>1 DEF TInv, TypeOK
    <2>3. i[2] = s
      BY <1>3, RowsAreIds
    <2>4. \A j \in Ids : j[2] # s => rows'[j] = rows[j]
      BY <2>2, <2>3
    <2>5. /\ Frame({s}, t) /\ syncer'[t] = me /\ stale'[t] = stale[t]
          /\ \A x \in Symbols \ {s} : HalfDone(x) => HalfDone(x)'
      BY <1>1, <1>3, <2>1, <2>4, OwnFrame
    <2>6. Single(s)'
      BY <1>2, <2>5 DEF Single, HalfDone
    <2>7. /\ SyncedRow(t).status = "ACTIVE" /\ SyncedRow(t).source = "GROWW_SYNC"
          /\ SyncedRow(t).shares = "broker"
      BY <1>3, SyncedRowTyped
    <2>8. PendingPlanned'
      BY <2>2, <2>7 DEF PendingPlanned, RowInv
    <2>9. ASSUME NEW x \in Symbols \ stale'[t] PROVE Sees(syncer[t], x)'
      <3>1. CASE x # s
        <4>1. SameRows(x) /\ Sees(syncer[t], x)
          BY <2>5, <3>1, FrameRows DEF RowInv
        <4>2. x \in Symbols \ {s}
          BY <3>1
        <4> QED BY <1>1, <1>2, <1>3, <2>5, <4>1, <4>2, OwnOthers
      <3>2. CASE x = s
        BY <1>1, <1>2, <1>3, <2>2, <2>5, <2>7, <3>2 DEF Sees, IsSynced
      <3> QED BY <3>1, <3>2
    <2>10. {s} \in SUBSET Symbols
      OBVIOUS
    <2> QED BY <2>5, <2>6, <2>8, <2>9, <2>10, FrameStep
  <1>5. CASE ~Exists(i)
    <2>1. UNCHANGED <<rows, stale>>
      BY <1>5 DEF TakeOver
    <2>2. /\ syncer'[t] = me
          /\ \A o \in Syncers \ {t} : syncer'[o] = syncer[o] /\ stale'[o] = stale[o]
      BY <1>1, <2>1 DEF TInv, TypeOK
    <2>3. Frame({}, t)
      BY <1>1, <1>3, <2>1, <2>2, NoRowsFrame
    <2>4. s \in stale[t]
      <3>1. CASE s \notin stale[t]
        <4>1. Sees(syncer[t], s) /\ s # NoVal
          BY <3>1, HoldingsNoVal DEF RowInv
        <4>2. i \in First(s)
          BY <1>1, <1>3, <4>1 DEF Sees, AsRead
        <4> QED BY <1>5, <4>2, FirstExists
      <3> QED BY <3>1
    <2>5. PendingPlanned'
      BY <2>1 DEF PendingPlanned, RowInv
    <2>6. ASSUME NEW x \in Symbols \ stale'[t] PROVE Sees(syncer[t], x)'
      <3>1. x \in Symbols \ {s} /\ Sees(syncer[t], x)
        BY <2>1, <2>4 DEF RowInv
      <3>2. SameRows(x) /\ (HalfDone(x) => HalfDone(x)')
        BY <2>1, <2>3 DEF SameRows, Frame
      <3> QED BY <1>1, <1>2, <1>3, <2>2, <3>1, <3>2, OwnOthers
    <2> QED BY <2>3, <2>5, <2>6, FrameStep
  <1> QED BY <1>4, <1>5

LEMMA RetireRows == ASSUME NEW t \in Syncers PROVE TInv /\ RowInv /\ Retire(t) => RowInv'
  <1> SUFFICES ASSUME TInv, RowInv, Retire(t) PROVE RowInv'
    OBVIOUS
  <1>0. syncer[t].pc = "retire" /\ syncer[t].now \in syncer[t].todo
        /\ syncer[t].todo \subseteq syncer[t].seen /\ syncer[t].now \in Symbols
    BY Standing DEF ShapeOf, Retire
  <1>s. PICK s \in Symbols : s = syncer[t].now
    BY <1>0
  <1>i. PICK i \in Ids \cup {NoVal} : i = syncer[t].existing[s]
    BY Standing DEF SyncerState
  <1> DEFINE me == Drops(syncer[t], s)
  <1>1. /\ syncer[t].pc = "retire" /\ Touch({s}, t) /\ syncer' = [syncer EXCEPT ![t] = me]
        /\ disturbed \ {s} \subseteq disturbed'
    BY <1>s DEF Retire, Drops, TInv, TypeOK
  <1>2. s \in Symbols /\ s \in syncer[t].todo /\ syncer[t].todo \subseteq syncer[t].seen
    BY <1>0, <1>s
  <1>3. /\ me.pc = "apply" /\ me.todo = syncer[t].todo \ {s} /\ me.seen = syncer[t].seen
        /\ me.existing = syncer[t].existing /\ me.was = syncer[t].was /\ me.now = NoVal
    BY <1>1, <1>2, Standing, DropsTyped
  <1>4. rows' = [j \in Ids |-> IF j[2] = s /\ j # i /\ Exists(j)
                                 THEN [rows[j] EXCEPT !.status = "INACTIVE"] ELSE rows[j]]
    BY <1>s, <1>i DEF Retire
  <1> HIDE DEF me
  <1>5. rows \in [Ids -> Row]
    BY DEF TInv, TypeOK
  <1>6. \A j \in Ids : j[2] # s => rows'[j] = rows[j]
    BY <1>4
  <1>7. ASSUME NEW j \in RowsOf(s), j # i
        PROVE  rows'[j].status \notin {"ACTIVE", "PENDING_CONFIRMATION"}
    <2>1. j \in Ids /\ j[2] = s
      BY <1>2, RowsAreIds
    <2>2. CASE Exists(j)
      <3>1. rows'[j] = [rows[j] EXCEPT !.status = "INACTIVE"]
        BY <1>4, <1>7, <2>1, <2>2
      <3> QED BY <1>5, <2>1, <3>1 DEF Row
    <2>3. CASE ~Exists(j)
      <3>1. rows'[j] = rows[j]
        BY <1>4, <2>1, <2>3
      <3> QED BY <2>3, <3>1 DEF Exists
    <2> QED BY <2>2, <2>3
  <1>8. /\ Frame({s}, t) /\ syncer'[t] = me /\ stale'[t] = stale[t]
        /\ \A x \in Symbols \ {s} : HalfDone(x) => HalfDone(x)'
    <2>1. syncer[t].now \in {NoVal, s}
      BY <1>s
    <2> QED BY <1>1, <1>6, <2>1, OwnFrame
  <1>9. Single(s)'
    BY <1>7 DEF Single, IsSynced
  <1>10. PendingPlanned'
    <2> SUFFICES ASSUME NEW j \in Ids, rows'[j].status = "PENDING_CONFIRMATION"
                 PROVE  rows'[j].source = "BASKET"
      BY DEF PendingPlanned
    <2>1. CASE rows'[j] = rows[j]
      BY <2>1 DEF PendingPlanned, RowInv
    <2>2. CASE rows'[j] = [rows[j] EXCEPT !.status = "INACTIVE"]
      BY <1>5, <2>2 DEF Row
    <2> QED BY <1>4, <2>1, <2>2
  <1>11. ASSUME NEW x \in Symbols \ stale'[t] PROVE Sees(syncer[t], x)'
    <2>1. CASE x # s
      <3>1. SameRows(x) /\ Sees(syncer[t], x)
        BY <1>8, <2>1, FrameRows DEF RowInv
      <3>2. x \in Symbols \ {s} /\ (x \in me.todo <=> x \in syncer[t].todo)
        BY <1>3, <2>1
      <3> QED BY <1>1, <1>2, <1>3, <1>8, <1>s, <3>1, <3>2, OwnOthers
    <2>2. CASE x = s
      <3>1. Sees(syncer[t], s)
        BY <1>8, <2>2 DEF RowInv
      <3>2. i \in RowsOf(s) /\ IsSynced(i) /\ rows[i].shares = "broker"
        BY <1>1, <1>s, <1>i, <3>1 DEF Sees
      <3>3. i \in Ids /\ rows'[i] = rows[i]
        BY <1>2, <1>4, <3>2, RowsAreIds
      <3>4. Open(s)' = {i}
        BY <1>7, <3>2, <3>3 DEF Open, IsOpen, IsSynced
      <3>5. Mirrored(s)'
        BY <3>2, <3>3, <3>4 DEF Mirrored, IsSynced
      <3> QED BY <1>2, <1>3, <1>8, <2>2, <3>5 DEF Sees
    <2> QED BY <2>1, <2>2
  <1>12. {s} \in SUBSET Symbols
    BY <1>2
  <1> QED BY <1>8, <1>9, <1>10, <1>11, <1>12, FrameStep

LEMMA InsertRows ==
  ASSUME NEW t \in Syncers, NEW s \in Symbols PROVE TInv /\ RowInv /\ Insert(t, s) => RowInv'
  <1> SUFFICES ASSUME TInv, RowInv, Insert(t, s) PROVE RowInv'
    OBVIOUS
  <1> DEFINE me == [syncer[t] EXCEPT !.todo = @ \ {s}]
             i == <<Broker, s>>
  <1>1. /\ syncer[t].pc = "apply" /\ s \in syncer[t].todo /\ syncer[t].existing[s] = NoVal
        /\ rows' = [rows EXCEPT ![i] = SyncedRow(t)] /\ Touch({s}, t)
        /\ disturbed' = IF s \in stale[t] THEN disturbed \cup {s} ELSE disturbed
        /\ syncer' = [syncer EXCEPT ![t] = me]
    BY DEF Insert, TInv, TypeOK
  <1>2. /\ me.pc = "apply" /\ me.todo = syncer[t].todo \ {s} /\ me.seen = syncer[t].seen
        /\ me.existing = syncer[t].existing /\ me.was = syncer[t].was /\ me.now = syncer[t].now
    BY <1>1, Standing DEF SyncerState
  <1>3. /\ syncer[t].now = NoVal /\ syncer[t].todo \subseteq syncer[t].seen
        /\ syncer[t].folio \in Folios
    BY <1>1, Standing DEF ShapeOf
  <1>4. i \in RowsOf(s) /\ i \in Ids
    BY DEF RowsOf, Ids, Owners
  <1> HIDE DEF me, i
  <1>5. /\ rows'[i] = SyncedRow(t) /\ \A j \in Ids : j # i => rows'[j] = rows[j]
    BY <1>1, <1>4 DEF TInv, TypeOK
  <1>6. \A j \in Ids : j[2] # s => rows'[j] = rows[j]
    BY <1>4, <1>5, RowsAreIds
  <1>7. /\ Frame({s}, t) /\ syncer'[t] = me /\ stale'[t] = stale[t]
        /\ \A x \in Symbols \ {s} : HalfDone(x) => HalfDone(x)'
    <2>1. disturbed \ {s} \subseteq disturbed'
      BY <1>1
    <2> QED BY <1>1, <1>3, <1>6, <2>1, OwnFrame
  <1>8. /\ SyncedRow(t).status = "ACTIVE" /\ SyncedRow(t).source = "GROWW_SYNC"
        /\ SyncedRow(t).shares = "broker"
    BY <1>3, SyncedRowTyped
  <1>9. s \notin stale[t] => Open(s)' = {i}
    <2> SUFFICES ASSUME s \notin stale[t] PROVE Open(s)' = {i}
      OBVIOUS
    <2>1. Sees(syncer[t], s) /\ s # NoVal
      BY HoldingsNoVal DEF RowInv
    <2>2. Open(s) = {}
      BY <1>1, <1>3, <2>1 DEF Sees, AsRead
    <2>3. \A j \in RowsOf(s) : j # i => ~IsOpen(j)'
      BY <1>5, <2>2, RowsAreIds DEF Open, IsOpen
    <2> QED BY <1>4, <1>5, <1>8, <2>3 DEF Open, IsOpen
  <1>10. Single(s)'
    <2>1. CASE s \in stale[t]
      BY <1>1, <2>1 DEF Single, HalfDone
    <2>2. CASE s \notin stale[t]
      <3>1. \A j \in RowsOf(s) : IsSynced(j)' => j \in Open(s)'
        BY DEF IsSynced, IsOpen, Open
      <3> QED BY <1>9, <2>2, <3>1 DEF Single
    <2> QED BY <2>1, <2>2
  <1>11. PendingPlanned'
    BY <1>5, <1>8 DEF PendingPlanned, RowInv
  <1>12. ASSUME NEW x \in Symbols \ stale'[t] PROVE Sees(syncer[t], x)'
    <2>1. CASE x # s
      <3>1. SameRows(x) /\ Sees(syncer[t], x)
        BY <1>7, <2>1, FrameRows DEF RowInv
      <3>2. x \in Symbols \ {s} /\ (x \in me.todo <=> x \in syncer[t].todo)
        BY <1>2, <2>1
      <3> QED BY <1>1, <1>2, <1>3, <1>7, <3>1, <3>2, OwnOthers
    <2>2. CASE x = s
      <3>1. Mirrored(s)'
        BY <1>4, <1>5, <1>7, <1>8, <1>9, <2>2 DEF Mirrored, IsSynced
      <3> QED BY <1>1, <1>2, <1>3, <1>7, <2>2, <3>1 DEF Sees
    <2> QED BY <2>1, <2>2
  <1>13. {s} \in SUBSET Symbols
    OBVIOUS
  <1> QED BY <1>7, <1>10, <1>11, <1>12, <1>13, FrameStep

\* The symbols that were not reported are chosen as they were read.
LEMMA StartClosingRows == ASSUME NEW t \in Syncers PROVE TInv /\ RowInv /\ StartClosing(t) => RowInv'
  <1> SUFFICES ASSUME TInv, RowInv, StartClosing(t) PROVE RowInv'
    OBVIOUS
  <1> DEFINE me == Closes(syncer[t], Unseen(t))
  <1>1. /\ syncer[t].pc = "apply" /\ syncer[t].todo = {} /\ syncer' = [syncer EXCEPT ![t] = me]
        /\ UNCHANGED <<rows, stale, disturbed>>
    BY DEF StartClosing, Closes, tables, history, TInv, TypeOK
  <1>2. /\ me.pc = "close" /\ me.todo = Unseen(t) /\ me.seen = syncer[t].seen
        /\ me.existing = syncer[t].existing /\ me.was = syncer[t].was /\ me.now = syncer[t].now
    BY Standing DEF Closes, SyncerState
  <1>3. syncer[t].now = NoVal
    BY <1>1, NowNone
  <1> HIDE DEF me
  <1>4. /\ syncer'[t] = me
        /\ \A o \in Syncers \ {t} : syncer'[o] = syncer[o] /\ stale'[o] = stale[o]
    BY <1>1 DEF TInv, TypeOK
  <1>5. Frame({}, t)
    BY <1>1, <1>3, <1>4, NoRowsFrame
  <1>6. PendingPlanned'
    BY <1>1 DEF PendingPlanned, RowInv
  <1>7. ASSUME NEW x \in Symbols \ stale'[t] PROVE Sees(syncer[t], x)'
    <2>1. Sees(syncer[t], x) /\ x # NoVal
      BY <1>1, HoldingsNoVal DEF RowInv
    <2>2. SameRows(x)
      BY <1>1 DEF SameRows
    <2>3. /\ Open(x)' = Open(x) /\ First(x)' = First(x)
          /\ \A i \in RowsOf(x) : IsSynced(i)' <=> IsSynced(i)
          /\ Open(x) \subseteq RowsOf(x) /\ First(x) \subseteq RowsOf(x)
      BY <2>2, SameReading
    <2>4. CASE x \in syncer[t].seen
      <3>1. Mirrored(x)
        BY <1>1, <2>1, <2>4 DEF Sees
      <3>2. Mirrored(x)'
        BY <1>1, <2>3, <3>1 DEF Mirrored
      <3>3. x \notin Unseen(t)
        BY <2>4 DEF Unseen
      <3> QED BY <1>2, <1>4, <2>4, <3>2, <3>3 DEF Sees
    <2>5. CASE x \notin syncer[t].seen
      <3>1. AsRead(syncer[t], x)
        BY <1>1, <1>3, <2>1, <2>5 DEF Sees
      <3>2. CASE x \in Unseen(t)
        <4>1. syncer[t].was[x] = "GROWW_SYNC"
          BY <3>2 DEF Unseen
        <4>2. AsRead(syncer[t], x)'
          BY <1>1, <1>2, <1>4, <2>3, <3>1 DEF AsRead
        <4> QED BY <1>2, <1>4, <2>5, <3>2, <4>1, <4>2 DEF Sees
      <3>3. CASE x \notin Unseen(t)
        <4>1. syncer[t].was[x] # "GROWW_SYNC"
          BY <2>5, <3>3 DEF Unseen
        <4>2. (\E i \in RowsOf(x) : IsSynced(i)) => \E i \in Open(x) : ~IsSynced(i)
          <5>1. CASE syncer[t].existing[x] = NoVal
            BY <3>1, <5>1 DEF AsRead, Open, IsOpen, IsSynced
          <5>2. CASE syncer[t].existing[x] # NoVal
            BY <3>1, <4>1, <5>2 DEF AsRead, First, IsSynced
          <5> QED BY <5>1, <5>2
        <4>3. Settled(x)'
          BY <2>3, <4>2 DEF Settled
        <4> QED BY <1>2, <1>4, <2>5, <3>3, <4>3 DEF Sees
      <3> QED BY <3>2, <3>3
    <2> QED BY <2>4, <2>5
  <1> QED BY <1>5, <1>6, <1>7, FrameStep

\* The row that was read is the only synced one, unless there were two.
LEMMA CloseOneRows ==
  ASSUME NEW t \in Syncers, NEW s \in Symbols PROVE TInv /\ RowInv /\ CloseOne(t, s) => RowInv'
  <1> SUFFICES ASSUME TInv, RowInv, CloseOne(t, s) PROVE RowInv'
    OBVIOUS
  <1> DEFINE me == [syncer[t] EXCEPT !.todo = @ \ {s}]
  <1>1. /\ syncer[t].pc = "close" /\ s \in syncer[t].todo
        /\ syncer' = [syncer EXCEPT ![t] = me] /\ UNCHANGED disturbed
    BY DEF CloseOne, TInv, TypeOK
  <1>2. /\ me.pc = "close" /\ me.todo = syncer[t].todo \ {s} /\ me.seen = syncer[t].seen
        /\ me.existing = syncer[t].existing /\ me.was = syncer[t].was /\ me.now = syncer[t].now
    BY <1>1, Standing DEF SyncerState
  <1>3. syncer[t].now = NoVal /\ syncer[t].todo \cap syncer[t].seen = {}
    BY <1>1, Standing DEF ShapeOf
  <1>i. PICK i \in RowsOf(s) \cup {NoVal} : i = syncer[t].existing[s]
    BY <1>1, Standing DEF ShapeOf
  <1> HIDE DEF me
  <1>4. rows \in [Ids -> Row] /\ NoVal \notin Ids
    BY HoldingsNoVal DEF TInv, TypeOK
  <1>5. CASE Exists(i)
    <2>1. rows' = [rows EXCEPT ![i].status = "INACTIVE"] /\ Touch({s}, t)
      BY <1>5, <1>i DEF CloseOne
    <2>2. \A j \in Ids : j # i => rows'[j] = rows[j]
      BY <1>4, <2>1
    <2>3. \A j \in Ids : j = i => rows'[j] = [rows[j] EXCEPT !.status = "INACTIVE"]
      BY <1>4, <2>1
    <2>4. \A j \in Ids : j[2] # s => rows'[j] = rows[j]
      BY <1>4, <2>2, RowsAreIds
    <2>5. /\ Frame({s}, t) /\ syncer'[t] = me /\ stale'[t] = stale[t]
          /\ \A x \in Symbols \ {s} : HalfDone(x) => HalfDone(x)'
      <3>1. disturbed \ {s} \subseteq disturbed'
        BY <1>1
      <3> QED BY <1>1, <1>3, <2>1, <2>4, <3>1, OwnFrame
    <2>6. \A j \in RowsOf(s) : IsSynced(j)' => IsSynced(j) /\ j # i
      <3> SUFFICES ASSUME NEW j \in RowsOf(s), IsSynced(j)' PROVE IsSynced(j) /\ j # i
        OBVIOUS
      <3>1. j \in Ids
        BY RowsAreIds
      <3>2. j # i
        BY <1>4, <2>3, <3>1 DEF IsSynced, Row
      <3> QED BY <2>2, <3>1, <3>2 DEF IsSynced
    <2>7. HalfDone(s) => HalfDone(s)'
      <3> SUFFICES ASSUME HalfDone(s) PROVE HalfDone(s)'
        OBVIOUS
      <3>1. s # NoVal
        BY HoldingsNoVal
      <3>2. \A o \in Syncers : syncer[o].now = s => o # t /\ syncer'[o] = syncer[o]
        BY <1>3, <2>5, <3>1 DEF Frame
      <3> QED BY <1>1, <3>2 DEF HalfDone
    <2>8. Single(s)'
      BY <2>6, <2>7 DEF Single, RowInv
    <2>9. PendingPlanned'
      <3> SUFFICES ASSUME NEW j \in Ids, rows'[j].status = "PENDING_CONFIRMATION"
                   PROVE  rows'[j].source = "BASKET"
        BY DEF PendingPlanned
      <3>1. j # i
        BY <1>4, <2>3 DEF Row
      <3> QED BY <2>2, <3>1 DEF PendingPlanned, RowInv
    <2>10. s \notin stale[t] => Settled(s)'
      <3> SUFFICES ASSUME s \notin stale[t], NEW j \in RowsOf(s), IsSynced(j)'
                   PROVE  HalfDone(s)'
        BY DEF Settled
      <3>1. AsRead(syncer[t], s) /\ syncer[t].was[s] = "GROWW_SYNC"
        BY <1>1 DEF Sees, RowInv
      <3>2. i # NoVal
        BY <1>i, <3>1, HoldingsNoSource DEF AsRead, Source
      <3>3. i \in First(s) /\ rows[i].source = "GROWW_SYNC"
        BY <1>i, <3>1, <3>2 DEF AsRead
      <3>4. i \in RowsOf(s) /\ i \in Ids /\ IsOpen(i)
        BY <3>3, FirstExists
      <3>5. IsSynced(i)
        BY <3>3, <3>4 DEF IsOpen, IsSynced, PendingPlanned, RowInv
      <3>6. IsSynced(j) /\ j # i
        BY <2>6
      <3> QED BY <2>7, <3>4, <3>5, <3>6 DEF Single, RowInv
    <2>11. ASSUME NEW x \in Symbols \ stale'[t] PROVE Sees(syncer[t], x)'
      <3>1. CASE x # s
        <4>1. SameRows(x) /\ Sees(syncer[t], x)
          BY <2>5, <3>1, FrameRows DEF RowInv
        <4>2. x \in Symbols \ {s} /\ (x \in me.todo <=> x \in syncer[t].todo)
          BY <1>2, <3>1
        <4> QED BY <1>1, <1>2, <1>3, <2>5, <4>1, <4>2, OwnOthers
      <3>2. CASE x = s
        <4>1. x \notin syncer[t].seen /\ x \notin me.todo
          BY <1>1, <1>2, <1>3, <3>2
        <4> QED BY <1>2, <2>5, <2>10, <3>2, <4>1 DEF Sees
      <3> QED BY <3>1, <3>2
    <2>12. {s} \in SUBSET Symbols
      OBVIOUS
    <2> QED BY <2>5, <2>8, <2>9, <2>11, <2>12, FrameStep
  <1>6. CASE ~Exists(i)
    <2>1. UNCHANGED <<rows, stale>>
      BY <1>6, <1>i DEF CloseOne
    <2>2. /\ syncer'[t] = me
          /\ \A o \in Syncers \ {t} : syncer'[o] = syncer[o] /\ stale'[o] = stale[o]
      BY <1>1, <2>1 DEF TInv, TypeOK
    <2>3. Frame({}, t)
      BY <1>1, <1>3, <2>1, <2>2, NoRowsFrame
    <2>4. s \in stale[t]
      <3> SUFFICES ASSUME s \notin stale[t] PROVE FALSE
        OBVIOUS
      <3>1. AsRead(syncer[t], s) /\ syncer[t].was[s] = "GROWW_SYNC"
        BY <1>1 DEF Sees, RowInv
      <3>2. i \in First(s)
        BY <1>i, <3>1, HoldingsNoSource DEF AsRead, Source
      <3> QED BY <1>6, <3>2, FirstExists
    <2>5. PendingPlanned'
      BY <2>1 DEF PendingPlanned, RowInv
    <2>6. ASSUME NEW x \in Symbols \ stale'[t] PROVE Sees(syncer[t], x)'
      <3>1. x \in Symbols \ {s} /\ Sees(syncer[t], x)
        BY <2>1, <2>4 DEF RowInv
      <3>2. SameRows(x) /\ (HalfDone(x) => HalfDone(x)')
        BY <2>1, <2>3 DEF SameRows, Frame
      <3>3. x \in me.todo <=> x \in syncer[t].todo
        BY <1>2, <3>1
      <3> QED BY <1>1, <1>2, <1>3, <2>2, <3>1, <3>2, <3>3, OwnOthers
    <2> QED BY <2>3, <2>5, <2>6, FrameStep
  <1> QED BY <1>5, <1>6

-----------------------------------------------------------------------------
(***************************************************************************)
(* The steps of the user, and everything else.                             *)
(***************************************************************************)
LEMMA AddManualRows ==
  ASSUME NEW m \in Manuals, NEW s \in Tracked PROVE TInv /\ RowInv /\ AddManual(m, s) => RowInv'
  <1> SUFFICES ASSUME TInv, RowInv, AddManual(m, s) PROVE RowInv'
    OBVIOUS
  <1> DEFINE i == <<m, s>>
  <1>1. i \in Ids /\ i[2] = s
    BY HoldingsOwners DEF Ids, Owners
  <1>2. rows' = [rows EXCEPT ![i] = ManualRow] /\ Touch({s}, NoVal) /\ UNCHANGED <<syncer, disturbed>>
    BY DEF AddManual
  <1>3. /\ ManualRow \in Row /\ ManualRow.status = "ACTIVE" /\ ManualRow.source = "MANUAL"
    BY DEF ManualRow, Row, Status, Source, Folios
  <1> HIDE DEF i
  <1> QED BY <1>1, <1>2, <1>3, WriteStep

LEMMA DeleteManualRows ==
  ASSUME NEW i \in Ids PROVE TInv /\ RowInv /\ DeleteManual(i) => RowInv'
  <1> SUFFICES ASSUME TInv, RowInv, DeleteManual(i) PROVE RowInv'
    OBVIOUS
  <1> DEFINE r == [rows[i] EXCEPT !.status = "deleted"]
  <1>1. rows' = [rows EXCEPT ![i] = r] /\ Touch({i[2]}, NoVal) /\ UNCHANGED <<syncer, disturbed>>
    BY DEF DeleteManual, TInv, TypeOK
  <1>2. r \in Row /\ r.status = "deleted"
    <2>1. rows[i] \in Row
      BY DEF TInv, TypeOK
    <2> QED BY <2>1 DEF Row, Status
  <1> HIDE DEF r
  <1> QED BY <1>1, <1>2, WriteStep

LEMMA EditRows == ASSUME NEW d \in Desks PROVE TInv /\ RowInv /\ Edit(d) => RowInv'
  <1> SUFFICES ASSUME TInv, RowInv, Edit(d) PROVE RowInv'
    OBVIOUS
  <1>i. PICK i \in Ids : i = desk[d].id
    BY DEF Edit, TInv, DeskShaped
  <1> DEFINE r == [rows[i] EXCEPT !.shares = "user"]
  <1>1. CASE Exists(i)
    <2>1. rows' = [rows EXCEPT ![i] = r] /\ Touch({i[2]}, NoVal) /\ UNCHANGED <<syncer, disturbed>>
      BY <1>1, <1>i DEF Edit, TInv, TypeOK
    <2>2. r \in Row /\ r.status = rows[i].status /\ r.source = rows[i].source
      <3>1. rows[i] \in Row
        BY DEF TInv, TypeOK
      <3> QED BY <3>1 DEF Row
    <2>3. r.status = "PENDING_CONFIRMATION" => r.source = "BASKET"
      BY <2>2 DEF PendingPlanned, RowInv
    <2>4. r.status = "ACTIVE" /\ r.source = "GROWW_SYNC" => IsSynced(i)
      BY <2>2 DEF IsSynced
    <2> HIDE DEF r
    <2> QED BY <2>1, <2>2, <2>3, <2>4, WriteStep
  <1>2. CASE ~Exists(i)
    BY <1>2, <1>i, StillStep DEF Edit
  <1> QED BY <1>1, <1>2

LEMMA MarkBoughtRows == ASSUME NEW d \in Desks PROVE TInv /\ RowInv /\ MarkBought(d) => RowInv'
  <1> SUFFICES ASSUME TInv, RowInv, MarkBought(d) PROVE RowInv'
    OBVIOUS
  <1>i. PICK i \in Ids : i = desk[d].id
    BY DEF MarkBought, TInv, DeskShaped
  <1> DEFINE r == [rows[i] EXCEPT !.status = "ACTIVE", !.source = "BASKET", !.shares = "user"]
  <1>1. CASE Exists(i)
    <2>1. rows' = [rows EXCEPT ![i] = r] /\ Touch({i[2]}, NoVal) /\ UNCHANGED <<syncer, disturbed>>
      BY <1>1, <1>i DEF MarkBought, TInv, TypeOK
    <2>2. r \in Row /\ r.status = "ACTIVE" /\ r.source = "BASKET"
      <3>1. rows[i] \in Row
        BY DEF TInv, TypeOK
      <3> QED BY <3>1 DEF Row, Status, Source
    <2> HIDE DEF r
    <2> QED BY <2>1, <2>2, WriteStep
  <1>2. CASE ~Exists(i)
    BY <1>2, <1>i, StillStep DEF MarkBought
  <1> QED BY <1>1, <1>2

LEMMA DraftRowRows ==
  ASSUME NEW b \in Baskets, NEW s \in Symbols PROVE TInv /\ RowInv /\ DraftRow(b, s) => RowInv'
  <1> SUFFICES ASSUME TInv, RowInv, DraftRow(b, s) PROVE RowInv'
    OBVIOUS
  <1> DEFINE i == <<b, s>>
  <1>1. i \in Ids /\ i[2] = s
    BY DEF Ids, Owners
  <1>2. /\ rows' = [rows EXCEPT ![i] = PlannedRow(b)] /\ Touch({s}, NoVal)
        /\ UNCHANGED <<syncer, disturbed>>
    BY DEF DraftRow
  <1>3. /\ PlannedRow(b) \in Row /\ PlannedRow(b).status = "PENDING_CONFIRMATION"
        /\ PlannedRow(b).source = "BASKET"
    BY DEF PlannedRow, Row, Status, Source, Folios
  <1> HIDE DEF i
  <1> QED BY <1>1, <1>2, <1>3, WriteStep

\* A step of a desk, of the user or of the account.
LEMMA ByUserRows == TInv /\ RowInv /\ ByUser => RowInv'
  <1> SUFFICES ASSUME TInv, RowInv, ByUser PROVE RowInv'
    OBVIOUS
  <1>1. CASE \E m \in Manuals, s \in Tracked : AddManual(m, s)
    BY <1>1, AddManualRows
  <1>2. CASE \E i \in Ids : DeleteManual(i)
    BY <1>2, DeleteManualRows
  <1>3. CASE \E b \in Baskets, chosen \in Plans : DraftBasket(b, chosen)
    BY <1>3, StillStep DEF DraftBasket, history
  <1>4. CASE \E b \in Baskets, s \in Symbols : DraftRow(b, s)
    BY <1>4, DraftRowRows
  <1>5. ASSUME NEW d \in Desks,
               \/ \E i \in Ids : StartEdit(d, i)
               \/ \E b \in Baskets, bought \in (SUBSET Tracked) \ {{}} : StartConfirm(d, b, bought)
               \/ \E s \in Symbols : SelectBought(d, s)
               \/ Edit(d) \/ MarkBought(d) \/ ConfirmFolio(d) \/ DeskRaises(d)
        PROVE  RowInv'
    <2>1. CASE \E i \in Ids : StartEdit(d, i)
      BY <2>1, StillStep DEF StartEdit, tables, history
    <2>2. CASE \E b \in Baskets, bought \in (SUBSET Tracked) \ {{}} : StartConfirm(d, b, bought)
      BY <2>2, StillStep DEF StartConfirm, tables, history
    <2>3. CASE \E s \in Symbols : SelectBought(d, s)
      BY <2>3, StillStep DEF SelectBought, tables, history
    <2>4. CASE ConfirmFolio(d)
      BY <2>4, StillStep DEF ConfirmFolio, history
    <2>5. CASE DeskRaises(d)
      BY <2>5, StillStep DEF DeskRaises, tables, history
    <2> QED BY <1>5, <2>1, <2>2, <2>3, <2>4, <2>5, EditRows, MarkBoughtRows
  <1> QED BY <1>1, <1>2, <1>3, <1>4, <1>5 DEF ByUser

LEMMA SyncRows ==
  ASSUME NEW t \in Syncers
  PROVE  TInv /\ RowInv /\ (StartSync(t) \/ Poll(t) \/ SyncStep(t) \/ SyncFault(t)) => RowInv'
  <1> SUFFICES ASSUME TInv, RowInv, StartSync(t) \/ Poll(t) \/ SyncStep(t) \/ SyncFault(t)
               PROVE  RowInv'
    OBVIOUS
  <1>1. CASE StartSync(t) \/ Poll(t)
    BY <1>1, AccountRows DEF Poll
  <1>2. CASE SyncStep(t)
    <2>1. CASE ReadHoldings(t) \/ ReadPositions(t) \/ Judge(t)
      BY <2>1, AccountRows
    <2>2. CASE Verdict(t) \/ ReadMargin(t) \/ Activate(t) \/ Finish(t)
      BY <2>2, EndingRows
    <2>3. CASE CloseAll(t) \/ ReadRows(t) \/ Retire(t) \/ StartClosing(t)
      BY <2>3, CloseAllRows, ReadRowsRows, RetireRows, StartClosingRows
    <2>4. ASSUME NEW s \in Symbols, TakeOver(t, s) \/ Insert(t, s) \/ Collide(t, s) \/ CloseOne(t, s)
          PROVE  RowInv'
      BY <2>4, TakeOverRows, InsertRows, CloseOneRows, AbandonRows DEF Collide
    <2> QED BY <1>2, <2>1, <2>2, <2>3, <2>4 DEF SyncStep
  <1>3. CASE SyncFault(t)
    BY <1>3, AccountRows, EndingRows, AbandonRows DEF SyncFault, Raise
  <1> QED BY <1>1, <1>2, <1>3

LEMMA StepRows == TInv /\ RowInv /\ [Next]_vars => RowInv'
  <1> SUFFICES ASSUME TInv, RowInv, [Next]_vars PROVE RowInv'
    OBVIOUS
  <1>1. CASE UNCHANGED vars
    BY <1>1, StillStep DEF vars, tables, history
  <1>2. CASE \E s \in Symbols : Buy(s) \/ Settle(s) \/ Sell(s)
    BY <1>2, StillStep DEF Buy, Settle, Sell, Move, tables, history
  <1>3. CASE \E t \in Syncers : StartSync(t) \/ Poll(t) \/ SyncStep(t) \/ SyncFault(t)
    BY <1>3, SyncRows
  <1>4. CASE \E p \in Processes, refused \in BOOLEAN : ReadElsewhere(p, refused)
    BY <1>4, StillStep DEF ReadElsewhere, tables
  <1>5. CASE Age
    BY <1>5, StillStep DEF Age, tables, history
  <1> QED BY <1>1, <1>2, <1>3, <1>4, <1>5, ByUserRows DEF Next

LEMMA AlwaysRead == Spec => [](TInv /\ RowInv)
  <1>1. Init => TInv /\ RowInv
    BY InitTyped, InitRows
  <1>2. TInv /\ RowInv /\ [Next]_vars => (TInv /\ RowInv)'
    BY StepTyped, StepRows
  <1> QED BY <1>1, <1>2, PTL DEF Spec

-----------------------------------------------------------------------------
\* The totals count what the broker holds of a symbol once: a sync that reads
\* the rows and then writes them is not in a transaction, so two rows need a
\* sync that was overtaken or broken off.
THEOREM HoldingsAreCountedOnce == Spec => []OneSyncedRow
  <1>1. ASSUME RowInv, NEW s \in Symbols, ~HalfDone(s)
        PROVE  ~(Cardinality({i \in Counted(s) : rows[i].source = "GROWW_SYNC"}) > 1)
    <2> DEFINE A == {i \in Counted(s) : rows[i].source = "GROWW_SYNC"}
    <2>1. \A i \in A : i \in RowsOf(s) /\ IsSynced(i)
      BY DEF Counted, Shown, Open, IsSynced
    <2>2. \A i, j \in A : i = j
      BY <1>1, <2>1 DEF RowInv, Single
    <2> HIDE DEF A
    <2>3. Cardinality(A) \in {0, 1}
      <3>1. CASE A = {}
        BY <3>1, FS_EmptySet
      <3>2. ASSUME NEW x \in A PROVE Cardinality(A) = 1
        <4>1. A = {x}
          BY <2>2
        <4> QED BY <4>1, FS_Singleton
      <3> QED BY <3>1, <3>2
    <2> QED BY <2>3 DEF A
  <1>2. RowInv => OneSyncedRow
    BY <1>1 DEF OneSyncedRow
  <1> QED BY <1>2, AlwaysRead, PTL

\* A sync that nobody interfered with leaves the rows as the account is, however
\* many other syncs and dashboard requests run.
THEOREM QuietSyncsMirror == Spec => []QuietSyncMirrors
  <1>1. ASSUME RowInv, NEW t \in Syncers, syncer[t].pc = "close", syncer[t].todo = {},
               NEW s \in Symbols \ stale[t]
        PROVE  IF s \in syncer[t].seen
                 THEN /\ Cardinality(Open(s)) = 1
                      /\ \A i \in Open(s) : IsSynced(i) /\ rows[i].shares = "broker"
                 ELSE (\E i \in RowsOf(s) : IsSynced(i)) =>
                        HalfDone(s) \/ \E i \in Open(s) : ~IsSynced(i)
    <2>1. Sees(syncer[t], s)
      BY <1>1 DEF RowInv
    <2>2. CASE s \in syncer[t].seen
      <3>1. PICK i \in RowsOf(s) : Open(s) = {i} /\ IsSynced(i) /\ rows[i].shares = "broker"
        BY <1>1, <2>1, <2>2 DEF Sees, Mirrored
      <3>2. Cardinality(Open(s)) = 1
        BY <3>1, FS_Singleton
      <3> QED BY <2>2, <3>1, <3>2
    <2>3. CASE s \notin syncer[t].seen
      BY <1>1, <2>1, <2>3 DEF Sees, Settled
    <2> QED BY <2>2, <2>3
  <1>2. RowInv => QuietSyncMirrors
    BY <1>1 DEF QuietSyncMirrors
  <1> QED BY <1>2, AlwaysRead, PTL

=============================================================================
