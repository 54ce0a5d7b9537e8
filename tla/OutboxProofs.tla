---------------------------- MODULE OutboxProofs ----------------------------
(***************************************************************************)
(* Theorems of Outbox: its types, that a row marked delivered was sent,    *)
(* that a second card has a cause, and that the outbox implements          *)
(* CardQueue, for any sweepers of any processes, any number of rows and    *)
(* any number of faults.                                                   *)
(***************************************************************************)
EXTENDS Outbox, TLAPS

-----------------------------------------------------------------------------
(***************************************************************************)
(* The inductive invariant.                                                *)
(***************************************************************************)
HeldRows ==
  \A s \in Sweepers :
    /\ Held(s) \subseteq Rows
    /\ sweeper[s].pc \in {"idle", "fetch"} => Held(s) = {}

\* Sweeper s is about to mark e.
Marking(s, e) == sweeper[s].pc = "mark" /\ IsItem(s, e)

Accepted ==
  \A s \in Sweepers : \A e \in Events : Marking(s, e) => sent[e] > 0 \/ e \in handed

\* Two sweeps that hold the same row have disturbed it.
Apart ==
  \A s, o \in Sweepers : \A e \in Events :
    s # o /\ e \in Held(s) /\ e \in Held(o) => e \in disturbed

Cards(e) == sent[e] + flying[e]

\* What the loop of the bot holds was handed to it.
FlyingWasHanded == \A e \in Events : flying[e] > 0 => e \in handed

\* The card of an undisturbed row was issued only if the row is marked, or
\* the sweep that issued it is about to mark it, lost or not.
CardHasReason(e) ==
  /\ Cards(e) <= 1
  /\ e \in Issued =>
       e \in Rows /\ (outbox[e].delivered \/ \E s \in Sweepers : Marking(s, e))
  /\ \A s \in Sweepers : e \in Held(s) => ~outbox[e].delivered

Undisturbed == \A e \in Events \ disturbed : CardHasReason(e)

IInv ==
  /\ TypeOK /\ HeldRows /\ Accepted /\ DeliveredMeansSent /\ Apart /\ FlyingWasHanded
  /\ Undisturbed

LEMMA InitSound == Init => IInv
  <1> SUFFICES ASSUME Init PROVE IInv
    OBVIOUS
  <1>1. Idle \in SweepState /\ Idle.pc = "idle" /\ Idle.todo = {}
    BY DEF Idle, SweepState, MaxAttempts
  <1>2. TypeOK
    <2>1. outbox \in Seq(Row) /\ Len(outbox) <= MaxEvents
      BY OutboxBound DEF Init
    <2>2. sweeper \in [Sweepers -> SweepState]
      BY <1>1 DEF Init
    <2>3. flying \in [Events -> Nat] /\ sent \in [Events -> Nat] /\ faults \in 0..MaxFaults
      BY OutboxBound DEF Init
    <2> QED BY <2>1, <2>2, <2>3 DEF Init, TypeOK
  <1>3. HeldRows /\ Accepted /\ DeliveredMeansSent /\ Apart
    BY <1>1 DEF Init, HeldRows, Held, Accepted, Marking, DeliveredMeansSent, Rows, Apart
  <1>4. Undisturbed /\ FlyingWasHanded
    BY <1>1 DEF Init, Undisturbed, CardHasReason, Cards, Issued, FlyingWasHanded, Held
  <1> QED BY <1>2, <1>3, <1>4 DEF IInv

-----------------------------------------------------------------------------
(***************************************************************************)
(* What a step changes.                                                    *)
(***************************************************************************)
\* Sweeper s goes on at pc, and keeps at most what it has left.
Moves(s, pc, todo) ==
  /\ sweeper' \in [Sweepers -> SweepState]
  /\ sweeper'[s].pc = pc /\ sweeper'[s].todo = todo
  /\ \A o \in Sweepers \ {s} : sweeper'[o] = sweeper[o]

LEMMA Moved ==
  ASSUME TypeOK, NEW s \in Sweepers, NEW me \in SweepState,
         sweeper' = [sweeper EXCEPT ![s] = me]
  PROVE  Moves(s, me.pc, me.todo)
  BY DEF TypeOK, Moves

LEMMA StateTyped ==
  ASSUME TypeOK, NEW s \in Sweepers, NEW e
  PROVE  /\ sweeper[s] \in SweepState
         /\ Idle \in SweepState /\ Idle.pc = "idle" /\ Idle.todo = {}
         /\ Behind(s, e) \in SweepState
         /\ Behind(s, e).pc = "send" /\ Behind(s, e).todo = Held(s) \ {e}
  <1>1. sweeper[s] \in SweepState
    BY DEF TypeOK
  <1>2. Idle \in SweepState /\ Idle.pc = "idle" /\ Idle.todo = {}
    BY DEF Idle, SweepState, MaxAttempts
  <1>3. /\ Behind(s, e) \in SweepState
        /\ Behind(s, e).pc = "send" /\ Behind(s, e).todo = Held(s) \ {e}
    <2>1. sweeper[s].todo \ {e} \in SUBSET Events /\ 1 \in 1..MaxAttempts
      BY <1>1 DEF SweepState, MaxAttempts
    <2> QED BY <2>1 DEF Behind, SweepState, Held
  <1> QED BY <1>1, <1>2, <1>3

LEMMA GoesTo ==
  ASSUME TypeOK, NEW s \in Sweepers, NEW pc \in {"idle", "fetch", "send", "mark"},
         sweeper' = [sweeper EXCEPT ![s].pc = pc]
  PROVE  Moves(s, pc, Held(s))
  <1> DEFINE me == [sweeper[s] EXCEPT !.pc = pc]
  <1>1. sweeper[s] \in SweepState
    BY DEF TypeOK
  <1>2. me \in SweepState /\ me.pc = pc /\ me.todo = Held(s)
    BY <1>1 DEF SweepState, Held
  <1>3. sweeper' = [sweeper EXCEPT ![s] = me]
    OBVIOUS
  <1> HIDE DEF me
  <1> QED BY <1>2, <1>3, Moved

LEMMA GoesBehind ==
  ASSUME TypeOK, NEW s \in Sweepers, NEW e,
         sweeper' = [sweeper EXCEPT ![s] = Behind(s, e)]
  PROVE  Moves(s, "send", Held(s) \ {e})
  <1>1. /\ Behind(s, e) \in SweepState
        /\ Behind(s, e).pc = "send" /\ Behind(s, e).todo = Held(s) \ {e}
    BY StateTyped
  <1> QED BY <1>1, Moved

LEMMA GoesIdle ==
  ASSUME TypeOK, NEW s \in Sweepers, sweeper' = [sweeper EXCEPT ![s] = Idle]
  PROVE  Moves(s, "idle", {})
  <1>1. Idle \in SweepState /\ Idle.pc = "idle" /\ Idle.todo = {}
    BY StateTyped
  <1> QED BY <1>1, Moved

LEMMA FaultTyped ==
  ASSUME TypeOK, NEW E \in SUBSET Events, FaultAt(E)
  PROVE  /\ faults' \in 0..MaxFaults /\ handed' = handed
         /\ disturbed' = disturbed \cup E /\ disturbed' \subseteq Events
  BY OutboxBound DEF TypeOK, FaultAt

LEMMA RowTyped ==
  ASSUME TypeOK, NEW e \in Rows
  PROVE  /\ e \in Events /\ outbox[e] \in Row
         /\ sent[e] \in Nat /\ flying[e] \in Nat
  <1>1. e \in 1..Len(outbox) /\ Len(outbox) \in Nat
    BY DEF TypeOK, Rows
  <1>2. e \in Events
    BY <1>1, OutboxBound DEF TypeOK, Events
  <1> QED BY <1>1, <1>2 DEF TypeOK

\* A row is replaced.
LEMMA RowReplaced ==
  ASSUME TypeOK, NEW e \in Rows, NEW row \in Row, outbox' = [outbox EXCEPT ![e] = row]
  PROVE  /\ outbox' \in Seq(Row) /\ Len(outbox') = Len(outbox) /\ Rows' = Rows
         /\ outbox'[e] = row
         /\ \A x \in Rows \ {e} : outbox'[x] = outbox[x]
  <1>1. outbox \in Seq(Row) /\ e \in 1..Len(outbox) /\ Rows = 1..Len(outbox)
    BY DEF TypeOK, Rows
  <1>2. outbox \in [1..Len(outbox) -> Row] /\ Len(outbox) \in Nat
    BY <1>1
  <1>3. outbox' \in [1..Len(outbox) -> Row]
    BY <1>2
  <1>4. outbox' \in Seq(Row) /\ Len(outbox') = Len(outbox)
    BY <1>2, <1>3
  <1> QED BY <1>1, <1>2, <1>4 DEF Rows

-----------------------------------------------------------------------------
(***************************************************************************)
(* Steps, first those of which the rows, the cards and the faults are      *)
(* left alone.                                                             *)
(***************************************************************************)
Aside == UNCHANGED <<botUp, flying, sent, faults, history>>

LEMMA StartSound ==
  ASSUME IInv, NEW s \in Sweepers, sweeper[s].pc = "idle",
         sweeper' = [sweeper EXCEPT ![s].pc = "fetch"], UNCHANGED outbox, Aside
  PROVE  IInv'
  <1>1. Moves(s, "fetch", Held(s)) /\ Held(s) = {}
    BY GoesTo DEF IInv, HeldRows
  <1>2. \A o \in Sweepers : Held(o)' = Held(o) /\ \A e : Marking(o, e)' = Marking(o, e)
    BY <1>1 DEF Moves, Held, Marking, IsItem
  <1>3. TypeOK'
    BY <1>1 DEF IInv, TypeOK, Moves, Aside, history
  <1>4. HeldRows'
    BY <1>1, <1>2 DEF IInv, HeldRows, Moves, Rows
  <1>5. Accepted' /\ Apart' /\ DeliveredMeansSent'
    BY <1>2 DEF IInv, Accepted, Apart, DeliveredMeansSent, Aside, history, Rows
  <1>6. Undisturbed' /\ FlyingWasHanded'
    BY <1>2 DEF IInv, Undisturbed, CardHasReason, Cards, Issued, FlyingWasHanded, Aside, history, Rows
  <1> QED BY <1>3, <1>4, <1>5, <1>6 DEF IInv

LEMMA ScanSound ==
  ASSUME IInv, NEW s \in Sweepers, Scan(s)
  PROVE  IInv'
  BY StartSound DEF Scan, Aside

LEMMA EnqueueSound ==
  ASSUME IInv, NEW s \in Sweepers, NEW kind \in Kinds, Enqueue(s, kind)
  PROVE  IInv'
  <1>1. Moves(s, "fetch", Held(s)) /\ Held(s) = {}
    BY GoesTo DEF IInv, HeldRows, Enqueue
  <1>2. \A o \in Sweepers : Held(o)' = Held(o) /\ \A e : Marking(o, e)' = Marking(o, e)
    BY <1>1 DEF Moves, Held, Marking, IsItem, Enqueue
  <1>3. /\ outbox' \in Seq(Row) /\ Len(outbox') <= MaxEvents
        /\ Rows \subseteq Rows' /\ \A e \in Rows : outbox'[e] = outbox[e]
        /\ \A e \in Rows' \ Rows : ~outbox'[e].delivered
    <2>1. outbox \in Seq(Row) /\ Len(outbox) < MaxEvents
      BY DEF IInv, TypeOK, Enqueue
    <2>2. NewRow(kind) \in Row /\ ~NewRow(kind).delivered
      BY DEF NewRow, Row
    <2>3. outbox' = Append(outbox, NewRow(kind))
      BY DEF Enqueue
    <2> HIDE DEF NewRow
    <2> QED BY <2>1, <2>2, <2>3, OutboxBound DEF Rows
  <1>4. TypeOK'
    BY <1>1, <1>3 DEF IInv, TypeOK, Moves, Enqueue, history
  <1>5. HeldRows'
    BY <1>1, <1>2, <1>3 DEF IInv, HeldRows, Moves, Enqueue
  <1>6. Accepted' /\ Apart'
    BY <1>2 DEF IInv, Accepted, Apart, Enqueue, history
  <1>7. DeliveredMeansSent'
    BY <1>3 DEF IInv, DeliveredMeansSent, Enqueue, history
  <1>8. Undisturbed' /\ FlyingWasHanded'
    BY <1>2, <1>3 DEF IInv, HeldRows, Undisturbed, CardHasReason, Cards, Issued, FlyingWasHanded, Enqueue, history
  <1> QED BY <1>4, <1>5, <1>6, <1>7, <1>8 DEF IInv

LEMMA FetchSound ==
  ASSUME IInv, NEW s \in Sweepers, Fetch(s)
  PROVE  IInv'
  <1>1. Moves(s, "send", Pending)
    <2> DEFINE me == [pc |-> "send", todo |-> Pending, attempt |-> 1]
    <2>1. Pending \in SUBSET Events
      BY RowTyped DEF Pending, IInv
    <2>2. me \in SweepState /\ me.pc = "send" /\ me.todo = Pending
      BY <2>1 DEF SweepState, MaxAttempts
    <2>3. sweeper' = [sweeper EXCEPT ![s] = me]
      BY DEF Fetch
    <2> HIDE DEF me
    <2> QED BY <2>2, <2>3, Moved DEF IInv
  <1>2. /\ Held(s)' = Pending /\ \A e : ~Marking(s, e)'
        /\ \A o \in Sweepers \ {s} : Held(o)' = Held(o) /\ \A e : Marking(o, e)' = Marking(o, e)
    BY <1>1 DEF Moves, Held, Marking, IsItem
  <1>3. \A e : ~Marking(s, e)
    BY DEF Fetch, Marking
  <1>4. /\ disturbed \subseteq disturbed'
        /\ \A e \in Pending : (\E o \in Sweepers \ {s} : e \in Held(o)) => e \in disturbed'
    BY DEF Fetch
  <1>5. \A e \in Pending : e \in Rows /\ ~outbox[e].delivered /\ e \in Events
    BY RowTyped DEF Pending, IsPending, IInv
  <1>6. TypeOK'
    <2>1. disturbed' \subseteq Events
      BY <1>5 DEF Fetch, IInv, TypeOK
    <2> QED BY <1>1, <2>1 DEF IInv, TypeOK, Moves, Fetch, history
  <1>7. HeldRows'
    BY <1>1, <1>2, <1>5 DEF IInv, HeldRows, Moves, Fetch, Rows
  <1>8. Accepted' /\ DeliveredMeansSent'
    BY <1>2 DEF IInv, Accepted, DeliveredMeansSent, Fetch, Rows
  <1>9. Apart'
    BY <1>2, <1>4 DEF IInv, Apart
  <1>10. Undisturbed' /\ FlyingWasHanded'
    BY <1>2, <1>3, <1>4, <1>5 DEF IInv, Undisturbed, CardHasReason, Cards, Issued, FlyingWasHanded, Fetch, Rows
  <1> QED BY <1>6, <1>7, <1>8, <1>9, <1>10 DEF IInv

LEMMA EndSweepSound ==
  ASSUME IInv, NEW s \in Sweepers, EndSweep(s)
  PROVE  IInv'
  <1>1. Moves(s, "idle", {}) /\ Held(s) = {}
    BY GoesIdle DEF IInv, EndSweep
  <1>2. \A o \in Sweepers : Held(o)' = Held(o) /\ \A e : Marking(o, e)' = Marking(o, e)
    BY <1>1 DEF Moves, Held, Marking, IsItem, EndSweep
  <1>3. TypeOK'
    BY <1>1 DEF IInv, TypeOK, Moves, EndSweep, history
  <1>4. HeldRows'
    BY <1>1, <1>2 DEF IInv, HeldRows, Moves, Rows, EndSweep
  <1>5. Accepted' /\ Apart' /\ DeliveredMeansSent'
    BY <1>2 DEF IInv, Accepted, Apart, DeliveredMeansSent, EndSweep, history, Rows
  <1>6. Undisturbed' /\ FlyingWasHanded'
    BY <1>2 DEF IInv, Undisturbed, CardHasReason, Cards, Issued, FlyingWasHanded, EndSweep, history, Rows
  <1> QED BY <1>3, <1>4, <1>5, <1>6 DEF IInv

-----------------------------------------------------------------------------
(***************************************************************************)
(* Steps with the oldest row that a sweep has left.                        *)
(***************************************************************************)
LEMMA OthersStay ==
  ASSUME NEW s \in Sweepers, NEW pc, NEW todo, Moves(s, pc, todo)
  PROVE  /\ Held(s)' = todo
         /\ \A o \in Sweepers \ {s} : Held(o)' = Held(o) /\ \A e : Marking(o, e)' = Marking(o, e)
         /\ pc # "mark" => \A e : ~Marking(s, e)'
  BY DEF Moves, Held, Marking, IsItem

LEMMA OnlyOldest ==
  ASSUME IInv, NEW s \in Sweepers, NEW e, NEW x, IsItem(s, e), Marking(s, x)
  PROVE  x = e
  <1>1. e \in Held(s) /\ x \in Held(s) /\ Held(s) \subseteq Rows
    BY DEF IsItem, Marking, IInv, HeldRows
  <1>2. e \in Nat /\ x \in Nat
    BY <1>1 DEF IInv, TypeOK, Rows
  <1>3. e <= x /\ x <= e
    BY <1>1 DEF IsItem, Marking
  <1> QED BY <1>2, <1>3

\* Nobody is about to mark an undisturbed row that s is about to send.
LEMMA NotYetSent ==
  ASSUME IInv, NEW s \in Sweepers, NEW e, Sending(s, e), e \notin disturbed
  PROVE  e \in Events \ Issued /\ Cards(e) = 0 /\ ~outbox[e].delivered
  <1>1. e \in Held(s) /\ e \in Rows /\ e \in Events
    BY RowTyped DEF IInv, HeldRows, Sending, IsItem
  <1>2. ~outbox[e].delivered
    BY <1>1 DEF IInv, Undisturbed, CardHasReason
  <1>3. \A o \in Sweepers : ~Marking(o, e)
    BY <1>1 DEF IInv, Apart, Marking, IsItem, Sending
  <1>4. e \notin Issued
    BY <1>1, <1>2, <1>3 DEF IInv, Undisturbed, CardHasReason
  <1>5. Cards(e) = 0
    BY <1>1, <1>4, RowTyped DEF Cards, Issued, IInv, FlyingWasHanded
  <1> QED BY <1>1, <1>2, <1>4, <1>5

\* A sweep leaves its row, unmarked.
LEMMA SkipSound ==
  ASSUME IInv, NEW s \in Sweepers, NEW e \in Rows, NEW E \in SUBSET Events,
         IsItem(s, e), Marking(s, e) => e \in E, FaultAt(E),
         sweeper' = [sweeper EXCEPT ![s] = Behind(s, e)],
         UNCHANGED <<outbox, botUp, flying, sent>>
  PROVE  IInv'
  <1>1. Moves(s, "send", Held(s) \ {e})
    BY GoesBehind DEF IInv
  <1>2. /\ Held(s)' = Held(s) \ {e} /\ \A x : ~Marking(s, x)'
        /\ \A o \in Sweepers \ {s} : Held(o)' = Held(o) /\ \A x : Marking(o, x)' = Marking(o, x)
    BY <1>1, OthersStay
  <1>3. \A x : Marking(s, x) => x \in E
    BY OnlyOldest
  <1>4. /\ faults' \in 0..MaxFaults /\ handed' = handed
        /\ disturbed' = disturbed \cup E /\ disturbed' \subseteq Events
    BY FaultTyped DEF IInv
  <1>5. TypeOK'
    BY <1>1, <1>4 DEF IInv, TypeOK, Moves
  <1>6. HeldRows'
    BY <1>1, <1>2 DEF IInv, HeldRows, Moves, Rows
  <1>7. Accepted' /\ DeliveredMeansSent' /\ Apart'
    BY <1>2, <1>4 DEF IInv, Accepted, DeliveredMeansSent, Apart, Rows
  <1>8. Undisturbed' /\ FlyingWasHanded'
    BY <1>2, <1>3, <1>4 DEF IInv, Undisturbed, CardHasReason, Cards, Issued, FlyingWasHanded, Rows
  <1> QED BY <1>5, <1>6, <1>7, <1>8 DEF IInv

LEMMA PostRefusedSound ==
  ASSUME IInv, NEW s \in Sweepers, NEW e \in Rows, PostRefused(s, e)
  PROVE  IInv'
  <1>1. IsItem(s, e) /\ ~Marking(s, e)
    BY DEF PostRefused, Sending, Marking
  <1> QED BY <1>1, SkipSound DEF PostRefused

LEMMA MarkFailsSound ==
  ASSUME IInv, NEW s \in Sweepers, NEW e \in Rows, MarkFails(s, e)
  PROVE  IInv'
  <1>1. {e} \in SUBSET Events
    BY RowTyped DEF IInv
  <1> QED BY <1>1, SkipSound DEF MarkFails

LEMMA PostUnansweredSound ==
  ASSUME IInv, NEW s \in Sweepers, NEW e \in Rows, PostUnanswered(s, e)
  PROVE  IInv'
  <1>1. e \in Events /\ sent[e] \in Nat /\ sweeper[s] \in SweepState
    BY RowTyped, StateTyped DEF IInv
  <1>2. \E todo \in {Held(s), Held(s) \ {e}} : Moves(s, "send", todo)
    <2>1. CASE CanRetry(s)
      <3> DEFINE me == [sweeper[s] EXCEPT !.attempt = @ + 1]
      <3>1. me \in SweepState /\ me.pc = "send" /\ me.todo = Held(s)
        BY <1>1, <2>1 DEF CanRetry, SweepState, Held, MaxAttempts, PostUnanswered, Sending
      <3>2. sweeper' = [sweeper EXCEPT ![s] = me]
        BY <2>1 DEF PostUnanswered
      <3> HIDE DEF me
      <3> QED BY <3>1, <3>2, Moved DEF IInv
    <2>2. CASE ~CanRetry(s)
      <3>1. sweeper' = [sweeper EXCEPT ![s] = Behind(s, e)]
        BY <2>2 DEF PostUnanswered
      <3> QED BY <3>1, GoesBehind DEF IInv
    <2> QED BY <2>1, <2>2
  <1>3. PICK todo \in {Held(s), Held(s) \ {e}} : Moves(s, "send", todo)
    BY <1>2
  <1>4. /\ Held(s)' \subseteq Held(s) /\ \A x : ~Marking(s, x)' /\ ~Marking(s, x)
        /\ \A o \in Sweepers \ {s} : Held(o)' = Held(o) /\ \A x : Marking(o, x)' = Marking(o, x)
    BY <1>3, OthersStay DEF PostUnanswered, Sending, Marking
  <1>5. /\ faults' \in 0..MaxFaults /\ handed' = handed
        /\ disturbed' = disturbed \cup {e} /\ disturbed' \subseteq Events
    BY <1>1, FaultTyped DEF IInv, PostUnanswered
  <1>6. /\ sent' \in [Events -> Nat]
        /\ \A x \in Events : sent[x] > 0 => sent'[x] > 0
        /\ \A x \in Events \ {e} : sent'[x] = sent[x]
    BY <1>1 DEF IInv, TypeOK, PostUnanswered
  <1>7. TypeOK'
    BY <1>3, <1>5, <1>6 DEF IInv, TypeOK, Moves, PostUnanswered
  <1>8. HeldRows'
    BY <1>3, <1>4 DEF IInv, HeldRows, Moves, Rows, PostUnanswered
  <1>9. Accepted' /\ Apart'
    BY <1>4, <1>5, <1>6 DEF IInv, Accepted, Apart
  <1>10. DeliveredMeansSent'
    BY <1>5, <1>6, RowTyped DEF IInv, DeliveredMeansSent, Rows, PostUnanswered
  <1>11. Undisturbed' /\ FlyingWasHanded'
    BY <1>4, <1>5, <1>6 DEF IInv, Undisturbed, CardHasReason, Cards, Issued, FlyingWasHanded, Rows, PostUnanswered
  <1> QED BY <1>7, <1>8, <1>9, <1>10, <1>11 DEF IInv

LEMMA QuarantineSound ==
  ASSUME IInv, NEW s \in Sweepers, NEW e \in Rows, Quarantine(s, e)
  PROVE  IInv'
  <1>1. Moves(s, "send", Held(s) \ {e})
    BY GoesBehind DEF IInv, Quarantine
  <1>2. /\ Held(s)' = Held(s) \ {e} /\ \A x : ~Marking(s, x)' /\ ~Marking(s, x)
        /\ \A o \in Sweepers \ {s} : Held(o)' = Held(o) /\ \A x : Marking(o, x)' = Marking(o, x)
    BY <1>1, OthersStay DEF Quarantine, Sending, Marking
  <1>3. /\ outbox' \in Seq(Row) /\ Len(outbox') = Len(outbox) /\ Rows' = Rows
        /\ \A x \in Rows : outbox'[x].delivered = outbox[x].delivered
    <2> DEFINE row == [outbox[e] EXCEPT !.quarantined = TRUE]
    <2>1. outbox[e] \in Row
      BY RowTyped DEF IInv
    <2>2. row \in Row /\ row.delivered = outbox[e].delivered
      BY <2>1 DEF Row
    <2>3. outbox' = [outbox EXCEPT ![e] = row]
      BY DEF Quarantine
    <2> HIDE DEF row
    <2> QED BY <2>2, <2>3, RowReplaced DEF IInv
  <1>4. TypeOK'
    BY <1>1, <1>3 DEF IInv, TypeOK, Moves, Quarantine, history
  <1>5. HeldRows'
    BY <1>1, <1>2, <1>3 DEF IInv, HeldRows, Moves
  <1>6. Accepted' /\ DeliveredMeansSent' /\ Apart'
    BY <1>2, <1>3 DEF IInv, Accepted, DeliveredMeansSent, Apart, Quarantine, history
  <1>7. Undisturbed' /\ FlyingWasHanded'
    BY <1>2, <1>3 DEF IInv, HeldRows, Undisturbed, CardHasReason, Cards, Issued, FlyingWasHanded, Quarantine, history
  <1> QED BY <1>4, <1>5, <1>6, <1>7 DEF IInv

LEMMA MarkSound ==
  ASSUME IInv, NEW s \in Sweepers, NEW e \in Rows, Mark(s, e)
  PROVE  IInv'
  <1>1. Moves(s, "send", Held(s) \ {e})
    BY GoesBehind DEF IInv, Mark
  <1>2. /\ Held(s)' = Held(s) \ {e} /\ \A x : ~Marking(s, x)'
        /\ \A o \in Sweepers \ {s} : Held(o)' = Held(o) /\ \A x : Marking(o, x)' = Marking(o, x)
    BY <1>1, OthersStay
  <1>3. Marking(s, e) /\ e \in Held(s) /\ e \in Events /\ \A x : Marking(s, x) => x = e
    BY OnlyOldest, RowTyped DEF Mark, Marking, IsItem, IInv
  <1>4. /\ outbox' \in Seq(Row) /\ Len(outbox') = Len(outbox) /\ Rows' = Rows
        /\ outbox'[e].delivered
        /\ \A x \in Rows \ {e} : outbox'[x] = outbox[x]
    <2> DEFINE row == [outbox[e] EXCEPT !.delivered = TRUE]
    <2>1. outbox[e] \in Row
      BY RowTyped DEF IInv
    <2>2. row \in Row /\ row.delivered
      BY <2>1 DEF Row
    <2>3. outbox' = [outbox EXCEPT ![e] = row]
      BY DEF Mark
    <2> HIDE DEF row
    <2> QED BY <2>2, <2>3, RowReplaced DEF IInv
  <1>5. TypeOK'
    BY <1>1, <1>4 DEF IInv, TypeOK, Moves, Mark, history
  <1>6. HeldRows'
    BY <1>1, <1>2, <1>4 DEF IInv, HeldRows, Moves
  <1>7. Accepted' /\ Apart'
    BY <1>2 DEF IInv, Accepted, Apart, Mark, history
  <1>8. DeliveredMeansSent'
    BY <1>3, <1>4 DEF IInv, Accepted, DeliveredMeansSent, Mark, history
  <1>9. \A x \in Events \ disturbed : \A o \in Sweepers : x \in Held(o)' => x # e
    BY <1>2, <1>3 DEF IInv, Apart
  <1>10. Undisturbed' /\ FlyingWasHanded'
    BY <1>2, <1>3, <1>4, <1>9
      DEF IInv, HeldRows, Undisturbed, CardHasReason, Cards, Issued, FlyingWasHanded, Mark, history
  <1> QED BY <1>5, <1>6, <1>7, <1>8, <1>10 DEF IInv

\* A card goes out: to Telegram, or to the loop of the bot.
Gone(e) ==
  /\ sent' \in [Events -> Nat] /\ flying' \in [Events -> Nat] /\ handed' \subseteq Events
  /\ Cards(e)' = Cards(e) + 1 /\ (sent'[e] > 0 \/ e \in handed')
  /\ \A x \in Events \ {e} : sent'[x] = sent[x] /\ flying'[x] = flying[x]
  /\ handed \subseteq handed' /\ (flying'[e] > 0 => e \in handed')
  /\ Issued' = Issued \cup {e} /\ \A x \in Events : sent[x] > 0 => sent'[x] > 0

LEMMA GoneSound ==
  ASSUME IInv, NEW s \in Sweepers, NEW e \in Rows, Sending(s, e), Gone(e),
         sweeper' = [sweeper EXCEPT ![s].pc = "mark"],
         UNCHANGED <<outbox, botUp, faults, disturbed>>
  PROVE  IInv'
  <1>1. Moves(s, "mark", Held(s))
    BY GoesTo DEF IInv
  <1>2. /\ Held(s)' = Held(s) /\ Marking(s, e)' /\ \A x : ~Marking(s, x)
        /\ \A x : Marking(s, x)' => x \in Held(s) /\ IsItem(s, x)
        /\ \A o \in Sweepers \ {s} : Held(o)' = Held(o) /\ \A x : Marking(o, x)' = Marking(o, x)
    BY <1>1 DEF Moves, Held, Marking, IsItem, Sending
  <1>3. \A x : Marking(s, x)' => x = e
    <2> SUFFICES ASSUME NEW x, Marking(s, x)' PROVE x = e
      OBVIOUS
    <2>1. e \in Held(s) /\ x \in Held(s) /\ Held(s) \subseteq Rows
      BY <1>2 DEF Sending, IsItem, IInv, HeldRows
    <2>2. e \in Nat /\ x \in Nat
      BY <2>1 DEF IInv, TypeOK, Rows
    <2>3. e <= x /\ x <= e
      BY <1>2, <2>1 DEF IsItem, Sending
    <2> QED BY <2>2, <2>3
  <1>4. TypeOK'
    BY <1>1 DEF IInv, TypeOK, Moves, Gone
  <1>5. HeldRows'
    BY <1>1, <1>2 DEF IInv, HeldRows, Moves, Rows
  <1>6. Accepted' /\ Apart'
    BY <1>2, <1>3 DEF IInv, Accepted, Apart, Gone
  <1>7. DeliveredMeansSent'
    BY RowTyped DEF IInv, DeliveredMeansSent, Rows, Gone
  <1>8. ASSUME NEW x \in Events \ disturbed', x # e
        PROVE  CardHasReason(x)'
    BY <1>2, <1>8 DEF IInv, Undisturbed, CardHasReason, Cards, Rows, Gone
  <1>9. e \in Events \ disturbed' => CardHasReason(e)'
    <2> SUFFICES ASSUME e \in Events, e \notin disturbed PROVE CardHasReason(e)'
      OBVIOUS
    <2>1. Cards(e) = 0 /\ CardHasReason(e)
      BY NotYetSent DEF IInv, Undisturbed
    <2>2. Cards(e)' = 1
      BY <2>1 DEF Gone
    <2> QED BY <1>2, <2>1, <2>2 DEF CardHasReason, Rows
  <1>10. Undisturbed' /\ FlyingWasHanded'
    <2>1. FlyingWasHanded'
      BY DEF FlyingWasHanded, IInv, Gone
    <2> QED BY <1>8, <1>9, <2>1 DEF Undisturbed
  <1> QED BY <1>4, <1>5, <1>6, <1>7, <1>10 DEF IInv

LEMMA HandToBotGoes ==
  ASSUME IInv, NEW s \in Sweepers, NEW e \in Rows, HandToBot(s, e)
  PROVE  Gone(e)
  <1>1. e \in Events /\ sent[e] \in Nat /\ flying[e] \in Nat
    BY RowTyped DEF IInv
  <1>2. /\ flying' \in [Events -> Nat] /\ flying'[e] = flying[e] + 1
        /\ \A x \in Events \ {e} : flying'[x] = flying[x]
    BY <1>1 DEF IInv, TypeOK, HandToBot
  <1>3. handed' = handed \cup {e} /\ sent' = sent
    BY DEF HandToBot
  <1>4. Cards(e)' = Cards(e) + 1
    BY <1>1, <1>2, <1>3 DEF Cards
  <1>5. Issued' = Issued \cup {e}
    BY <1>1, <1>3 DEF Issued
  <1> QED BY <1>1, <1>2, <1>3, <1>4, <1>5 DEF IInv, TypeOK, Gone

LEMMA PostGoes ==
  ASSUME IInv, NEW s \in Sweepers, NEW e \in Rows, Post(s, e) \/ PostUnanswered(s, e)
  PROVE  Gone(e)
  <1>1. e \in Events /\ sent[e] \in Nat /\ flying[e] \in Nat
    BY RowTyped DEF IInv
  <1>2. /\ sent' \in [Events -> Nat] /\ sent'[e] = sent[e] + 1
        /\ \A x \in Events \ {e} : sent'[x] = sent[x]
    <2>1. sent' = [sent EXCEPT ![e] = @ + 1]
      BY DEF Post, PostUnanswered
    <2>2. sent \in [Events -> Nat]
      BY DEF IInv, TypeOK
    <2> QED BY <1>1, <2>1, <2>2
  <1>3. Issued' = Issued \cup {e}
    BY <1>1, <1>2 DEF Issued, Post, PostUnanswered, FaultAt, history
  <1>4. flying' = flying /\ handed' = handed /\ (flying[e] > 0 => e \in handed)
    BY <1>1 DEF Post, PostUnanswered, FaultAt, history, IInv, FlyingWasHanded
  <1>5. \A x \in Events : sent[x] > 0 => sent'[x] > 0
    BY <1>1, <1>2
  <1>6. Cards(e)' = Cards(e) + 1 /\ sent'[e] > 0
    BY <1>1, <1>2, <1>4 DEF Cards
  <1> QED BY <1>2, <1>3, <1>4, <1>5, <1>6 DEF IInv, TypeOK, Gone

LEMMA IssuingSound ==
  ASSUME IInv, NEW s \in Sweepers, NEW e \in Rows, HandToBot(s, e) \/ Post(s, e)
  PROVE  IInv'
  <1>1. Gone(e)
    BY HandToBotGoes, PostGoes
  <1> QED BY <1>1, GoneSound DEF HandToBot, Post, history

-----------------------------------------------------------------------------
(***************************************************************************)
(* The loop of the bot, and processes that end.                            *)
(***************************************************************************)
LEMMA StartBotSound ==
  ASSUME IInv, StartBot
  PROVE  IInv'
  BY DEF StartBot, IInv, TypeOK, HeldRows, Accepted, DeliveredMeansSent, Apart, Undisturbed,
         CardHasReason, Cards, Issued, FlyingWasHanded, Marking, IsItem, Held, Rows, history

\* No card is added, and whatever a sweep lets go of is disturbed.
Fades(E) ==
  /\ sent' \in [Events -> Nat] /\ flying' \in [Events -> Nat]
  /\ \A e \in Events : Cards(e)' <= Cards(e) /\ flying'[e] <= flying[e]
  /\ Issued' = Issued /\ handed' = handed /\ disturbed' = disturbed \cup E /\ disturbed' \subseteq Events
  /\ faults' \in 0..MaxFaults /\ botUp' \in BOOLEAN /\ outbox' = outbox
  /\ sweeper' \in [Sweepers -> SweepState]
  /\ \A s \in Sweepers : sweeper'[s] = sweeper[s] \/ (sweeper'[s] = Idle /\ Held(s) \subseteq E)

LEMMA FadeSound ==
  ASSUME IInv, NEW E \in SUBSET Events, Fades(E)
  PROVE  IInv'
  <1>1. \A s \in Sweepers :
          /\ Held(s)' \subseteq Held(s) /\ \A x : Marking(s, x)' => Marking(s, x)
          /\ \A x \in Events \ E : Marking(s, x) => Marking(s, x)'
          /\ sweeper'[s].pc \in {"idle", "fetch"} => Held(s)' = {}
    <2> SUFFICES ASSUME NEW s \in Sweepers
                 PROVE  /\ Held(s)' \subseteq Held(s) /\ \A x : Marking(s, x)' => Marking(s, x)
                        /\ \A x \in Events \ E : Marking(s, x) => Marking(s, x)'
                        /\ sweeper'[s].pc \in {"idle", "fetch"} => Held(s)' = {}
      OBVIOUS
    <2>1. CASE sweeper'[s] = sweeper[s]
      BY <2>1 DEF Held, Marking, IsItem, IInv, HeldRows
    <2>2. CASE sweeper'[s] = Idle /\ Held(s) \subseteq E
      BY <2>2 DEF Held, Marking, IsItem, Idle
    <2> QED BY <2>1, <2>2 DEF Fades
  <1>2. TypeOK'
    BY DEF IInv, TypeOK, Fades
  <1>3. HeldRows'
    BY <1>1 DEF IInv, HeldRows, Rows, Fades
  <1>4. Accepted' /\ Apart'
    BY <1>1 DEF IInv, Accepted, Apart, Issued, Fades
  <1>5. DeliveredMeansSent'
    BY RowTyped DEF IInv, DeliveredMeansSent, Rows, Issued, Fades
  <1>6. \A e \in Events : Cards(e) \in Nat /\ Cards(e)' \in Nat
    BY DEF Cards, IInv, TypeOK, Fades
  <1>7. Undisturbed' /\ FlyingWasHanded'
    <2>1. FlyingWasHanded'
      BY DEF IInv, TypeOK, FlyingWasHanded, Fades
    <2>2. Undisturbed'
      BY <1>1, <1>6 DEF IInv, Undisturbed, CardHasReason, Rows, Fades
    <2> QED BY <2>1, <2>2
  <1> QED BY <1>2, <1>3, <1>4, <1>5, <1>7 DEF IInv

LEMMA LandFades ==
  ASSUME IInv, NEW e \in Rows, Land(e)
  PROVE  Fades({})
  <1>1. e \in Events /\ sent[e] \in Nat /\ flying[e] \in Nat /\ flying[e] > 0
    BY RowTyped DEF IInv, Land
  <1>2. /\ flying' \in [Events -> Nat] /\ flying'[e] = flying[e] - 1
        /\ sent' \in [Events -> Nat] /\ sent'[e] = sent[e] + 1
        /\ \A x \in Events \ {e} : flying'[x] = flying[x] /\ sent'[x] = sent[x]
    BY <1>1 DEF IInv, TypeOK, Land
  <1>3. \A x \in Events : Cards(x)' <= Cards(x) /\ flying'[x] <= flying[x]
    <2>1. \A x \in Events : sent[x] \in Nat /\ flying[x] \in Nat
      BY DEF IInv, TypeOK
    <2>2. Cards(e)' <= Cards(e)
      BY <1>1, <1>2 DEF Cards
    <2>3. \A x \in Events \ {e} : Cards(x)' <= Cards(x)
      BY <1>2, <2>1 DEF Cards
    <2> QED BY <1>1, <1>2, <2>1, <2>2, <2>3
  <1>4. Issued' = Issued
    BY <1>1, <1>2 DEF Issued, FlyingWasHanded, IInv, Land, history
  <1> QED BY <1>2, <1>3, <1>4 DEF IInv, TypeOK, Land, Fades, history

LEMMA LandFailsFades ==
  ASSUME IInv, NEW e \in Rows, LandFails(e)
  PROVE  Fades({})
  <1>1. e \in Events /\ sent[e] \in Nat /\ flying[e] \in Nat /\ flying[e] > 0
    BY RowTyped DEF IInv, LandFails
  <1>2. /\ faults' \in 0..MaxFaults /\ handed' = handed
        /\ disturbed' = disturbed \cup {} /\ disturbed' \subseteq Events
    <2>1. CASE UNCHANGED <<faults, history>>
      BY <2>1 DEF IInv, TypeOK, history
    <2>2. CASE FaultAt({})
      BY <2>2, FaultTyped DEF IInv
    <2> QED BY <2>1, <2>2 DEF LandFails
  <1>3. /\ flying' \in [Events -> Nat] /\ flying'[e] = flying[e] - 1 /\ sent' = sent
        /\ \A x \in Events \ {e} : flying'[x] = flying[x]
    BY <1>1 DEF IInv, TypeOK, LandFails
  <1>4. \A x \in Events : Cards(x)' <= Cards(x) /\ flying'[x] <= flying[x]
    <2>1. \A x \in Events : sent[x] \in Nat /\ flying[x] \in Nat
      BY DEF IInv, TypeOK
    <2>2. Cards(e)' <= Cards(e)
      BY <1>1, <1>3 DEF Cards
    <2>3. \A x \in Events \ {e} : Cards(x)' <= Cards(x)
      BY <1>3, <2>1 DEF Cards
    <2> QED BY <1>1, <1>3, <2>1, <2>2, <2>3
  <1> QED BY <1>2, <1>3, <1>4 DEF Issued, IInv, TypeOK, LandFails, Fades


\* The loop stops with the cards that it holds.

LEMMA FlyingLost ==
  ASSUME TypeOK, flying' = [e \in Events |-> 0], sent' = sent
  PROVE  /\ flying' \in [Events -> Nat] /\ sent' \in [Events -> Nat]
         /\ \A e \in Events : Cards(e)' <= Cards(e) /\ flying'[e] <= flying[e]
  BY DEF TypeOK, Cards

LEMMA StopBotFades ==
  ASSUME IInv, StopBot
  PROVE  Fades({})
  <1>1. /\ faults' \in 0..MaxFaults /\ handed' = handed
        /\ disturbed' = disturbed \cup {} /\ disturbed' \subseteq Events
    BY FaultTyped DEF IInv, StopBot
  <1> QED BY <1>1, FlyingLost DEF IInv, TypeOK, Issued, StopBot, Fades

LEMMA EngineDiesFades ==
  ASSUME IInv, EngineDies
  PROVE  \E E \in SUBSET Events : Fades(E)
  <1> DEFINE E == UNION {Held(s) : s \in Engine}
  <1>1. E \in SUBSET Events
    BY RowTyped DEF IInv, HeldRows, Sweepers
  <1>2. \A s \in Engine : Held(s) \subseteq E
    OBVIOUS
  <1>3. FaultAt(E)
    BY DEF EngineDies
  <1> HIDE DEF E
  <1>4. /\ faults' \in 0..MaxFaults /\ handed' = handed
        /\ disturbed' = disturbed \cup E /\ disturbed' \subseteq Events
    BY <1>1, <1>3, FaultTyped DEF IInv
  <1>5. /\ sweeper' \in [Sweepers -> SweepState]
        /\ \A s \in Sweepers : sweeper'[s] = IF s \in Engine THEN Idle ELSE sweeper[s]
    BY DEF EngineDies, IInv, TypeOK, Idle, SweepState, MaxAttempts
  <1>6. Fades(E)
    BY <1>2, <1>4, <1>5, FlyingLost DEF IInv, TypeOK, Issued, EngineDies, Fades
  <1> QED BY <1>1, <1>6

\* One sweeper ends.
LEMMA EndFades ==
  ASSUME IInv, NEW s \in Sweepers, FaultAt(Held(s)), sweeper' = [sweeper EXCEPT ![s] = Idle],
         UNCHANGED <<outbox, botUp, flying, sent>>
  PROVE  Held(s) \in SUBSET Events /\ Fades(Held(s))
  <1>1. Held(s) \in SUBSET Events
    BY RowTyped DEF IInv, HeldRows
  <1>2. /\ faults' \in 0..MaxFaults /\ handed' = handed
        /\ disturbed' = disturbed \cup Held(s) /\ disturbed' \subseteq Events
    BY <1>1, FaultTyped DEF IInv
  <1>3. /\ sweeper' \in [Sweepers -> SweepState]
        /\ \A o \in Sweepers : sweeper'[o] = IF o = s THEN Idle ELSE sweeper[o]
    BY StateTyped DEF IInv, TypeOK
  <1>4. \A e \in Events : Cards(e)' <= Cards(e) /\ flying'[e] <= flying[e]
    BY DEF IInv, TypeOK, Cards
  <1> QED BY <1>1, <1>2, <1>3, <1>4 DEF IInv, TypeOK, Issued, Fades

LEMMA FetchFailsFades ==
  ASSUME IInv, NEW s \in Sweepers, FetchFails(s)
  PROVE  \E E \in SUBSET Events : Fades(E)
  <1>1. Held(s) = {}
    BY DEF IInv, HeldRows, FetchFails
  <1> QED BY <1>1, EndFades DEF FetchFails

LEMMA OtherDiesFades ==
  ASSUME IInv, NEW s \in Others, OtherDies(s)
  PROVE  \E E \in SUBSET Events : Fades(E)
  BY EndFades DEF OtherDies, Sweepers

\* The steps that issue no card, and mark no row.
LEMMA FadingSteps ==
  ASSUME IInv,
         \/ StopBot \/ EngineDies
         \/ \E e \in Rows : Land(e) \/ LandFails(e)
         \/ \E s \in Sweepers : FetchFails(s)
         \/ \E s \in Others : OtherDies(s)
  PROVE  \E E \in SUBSET Events : Fades(E)
  BY StopBotFades, EngineDiesFades, LandFades, LandFailsFades, FetchFailsFades, OtherDiesFades

-----------------------------------------------------------------------------
(***************************************************************************)
(* The theorems.                                                           *)
(***************************************************************************)
LEMMA StutterSound ==
  ASSUME IInv, UNCHANGED vars
  PROVE  IInv'
  BY DEF vars, history, IInv, TypeOK, HeldRows, Accepted, DeliveredMeansSent, Apart, Undisturbed,
         CardHasReason, Cards, Issued, FlyingWasHanded, Marking, IsItem, Held, Rows

LEMMA NextSound == IInv /\ [Next]_vars => IInv'
  <1> SUFFICES ASSUME IInv, [Next]_vars PROVE IInv'
    OBVIOUS
  <1>1. ASSUME NEW s \in Sweepers, NEW kind \in Kinds, Enqueue(s, kind) PROVE IInv'
    BY <1>1, EnqueueSound
  <1>2. ASSUME NEW s \in Sweepers, Scan(s) PROVE IInv'
    BY <1>2, ScanSound
  <1>3. ASSUME NEW s \in Sweepers, Step(s) PROVE IInv'
    BY <1>3, FetchSound, EndSweepSound, QuarantineSound, IssuingSound, MarkSound
      DEF Step
  <1>4. ASSUME NEW s \in Sweepers, Failure(s) PROVE IInv'
    BY <1>4, FadingSteps, FadeSound, PostRefusedSound, PostUnansweredSound, MarkFailsSound DEF Failure
  <1>5. CASE StartBot \/ StopBot \/ EngineDies
    BY <1>5, StartBotSound, FadingSteps, FadeSound
  <1>6. ASSUME NEW e \in Rows, Land(e) \/ LandFails(e) PROVE IInv'
    BY <1>6, FadingSteps, FadeSound
  <1>7. ASSUME NEW s \in Others, OtherDies(s) PROVE IInv'
    BY <1>7, FadingSteps, FadeSound
  <1>8. CASE UNCHANGED vars
    BY <1>8, StutterSound
  <1> QED BY <1>1, <1>2, <1>3, <1>4, <1>5, <1>6, <1>7, <1>8 DEF Next

LEMMA AlwaysSound == Spec => []IInv
  BY InitSound, NextSound, PTL DEF Spec

\* The rows, the sweeps and the counts of cards keep their types.
THEOREM OutboxTyped == Spec => []TypeOK
  <1>1. IInv => TypeOK
    BY DEF IInv
  <1> QED BY <1>1, AlwaysSound, PTL

\* outbox.py marks a row delivered only when its card arrived at Telegram,
\* or was handed to the loop of the bot.
THEOREM DeliveredWasSent == Spec => []DeliveredMeansSent
  <1>1. IInv => DeliveredMeansSent
    BY DEF IInv
  <1> QED BY <1>1, AlwaysSound, PTL

\* Without a fault, and without two sweeps that hold the same row, nobody
\* gets the card of a row twice, whatever sweepers there are.
THEOREM SecondCardIsExplained == Spec => []SecondCardNeedsCause
  <1>1. ASSUME IInv PROVE SecondCardNeedsCause
    BY <1>1, RowTyped DEF IInv, Undisturbed, CardHasReason, Cards, Issued, FlyingWasHanded, SecondCardNeedsCause
  <1> QED BY <1>1, AlwaysSound, PTL

-----------------------------------------------------------------------------
(***************************************************************************)
(* The refinement of CardQueue.  Whatever was issued can be read, and      *)
(* whatever was set aside cannot: no row is both.                          *)
(***************************************************************************)
KindsSound ==
  /\ \A e \in Issued : e \in Rows /\ outbox[e].kind # "malformed"
  /\ \A e \in Rows : outbox[e].quarantined => outbox[e].kind = "malformed"

\* A step that issues no card and changes no row implements Lose.
LEMMA LosesCards ==
  ASSUME IInv, KindsSound, flying' \in [Events -> Nat], sent' \in [Events -> Nat],
         UNCHANGED outbox, Issued' = Issued, disturbed \subseteq disturbed',
         \A e \in Events : Cards(e)' <= Cards(e)
  PROVE  KindsSound' /\ Queue!Next
  <1>1. KindsSound'
    BY DEF KindsSound, Rows
  <1>2. Queue!Lose
    <2>1. \A e \in Events : sent'[e] + flying'[e] \in Nat
                            /\ sent'[e] + flying'[e] <= sent[e] + flying[e]
      BY DEF Cards
    <2>2. UNCHANGED <<Rows, {e \in Rows : outbox[e].delivered},
                      {e \in Rows : outbox[e].quarantined}>>
      BY DEF Rows
    <2> QED BY <2>1, <2>2 DEF Queue!Lose
  <1> QED BY <1>1, <1>2 DEF Queue!Next

LEMMA FadeLoses ==
  ASSUME IInv, KindsSound, NEW E \in SUBSET Events, Fades(E)
  PROVE  KindsSound' /\ Queue!Next
  BY LosesCards DEF Fades

\* So does one that leaves rows and cards alone.
LEMMA NoCardMoves ==
  ASSUME IInv, KindsSound, UNCHANGED <<outbox, flying, sent, handed>>,
         disturbed \subseteq disturbed'
  PROVE  KindsSound' /\ Queue!Next
  <1>1. flying' \in [Events -> Nat] /\ sent' \in [Events -> Nat] /\ Issued' = Issued
    BY DEF IInv, TypeOK, Issued
  <1>2. \A e \in Events : Cards(e)' <= Cards(e)
    BY DEF IInv, TypeOK, Cards
  <1> QED BY <1>1, <1>2, LosesCards

\* A card that goes out implements Issue.
LEMMA GoneIssues ==
  ASSUME IInv, KindsSound, NEW s \in Sweepers, NEW e \in Rows, Sending(s, e), Gone(e),
         outbox[e].kind # "malformed", UNCHANGED outbox, disturbed \subseteq disturbed'
  PROVE  KindsSound' /\ Queue!Next
  <1>1. e \in Events
    BY RowTyped DEF IInv
  <1>2. KindsSound'
    BY DEF KindsSound, Rows, Gone
  <1>3. ~outbox[e].quarantined
    BY DEF KindsSound
  <1>4. e \in Issued \/ outbox[e].delivered => e \in disturbed
    BY NotYetSent
  <1>5. [x \in Events |-> sent'[x] + flying'[x]]
          = [[x \in Events |-> sent[x] + flying[x]] EXCEPT ![e] = @ + 1]
    BY <1>1 DEF Gone, Cards
  <1>6. UNCHANGED <<Rows, {x \in Rows : outbox[x].delivered},
                    {x \in Rows : outbox[x].quarantined}>>
    BY DEF Rows
  <1>7. Queue!Issue(e)
    BY <1>3, <1>4, <1>5, <1>6 DEF Queue!Issue, Gone
  <1> QED BY <1>1, <1>2, <1>7 DEF Queue!Next

LEMMA EnqueueEnqueues ==
  ASSUME IInv, KindsSound, NEW s \in Sweepers, NEW kind \in Kinds, Enqueue(s, kind)
  PROVE  KindsSound' /\ Queue!Next
  <1> DEFINE e == Len(outbox) + 1
  <1>1. outbox \in Seq(Row) /\ Len(outbox) < MaxEvents /\ outbox' = Append(outbox, NewRow(kind))
    BY DEF IInv, TypeOK, Enqueue
  <1>2. /\ e \in Events \ Rows /\ Rows' = Rows \cup {e}
        /\ \A x \in Rows : outbox'[x] = outbox[x]
        /\ outbox'[e] = NewRow(kind)
    BY <1>1, OutboxBound DEF Rows, Events
  <1>3. ~outbox'[e].delivered /\ ~outbox'[e].quarantined
    BY <1>2 DEF NewRow
  <1>4. UNCHANGED <<sent, flying, handed, disturbed, Issued>>
    BY DEF Enqueue, history, Issued
  <1> HIDE DEF e
  <1>5. UNCHANGED <<{x \in Rows : outbox[x].delivered}, {x \in Rows : outbox[x].quarantined}>>
    BY <1>2, <1>3
  <1>6. KindsSound'
    BY <1>2, <1>3, <1>4 DEF KindsSound
  <1>7. Queue!Enqueue(e)
    BY <1>2, <1>4, <1>5 DEF Queue!Enqueue
  <1> QED BY <1>2, <1>4, <1>6, <1>7 DEF Queue!Next

LEMMA MarkDelivers ==
  ASSUME IInv, KindsSound, NEW s \in Sweepers, NEW e \in Rows, Mark(s, e)
  PROVE  KindsSound' /\ Queue!Next
  <1>1. e \in Events /\ outbox[e] \in Row /\ e \in Issued
    BY RowTyped DEF IInv, Accepted, Marking, Mark, Issued
  <1>2. /\ Rows' = Rows /\ outbox'[e].delivered
        /\ outbox'[e].kind = outbox[e].kind /\ outbox'[e].quarantined = outbox[e].quarantined
        /\ \A x \in Rows \ {e} : outbox'[x] = outbox[x]
    <2> DEFINE row == [outbox[e] EXCEPT !.delivered = TRUE]
    <2>1. /\ row \in Row /\ row.delivered
          /\ row.kind = outbox[e].kind /\ row.quarantined = outbox[e].quarantined
      BY <1>1 DEF Row
    <2>2. outbox' = [outbox EXCEPT ![e] = row]
      BY DEF Mark
    <2> HIDE DEF row
    <2> QED BY <2>1, <2>2, RowReplaced DEF IInv
  <1>3. UNCHANGED <<sent, flying, handed, disturbed, Issued>>
    BY DEF Mark, history, Issued
  <1>4. KindsSound'
    BY <1>2, <1>3 DEF KindsSound
  <1>5. /\ {x \in Rows : outbox[x].delivered}' = {x \in Rows : outbox[x].delivered} \cup {e}
        /\ UNCHANGED {x \in Rows : outbox[x].quarantined}
    BY <1>2
  <1>6. Queue!Deliver(e)
    BY <1>1, <1>2, <1>3, <1>5 DEF Queue!Deliver
  <1> QED BY <1>1, <1>3, <1>4, <1>6 DEF Queue!Next

LEMMA QuarantineSetsAside ==
  ASSUME IInv, KindsSound, NEW s \in Sweepers, NEW e \in Rows, Quarantine(s, e)
  PROVE  KindsSound' /\ Queue!Next
  <1>1. e \in Events /\ outbox[e] \in Row /\ outbox[e].kind = "malformed"
    BY RowTyped DEF IInv, Quarantine
  <1>2. e \notin Issued /\ ~outbox[e].delivered
    BY <1>1 DEF KindsSound, Issued, IInv, DeliveredMeansSent
  <1>3. /\ Rows' = Rows /\ outbox'[e].quarantined
        /\ outbox'[e].kind = outbox[e].kind /\ outbox'[e].delivered = outbox[e].delivered
        /\ \A x \in Rows \ {e} : outbox'[x] = outbox[x]
    <2> DEFINE row == [outbox[e] EXCEPT !.quarantined = TRUE]
    <2>1. /\ row \in Row /\ row.quarantined
          /\ row.kind = outbox[e].kind /\ row.delivered = outbox[e].delivered
      BY <1>1 DEF Row
    <2>2. outbox' = [outbox EXCEPT ![e] = row]
      BY DEF Quarantine
    <2> HIDE DEF row
    <2> QED BY <2>1, <2>2, RowReplaced DEF IInv
  <1>4. UNCHANGED <<sent, flying, handed, disturbed, Issued>>
    BY DEF Quarantine, history, Issued
  <1>5. KindsSound'
    BY <1>1, <1>3, <1>4 DEF KindsSound
  <1>6. /\ {x \in Rows : outbox[x].quarantined}' = {x \in Rows : outbox[x].quarantined} \cup {e}
        /\ UNCHANGED {x \in Rows : outbox[x].delivered}
    BY <1>3
  <1>7. Queue!SetAside(e)
    BY <1>2, <1>3, <1>4, <1>6 DEF Queue!SetAside
  <1> QED BY <1>1, <1>4, <1>5, <1>7 DEF Queue!Next

LEMMA NextImplements == IInv /\ KindsSound /\ [Next]_vars => KindsSound' /\ [Queue!Next]_(Queue!vars)
  <1> SUFFICES ASSUME IInv, KindsSound, [Next]_vars PROVE KindsSound' /\ Queue!Next
    OBVIOUS
  <1> DEFINE Goal == KindsSound' /\ Queue!Next
  <1>1. ASSUME NEW s \in Sweepers, NEW kind \in Kinds, Enqueue(s, kind) PROVE Goal
    BY <1>1, EnqueueEnqueues
  <1>2. ASSUME NEW s \in Sweepers, Scan(s) \/ Fetch(s) \/ EndSweep(s) PROVE Goal
    BY <1>2, NoCardMoves DEF Scan, Fetch, EndSweep, history
  <1>3. ASSUME NEW s \in Sweepers, NEW e \in Rows, Quarantine(s, e) \/ Mark(s, e) PROVE Goal
    BY <1>3, QuarantineSetsAside, MarkDelivers
  <1>4. ASSUME NEW s \in Sweepers, NEW e \in Rows,
               HandToBot(s, e) \/ Post(s, e) \/ PostUnanswered(s, e)
        PROVE  Goal
    <2>1. Gone(e)
      BY <1>4, HandToBotGoes, PostGoes
    <2>2. /\ Sending(s, e) /\ outbox[e].kind # "malformed"
          /\ UNCHANGED outbox /\ disturbed \subseteq disturbed'
      BY <1>4 DEF HandToBot, Post, PostUnanswered, FaultAt, history
    <2> QED BY <2>1, <2>2, GoneIssues
  <1>5. ASSUME NEW s \in Sweepers, NEW e \in Rows, PostRefused(s, e) \/ MarkFails(s, e) PROVE Goal
    BY <1>5, NoCardMoves DEF PostRefused, MarkFails, FaultAt
  <1>6. ASSUME StartBot \/ UNCHANGED vars PROVE Goal
    BY <1>6, NoCardMoves DEF StartBot, vars, history
  <1>7. ASSUME \/ StopBot \/ EngineDies
               \/ \E e \in Rows : Land(e) \/ LandFails(e)
               \/ \E s \in Sweepers : FetchFails(s)
               \/ \E s \in Others : OtherDies(s)
        PROVE  Goal
    BY <1>7, FadingSteps, FadeLoses
  <1> HIDE DEF Goal
  <1>8. ASSUME NEW s \in Sweepers, Step(s) PROVE Goal
    BY <1>2, <1>3, <1>4, <1>8 DEF Step
  <1>9. ASSUME NEW s \in Sweepers, Failure(s) PROVE Goal
    BY <1>4, <1>5, <1>7, <1>9 DEF Failure
  <1>10. Goal
    BY <1>1, <1>2, <1>6, <1>7, <1>8, <1>9 DEF Next
  <1> QED BY <1>10 DEF Goal

LEMMA InitImplements == Init => KindsSound /\ Queue!Init
  BY DEF Init, KindsSound, Issued, Rows, Queue!Init

\* Whatever sweepers, faults and restarts there are, the outbox does what
\* CardQueue promises: each row's card is issued once, unless two sweeps had
\* the row at once or a fault hit it.
THEOREM OutboxImplementsQueue == Spec => ImplementsCardQueue
  <1>1. Init => Queue!Init
    BY InitImplements
  <1>2. Spec => []KindsSound
    <2>1. IInv /\ KindsSound /\ [Next]_vars => KindsSound'
      BY NextImplements
    <2> QED BY <2>1, InitImplements, AlwaysSound, PTL DEF Spec
  <1>3. IInv /\ KindsSound /\ [Next]_vars => [Queue!Next]_(Queue!vars)
    BY NextImplements
  <1> QED BY <1>1, <1>2, <1>3, AlwaysSound, PTL DEF Spec, ImplementsCardQueue, Queue!Spec

=============================================================================
