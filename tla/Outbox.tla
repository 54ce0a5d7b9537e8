------------------------------- MODULE Outbox -------------------------------
(***************************************************************************)
(* The notification outbox: app/outbox.py and the two ways in which        *)
(* telegram_bot.send_proposal_to_chat sends a card.                        *)
(*                                                                         *)
(* Sweepers are the threads that call deliver_pending: scans, and the runs *)
(* of single symbols once their card is enqueued.  Those of the engine     *)
(* process hand the card to the event loop of the Telegram bot while it    *)
(* runs, and do not wait for the outcome; all others post it over HTTP.    *)
(* Telegram itself is the count of messages that arrived.                  *)
(***************************************************************************)
EXTENDS Naturals, Sequences

CONSTANTS
  MaxEvents,   \* bound: rows that are enqueued
  Engine,      \* sweepers of the process that runs the bot
  Others,      \* sweepers of the dashboard and of the command line
  MaxFaults    \* bound: lost answers, refusals, failed statements, ended processes

ASSUME OutboxActors == Engine \cap Others = {}
ASSUME OutboxBound == MaxEvents \in Nat /\ MaxFaults \in Nat

VARIABLES
  outbox,     \* notification_outbox in the order of created_at: kind, and the two
              \* other time stamps as flags; the place of a row stands for its id
  sweeper,    \* [thread -> where its deliver_pending is]
  botUp,      \* the loop of the bot is running
  flying,     \* [event -> its sends handed to that loop and not yet made]
  sent,       \* [event -> messages that arrived]
  faults,
  handed,     \* history: events ever handed to that loop
  disturbed   \* history: events taken by two sweeps at once, or hit by a fault

history == <<handed, disturbed>>
vars == <<outbox, sweeper, botUp, flying, sent, faults, history>>

Sweepers == Engine \cup Others
Events == 1..MaxEvents
\* Markup that Telegram cannot parse (HTTP 400) comes with the words of a
\* thesis; a malformed payload cannot be decoded, or not be made into a card.
Kinds == {"plain", "markup", "malformed"}
MaxAttempts == 3
Row == [kind : Kinds, delivered : BOOLEAN, quarantined : BOOLEAN]
SweepState == [pc : {"idle", "fetch", "send", "mark"}, todo : SUBSET Events,
               attempt : 1..MaxAttempts]
Idle == [pc |-> "idle", todo |-> {}, attempt |-> 1]

Init ==
  /\ outbox = <<>>
  /\ sweeper = [s \in Sweepers |-> Idle]
  /\ botUp = FALSE
  /\ flying = [e \in Events |-> 0] /\ sent = [e \in Events |-> 0]
  /\ faults = 0 /\ handed = {} /\ disturbed = {}

Rows == DOMAIN outbox
IsPending(e) == ~outbox[e].delivered /\ ~outbox[e].quarantined
Held(s) == sweeper[s].todo
\* The oldest row that the sweep has left.
IsItem(s, e) == e \in Held(s) /\ \A o \in Held(s) : e <= o
Sending(s, e) == sweeper[s].pc = "send" /\ IsItem(s, e)
ViaBot(s) == s \in Engine /\ botUp
\* The sweep goes on behind e.
Behind(s, e) == [pc |-> "send", todo |-> Held(s) \ {e}, attempt |-> 1]
FaultAt(E) ==
  /\ faults < MaxFaults /\ faults' = faults + 1
  /\ disturbed' = disturbed \cup E /\ UNCHANGED handed

-----------------------------------------------------------------------------
NewRow(kind) == [kind |-> kind, delivered |-> FALSE, quarantined |-> FALSE]

\* enqueue; the thread goes on to deliver what is pending.
Enqueue(s, kind) ==
  /\ sweeper[s].pc = "idle" /\ Len(outbox) < MaxEvents
  /\ outbox' = Append(outbox, NewRow(kind))
  /\ sweeper' = [sweeper EXCEPT ![s].pc = "fetch"]
  /\ UNCHANGED <<botUp, flying, sent, faults, history>>

\* A scan begins.
Scan(s) ==
  /\ sweeper[s].pc = "idle"
  /\ sweeper' = [sweeper EXCEPT ![s].pc = "fetch"]
  /\ UNCHANGED <<outbox, botUp, flying, sent, faults, history>>

\* Mutant: a sweep takes rows it has delivered before.
PendingAll == Rows

\* pending(): the undelivered rows.
Pending == {e \in Rows : IsPending(e)}

Fetch(s) ==
  /\ sweeper[s].pc = "fetch"
  /\ sweeper' = [sweeper EXCEPT ![s] = [pc |-> "send", todo |-> Pending, attempt |-> 1]]
  /\ disturbed' = disturbed \cup
       {e \in Pending : \E o \in Sweepers \ {s} : e \in Held(o)}
  /\ UNCHANGED <<outbox, botUp, flying, sent, faults, handed>>

\* The statement raises, out of deliver_pending and its caller.
FetchFails(s) ==
  /\ sweeper[s].pc = "fetch"
  /\ FaultAt({})
  /\ sweeper' = [sweeper EXCEPT ![s] = Idle]
  /\ UNCHANGED <<outbox, botUp, flying, sent>>

EndSweep(s) ==
  /\ sweeper[s].pc = "send" /\ Held(s) = {}
  /\ sweeper' = [sweeper EXCEPT ![s] = Idle]
  /\ UNCHANGED <<outbox, botUp, flying, sent, faults, history>>

\* Mutant: a payload that cannot be decoded ends the sweep.
QuarantineRaises(s, e) ==
  /\ Sending(s, e) /\ outbox[e].kind = "malformed"
  /\ sweeper' = [sweeper EXCEPT ![s] = Idle]
  /\ UNCHANGED <<outbox, botUp, flying, sent, faults, history>>

\* A payload that cannot be decoded is set aside, and the sweep goes on.
Quarantine(s, e) ==
  /\ Sending(s, e) /\ outbox[e].kind = "malformed"
  /\ outbox' = [outbox EXCEPT ![e].quarantined = TRUE]
  /\ sweeper' = [sweeper EXCEPT ![s] = Behind(s, e)]
  /\ UNCHANGED <<botUp, flying, sent, faults, history>>

\* The card is handed to the loop of the bot; that counts as sent.
HandToBot(s, e) ==
  /\ Sending(s, e) /\ outbox[e].kind # "malformed" /\ ViaBot(s)
  /\ flying' = [flying EXCEPT ![e] = @ + 1] /\ handed' = handed \cup {e}
  /\ sweeper' = [sweeper EXCEPT ![s].pc = "mark"]
  /\ UNCHANGED <<outbox, botUp, sent, faults, disturbed>>

\* HTTP 200; bad markup is posted once more without the parse mode.
Post(s, e) ==
  /\ Sending(s, e) /\ outbox[e].kind # "malformed" /\ ~ViaBot(s)
  /\ sent' = [sent EXCEPT ![e] = @ + 1]
  /\ sweeper' = [sweeper EXCEPT ![s].pc = "mark"]
  /\ UNCHANGED <<outbox, botUp, flying, faults, history>>

\* Mutant: the sender's verdict is not looked at.
PostRefusedMarks(s, e) ==
  /\ Sending(s, e) /\ outbox[e].kind # "malformed" /\ ~ViaBot(s)
  /\ FaultAt({})
  /\ sweeper' = [sweeper EXCEPT ![s].pc = "mark"]
  /\ UNCHANGED <<outbox, botUp, flying, sent>>

\* Any other status, or no connection: the row waits for the next sweep.
PostRefused(s, e) ==
  /\ Sending(s, e) /\ outbox[e].kind # "malformed" /\ ~ViaBot(s)
  /\ FaultAt({})
  /\ sweeper' = [sweeper EXCEPT ![s] = Behind(s, e)]
  /\ UNCHANGED <<outbox, botUp, flying, sent>>

\* Mutant: one attempt too many.
CanRetryOnceMore(s) == sweeper[s].attempt <= MaxAttempts

CanRetry(s) == sweeper[s].attempt < MaxAttempts

\* The message arrives and its answer does not: network_retry posts it
\* again, and lets the exception out after the last attempt.
PostUnanswered(s, e) ==
  /\ Sending(s, e) /\ outbox[e].kind # "malformed" /\ ~ViaBot(s)
  /\ FaultAt({e})
  /\ sent' = [sent EXCEPT ![e] = @ + 1]
  /\ sweeper' = [sweeper EXCEPT ![s] =
       IF CanRetry(s) THEN [sweeper[s] EXCEPT !.attempt = @ + 1] ELSE Behind(s, e)]
  /\ UNCHANGED <<outbox, botUp, flying>>

Mark(s, e) ==
  /\ sweeper[s].pc = "mark" /\ IsItem(s, e)
  /\ outbox' = [outbox EXCEPT ![e].delivered = TRUE]
  /\ sweeper' = [sweeper EXCEPT ![s] = Behind(s, e)]
  /\ UNCHANGED <<botUp, flying, sent, faults, history>>

\* A statement that fails is logged, and the sweep goes on.
MarkFails(s, e) ==
  /\ sweeper[s].pc = "mark" /\ IsItem(s, e)
  /\ FaultAt({e})
  /\ sweeper' = [sweeper EXCEPT ![s] = Behind(s, e)]
  /\ UNCHANGED <<outbox, botUp, flying, sent>>

-----------------------------------------------------------------------------
(***************************************************************************)
(* The loop of the bot.                                                    *)
(***************************************************************************)
StartBot ==
  /\ Engine # {} /\ ~botUp
  /\ botUp' = TRUE
  /\ UNCHANGED <<outbox, sweeper, flying, sent, faults, history>>

Land(e) ==
  /\ flying[e] > 0 /\ outbox[e].kind = "plain"
  /\ flying' = [flying EXCEPT ![e] = @ - 1]
  /\ sent' = [sent EXCEPT ![e] = @ + 1]
  /\ UNCHANGED <<outbox, sweeper, botUp, faults, history>>

\* send_message raises; nobody looks at the future that holds the exception.
\* Bad markup always raises here: the bot does not post it again as text.
LandFails(e) ==
  /\ flying[e] > 0
  /\ IF outbox[e].kind = "markup" THEN UNCHANGED <<faults, history>> ELSE FaultAt({})
  /\ flying' = [flying EXCEPT ![e] = @ - 1]
  /\ UNCHANGED <<outbox, sweeper, botUp, sent>>

\* The loop stops, at shutdown or because polling failed, with what it holds.
StopBot ==
  /\ botUp
  /\ FaultAt({})
  /\ botUp' = FALSE /\ flying' = [e \in Events |-> 0]
  /\ UNCHANGED <<outbox, sweeper, sent>>

\* The engine, or another process, ends in the middle of what it does.
EngineDies ==
  /\ Engine # {}
  /\ FaultAt(UNION {Held(s) : s \in Engine})
  /\ sweeper' = [s \in Sweepers |-> IF s \in Engine THEN Idle ELSE sweeper[s]]
  /\ botUp' = FALSE /\ flying' = [e \in Events |-> 0]
  /\ UNCHANGED <<outbox, sent>>

OtherDies(s) ==
  /\ sweeper[s].pc # "idle"
  /\ FaultAt(Held(s))
  /\ sweeper' = [sweeper EXCEPT ![s] = Idle]
  /\ UNCHANGED <<outbox, botUp, flying, sent>>

Step(s) ==
  \/ Fetch(s) \/ EndSweep(s)
  \/ \E e \in Rows : Quarantine(s, e) \/ HandToBot(s, e) \/ Post(s, e) \/ Mark(s, e)

Failure(s) ==
  \/ FetchFails(s)
  \/ \E e \in Rows : PostRefused(s, e) \/ PostUnanswered(s, e) \/ MarkFails(s, e)

Next ==
  \/ \E s \in Sweepers, kind \in Kinds : Enqueue(s, kind)
  \/ \E s \in Sweepers : Scan(s) \/ Step(s) \/ Failure(s)
  \/ StartBot \/ StopBot \/ EngineDies
  \/ \E e \in Rows : Land(e) \/ LandFails(e)
  \/ \E s \in Others : OtherDies(s)

Spec == Init /\ [][Next]_vars
\* Scans are scheduled, and a sweep that has begun goes on.
FairSpec == Spec /\ \A s \in Sweepers : WF_vars(Scan(s) \/ Step(s))

-----------------------------------------------------------------------------
(***************************************************************************)
(* Properties.                                                             *)
(***************************************************************************)
TypeOK ==
  /\ outbox \in Seq(Row) /\ Len(outbox) <= MaxEvents
  /\ sweeper \in [Sweepers -> SweepState]
  /\ botUp \in BOOLEAN
  /\ flying \in [Events -> Nat] /\ sent \in [Events -> Nat]
  /\ faults \in 0..MaxFaults /\ handed \subseteq Events /\ disturbed \subseteq Events

\* outbox.py: "mark only confirmed sends as delivered".  True of the cards
\* that are posted over HTTP, whatever is refused, unanswered or swept twice.
DeliveredMeansSent ==
  \A e \in Rows : outbox[e].delivered => sent[e] > 0 \/ e \in handed

\* An operator gets a card twice only if two sweeps had it at the same time,
\* or an answer, a statement or a process failed while a sweep had it.
SecondCardNeedsCause == \A e \in Rows \ disturbed : sent[e] + flying[e] <= 1

\* The outbox implements CardQueue: a card is issued once, and again only where
\* two sweeps had its row at once or a fault hit it; only what was issued is
\* marked delivered, and only what never was is set aside.
Issued == handed \cup {e \in Events : sent[e] > 0}
Queue == INSTANCE CardQueue WITH
           Event <- Events,
           rows <- Rows,
           issued <- Issued,
           cards <- [e \in Events |-> sent[e] + flying[e]],
           delivered <- {e \in Rows : outbox[e].delivered},
           aside <- {e \in Rows : outbox[e].quarantined},
           broken <- disturbed
ImplementsCardQueue == Queue!Spec

\* A card is delivered or set aside in the end, whatever other rows hold and
\* however many sweeps fail, as long as they do not fail for ever.
CardSettles == \A e \in Events : (e \in Rows) ~> (e \in Rows /\ ~IsPending(e))

=============================================================================
