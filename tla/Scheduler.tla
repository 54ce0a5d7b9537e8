----------------------------- MODULE Scheduler -----------------------------
(***************************************************************************)
(* Database-backed schedules: app/scheduler_manager.py and the engine's    *)
(* registry sweep of app/main.py.                                          *)
(*                                                                         *)
(* The dashboard edits the scheduled_jobs table and asks for runs; every   *)
(* five seconds an engine copies the table into its in-memory APScheduler  *)
(* and works off the run requests.  Engines share the tables and nothing   *)
(* else; one engine never runs two sweeps at a time.  Every statement is a *)
(* transaction of its own, so each is a step.                              *)
(***************************************************************************)
EXTENDS Integers

CONSTANTS
  Ids,         \* schedule ids (bound: as many schedules as are ever created)
  Kinds,       \* the actions a schedule may name
  Defaults,    \* the actions of the schedules created on first use
  Triggers,    \* cron and interval definitions
  Requests,    \* run-request ids (bound: as many clicks on "run now")
  Engines,     \* engine processes
  Pages,       \* dashboard threads listing the schedules
  NoVal,       \* NULL, or a row that does not exist
  MaxEdits,    \* bound: creations, updates, switches and deletions
  MaxFires,    \* bound: jobs fired by their trigger
  MaxAborts    \* bound: sweeps and page loads that end early, engine crashes

ASSUME SchedulerBounds == MaxEdits \in Nat /\ MaxFires \in Nat /\ MaxAborts \in Nat
ASSUME SchedulerActors == Engines \cap Pages = {}
ASSUME DefaultsAreKinds == Defaults \subseteq Kinds /\ "user" \notin Defaults
ASSUME SchedulerNoVal ==
  /\ NoVal \notin Ids /\ NoVal \notin Requests /\ NoVal \notin Defaults
  /\ NoVal \notin [kind : Kinds, trigger : Triggers, enabled : BOOLEAN,
                  last : {"SUCCESS", "PARTIAL", "FAILED", NoVal}]
  /\ NoVal \notin [job : Ids, at : Nat,
                  status : {"PENDING", "RUNNING", "SUCCESS", "PARTIAL", "FAILED", "CANCELLED"}]

VARIABLES
  seeded,      \* the defaults_seeded row of scheduler_state exists
  jobs,        \* scheduled_jobs: [id -> row], NoVal when there is none
  requests,    \* schedule_run_requests: [request -> row], NoVal when there is none
  asked,       \* how many requests were inserted: the next requested_at
  clicks,      \* [request -> the schedule a click found before inserting the request]
  live,        \* [engine -> [id -> job in its APScheduler]]
  firing,      \* <<engine, id>>: jobs their trigger has started
  actor,       \* [engine or page -> where its sweep or page load is]
  bounds,      \* edits, fires and aborts so far
  origin,      \* history: [id -> the default it was created for, "user", or NoVal]
  ran,         \* history: [request -> how often its action was started]
  lost         \* history: requests whose claimer ended before closing them

tables == <<seeded, jobs, requests, asked>>
history == <<origin, ran, lost>>
vars == <<tables, clicks, live, firing, actor, bounds, history>>

Actors == Engines \cup Pages
RunStatus == {"SUCCESS", "PARTIAL", "FAILED"}
Closed == RunStatus \cup {"CANCELLED"}
Job == [kind : Kinds, trigger : Triggers, enabled : BOOLEAN, last : RunStatus \cup {NoVal}]
Request == [job : Ids, at : Nat, status : {"PENDING", "RUNNING"} \cup Closed]
LiveJob == [kind : Kinds, trigger : Triggers]
Pc == {"idle", "seed", "create", "read", "apply", "fetch", "claim", "look", "act",
       "finish", "stamp"}

\* left: defaults still to create; records: what list_schedules returned;
\* queue, cur, job, outcome: the requests of this sweep and the one in work.
Idle == [pc |-> "idle", left |-> {}, records |-> [i \in Ids |-> NoVal], queue |-> {},
         cur |-> NoVal, job |-> NoVal, outcome |-> NoVal]
ActorState ==
  [pc : Pc, left : SUBSET Defaults, records : [Ids -> Job \cup {NoVal}],
   queue : SUBSET Requests, cur : Requests \cup {NoVal}, job : Ids \cup {NoVal},
   outcome : Closed \cup {NoVal}]

NoJobs == [i \in Ids |-> NoVal]

Init ==
  /\ seeded = FALSE
  /\ jobs = NoJobs
  /\ requests = [r \in Requests |-> NoVal]
  /\ asked = 0
  /\ clicks = [r \in Requests |-> NoVal]
  /\ live = [e \in Engines |-> NoJobs]
  /\ firing = {}
  /\ actor = [x \in Actors |-> Idle]
  /\ bounds = [edits |-> 0, fires |-> 0, aborts |-> 0]
  /\ origin = [i \in Ids |-> NoVal]
  /\ ran = [r \in Requests |-> 0]
  /\ lost = {}

GoTo(x, pc) == actor' = [actor EXCEPT ![x].pc = pc]
End(x) == actor' = [actor EXCEPT ![x] = Idle]
Fresh(i) == origin[i] = NoVal
Exists(i) == jobs[i] # NoVal

\* create_schedule.
Insert(i, kind, trigger, enabled, from) ==
  /\ Fresh(i)
  /\ jobs' = [jobs EXCEPT ![i] = [kind |-> kind, trigger |-> trigger,
                                  enabled |-> enabled, last |-> NoVal]]
  /\ origin' = [origin EXCEPT ![i] = from]

-----------------------------------------------------------------------------
(***************************************************************************)
(* The dashboard's edits, each one statement.                              *)
(***************************************************************************)
Edit ==
  /\ bounds.edits < MaxEdits
  /\ bounds' = [bounds EXCEPT !.edits = @ + 1]
  /\ UNCHANGED <<seeded, requests, asked, clicks, live, firing, actor, ran, lost>>

CreateJob(i, kind, trigger, enabled) ==
  Edit /\ Insert(i, kind, trigger, enabled, "user")

UpdateJob(i, kind, trigger, enabled) ==
  /\ Edit /\ Exists(i)
  /\ jobs' = [jobs EXCEPT ![i] = [@ EXCEPT !.kind = kind, !.trigger = trigger,
                                           !.enabled = enabled]]
  /\ UNCHANGED origin

SetEnabled(i, enabled) ==
  /\ Edit /\ Exists(i)
  /\ jobs' = [jobs EXCEPT ![i] = [@ EXCEPT !.enabled = enabled]]
  /\ UNCHANGED origin

DeleteJob(i) ==
  /\ Edit /\ Exists(i)
  /\ jobs' = [jobs EXCEPT ![i] = NoVal]
  /\ UNCHANGED origin

\* request_run: the schedule is looked up, then the request is inserted; in
\* between the schedule may be deleted.
Click(r, i) ==
  /\ clicks[r] = NoVal /\ requests[r] = NoVal
  /\ Exists(i)
  /\ clicks' = [clicks EXCEPT ![r] = i]
  /\ UNCHANGED <<tables, live, firing, actor, bounds, history>>

InsertRequest(r) ==
  /\ clicks[r] # NoVal /\ requests[r] = NoVal
  /\ requests' = [requests EXCEPT ![r] =
                    [job |-> clicks[r], at |-> asked, status |-> "PENDING"]]
  /\ asked' = asked + 1
  /\ UNCHANGED <<seeded, jobs, clicks, live, firing, actor, bounds, history>>

-----------------------------------------------------------------------------
(***************************************************************************)
(* list_schedules: seed the defaults on first use, then read the table.    *)
(***************************************************************************)
Begin(x) ==
  /\ actor[x].pc = "idle"
  /\ GoTo(x, "seed")
  /\ UNCHANGED <<tables, clicks, live, firing, bounds, history>>

\* A page shows what it reads; an engine goes on with it.
AfterSeed(x) == IF x \in Engines THEN GoTo(x, "read") ELSE End(x)

\* Mutant: the number of rows the insert changed is not looked at.
SeedUnchecked(x) ==
  /\ actor[x].pc = "seed"
  /\ actor' = [actor EXCEPT ![x].pc = "create", ![x].left = Defaults]
  /\ seeded' = TRUE
  /\ UNCHANGED <<jobs, requests, asked, clicks, live, firing, bounds, history>>

\* INSERT ... ON CONFLICT DO NOTHING: only the caller whose insert changed a
\* row creates the defaults.
Seed(x) ==
  /\ actor[x].pc = "seed"
  /\ IF seeded
       THEN AfterSeed(x)
       ELSE actor' = [actor EXCEPT ![x].pc = "create", ![x].left = Defaults]
  /\ seeded' = TRUE
  /\ UNCHANGED <<jobs, requests, asked, clicks, live, firing, bounds, history>>

CreateDefault(x, d, i, trigger) ==
  /\ actor[x].pc = "create" /\ d \in actor[x].left
  /\ Insert(i, d, trigger, TRUE, d)
  /\ actor' = [actor EXCEPT ![x].left = @ \ {d}]
  /\ UNCHANGED <<seeded, requests, asked, clicks, live, firing, bounds, ran, lost>>

EndSeed(x) ==
  /\ actor[x].pc = "create" /\ actor[x].left = {}
  /\ AfterSeed(x)
  /\ UNCHANGED <<tables, clicks, live, firing, bounds, history>>

-----------------------------------------------------------------------------
(***************************************************************************)
(* reconcile_scheduler: the in-memory jobs are made to match the records   *)
(* that were read, which may have been edited since.                       *)
(***************************************************************************)
Read(e) ==
  /\ actor[e].pc = "read"
  /\ actor' = [actor EXCEPT ![e].pc = "apply", ![e].records = jobs]
  /\ UNCHANGED <<tables, clicks, live, firing, bounds, history>>

\* Mutant: a job that is there already is left as it is.
ReconciledOnce(current, record) ==
  IF record = NoVal \/ ~record.enabled THEN NoVal
  ELSE IF current # NoVal THEN current
  ELSE [kind |-> record.kind, trigger |-> record.trigger]

\* A disabled or deleted schedule loses its job; otherwise the job gets the
\* schedule's action and trigger, whether it is added, replaced or rescheduled.
Reconciled(current, record) ==
  IF record = NoVal \/ ~record.enabled THEN NoVal
  ELSE [kind |-> record.kind, trigger |-> record.trigger]

Apply(e) ==
  /\ actor[e].pc = "apply"
  /\ live' = [live EXCEPT ![e] =
                [i \in Ids |-> Reconciled(@[i], actor[e].records[i])]]
  /\ GoTo(e, "fetch")
  /\ UNCHANGED <<tables, clicks, firing, bounds, history>>

-----------------------------------------------------------------------------
(***************************************************************************)
(* run_pending_requests, at the end of the same sweep.                     *)
(***************************************************************************)
HasStatus(r, S) == requests[r] # NoVal /\ requests[r].status \in S
Pending == {r \in Requests : HasStatus(r, {"PENDING"})}
NextRequest(e, queue) ==
  IF queue = {} THEN End(e)
  ELSE actor' = [actor EXCEPT ![e] = [Idle EXCEPT !.pc = "claim", !.queue = queue]]

Fetch(e) ==
  /\ actor[e].pc = "fetch"
  /\ NextRequest(e, Pending)
  /\ UNCHANGED <<tables, clicks, live, firing, bounds, history>>

\* The requests of a sweep are taken in the order in which they were made.
Oldest(e, r) ==
  r \in actor[e].queue /\ \A q \in actor[e].queue : requests[r].at <= requests[q].at

Take(e, r) ==
  /\ requests' = [requests EXCEPT ![r] = [@ EXCEPT !.status = "RUNNING"]]
  /\ actor' = [actor EXCEPT ![e].pc = "look", ![e].cur = r, ![e].queue = @ \ {r}]

\* Mutant: a claim that does not ask for a pending request.
ClaimUnguarded(e, r) ==
  /\ actor[e].pc = "claim" /\ Oldest(e, r)
  /\ Take(e, r)
  /\ UNCHANGED <<seeded, jobs, asked, clicks, live, firing, bounds, history>>

\* UPDATE ... WHERE status = 'PENDING', and its rowcount.
Claim(e, r) ==
  /\ actor[e].pc = "claim" /\ Oldest(e, r)
  /\ IF r \in Pending
       THEN Take(e, r)
       ELSE NextRequest(e, actor[e].queue \ {r}) /\ UNCHANGED requests
  /\ UNCHANGED <<seeded, jobs, asked, clicks, live, firing, bounds, history>>

\* Mutant: a request whose schedule is gone keeps the initial status, SUCCESS.
LookTrusting(e) ==
  /\ actor[e].pc = "look"
  /\ LET i == requests[actor[e].cur].job IN
       actor' = IF Exists(i)
                  THEN [actor EXCEPT ![e].pc = "act", ![e].job = i]
                  ELSE [actor EXCEPT ![e].pc = "finish", ![e].outcome = "SUCCESS"]
  /\ UNCHANGED <<tables, clicks, live, firing, bounds, history>>

\* get_schedule: a schedule deleted since cancels the request.
Look(e) ==
  /\ actor[e].pc = "look"
  /\ LET i == requests[actor[e].cur].job IN
       actor' = IF Exists(i)
                  THEN [actor EXCEPT ![e].pc = "act", ![e].job = i]
                  ELSE [actor EXCEPT ![e].pc = "finish", ![e].outcome = "CANCELLED"]
  /\ UNCHANGED <<tables, clicks, live, firing, bounds, history>>

\* Mutant: the status an action returned is stored as it is.
ActUnmapped(e) ==
  /\ actor[e].pc = "act"
  /\ ran' = [ran EXCEPT ![actor[e].cur] = @ + 1]
  /\ \E outcome \in RunStatus \cup {"ERROR"} :
       actor' = [actor EXCEPT ![e].pc = "finish", ![e].outcome = outcome]
  /\ UNCHANGED <<tables, clicks, live, firing, bounds, origin, lost>>

\* The action returns a status or raises.
Act(e) ==
  /\ actor[e].pc = "act"
  /\ ran' = [ran EXCEPT ![actor[e].cur] = @ + 1]
  /\ \E outcome \in RunStatus :
       actor' = [actor EXCEPT ![e].pc = "finish", ![e].outcome = outcome]
  /\ UNCHANGED <<tables, clicks, live, firing, bounds, origin, lost>>

\* Mutant: only a request that ran is closed.
FinishRunsOnly(e) ==
  /\ actor[e].pc = "finish"
  /\ IF actor[e].job # NoVal
       THEN /\ requests' = [requests EXCEPT ![actor[e].cur] =
                              [@ EXCEPT !.status = actor[e].outcome]]
            /\ GoTo(e, "stamp")
       ELSE /\ NextRequest(e, actor[e].queue)
            /\ UNCHANGED requests
  /\ UNCHANGED <<seeded, jobs, asked, clicks, live, firing, bounds, history>>

\* The request is closed with the outcome; only a schedule that was found is
\* stamped with it.
Finish(e) ==
  /\ actor[e].pc = "finish"
  /\ requests' = [requests EXCEPT ![actor[e].cur] = [@ EXCEPT !.status = actor[e].outcome]]
  /\ IF actor[e].job # NoVal THEN GoTo(e, "stamp") ELSE NextRequest(e, actor[e].queue)
  /\ UNCHANGED <<seeded, jobs, asked, clicks, live, firing, bounds, history>>

\* UPDATE scheduled_jobs SET last_status; nothing happens to a row that is gone.
Stamped(i, status) ==
  IF Exists(i) THEN [jobs EXCEPT ![i] = [@ EXCEPT !.last = status]] ELSE jobs

Stamp(e) ==
  /\ actor[e].pc = "stamp"
  /\ jobs' = Stamped(actor[e].job, actor[e].outcome)
  /\ NextRequest(e, actor[e].queue)
  /\ UNCHANGED <<seeded, requests, asked, clicks, live, firing, bounds, history>>

-----------------------------------------------------------------------------
(***************************************************************************)
(* Jobs that run on their trigger, and record_run, the listener behind.    *)
(***************************************************************************)
Fire(e, i) ==
  /\ live[e][i] # NoVal /\ <<e, i>> \notin firing
  /\ bounds.fires < MaxFires
  /\ bounds' = [bounds EXCEPT !.fires = @ + 1]
  /\ firing' = firing \cup {<<e, i>>}
  /\ UNCHANGED <<tables, clicks, live, actor, history>>

RecordRun(e, i) ==
  /\ <<e, i>> \in firing
  /\ firing' = firing \ {<<e, i>>}
  /\ \E status \in {"SUCCESS", "FAILED"} : jobs' = Stamped(i, status)
  /\ UNCHANGED <<seeded, requests, asked, clicks, live, actor, bounds, history>>

-----------------------------------------------------------------------------
(***************************************************************************)
(* Failures: a statement of a sweep or a page load raises, or the engine   *)
(* dies and loses its memory.                                              *)
(***************************************************************************)
LostBy(x) == IF actor[x].pc \in {"look", "act", "finish"} THEN {actor[x].cur} ELSE {}

Fail(x) ==
  /\ bounds.aborts < MaxAborts
  /\ bounds' = [bounds EXCEPT !.aborts = @ + 1]
  /\ lost' = lost \cup LostBy(x)
  /\ End(x)
  /\ UNCHANGED <<tables, clicks, origin, ran>>

Raise(x) ==
  /\ actor[x].pc # "idle"
  /\ Fail(x)
  /\ UNCHANGED <<live, firing>>

Crash(e) ==
  /\ Fail(e)
  /\ live' = [live EXCEPT ![e] = NoJobs]
  /\ firing' = {f \in firing : f[1] # e}

Edits ==
  \/ \E i \in Ids, kind \in Kinds, trigger \in Triggers, enabled \in BOOLEAN :
       CreateJob(i, kind, trigger, enabled) \/ UpdateJob(i, kind, trigger, enabled)
  \/ \E i \in Ids : DeleteJob(i) \/ \E enabled \in BOOLEAN : SetEnabled(i, enabled)
  \/ \E r \in Requests : InsertRequest(r) \/ \E i \in Ids : Click(r, i)

SeedStep(x) ==
  \/ Seed(x) \/ EndSeed(x)
  \/ \E d \in Defaults, i \in Ids, trigger \in Triggers : CreateDefault(x, d, i, trigger)

\* One step of an engine's sweep.
Sweep(e) ==
  \/ Begin(e) \/ SeedStep(e) \/ Read(e) \/ Apply(e) \/ Fetch(e)
  \/ (\E r \in Requests : Claim(e, r)) \/ Look(e) \/ Act(e) \/ Finish(e) \/ Stamp(e)

Next ==
  \/ Edits
  \/ \E p \in Pages : Begin(p) \/ SeedStep(p)
  \/ \E e \in Engines : Sweep(e) \/ Crash(e)
  \/ \E e \in Engines, i \in Ids : Fire(e, i) \/ RecordRun(e, i)
  \/ \E x \in Actors : Raise(x)

Spec == Init /\ [][Next]_vars
\* An engine that is up sweeps again and again, and its sweeps go on; a
\* page load goes on too.
FairSpec ==
  /\ Spec
  /\ \A e \in Engines : WF_vars(Sweep(e))
  /\ \A p \in Pages : WF_vars(SeedStep(p))

-----------------------------------------------------------------------------
(***************************************************************************)
(* Properties.                                                             *)
(***************************************************************************)
TypeOK ==
  /\ seeded \in BOOLEAN
  /\ jobs \in [Ids -> Job \cup {NoVal}]
  /\ requests \in [Requests -> Request \cup {NoVal}]
  /\ asked \in Nat
  /\ clicks \in [Requests -> Ids \cup {NoVal}]
  /\ live \in [Engines -> [Ids -> LiveJob \cup {NoVal}]]
  /\ firing \subseteq Engines \X Ids
  /\ actor \in [Actors -> ActorState]
  /\ bounds \in [edits : 0..MaxEdits, fires : 0..MaxFires, aborts : 0..MaxAborts]
  /\ origin \in [Ids -> Defaults \cup {"user", NoVal}]
  /\ ran \in [Requests -> Nat]
  /\ lost \subseteq Requests

\* One click runs one action: however many engines sweep, whichever of them
\* fail, and whether the schedule is edited or deleted meanwhile.
RunsAtMostOnce == \A r \in Requests : ran[r] <= 1

\* A request that says how its run went has run, and one that is waiting,
\* cancelled or never inserted has not.
StatusTellsTheRun ==
  \A r \in Requests :
    /\ HasStatus(r, RunStatus) => ran[r] = 1
    /\ requests[r] = NoVal \/ HasStatus(r, {"PENDING", "CANCELLED"}) => ran[r] = 0

\* Each default schedule is created at most once, whoever lists first and
\* how many list at a time; one that the user deleted does not come back.
DefaultsCreatedOnce ==
  \A i, j \in Ids : origin[i] \in Defaults /\ origin[i] = origin[j] => i = j

\* A waiting request is closed in the end, unless the engine that claimed
\* it ended in the middle: then it stays RUNNING, and nobody picks it up.
RequestIsServed ==
  \A r \in Requests : HasStatus(r, {"PENDING"}) ~> (HasStatus(r, Closed) \/ r \in lost)

\* Once the edits stop, every engine ends up with the jobs of the enabled
\* schedules, with their present action and trigger, and no others.
EnginesConverge ==
  <>[](\A e \in Engines : live[e] = [i \in Ids |-> Reconciled(NoVal, jobs[i])])

(***************************************************************************)
(* The inductive invariant behind these.                                   *)
(***************************************************************************)
Holds(x) == actor[x].pc \in {"look", "act", "finish"}

\* The request an engine works on is its own, and has run or has not.
Held(x) ==
  /\ Holds(x) => actor[x].cur \in Requests /\ HasStatus(actor[x].cur, {"RUNNING"})
  /\ actor[x].pc \in {"claim", "look"} => actor[x].job = NoVal
  /\ actor[x].pc \in {"look", "act"} => ran[actor[x].cur] = 0
  /\ actor[x].pc \in {"act", "stamp"} => actor[x].job \in Ids
  /\ actor[x].pc = "finish" /\ actor[x].job = NoVal
       => actor[x].outcome = "CANCELLED" /\ ran[actor[x].cur] = 0
  /\ actor[x].pc = "finish" /\ actor[x].job # NoVal
       => actor[x].outcome \in RunStatus /\ ran[actor[x].cur] = 1
  /\ actor[x].pc = "stamp" => actor[x].outcome \in RunStatus
  /\ \A r \in actor[x].queue : requests[r] # NoVal

HoldersDiffer ==
  \A x, y \in Actors : x # y /\ Holds(x) /\ Holds(y) => actor[x].cur # actor[y].cur

RequestInv ==
  /\ TypeOK
  /\ \A x \in Actors : Held(x)
  /\ HoldersDiffer
  /\ RunsAtMostOnce
  /\ StatusTellsTheRun

\* Whoever creates defaults is alone, and none of those it has left exists.
SeedInv ==
  /\ ~seeded => /\ \A i \in Ids : origin[i] \notin Defaults
                /\ \A x \in Actors : actor[x].pc # "create"
  /\ \A x, y \in Actors : actor[x].pc = "create" /\ actor[y].pc = "create" => x = y
  /\ \A x \in Actors, i \in Ids : actor[x].pc = "create" => origin[i] \notin actor[x].left
  /\ DefaultsCreatedOnce

\* The request table implements RunLedger.
LedgerState ==
  [r \in Requests |-> IF HasStatus(r, {"PENDING"}) THEN "waiting"
                     ELSE IF HasStatus(r, {"RUNNING"}) THEN "claimed"
                     ELSE IF HasStatus(r, Closed) THEN "closed" ELSE "new"]
Ledger == INSTANCE RunLedger WITH Request <- Requests, state <- LedgerState, ran <- ran
ImplementsRunLedger == Ledger!Spec

=============================================================================
