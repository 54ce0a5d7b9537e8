--------------------------- MODULE SchedulerProofs ---------------------------
(***************************************************************************)
(* Proofs about Scheduler for every number of engines, pages, schedules    *)
(* and requests, with any number of edits, failures and crashes.           *)
(***************************************************************************)
EXTENDS Scheduler, TLAPS

(***************************************************************************)
(* Steps that leave the requests and their history alone.                  *)
(***************************************************************************)
LEMMA OthersKeepRequestInv ==
  ASSUME RequestInv, TypeOK', UNCHANGED <<requests, ran, actor>>
  PROVE  RequestInv'
BY DEF RequestInv, Held, Holds, HasStatus, HoldersDiffer, RunsAtMostOnce, StatusTellsTheRun

\* x goes on to the state me, holding no request it did not hold before.
LEMMA MoveKeepsRequestInv ==
  ASSUME RequestInv, TypeOK', UNCHANGED <<requests, ran>>,
         NEW x \in Actors, NEW me \in ActorState, actor' = [actor EXCEPT ![x] = me],
         Held(x)',
         me.pc \in {"look", "act", "finish"} => Holds(x) /\ me.cur = actor[x].cur
  PROVE  RequestInv'
<1>1. actor'[x] = me /\ \A y \in Actors \ {x} : actor'[y] = actor[y]
  BY DEF RequestInv, TypeOK
<1>2. ASSUME NEW y \in Actors PROVE Held(y)'
  BY <1>1 DEF RequestInv, Held, Holds, HasStatus
<1>3. HoldersDiffer'
  BY <1>1 DEF RequestInv, HoldersDiffer, Holds
<1>. QED  BY <1>2, <1>3 DEF RequestInv, RunsAtMostOnce, StatusTellsTheRun, HasStatus

LEMMA IdleIsTyped ==
  /\ Idle \in ActorState
  /\ \A S \in SUBSET Requests : [Idle EXCEPT !.pc = "claim", !.queue = S] \in ActorState
BY DEF Idle, ActorState, Pc

\* Ending, or going on to a queue of requests that exist.
LEMMA NextRequestKeepsRequestInv ==
  ASSUME RequestInv, TypeOK', UNCHANGED <<requests, ran>>,
         NEW x \in Actors, NEW S \in SUBSET Requests, \A r \in S : requests[r] # NoVal,
         NextRequest(x, S)
  PROVE  RequestInv'
<1>1. CASE S = {}
  <2>1. actor' = [actor EXCEPT ![x] = Idle]
    BY <1>1 DEF NextRequest, End
  <2>2. Held(x)' /\ Idle.pc = "idle"
    BY <2>1 DEF RequestInv, TypeOK, Held, Holds, Idle
  <2>. QED  BY <2>1, <2>2, IdleIsTyped, MoveKeepsRequestInv
<1>2. CASE S # {}
  <2> DEFINE me == [Idle EXCEPT !.pc = "claim", !.queue = S]
  <2>1. actor' = [actor EXCEPT ![x] = me]
    BY <1>2 DEF NextRequest
  <2>2. me.pc = "claim" /\ me.job = NoVal /\ me.queue = S
    BY DEF Idle
  <2>3. actor'[x] = me
    BY <2>1 DEF RequestInv, TypeOK
  <2>4. me \in ActorState
    BY IdleIsTyped
  <2>. HIDE DEF me
  <2>5. Held(x)'
    BY <2>2, <2>3 DEF Held, Holds
  <2>. QED  BY <2>1, <2>2, <2>4, <2>5, MoveKeepsRequestInv
<1>. QED  BY <1>1, <1>2

LEMMA NextRequestIsTyped ==
  ASSUME TypeOK, NEW x \in Actors, NEW S \in SUBSET Requests, NextRequest(x, S)
  PROVE  actor' \in [Actors -> ActorState]
BY IdleIsTyped DEF TypeOK, NextRequest, End

LEMMA EditsKeepRequestInv ==
  ASSUME RequestInv,
         \/ \E i \in Ids, kind \in Kinds, trigger \in Triggers, enabled \in BOOLEAN :
              CreateJob(i, kind, trigger, enabled) \/ UpdateJob(i, kind, trigger, enabled)
         \/ \E i \in Ids : DeleteJob(i) \/ \E enabled \in BOOLEAN : SetEnabled(i, enabled)
         \/ \E r \in Requests, i \in Ids : Click(r, i)
  PROVE  RequestInv'
<1>1. UNCHANGED <<requests, ran, actor>>
  BY DEF CreateJob, UpdateJob, DeleteJob, SetEnabled, Click, Edit, tables, history
<1>2. TypeOK'
  <2>1. ASSUME NEW i \in Ids, NEW kind \in Kinds, NEW trigger \in Triggers,
               NEW enabled \in BOOLEAN, CreateJob(i, kind, trigger, enabled)
        PROVE  TypeOK'
    BY <2>1, SchedulerBounds DEF RequestInv, TypeOK, CreateJob, Edit, Insert, Job
  <2>2. ASSUME NEW i \in Ids, NEW kind \in Kinds, NEW trigger \in Triggers,
               NEW enabled \in BOOLEAN, UpdateJob(i, kind, trigger, enabled)
        PROVE  TypeOK'
    <3>1. jobs[i] \in Job
      BY <2>2 DEF UpdateJob, Exists, RequestInv, TypeOK
    <3>2. [jobs[i] EXCEPT !.kind = kind, !.trigger = trigger, !.enabled = enabled] \in Job
      BY <3>1 DEF Job
    <3>. HIDE DEF Job
    <3>3. jobs' \in [Ids -> Job \cup {NoVal}]
      BY <2>2, <3>2 DEF UpdateJob, RequestInv, TypeOK
    <3>4. Edit /\ UNCHANGED origin
      BY <2>2 DEF UpdateJob
    <3>. QED  BY <3>3, <3>4, SchedulerBounds DEF RequestInv, TypeOK, Edit
  <2>3. ASSUME NEW i \in Ids, DeleteJob(i) PROVE TypeOK'
    BY <2>3, SchedulerBounds DEF RequestInv, TypeOK, DeleteJob, Edit
  <2>4. ASSUME NEW i \in Ids, NEW enabled \in BOOLEAN, SetEnabled(i, enabled) PROVE TypeOK'
    BY <2>4, SchedulerBounds DEF RequestInv, TypeOK, SetEnabled, Edit, Exists, Job
  <2>5. ASSUME NEW r \in Requests, NEW i \in Ids, Click(r, i) PROVE TypeOK'
    BY <2>5 DEF RequestInv, TypeOK, Click, tables, history
  <2>. QED  BY <2>1, <2>2, <2>3, <2>4, <2>5
<1>. QED  BY <1>1, <1>2, OthersKeepRequestInv

LEMMA StampedIsTyped ==
  ASSUME jobs \in [Ids -> Job \cup {NoVal}], NEW i \in Ids, NEW status \in RunStatus
  PROVE  Stamped(i, status) \in [Ids -> Job \cup {NoVal}]
<1>1. CASE Exists(i)
  <2>1. [jobs[i] EXCEPT !.last = status] \in Job
    BY <1>1 DEF Exists, Job
  <2>. QED  BY <1>1, <2>1 DEF Stamped
<1>2. CASE ~Exists(i)
  BY <1>2 DEF Stamped
<1>. QED  BY <1>1, <1>2

LEMMA JobsKeepRequestInv ==
  ASSUME RequestInv, NEW e \in Engines, NEW i \in Ids, Fire(e, i) \/ RecordRun(e, i)
  PROVE  RequestInv'
<1>1. UNCHANGED <<requests, ran, actor>>
  BY DEF Fire, RecordRun, tables, history
<1>2. CASE Fire(e, i)
  <2>1. TypeOK'
    BY <1>2, SchedulerBounds DEF RequestInv, TypeOK, Fire, tables, history
  <2>. QED  BY <1>1, <2>1, OthersKeepRequestInv
<1>3. CASE RecordRun(e, i)
  <2>1. jobs' \in [Ids -> Job \cup {NoVal}]
    <3>1. PICK status \in RunStatus : jobs' = Stamped(i, status)
      BY <1>3 DEF RecordRun, RunStatus
    <3>. QED  BY <3>1, StampedIsTyped DEF RequestInv, TypeOK
  <2>2. TypeOK'
    BY <1>3, <2>1 DEF RequestInv, TypeOK, RecordRun, history
  <2>. QED  BY <1>1, <2>2, OthersKeepRequestInv
<1>. QED  BY <1>2, <1>3

(***************************************************************************)
(* The steps of a sweep or a page load.                                    *)
(***************************************************************************)
LEMMA BeginKeepsRequestInv ==
  ASSUME RequestInv, NEW x \in Actors, Begin(x)
  PROVE  RequestInv'
<1> DEFINE me == [actor[x] EXCEPT !.pc = "seed"]
<1>1. actor' = [actor EXCEPT ![x] = me] /\ UNCHANGED <<requests, ran>>
  BY DEF Begin, GoTo, tables, history, RequestInv, TypeOK
<1>2. me \in ActorState /\ me.pc = "seed" /\ me.queue = actor[x].queue
  BY DEF RequestInv, TypeOK, ActorState, Pc
<1>. HIDE DEF me
<1>3. TypeOK' /\ actor'[x] = me
  BY <1>1, <1>2 DEF RequestInv, TypeOK, Begin, tables, history
<1>4. Held(x)'
  BY <1>1, <1>2, <1>3 DEF RequestInv, Held, Holds
<1>. QED  BY <1>1, <1>2, <1>3, <1>4, MoveKeepsRequestInv

\* After the defaults: a page ends, an engine goes on to read the table.
LEMMA AfterSeedKeepsRequestInv ==
  ASSUME RequestInv, NEW x \in Actors, AfterSeed(x), seeded' \in BOOLEAN,
         UNCHANGED <<jobs, requests, asked, clicks, live, firing, bounds, history>>
  PROVE  RequestInv'
<1>. USE DEF history
<1>1. CASE x \in Engines
  <2> DEFINE me == [actor[x] EXCEPT !.pc = "read"]
  <2>1. actor' = [actor EXCEPT ![x] = me]
    BY <1>1 DEF AfterSeed, GoTo, RequestInv, TypeOK
  <2>2. me \in ActorState /\ me.pc = "read" /\ me.queue = actor[x].queue
    BY DEF RequestInv, TypeOK, ActorState, Pc
  <2>. HIDE DEF me
  <2>3. TypeOK' /\ actor'[x] = me
    BY <2>1, <2>2 DEF RequestInv, TypeOK
  <2>4. Held(x)'
    BY <2>1, <2>2, <2>3 DEF RequestInv, Held, Holds
  <2>. QED  BY <2>1, <2>2, <2>3, <2>4, MoveKeepsRequestInv
<1>2. CASE x \notin Engines
  <2>1. actor' = [actor EXCEPT ![x] = Idle]
    BY <1>2 DEF AfterSeed, End
  <2>2. TypeOK' /\ actor'[x] = Idle
    BY <2>1, IdleIsTyped DEF RequestInv, TypeOK
  <2>3. Held(x)' /\ Idle.pc = "idle"
    BY <2>2 DEF Held, Holds, Idle
  <2>. QED  BY <2>1, <2>2, <2>3, IdleIsTyped, MoveKeepsRequestInv
<1>. QED  BY <1>1, <1>2

LEMMA SeedKeepsRequestInv ==
  ASSUME RequestInv, NEW x \in Actors, SeedStep(x)
  PROVE  RequestInv'
<1>1. CASE Seed(x) /\ seeded
  BY <1>1, AfterSeedKeepsRequestInv DEF Seed
<1>2. CASE Seed(x) /\ ~seeded
  <2> DEFINE me == [actor[x] EXCEPT !.pc = "create", !.left = Defaults]
  <2>1. actor' = [actor EXCEPT ![x] = me] /\ UNCHANGED <<requests, ran>>
    BY <1>2 DEF Seed, history, RequestInv, TypeOK
  <2>2. me \in ActorState /\ me.pc = "create" /\ me.queue = actor[x].queue
    BY DEF RequestInv, TypeOK, ActorState, Pc
  <2>. HIDE DEF me
  <2>3. TypeOK' /\ actor'[x] = me
    BY <1>2, <2>1, <2>2 DEF RequestInv, TypeOK, Seed, history
  <2>4. Held(x)'
    BY <2>1, <2>2, <2>3 DEF RequestInv, Held, Holds
  <2>. QED  BY <2>1, <2>2, <2>3, <2>4, MoveKeepsRequestInv
<1>3. CASE EndSeed(x)
  BY <1>3, AfterSeedKeepsRequestInv DEF EndSeed, tables, RequestInv, TypeOK
<1>4. ASSUME NEW d \in Defaults, NEW i \in Ids, NEW trigger \in Triggers,
             CreateDefault(x, d, i, trigger)
      PROVE  RequestInv'
  <2> DEFINE me == [actor[x] EXCEPT !.left = @ \ {d}]
             job == [kind |-> d, trigger |-> trigger, enabled |-> TRUE, last |-> NoVal]
  <2>1. actor' = [actor EXCEPT ![x] = me] /\ UNCHANGED <<requests, ran>>
    BY <1>4 DEF CreateDefault, RequestInv, TypeOK
  <2>2. me \in ActorState /\ me.pc = "create" /\ me.queue = actor[x].queue
    BY <1>4 DEF CreateDefault, RequestInv, TypeOK, ActorState, Pc
  <2>3. job \in Job
    BY DefaultsAreKinds DEF Job
  <2>4. jobs' = [jobs EXCEPT ![i] = job] /\ origin' = [origin EXCEPT ![i] = d]
    BY <1>4 DEF CreateDefault, Insert
  <2>. HIDE DEF me, job
  <2>5. TypeOK' /\ actor'[x] = me
    BY <1>4, <2>1, <2>2, <2>3, <2>4 DEF RequestInv, TypeOK, CreateDefault
  <2>6. Held(x)'
    BY <2>1, <2>2, <2>5 DEF RequestInv, Held, Holds
  <2>. QED  BY <2>1, <2>2, <2>5, <2>6, MoveKeepsRequestInv
<1>. QED  BY <1>1, <1>2, <1>3, <1>4 DEF SeedStep

LEMMA ReconcileKeepsRequestInv ==
  ASSUME RequestInv, NEW e \in Engines, Read(e) \/ Apply(e)
  PROVE  RequestInv'
<1>0. e \in Actors /\ actor[e] \in ActorState
  BY DEF Actors, RequestInv, TypeOK
<1>1. CASE Read(e)
  <2> DEFINE me == [actor[e] EXCEPT !.pc = "apply", !.records = jobs]
  <2>1. actor' = [actor EXCEPT ![e] = me] /\ UNCHANGED <<requests, ran>>
    BY <1>1 DEF Read, tables, history, RequestInv, TypeOK
  <2>2. me \in ActorState /\ me.pc = "apply" /\ me.queue = actor[e].queue
    BY <1>0 DEF RequestInv, TypeOK, ActorState, Pc
  <2>. HIDE DEF me
  <2>3. TypeOK' /\ actor'[e] = me
    BY <1>0, <1>1, <2>1, <2>2 DEF RequestInv, TypeOK, Read, tables, history
  <2>4. Held(e)'
    BY <1>0, <2>1, <2>2, <2>3 DEF RequestInv, Held, Holds
  <2>. QED  BY <1>0, <2>1, <2>2, <2>3, <2>4, MoveKeepsRequestInv
<1>2. CASE Apply(e)
  <2> DEFINE me == [actor[e] EXCEPT !.pc = "fetch"]
  <2>1. actor' = [actor EXCEPT ![e] = me] /\ UNCHANGED <<requests, ran>>
    BY <1>2 DEF Apply, GoTo, tables, history, RequestInv, TypeOK
  <2>2. me \in ActorState /\ me.pc = "fetch" /\ me.queue = actor[e].queue
    BY <1>0 DEF ActorState, Pc
  <2>3. \A i \in Ids : Reconciled(live[e][i], actor[e].records[i]) \in LiveJob \cup {NoVal}
    BY <1>0 DEF ActorState, Job, LiveJob, Reconciled
  <2>4. live' \in [Engines -> [Ids -> LiveJob \cup {NoVal}]]
    BY <1>2, <2>3 DEF Apply, RequestInv, TypeOK
  <2>. HIDE DEF me
  <2>5. TypeOK' /\ actor'[e] = me
    BY <1>0, <1>2, <2>1, <2>2, <2>4 DEF RequestInv, TypeOK, Apply, tables, history
  <2>6. Held(e)'
    BY <1>0, <2>1, <2>2, <2>5 DEF RequestInv, Held, Holds
  <2>. QED  BY <1>0, <2>1, <2>2, <2>5, <2>6, MoveKeepsRequestInv
<1>. QED  BY <1>1, <1>2

(***************************************************************************)
(* run_pending_requests.                                                   *)
(***************************************************************************)
LEMMA FetchKeepsRequestInv ==
  ASSUME RequestInv, NEW e \in Engines, Fetch(e)
  PROVE  RequestInv'
<1>1. /\ e \in Actors /\ Pending \in SUBSET Requests /\ NextRequest(e, Pending)
      /\ \A r \in Pending : requests[r] # NoVal
  BY DEF Fetch, Actors, Pending, HasStatus
<1>2. TypeOK' /\ UNCHANGED <<requests, ran>>
  BY <1>1, NextRequestIsTyped DEF RequestInv, TypeOK, Fetch, tables, history
<1>. QED  BY <1>1, <1>2, NextRequestKeepsRequestInv

\* A request with another status is still one that exists.
LEMMA WithStatus ==
  ASSUME requests \in [Requests -> Request \cup {NoVal}],
         NEW r \in Requests, requests[r] # NoVal,
         NEW status \in {"RUNNING"} \cup Closed,
         requests' = [requests EXCEPT ![r] = [@ EXCEPT !.status = status]]
  PROVE  /\ requests' \in [Requests -> Request \cup {NoVal}]
         /\ requests'[r] # NoVal /\ requests'[r].status = status
         /\ \A q \in Requests \ {r} : requests'[q] = requests[q]
<1>1. [requests[r] EXCEPT !.status = status] \in Request
  BY DEF Request, Closed, RunStatus
<1>2. NoVal \notin Request
  BY SchedulerNoVal DEF Request, Closed, RunStatus
<1>3. requests[r] \in Request
  OBVIOUS
<1>4. [requests[r] EXCEPT !.status = status].status = status
  BY <1>3 DEF Request
<1>. QED  BY <1>1, <1>2, <1>4

LEMMA ClaimKeepsRequestInv ==
  ASSUME RequestInv, NEW e \in Engines, NEW r \in Requests, Claim(e, r)
  PROVE  RequestInv'
<1>1. e \in Actors /\ actor[e] \in ActorState /\ actor[e].pc = "claim"
      /\ actor[e].queue \in SUBSET Requests /\ Held(e)
  BY DEF Claim, Actors, RequestInv, TypeOK, ActorState
<1>2. CASE r \notin Pending
  <2> DEFINE S == actor[e].queue \ {r}
  <2>1. NextRequest(e, S) /\ S \in SUBSET Requests
    BY <1>1, <1>2 DEF Claim
  <2>2. \A q \in S : requests[q] # NoVal
    BY <1>1 DEF Held
  <2>. HIDE DEF S
  <2>3. actor' \in [Actors -> ActorState]
    BY <1>1, <2>1, NextRequestIsTyped DEF RequestInv
  <2>4. TypeOK' /\ UNCHANGED <<requests, ran>>
    BY <1>2, <2>3 DEF RequestInv, TypeOK, Claim, history
  <2>. QED  BY <1>1, <2>1, <2>2, <2>4, NextRequestKeepsRequestInv
<1>3. CASE r \in Pending
  <2> DEFINE me == [actor[e] EXCEPT !.pc = "look", !.cur = r, !.queue = @ \ {r}]
  <2>1. Take(e, r) /\ requests[r] # NoVal /\ requests[r].status = "PENDING" /\ UNCHANGED ran
    BY <1>3 DEF Claim, Pending, HasStatus, history
  <2>2. actor' = [actor EXCEPT ![e] = me]
    BY <2>1 DEF Take, RequestInv, TypeOK
  <2>3. /\ me \in ActorState /\ me.pc = "look" /\ me.cur = r /\ me.job = NoVal
        /\ me.queue \subseteq actor[e].queue
    BY <1>1 DEF ActorState, Pc, Held
  <2>. HIDE DEF me
  <2>4. /\ requests' \in [Requests -> Request \cup {NoVal}]
        /\ requests'[r] # NoVal /\ requests'[r].status = "RUNNING"
        /\ \A q \in Requests \ {r} : requests'[q] = requests[q]
    BY <2>1, WithStatus DEF Take, RequestInv, TypeOK
  <2>5. TypeOK' /\ actor'[e] = me /\ \A y \in Actors \ {e} : actor'[y] = actor[y]
    BY <1>1, <2>2, <2>3, <2>4 DEF RequestInv, TypeOK, Claim, history
  <2>6. ran[r] = 0
    BY <2>1 DEF RequestInv, StatusTellsTheRun, HasStatus
  <2>7. \A y \in Actors : Holds(y) => actor[y].cur \in Requests \ {r}
    BY <2>1 DEF RequestInv, Held, HasStatus
  <2>8. ASSUME NEW y \in Actors PROVE Held(y)'
    <3>1. CASE y = e
      BY <1>1, <2>1, <2>3, <2>4, <2>5, <2>6, <3>1 DEF Held, Holds, HasStatus
    <3>2. CASE y # e
      <4>1. actor'[y] = actor[y] /\ Held(y) /\ actor[y].queue \subseteq Requests
        BY <2>5, <3>2 DEF RequestInv, TypeOK, ActorState
      <4>. QED  BY <2>1, <2>4, <2>7, <4>1 DEF Held, Holds, HasStatus
    <3>. QED  BY <3>1, <3>2
  <2>9. HoldersDiffer'
    BY <2>3, <2>5, <2>7 DEF RequestInv, HoldersDiffer, Holds
  <2>10. StatusTellsTheRun' /\ RunsAtMostOnce'
    BY <2>1, <2>4 DEF RequestInv, StatusTellsTheRun, RunsAtMostOnce, HasStatus, RunStatus
  <2>. QED  BY <2>5, <2>8, <2>9, <2>10 DEF RequestInv
<1>. QED  BY <1>2, <1>3

LEMMA LookKeepsRequestInv ==
  ASSUME RequestInv, NEW e \in Engines, Look(e)
  PROVE  RequestInv'
<1>1. e \in Actors /\ actor[e] \in ActorState /\ actor[e].pc = "look" /\ Held(e)
      /\ UNCHANGED <<requests, ran>>
  BY DEF Look, Actors, RequestInv, TypeOK, tables, history
<1>2. /\ Holds(e) /\ actor[e].cur \in Requests /\ ran[actor[e].cur] = 0
      /\ HasStatus(actor[e].cur, {"RUNNING"}) /\ actor[e].job = NoVal
  BY <1>1 DEF Held, Holds
<1> DEFINE i == requests[actor[e].cur].job
<1>3. i \in Ids
  BY <1>2 DEF HasStatus, RequestInv, TypeOK, Request
<1>4. ASSUME NEW me \in ActorState, actor' = [actor EXCEPT ![e] = me],
             me.cur = actor[e].cur, me.queue = actor[e].queue,
             \/ me.pc = "act" /\ me.job \in Ids
             \/ me.pc = "finish" /\ me.job = NoVal /\ me.outcome = "CANCELLED"
      PROVE  RequestInv'
  <2>1. TypeOK' /\ actor'[e] = me
    BY <1>1, <1>4 DEF RequestInv, TypeOK, Look, tables, history
  <2>2. Held(e)'
    BY <1>1, <1>2, <1>4, <2>1 DEF Held, Holds, HasStatus
  <2>. QED  BY <1>1, <1>2, <1>4, <2>1, <2>2, MoveKeepsRequestInv
<1>5. CASE Exists(i)
  <2> DEFINE me == [actor[e] EXCEPT !.pc = "act", !.job = i]
  <2>1. actor' = [actor EXCEPT ![e] = me]
    BY <1>5 DEF Look, RequestInv, TypeOK
  <2>2. /\ me \in ActorState /\ me.pc = "act" /\ me.job \in Ids
        /\ me.cur = actor[e].cur /\ me.queue = actor[e].queue
    BY <1>1, <1>3 DEF ActorState, Pc
  <2>. HIDE DEF me
  <2>. QED  BY <1>4, <2>1, <2>2
<1>6. CASE ~Exists(i)
  <2> DEFINE me == [actor[e] EXCEPT !.pc = "finish", !.outcome = "CANCELLED"]
  <2>1. actor' = [actor EXCEPT ![e] = me]
    BY <1>6 DEF Look, RequestInv, TypeOK
  <2>2. /\ me \in ActorState /\ me.pc = "finish" /\ me.job = NoVal
        /\ me.outcome = "CANCELLED" /\ me.cur = actor[e].cur /\ me.queue = actor[e].queue
    BY <1>1, <1>2 DEF ActorState, Pc, Closed
  <2>. HIDE DEF me
  <2>. QED  BY <1>4, <2>1, <2>2
<1>. QED  BY <1>5, <1>6

LEMMA ActKeepsRequestInv ==
  ASSUME RequestInv, NEW e \in Engines, Act(e)
  PROVE  RequestInv'
<1> DEFINE r == actor[e].cur
<1>1. e \in Actors /\ actor[e] \in ActorState /\ actor[e].pc = "act" /\ Held(e)
  BY DEF Act, Actors, RequestInv, TypeOK
<1>2. /\ Holds(e) /\ r \in Requests /\ ran[r] = 0
      /\ HasStatus(r, {"RUNNING"}) /\ actor[e].job \in Ids
  BY <1>1 DEF Held, Holds
<1>3. PICK outcome \in RunStatus :
        actor' = [actor EXCEPT ![e].pc = "finish", ![e].outcome = outcome]
  BY DEF Act
<1> DEFINE me == [actor[e] EXCEPT !.pc = "finish", !.outcome = outcome]
<1>4. actor' = [actor EXCEPT ![e] = me]
  BY <1>3 DEF RequestInv, TypeOK
<1>5. /\ me \in ActorState /\ me.pc = "finish" /\ me.job \in Ids /\ me.outcome = outcome
      /\ me.cur = r /\ me.queue = actor[e].queue
  BY <1>1, <1>2 DEF ActorState, Pc, Closed
<1>. HIDE DEF me
<1>6. UNCHANGED requests /\ ran' = [ran EXCEPT ![r] = 1]
  BY <1>2 DEF Act, tables
<1>7. TypeOK' /\ actor'[e] = me /\ \A y \in Actors \ {e} : actor'[y] = actor[y]
  <2>1. UNCHANGED <<tables, clicks, live, firing, bounds, origin, lost>>
    BY DEF Act
  <2>2. ran' \in [Requests -> Nat]
    BY <1>2, <1>6 DEF RequestInv, TypeOK
  <2>. HIDE DEF r
  <2>. QED  BY <1>1, <1>4, <1>5, <2>1, <2>2 DEF RequestInv, TypeOK, tables
<1>8. ran'[r] = 1 /\ \A q \in Requests \ {r} : ran'[q] = ran[q]
  BY <1>2, <1>6 DEF RequestInv, TypeOK
<1>. HIDE DEF r
<1>9. ASSUME NEW y \in Actors PROVE Held(y)'
  <2>1. CASE y = e
    BY <1>1, <1>2, <1>5, <1>6, <1>7, <1>8, <2>1, SchedulerNoVal DEF Held, Holds, HasStatus
  <2>2. CASE y # e
    <3>1. actor'[y] = actor[y] /\ Held(y)
      BY <1>7, <2>2 DEF RequestInv
    <3>2. Holds(y) => actor[y].cur \in Requests \ {r}
      BY <1>1, <1>2, <2>2, <3>1 DEF RequestInv, HoldersDiffer, Held, r
    <3>. QED  BY <1>6, <1>8, <3>1, <3>2 DEF Held, Holds, HasStatus
  <2>. QED  BY <2>1, <2>2
<1>10. HoldersDiffer'
  BY <1>1, <1>2, <1>5, <1>7 DEF RequestInv, HoldersDiffer, Holds, r
<1>11. StatusTellsTheRun' /\ RunsAtMostOnce'
  BY <1>2, <1>6, <1>8 DEF RequestInv, StatusTellsTheRun, RunsAtMostOnce, HasStatus, RunStatus
<1>. QED  BY <1>7, <1>9, <1>10, <1>11 DEF RequestInv

LEMMA FinishKeepsRequestInv ==
  ASSUME RequestInv, NEW e \in Engines, Finish(e)
  PROVE  RequestInv'
<1> DEFINE r == actor[e].cur
           status == actor[e].outcome
<1>1. /\ e \in Actors /\ actor[e] \in ActorState /\ actor[e].pc = "finish" /\ Held(e)
      /\ actor[e].queue \in SUBSET Requests
  BY DEF Finish, Actors, RequestInv, TypeOK, ActorState
<1>2. /\ Holds(e) /\ r \in Requests /\ HasStatus(r, {"RUNNING"})
      /\ \/ actor[e].job = NoVal /\ status = "CANCELLED" /\ ran[r] = 0
         \/ actor[e].job \in Ids /\ status \in RunStatus /\ ran[r] = 1
  BY <1>1 DEF Held, Holds, ActorState
<1>3. /\ requests' \in [Requests -> Request \cup {NoVal}]
      /\ requests'[r] # NoVal /\ requests'[r].status = status
      /\ \A q \in Requests \ {r} : requests'[q] = requests[q]
  <2>1. requests' = [requests EXCEPT ![r] = [@ EXCEPT !.status = status]]
    BY DEF Finish
  <2>. QED  BY <1>2, <2>1, WithStatus DEF RequestInv, TypeOK, HasStatus, Closed
<1>4. UNCHANGED ran /\ ran = ran'
  BY DEF Finish, history
<1>5. StatusTellsTheRun' /\ RunsAtMostOnce'
  BY <1>2, <1>3, <1>4 DEF RequestInv, StatusTellsTheRun, RunsAtMostOnce, HasStatus, RunStatus
<1>6. ASSUME NEW me \in ActorState, actor' = [actor EXCEPT ![e] = me],
             me.queue \subseteq actor[e].queue,
             \/ me.pc = "stamp" /\ me.job \in Ids /\ me.outcome \in RunStatus
             \/ me.pc = "idle"
             \/ me.pc = "claim" /\ me.job = NoVal
      PROVE  RequestInv'
  <2>1. TypeOK' /\ actor'[e] = me /\ \A y \in Actors \ {e} : actor'[y] = actor[y]
    BY <1>1, <1>3, <1>6 DEF RequestInv, TypeOK, Finish, history
  <2>2. \A q \in Requests : requests[q] # NoVal => requests'[q] # NoVal
    BY <1>3
  <2>. HIDE DEF r, status
  <2>3. ASSUME NEW y \in Actors PROVE Held(y)'
    <3>1. CASE y = e
      BY <1>1, <1>6, <2>1, <2>2, <3>1 DEF Held, Holds
    <3>2. CASE y # e
      <4>1. actor'[y] = actor[y] /\ Held(y) /\ actor[y].queue \subseteq Requests
        BY <2>1, <3>2 DEF RequestInv, TypeOK, ActorState
      <4>2. Holds(y) => actor[y].cur \in Requests \ {r}
        BY <1>1, <1>2, <3>2, <4>1 DEF RequestInv, HoldersDiffer, Held, r
      <4>. QED  BY <1>3, <1>4, <2>2, <4>1, <4>2 DEF Held, Holds, HasStatus
    <3>. QED  BY <3>1, <3>2
  <2>4. HoldersDiffer'
    BY <1>6, <2>1 DEF RequestInv, HoldersDiffer, Holds
  <2>. QED  BY <1>5, <2>1, <2>3, <2>4 DEF RequestInv
<1>7. CASE actor[e].job # NoVal
  <2> DEFINE me == [actor[e] EXCEPT !.pc = "stamp"]
  <2>1. actor' = [actor EXCEPT ![e] = me]
    BY <1>7 DEF Finish, GoTo, RequestInv, TypeOK
  <2>2. /\ me \in ActorState /\ me.pc = "stamp" /\ me.job \in Ids
        /\ me.outcome \in RunStatus /\ me.queue = actor[e].queue
    BY <1>1, <1>2, <1>7 DEF ActorState, Pc
  <2>. HIDE DEF me
  <2>. QED  BY <1>6, <2>1, <2>2
<1>8. CASE actor[e].job = NoVal /\ actor[e].queue = {}
  <2>1. actor' = [actor EXCEPT ![e] = Idle]
    BY <1>8 DEF Finish, NextRequest, End
  <2>2. Idle \in ActorState /\ Idle.pc = "idle" /\ Idle.queue = {}
    BY IdleIsTyped DEF Idle
  <2>. QED  BY <1>6, <2>1, <2>2
<1>9. CASE actor[e].job = NoVal /\ actor[e].queue # {}
  <2> DEFINE me == [Idle EXCEPT !.pc = "claim", !.queue = actor[e].queue]
  <2>1. actor' = [actor EXCEPT ![e] = me]
    BY <1>9 DEF Finish, NextRequest
  <2>2. me \in ActorState /\ me.pc = "claim" /\ me.job = NoVal /\ me.queue = actor[e].queue
    BY <1>1, IdleIsTyped DEF Idle
  <2>. HIDE DEF me
  <2>. QED  BY <1>6, <2>1, <2>2
<1>. QED  BY <1>7, <1>8, <1>9

LEMMA StampKeepsRequestInv ==
  ASSUME RequestInv, NEW e \in Engines, Stamp(e)
  PROVE  RequestInv'
<1>1. /\ e \in Actors /\ actor[e] \in ActorState /\ actor[e].pc = "stamp" /\ Held(e)
      /\ actor[e].queue \in SUBSET Requests /\ NextRequest(e, actor[e].queue)
      /\ actor[e].job \in Ids /\ actor[e].outcome \in RunStatus
  BY DEF Stamp, Actors, RequestInv, TypeOK, ActorState, Held
<1>2. jobs' \in [Ids -> Job \cup {NoVal}] /\ actor' \in [Actors -> ActorState]
  BY <1>1, StampedIsTyped, NextRequestIsTyped DEF Stamp, RequestInv, TypeOK
<1>3. TypeOK' /\ UNCHANGED <<requests, ran>>
  BY <1>2 DEF RequestInv, TypeOK, Stamp, history
<1>4. \A q \in actor[e].queue : requests[q] # NoVal
  BY <1>1 DEF Held
<1>. QED  BY <1>1, <1>3, <1>4, NextRequestKeepsRequestInv

LEMMA InsertKeepsRequestInv ==
  ASSUME RequestInv, NEW r \in Requests, InsertRequest(r)
  PROVE  RequestInv'
<1> DEFINE row == [job |-> clicks[r], at |-> asked, status |-> "PENDING"]
<1>1. /\ requests[r] = NoVal /\ row \in Request /\ row.status = "PENDING"
      /\ UNCHANGED <<actor, ran>> /\ requests' = [requests EXCEPT ![r] = row]
  BY DEF InsertRequest, history, RequestInv, TypeOK, Request
<1>. HIDE DEF row
<1>2. row # NoVal
  BY <1>1, SchedulerNoVal DEF Request, Closed, RunStatus
<1>3. TypeOK'
  BY <1>1 DEF RequestInv, TypeOK, InsertRequest, history
<1>4. /\ requests'[r] # NoVal /\ requests'[r].status = "PENDING"
      /\ \A q \in Requests \ {r} : requests'[q] = requests[q]
  BY <1>1, <1>2 DEF RequestInv, TypeOK
<1>5. ASSUME NEW x \in Actors PROVE Held(x)'
  <2>1. Held(x) /\ actor[x].queue \subseteq Requests
    BY DEF RequestInv, TypeOK, ActorState
  <2>. QED  BY <1>1, <1>4, <2>1 DEF Held, Holds, HasStatus
<1>6. HoldersDiffer'
  BY <1>1 DEF RequestInv, HoldersDiffer, Holds
<1>7. StatusTellsTheRun' /\ RunsAtMostOnce'
  BY <1>1, <1>4 DEF RequestInv, StatusTellsTheRun, RunsAtMostOnce, HasStatus, RunStatus
<1>. QED  BY <1>3, <1>5, <1>6, <1>7 DEF RequestInv

LEMMA FailKeepsRequestInv ==
  ASSUME RequestInv, NEW x \in Actors, Raise(x) \/ (x \in Engines /\ Crash(x))
  PROVE  RequestInv'
<1>1. Fail(x)
  BY DEF Raise, Crash
<1>2. actor' = [actor EXCEPT ![x] = Idle] /\ UNCHANGED <<requests, ran>>
  BY <1>1 DEF Fail, End, tables
<1>3. actor'[x] = Idle /\ actor' \in [Actors -> ActorState]
  BY <1>2, IdleIsTyped DEF RequestInv, TypeOK
<1>4. LostBy(x) \subseteq Requests
  BY DEF LostBy, RequestInv, Held, Holds
<1>5. /\ live' \in [Engines -> [Ids -> LiveJob \cup {NoVal}]] /\ firing' \subseteq Engines \X Ids
  BY DEF Raise, Crash, RequestInv, TypeOK, NoJobs
<1>6. TypeOK'
  <2>1. bounds' \in [edits : 0..MaxEdits, fires : 0..MaxFires, aborts : 0..MaxAborts]
    BY <1>1, SchedulerBounds DEF RequestInv, TypeOK, Fail
  <2>2. lost' \subseteq Requests /\ UNCHANGED <<tables, clicks, origin, ran>>
    BY <1>1, <1>4 DEF Fail, RequestInv, TypeOK
  <2>. QED  BY <1>3, <1>5, <2>1, <2>2 DEF RequestInv, TypeOK, tables
<1>7. Held(x)' /\ Idle.pc = "idle"
  BY <1>3 DEF Held, Holds, Idle
<1>. QED  BY <1>2, <1>6, <1>7, IdleIsTyped, MoveKeepsRequestInv

LEMMA InitRequestInv == Init => RequestInv
<1>. SUFFICES ASSUME Init PROVE RequestInv
  OBVIOUS
<1>1. TypeOK
  <2>1. bounds \in [edits : 0..MaxEdits, fires : 0..MaxFires, aborts : 0..MaxAborts]
    BY SchedulerBounds DEF Init
  <2>2. live \in [Engines -> [Ids -> LiveJob \cup {NoVal}]] /\ jobs \in [Ids -> Job \cup {NoVal}]
    BY DEF Init, NoJobs
  <2>3. actor \in [Actors -> ActorState]
    BY IdleIsTyped DEF Init
  <2>. QED  BY <2>1, <2>2, <2>3 DEF Init, TypeOK
<1>2. Idle.pc = "idle" /\ Idle.queue = {}
  BY DEF Idle
<1>3. \A x \in Actors : Held(x) /\ ~Holds(x)
  BY <1>2 DEF Init, Held, Holds
<1>. QED  BY <1>1, <1>3
          DEF RequestInv, HoldersDiffer, Init, RunsAtMostOnce, StatusTellsTheRun, HasStatus

LEMMA NextKeepsRequestInv == RequestInv /\ [Next]_vars => RequestInv'
<1>. SUFFICES ASSUME RequestInv, [Next]_vars PROVE RequestInv'
  OBVIOUS
<1>1. CASE Edits
  BY <1>1, EditsKeepRequestInv, InsertKeepsRequestInv DEF Edits
<1>2. ASSUME NEW p \in Pages, Begin(p) \/ SeedStep(p) PROVE RequestInv'
  BY <1>2, BeginKeepsRequestInv, SeedKeepsRequestInv DEF Actors
<1>3. ASSUME NEW e \in Engines, Sweep(e) PROVE RequestInv'
  BY <1>3, BeginKeepsRequestInv, SeedKeepsRequestInv, ReconcileKeepsRequestInv,
     FetchKeepsRequestInv, ClaimKeepsRequestInv, LookKeepsRequestInv, ActKeepsRequestInv,
     FinishKeepsRequestInv, StampKeepsRequestInv DEF Sweep, Actors
<1>4. ASSUME NEW e \in Engines, Crash(e) PROVE RequestInv'
  BY <1>4, FailKeepsRequestInv DEF Actors
<1>5. ASSUME NEW e \in Engines, NEW i \in Ids, Fire(e, i) \/ RecordRun(e, i)
      PROVE  RequestInv'
  BY <1>5, JobsKeepRequestInv
<1>6. ASSUME NEW x \in Actors, Raise(x) PROVE RequestInv'
  BY <1>6, FailKeepsRequestInv
<1>7. CASE UNCHANGED vars
  <2>1. TypeOK' /\ UNCHANGED <<requests, ran, actor>>
    BY <1>7 DEF vars, tables, history, RequestInv, TypeOK
  <2>. QED  BY <2>1, OthersKeepRequestInv
<1>. QED  BY <1>1, <1>2, <1>3, <1>4, <1>5, <1>6, <1>7 DEF Next

\* The inductive invariant of run_pending_requests: the request an engine
\* works on is RUNNING, nobody else's, and has run or not as its step says.
THEOREM RequestInvariance == Spec => []RequestInv
BY InitRequestInv, NextKeepsRequestInv, PTL DEF Spec

\* Every variable keeps its type.
THEOREM SchedulerTypeCorrectness == Spec => []TypeOK
<1>1. RequestInv => TypeOK
  BY DEF RequestInv
<1>. QED  BY <1>1, RequestInvariance, PTL

\* The compare-and-set claim of run_pending_requests keeps any number of
\* engines from running one click twice, whatever fails in between.
THEOREM OneClickRunsOnce == Spec => []RunsAtMostOnce
<1>1. RequestInv => RunsAtMostOnce
  BY DEF RequestInv
<1>. QED  BY <1>1, RequestInvariance, PTL

\* A SUCCESS, PARTIAL or FAILED request has run; a PENDING or CANCELLED
\* one has not.
THEOREM StatusIsTruthful == Spec => []StatusTellsTheRun
<1>1. RequestInv => StatusTellsTheRun
  BY DEF RequestInv
<1>. QED  BY <1>1, RequestInvariance, PTL

(***************************************************************************)
(* seed_defaults.                                                          *)
(***************************************************************************)
\* A step by which nobody begins to create defaults, or creates one.
Elsewhere ==
  /\ UNCHANGED <<seeded, origin>>
  /\ \A x \in Actors : actor'[x].pc = "create"
                       => actor[x].pc = "create" /\ actor'[x].left = actor[x].left

LEMMA ElsewhereKeepsSeedInv == SeedInv /\ Elsewhere => SeedInv'
BY DEF SeedInv, Elsewhere, DefaultsCreatedOnce

\* Most steps are such steps.
LEMMA MostStepsAreElsewhere ==
  ASSUME TypeOK
  PROVE  /\ \A x \in Actors : Begin(x) \/ EndSeed(x) \/ Raise(x) => Elsewhere
         /\ \A e \in Engines, r \in Requests : Claim(e, r) => Elsewhere
         /\ \A e \in Engines, i \in Ids : Fire(e, i) \/ RecordRun(e, i) => Elsewhere
         /\ \A e \in Engines : \/ Read(e) \/ Apply(e) \/ Fetch(e) \/ Look(e) \/ Act(e)
                              \/ Finish(e) \/ Stamp(e) \/ Crash(e) => Elsewhere
<1>. USE DEF Elsewhere, tables, history
<1>1. \A x \in Actors, pc \in Pc \ {"create"} : GoTo(x, pc) =>
        \A y \in Actors : actor'[y].pc = "create"
                          => actor[y].pc = "create" /\ actor'[y].left = actor[y].left
  BY DEF TypeOK, ActorState, GoTo
<1>2. \A x \in Actors : End(x) =>
        \A y \in Actors : actor'[y].pc = "create"
                          => actor[y].pc = "create" /\ actor'[y].left = actor[y].left
  BY DEF TypeOK, End, Idle
<1>3. \A x \in Actors, S \in SUBSET Requests : NextRequest(x, S) =>
        \A y \in Actors : actor'[y].pc = "create"
                          => actor[y].pc = "create" /\ actor'[y].left = actor[y].left
  BY <1>2 DEF TypeOK, NextRequest, Idle
<1>4. ASSUME NEW x \in Actors, Begin(x) \/ EndSeed(x) \/ Raise(x) PROVE Elsewhere
  BY <1>1, <1>2, <1>4 DEF Begin, EndSeed, AfterSeed, Raise, Fail, Pc
<1>5. ASSUME NEW e \in Engines
      PROVE  e \in Actors /\ actor[e] \in ActorState /\ actor[e].queue \in SUBSET Requests
  BY DEF Actors, TypeOK, ActorState
<1>6. ASSUME NEW e \in Engines, NEW r \in Requests, Claim(e, r) PROVE Elsewhere
  <2>1. CASE r \in Pending
    <3>1. /\ actor' = [actor EXCEPT ![e].pc = "look", ![e].cur = r, ![e].queue = @ \ {r}]
          /\ UNCHANGED <<seeded, origin>>
      BY <1>6, <2>1 DEF Claim, Take
    <3>. QED  BY <1>5, <3>1 DEF TypeOK, ActorState
  <2>2. CASE r \notin Pending
    <3>1. NextRequest(e, actor[e].queue \ {r}) /\ actor[e].queue \ {r} \in SUBSET Requests
      BY <1>5, <1>6, <2>2 DEF Claim
    <3>. QED  BY <1>3, <1>5, <1>6, <3>1 DEF Claim
  <2>. QED  BY <2>1, <2>2
<1>7. ASSUME NEW e \in Engines, NEW i \in Ids, Fire(e, i) \/ RecordRun(e, i) PROVE Elsewhere
  BY <1>7 DEF Fire, RecordRun
<1>8. ASSUME NEW e \in Engines, Apply(e) \/ Crash(e) PROVE Elsewhere
  BY <1>1, <1>2, <1>5, <1>8 DEF Apply, Crash, Fail, Pc
<1>9. ASSUME NEW e \in Engines, Read(e) \/ Look(e) \/ Act(e) PROVE Elsewhere
  <2>1. \A me : actor' = [actor EXCEPT ![e] = me] /\ me.pc # "create" => Elsewhere
    BY <1>9 DEF Read, Look, Act, TypeOK
  <2>2. CASE Read(e)
    <3> DEFINE me == [actor[e] EXCEPT !.pc = "apply", !.records = jobs]
    <3>1. actor' = [actor EXCEPT ![e] = me] /\ me.pc # "create"
      BY <1>5, <2>2 DEF Read, TypeOK, ActorState
    <3>. QED  BY <2>1, <3>1
  <2>3. CASE Look(e)
    <3> DEFINE i == requests[actor[e].cur].job
               found == [actor[e] EXCEPT !.pc = "act", !.job = i]
               gone == [actor[e] EXCEPT !.pc = "finish", !.outcome = "CANCELLED"]
    <3>1. found.pc # "create" /\ gone.pc # "create"
      BY <1>5 DEF ActorState
    <3>2. actor' = [actor EXCEPT ![e] = found] \/ actor' = [actor EXCEPT ![e] = gone]
      BY <1>5, <2>3 DEF Look, TypeOK
    <3>. QED  BY <2>1, <3>1, <3>2
  <2>4. CASE Act(e)
    <3>1. PICK outcome \in RunStatus :
            actor' = [actor EXCEPT ![e].pc = "finish", ![e].outcome = outcome]
      BY <2>4 DEF Act
    <3> DEFINE me == [actor[e] EXCEPT !.pc = "finish", !.outcome = outcome]
    <3>2. actor' = [actor EXCEPT ![e] = me] /\ me.pc # "create"
      BY <1>5, <3>1 DEF TypeOK, ActorState
    <3>. QED  BY <2>1, <3>2
  <2>. QED  BY <1>9, <2>2, <2>3, <2>4
<1>10. ASSUME NEW e \in Engines, Fetch(e) PROVE Elsewhere
  <2>1. NextRequest(e, Pending) /\ Pending \in SUBSET Requests
    BY <1>10 DEF Fetch, Pending
  <2>. QED  BY <1>3, <1>5, <1>10, <2>1 DEF Fetch
<1>11. ASSUME NEW e \in Engines, Finish(e) \/ Stamp(e) PROVE Elsewhere
  BY <1>1, <1>3, <1>5, <1>11 DEF Finish, Stamp, Pc
<1>. QED  BY <1>4, <1>6, <1>7, <1>8, <1>9, <1>10, <1>11

LEMMA SeedKeepsSeedInv ==
  ASSUME TypeOK, SeedInv, NEW x \in Actors, Seed(x)
  PROVE  SeedInv'
<1>1. CASE seeded
  <2>1. AfterSeed(x) /\ UNCHANGED <<seeded, origin>>
    BY <1>1 DEF Seed, history
  <2>2. Elsewhere
    <3>1. CASE x \in Engines
      BY <2>1, <3>1 DEF Elsewhere, AfterSeed, GoTo, TypeOK, ActorState
    <3>2. CASE x \notin Engines
      BY <2>1, <3>2 DEF Elsewhere, AfterSeed, End, Idle, TypeOK
    <3>. QED  BY <3>1, <3>2
  <2>. QED  BY <2>2, ElsewhereKeepsSeedInv
<1>2. CASE ~seeded
  <2>1. /\ seeded' /\ UNCHANGED origin
        /\ actor' = [actor EXCEPT ![x].pc = "create", ![x].left = Defaults]
    BY <1>2 DEF Seed, history
  <2>2. \A y \in Actors : actor'[y].pc = "create" => y = x
    BY <1>2, <2>1 DEF SeedInv, TypeOK
  <2>3. actor'[x].left = Defaults
    BY <2>1 DEF TypeOK, ActorState
  <2>. QED  BY <1>2, <2>1, <2>2, <2>3 DEF SeedInv, DefaultsCreatedOnce
<1>. QED  BY <1>1, <1>2

LEMMA CreateDefaultKeepsSeedInv ==
  ASSUME TypeOK, SeedInv, NEW x \in Actors, NEW d \in Defaults, NEW i \in Ids,
         NEW trigger \in Triggers, CreateDefault(x, d, i, trigger)
  PROVE  SeedInv'
<1>1. /\ actor[x].pc = "create" /\ d \in actor[x].left /\ seeded /\ UNCHANGED seeded
      /\ origin' = [origin EXCEPT ![i] = d]
      /\ actor' = [actor EXCEPT ![x].left = @ \ {d}]
  BY DEF CreateDefault, Insert, SeedInv
<1>2. /\ actor'[x].left = actor[x].left \ {d}
      /\ \A y \in Actors : actor'[y].pc = actor[y].pc
  BY <1>1 DEF TypeOK, ActorState
<1>3. origin'[i] = d /\ \A j \in Ids \ {i} : origin'[j] = origin[j] /\ origin[j] # d
  BY <1>1 DEF TypeOK, SeedInv
<1>. QED  BY <1>1, <1>2, <1>3 DEF SeedInv, DefaultsCreatedOnce

LEMMA EditsKeepSeedInv ==
  ASSUME TypeOK, SeedInv, Edits
  PROVE  SeedInv'
<1>1. ASSUME NEW i \in Ids, NEW kind \in Kinds, NEW trigger \in Triggers,
             NEW enabled \in BOOLEAN, CreateJob(i, kind, trigger, enabled)
      PROVE  SeedInv'
  <2>1. UNCHANGED <<seeded, actor>> /\ origin' = [origin EXCEPT ![i] = "user"]
    BY <1>1 DEF CreateJob, Edit, Insert
  <2>2. /\ origin'[i] \notin Defaults
        /\ \A j \in Ids : j # i => origin'[j] = origin[j]
        /\ \A x \in Actors : actor[x].left \subseteq Defaults
    BY <2>1, DefaultsAreKinds DEF TypeOK, ActorState
  <2>. QED  BY <2>1, <2>2 DEF SeedInv, DefaultsCreatedOnce
<1>2. Elsewhere \/ \E i \in Ids, kind \in Kinds, trigger \in Triggers, enabled \in BOOLEAN :
                     CreateJob(i, kind, trigger, enabled)
  BY DEF Edits, UpdateJob, DeleteJob, SetEnabled, Click, InsertRequest, Edit, Elsewhere,
         tables, history
<1>. QED  BY <1>1, <1>2, ElsewhereKeepsSeedInv

LEMMA NextKeepsSeedInv == TypeOK /\ SeedInv /\ [Next]_vars => SeedInv'
<1>. SUFFICES ASSUME TypeOK, SeedInv, [Next]_vars PROVE SeedInv'
  OBVIOUS
<1>1. ASSUME NEW x \in Actors, SeedStep(x) PROVE SeedInv'
  BY <1>1, SeedKeepsSeedInv, CreateDefaultKeepsSeedInv, MostStepsAreElsewhere,
     ElsewhereKeepsSeedInv DEF SeedStep
<1>2. ASSUME NEW e \in Engines, Sweep(e) \/ Crash(e) PROVE SeedInv'
  BY <1>1, <1>2, MostStepsAreElsewhere, ElsewhereKeepsSeedInv DEF Sweep, Actors
<1>3. ASSUME NEW p \in Pages, Begin(p) \/ SeedStep(p) PROVE SeedInv'
  BY <1>1, <1>3, MostStepsAreElsewhere, ElsewhereKeepsSeedInv DEF Actors
<1>4. UNCHANGED vars => Elsewhere
  BY DEF vars, tables, history, Elsewhere
<1>. QED  BY <1>2, <1>3, <1>4, EditsKeepSeedInv, MostStepsAreElsewhere, ElsewhereKeepsSeedInv
          DEF Next

LEMMA InitSeedInv == Init => SeedInv
BY SchedulerNoVal DEF Init, SeedInv, Idle, DefaultsCreatedOnce

\* The flag row of seed_defaults makes one caller the only one to create the
\* default schedules, and it creates each of them at most once.
THEOREM DefaultsAreCreatedOnce == Spec => []DefaultsCreatedOnce
<1>1. RequestInv => TypeOK
  BY DEF RequestInv
<1>2. SeedInv => DefaultsCreatedOnce
  BY DEF SeedInv
<1>. QED  BY <1>1, <1>2, InitSeedInv, NextKeepsSeedInv, RequestInvariance, PTL DEF Spec

(***************************************************************************)
(* Refinement of RunLedger.                                                *)
(***************************************************************************)
\* Every step that changes the requests or their history is one of these.
LEMMA OthersStutter ==
  ASSUME [Next]_vars
  PROVE  \/ UNCHANGED <<requests, ran>>
         \/ \E r \in Requests : InsertRequest(r)
         \/ \E e \in Engines : Act(e) \/ Finish(e) \/ \E r \in Requests : Claim(e, r)
<1>1. Edits => UNCHANGED <<requests, ran>> \/ \E r \in Requests : InsertRequest(r)
  BY DEF Edits, CreateJob, UpdateJob, DeleteJob, SetEnabled, Click, Edit, tables, history
<1>2. ASSUME NEW x \in Actors, Begin(x) \/ SeedStep(x) \/ Raise(x)
      PROVE  UNCHANGED <<requests, ran>>
  BY <1>2 DEF Begin, SeedStep, Seed, EndSeed, CreateDefault, Raise, Fail, tables, history
<1>3. ASSUME NEW e \in Engines,
             Read(e) \/ Apply(e) \/ Fetch(e) \/ Look(e) \/ Stamp(e) \/ Crash(e)
      PROVE  UNCHANGED <<requests, ran>>
  BY <1>3 DEF Read, Apply, Fetch, Look, Stamp, Crash, Fail, tables, history
<1>4. ASSUME NEW e \in Engines, NEW i \in Ids, Fire(e, i) \/ RecordRun(e, i)
      PROVE  UNCHANGED <<requests, ran>>
  BY <1>4 DEF Fire, RecordRun, tables, history
<1>5. UNCHANGED vars => UNCHANGED <<requests, ran>>
  BY DEF vars, tables, history
<1>. QED  BY <1>1, <1>2, <1>3, <1>4, <1>5 DEF Next, Sweep, Actors

\* A request's move in RunLedger, from its rows before and after.
LEMMA LedgerMove ==
  ASSUME NEW r \in Requests, NEW from, NEW to,
         \A q \in Requests \ {r} : requests'[q] = requests[q],
         LedgerState[r] = from, LedgerState'[r] = to, UNCHANGED ran
  PROVE  Ledger!Move(r, from, to)
<1>1. \A q \in Requests \ {r} : LedgerState'[q] = LedgerState[q]
  BY DEF LedgerState, HasStatus
<1>2. LedgerState' = [LedgerState EXCEPT ![r] = to]
  BY <1>1 DEF LedgerState
<1>. QED  BY <1>2 DEF Ledger!Move

LEMMA NextLedger ==
  ASSUME RequestInv, RequestInv', [Next]_vars
  PROVE  Ledger!Next \/ UNCHANGED <<LedgerState, ran>>
<1>1. CASE UNCHANGED <<requests, ran>>
  BY <1>1 DEF LedgerState, HasStatus
<1>2. ASSUME NEW r \in Requests, InsertRequest(r) PROVE Ledger!Submit(r)
  <2> DEFINE row == [job |-> clicks[r], at |-> asked, status |-> "PENDING"]
  <2>1. /\ requests[r] = NoVal /\ row \in Request /\ row.status = "PENDING" /\ UNCHANGED ran
        /\ requests' = [requests EXCEPT ![r] = row]
    BY <1>2 DEF InsertRequest, history, RequestInv, TypeOK, Request
  <2>. HIDE DEF row
  <2>2. row # NoVal
    BY <2>1, SchedulerNoVal DEF Request, Closed, RunStatus
  <2>3. /\ HasStatus(r, {"PENDING"})'
        /\ \A q \in Requests \ {r} : requests'[q] = requests[q]
    BY <2>1, <2>2 DEF RequestInv, TypeOK, HasStatus
  <2>4. LedgerState[r] = "new" /\ LedgerState'[r] = "waiting"
    BY <2>1, <2>3 DEF LedgerState, HasStatus
  <2>. QED  BY <2>1, <2>3, <2>4, LedgerMove DEF Ledger!Submit
<1>3. ASSUME NEW e \in Engines, NEW r \in Requests, Claim(e, r)
      PROVE  Ledger!Claim(r) \/ UNCHANGED <<requests, ran>>
  <2>1. CASE r \notin Pending
    BY <1>3, <2>1 DEF Claim, history
  <2>2. CASE r \in Pending
    <3>1. HasStatus(r, {"PENDING"}) /\ Take(e, r) /\ UNCHANGED ran
      BY <1>3, <2>2 DEF Claim, Pending, history
    <3>2. /\ HasStatus(r, {"RUNNING"})'
          /\ \A q \in Requests \ {r} : requests'[q] = requests[q]
      BY <3>1, WithStatus DEF Take, RequestInv, TypeOK, HasStatus
    <3>3. LedgerState[r] = "waiting" /\ LedgerState'[r] = "claimed"
      BY <3>1, <3>2 DEF LedgerState, HasStatus
    <3>. QED  BY <3>1, <3>2, <3>3, LedgerMove DEF Ledger!Claim
  <2>. QED  BY <2>1, <2>2
<1>4. ASSUME NEW e \in Engines, Act(e) PROVE Ledger!Run(actor[e].cur)
  <2>1. /\ Held(e) /\ Holds(e) /\ actor[e].pc = "act"
    BY <1>4 DEF Act, RequestInv, Holds, Actors
  <2>2. /\ actor[e].cur \in Requests /\ HasStatus(actor[e].cur, {"RUNNING"})
        /\ ran[actor[e].cur] = 0
    BY <2>1 DEF Held
  <2>3. ran' = [ran EXCEPT ![actor[e].cur] = 1] /\ UNCHANGED requests
    BY <1>4, <2>2 DEF Act, tables
  <2>4. LedgerState[actor[e].cur] = "claimed" /\ UNCHANGED LedgerState
    BY <2>2, <2>3 DEF LedgerState, HasStatus
  <2>. QED  BY <2>2, <2>3, <2>4 DEF Ledger!Run
<1>5. ASSUME NEW e \in Engines, Finish(e) PROVE Ledger!Close(actor[e].cur)
  <2>1. /\ Held(e) /\ Holds(e) /\ actor[e].pc = "finish" /\ UNCHANGED ran
    BY <1>5 DEF Finish, RequestInv, Holds, Actors, history
  <2>2. PICK r \in Requests, status \in Closed :
          /\ r = actor[e].cur /\ HasStatus(r, {"RUNNING"})
          /\ requests' = [requests EXCEPT ![r] = [@ EXCEPT !.status = status]]
    BY <1>5, <2>1 DEF Finish, Held, Closed
  <2>3. /\ requests'[r] # NoVal /\ requests'[r].status = status
        /\ \A q \in Requests \ {r} : requests'[q] = requests[q]
    <3>1. requests[r] # NoVal /\ status \in {"RUNNING"} \cup Closed
      BY <2>2 DEF HasStatus
    <3>2. requests \in [Requests -> Request \cup {NoVal}]
      BY DEF RequestInv, TypeOK
    <3>. QED  BY <2>2, <3>1, <3>2, WithStatus
  <2>4. LedgerState[r] = "claimed" /\ LedgerState'[r] = "closed"
    BY <2>2, <2>3 DEF LedgerState, HasStatus, Closed, RunStatus
  <2>. QED  BY <2>1, <2>2, <2>3, <2>4, LedgerMove DEF Ledger!Close
<1>6. \A e \in Engines : Act(e) \/ Finish(e) => actor[e].cur \in Requests
  BY DEF Act, Finish, RequestInv, Held, Holds, Actors
<1>. QED  BY <1>1, <1>2, <1>3, <1>4, <1>5, <1>6, OthersStutter DEF Ledger!Next

LEMMA InitLedgerState == Init => Ledger!Init
BY DEF Init, Ledger!Init, LedgerState, HasStatus

\* The request table and its workers implement RunLedger: a request is
\* claimed once, run at most once and by its claimer, and stays closed.
THEOREM RequestsImplementLedger == Spec => ImplementsRunLedger
<1>1. RequestInv /\ RequestInv' /\ [Next]_vars => [Ledger!Next]_<<LedgerState, ran>>
  BY NextLedger
<1>. QED  BY <1>1, InitLedgerState, RequestInvariance, PTL
          DEF Spec, ImplementsRunLedger, Ledger!Spec

=============================================================================
