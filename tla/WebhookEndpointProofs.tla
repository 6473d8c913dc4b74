----------------------- MODULE WebhookEndpointProofs -----------------------
(***************************************************************************)
(* Proofs about EndpointLimiter and WebhookSubscriptions, for any number of*)
(* tasks, subscriptions and requests, any cap, window and clock.           *)
(***************************************************************************)
EXTENDS WebhookSubscriptions, FiniteSetTheorems, TLAPS

(* The waiting tasks are the queue: without this a hand-over could grant a *)
(* slot to a task that has one already, and the count of holders would not *)
(* change as the counter does.                                             *)
LimiterInv == TypeOK /\ QueueIsExact /\ SlotsAddUp /\ NobodyWaitsInVain

-----------------------------------------------------------------------------
(* Nobody holds or waits for a slot at first.                              *)
LEMMA LimiterInit == Init => LimiterInv
<1>. SUFFICES ASSUME Init PROVE LimiterInv
  OBVIOUS
<1>1. TypeOK /\ QueueIsExact /\ NobodyWaitsInVain
  BY DEF Init, TypeOK, Stages, QueueIsExact, NobodyWaitsInVain
<1>2. Holders = {}
  BY DEF Init, Holders
<1>3. SlotsAddUp
  BY <1>2, FS_EmptySet, LimiterAssumption DEF Init, SlotsAddUp
<1>. QED  BY <1>1, <1>3 DEF LimiterInv

(* The holders are finitely many.                                          *)
LEMMA HoldersFinite == IsFiniteSet(Holders) /\ Cardinality(Holders) \in Nat
<1>1. Holders \in SUBSET Tasks
  BY DEF Holders
<1>2. IsFiniteSet(Holders)
  BY <1>1, FS_Subset, LimiterAssumption
<1>. QED  BY <1>2, FS_CardinalityType

(* A free slot goes to the caller.                                         *)
LEMMA AcquireKeeps ==
  ASSUME LimiterInv, NEW t \in Tasks, Acquire(t)
  PROVE  LimiterInv'
<1>. USE DEF LimiterInv
<1>1. TypeOK'
  BY DEF TypeOK, Acquire, Stages
<1>2. QueueIsExact'
  BY DEF TypeOK, QueueIsExact, Acquire
<1>3. Holders' = Holders \cup {t} /\ t \notin Holders
  BY DEF TypeOK, Holders, Acquire, Stages
<1>4. Cardinality(Holders') = Cardinality(Holders) + 1
  BY <1>3, HoldersFinite, FS_AddElement
<1>5. SlotsAddUp'
  BY <1>4, HoldersFinite, LimiterAssumption DEF SlotsAddUp, Acquire
<1>6. NobodyWaitsInVain'
  BY LimiterAssumption DEF NobodyWaitsInVain, Acquire, TypeOK
<1>. QED  BY <1>1, <1>2, <1>5, <1>6

(* No slot is free: the caller joins the queue, in which it was not.       *)
LEMMA WaitKeeps ==
  ASSUME LimiterInv, NEW t \in Tasks, Wait(t)
  PROVE  LimiterInv'
<1>. USE DEF LimiterInv
<1>1. TypeOK'
  BY DEF TypeOK, Wait, Stages
<1>2. /\ Len(waiters') = Len(waiters) + 1 /\ Len(waiters) \in Nat
      /\ \A i \in 1..Len(waiters) : waiters'[i] = waiters[i]
      /\ waiters'[Len(waiters) + 1] = t
  BY DEF TypeOK, Wait
<1>3. \A i \in 1..Len(waiters) : waiters[i] # t
  BY DEF TypeOK, QueueIsExact, Wait
<1>4. { waiters'[i] : i \in 1..Len(waiters') } = { waiters[i] : i \in 1..Len(waiters) } \cup {t}
  <2>1. \A i : i \in 1..Len(waiters') <=> i \in 1..Len(waiters) \/ i = Len(waiters) + 1
    BY <1>2
  <2>. QED  BY <1>2, <2>1
<1>5. { u \in Tasks : stage'[u] = "waiting" } = { u \in Tasks : stage[u] = "waiting" } \cup {t}
  BY DEF TypeOK, Wait
<1>6. QueueIsExact'
  BY <1>2, <1>3, <1>4, <1>5 DEF QueueIsExact
<1>7. Holders' = Holders
  BY DEF TypeOK, Holders, Wait
<1>8. SlotsAddUp' /\ NobodyWaitsInVain'
  BY <1>7, LimiterAssumption DEF SlotsAddUp, NobodyWaitsInVain, Wait, TypeOK
<1>. QED  BY <1>1, <1>6, <1>8

(* A granted slot stays the task's while it runs.                          *)
LEMMA StartKeeps ==
  ASSUME LimiterInv, NEW t \in Tasks, Start(t)
  PROVE  LimiterInv'
<1>. USE DEF LimiterInv
<1>1. TypeOK'
  BY DEF TypeOK, Start, Stages
<1>2. Holders' = Holders
  BY DEF TypeOK, Holders, Start
<1>3. { u \in Tasks : stage'[u] = "waiting" } = { u \in Tasks : stage[u] = "waiting" }
  BY DEF TypeOK, Start
<1>4. QueueIsExact' /\ SlotsAddUp' /\ NobodyWaitsInVain'
  BY <1>2, <1>3 DEF QueueIsExact, SlotsAddUp, NobodyWaitsInVain, Start
<1>. QED  BY <1>1, <1>4

(* A slot changes hands: one holder goes, the first waiter comes.          *)
LEMMA HandOverKeeps ==
  ASSUME LimiterInv, NEW t \in Tasks, HandOver(t)
  PROVE  LimiterInv'
<1>. USE DEF LimiterInv
<1>. DEFINE h == Head(waiters)
<1>1. /\ Len(waiters) \in Nat \ {0} /\ h = waiters[1] /\ h \in Tasks
      /\ Len(waiters') = Len(waiters) - 1
      /\ \A i \in 1..Len(waiters') : waiters'[i] = waiters[i + 1]
      /\ waiters' \in Seq(Tasks)
  BY DEF TypeOK, HandOver
<1>2. stage[h] = "waiting" /\ h # t
  BY <1>1 DEF QueueIsExact, HandOver
<1>. HIDE DEF h
<1>3. stage' = [stage EXCEPT ![t] = "idle", ![h] = "granted"]
  BY DEF HandOver, h
<1>4. TypeOK'
  BY <1>1, <1>3 DEF TypeOK, HandOver, Stages
<1>5. { u \in Tasks : stage'[u] = "waiting" } = { u \in Tasks : stage[u] = "waiting" } \ {h}
  BY <1>1, <1>2, <1>3 DEF TypeOK, HandOver
<1>6. { waiters'[i] : i \in 1..Len(waiters') } = { waiters[i] : i \in 1..Len(waiters) } \ {h}
  <2>1. \A i \in 1..Len(waiters') : i + 1 \in 1..Len(waiters) /\ i + 1 # 1
    BY <1>1
  <2>2. \A i \in 1..Len(waiters) : i # 1 => i - 1 \in 1..Len(waiters') /\ i = (i - 1) + 1
    BY <1>1
  <2>3. \A i \in 1..Len(waiters) : waiters[i] = h <=> i = 1
    BY <1>1 DEF QueueIsExact
  <2>4. \A i \in 1..Len(waiters') :
          \E k \in 1..Len(waiters) : waiters'[i] = waiters[k] /\ waiters[k] # h
    BY <1>1, <2>1, <2>3
  <2>5. \A k \in 1..Len(waiters) : waiters[k] # h =>
          \E i \in 1..Len(waiters') : waiters[k] = waiters'[i]
    BY <1>1, <2>2, <2>3
  <2>. DEFINE Old == { waiters[i] : i \in 1..Len(waiters) }
              New == { waiters'[i] : i \in 1..Len(waiters') }
  <2>6. \A x : x \in New => x \in Old /\ x # h
    BY <2>4
  <2>7. \A x : x \in Old /\ x # h => x \in New
    BY <2>5
  <2>. HIDE DEF Old, New
  <2>8. New = Old \ {h}
    BY <2>6, <2>7
  <2>. QED  BY <2>8 DEF Old, New
<1>7. \A i, j \in 1..Len(waiters') : waiters'[i] = waiters'[j] => i = j
  BY <1>1 DEF QueueIsExact
<1>8. QueueIsExact'
  BY <1>5, <1>6, <1>7 DEF QueueIsExact
<1>9. Holders' = (Holders \ {t}) \cup {h} /\ t \in Holders /\ h \notin Holders
  BY <1>1, <1>2, <1>3 DEF TypeOK, Holders, HandOver
<1>10. Cardinality(Holders') = Cardinality(Holders)
  <2>1. /\ IsFiniteSet(Holders \ {t})
        /\ Cardinality(Holders \ {t}) = Cardinality(Holders) - 1
    BY <1>9, HoldersFinite, FS_RemoveElement
  <2>2. Cardinality((Holders \ {t}) \cup {h}) = Cardinality(Holders \ {t}) + 1
    BY <1>9, <2>1, FS_AddElement
  <2>. QED  BY <1>9, <2>1, <2>2, HoldersFinite
<1>11. SlotsAddUp'
  BY <1>10 DEF SlotsAddUp, HandOver
<1>12. NobodyWaitsInVain'
  BY DEF NobodyWaitsInVain, HandOver
<1>. QED  BY <1>4, <1>8, <1>11, <1>12

(* Nobody waits: the slot is given back, and there was one to give.        *)
LEMMA GiveBackKeeps ==
  ASSUME LimiterInv, NEW t \in Tasks, GiveBack(t)
  PROVE  LimiterInv'
<1>. USE DEF LimiterInv
<1>1. TypeOK'
  BY DEF TypeOK, GiveBack, Stages
<1>2. { u \in Tasks : stage'[u] = "waiting" } = { u \in Tasks : stage[u] = "waiting" }
  BY DEF TypeOK, GiveBack
<1>3. QueueIsExact'
  BY <1>2 DEF QueueIsExact, GiveBack
<1>4. Holders' = Holders \ {t} /\ t \in Holders
  BY DEF TypeOK, Holders, GiveBack
<1>5. Cardinality(Holders') = Cardinality(Holders) - 1 /\ Cardinality(Holders') \in Nat
  BY <1>4, HoldersFinite, FS_RemoveElement, FS_CardinalityType
<1>6. SlotsAddUp'
  BY <1>5, HoldersFinite, LimiterAssumption DEF SlotsAddUp, GiveBack
<1>7. NobodyWaitsInVain'
  BY DEF NobodyWaitsInVain, GiveBack
<1>. QED  BY <1>1, <1>3, <1>6, <1>7

(* Every step of the limiter keeps the invariant.                          *)
LEMMA LimiterStep == LimiterInv /\ [Next]_vars => LimiterInv'
<1>. SUFFICES ASSUME LimiterInv, [Next]_vars PROVE LimiterInv'
  OBVIOUS
<1>1. CASE UNCHANGED vars
  BY <1>1 DEF vars, LimiterInv, TypeOK, QueueIsExact, SlotsAddUp, Holders, NobodyWaitsInVain
<1>2. CASE Next
  BY <1>2, AcquireKeeps, WaitKeeps, StartKeeps, HandOverKeeps, GiveBackKeeps DEF Next
<1>. QED  BY <1>1, <1>2

(* run(): whatever the order of requests and hand-overs, the limiter keeps *)
(* counter, queue and holders in step.                                     *)
THEOREM LimiterAlways == Spec => []LimiterInv
BY LimiterInit, LimiterStep, PTL DEF Spec

(* release(): the counter neither drifts down nor up, and the cap holds.   *)
THEOREM SlotsAlwaysAddUp == Spec => []SlotsAddUp
<1>1. LimiterInv => SlotsAddUp
  BY DEF LimiterInv
<1>. QED  BY <1>1, LimiterAlways, PTL

(* acquire(), release(): nobody waits while a slot is free.                *)
THEOREM NobodyEverWaitsInVain == Spec => []NobodyWaitsInVain
<1>1. LimiterInv => NobodyWaitsInVain
  BY DEF LimiterInv
<1>. QED  BY <1>1, LimiterAlways, PTL

-----------------------------------------------------------------------------
(* The subscriptions of a bond, with the limiter.                          *)

(* A row that exists has a status and a secret.                            *)
Live(row) == row \in Rows /\ row.status # "none" /\ row.secret \in Secrets

(* What a request or a delivery is about to save is a live row of some     *)
(* subscription; a rotation is saved at the moment at which it was loaded, *)
(* as the clock waits for it.                                              *)
RequestSound(r) ==
  /\ r.op = "update" => r.sub \in Subscriptions /\ Live(r.row)
  /\ r.op = "rotate" =>
       r.sub \in Subscriptions /\ Live(r.row) /\ r.row.prev \in Secrets /\ r.row.until = time + Grace
JobSound(j) ==
  /\ j.phase # "none" => j.sub \in Subscriptions
  /\ j.phase = "save" => Live(j.row)
  /\ j.phase = "ready" => j.at \in Time /\ j.at <= time

RowsLive ==
  /\ \A s \in Subscriptions : Exists(s) => Live(sub[s])
  /\ \A q \in Requests : RequestSound(request[q])
  /\ \A t \in Tasks : JobSound(job[t])
  /\ \A r \in rotations : r.at <= time

Shapes == SubTypeOK /\ RowsLive

(* The types of a request and of a delivery, as the type invariant has them*)
RequestType == [op : {"idle", "create", "update", "rotate"},
                sub : Subscriptions \cup {NoSub}, row : Rows]
JobType == [phase : {"none", "ready", "sent", "apply", "save"},
            sub : Subscriptions \cup {NoSub},
            since : Time \cup {Never}, secrets : SUBSET Secrets,
            at : Time \cup {Never}, row : Rows,
            outcome : {"none", "success", "failure", "gone"}]

(* Of the failures F, one of s that came at a moment or before it.         *)
HasFailed(F, s, at) == \E f \in F : f.sub = s /\ f.at <= at

(* A streak began with a failure that was counted, and so did the streak   *)
(* for which a row was disabled: in the table, in every copy of a row that *)
(* may still be saved over it, and in what a delivery remembers.           *)
Founded(F, now, s, row) ==
  /\ row.since # Never => HasFailed(F, s, row.since)
  /\ row.status = "auto" => HasFailed(F, s, now - DisableAfter)
StreaksFounded ==
  /\ \A s \in Subscriptions : Founded(failures, time, s, sub[s])
  /\ \A q \in Requests : request[q].op \in {"update", "rotate"} =>
       Founded(failures, time, request[q].sub, request[q].row)
  /\ \A t \in Tasks :
       /\ job[t].since # Never => HasFailed(failures, job[t].sub, job[t].since)
       /\ job[t].phase = "save" => Founded(failures, time, job[t].sub, job[t].row)

(* The empty row, request and delivery have their types and hold no row.   *)
LEMMA NothingHeld ==
  /\ NoRow \in Rows /\ NoRow.status = "none" /\ NoRow.since = Never
  /\ NoRequest \in RequestType /\ NoRequest.op = "idle" /\ RequestSound(NoRequest)
  /\ NoJob \in JobType /\ NoJob.phase = "none" /\ NoJob.since = Never /\ JobSound(NoJob)
<1>1. NoRow \in Rows /\ NoRow.status = "none" /\ NoRow.since = Never
  BY SubscriptionsAssumption DEF NoRow, Row, Rows, Never, Time
<1>2. NoRequest \in RequestType /\ NoRequest.op = "idle"
  BY <1>1 DEF NoRequest, Request, RequestType
<1>3. NoJob \in JobType /\ NoJob.phase = "none" /\ NoJob.since = Never
  BY <1>1 DEF NoJob, Job, JobType
<1>. QED  BY <1>1, <1>2, <1>3 DEF RequestSound, JobSound

(* The shapes hold at first.                                               *)
LEMMA ShapesInit == SubInit => Shapes
<1>. SUFFICES ASSUME SubInit PROVE Shapes
  OBVIOUS
<1>1. NoRow \in Rows /\ NoRow.status = "none"
  BY NothingHeld
<1>2. TypeOK
  BY LimiterInit DEF SubInit, LimiterInv
<1>3. NoRequest \in RequestType /\ RequestSound(NoRequest)
  BY NothingHeld
<1>4. NoJob \in JobType /\ JobSound(NoJob)
  BY NothingHeld
<1>5. SubTypeOK
  BY <1>1, <1>2, <1>3, <1>4, SubscriptionsAssumption
     DEF SubInit, SubTypeOK, Time, RequestType, JobType
<1>6. RowsLive
  BY <1>1, <1>3, <1>4 DEF SubInit, RowsLive, Exists
<1>. QED  BY <1>5, <1>6 DEF Shapes

(* Every step of a subscription is a step of the limiter or leaves it be.  *)
LEMMA LimiterSteps == [SubNext]_allVars => [Next]_vars
<1>. SUFFICES ASSUME [SubNext]_allVars PROVE [Next]_vars
  OBVIOUS
<1>1. CASE UNCHANGED allVars
  BY <1>1 DEF allVars
<1>2. ASSUME NEW q \in Requests, RequestNext(q) PROVE UNCHANGED vars
  BY <1>2 DEF RequestNext, CountFirst, SaveRequest, Abandon, Insert, LoadUpdate,
              LoadRotation, OnlySub
<1>3. ASSUME NEW s \in Subscriptions, Remove(s) PROVE UNCHANGED vars
  BY <1>3 DEF Remove, OnlySub
<1>4. ASSUME NEW t \in Tasks, TaskNext(t) PROVE [Next]_vars
  <2>1. CASE \E s \in Subscriptions : Prepare(t, s)
    BY <2>1 DEF Prepare
  <2>2. CASE Enter(t)
    BY <2>2 DEF Enter, Next
  <2>3. CASE Post(t)
    BY <2>3 DEF Post, Next
  <2>4. CASE Apply(t) \/ SaveOutcome(t)
    BY <2>4 DEF Apply, SaveOutcome
  <2>5. CASE \E outcome \in {"success", "failure", "gone", "ping"} : Respond(t, outcome)
    BY <2>5 DEF Respond, Next
  <2>. QED  BY <1>4, <2>1, <2>2, <2>3, <2>4, <2>5 DEF TaskNext
<1>5. CASE Tick
  BY <1>5 DEF Tick
<1>. QED  BY <1>1, <1>2, <1>3, <1>4, <1>5 DEF SubNext

(* What a request loads is the row of the table with another status, or    *)
(* with a secret of which the current one becomes the previous.            *)
LEMMA UpdateLoads ==
  ASSUME Shapes, NEW q \in Requests, NEW s \in Subscriptions, LoadUpdate(q, s)
  PROVE  \E r \in RequestType :
           /\ request' = [request EXCEPT ![q] = r]
           /\ r.op = "update" /\ r.sub = s /\ RequestSound(r)
           /\ r.row.since = sub[s].since /\ r.row.secret = sub[s].secret
           /\ r.row.prev = sub[s].prev /\ r.row.until = sub[s].until
           /\ r.row.status \in {"active", "disabled", sub[s].status}
<1>1. PICK status \in {"active", "disabled", sub[s].status} :
        Begin(q, Request("update", s, [sub[s] EXCEPT !.status = status]))
  BY DEF LoadUpdate
<1>2. Live(sub[s])
  BY DEF LoadUpdate, Shapes, RowsLive
<1>. DEFINE row == [sub[s] EXCEPT !.status = status]
<1>3. /\ Live(row) /\ row.status = status
      /\ row.since = sub[s].since /\ row.secret = sub[s].secret
      /\ row.prev = sub[s].prev /\ row.until = sub[s].until
  BY <1>2 DEF Live, Rows
<1>. HIDE DEF row
<1>4. Request("update", s, row) \in RequestType /\ RequestSound(Request("update", s, row))
  BY <1>3 DEF Request, RequestType, RequestSound, Live
<1>5. request' = [request EXCEPT ![q] = Request("update", s, row)]
  BY <1>1 DEF Begin, row
<1>. QED  BY <1>1, <1>3, <1>4, <1>5 DEF Request

LEMMA RotationLoads ==
  ASSUME Shapes, NEW q \in Requests, NEW s \in Subscriptions, LoadRotation(q, s)
  PROVE  \E r \in RequestType :
           /\ request' = [request EXCEPT ![q] = r]
           /\ r.op = "rotate" /\ r.sub = s /\ RequestSound(r)
           /\ r.row.since = sub[s].since /\ r.row.status = sub[s].status
           /\ r.row.prev = sub[s].secret /\ r.row.until = time + Grace
<1>. DEFINE row == [sub[s] EXCEPT !.secret = issued + 1, !.prev = sub[s].secret,
                                  !.until = time + Grace]
<1>1. Live(sub[s])
  BY DEF LoadRotation, Shapes, RowsLive
<1>2. issued + 1 \in Secrets /\ issued + 1 \in 0..MaxSecrets /\ time + Grace \in 0..(MaxTime + Grace)
  BY SubscriptionsAssumption
     DEF LoadRotation, FreshSecret, Shapes, SubTypeOK, Secrets, Time
<1>3. /\ Live(row) /\ row.status = sub[s].status /\ row.since = sub[s].since
      /\ row.prev = sub[s].secret /\ row.until = time + Grace
  BY <1>1, <1>2 DEF Live, Rows, Secrets
<1>4. row.prev \in Secrets
  BY <1>1, <1>3 DEF Live
<1>. HIDE DEF row
<1>5. Request("rotate", s, row) \in RequestType /\ RequestSound(Request("rotate", s, row))
  BY <1>3, <1>4 DEF Request, RequestType, RequestSound, Live
<1>6. request' = [request EXCEPT ![q] = Request("rotate", s, row)]
  BY DEF LoadRotation, Begin, row
<1>. QED  BY <1>3, <1>5, <1>6 DEF Request

(* A delivery reads the streak of the row and signs with its secrets.      *)
LEMMA PrepareReads ==
  ASSUME Shapes, NEW t \in Tasks, NEW s \in Subscriptions, Prepare(t, s)
  PROVE  \E j \in JobType :
           /\ job' = [job EXCEPT ![t] = j]
           /\ JobSound(j) /\ j.phase = "ready" /\ j.sub = s /\ j.since = sub[s].since
           /\ j.secrets = SigningSecrets(sub[s]) /\ j.at = time
<1>. DEFINE j == Job("ready", s, sub[s].since, SigningSecrets(sub[s]), time)
<1>1. Live(sub[s]) /\ time \in Time
  BY DEF Prepare, Shapes, RowsLive, Exists, SubTypeOK
<1>2. SigningSecrets(sub[s]) \in SUBSET Secrets
  <2>1. sub[s].secret \in Secrets
    BY <1>1 DEF Live
  <2>2. sub[s].prev \in 0..MaxSecrets
    BY <1>1 DEF Live, Rows
  <2>3. sub[s].prev # 0 => sub[s].prev \in Secrets
    BY <2>2, SubscriptionsAssumption DEF Secrets
  <2>. QED  BY <2>1, <2>3 DEF SigningSecrets
<1>3. sub[s].since \in Time \cup {Never}
  BY <1>1 DEF Live, Rows
<1>4. /\ j.phase = "ready" /\ j.sub = s /\ j.since = sub[s].since
      /\ j.secrets = SigningSecrets(sub[s]) /\ j.at = time
  BY DEF Job
<1>5. j \in JobType
  BY <1>1, <1>2, <1>3, NothingHeld DEF Job, JobType
<1>6. JobSound(j)
  BY <1>1, <1>4, SubscriptionsAssumption DEF JobSound, Time
<1>7. job' = [job EXCEPT ![t] = j]
  BY DEF Prepare
<1>. HIDE DEF j
<1>. QED  BY <1>4, <1>5, <1>6, <1>7

(* Waiting, posting and hearing leave the streak that was read.            *)
LEMMA PostKeeps ==
  ASSUME Shapes, NEW t \in Tasks,
         Enter(t) \/ \E outcome \in {"success", "failure", "gone", "ping"} : Respond(t, outcome)
  PROVE  \E j \in JobType :
           /\ job' = [job EXCEPT ![t] = j]
           /\ JobSound(j) /\ j.phase \notin {"ready", "save"}
           /\ j.since = Never \/ (j.sub = job[t].sub /\ j.since = job[t].since)
           /\ UNCHANGED <<sub, request, time, issued, rotations, failures>>
<1>1. job[t] \in JobType /\ JobSound(job[t])
  BY DEF Shapes, SubTypeOK, RowsLive, JobType
<1>2. CASE Enter(t)
  <2>. DEFINE j == Job("sent", job[t].sub, job[t].since, {}, Never)
  <2>1. /\ j \in JobType /\ j.phase = "sent" /\ j.sub = job[t].sub /\ j.since = job[t].since
    BY <1>1, NothingHeld DEF Job, JobType
  <2>2. JobSound(j)
    BY <1>1, <1>2, <2>1 DEF JobSound, Enter
  <2>3. job' = [job EXCEPT ![t] = j]
    BY <1>2 DEF Enter
  <2>. HIDE DEF j
  <2>. QED  BY <1>2, <2>1, <2>2, <2>3 DEF Enter, OnlyJob
<1>3. ASSUME NEW outcome \in {"success", "failure", "gone", "ping"}, Respond(t, outcome)
      PROVE  \E j \in JobType :
               /\ job' = [job EXCEPT ![t] = j]
               /\ JobSound(j) /\ j.phase \notin {"ready", "save"}
               /\ j.since = Never \/ (j.sub = job[t].sub /\ j.since = job[t].since)
  <2>. DEFINE j == [job[t] EXCEPT !.phase = "apply", !.outcome = outcome]
  <2>1. CASE outcome = "ping"
    BY <1>3, <2>1, NothingHeld DEF Respond
  <2>2. CASE outcome # "ping"
    <3>1. /\ j \in JobType /\ j.phase = "apply" /\ j.sub = job[t].sub /\ j.since = job[t].since
      BY <1>1, <2>2 DEF JobType
    <3>2. JobSound(j)
      BY <1>1, <1>3, <3>1 DEF JobSound, Respond
    <3>3. job' = [job EXCEPT ![t] = j]
      BY <1>3, <2>2 DEF Respond
    <3>. HIDE DEF j
    <3>. QED  BY <3>1, <3>2, <3>3
  <2>. QED  BY <2>1, <2>2
<1>4. ASSUME NEW outcome \in {"success", "failure", "gone", "ping"}, Respond(t, outcome)
      PROVE  UNCHANGED <<sub, request, time, issued, rotations, failures>>
  BY <1>4 DEF Respond, OnlyJob
<1>. QED  BY <1>2, <1>3, <1>4

(* What an outcome is about to write: the row it has loaded, with a streak *)
(* that is over or that begins with the failure just counted, disabled     *)
(* only if it was or if the failure comes late in the streak that was read.*)
LEMMA ApplyLoads ==
  ASSUME Shapes, NEW t \in Tasks, Apply(t)
  PROVE  \E j \in JobType :
           /\ job' = [job EXCEPT ![t] = j]
           /\ JobSound(j)
           /\ \/ j = NoJob
              \/ /\ j.phase = "save" /\ j.sub = job[t].sub /\ j.since = job[t].since
                 /\ Exists(j.sub)
                 /\ j.row.secret = sub[j.sub].secret /\ j.row.prev = sub[j.sub].prev
                 /\ j.row.until = sub[j.sub].until
                 /\ \/ j.row.since = Never
                    \/ j.row.since = time /\ job[t].outcome = "failure"
                 /\ \/ j.row.status \in {sub[j.sub].status, "disabled"}
                    \/ j.since # Never /\ time - j.since >= DisableAfter
<1>. DEFINE i == job[t]
            p == Patch(i)
            row == [sub[i.sub] EXCEPT !.since = p.since,
                      !.status = IF p.status = "same" THEN sub[i.sub].status ELSE p.status]
            j == [i EXCEPT !.phase = "save", !.row = row]
<1>1. i \in JobType /\ i.phase = "apply" /\ i.sub \in Subscriptions
  BY DEF Shapes, SubTypeOK, RowsLive, JobSound, JobType, Apply
<1>2. /\ p.since = Never \/ (p.since = time /\ i.outcome = "failure")
      /\ p.status \in {"none", "same", "disabled", "auto"}
      /\ p.status = "auto" => i.since # Never /\ time - i.since >= DisableAfter
  BY DEF Patch
<1>3. time \in Time
  BY DEF Shapes, SubTypeOK
<1>4. CASE p.status = "none" \/ ~Exists(i.sub)
  <2>1. job' = [job EXCEPT ![t] = NoJob]
    BY <1>4 DEF Apply
  <2>. QED  BY <2>1, NothingHeld
<1>5. CASE p.status # "none" /\ Exists(i.sub)
  <2>1. Live(sub[i.sub])
    BY <1>1, <1>5 DEF Shapes, RowsLive
  <2>. HIDE DEF p, i
  <2>2. /\ Live(row) /\ row.since = p.since
        /\ row.secret = sub[i.sub].secret /\ row.prev = sub[i.sub].prev
        /\ row.until = sub[i.sub].until
        /\ row.status = (IF p.status = "same" THEN sub[i.sub].status ELSE p.status)
    BY <1>2, <1>3, <1>5, <2>1 DEF Live, Rows
  <2>. HIDE DEF row
  <2>3. /\ j \in JobType /\ j.phase = "save" /\ j.sub = i.sub /\ j.since = i.since /\ j.row = row
    BY <1>1, <2>2 DEF JobType, Live
  <2>4. JobSound(j)
    BY <1>1, <2>2, <2>3 DEF JobSound
  <2>5. job' = [job EXCEPT ![t] = j]
    BY <1>5 DEF Apply, i, p, row
  <2>. HIDE DEF j
  <2>6. \/ j.row.status \in {sub[j.sub].status, "disabled"}
        \/ j.since # Never /\ time - j.since >= DisableAfter
    BY <1>2, <1>5, <2>2, <2>3
  <2>. QED  BY <1>2, <1>5, <2>2, <2>3, <2>4, <2>5, <2>6 DEF i
<1>. QED  BY <1>4, <1>5

(* Whatever is loaded, saved, inserted or dropped, the table and the copies*)
(* in flight hold live rows, and the clock waits for what must be saved.   *)
LEMMA ShapesNext ==
  ASSUME Shapes, [SubNext]_allVars, TypeOK'
  PROVE  Shapes'
<1>0. /\ sub \in [Subscriptions -> Rows]
      /\ request \in [Requests -> RequestType]
      /\ job \in [Tasks -> JobType]
      /\ time \in Time /\ issued \in 0..MaxSecrets
      /\ rotations \subseteq [sub : Subscriptions, from : Secrets, at : Time]
      /\ failures \subseteq [sub : Subscriptions, at : Time]
      /\ RowsLive
  BY DEF Shapes, SubTypeOK, RequestType, JobType
<1>1. CASE UNCHANGED allVars
  BY <1>0, <1>1 DEF allVars, subVars, RowsLive, RequestSound, JobSound, Exists,
                    Shapes, SubTypeOK, RequestType, JobType
<1>2. ASSUME NEW q \in Requests, NEW r \in RequestType, RequestSound(r),
             request' = [request EXCEPT ![q] = r], issued' \in 0..MaxSecrets,
             UNCHANGED <<sub, job, time, rotations, failures>>
      PROVE  Shapes'
  <2>1. request' \in [Requests -> RequestType]
    BY <1>0, <1>2
  <2>2. RowsLive'
    BY <1>0, <1>2 DEF RowsLive, RequestSound, JobSound, Exists
  <2>. QED  BY <1>0, <1>2, <2>1, <2>2 DEF Shapes, SubTypeOK, RequestType, JobType
<1>3. ASSUME NEW t \in Tasks, NEW j \in JobType, JobSound(j),
             job' = [job EXCEPT ![t] = j],
             failures' \subseteq [sub : Subscriptions, at : Time],
             UNCHANGED <<sub, request, time, issued, rotations>>
      PROVE  Shapes'
  <2>1. job' \in [Tasks -> JobType]
    BY <1>0, <1>3
  <2>2. RowsLive'
    BY <1>0, <1>3 DEF RowsLive, RequestSound, JobSound, Exists
  <2>. QED  BY <1>0, <1>3, <2>1, <2>2 DEF Shapes, SubTypeOK, RequestType, JobType
<1>4. ASSUME NEW q \in Requests, RequestNext(q) PROVE Shapes'
  <2>1. CASE CountFirst(q)
    <3>. DEFINE r == Request("create", NoSub, NoRow)
    <3>1. r \in RequestType /\ RequestSound(r)
      BY NothingHeld DEF Request, RequestType, RequestSound
    <3>2. /\ request' = [request EXCEPT ![q] = r]
          /\ UNCHANGED <<sub, job, time, rotations, failures, issued>>
      BY <2>1 DEF CountFirst, Begin, OnlySub
    <3>. HIDE DEF r
    <3>. QED  BY <1>0, <1>2, <3>1, <3>2
  <2>2. CASE Abandon(q)
    BY <1>0, <1>2, <2>2, NothingHeld DEF Abandon, Answer, OnlySub
  <2>3. ASSUME NEW s \in Subscriptions, LoadUpdate(q, s) PROVE Shapes'
    <3>1. UNCHANGED <<sub, job, time, issued, rotations, failures>>
      BY <2>3 DEF LoadUpdate, OnlySub
    <3>2. PICK r \in RequestType : request' = [request EXCEPT ![q] = r] /\ RequestSound(r)
      BY <2>3, UpdateLoads
    <3>. QED  BY <1>0, <1>2, <3>1, <3>2
  <2>4. ASSUME NEW s \in Subscriptions, LoadRotation(q, s) PROVE Shapes'
    <3>1. issued' \in 0..MaxSecrets
      BY <1>0, <2>4, SubscriptionsAssumption DEF LoadRotation, FreshSecret
    <3>2. UNCHANGED <<sub, job, time, rotations, failures>>
      BY <2>4 DEF LoadRotation, OnlySub
    <3>3. PICK r \in RequestType : request' = [request EXCEPT ![q] = r] /\ RequestSound(r)
      BY <2>4, RotationLoads
    <3>. QED  BY <1>2, <3>1, <3>2, <3>3
  <2>5. ASSUME NEW s \in Subscriptions, Insert(q, s) PROVE Shapes'
    <3>. DEFINE row == Row("active", Never, issued + 1, 0, Never)
    <3>1. issued' \in 0..MaxSecrets /\ issued + 1 \in Secrets /\ issued + 1 \in 0..MaxSecrets
      BY <1>0, <2>5, SubscriptionsAssumption DEF Insert, FreshSecret, Secrets
    <3>2. row \in Rows /\ Live(row)
      BY <3>1, SubscriptionsAssumption DEF Row, Rows, Live, Never
    <3>3. /\ sub' = [sub EXCEPT ![s] = row]
          /\ request' = [request EXCEPT ![q] = NoRequest]
          /\ UNCHANGED <<job, time, rotations, failures>>
      BY <2>5 DEF Insert, Answer, OnlySub
    <3>. HIDE DEF row
    <3>4. sub' \in [Subscriptions -> Rows] /\ request' \in [Requests -> RequestType]
      BY <1>0, <3>2, <3>3, NothingHeld
    <3>5. RowsLive'
      BY <1>0, <3>2, <3>3, NothingHeld DEF RowsLive, RequestSound, JobSound, Exists
    <3>. QED  BY <1>0, <3>1, <3>3, <3>4, <3>5 DEF Shapes, SubTypeOK, RequestType, JobType
  <2>6. CASE SaveRequest(q)
    <3>. DEFINE r == request[q]
                turn == [sub |-> r.sub, from |-> r.row.prev, at |-> time]
    <3>1. r \in RequestType /\ r.sub \in Subscriptions /\ Live(r.row)
      BY <1>0, <2>6 DEF SaveRequest, RowsLive, RequestSound
    <3>2. r.op = "rotate" => turn \in [sub : Subscriptions, from : Secrets, at : Time]
      BY <1>0, <3>1 DEF RowsLive, RequestSound
    <3>3. /\ sub' = [sub EXCEPT ![r.sub] = r.row]
          /\ request' = [request EXCEPT ![q] = NoRequest]
          /\ rotations' = IF r.op = "rotate" THEN rotations \cup {turn} ELSE rotations
          /\ UNCHANGED <<job, time, issued, failures>>
      BY <2>6 DEF SaveRequest, Answer, OnlySub
    <3>4. turn.at <= time
      BY <1>0, SubscriptionsAssumption DEF Time
    <3>. HIDE DEF r, turn
    <3>5. /\ sub' \in [Subscriptions -> Rows] /\ request' \in [Requests -> RequestType]
          /\ rotations' \subseteq [sub : Subscriptions, from : Secrets, at : Time]
      BY <1>0, <3>1, <3>2, <3>3, NothingHeld DEF Live
    <3>6. RowsLive'
      BY <1>0, <3>1, <3>3, <3>4, NothingHeld DEF RowsLive, RequestSound, JobSound, Exists
    <3>. QED  BY <1>0, <3>3, <3>5, <3>6 DEF Shapes, SubTypeOK, RequestType, JobType
  <2>. QED  BY <1>4, <2>1, <2>2, <2>3, <2>4, <2>5, <2>6 DEF RequestNext
<1>5. ASSUME NEW s \in Subscriptions, Remove(s) PROVE Shapes'
  <2>1. /\ sub' = [sub EXCEPT ![s] = NoRow]
        /\ UNCHANGED <<request, issued, rotations, failures, job, time>>
    BY <1>5 DEF Remove, OnlySub
  <2>2. RowsLive'
    BY <1>0, <2>1, NothingHeld DEF RowsLive, RequestSound, JobSound, Exists
  <2>. QED  BY <1>0, <2>1, <2>2, NothingHeld DEF Shapes, SubTypeOK, RequestType, JobType
<1>6. ASSUME NEW t \in Tasks, TaskNext(t) PROVE Shapes'
  <2>1. ASSUME NEW s \in Subscriptions, Prepare(t, s) PROVE Shapes'
    <3>1. UNCHANGED <<sub, request, time, issued, rotations, failures>>
      BY <2>1 DEF Prepare, OnlyJob
    <3>2. PICK j \in JobType : job' = [job EXCEPT ![t] = j] /\ JobSound(j)
      BY <2>1, PrepareReads
    <3>. QED  BY <1>0, <1>3, <3>1, <3>2
  <2>2. CASE Enter(t) \/ \E outcome \in {"success", "failure", "gone", "ping"} : Respond(t, outcome)
    <3>1. PICK j \in JobType :
            /\ job' = [job EXCEPT ![t] = j] /\ JobSound(j)
            /\ UNCHANGED <<sub, request, time, issued, rotations, failures>>
      BY <2>2, PostKeeps
    <3>. QED  BY <1>0, <1>3, <3>1
  <2>3. CASE Post(t)
    <3>1. UNCHANGED subVars
      BY <2>3 DEF Post
    <3>. QED  BY <1>0, <3>1 DEF subVars, RowsLive, RequestSound, JobSound, Exists,
                                Shapes, SubTypeOK, RequestType, JobType
  <2>4. CASE Apply(t)
    <3>1. job[t].sub \in Subscriptions
      BY <1>0, <2>4 DEF Apply, RowsLive, JobSound
    <3>2. failures' \subseteq [sub : Subscriptions, at : Time]
      BY <1>0, <2>4, <3>1 DEF Apply
    <3>3. UNCHANGED <<sub, request, time, issued, rotations>>
      BY <2>4 DEF Apply, OnlyJob
    <3>4. PICK j \in JobType : job' = [job EXCEPT ![t] = j] /\ JobSound(j)
      BY <2>4, ApplyLoads
    <3>. QED  BY <1>3, <3>2, <3>3, <3>4
  <2>5. CASE SaveOutcome(t)
    <3>. DEFINE j == job[t]
    <3>1. j.sub \in Subscriptions /\ Live(j.row)
      BY <1>0, <2>5 DEF SaveOutcome, RowsLive, JobSound
    <3>2. /\ sub' = [sub EXCEPT ![j.sub] = j.row]
          /\ job' = [job EXCEPT ![t] = NoJob]
          /\ UNCHANGED <<request, time, issued, rotations, failures>>
      BY <2>5 DEF SaveOutcome, OnlyJob
    <3>. HIDE DEF j
    <3>3. sub' \in [Subscriptions -> Rows] /\ job' \in [Tasks -> JobType]
      BY <1>0, <3>1, <3>2, NothingHeld DEF Live
    <3>4. RowsLive'
      BY <1>0, <3>1, <3>2, NothingHeld DEF RowsLive, RequestSound, JobSound, Exists
    <3>. QED  BY <1>0, <3>2, <3>3, <3>4 DEF Shapes, SubTypeOK, RequestType, JobType
  <2>. QED  BY <1>6, <2>1, <2>2, <2>3, <2>4, <2>5 DEF TaskNext
<1>7. CASE Tick
  <2>1. /\ time' = time + 1 /\ time < MaxTime
        /\ \A q \in Requests : request[q] = NoRequest
        /\ UNCHANGED <<sub, request, job, issued, rotations, failures>>
    BY <1>7 DEF Tick
  <2>2. time' \in Time /\ time' > time
    BY <1>0, <2>1, SubscriptionsAssumption DEF Time
  <2>3. \A q \in Requests : RequestSound(request[q])'
    BY <2>1, NothingHeld DEF RequestSound
  <2>4. \A t \in Tasks : JobSound(job[t])'
    BY <1>0, <2>1, SubscriptionsAssumption DEF RowsLive, JobSound, Time
  <2>5. \A r \in rotations' : r.at <= time'
    BY <1>0, <2>1, SubscriptionsAssumption DEF RowsLive, Time
  <2>6. RowsLive'
    BY <1>0, <2>1, <2>3, <2>4, <2>5 DEF RowsLive, Exists
  <2>. QED  BY <1>0, <2>1, <2>2, <2>6 DEF Shapes, SubTypeOK, RequestType, JobType
<1>. QED  BY <1>1, <1>4, <1>5, <1>6, <1>7 DEF SubNext

-----------------------------------------------------------------------------
(* The failure streak.                                                     *)

(* More failures and a later moment do not take a foundation away.         *)
LEMMA FoundedStays ==
  ASSUME NEW F, NEW G, F \subseteq G, F \subseteq [sub : Subscriptions, at : Time],
         NEW now \in Int, NEW later \in Int, now <= later,
         NEW s, NEW row, Founded(F, now, s, row)
  PROVE  Founded(G, later, s, row)
<1>1. \A f \in F : f.at \in Int
  BY DEF Time
<1>2. DisableAfter \in Int
  BY SubscriptionsAssumption
<1>3. ASSUME HasFailed(F, s, now - DisableAfter) PROVE HasFailed(G, s, later - DisableAfter)
  BY <1>1, <1>2, <1>3 DEF HasFailed
<1>4. ASSUME NEW at, HasFailed(F, s, at) PROVE HasFailed(G, s, at)
  BY <1>4 DEF HasFailed
<1>. QED  BY <1>3, <1>4 DEF Founded

(* A row with another streak and status is founded if those are.           *)
LEMMA FoundedRow ==
  ASSUME NEW F, NEW now, NEW s, NEW row, NEW other, Founded(F, now, s, row),
         other.since # Never => other.since = row.since \/ HasFailed(F, s, other.since),
         other.status = "auto" =>
           row.status = "auto" \/ HasFailed(F, s, now - DisableAfter)
  PROVE  Founded(F, now, s, other)
BY DEF Founded

(* No streak has begun at first.                                           *)
LEMMA FoundedInit == SubInit => StreaksFounded
BY NothingHeld DEF SubInit, StreaksFounded, Founded

(* What a step loads, it loads from a founded row; a streak begins with the*)
(* failure that has just been counted; a delivery that disables has read a *)
(* streak that began long enough ago.                                      *)
LEMMA FoundedNext ==
  ASSUME Shapes, StreaksFounded, [SubNext]_allVars
  PROVE  StreaksFounded'
<1>0. /\ sub \in [Subscriptions -> Rows]
      /\ request \in [Requests -> RequestType]
      /\ job \in [Tasks -> JobType]
      /\ time \in Nat
      /\ failures \subseteq [sub : Subscriptions, at : Time]
      /\ RowsLive
  BY SubscriptionsAssumption DEF Shapes, SubTypeOK, RequestType, JobType, Time
<1>1. CASE UNCHANGED allVars
  BY <1>1 DEF allVars, subVars, StreaksFounded
<1>2. ASSUME NEW q \in Requests, NEW r \in RequestType,
             request' = [request EXCEPT ![q] = r],
             r.op \in {"update", "rotate"} => Founded(failures, time, r.sub, r.row),
             UNCHANGED <<sub, job, time, failures>>
      PROVE  StreaksFounded'
  BY <1>0, <1>2 DEF StreaksFounded
<1>3. ASSUME NEW t \in Tasks, NEW j \in JobType,
             job' = [job EXCEPT ![t] = j],
             j.since # Never => HasFailed(failures, j.sub, j.since),
             j.phase = "save" => Founded(failures, time, j.sub, j.row),
             UNCHANGED <<sub, request, time, failures>>
      PROVE  StreaksFounded'
  BY <1>0, <1>3 DEF StreaksFounded
<1>4. ASSUME NEW q \in Requests, RequestNext(q) PROVE StreaksFounded'
  <2>1. CASE CountFirst(q)
    <3>. DEFINE r == Request("create", NoSub, NoRow)
    <3>1. r \in RequestType /\ r.op = "create"
      BY NothingHeld DEF Request, RequestType
    <3>2. /\ request' = [request EXCEPT ![q] = r]
          /\ UNCHANGED <<sub, job, time, failures>>
      BY <2>1 DEF CountFirst, Begin, OnlySub
    <3>. HIDE DEF r
    <3>. QED  BY <1>2, <3>1, <3>2
  <2>2. CASE Abandon(q)
    BY <1>2, <2>2, NothingHeld DEF Abandon, Answer, OnlySub
  <2>3. ASSUME NEW s \in Subscriptions, LoadUpdate(q, s) PROVE StreaksFounded'
    <3>1. UNCHANGED <<sub, job, time, failures>>
      BY <2>3 DEF LoadUpdate, OnlySub
    <3>2. PICK r \in RequestType :
            /\ request' = [request EXCEPT ![q] = r]
            /\ r.sub = s /\ r.row.since = sub[s].since
            /\ r.row.status \in {"active", "disabled", sub[s].status}
      BY <2>3, UpdateLoads
    <3>3. Founded(failures, time, s, r.row)
      BY <3>2, FoundedRow DEF StreaksFounded
    <3>. QED  BY <1>2, <3>1, <3>2, <3>3
  <2>4. ASSUME NEW s \in Subscriptions, LoadRotation(q, s) PROVE StreaksFounded'
    <3>1. UNCHANGED <<sub, job, time, failures>>
      BY <2>4 DEF LoadRotation, OnlySub
    <3>2. PICK r \in RequestType :
            /\ request' = [request EXCEPT ![q] = r]
            /\ r.sub = s /\ r.row.since = sub[s].since /\ r.row.status = sub[s].status
      BY <2>4, RotationLoads
    <3>3. Founded(failures, time, s, r.row)
      BY <3>2, FoundedRow DEF StreaksFounded
    <3>. QED  BY <1>2, <3>1, <3>2, <3>3
  <2>5. ASSUME NEW s \in Subscriptions, Insert(q, s) PROVE StreaksFounded'
    <3>. DEFINE row == Row("active", Never, issued + 1, 0, Never)
    <3>1. row.since = Never /\ row.status = "active"
      BY DEF Row
    <3>2. /\ sub' = [sub EXCEPT ![s] = row]
          /\ request' = [request EXCEPT ![q] = NoRequest]
          /\ UNCHANGED <<job, time, failures>>
      BY <2>5 DEF Insert, Answer, OnlySub
    <3>. HIDE DEF row
    <3>3. Founded(failures, time, s, row)
      BY <3>1 DEF Founded
    <3>. QED  BY <1>0, <3>2, <3>3, NothingHeld DEF StreaksFounded
  <2>6. CASE SaveRequest(q)
    <3>. DEFINE r == request[q]
    <3>1. r.sub \in Subscriptions /\ Founded(failures, time, r.sub, r.row)
      BY <1>0, <2>6 DEF SaveRequest, RowsLive, RequestSound, StreaksFounded
    <3>2. /\ sub' = [sub EXCEPT ![r.sub] = r.row]
          /\ request' = [request EXCEPT ![q] = NoRequest]
          /\ UNCHANGED <<job, time, failures>>
      BY <2>6 DEF SaveRequest, Answer, OnlySub
    <3>. HIDE DEF r
    <3>. QED  BY <1>0, <3>1, <3>2, NothingHeld DEF StreaksFounded
  <2>. QED  BY <1>4, <2>1, <2>2, <2>3, <2>4, <2>5, <2>6 DEF RequestNext
<1>5. ASSUME NEW s \in Subscriptions, Remove(s) PROVE StreaksFounded'
  <2>1. /\ sub' = [sub EXCEPT ![s] = NoRow]
        /\ UNCHANGED <<request, failures, job, time>>
    BY <1>5 DEF Remove, OnlySub
  <2>2. Founded(failures, time, s, NoRow)
    BY NothingHeld DEF Founded
  <2>. QED  BY <1>0, <2>1, <2>2 DEF StreaksFounded
<1>6. ASSUME NEW t \in Tasks, TaskNext(t) PROVE StreaksFounded'
  <2>1. ASSUME NEW s \in Subscriptions, Prepare(t, s) PROVE StreaksFounded'
    <3>1. UNCHANGED <<sub, request, time, failures>>
      BY <2>1 DEF Prepare, OnlyJob
    <3>2. PICK j \in JobType : job' = [job EXCEPT ![t] = j] /\ j.phase = "ready"
                               /\ j.sub = s /\ j.since = sub[s].since
      BY <2>1, PrepareReads
    <3>3. j.since # Never => HasFailed(failures, j.sub, j.since)
      BY <3>2 DEF StreaksFounded, Founded
    <3>. QED  BY <1>3, <3>1, <3>2, <3>3
  <2>2. CASE Enter(t) \/ \E outcome \in {"success", "failure", "gone", "ping"} : Respond(t, outcome)
    <3>1. PICK j \in JobType :
            /\ job' = [job EXCEPT ![t] = j] /\ j.phase # "save"
            /\ j.since = Never \/ (j.sub = job[t].sub /\ j.since = job[t].since)
            /\ UNCHANGED <<sub, request, time, failures>>
      BY <2>2, PostKeeps
    <3>2. j.since # Never => HasFailed(failures, j.sub, j.since)
      BY <3>1 DEF StreaksFounded
    <3>. QED  BY <1>3, <3>1, <3>2
  <2>3. CASE Post(t)
    BY <2>3 DEF Post, subVars, StreaksFounded
  <2>4. CASE Apply(t)
    <3>1. PICK j \in JobType :
             /\ job' = [job EXCEPT ![t] = j]
             /\ \/ j = NoJob
                \/ /\ j.phase = "save" /\ j.sub = job[t].sub /\ j.since = job[t].since
                   /\ \/ j.row.since = Never
                      \/ j.row.since = time /\ job[t].outcome = "failure"
                   /\ \/ j.row.status \in {sub[j.sub].status, "disabled"}
                      \/ j.since # Never /\ time - j.since >= DisableAfter
      BY <2>4, ApplyLoads
    <3>2. /\ job[t].sub \in Subscriptions /\ job[t] \in JobType
          /\ UNCHANGED <<sub, request, time>>
      BY <1>0, <2>4 DEF Apply, OnlyJob, RowsLive, JobSound
    <3>3. /\ failures \subseteq failures'
          /\ job[t].outcome = "failure" => [sub |-> job[t].sub, at |-> time] \in failures'
      BY <2>4 DEF Apply
    <3>4. job[t].outcome = "failure" => HasFailed(failures', job[t].sub, time)
      BY <1>0, <3>3 DEF HasFailed
    <3>5. \A s, row : Founded(failures, time, s, row) => Founded(failures', time, s, row)
      BY <1>0, <3>3, FoundedStays
    <3>6. job[t].since # Never => HasFailed(failures, job[t].sub, job[t].since)
      BY DEF StreaksFounded
    <3>7. \A s, at : HasFailed(failures, s, at) => HasFailed(failures', s, at)
      BY <3>3 DEF HasFailed
    <3>8. j.since # Never => HasFailed(failures', j.sub, j.since)
      BY <3>1, <3>6, <3>7, NothingHeld
    <3>9. ASSUME j.since # Never, time - j.since >= DisableAfter, j.sub = job[t].sub,
                 j.since = job[t].since
          PROVE  HasFailed(failures', j.sub, time - DisableAfter)
      <4>1. PICK f \in failures : f.sub = j.sub /\ f.at <= j.since
        BY <3>6, <3>9 DEF HasFailed
      <4>2. f.at \in Int /\ j.since \in Int /\ DisableAfter \in Int
        BY <1>0, SubscriptionsAssumption DEF Time, JobType, Never
      <4>3. f.at <= time - DisableAfter
        BY <1>0, <3>9, <4>1, <4>2
      <4>. QED  BY <3>3, <4>1, <4>3 DEF HasFailed
    <3>10. j.phase = "save" => Founded(failures', time, j.sub, j.row)
      <4>. SUFFICES ASSUME j.phase = "save" PROVE Founded(failures', time, j.sub, j.row)
        OBVIOUS
      <4>1. j.phase = "save" /\ j.sub = job[t].sub /\ j.since = job[t].since
        BY <3>1, NothingHeld
      <4>2. j.row.since # Never => HasFailed(failures', j.sub, j.row.since)
        BY <3>1, <3>4, NothingHeld
      <4>3. Founded(failures', time, j.sub, sub[j.sub])
        BY <3>2, <3>5, <4>1 DEF StreaksFounded
      <4>4. j.row.status = "auto" =>
              sub[j.sub].status = "auto" \/ HasFailed(failures', j.sub, time - DisableAfter)
        BY <3>1, <3>9, <4>1, NothingHeld
      <4>. QED  BY <4>2, <4>3, <4>4, FoundedRow
    <3>. QED  BY <1>0, <3>1, <3>2, <3>5, <3>7, <3>8, <3>10 DEF StreaksFounded
  <2>5. CASE SaveOutcome(t)
    <3>. DEFINE j == job[t]
    <3>1. j.sub \in Subscriptions /\ Founded(failures, time, j.sub, j.row)
      BY <1>0, <2>5 DEF SaveOutcome, RowsLive, JobSound, StreaksFounded
    <3>2. /\ sub' = [sub EXCEPT ![j.sub] = j.row]
          /\ job' = [job EXCEPT ![t] = NoJob]
          /\ UNCHANGED <<request, time, failures>>
      BY <2>5 DEF SaveOutcome, OnlyJob
    <3>. HIDE DEF j
    <3>. QED  BY <1>0, <3>1, <3>2, NothingHeld DEF StreaksFounded
  <2>. QED  BY <1>6, <2>1, <2>2, <2>3, <2>4, <2>5 DEF TaskNext
<1>7. CASE Tick
  <2>1. time' = time + 1 /\ UNCHANGED <<sub, request, job, failures>>
    BY <1>7 DEF Tick
  <2>2. \A s, row : Founded(failures, time, s, row) => Founded(failures, time', s, row)
    BY <1>0, <2>1, FoundedStays
  <2>. QED  BY <1>0, <2>1, <2>2 DEF StreaksFounded
<1>. QED  BY <1>1, <1>4, <1>5, <1>6, <1>7 DEF SubNext

-----------------------------------------------------------------------------
(* The grace window of a rotation.                                         *)

(* No other rotation of the subscription within the window.                *)
Alone(r) ==
  \A other \in rotations \ {r} :
    other.sub = r.sub => other.at + Grace <= r.at \/ r.at + Grace <= other.at

(* A row that a message is signed with so that the secret replaced by r is *)
(* among those it carries, to the end of the window.                       *)
Understood(row, r) ==
  row.secret = r.from \/ (row.prev = r.from /\ row.until >= r.at + Grace)

(* The rows of the table and those that are about to be saved over them; a *)
(* rotation about to be saved is another one and ends the claim.           *)
WindowsOpen ==
  \A r \in rotations : Alone(r) /\ time < r.at + Grace =>
    /\ Exists(r.sub) => Understood(sub[r.sub], r)
    /\ \A q \in Requests : request[q].op = "update" /\ request[q].sub = r.sub =>
         Understood(request[q].row, r)
    /\ \A t \in Tasks : job[t].phase = "save" /\ job[t].sub = r.sub =>
         Understood(job[t].row, r)

(* Until a rotation of s is saved at this moment, one secret is in all of  *)
(* them, is what the rotations in flight replace, and has signed every     *)
(* message of the moment.                                                  *)
OneSecret(s, k) ==
  /\ Exists(s) => sub[s].secret = k
  /\ \A q \in Requests : request[q].sub = s =>
       /\ request[q].op = "update" => request[q].row.secret = k
       /\ request[q].op = "rotate" => request[q].row.prev = k
  /\ \A t \in Tasks : job[t].sub = s =>
       /\ job[t].phase = "save" => job[t].row.secret = k
       /\ job[t].phase = "ready" /\ job[t].at = time => k \in job[t].secrets
SecretsAgree ==
  \A s \in Subscriptions :
    \/ \E r \in rotations : r.sub = s /\ r.at = time
    \/ \E k \in 0..MaxSecrets : OneSecret(s, k)

(* A message signed at a moment of the window carries the old secret.      *)
Carried(j, r) ==
  j.phase = "ready" /\ j.sub = r.sub /\ r.at <= j.at /\ j.at < r.at + Grace =>
    r.from \in j.secrets
MessagesCarry == \A t \in Tasks, r \in rotations : Alone(r) => Carried(job[t], r)

GraceInv == WindowsOpen /\ SecretsAgree /\ MessagesCarry

LEMMA GraceInit == SubInit => GraceInv
<1>. SUFFICES ASSUME SubInit PROVE GraceInv
  OBVIOUS
<1>1. WindowsOpen /\ MessagesCarry
  BY DEF SubInit, WindowsOpen, MessagesCarry
<1>2. \A s \in Subscriptions : OneSecret(s, 0)
  BY NothingHeld DEF SubInit, OneSecret, Exists
<1>3. 0 \in 0..MaxSecrets
  BY SubscriptionsAssumption
<1>. QED  BY <1>1, <1>2, <1>3 DEF GraceInv, SecretsAgree

(* A step that saves no rotation and copies rows and signs messages from   *)
(* the table only keeps the claim.                                         *)
LEMMA RequestKeepsGrace ==
  ASSUME Shapes, GraceInv, NEW q \in Requests, NEW r \in RequestType,
         request' = [request EXCEPT ![q] = r],
         r.op = "update" => /\ r.sub \in Subscriptions /\ Exists(r.sub)
                            /\ r.row.secret = sub[r.sub].secret
                            /\ r.row.prev = sub[r.sub].prev
                            /\ r.row.until = sub[r.sub].until,
         r.op = "rotate" => /\ r.sub \in Subscriptions /\ Exists(r.sub)
                            /\ r.row.prev = sub[r.sub].secret,
         UNCHANGED <<sub, job, time, rotations>>
  PROVE  GraceInv'
<1>0. request \in [Requests -> RequestType]
  BY DEF Shapes, SubTypeOK, RequestType
<1>1. WindowsOpen'
  BY <1>0 DEF GraceInv, WindowsOpen, Alone, Understood, Exists
<1>2. \A s \in Subscriptions, k \in 0..MaxSecrets : OneSecret(s, k) => OneSecret(s, k)'
  BY <1>0 DEF OneSecret, Exists
<1>3. SecretsAgree'
  BY <1>2 DEF GraceInv, SecretsAgree
<1>4. MessagesCarry'
  BY DEF GraceInv, MessagesCarry, Alone, Carried
<1>. QED  BY <1>1, <1>3, <1>4 DEF GraceInv

LEMMA JobKeepsGrace ==
  ASSUME Shapes, GraceInv, NEW t \in Tasks, NEW j \in JobType,
         job' = [job EXCEPT ![t] = j],
         j.phase = "save" => /\ j.sub \in Subscriptions /\ Exists(j.sub)
                             /\ j.row.secret = sub[j.sub].secret
                             /\ j.row.prev = sub[j.sub].prev
                             /\ j.row.until = sub[j.sub].until,
         j.phase = "ready" => /\ j.sub \in Subscriptions /\ Exists(j.sub)
                              /\ j.at = time /\ j.secrets = SigningSecrets(sub[j.sub]),
         UNCHANGED <<sub, request, time, rotations>>
  PROVE  GraceInv'
<1>0. /\ job \in [Tasks -> JobType] /\ time \in Nat /\ Grace \in Nat
      /\ rotations \subseteq [sub : Subscriptions, from : Secrets, at : Time]
  BY SubscriptionsAssumption DEF Shapes, SubTypeOK, JobType, Time
<1>1. WindowsOpen'
  BY <1>0 DEF GraceInv, WindowsOpen, Alone, Understood, Exists
<1>2. \A s \in Subscriptions, k \in 0..MaxSecrets : OneSecret(s, k) => OneSecret(s, k)'
  BY <1>0 DEF OneSecret, Exists, SigningSecrets
<1>3. SecretsAgree'
  BY <1>2 DEF GraceInv, SecretsAgree
<1>4. ASSUME NEW r \in rotations, Alone(r) PROVE Carried(j, r)
  <2>. SUFFICES ASSUME j.phase = "ready", j.sub = r.sub, r.at <= j.at, j.at < r.at + Grace
                PROVE  r.from \in j.secrets
    BY DEF Carried
  <2>1. Understood(sub[r.sub], r)
    BY <1>4 DEF GraceInv, WindowsOpen
  <2>2. sub[r.sub].until \in Int /\ r.at \in Nat /\ r.from # 0 /\ Live(sub[r.sub])
    BY <1>0 DEF Shapes, RowsLive, Live, Rows, Time, Secrets, Never
  <2>3. CASE sub[r.sub].secret = r.from
    BY <2>3 DEF SigningSecrets
  <2>4. CASE sub[r.sub].prev = r.from /\ sub[r.sub].until >= r.at + Grace
    <3>1. sub[r.sub].until > time /\ sub[r.sub].prev # 0
      BY <1>0, <2>2, <2>4
    <3>. QED  BY <2>4, <3>1 DEF SigningSecrets
  <2>. QED  BY <2>1, <2>3, <2>4 DEF Understood
<1>5. MessagesCarry'
  BY <1>0, <1>4 DEF GraceInv, MessagesCarry, Alone, Carried
<1>. QED  BY <1>1, <1>3, <1>5 DEF GraceInv

(* A copy of the row is saved over that of the table, or the row removed.  *)
LEMMA SaveKeepsGrace ==
  ASSUME Shapes, GraceInv, NEW s \in Subscriptions, NEW row,
         sub' = [sub EXCEPT ![s] = row],
         \A q \in Requests : request'[q] = request[q] \/ request'[q] = NoRequest,
         \A t \in Tasks : job'[t] = job[t] \/ job'[t] = NoJob,
         UNCHANGED <<time, rotations>>,
         row.status # "none" =>
           /\ \A r \in rotations : r.sub = s /\ Alone(r) /\ time < r.at + Grace => Understood(row, r)
           /\ \A k \in 0..MaxSecrets : OneSecret(s, k) => row.secret = k
  PROVE  GraceInv'
<1>0. sub \in [Subscriptions -> Rows]
  BY DEF Shapes, SubTypeOK
<1>1. WindowsOpen'
  BY <1>0, NothingHeld DEF GraceInv, WindowsOpen, Alone, Understood, Exists
<1>2. \A u \in Subscriptions, k \in 0..MaxSecrets : OneSecret(u, k) => OneSecret(u, k)'
  BY <1>0, NothingHeld DEF OneSecret, Exists
<1>3. SecretsAgree'
  BY <1>2 DEF GraceInv, SecretsAgree
<1>4. MessagesCarry'
  BY NothingHeld DEF GraceInv, MessagesCarry, Alone, Carried
<1>. QED  BY <1>1, <1>3, <1>4 DEF GraceInv

(* A new row has a secret that nobody holds a copy of.                     *)
LEMMA InsertKeepsGrace ==
  ASSUME Shapes, GraceInv, NEW q \in Requests, NEW s \in Subscriptions, Insert(q, s)
  PROVE  GraceInv'
<1>0. /\ sub \in [Subscriptions -> Rows]
      /\ request \in [Requests -> RequestType]
  BY DEF Shapes, SubTypeOK, RequestType
<1>. DEFINE row == Row("active", Never, issued + 1, 0, Never)
<1>1. row.status = "active" /\ row.secret = issued + 1 /\ issued + 1 \in 0..MaxSecrets
  BY SubscriptionsAssumption DEF Row, Insert, FreshSecret, Shapes, SubTypeOK
<1>2. /\ sub' = [sub EXCEPT ![s] = row]
      /\ request' = [request EXCEPT ![q] = NoRequest]
      /\ \A p \in Requests : request[p].sub # s
      /\ \A t \in Tasks : job[t].sub # s
      /\ \A r \in rotations : r.sub # s
      /\ UNCHANGED <<job, time, rotations>>
  BY DEF Insert, Answer, OnlySub
<1>. HIDE DEF row
<1>3. WindowsOpen'
  BY <1>0, <1>2, NothingHeld DEF GraceInv, WindowsOpen, Alone, Understood, Exists
<1>4. PICK k \in 0..MaxSecrets : k = issued + 1
  BY <1>1
<1>5. OneSecret(s, k)'
  BY <1>0, <1>1, <1>2, <1>4, NothingHeld DEF OneSecret, Exists
<1>6. \A u \in Subscriptions \ {s}, i \in 0..MaxSecrets : OneSecret(u, i) => OneSecret(u, i)'
  BY <1>0, <1>2, NothingHeld DEF OneSecret, Exists
<1>7. SecretsAgree'
  <2>. SUFFICES ASSUME NEW u \in Subscriptions
                PROVE  \/ \E r \in rotations : r.sub = u /\ r.at = time
                       \/ \E i \in 0..MaxSecrets : OneSecret(u, i)'
    BY <1>2 DEF SecretsAgree
  <2>1. CASE u = s
    BY <1>5, <2>1
  <2>2. CASE u # s
    BY <1>6, <2>2 DEF GraceInv, SecretsAgree
  <2>. QED  BY <2>1, <2>2
<1>8. MessagesCarry'
  BY <1>2 DEF GraceInv, MessagesCarry, Alone, Carried
<1>. QED  BY <1>3, <1>7, <1>8 DEF GraceInv

(* A rotation is saved.  One that was saved before within the window is not*)
(* alone any more; if there is none, all copies have the secret that this  *)
(* one replaces.                                                           *)
LEMMA RotationKeepsGrace ==
  ASSUME Shapes, GraceInv, NEW q \in Requests, SaveRequest(q), request[q].op = "rotate"
  PROVE  GraceInv'
<1>0. /\ sub \in [Subscriptions -> Rows]
      /\ request \in [Requests -> RequestType]
      /\ time \in Nat /\ Grace \in Nat \ {0}
      /\ rotations \subseteq [sub : Subscriptions, from : Secrets, at : Time]
      /\ \A r \in rotations : r.at \in Nat /\ r.at <= time
      /\ \A t \in Tasks : job[t].phase = "ready" => job[t].at \in Nat /\ job[t].at <= time
  BY SubscriptionsAssumption
     DEF Shapes, SubTypeOK, RequestType, Time, RowsLive, JobSound
<1>1. PICK s, row :
        /\ s = request[q].sub /\ row = request[q].row
        /\ s \in Subscriptions /\ row.prev \in Secrets /\ row.until = time + Grace /\ Live(row)
  BY DEF Shapes, RowsLive, RequestSound
<1>2. PICK new :
        /\ new = [sub |-> s, from |-> row.prev, at |-> time]
        /\ sub' = [sub EXCEPT ![s] = row]
        /\ request' = [request EXCEPT ![q] = NoRequest]
        /\ rotations' = rotations \cup {new}
        /\ UNCHANGED <<job, time>>
  BY <1>1 DEF SaveRequest, Answer, OnlySub
<1>3. new.sub = s /\ new.from = row.prev /\ new.at = time /\ new \in rotations'
  BY <1>2
<1>4. \A k \in 0..MaxSecrets : OneSecret(s, k) => k = row.prev
  BY <1>1 DEF OneSecret
<1>5. ASSUME NEW r \in rotations', Alone(r)', r.sub = s, time < r.at + Grace
      PROVE  r = new
  <2>1. CASE r # new
    <3>1. r \in rotations
      BY <1>2, <2>1
    <3>2. new.at + Grace <= r.at \/ r.at + Grace <= new.at
      BY <1>3, <1>5, <2>1 DEF Alone
    <3>. QED  BY <1>0, <1>3, <1>5, <3>1, <3>2
  <2>. QED  BY <2>1
<1>6. ASSUME NEW r \in rotations, Alone(r)' PROVE Alone(r)
  BY <1>2, <1>6 DEF Alone
<1>7. ASSUME Alone(new)', new \notin rotations PROVE OneSecret(s, row.prev)
  <2>1. ASSUME NEW r \in rotations, r.sub = s, r.at = time PROVE FALSE
    <3>1. new.at + Grace <= r.at \/ r.at + Grace <= new.at
      BY <1>2, <1>3, <1>7, <2>1 DEF Alone
    <3>. QED  BY <1>0, <1>3, <2>1, <3>1
  <2>2. PICK k \in 0..MaxSecrets : OneSecret(s, k)
    BY <1>1, <2>1 DEF GraceInv, SecretsAgree
  <2>. QED  BY <1>4, <2>2
<1>8. Understood(row, new)
  BY <1>0, <1>1, <1>3 DEF Understood
<1>9. ASSUME Alone(new)'
      PROVE  /\ \A p \in Requests : request[p].op = "update" /\ request[p].sub = s =>
                  Understood(request[p].row, new)
             /\ \A t \in Tasks : job[t].phase = "save" /\ job[t].sub = s =>
                  Understood(job[t].row, new)
             /\ \A t \in Tasks : Carried(job[t], new)
  <2>1. CASE new \in rotations
    <3>1. Alone(new) /\ time < new.at + Grace
      BY <1>0, <1>3, <1>6, <1>9, <2>1
    <3>. QED  BY <1>3, <2>1, <3>1 DEF GraceInv, WindowsOpen, MessagesCarry
  <2>2. CASE new \notin rotations
    <3>1. OneSecret(s, row.prev)
      BY <1>7, <1>9, <2>2
    <3>2. ASSUME NEW t \in Tasks PROVE Carried(job[t], new)
      <4>. SUFFICES ASSUME job[t].phase = "ready", job[t].sub = s, time <= job[t].at
                    PROVE  new.from \in job[t].secrets
        BY <1>3 DEF Carried
      <4>1. job[t].at = time
        BY <1>0
      <4>. QED  BY <1>3, <3>1, <4>1 DEF OneSecret
    <3>3. /\ \A p \in Requests : request[p].op = "update" /\ request[p].sub = s =>
               Understood(request[p].row, new)
          /\ \A t \in Tasks : job[t].phase = "save" /\ job[t].sub = s =>
               Understood(job[t].row, new)
      BY <1>3, <3>1 DEF OneSecret, Understood
    <3>. QED  BY <3>2, <3>3
  <2>. QED  BY <2>1, <2>2
<1>10. WindowsOpen'
  <2>. SUFFICES ASSUME NEW r \in rotations', Alone(r)', time < r.at + Grace
                PROVE  /\ Exists(r.sub)' => Understood(sub'[r.sub], r)
                       /\ \A p \in Requests : request'[p].op = "update" /\ request'[p].sub = r.sub =>
                            Understood(request'[p].row, r)
                       /\ \A t \in Tasks : job[t].phase = "save" /\ job[t].sub = r.sub =>
                            Understood(job[t].row, r)
    BY <1>2 DEF WindowsOpen, Understood
  <2>1. CASE r.sub = s
    <3>1. r = new
      BY <1>5, <2>1
    <3>2. Understood(sub'[s], new)
      BY <1>0, <1>1, <1>2, <1>8
    <3>3. \A p \in Requests : request'[p] = request[p] \/ request'[p] = NoRequest
      BY <1>0, <1>2
    <3>. QED  BY <1>3, <1>9, <3>1, <3>2, <3>3, NothingHeld
  <2>2. CASE r.sub # s
    <3>1. r \in rotations /\ Alone(r)
      BY <1>2, <1>3, <1>6, <2>2
    <3>2. r.sub \in Subscriptions /\ sub'[r.sub] = sub[r.sub]
      BY <1>0, <1>2, <2>2, <3>1
    <3>3. \A p \in Requests : request'[p] = request[p] \/ request'[p] = NoRequest
      BY <1>0, <1>2
    <3>. QED  BY <3>1, <3>2, <3>3, NothingHeld DEF GraceInv, WindowsOpen, Exists
  <2>. QED  BY <2>1, <2>2
<1>11. SecretsAgree'
  <2>. SUFFICES ASSUME NEW u \in Subscriptions
                PROVE  \/ \E r \in rotations' : r.sub = u /\ r.at = time
                       \/ \E k \in 0..MaxSecrets : OneSecret(u, k)'
    BY <1>2 DEF SecretsAgree
  <2>1. CASE u = s
    BY <1>3, <2>1
  <2>2. CASE u # s
    <3>1. \A k \in 0..MaxSecrets : OneSecret(u, k) => OneSecret(u, k)'
      BY <1>0, <1>2, <2>2, NothingHeld DEF OneSecret, Exists
    <3>. QED  BY <1>2, <3>1 DEF GraceInv, SecretsAgree
  <2>. QED  BY <2>1, <2>2
<1>12. MessagesCarry'
  <2>. SUFFICES ASSUME NEW t \in Tasks, NEW r \in rotations', Alone(r)'
                PROVE  Carried(job[t], r)
    BY <1>2 DEF MessagesCarry, Carried
  <2>1. CASE r \in rotations
    BY <1>6, <2>1 DEF GraceInv, MessagesCarry
  <2>2. CASE r \notin rotations
    <3>1. r = new
      BY <1>2, <2>2
    <3>. QED  BY <1>9, <3>1
  <2>. QED  BY <2>1, <2>2
<1>. QED  BY <1>10, <1>11, <1>12 DEF GraceInv

(* A step that changes the table counts no failure and takes no time.      *)
LEMMA UnsavedStays ==
  ASSUME [SubNext]_allVars, sub' # sub
  PROVE  UNCHANGED <<time, failures>>
<1>1. CASE UNCHANGED allVars
  BY <1>1 DEF allVars, subVars
<1>2. ASSUME NEW q \in Requests, RequestNext(q) PROVE UNCHANGED <<time, failures>>
  BY <1>2 DEF RequestNext, CountFirst, SaveRequest, Abandon, Insert, LoadUpdate,
              LoadRotation, OnlySub
<1>3. ASSUME NEW s \in Subscriptions, Remove(s) PROVE UNCHANGED <<time, failures>>
  BY <1>3 DEF Remove, OnlySub
<1>4. ASSUME NEW t \in Tasks, TaskNext(t) PROVE UNCHANGED <<time, failures>>
  BY <1>4 DEF TaskNext, Prepare, Enter, Post, Respond, Apply, SaveOutcome, OnlyJob, subVars
<1>. QED  BY <1>1, <1>2, <1>3, <1>4 DEF SubNext, Tick

(* Every step keeps the window of every rotation that is alone in it.      *)
LEMMA GraceNext ==
  ASSUME Shapes, GraceInv, [SubNext]_allVars
  PROVE  GraceInv'
<1>0. /\ request \in [Requests -> RequestType]
      /\ job \in [Tasks -> JobType]
      /\ time \in Nat /\ Grace \in Nat \ {0}
      /\ \A r \in rotations : r.at \in Nat /\ r.at <= time
      /\ \A t \in Tasks : job[t].phase = "ready" => job[t].at \in Nat /\ job[t].at <= time
  BY SubscriptionsAssumption
     DEF Shapes, SubTypeOK, RequestType, JobType, Time, RowsLive, JobSound
<1>1. CASE UNCHANGED <<sub, request, job, time, rotations>>
  BY <1>1 DEF GraceInv, WindowsOpen, SecretsAgree, MessagesCarry, Alone, Understood,
              OneSecret, Carried, Exists
<1>2. ASSUME NEW q \in Requests, RequestNext(q) PROVE GraceInv'
  <2>1. CASE CountFirst(q)
    <3>. DEFINE r == Request("create", NoSub, NoRow)
    <3>1. r \in RequestType /\ r.op = "create"
      BY NothingHeld DEF Request, RequestType
    <3>2. request' = [request EXCEPT ![q] = r] /\ UNCHANGED <<sub, job, time, rotations>>
      BY <2>1 DEF CountFirst, Begin, OnlySub
    <3>. HIDE DEF r
    <3>. QED  BY <3>1, <3>2, RequestKeepsGrace
  <2>2. CASE Abandon(q)
    <3>1. request' = [request EXCEPT ![q] = NoRequest] /\ UNCHANGED <<sub, job, time, rotations>>
      BY <2>2 DEF Abandon, Answer, OnlySub
    <3>. QED  BY <3>1, NothingHeld, RequestKeepsGrace
  <2>3. ASSUME NEW s \in Subscriptions, LoadUpdate(q, s) PROVE GraceInv'
    <3>1. Exists(s) /\ UNCHANGED <<sub, job, time, rotations>>
      BY <2>3 DEF LoadUpdate, OnlySub
    <3>2. PICK r \in RequestType :
            /\ request' = [request EXCEPT ![q] = r]
            /\ r.op = "update" /\ r.sub = s /\ r.row.secret = sub[s].secret
            /\ r.row.prev = sub[s].prev /\ r.row.until = sub[s].until
      BY <2>3, UpdateLoads
    <3>. QED  BY <3>1, <3>2, RequestKeepsGrace
  <2>4. ASSUME NEW s \in Subscriptions, LoadRotation(q, s) PROVE GraceInv'
    <3>1. Exists(s) /\ UNCHANGED <<sub, job, time, rotations>>
      BY <2>4 DEF LoadRotation, OnlySub
    <3>2. PICK r \in RequestType :
            /\ request' = [request EXCEPT ![q] = r]
            /\ r.op = "rotate" /\ r.sub = s /\ r.row.prev = sub[s].secret
      BY <2>4, RotationLoads
    <3>. QED  BY <3>1, <3>2, RequestKeepsGrace
  <2>5. ASSUME NEW s \in Subscriptions, Insert(q, s) PROVE GraceInv'
    BY <2>5, InsertKeepsGrace
  <2>6. CASE SaveRequest(q) /\ request[q].op = "rotate"
    BY <2>6, RotationKeepsGrace
  <2>7. CASE SaveRequest(q) /\ request[q].op # "rotate"
    <3>1. request[q].op = "update" /\ request[q].sub \in Subscriptions
      BY <2>7 DEF SaveRequest, Shapes, RowsLive, RequestSound
    <3>2. /\ sub' = [sub EXCEPT ![request[q].sub] = request[q].row]
          /\ request' = [request EXCEPT ![q] = NoRequest]
          /\ UNCHANGED <<job, time, rotations>>
      BY <2>7 DEF SaveRequest, Answer, OnlySub
    <3>3. \A r \in rotations : r.sub = request[q].sub /\ Alone(r) /\ time < r.at + Grace =>
            Understood(request[q].row, r)
      BY <3>1 DEF GraceInv, WindowsOpen
    <3>4. \A k \in 0..MaxSecrets : OneSecret(request[q].sub, k) => request[q].row.secret = k
      BY <3>1 DEF OneSecret
    <3>5. /\ \A p \in Requests : request'[p] = request[p] \/ request'[p] = NoRequest
          /\ \A t \in Tasks : job'[t] = job[t]
      BY <1>0, <3>2
    <3>. QED  BY <3>1, <3>2, <3>3, <3>4, <3>5, SaveKeepsGrace
  <2>. QED  BY <1>2, <2>1, <2>2, <2>3, <2>4, <2>5, <2>6, <2>7 DEF RequestNext
<1>3. ASSUME NEW s \in Subscriptions, Remove(s) PROVE GraceInv'
  <2>1. /\ sub' = [sub EXCEPT ![s] = NoRow]
        /\ UNCHANGED <<request, job, time, rotations>>
    BY <1>3 DEF Remove, OnlySub
  <2>. QED  BY <2>1, NothingHeld, SaveKeepsGrace
<1>4. ASSUME NEW t \in Tasks, TaskNext(t) PROVE GraceInv'
  <2>1. ASSUME NEW s \in Subscriptions, Prepare(t, s) PROVE GraceInv'
    <3>1. Exists(s) /\ UNCHANGED <<sub, request, time, rotations>>
      BY <2>1 DEF Prepare, OnlyJob, Exists
    <3>2. PICK j \in JobType :
            /\ job' = [job EXCEPT ![t] = j] /\ j.phase = "ready" /\ j.sub = s
            /\ j.secrets = SigningSecrets(sub[s]) /\ j.at = time
      BY <2>1, PrepareReads
    <3>. QED  BY <3>1, <3>2, JobKeepsGrace
  <2>2. CASE Enter(t) \/ \E outcome \in {"success", "failure", "gone", "ping"} : Respond(t, outcome)
    <3>1. PICK j \in JobType :
            /\ job' = [job EXCEPT ![t] = j] /\ j.phase \notin {"ready", "save"}
            /\ UNCHANGED <<sub, request, time, rotations>>
      BY <2>2, PostKeeps
    <3>. QED  BY <3>1, JobKeepsGrace
  <2>3. CASE Post(t)
    BY <1>1, <2>3 DEF Post, subVars
  <2>4. CASE Apply(t)
    <3>1. job[t].sub \in Subscriptions /\ UNCHANGED <<sub, request, time, rotations>>
      BY <2>4 DEF Apply, OnlyJob, Shapes, RowsLive, JobSound
    <3>2. PICK j \in JobType :
            /\ job' = [job EXCEPT ![t] = j]
            /\ \/ j = NoJob
               \/ /\ j.phase = "save" /\ j.sub = job[t].sub /\ Exists(j.sub)
                  /\ j.row.secret = sub[j.sub].secret /\ j.row.prev = sub[j.sub].prev
                  /\ j.row.until = sub[j.sub].until
      BY <2>4, ApplyLoads
    <3>. QED  BY <3>1, <3>2, NothingHeld, JobKeepsGrace
  <2>5. CASE SaveOutcome(t)
    <3>1. job[t].phase = "save" /\ job[t].sub \in Subscriptions
      BY <2>5 DEF SaveOutcome, Shapes, RowsLive, JobSound
    <3>2. /\ sub' = [sub EXCEPT ![job[t].sub] = job[t].row]
          /\ job' = [job EXCEPT ![t] = NoJob]
          /\ UNCHANGED <<request, time, rotations>>
      BY <2>5 DEF SaveOutcome, OnlyJob
    <3>3. \A r \in rotations : r.sub = job[t].sub /\ Alone(r) /\ time < r.at + Grace =>
            Understood(job[t].row, r)
      BY <3>1 DEF GraceInv, WindowsOpen
    <3>4. \A k \in 0..MaxSecrets : OneSecret(job[t].sub, k) => job[t].row.secret = k
      BY <3>1 DEF OneSecret
    <3>5. /\ \A q \in Requests : request'[q] = request[q]
          /\ \A u \in Tasks : job'[u] = job[u] \/ job'[u] = NoJob
      BY <1>0, <3>2
    <3>. QED  BY <3>1, <3>2, <3>3, <3>4, <3>5, SaveKeepsGrace
  <2>. QED  BY <1>4, <2>1, <2>2, <2>3, <2>4, <2>5 DEF TaskNext
<1>5. CASE Tick
  <2>1. /\ time' = time + 1 /\ UNCHANGED <<sub, request, job, rotations>>
        /\ \A q \in Requests : request[q].op = "idle"
        /\ \A t \in Tasks : job[t].phase # "save"
    BY <1>5, NothingHeld DEF Tick
  <2>2. WindowsOpen'
    BY <1>0, <2>1 DEF GraceInv, WindowsOpen, Alone, Understood, Exists
  <2>3. MessagesCarry'
    BY <2>1 DEF GraceInv, MessagesCarry, Alone, Carried
  <2>4. SecretsAgree'
    <3>. SUFFICES ASSUME NEW s \in Subscriptions
                  PROVE  \E k \in 0..MaxSecrets : OneSecret(s, k)'
      BY DEF SecretsAgree
    <3>1. PICK k : k = sub[s].secret
      OBVIOUS
    <3>2. k \in 0..MaxSecrets
      BY <3>1 DEF Shapes, SubTypeOK, Rows
    <3>3. \A t \in Tasks : job[t].phase = "ready" => job[t].at # time + 1
      BY <1>0
    <3>4. OneSecret(s, k)'
      BY <2>1, <3>1, <3>3 DEF OneSecret, Exists
    <3>. QED  BY <3>2, <3>4
  <2>. QED  BY <2>2, <2>3, <2>4 DEF GraceInv
<1>6. CASE UNCHANGED allVars
  BY <1>1, <1>6 DEF allVars, subVars
<1>. QED  BY <1>2, <1>3, <1>4, <1>5, <1>6 DEF SubNext

-----------------------------------------------------------------------------
(* What a subscription promises.                                           *)

SubscriptionsInv == LimiterInv /\ Shapes /\ StreaksFounded /\ GraceInv

LEMMA SubscriptionsStep ==
  ASSUME SubscriptionsInv, [SubNext]_allVars
  PROVE  SubscriptionsInv'
<1>1. LimiterInv'
  BY LimiterSteps, LimiterStep DEF SubscriptionsInv
<1>2. Shapes'
  BY <1>1, ShapesNext DEF SubscriptionsInv, LimiterInv
<1>3. StreaksFounded'
  BY FoundedNext DEF SubscriptionsInv
<1>4. GraceInv'
  BY GraceNext DEF SubscriptionsInv
<1>. QED  BY <1>1, <1>2, <1>3, <1>4 DEF SubscriptionsInv

(* SubscriptionsService, SubscriptionHealthService, EndpointLimiter:       *)
(* whatever rows are loaded, saved over one another, removed and saved     *)
(* again while messages are signed and posted through the limiter, the     *)
(* inductive invariant holds, and with it the limiter's and the types.     *)
THEOREM SubscriptionsAlways == SubSpec => []SubscriptionsInv
<1>1. SubInit => SubscriptionsInv
  <2>1. SubInit => LimiterInv
    BY LimiterInit DEF SubInit
  <2>. QED  BY <2>1, ShapesInit, FoundedInit, GraceInit DEF SubscriptionsInv
<1>2. SubscriptionsInv /\ [SubNext]_allVars => SubscriptionsInv'
  BY SubscriptionsStep
<1>. QED  BY <1>1, <1>2, PTL DEF SubSpec

(* SubTypeOK: every column, copy and clock stays within its type.          *)
THEOREM SubTypeAlwaysOK == SubSpec => []SubTypeOK
<1>1. SubscriptionsInv => SubTypeOK
  BY DEF SubscriptionsInv, Shapes
<1>. QED  BY <1>1, SubscriptionsAlways, PTL

(* release(): under the deliveries and pings of the subscriptions, the     *)
(* counter of the limiter does not drift, and nobody waits for a free slot.*)
THEOREM EndpointSlotsAlwaysAddUp == SubSpec => []SlotsAddUp
<1>1. SubscriptionsInv => SlotsAddUp
  BY DEF SubscriptionsInv, LimiterInv
<1>. QED  BY <1>1, SubscriptionsAlways, PTL

(* acquire(), release(): no delivery or ping waits while a slot is free.   *)
THEOREM EndpointNobodyWaitsInVain == SubSpec => []NobodyWaitsInVain
<1>1. SubscriptionsInv => NobodyWaitsInVain
  BY DEF SubscriptionsInv, LimiterInv
<1>. QED  BY <1>1, SubscriptionsAlways, PTL

(* rotateSecret(), signingSecretsFor(): within the grace window of a       *)
(* rotation that is alone in it, every message carries the secret that it  *)
(* replaced, whatever copy of the row was saved last.                      *)
THEOREM RotationAlwaysGraceful == SubSpec => []RotationIsGraceful
<1>1. SubscriptionsInv => RotationIsGraceful
  BY DEF SubscriptionsInv, GraceInv, MessagesCarry, Alone, Carried, RotationIsGraceful
<1>. QED  BY <1>1, SubscriptionsAlways, PTL

(* recordFailure(): a step that disables a subscription for its failures   *)
(* comes at least DisableAfter after a failure of it.                      *)
THEOREM NobodyDisabledEarly == SubSpec => NeverDisabledEarly
<1>1. SubscriptionsInv /\ SubscriptionsInv' /\ [SubNext]_allVars =>
        [\A s \in Subscriptions :
           sub'[s].status = "auto" /\ sub[s].status # "auto" =>
             \E f \in failures : f.sub = s /\ f.at + DisableAfter <= time]_allVars
  <2>. SUFFICES ASSUME SubscriptionsInv, SubscriptionsInv', [SubNext]_allVars,
                       NEW s \in Subscriptions,
                       sub'[s].status = "auto", sub[s].status # "auto"
                PROVE  \E f \in failures : f.sub = s /\ f.at + DisableAfter <= time
    OBVIOUS
  <2>1. Shapes /\ StreaksFounded'
    BY DEF SubscriptionsInv
  <2>2. failures' = failures /\ time' = time
    BY UnsavedStays
  <2>3. HasFailed(failures, s, time - DisableAfter)
    BY <2>1, <2>2 DEF StreaksFounded, Founded
  <2>4. \A f \in failures : f.at \in Int
    BY <2>1 DEF Shapes, SubTypeOK, Time
  <2>5. time \in Int /\ DisableAfter \in Int
    BY <2>1, SubscriptionsAssumption DEF Shapes, SubTypeOK, Time
  <2>. QED  BY <2>3, <2>4, <2>5 DEF HasFailed
<1>. QED  BY <1>1, SubscriptionsAlways, PTL DEF SubSpec, NeverDisabledEarly

-----------------------------------------------------------------------------
(* How far the cap of a bond is overshot: it is checked before the insert, *)
(* without a lock (subscriptions.service.ts:110), and a row saved whole    *)
(* comes back after its removal without any check.                         *)

Existing == {s \in Subscriptions : Exists(s)}
Creating == {q \in Requests : request[q].op = "create"}
Copying == {q \in Requests : request[q].op \in {"update", "rotate"}}
Saving == {t \in Tasks : job[t].phase = "save"}

(* Subscriptions that are there, and those some copy may bring back.       *)
Kept ==
  Existing \cup {request[q].sub : q \in Copying} \cup {job[t].sub : t \in Saving}

InFlight == Cardinality(Requests) + Cardinality(Tasks)

CapInv == Cardinality(Kept) + Cardinality(Creating) < MaxPerBond + InFlight

LEMMA CapSetsFinite ==
  ASSUME IsFiniteSet(Requests)
  PROVE  /\ IsFiniteSet(Existing) /\ IsFiniteSet(Creating)
         /\ IsFiniteSet(Copying) /\ IsFiniteSet(Saving) /\ IsFiniteSet(Kept)
         /\ Cardinality(Existing) \in Nat /\ Cardinality(Creating) \in Nat
         /\ Cardinality(Copying) \in Nat /\ Cardinality(Saving) \in Nat
         /\ Cardinality(Kept) \in Nat /\ InFlight \in Nat
<1>1. /\ IsFiniteSet(Existing) /\ IsFiniteSet(Creating)
      /\ IsFiniteSet(Copying) /\ IsFiniteSet(Saving)
  BY FS_Subset, SubscriptionsAssumption, LimiterAssumption DEF Existing, Creating, Copying, Saving
<1>2. IsFiniteSet(Kept)
  <2>. DEFINE copied == [q \in Copying |-> request[q].sub]
              saved == [t \in Saving |-> job[t].sub]
  <2>1. IsFiniteSet({copied[q] : q \in Copying}) /\ IsFiniteSet({saved[t] : t \in Saving})
    <3>1. copied \in Surjection(Copying, {copied[q] : q \in Copying})
      BY DEF Surjection
    <3>2. saved \in Surjection(Saving, {saved[t] : t \in Saving})
      BY DEF Surjection
    <3>. QED  BY <1>1, <3>1, <3>2, FS_Surjection
  <2>2. Kept = Existing \cup {copied[q] : q \in Copying} \cup {saved[t] : t \in Saving}
    BY DEF Kept
  <2>. HIDE DEF copied, saved
  <2>. QED  BY <1>1, <2>1, <2>2, FS_Union
<1>. QED  BY <1>1, <1>2, FS_CardinalityType, LimiterAssumption DEF InFlight

(* Of the subscriptions that are kept, those without a row are in the      *)
(* hands of a request or a delivery, one each.                             *)
LEMMA KeptBound ==
  ASSUME IsFiniteSet(Requests)
  PROVE  Cardinality(Kept) <= Cardinality(Existing) + Cardinality(Copying) + Cardinality(Saving)
<1>. DEFINE copied == [q \in Copying |-> request[q].sub]
            saved == [t \in Saving |-> job[t].sub]
            A == {copied[q] : q \in Copying}
            B == {saved[t] : t \in Saving}
<1>1. /\ IsFiniteSet(A) /\ Cardinality(A) <= Cardinality(Copying)
      /\ IsFiniteSet(B) /\ Cardinality(B) <= Cardinality(Saving)
  <2>1. copied \in Surjection(Copying, A) /\ saved \in Surjection(Saving, B)
    BY DEF Surjection
  <2>. HIDE DEF A, B, copied, saved
  <2>. QED  BY <2>1, CapSetsFinite, FS_Surjection
<1>2. Kept = (Existing \cup A) \cup B
  BY DEF Kept
<1>. HIDE DEF A, B
<1>3. /\ IsFiniteSet(Existing \cup A)
      /\ Cardinality(Existing \cup A)
           = Cardinality(Existing) + Cardinality(A) - Cardinality(Existing \cap A)
  BY <1>1, CapSetsFinite, FS_Union
<1>4. Cardinality(Kept)
        = Cardinality(Existing \cup A) + Cardinality(B) - Cardinality((Existing \cup A) \cap B)
  BY <1>1, <1>2, <1>3, FS_Union
<1>5. /\ Cardinality(Existing \cap A) \in Nat /\ Cardinality((Existing \cup A) \cap B) \in Nat
      /\ Cardinality(A) \in Nat /\ Cardinality(B) \in Nat
  <2>1. IsFiniteSet(Existing \cap A) /\ IsFiniteSet((Existing \cup A) \cap B)
    BY <1>1, FS_Intersection
  <2>. QED  BY <1>1, <2>1, FS_CardinalityType
<1>. QED  BY <1>1, <1>3, <1>4, <1>5, CapSetsFinite

(* Only a count and an insert add to what is kept or being created.        *)
LEMMA CapSteps ==
  ASSUME Shapes, [SubNext]_allVars
  PROVE  \/ Kept' \subseteq Kept /\ Creating' \subseteq Creating
         \/ \E q \in Requests :
              /\ Count < MaxPerBond /\ request[q].op = "idle"
              /\ Kept' = Kept /\ Creating' = Creating \cup {q}
         \/ \E q \in Requests, s \in Subscriptions :
              /\ q \in Creating
              /\ Kept' \subseteq Kept \cup {s} /\ Creating' = Creating \ {q}
<1>1. /\ sub \in [Subscriptions -> Rows] /\ request \in [Requests -> RequestType]
      /\ job \in [Tasks -> JobType] /\ RowsLive
  BY DEF Shapes, SubTypeOK, RequestType, JobType
<1>. DEFINE Fewer == Kept' \subseteq Kept /\ Creating' \subseteq Creating
<1>2. ASSUME \A s \in Subscriptions : Exists(s)' => s \in Kept,
             \A q \in Requests : request'[q] = request[q] \/ request'[q].op = "idle"
                                 \/ (request'[q].op \in {"update", "rotate"} /\ request'[q].sub \in Kept),
             \A t \in Tasks : job'[t].phase = "save" => job'[t].sub \in Kept
      PROVE  Fewer
  <2>1. Creating' \subseteq Creating
    BY <1>2 DEF Creating
  <2>2. \A q \in Copying' : request'[q].sub \in Kept
    BY <1>2 DEF Copying, Kept
  <2>3. \A t \in Saving' : job'[t].sub \in Kept
    BY <1>2 DEF Saving
  <2>4. Existing' \subseteq Kept
    BY <1>2 DEF Existing
  <2>. QED  BY <2>1, <2>2, <2>3, <2>4 DEF Kept
<1>. HIDE DEF Fewer
<1>3. /\ \A s \in Subscriptions : Exists(s) => s \in Kept
      /\ \A q \in Requests : request[q].op \in {"update", "rotate"} => request[q].sub \in Kept
      /\ \A t \in Tasks : job[t].phase = "save" => job[t].sub \in Kept
  BY DEF Kept, Existing, Copying, Saving
<1>4. NoRequest.op = "idle" /\ NoJob.phase = "none" /\ NoRow.status = "none"
  BY NothingHeld
<1>5. ASSUME Tick \/ UNCHANGED allVars PROVE Fewer
  <2>1. sub' = sub /\ request' = request /\ job' = job
    BY <1>5 DEF Tick, allVars, subVars
  <2>. QED  BY <1>2, <1>3, <2>1 DEF Exists
<1>6. ASSUME NEW s \in Subscriptions, Remove(s) PROVE Fewer
  BY <1>1, <1>2, <1>3, <1>4, <1>6 DEF Remove, OnlySub, Exists
<1>7. ASSUME NEW q \in Requests, SaveRequest(q) \/ Abandon(q) PROVE Fewer
  <2>1. request' = [request EXCEPT ![q] = NoRequest] /\ job' = job
    BY <1>7 DEF SaveRequest, Abandon, Answer, OnlySub
  <2>2. \A s \in Subscriptions : Exists(s)' => s \in Kept
    BY <1>1, <1>3, <1>7 DEF SaveRequest, Abandon, Exists
  <2>. QED  BY <1>1, <1>2, <1>3, <1>4, <2>1, <2>2
<1>8. ASSUME NEW q \in Requests, NEW s \in Subscriptions, LoadUpdate(q, s) \/ LoadRotation(q, s)
      PROVE  Fewer
  <2>1. PICK r : /\ request' = [request EXCEPT ![q] = r]
                 /\ r.op \in {"update", "rotate"} /\ r.sub = s
    BY <1>8, UpdateLoads, RotationLoads
  <2>2. sub' = sub /\ job' = job /\ Exists(s)
    BY <1>8 DEF LoadUpdate, LoadRotation, OnlySub
  <2>. QED  BY <1>1, <1>2, <1>3, <2>1, <2>2 DEF Exists
<1>9. ASSUME NEW q \in Requests, CountFirst(q)
      PROVE  /\ Count < MaxPerBond /\ request[q].op = "idle"
             /\ Kept' = Kept /\ Creating' = Creating \cup {q}
  <2>1. PICK r : /\ request' = [request EXCEPT ![q] = r] /\ r.op = "create"
    <3>1. request' = [request EXCEPT ![q] = Request("create", NoSub, NoRow)]
      BY <1>9 DEF CountFirst, Begin
    <3>2. Request("create", NoSub, NoRow).op = "create"
      BY DEF Request
    <3>. QED  BY <3>1, <3>2
  <2>2. Count < MaxPerBond /\ request[q].op = "idle" /\ sub' = sub /\ job' = job
    BY <1>4, <1>9 DEF CountFirst, Begin, OnlySub
  <2>3. /\ request'[q].op = "create"
        /\ \A z \in Requests : z # q => request'[z] = request[z]
    BY <1>1, <2>1
  <2>4. Creating' = Creating \cup {q}
    BY <2>3 DEF Creating
  <2>5. Copying' = Copying /\ \A z \in Copying : request'[z] = request[z]
    BY <2>2, <2>3 DEF Copying
  <2>6. Kept' = Kept
    BY <2>2, <2>5 DEF Kept, Existing, Exists, Saving
  <2>. QED  BY <2>2, <2>4, <2>6
<1>10. ASSUME NEW q \in Requests, NEW s \in Subscriptions, Insert(q, s)
       PROVE  /\ q \in Creating
              /\ Kept' \subseteq Kept \cup {s} /\ Creating' = Creating \ {q}
  <2>1. /\ request' = [request EXCEPT ![q] = NoRequest] /\ request[q].op = "create"
        /\ job' = job /\ \A z \in Subscriptions : z # s => sub'[z] = sub[z]
    BY <1>1, <1>10 DEF Insert, Answer, OnlySub
  <2>2. /\ request'[q].op = "idle"
        /\ \A z \in Requests : z # q => request'[z] = request[z]
    BY <1>1, <1>4, <2>1
  <2>3. q \in Creating /\ Creating' = Creating \ {q}
    BY <2>1, <2>2 DEF Creating
  <2>4. Copying' = Copying /\ \A z \in Copying : request'[z] = request[z]
    BY <2>1, <2>2 DEF Copying
  <2>5. Existing' \subseteq Existing \cup {s}
    BY <2>1 DEF Existing, Exists
  <2>6. Saving' = Saving
    BY <2>1 DEF Saving
  <2>. QED  BY <2>1, <2>3, <2>4, <2>5, <2>6 DEF Kept
<1>11. ASSUME NEW t \in Tasks, TaskNext(t) PROVE Fewer
  <2>1. request' = request
    BY <1>11 DEF TaskNext, Prepare, Enter, Post, Respond, Apply, SaveOutcome, OnlyJob, subVars
  <2>2. CASE SaveOutcome(t)
    <3>1. job[t].sub \in Kept /\ job' = [job EXCEPT ![t] = NoJob]
          /\ sub' = [sub EXCEPT ![job[t].sub] = job[t].row]
      BY <1>3, <2>2 DEF SaveOutcome
    <3>. QED  BY <1>1, <1>2, <1>3, <1>4, <2>1, <3>1 DEF Exists
  <2>3. CASE Apply(t)
    <3>1. PICK j : /\ job' = [job EXCEPT ![t] = j]
                   /\ j.phase = "save" => j.sub \in Kept
      <4>1. job[t].sub \in Subscriptions
        BY <1>1, <2>3 DEF Apply, RowsLive, JobSound
      <4>2. job[t] \in JobType
        BY <1>1
      <4>3. ASSUME Exists(job[t].sub), NEW row,
                   job' = [job EXCEPT ![t] = [job[t] EXCEPT !.phase = "save", !.row = row]]
            PROVE  \E j : /\ job' = [job EXCEPT ![t] = j]
                          /\ j.phase = "save" => j.sub \in Kept
        <5>1. [job[t] EXCEPT !.phase = "save", !.row = row].sub = job[t].sub
          BY <4>2 DEF JobType
        <5>. QED  BY <1>3, <4>1, <4>3, <5>1
      <4>4. \/ job' = [job EXCEPT ![t] = NoJob]
            \/ /\ Exists(job[t].sub)
               /\ \E row : job' = [job EXCEPT ![t] = [job[t] EXCEPT !.phase = "save", !.row = row]]
        BY <2>3 DEF Apply
      <4>. QED  BY <1>4, <4>3, <4>4
    <3>2. sub' = sub
      BY <2>3 DEF Apply
    <3>. QED  BY <1>1, <1>2, <1>3, <2>1, <3>1, <3>2 DEF Exists
  <2>4. CASE \/ Enter(t) \/ Post(t) \/ (\E s \in Subscriptions : Prepare(t, s))
             \/ \E outcome \in {"success", "failure", "gone", "ping"} : Respond(t, outcome)
    <3>1. sub' = sub
      BY <2>4 DEF Enter, Post, Prepare, Respond, subVars
    <3>2. job' = job \/ \E j : job' = [job EXCEPT ![t] = j] /\ j.phase # "save"
      <4>1. CASE Post(t)
        BY <4>1 DEF Post, subVars
      <4>2. CASE Enter(t)
        <5>1. PICK j : j = Job("sent", job[t].sub, job[t].since, {}, Never)
          OBVIOUS
        <5>2. job' = [job EXCEPT ![t] = j] /\ j.phase = "sent"
          BY <1>1, <4>2, <5>1 DEF Enter, Job
        <5>. QED  BY <5>2
      <4>3. CASE \E s \in Subscriptions : Prepare(t, s)
        <5>1. PICK s \in Subscriptions : Prepare(t, s)
          BY <4>3
        <5>2. PICK j : j = Job("ready", s, sub[s].since, SigningSecrets(sub[s]), time)
          OBVIOUS
        <5>3. job' = [job EXCEPT ![t] = j] /\ j.phase = "ready"
          BY <5>1, <5>2 DEF Prepare, Job
        <5>. QED  BY <5>3
      <4>4. ASSUME NEW outcome, Respond(t, outcome)
            PROVE  \E j : job' = [job EXCEPT ![t] = j] /\ j.phase # "save"
        <5>1. CASE outcome = "ping"
          BY <1>4, <4>4, <5>1 DEF Respond
        <5>2. CASE outcome # "ping"
          <6>. DEFINE j == [job[t] EXCEPT !.phase = "apply", !.outcome = outcome]
          <6>1. job' = [job EXCEPT ![t] = j]
            BY <4>4, <5>2 DEF Respond
          <6>2. j.phase = "apply"
            BY <1>1 DEF JobType
          <6>. QED  BY <6>1, <6>2
        <5>. QED  BY <5>1, <5>2
      <4>. QED  BY <2>4, <4>1, <4>2, <4>3, <4>4
    <3>3. \A z \in Tasks : job'[z].phase = "save" => job'[z].sub \in Kept
      BY <1>1, <1>3, <3>2
    <3>. QED  BY <1>2, <1>3, <2>1, <3>1, <3>3 DEF Exists
  <2>. QED  BY <1>11, <2>2, <2>3, <2>4 DEF TaskNext
<1>12. [SubNext]_allVars =>
         \/ Tick \/ UNCHANGED allVars
         \/ \E s \in Subscriptions : Remove(s)
         \/ \E q \in Requests : SaveRequest(q) \/ Abandon(q) \/ CountFirst(q)
         \/ \E q \in Requests, s \in Subscriptions :
              LoadUpdate(q, s) \/ LoadRotation(q, s) \/ Insert(q, s)
         \/ \E t \in Tasks : TaskNext(t)
  BY DEF SubNext, RequestNext
<1>. QED  BY <1>5, <1>6, <1>7, <1>8, <1>9, <1>10, <1>11, <1>12 DEF Fewer

LEMMA CapNext ==
  ASSUME IsFiniteSet(Requests), Shapes, CapInv, [SubNext]_allVars
  PROVE  CapInv'
<1>1. MaxPerBond \in Nat
  BY SubscriptionsAssumption
<1>2. CASE Kept' \subseteq Kept /\ Creating' \subseteq Creating
  <2>1. Cardinality(Kept') <= Cardinality(Kept) /\ Cardinality(Creating') <= Cardinality(Creating)
        /\ Cardinality(Kept') \in Nat /\ Cardinality(Creating') \in Nat
    BY <1>2, CapSetsFinite, FS_Subset, FS_CardinalityType
  <2>. QED  BY <1>1, <2>1, CapSetsFinite DEF CapInv, InFlight
<1>3. ASSUME NEW q \in Requests, Count < MaxPerBond, request[q].op = "idle",
             Kept' = Kept, Creating' = Creating \cup {q}
      PROVE  CapInv'
  <2>. DEFINE C == Creating \cup {q}
  <2>1. C \cap Copying = {} /\ C \cup Copying \subseteq Requests
    BY <1>3 DEF Creating, Copying
  <2>2. IsFiniteSet(C) /\ Cardinality(C) \in Nat
    BY CapSetsFinite, FS_AddElement, FS_CardinalityType
  <2>3. IsFiniteSet(C \cup Copying)
        /\ Cardinality(C \cup Copying) = Cardinality(C) + Cardinality(Copying) - Cardinality(C \cap Copying)
    BY <2>2, CapSetsFinite, FS_Union
  <2>4. Cardinality(C \cap Copying) = 0
    BY <2>1, FS_EmptySet
  <2>5. Cardinality(C \cup Copying) <= Cardinality(Requests) /\ Cardinality(Requests) \in Nat
    BY <2>1, FS_Subset, FS_CardinalityType
  <2>6. Cardinality(Saving) <= Cardinality(Tasks) /\ Cardinality(Tasks) \in Nat
    BY FS_Subset, FS_CardinalityType, LimiterAssumption DEF Saving
  <2>7. Cardinality(Existing) < MaxPerBond
    BY <1>3 DEF Count, Existing
  <2>8. Creating' = C
    BY <1>3
  <2>. HIDE DEF C
  <2>9. Cardinality(Kept) + Cardinality(C) < MaxPerBond + Cardinality(Requests) + Cardinality(Tasks)
    <3>1. Cardinality(C) + Cardinality(Copying) <= Cardinality(Requests)
      BY <2>2, <2>3, <2>4, <2>5, CapSetsFinite
    <3>2. Cardinality(Kept) <= Cardinality(Existing) + Cardinality(Copying) + Cardinality(Saving)
      BY KeptBound
    <3>. QED  BY <1>1, <2>2, <2>5, <2>6, <2>7, <3>1, <3>2, CapSetsFinite
  <2>10. Cardinality(Kept)' + Cardinality(Creating)' = Cardinality(Kept) + Cardinality(C)
    BY <1>3, <2>8
  <2>11. InFlight' = Cardinality(Requests) + Cardinality(Tasks)
    BY DEF InFlight
  <2>12. MaxPerBond + Cardinality(Requests) + Cardinality(Tasks)
           = MaxPerBond + (Cardinality(Requests) + Cardinality(Tasks))
    BY <1>1, <2>5, <2>6
  <2>. QED  BY <2>9, <2>10, <2>11, <2>12 DEF CapInv
<1>4. ASSUME NEW q \in Requests, NEW s \in Subscriptions, q \in Creating,
             Kept' \subseteq Kept \cup {s}, Creating' = Creating \ {q}
      PROVE  CapInv'
  <2>1. Cardinality(Creating') = Cardinality(Creating) - 1
    BY <1>4, CapSetsFinite, FS_RemoveElement
  <2>2. IsFiniteSet(Kept \cup {s}) /\ Cardinality(Kept \cup {s}) <= Cardinality(Kept) + 1
    <3>1. /\ IsFiniteSet(Kept \cup {s})
          /\ \/ Cardinality(Kept \cup {s}) = Cardinality(Kept)
             \/ Cardinality(Kept \cup {s}) = Cardinality(Kept) + 1
      BY CapSetsFinite, FS_AddElement
    <3>. QED  BY <3>1, CapSetsFinite
  <2>3. /\ Cardinality(Kept') <= Cardinality(Kept \cup {s})
        /\ Cardinality(Kept') \in Nat /\ Cardinality(Kept \cup {s}) \in Nat
    BY <1>4, <2>2, FS_Subset, FS_CardinalityType
  <2>. QED  BY <1>1, <2>1, <2>2, <2>3, CapSetsFinite DEF CapInv, InFlight
<1>. QED  BY <1>2, <1>3, <1>4, CapSteps

(* The cap of subscriptions of a bond is overshot by fewer rows than there *)
(* are requests and deliveries at work: concurrent creations that have     *)
(* counted before each other's insert, and removed rows that are saved     *)
(* again (create(), updateEntity()).                                       *)
THEOREM CapIsNearlyKept ==
  ASSUME IsFiniteSet(Requests)
  PROVE  SubSpec => [](Count < MaxPerBond + InFlight)
<1>1. SubInit => CapInv
  <2>. SUFFICES ASSUME SubInit PROVE CapInv
    OBVIOUS
  <2>1. Kept = {} /\ Creating = {}
    <3>1. NoRequest.op = "idle" /\ NoJob.phase = "none" /\ NoRow.status = "none"
      BY NothingHeld
    <3>. QED  BY <3>1 DEF SubInit, Kept, Creating, Existing, Exists, Copying, Saving
  <2>. QED  BY <2>1, FS_EmptySet, CapSetsFinite, SubscriptionsAssumption DEF CapInv
<1>2. SubscriptionsInv /\ CapInv /\ [SubNext]_allVars => CapInv'
  BY CapNext DEF SubscriptionsInv
<1>3. CapInv => Count < MaxPerBond + InFlight
  <2>. SUFFICES ASSUME CapInv PROVE Count < MaxPerBond + InFlight
    OBVIOUS
  <2>1. Cardinality(Existing) <= Cardinality(Kept)
    BY CapSetsFinite, FS_Subset DEF Kept
  <2>2. Count = Cardinality(Existing)
    BY DEF Count, Existing
  <2>. QED  BY <2>1, <2>2, CapSetsFinite, SubscriptionsAssumption DEF CapInv
<1>. QED  BY <1>1, <1>2, <1>3, SubscriptionsAlways, PTL DEF SubSpec

=============================================================================
