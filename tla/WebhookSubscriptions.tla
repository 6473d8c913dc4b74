------------------------ MODULE WebhookSubscriptions ------------------------
(***************************************************************************)
(* The webhook subscriptions of a bond: creation under a cap, changes,     *)
(* rotation of the secret with its grace window, the failure streak and    *)
(* the automatic disabling, composed with the limiter of the endpoint that *)
(* all of them deliver to (src/src/webhooks: subscriptions.service.ts,     *)
(* subscription-health.service.ts, and of delivery.service.ts what reads   *)
(* or writes a subscription).                                              *)
(*                                                                         *)
(* updateEntity() loads a row, patches it and saves what differs from the  *)
(* table: the row as it was loaded, patched, whatever was written between. *)
(***************************************************************************)
EXTENDS EndpointLimiter, Integers

CONSTANTS
  Subscriptions,  \* ids a subscription may get
  NoSub,
  Requests,       \* API requests that run at once
  MaxPerBond,     \* WEBHOOK_MAX_SUBSCRIPTIONS_PER_BOND
  DisableAfter,   \* WEBHOOK_AUTO_DISABLE_DAYS
  Grace,          \* rotation grace window
  MaxTime,        \* bound: the clock
  MaxSecrets      \* bound: secrets generated

ASSUME SubscriptionsAssumption ==
  /\ NoSub \notin Subscriptions /\ IsFiniteSet(Subscriptions)
  /\ {MaxPerBond, DisableAfter, Grace} \subseteq Nat \ {0}
  /\ {MaxTime, MaxSecrets} \subseteq Nat

VARIABLES
  sub,        \* the table
  request,    \* what every API request is about to write
  job,        \* what every delivery has read, signed, heard and is about to write
  time,
  issued,     \* secrets generated so far
  rotations,  \* history: rotations saved
  failures    \* history: failures counted

subVars == <<sub, request, job, time, issued, rotations, failures>>
allVars == <<subVars, vars>>

Time == 0..MaxTime
Never == -1
Secrets == 1..MaxSecrets

Row(status, since, secret, prev, until) ==
  [status |-> status, since |-> since, secret |-> secret, prev |-> prev, until |-> until]
NoRow == Row("none", Never, 0, 0, Never)
Rows == [status : {"none", "active", "disabled", "auto"}, since : Time \cup {Never},
         secret : 0..MaxSecrets, prev : 0..MaxSecrets,
         until : {Never} \cup 0..(MaxTime + Grace)]

Exists(s) == sub[s].status # "none"
Count == Cardinality({ s \in Subscriptions : Exists(s) })

Request(op, s, row) == [op |-> op, sub |-> s, row |-> row]
NoRequest == Request("idle", NoSub, NoRow)

(* A delivery or a test ping: `since` is the streak of the row it read,    *)
(* `secrets` those it signed with, and when.                               *)
Job(phase, s, since, secrets, at) ==
  [phase |-> phase, sub |-> s, since |-> since, secrets |-> secrets, at |-> at,
   outcome |-> "none", row |-> NoRow]
NoJob == Job("none", NoSub, Never, {}, Never)

(* One type invariant.                                                     *)
SubTypeOK ==
  /\ TypeOK
  /\ sub \in [Subscriptions -> Rows]
  /\ request \in [Requests -> [op : {"idle", "create", "update", "rotate"},
                               sub : Subscriptions \cup {NoSub}, row : Rows]]
  /\ job \in [Tasks -> [phase : {"none", "ready", "sent", "apply", "save"},
                        sub : Subscriptions \cup {NoSub},
                        since : Time \cup {Never}, secrets : SUBSET Secrets,
                        at : Time \cup {Never}, row : Rows,
                        outcome : {"none", "success", "failure", "gone"}]]
  /\ time \in Time
  /\ issued \in 0..MaxSecrets
  /\ rotations \subseteq [sub : Subscriptions, from : Secrets, at : Time]
  /\ failures \subseteq [sub : Subscriptions, at : Time]

SubInit ==
  /\ Init
  /\ sub = [s \in Subscriptions |-> NoRow]
  /\ request = [q \in Requests |-> NoRequest]
  /\ job = [t \in Tasks |-> NoJob]
  /\ time = 0
  /\ issued = 0
  /\ rotations = {}
  /\ failures = {}

-----------------------------------------------------------------------------
(* The API.                                                                *)

Begin(q, r) == request[q] = NoRequest /\ request' = [request EXCEPT ![q] = r]
Answer(q) == request' = [request EXCEPT ![q] = NoRequest]
FreshSecret == issued < MaxSecrets /\ issued' = issued + 1
OnlySub == UNCHANGED <<vars, job, time>>

(* create(): the subscriptions are counted ...                             *)
CountFirst(q) ==
  /\ Count < MaxPerBond
  /\ Begin(q, Request("create", NoSub, NoRow))
  /\ UNCHANGED <<sub, issued, rotations, failures>> /\ OnlySub

(* ... and then one is inserted, with an id nobody has used.               *)
Insert(q, s) ==
  /\ request[q].op = "create"
  /\ ~Exists(s)
  /\ \A p \in Requests : request[p].sub # s
  /\ \A t \in Tasks : job[t].sub # s
  /\ \A r \in rotations \cup failures : r.sub # s
  /\ FreshSecret
  /\ sub' = [sub EXCEPT ![s] = Row("active", Never, issued + 1, 0, Never)]
  /\ Answer(q)
  /\ UNCHANGED <<rotations, failures>> /\ OnlySub

(* update(): a new status or none; the user may not choose `auto`.  Neither*)
(* way touches the streak.                                                 *)
LoadUpdate(q, s) ==
  /\ Exists(s)
  /\ \E status \in {"active", "disabled", sub[s].status} :
       Begin(q, Request("update", s, [sub[s] EXCEPT !.status = status]))
  /\ UNCHANGED <<sub, issued, rotations, failures>> /\ OnlySub

(* Faulty variant: the old secret is forgotten at once.                    *)
LoadRotationAtOnce(q, s) ==
  /\ Exists(s)
  /\ FreshSecret
  /\ Begin(q, Request("rotate", s,
       [sub[s] EXCEPT !.secret = issued + 1, !.prev = sub[s].secret, !.until = time]))
  /\ UNCHANGED <<sub, rotations, failures>> /\ OnlySub

(* rotateSecret(): the current secret becomes the previous one for a while.*)
(* findInBond() reads it and updateEntity() reads the row again, at once   *)
(* here.                                                                   *)
LoadRotation(q, s) ==
  /\ Exists(s)
  /\ FreshSecret
  /\ Begin(q, Request("rotate", s,
       [sub[s] EXCEPT !.secret = issued + 1, !.prev = sub[s].secret, !.until = time + Grace]))
  /\ UNCHANGED <<sub, rotations, failures>> /\ OnlySub

(* The save of an update or a rotation; save() inserts a row that has been *)
(* removed meanwhile.                                                      *)
SaveRequest(q) ==
  LET r == request[q] IN
  /\ r.op \in {"update", "rotate"}
  /\ sub' = [sub EXCEPT ![r.sub] = r.row]
  /\ rotations' = IF r.op = "rotate"
                    THEN rotations \cup {[sub |-> r.sub, from |-> r.row.prev, at |-> time]}
                    ELSE rotations
  /\ Answer(q)
  /\ UNCHANGED <<issued, failures>> /\ OnlySub

(* remove(): the row and, by cascade, its deliveries.                      *)
Remove(s) ==
  /\ Exists(s)
  /\ sub' = [sub EXCEPT ![s] = NoRow]
  /\ UNCHANGED <<request, issued, rotations, failures>> /\ OnlySub

(* A request fails before its write.                                       *)
Abandon(q) ==
  /\ request[q] # NoRequest
  /\ Answer(q)
  /\ UNCHANGED <<sub, issued, rotations, failures>> /\ OnlySub

-----------------------------------------------------------------------------
(* A delivery.                                                             *)

(* signingSecretsFor()                                                     *)
SigningSecrets(row) ==
  {row.secret} \cup (IF row.prev # 0 /\ row.until > time THEN {row.prev} ELSE {})

OnlyJob == UNCHANGED <<request, time, issued, rotations>>

(* handle() and handleTest(), up to limiter.run(): an active subscription  *)
(* is read and the payload is signed.  Any other ends the delivery.        *)
Prepare(t, s) ==
  /\ job[t] = NoJob
  /\ sub[s].status = "active"
  /\ job' = [job EXCEPT ![t] = Job("ready", s, sub[s].since, SigningSecrets(sub[s]), time)]
  /\ UNCHANGED <<vars, sub, failures>> /\ OnlyJob

(* limiter.run() with the post inside; headers are not looked at again.    *)
Enter(t) ==
  /\ job[t].phase = "ready"
  /\ Acquire(t) \/ Wait(t)
  /\ job' = [job EXCEPT ![t] = Job("sent", @.sub, @.since, {}, Never)]
  /\ UNCHANGED <<sub, failures>> /\ OnlyJob
Post(t) ==
  /\ Start(t)
  /\ UNCHANGED subVars
(* The answer to a ping (handleTest) is not used.                          *)
Respond(t, outcome) ==
  /\ job[t].phase = "sent"
  /\ HandOver(t) \/ GiveBack(t)
  /\ job' = [job EXCEPT ![t] = IF outcome = "ping" THEN NoJob
                               ELSE [@ EXCEPT !.phase = "apply", !.outcome = outcome]]
  /\ UNCHANGED <<sub, failures>> /\ OnlyJob

(* What recordSuccess(), recordFailure() and disableSubscription() write:  *)
(* they go by the streak the delivery read.  Faulty variant: the first     *)
(* failure after the start of a streak disables.                           *)
PatchAtOnce(j) ==
  CASE j.outcome = "success" /\ j.since # Never -> [since |-> Never, status |-> "same"]
    [] j.outcome = "failure" /\ j.since = Never -> [since |-> time, status |-> "same"]
    [] j.outcome = "failure" /\ j.since # Never -> [since |-> Never, status |-> "auto"]
    [] j.outcome = "gone"                       -> [since |-> Never, status |-> "disabled"]
    [] OTHER                                    -> [since |-> Never, status |-> "none"]
Patch(j) ==
  CASE j.outcome = "success" /\ j.since # Never -> [since |-> Never, status |-> "same"]
    [] j.outcome = "failure" /\ j.since = Never -> [since |-> time, status |-> "same"]
    [] j.outcome = "failure" /\ j.since # Never /\ time - j.since >= DisableAfter ->
         [since |-> Never, status |-> "auto"]
    [] j.outcome = "gone"                       -> [since |-> Never, status |-> "disabled"]
    [] OTHER                                    -> [since |-> Never, status |-> "none"]

(* applyOutcome(): the row is loaded, or there is nothing to write; a row  *)
(* that is gone is an error.                                               *)
Apply(t) ==
  LET j == job[t]
      patch == Patch(j)
      row == sub[j.sub]
      status == IF patch.status = "same" THEN row.status ELSE patch.status
  IN
  /\ j.phase = "apply"
  /\ failures' = IF j.outcome = "failure" THEN failures \cup {[sub |-> j.sub, at |-> time]}
                                          ELSE failures
  /\ job' = [job EXCEPT ![t] =
       IF patch.status = "none" \/ ~Exists(j.sub) THEN NoJob
       ELSE [j EXCEPT !.phase = "save", !.row = [row EXCEPT !.since = patch.since, !.status = status]]]
  /\ UNCHANGED <<vars, sub>> /\ OnlyJob

SaveOutcome(t) ==
  /\ job[t].phase = "save"
  /\ sub' = [sub EXCEPT ![job[t].sub] = job[t].row]
  /\ job' = [job EXCEPT ![t] = NoJob]
  /\ UNCHANGED <<vars, failures>> /\ OnlyJob

(* A row is loaded and saved within the same moment of this clock.         *)
Tick ==
  /\ time < MaxTime
  /\ \A q \in Requests : request[q] = NoRequest
  /\ \A t \in Tasks : job[t].phase # "save"
  /\ time' = time + 1
  /\ UNCHANGED <<vars, sub, request, job, issued, rotations, failures>>

RequestNext(q) ==
  \/ CountFirst(q) \/ SaveRequest(q) \/ Abandon(q)
  \/ \E s \in Subscriptions : Insert(q, s) \/ LoadUpdate(q, s) \/ LoadRotation(q, s)

TaskNext(t) ==
  \/ \E s \in Subscriptions : Prepare(t, s)
  \/ Enter(t) \/ Post(t) \/ Apply(t) \/ SaveOutcome(t)
  \/ \E outcome \in {"success", "failure", "gone", "ping"} : Respond(t, outcome)

SubNext ==
  \/ \E q \in Requests : RequestNext(q)
  \/ \E s \in Subscriptions : Remove(s)
  \/ \E t \in Tasks : TaskNext(t)
  \/ Tick

SubSpec == SubInit /\ [][SubNext]_allVars

-----------------------------------------------------------------------------
(* Properties.                                                             *)

(* A receiver that has not taken over the new secret yet understands every *)
(* message of the grace window: whatever rows were saved over one another, *)
(* a message carries the secret that the rotation replaced, unless there   *)
(* was another rotation within the window (rotateSecret, signingSecretsFor)*)
RotationIsGraceful ==
  \A t \in Tasks, r \in rotations :
    /\ job[t].phase = "ready" /\ job[t].sub = r.sub
    /\ r.at <= job[t].at /\ job[t].at < r.at + Grace
    /\ \A other \in rotations \ {r} :
         other.sub = r.sub => other.at + Grace <= r.at \/ r.at + Grace <= other.at
    => r.from \in job[t].secrets

(* Nobody is disabled without a failure that is old enough, however stale  *)
(* the row was from which the streak was read (recordFailure).             *)
NeverDisabledEarly ==
  [][\A s \in Subscriptions :
       sub'[s].status = "auto" /\ sub[s].status # "auto" =>
         \E f \in failures : f.sub = s /\ f.at + DisableAfter <= time]_allVars

(* subscription-health.service.ts: "si se rehabilita, una nueva racha      *)
(* empieza desde cero".                                                    *)
StreakStartsAnew ==
  [][\A s \in Subscriptions :
       sub[s].status = "auto" /\ sub'[s].status = "active" => sub'[s].since = Never]_allVars

=============================================================================
