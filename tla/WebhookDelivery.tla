-------------------------- MODULE WebhookDelivery --------------------------
(***************************************************************************)
(* From the outbox to the customer's endpoint: the relay and its fan-out,  *)
(* the delivery jobs with their retries, the reconciliation and the manual *)
(* replay (src/src/webhooks/dispatcher, delivery, admin).                  *)
(*                                                                         *)
(* Two stores are written one after the other: PostgreSQL (outbox,         *)
(* deliveries) and Redis (one job per delivery, its id computed from event *)
(* and subscription).  Each counts attempts on its own: the row in         *)
(* attempt_count, BullMQ in attemptsMade.  The steps of a relay run, of a  *)
(* handler, of a reconciliation, of a replay and of an edit of a           *)
(* subscription interleave freely at their awaits.                         *)
(*                                                                         *)
(* Delays are untimed: a backoff ends at any moment.  The realtime frames  *)
(* and notifications that a relay run also sends, retention, and the       *)
(* failure streak of a subscription are not modelled here; an automatic    *)
(* disabling is one of the statuses a handler may save.                    *)
(***************************************************************************)
EXTENDS Naturals, Sequences, FiniteSets

CONSTANTS Events,         \* outbox events of one bond
          Subscriptions,  \* its webhook subscriptions
          Types,          \* event types the outbox produces
          TypeOf,         \* TypeOf[e], the type of event e
          Asked,          \* Asked[s], the event_types s was created with
          Null,
          Pollers,        \* dispatch-poll jobs that may overlap
          Reconcilers,    \* reconcile jobs that may overlap
          Handlers,       \* concurrent delivery handlers of the worker
          Clients,        \* API connections that replay deliveries and edit subscriptions
          MaxAttempts,    \* WEBHOOK_MAX_ATTEMPTS
          BatchLimit,     \* RELAY_BATCH_LIMIT
          Faults,         \* subset of FaultKinds
          MaxUpsets,      \* bound: faults, replays and edits in one behaviour
          MaxRemovals     \* bound: removals of a subscription

Runners == Pollers \cup Reconcilers
Pairs == Events \X Subscriptions

Open == {"PENDING", "RETRYING"}
Settled == {"SUCCEEDED", "FAILED", "DEAD"}
Outcomes == {"SUCCESS", "RETRY", "TERMINAL", "DISABLE"}

(* due: next_attempt_at is NULL or has passed.                             *)
Delivery == [status : Open \cup Settled, count : Nat, due : BOOLEAN]

(* A BullMQ job.  A completed job is kept for an hour, a failed one for    *)
(* ever, and either keeps its id taken.                                    *)
Job == [state : {"waiting", "delayed", "active", "completed", "failed"},
        made : 0..MaxAttempts, stalled : BOOLEAN]

FaultKinds == {"refuse", "lose", "rollback", "error", "crash", "stall"}

Run == [phase : {"relay", "matched", "enqueue", "reconcile"},
        batch : Seq(Events), matched : SUBSET Subscriptions, todo : SUBSET Pairs]

(* lock: BullMQ has not given the job to anybody else.  life: which row of *)
(* the pair was read.  patch: the status the handler is about to save.     *)
Handling == [pair : Pairs, no : Nat, life : Nat, lock : BOOLEAN,
             stage : {"taken", "read", "post", "answered", "settled", "retry",
                      "return", "throw"},
             outcome : Outcomes, patch : {"ACTIVE", "DISABLED", Null}]

(* A subscription as an edit has loaded it, with the status to be saved.   *)
EditCopy == [sub : Subscriptions, status : {"ACTIVE", "DISABLED"}]

(* What a subscription may ask for besides a type: the catch-all that no   *)
(* producer emits, and everything.                                         *)
Virtual == "activity.state_changed"
Wildcard == "*"

ASSUME DeliveryAssumption ==
  /\ Virtual \notin Types /\ Wildcard \notin Types
  /\ TypeOf \in [Events -> Types]
  /\ Asked \in [Subscriptions -> SUBSET (Types \cup {Virtual, Wildcard})]
  /\ Pollers \cap Reconcilers = {}
  /\ MaxAttempts \in Nat \ {0}
  /\ BatchLimit \in Nat \ {0}
  /\ Faults \subseteq FaultKinds
  /\ {MaxUpsets, MaxRemovals} \subseteq Nat
  /\ Null \notin Delivery \cup Job \cup Run \cup Handling \cup EditCopy \cup Pairs
  /\ Null \notin {"ACTIVE", "DISABLED"}

VARIABLES outbox,        \* events in the order of created_at
          dispatched,    \* events whose dispatched_at is set
          subscription,  \* status of each subscription
          removals,      \* how often each subscription has been removed
          edit,          \* edit[c], what c has loaded and not saved
          delivery,      \* webhook_delivery rows by pair
          posts,         \* requests since the first row of a pair or its last replay
          job,           \* jobs of the queue by pair
          run,           \* relay and reconcile runs in progress
          handler,       \* handlers in progress
          replay,        \* replay[c], the pair c has reset and not enqueued
          spent          \* upsets so far, and what the history has been

subs == <<subscription, removals, edit>>

vars == <<outbox, dispatched, subscription, removals, edit, delivery, posts,
          job, run, handler, replay, spent>>

TypeOK ==
  /\ outbox \in Seq(Events)
  /\ dispatched \subseteq Events
  /\ subscription \in [Subscriptions -> {"ACTIVE", "DISABLED", "REMOVED"}]
  /\ removals \in [Subscriptions -> Nat]
  /\ edit \in [Clients -> EditCopy \cup {Null}]
  /\ delivery \in [Pairs -> Delivery \cup {Null}]
  /\ posts \in [Pairs -> Nat]
  /\ job \in [Pairs -> Job \cup {Null}]
  /\ run \in [Runners -> Run \cup {Null}]
  /\ handler \in [Handlers -> Handling \cup {Null}]
  /\ replay \in [Clients -> Pairs \cup {Null}]
  /\ spent \in [upsets : Nat, calm : BOOLEAN, steady : SUBSET Subscriptions]

-----------------------------------------------------------------------------
NewJob == [state |-> "waiting", made |-> 0, stalled |-> FALSE]

(* Faulty variant: a finished job is replaced.                             *)
AddJobUnlessLive(p) ==
  job' = [job EXCEPT ![p] =
    IF @ = Null \/ @.state \in {"completed", "failed"} THEN NewJob ELSE @]

(* queue.add with a jobId: a no-op while any job has that id.              *)
AddJob(p) == job' = [job EXCEPT ![p] = IF @ = Null THEN NewJob ELSE @]

InState(p, states) == job[p] # Null /\ job[p].state \in states

IsLive(p) == InState(p, {"waiting", "delayed", "active"})

HasStatus(p, statuses) == delivery[p] # Null /\ delivery[p].status \in statuses

(* calm: neither a replay, nor a worker that died or lost its lock, nor a  *)
(* failing database, nor a subscription that came back.  steady: who has   *)
(* been active all along.                                                  *)
Upset(calmly) ==
  /\ spent.upsets < MaxUpsets
  /\ spent' = [spent EXCEPT !.upsets = @ + 1, !.calm = @ /\ calmly]

Fault(f) == f \in Faults /\ Upset(f \notin {"error", "crash", "stall"})

-----------------------------------------------------------------------------
Init ==
  /\ outbox = <<>>
  /\ dispatched = {}
  /\ subscription = [s \in Subscriptions |-> "ACTIVE"]
  /\ removals = [s \in Subscriptions |-> 0]
  /\ edit = [c \in Clients |-> Null]
  /\ delivery = [p \in Pairs |-> Null]
  /\ posts = [p \in Pairs |-> 0]
  /\ job = [p \in Pairs |-> Null]
  /\ run = [r \in Runners |-> Null]
  /\ handler = [h \in Handlers |-> Null]
  /\ replay = [c \in Clients |-> Null]
  /\ spent = [upsets |-> 0, calm |-> TRUE, steady |-> Subscriptions]

(* A transition of an activity commits with its event.                     *)
Produce(e) ==
  /\ \A i \in 1..Len(outbox) : outbox[i] # e
  /\ outbox' = Append(outbox, e)
  /\ UNCHANGED <<dispatched, subs, delivery, posts, job, run, handler, replay, spent>>

(* updateEntity: the row is loaded, patched and saved later.  save()       *)
(* writes the status of the copy over whatever is there, and inserts the   *)
(* row again if it has been removed meanwhile.                             *)
SaveStatus(s, status) ==
  /\ subscription' = [subscription EXCEPT ![s] = status]
  /\ spent' = [spent EXCEPT !.calm = @ /\ subscription[s] # "REMOVED",
                            !.steady = IF status = "ACTIVE" THEN @ ELSE @ \ {s}]

(* update() and rotateSecret() of a member: a new status or the loaded one.*)
LoadEdit(c, s) ==
  /\ edit[c] = Null
  /\ subscription[s] # "REMOVED"
  /\ Upset(TRUE)
  /\ \E status \in {"ACTIVE", "DISABLED"} :
       edit' = [edit EXCEPT ![c] = [sub |-> s, status |-> status]]
  /\ UNCHANGED <<outbox, dispatched, subscription, removals, delivery, posts, job, run, handler, replay>>

SaveEdit(c) ==
  /\ edit[c] # Null
  /\ SaveStatus(edit[c].sub, edit[c].status)
  /\ edit' = [edit EXCEPT ![c] = Null]
  /\ UNCHANGED <<outbox, dispatched, removals, delivery, posts, job, run, handler, replay>>

(* Removing a subscription cascades to its deliveries, not to their jobs.  *)
Remove(s) ==
  /\ subscription[s] # "REMOVED"
  /\ removals[s] < MaxRemovals
  /\ spent' = [spent EXCEPT !.steady = @ \ {s}]
  /\ subscription' = [subscription EXCEPT ![s] = "REMOVED"]
  /\ removals' = [removals EXCEPT ![s] = @ + 1]
  /\ delivery' = [p \in Pairs |-> IF p[2] = s THEN Null ELSE delivery[p]]
  /\ UNCHANGED <<outbox, dispatched, edit, posts, job, run, handler, replay>>

-----------------------------------------------------------------------------
(* Relay.run: the oldest pending events, then each in turn.                *)
PendingEvents == SelectSeq(outbox, LAMBDA e : e \notin dispatched)

FirstOf(s, n) == SubSeq(s, 1, IF Len(s) < n THEN Len(s) ELSE n)

StartRun(r) ==
  /\ run[r] = Null
  /\ r \in Pollers => PendingEvents # <<>>
  /\ run' = [run EXCEPT ![r] =
       [phase |-> "relay", batch |-> FirstOf(PendingEvents, BatchLimit),
        matched |-> {}, todo |-> {}]]
  /\ UNCHANGED <<outbox, dispatched, subs, delivery, posts, job, handler, replay, spent>>

(* subscriptionMatchesEventType; who asks for nothing gets everything.     *)
NormalizeEventTypes(asked) == IF asked = {} THEN {Wildcard} ELSE asked

MatchesEventType(types, type) == types \cap {type, Virtual, Wildcard} # {}

Wants(s) ==
  { e \in Events : MatchesEventType(NormalizeEventTypes(Asked[s]), TypeOf[e]) }

(* findActiveByBond and selectMatchedSubscriptions, before the transaction.*)
FindActive == { s \in Subscriptions : subscription[s] = "ACTIVE" }

Matched(e) == { s \in FindActive : e \in Wants(s) }

Match(r) ==
  /\ run[r] # Null /\ run[r].phase = "relay" /\ run[r].batch # <<>>
  /\ run' = [run EXCEPT ![r].phase = "matched",
                        ![r].matched = Matched(Head(run[r].batch))]
  /\ UNCHANGED <<outbox, dispatched, subs, delivery, posts, job, handler, replay, spent>>

(* The fan-out transaction: the rows that do not exist yet, and the mark.  *)
Inserted(e, S) == { p \in {e} \X S : delivery[p] = Null }

Dispatch(r) ==
  /\ run[r] # Null /\ run[r].phase = "matched"
  /\ \A s \in run[r].matched : subscription[s] # "REMOVED"
  /\ LET e == Head(run[r].batch)
         new == Inserted(e, run[r].matched)
     IN  /\ delivery' = [p \in Pairs |->
              IF p \in new THEN [status |-> "PENDING", count |-> 0, due |-> TRUE]
                           ELSE delivery[p]]
         /\ dispatched' = dispatched \cup {e}
         /\ run' = [run EXCEPT ![r] =
              [phase |-> IF new = {} THEN "relay" ELSE "enqueue",
               batch |-> Tail(run[r].batch), matched |-> {}, todo |-> new]]
  /\ UNCHANGED <<outbox, subs, posts, job, handler, replay, spent>>

(* The transaction rolls back, for a fault or because a matched            *)
(* subscription is gone; the loop goes on with the next event.             *)
SkipEvent(r) ==
  run' = [run EXCEPT ![r] = [phase |-> "relay", batch |-> Tail(run[r].batch),
                             matched |-> {}, todo |-> {}]]

(* Faulty variant: the event is marked even though its rows rolled back.   *)
DispatchFailsMarked(r) ==
  /\ run[r] # Null /\ run[r].phase = "matched"
  /\ \/ Fault("rollback")
     \/ (\E s \in run[r].matched : subscription[s] = "REMOVED") /\ UNCHANGED spent
  /\ SkipEvent(r)
  /\ dispatched' = dispatched \cup {Head(run[r].batch)}
  /\ UNCHANGED <<outbox, subs, delivery, posts, job, handler, replay>>

DispatchFails(r) ==
  /\ run[r] # Null /\ run[r].phase = "matched"
  /\ \/ Fault("rollback")
     \/ (\E s \in run[r].matched : subscription[s] = "REMOVED") /\ UNCHANGED spent
  /\ SkipEvent(r)
  /\ UNCHANGED <<outbox, dispatched, subs, delivery, posts, job, handler, replay>>

(* After the commit: one job per new row.  Redis may refuse: it is logged. *)
Enqueue(r, p) ==
  /\ run[r] # Null /\ run[r].phase = "enqueue" /\ p \in run[r].todo
  /\ LET rest == run[r].todo \ {p}
     IN  run' = [run EXCEPT ![r].todo = rest,
                            ![r].phase = IF rest = {} THEN "relay" ELSE @]
  /\ \/ AddJob(p) /\ UNCHANGED spent
     \/ Fault("refuse") /\ UNCHANGED job
  /\ UNCHANGED <<outbox, dispatched, subs, delivery, posts, handler, replay>>

(* findReconcilable.                                                       *)
(* Faulty variant: RETRYING rows are forgotten.                            *)
ReconcilablePending == { p \in Pairs : HasStatus(p, {"PENDING"}) /\ delivery[p].due }

Reconcilable == { p \in Pairs : HasStatus(p, Open) /\ delivery[p].due }

EndRelay(r) ==
  /\ run[r] # Null /\ run[r].phase = "relay" /\ run[r].batch = <<>>
  /\ run' = [run EXCEPT ![r] =
       IF r \in Pollers \/ Reconcilable = {}
       THEN Null
       ELSE [phase |-> "reconcile", batch |-> <<>>, matched |-> {},
             todo |-> Reconcilable]]
  /\ UNCHANGED <<outbox, dispatched, subs, delivery, posts, job, handler, replay, spent>>

(* getJob, then add if there is none.  Whatever is added in between makes  *)
(* the add a no-op, so that the two are one step.                          *)
Recheck(r, p) ==
  /\ run[r] # Null /\ run[r].phase = "reconcile" /\ p \in run[r].todo
  /\ \/ AddJob(p) /\ UNCHANGED spent
     \/ Fault("refuse") /\ UNCHANGED job
  /\ LET rest == run[r].todo \ {p}
     IN  run' = [run EXCEPT ![r] = IF rest = {} THEN Null ELSE [@ EXCEPT !.todo = rest]]
  /\ UNCHANGED <<outbox, dispatched, subs, delivery, posts, handler, replay>>

(* getJob throws: the pass ends.                                           *)
BreakReconcile(r) ==
  /\ run[r] # Null /\ run[r].phase = "reconcile"
  /\ Fault("refuse")
  /\ run' = [run EXCEPT ![r] = Null]
  /\ UNCHANGED <<outbox, dispatched, subs, delivery, posts, job, handler, replay>>

-----------------------------------------------------------------------------
(* DeliveryService.handle.  A job starts, and then its row is read; the    *)
(* attempt's number comes from the row, not from the job.                  *)
Handle(p) == [pair |-> p, no |-> 0, life |-> 0, lock |-> TRUE, stage |-> "taken",
              outcome |-> "RETRY", patch |-> Null]

Take(h, p) ==
  /\ handler[h] = Null
  /\ InState(p, {"waiting"})
  /\ job' = [job EXCEPT ![p].state = "active"]
  /\ handler' = [handler EXCEPT ![h] = Handle(p)]
  /\ UNCHANGED <<outbox, dispatched, subs, delivery, posts, run, replay, spent>>

At(h, stage) == handler[h] # Null /\ handler[h].stage = stage

MoveTo(h, stage) == handler' = [handler EXCEPT ![h].stage = stage]

(* handle() returns or throws; nothing it has read is used any more.       *)
End(h, stage) ==
  handler' = [handler EXCEPT ![h] =
    [Handle(@.pair) EXCEPT !.stage = stage, !.lock = handler[h].lock]]

(* Faulty variant: the number comes from attemptsMade.                     *)
AttemptNoOfJob(p) == IF job[p] = Null THEN 1 ELSE job[p].made + 1

AttemptNo(p) == delivery[p].count + 1

Find(h) ==
  /\ At(h, "taken")
  /\ LET p == handler[h].pair
     IN  IF delivery[p] = Null
         THEN End(h, "return")
         ELSE handler' = [handler EXCEPT ![h].stage = "read", ![h].no = AttemptNo(p),
                                         ![h].life = removals[p[2]]]
  /\ UNCHANGED <<outbox, dispatched, subs, delivery, posts, job, run, replay, spent>>

(* The row the handler has read is still there.  updateStatus() goes by its*)
(* id: no row, no effect.                                                  *)
HasRow(h) ==
  LET p == handler[h].pair
  IN  delivery[p] # Null /\ removals[p[2]] = handler[h].life

Update(h, d) ==
  delivery' = IF HasRow(h) THEN [delivery EXCEPT ![handler[h].pair] = d] ELSE delivery

Prepare(h) ==
  /\ At(h, "read")
  /\ subscription[handler[h].pair[2]] = "ACTIVE"
  /\ MoveTo(h, "post")
  /\ UNCHANGED <<outbox, dispatched, subs, delivery, posts, job, run, replay, spent>>

(* fail(): the subscription is gone or not active, or payload or signature *)
(* cannot be built.                                                        *)
Fail(h) ==
  /\ At(h, "read")
  /\ \/ subscription[handler[h].pair[2]] # "ACTIVE" /\ UNCHANGED spent
     \/ Fault("error")
  /\ Update(h, [status |-> "FAILED", count |-> handler[h].no, due |-> TRUE])
  /\ End(h, "return")
  /\ UNCHANGED <<outbox, dispatched, subs, posts, job, run, replay>>

(* SsrfHttpClient.post.  What the lookup of the endpoint's host finds, and *)
(* what the endpoint answers: a status (here one of each kind, no redirect *)
(* is followed), or nothing before the timeout.                            *)
Lookups == {"failed", "empty", "private", "public"}
Codes == {100, 200, 299, 302, 404, 408, 410, 429, 500}

Response(code) == [status |-> code, networkError |-> FALSE]
BlockedResult == [status |-> Null, networkError |-> FALSE]
NetworkErrorResult == [status |-> Null, networkError |-> TRUE]

Replies(found) ==
  CASE found \in {"failed", "empty"} -> {NetworkErrorResult}
    [] found = "private"              -> {BlockedResult}
    [] found = "public"               ->
         {Response(code) : code \in Codes} \cup {NetworkErrorResult}

Classify(reply) ==
  IF reply.status = Null
  THEN IF reply.networkError THEN "RETRY" ELSE "TERMINAL"
  ELSE CASE reply.status \in 200..299                            -> "SUCCESS"
         [] reply.status = 410                                   -> "DISABLE"
         [] reply.status \in {408, 429} \/ reply.status >= 500   -> "RETRY"
         [] OTHER                                                -> "TERMINAL"

(* The request goes out and is answered; classify() gives the outcome.    *)
Post(h, found) ==
  /\ At(h, "post")
  /\ \E reply \in Replies(found) :
       handler' = [handler EXCEPT ![h].stage = "answered", ![h].outcome = Classify(reply)]
  /\ posts' = [posts EXCEPT ![handler[h].pair] = @ + 1]
  /\ UNCHANGED <<outbox, dispatched, subs, delivery, job, run, replay, spent>>

(* Faulty variant: one attempt too many.                                   *)
NextStatusLate(outcome, no) ==
  CASE outcome = "SUCCESS" -> "SUCCEEDED"
    [] outcome \in {"DISABLE", "TERMINAL"} -> "FAILED"
    [] OTHER -> IF no > MaxAttempts THEN "DEAD" ELSE "RETRYING"

(* statusForAttempt.                                                       *)
NextStatus(outcome, no) ==
  CASE outcome = "SUCCESS" -> "SUCCEEDED"
    [] outcome \in {"DISABLE", "TERMINAL"} -> "FAILED"
    [] OTHER -> IF no >= MaxAttempts THEN "DEAD" ELSE "RETRYING"

(* insertAttempt and applyOutcome, up to the write of the row.  The attempt*)
(* refers to the row: if the row is gone the insert throws.                *)
Record(h) ==
  /\ At(h, "answered")
  /\ LET status == NextStatus(handler[h].outcome, handler[h].no)
     IN  /\ Update(h, [status |-> status, count |-> handler[h].no,
                       due |-> status # "RETRYING"])
         /\ IF HasRow(h) THEN MoveTo(h, IF status = "RETRYING" THEN "retry" ELSE "settled")
                         ELSE End(h, "throw")
  /\ UNCHANGED <<outbox, dispatched, subs, posts, job, run, replay, spent>>

(* After the row the subscription: disableSubscription(), recordSuccess()  *)
(* and recordFailure() load and save it.  A streak that begins or ends     *)
(* saves the status as it was loaded, one that is too long disables.       *)
InHealth(h) == At(h, "settled") \/ At(h, "retry")

Leave(h) == IF At(h, "retry") THEN "throw" ELSE "return"

Patches(outcome, loaded) ==
  CASE outcome = "DISABLE" -> {"DISABLED"}
    [] outcome = "SUCCESS" -> {loaded}
    [] OTHER -> {loaded, "DISABLED"}

(* The streak needs no change.                                             *)
SkipHealth(h) ==
  /\ InHealth(h) /\ handler[h].patch = Null /\ handler[h].outcome # "DISABLE"
  /\ End(h, Leave(h))
  /\ UNCHANGED <<outbox, dispatched, subs, delivery, posts, job, run, replay, spent>>

LoadHealth(h) ==
  /\ InHealth(h) /\ handler[h].patch = Null
  /\ LET s == handler[h].pair[2]
     IN  IF subscription[s] = "REMOVED"
         THEN End(h, "throw")
         ELSE \E patch \in Patches(handler[h].outcome, subscription[s]) :
                handler' = [handler EXCEPT ![h].patch = patch]
  /\ UNCHANGED <<outbox, dispatched, subs, delivery, posts, job, run, replay, spent>>

SaveHealth(h) ==
  /\ InHealth(h) /\ handler[h].patch # Null
  /\ SaveStatus(handler[h].pair[2], handler[h].patch)
  /\ End(h, Leave(h))
  /\ UNCHANGED <<outbox, dispatched, removals, edit, delivery, posts, job, run, replay>>

(* BullMQ: a job whose handler threw is retried until its attempts are used*)
(* up; one whose handler returned is complete.  A handler that has lost its*)
(* lock is not listened to.                                                *)
Finish(h) ==
  /\ At(h, "return") \/ At(h, "throw")
  /\ LET p == handler[h].pair
         made == job[p].made + 1
     IN  job' = IF ~handler[h].lock THEN job ELSE [job EXCEPT ![p] =
           IF At(h, "throw")
           THEN [@ EXCEPT !.made = made,
                          !.state = IF made >= MaxAttempts THEN "failed" ELSE "delayed"]
           ELSE [@ EXCEPT !.state = "completed"]]
  /\ handler' = [handler EXCEPT ![h] = Null]
  /\ UNCHANGED <<outbox, dispatched, subs, delivery, posts, run, replay, spent>>

(* The database fails under the handler, before it has recorded the outcome*)
(* or after it, when it writes the subscription's health.                  *)
HandlerThrows(h) ==
  /\ At(h, "taken") \/ At(h, "read") \/ At(h, "answered") \/ InHealth(h)
  /\ Fault("error")
  /\ End(h, "throw")
  /\ UNCHANGED <<outbox, dispatched, subs, delivery, posts, job, run, replay>>

(* The job's delay ends; the row's next_attempt_at passes.                 *)
Promote(p) ==
  /\ InState(p, {"delayed"})
  /\ job' = [job EXCEPT ![p].state = "waiting"]
  /\ UNCHANGED <<outbox, dispatched, subs, delivery, posts, run, handler, replay, spent>>

Elapse(p) ==
  /\ HasStatus(p, Open) /\ ~delivery[p].due
  /\ delivery' = [delivery EXCEPT ![p].due = TRUE]
  /\ UNCHANGED <<outbox, dispatched, subs, posts, job, run, handler, replay, spent>>

-----------------------------------------------------------------------------
(* ReplayService: reset the row; then drop the old job, unless a handler   *)
(* holds it, and add a new one.                                            *)
Reset(c, p) ==
  /\ replay[c] = Null
  /\ delivery[p] # Null
  /\ Upset(FALSE)
  /\ delivery' = [delivery EXCEPT ![p] = [status |-> "PENDING", count |-> 0, due |-> TRUE]]
  /\ posts' = [posts EXCEPT ![p] = 0]
  /\ replay' = [replay EXCEPT ![c] = p]
  /\ UNCHANGED <<outbox, dispatched, subs, job, run, handler>>

(* Faulty variant: each replay has a job id of its own.                    *)
ReplacesAlways(p) == TRUE

Replaces(p) == ~InState(p, {"active"})

(* Redis may refuse before the old job is dropped, or after.               *)
Requeue(c) ==
  /\ replay[c] # Null
  /\ LET p == replay[c] IN
     \/ job' = [job EXCEPT ![p] = IF Replaces(p) THEN NewJob ELSE @] /\ UNCHANGED spent
     \/ UNCHANGED job /\ Fault("refuse")
     \/ Replaces(p) /\ job' = [job EXCEPT ![p] = Null] /\ Fault("refuse")
  /\ replay' = [replay EXCEPT ![c] = Null]
  /\ UNCHANGED <<outbox, dispatched, subs, delivery, posts, run, handler>>

-----------------------------------------------------------------------------
(* Redis drops completed jobs after an hour, longer than any run takes.    *)
Expire(p) ==
  /\ InState(p, {"completed"})
  /\ \A r \in Runners : run[r] # Null => p \notin run[r].todo
  /\ job' = [job EXCEPT ![p] = Null]
  /\ UNCHANGED <<outbox, dispatched, subs, delivery, posts, run, handler, replay, spent>>

(* Redis loses a job that no handler holds.                                *)
Lose(p) ==
  /\ InState(p, {"waiting", "delayed"})
  /\ Fault("lose")
  /\ job' = [job EXCEPT ![p] = Null]
  /\ UNCHANGED <<outbox, dispatched, subs, delivery, posts, run, handler, replay>>

(* The worker dies, or is too busy to renew the lock of a job.  BullMQ     *)
(* gives the job to another handler once, although the first may still be  *)
(* at work; the second time it is failed.                                  *)
CrashRun(r) ==
  /\ run[r] # Null
  /\ Fault("crash")
  /\ run' = [run EXCEPT ![r] = Null]
  /\ UNCHANGED <<outbox, dispatched, subs, delivery, posts, job, handler, replay>>

LoseLock(h) ==
  LET p == handler[h].pair
  IN  job' = IF ~handler[h].lock THEN job ELSE
        [job EXCEPT ![p].state = IF job[p].stalled THEN "failed" ELSE "waiting",
                    ![p].stalled = TRUE]

CrashHandler(h) ==
  /\ handler[h] # Null
  /\ Fault("crash")
  /\ LoseLock(h)
  /\ handler' = [handler EXCEPT ![h] = Null]
  /\ UNCHANGED <<outbox, dispatched, subs, delivery, posts, run, replay>>

Stall(h) ==
  /\ handler[h] # Null /\ handler[h].lock
  /\ Fault("stall")
  /\ LoseLock(h)
  /\ handler' = [handler EXCEPT ![h].lock = FALSE]
  /\ UNCHANGED <<outbox, dispatched, subs, delivery, posts, run, replay>>

-----------------------------------------------------------------------------
RunStep(r) ==
  \/ Match(r) \/ Dispatch(r) \/ DispatchFails(r) \/ EndRelay(r) \/ BreakReconcile(r)
  \/ \E p \in Pairs : Enqueue(r, p) \/ Recheck(r, p)

HandlerStep(h) ==
  \/ Find(h) \/ Prepare(h) \/ Fail(h) \/ Record(h) \/ Finish(h) \/ HandlerThrows(h)
  \/ SkipHealth(h) \/ LoadHealth(h) \/ SaveHealth(h)
  \/ \E found \in Lookups : Post(h, found)

Next ==
  \/ \E e \in Events : Produce(e)
  \/ \E s \in Subscriptions : Remove(s) \/ \E c \in Clients : LoadEdit(c, s)
  \/ \E c \in Clients : SaveEdit(c)
  \/ \E r \in Runners : StartRun(r) \/ RunStep(r) \/ CrashRun(r)
  \/ \E h \in Handlers : HandlerStep(h) \/ CrashHandler(h) \/ Stall(h)
  \/ \E h \in Handlers, p \in Pairs : Take(h, p)
  \/ \E p \in Pairs : Promote(p) \/ Elapse(p) \/ Expire(p) \/ Lose(p)
  \/ \E c \in Clients : Requeue(c) \/ \E p \in Pairs : Reset(c, p)

Spec == Init /\ [][Next]_vars

(* The schedulers repeat their jobs, what has begun goes on, delays end,   *)
(* a waiting job is taken and a replay that has begun is finished.         *)
Fairness ==
  /\ \A r \in Runners : WF_vars(StartRun(r)) /\ WF_vars(RunStep(r))
  /\ \A h \in Handlers : WF_vars(HandlerStep(h))
  /\ \A p \in Pairs : WF_vars(\E h \in Handlers : Take(h, p))
  /\ \A p \in Pairs : WF_vars(Promote(p)) /\ WF_vars(Elapse(p))
  /\ \A c \in Clients : WF_vars(Requeue(c))

FairSpec == Spec /\ Fairness

(* With enough traffic, completed jobs also go when their hour is over: a  *)
(* reconciliation that looks at one does not keep it.                      *)
BusyFairSpec == FairSpec /\ \A p \in Pairs : SF_vars(Expire(p))

-----------------------------------------------------------------------------
(* Properties.                                                             *)

(* Two handlers of one delivery mean that BullMQ has taken the job away    *)
(* from one of them: handle() compares nothing when it writes, so that two *)
(* use an attempt number twice and overwrite each other's outcome, and     *)
(* nothing but a stall may cost that.  It rests on the deterministic job   *)
(* id, and on a replay that leaves an active job alone.                    *)
OneHandlerPerDelivery ==
  \A h, k \in Handlers :
    /\ handler[h] # Null /\ handler[k] # Null /\ handler[h].pair = handler[k].pair
    /\ handler[h].lock /\ handler[k].lock
    => h = k

(* No replay, no worker that died or stalled, no handler the database      *)
(* failed and no subscription that came back: a replay may leave an open   *)
(* delivery behind a completed job, a crash hands a job whose outcome is   *)
(* already written to another handler, a stall makes two handlers work on  *)
(* one row, an error costs the job an attempt the row knows nothing of.    *)
Undisturbed == spent.calm

(* A delivery that has settled stays as it is (or goes with its            *)
(* subscription).  handle() never looks at the status of the row, so       *)
(* nothing may leave or enqueue a job for it: not a relay that comes late, *)
(* not a reconciliation that decided on an older state.                    *)
SettledIsFinal ==
  [][\A p \in Pairs :
       HasStatus(p, Settled) /\ Undisturbed
         => delivery'[p] \in {delivery[p], Null} \/ ~Undisturbed']_vars

(* Two counters, one in the row and one in the job, agree on when to give  *)
(* up: BullMQ never abandons a job while its delivery is still open (that  *)
(* job would keep its id taken for ever), whatever Redis has lost before.  *)
AbandonedIsSettled ==
  Undisturbed => \A p \in Pairs : InState(p, {"failed"}) => ~HasStatus(p, Open)

(* MaxAttempts is the number of requests an endpoint sees for a delivery,  *)
(* and no delivery is dead before it has seen them all, although lost jobs *)
(* are started afresh.                                                     *)
AttemptsAccounted ==
  Undisturbed => \A p \in Pairs :
    /\ posts[p] <= MaxAttempts
    /\ HasStatus(p, {"DEAD"}) => posts[p] = MaxAttempts

(* An event marked as dispatched has a delivery for every subscription that*)
(* wanted it and was active all along, whichever of the overlapping runs   *)
(* dispatched it and however many attempts rolled back.                    *)
NoSubscriberSkipped ==
  \A e \in dispatched, s \in Subscriptions :
    e \in Wants(s) /\ s \in spent.steady => delivery[<<e, s>>] # Null

(* The abstract view: who wants what, what a pair has come to, and whether *)
(* anybody still has a copy of a subscription that is gone.                *)
Wanted == { p \in Pairs : p[1] \in Wants(p[2]) }

LetterOf(p) ==
  CASE delivery[p] = Null /\ removals[p[2]] = 0 -> "none"
    [] delivery[p] = Null /\ removals[p[2]] > 0 -> "withdrawn"
    [] HasStatus(p, Open) -> "open"
    [] OTHER -> delivery[p].status

LettersNow == [p \in Pairs |-> LetterOf(p)]

Copied(s) ==
  \/ \E c \in Clients : edit[c] # Null /\ edit[c].sub = s
  \/ \E h \in Handlers : handler[h] # Null /\ handler[h].patch # Null /\ handler[h].pair[2] = s

ListedAs(s) ==
  CASE subscription[s] # "REMOVED" -> "present"
    [] subscription[s] = "REMOVED" /\ Copied(s) -> "leaving"
    [] OTHER -> "gone"

ListNow == [s \in Subscriptions |-> ListedAs(s)]

Contract == INSTANCE DeliveryContract WITH
  announced <- { e \in Events : e \in dispatched },
  letter    <- LettersNow,
  listed    <- ListNow,
  requests  <- posts,
  calm      <- Undisturbed

(* Relay, fan-out, jobs, reconciliation, replay and edits together deliver *)
(* what DeliveryContract promises, whatever overlaps, is refused, lost or  *)
(* rolled back: nobody gets what he has not asked for, no endpoint is asked*)
(* for what was never announced or again for what has settled, and a       *)
(* removed subscription comes back only from a copy that was loaded before,*)
(* without its deliveries.                                                 *)
ImplementsDelivery == Contract!ContractSpec

(* Every delivery settles, although Redis may refuse or lose its jobs.     *)
DeliveriesSettle ==
  \A p \in Pairs : HasStatus(p, Open) ~> ~HasStatus(p, Open) \/ ~Undisturbed

(* reconcile.service.ts: an open delivery without a live job is enqueued   *)
(* again.                                                                  *)
OpenDeliveriesRecover ==
  \A p \in Pairs :
    (HasStatus(p, Open) /\ ~IsLive(p)) ~> (IsLive(p) \/ ~HasStatus(p, Open))

=============================================================================
