------------------------- MODULE ActivityLifecycle -------------------------
(***************************************************************************)
(* The life of activities: API requests, the timer worker and its sweep,   *)
(* all going through ActivitiesService.transition() and the compare-and-   *)
(* set of ActivitiesRepository.applyTransition().                          *)
(*                                                                         *)
(* A state change takes three reads of the database with gaps between      *)
(* them, in which anybody else may act:                                    *)
(*   1. the caller (a route, a timer, the sweep) reads the row and decides *)
(*      on a target status       -> Accept, FireTimer, Sweep;              *)
(*   2. transition() reads the row again and checks the rule               *)
(*                               -> Load (or Drop);                        *)
(*   3. applyTransition() locks the row, compares status and version with  *)
(*      read 2, writes the row and its outbox event in one transaction, and*)
(*      wires the timers         -> Commit (or Conflict).                  *)
(***************************************************************************)
EXTENDS ActivityTransitionMap, Sequences, FiniteSets

CONSTANTS Activities,   \* ids of activities that may come to exist
          Clients,      \* API connections: each has one request in flight
          Workers,      \* job handlers of the activity-timers queue
          Schedules,    \* the [start, end] pairs a client asks for
          LeadTime,     \* MIN_LEAD_TIME_HOURS, in clock ticks
          SweepLimit,   \* SWEEP_LIMIT, rows one sweep handles
          Faults,       \* subset of {"redis", "crash"}
          MaxTime,      \* bound: the clock stops here
          MaxVersion    \* bound: no request is accepted for a later version

Processes == Clients \cup Workers

Time == Nat \cup {Null}

Row == [status : Statuses, version : Nat, createdBy : Members,
        assignedTo : Members \cup {Null}, start : Nat, end : Time,
        deadline : Time, confirmedAt : BOOLEAN, declinedAt : BOOLEAN,
        verifyAt : BOOLEAN, deletedAt : BOOLEAN]

(* A TransitionRequest.  The system is the actor Null.                     *)
Request == [act : Activities, to : Statuses, actor : Members \cup {Null},
            assignee : Members \cup {Null}, deletes : BOOLEAN]

(* What transition() carries from its read to applyTransition().           *)
Snapshot == [req : Request, from : Statuses, version : Nat, at : Nat]

OutboxEvent == [version : Nat, from : Statuses \cup {"new"}, to : Statuses,
                event : Statuses \cup {"created_overdue", "verify_expired"},
                actor : Members \cup {Null}]

Timer == [kind : TimerKinds, act : Activities, version : Nat, due : Nat]

ASSUME LifecycleAssumption ==
  /\ Null \notin Activities \cup Statuses
  /\ Clients \cap Workers = {}
  /\ Schedules \subseteq [start : Nat, end : Nat \cup {Null}]
  /\ LeadTime \in Nat
  /\ SweepLimit \in Nat \ {0}
  /\ Faults \subseteq {"redis", "crash"}
  /\ MaxTime \in Nat
  /\ MaxVersion \in Nat
  /\ Null \notin Row \cup Snapshot \cup Timer

VARIABLES now,      \* the clock, shared: servers are assumed synchronised
          row,      \* row[a], the activities table; Null before the insert
          outbox,   \* outbox[a], the outbox_event rows of a in version order
          timers,   \* the delayed jobs of the activity-timers queue
          pending,  \* pending[p], decisions p has taken and not yet executed
          held,     \* held[p], the snapshot p took in transition(), or Null
          job       \* job[p], the timer a worker is handling, or Null

vars == <<now, row, outbox, timers, pending, held, job>>

-----------------------------------------------------------------------------
TypeOK ==
  /\ now \in Nat
  /\ row \in [Activities -> Row \cup {Null}]
  /\ outbox \in [Activities -> Seq(OutboxEvent)]
  /\ timers \subseteq Timer
  /\ pending \in [Processes -> SUBSET Request]
  /\ held \in [Processes -> Snapshot \cup {Null}]
  /\ job \in [Processes -> Timer \cup {Null}]

-----------------------------------------------------------------------------
Alive(a) == row[a] # Null /\ ~row[a].deletedAt

SystemRequest(a, to) ==
  [act |-> a, to |-> to, actor |-> Null, assignee |-> Null, deletes |-> FALSE]

IsIdle(p) == pending[p] = {} /\ held[p] = Null

(* wireTimers: the jobs a row at its new version asks for.  The delay is   *)
(* clamped at zero, so a target in the past is a job that may run at once; *)
(* a START in the past is not enqueued at all.                             *)
Enqueued(a, r) ==
  { [kind |-> k, act |-> a, version |-> r.version, due |-> TimerTarget(k, r)] :
      k \in { e \in EnqueueKinds(r.status) :
                /\ TimerTarget(e, r) # Null
                /\ e = "start" => r.start > now } }

Cancelled(a, r, version) ==
  { t \in timers : t.act = a /\ t.version = version /\ t.kind \in CancelKinds(r.status) }

(* Redis may refuse a cancel: the error is logged and the job stays.       *)
WireTimers(a, r, previous) ==
  \E kept \in SUBSET Cancelled(a, r, previous) :
    /\ kept # {} => "redis" \in Faults
    /\ timers' = (timers \ (Cancelled(a, r, previous) \ kept)) \cup Enqueued(a, r)

-----------------------------------------------------------------------------
Init ==
  /\ now = 0
  /\ row = [a \in Activities |-> Null]
  /\ outbox = [a \in Activities |-> <<>>]
  /\ timers = {}
  /\ pending = [p \in Processes |-> {}]
  /\ held = [p \in Processes |-> Null]
  /\ job = [p \in Processes |-> Null]

Tick ==
  /\ now < MaxTime
  /\ now' = now + 1
  /\ UNCHANGED <<row, outbox, timers, pending, held, job>>

(* POST /bonds/:id/activities: the row and its first event in one          *)
(* transaction, then the timers of version 1.                              *)
InitialRow(u, assignee, sched) ==
  [status |-> InitialStatus(assignee), version |-> 1, createdBy |-> u,
   assignedTo |-> assignee, start |-> sched.start, end |-> sched.end,
   deadline |-> now + ResponseTimeout, confirmedAt |-> FALSE,
   declinedAt |-> FALSE, verifyAt |-> FALSE, deletedAt |-> FALSE]

(* validateSchedules and assertMinimumLeadTime.                            *)
MayBeScheduled(sched) ==
  /\ sched.start > now
  /\ sched.end # Null => sched.end > sched.start
  /\ sched.start >= now + LeadTime

Create(a, u, assignee, sched) ==
  LET r == InitialRow(u, assignee, sched)
  IN  /\ row[a] = Null
      /\ MayBeScheduled(sched)
      /\ row' = [row EXCEPT ![a] = r]
      /\ outbox' = [outbox EXCEPT ![a] =
           Append(@, [version |-> 1, from |-> "new", to |-> r.status,
                      event |-> r.status, actor |-> u])]
      /\ WireTimers(a, r, 0)
      /\ UNCHANGED <<now, pending, held, job>>

(* First read of a route: the checks it makes before calling transition(). *)
Accept(c, a, u, to, assignee, deletes) ==
  /\ IsIdle(c)
  /\ Alive(a)
  /\ row[a].version < MaxVersion
  /\ pending' = [pending EXCEPT ![c] =
       {[act |-> a, to |-> to, actor |-> u, assignee |-> assignee, deletes |-> deletes]}]
  /\ UNCHANGED <<now, row, outbox, timers, held, job>>

Complete(c, a, u) == Accept(c, a, u, "done", Null, FALSE)

ConfirmAssignment(c, a, u) ==
  /\ Alive(a) /\ row[a].assignedTo = u
  /\ row[a].status # "assisting"
  /\ Accept(c, a, u, "assisting", Null, FALSE)

Delete(c, a, u) ==
  /\ Alive(a) /\ CanCancel(row[a], u, now)
  /\ Accept(c, a, u, "cancelled", Null, TRUE)

Cancel(c, a, u) ==
  /\ Alive(a) /\ CanCancel(row[a], u, now)
  /\ Accept(c, a, u, "cancelled", Null, FALSE)

DeclineAssignment(c, a, u) ==
  /\ Alive(a) /\ CanDecline(row[a], u, now)
  /\ Accept(c, a, u, "not_assisting", Null, FALSE)

(* assign and reassign share reassignInternal.                             *)
Assign(c, a, u, target) == Accept(c, a, u, "assigned", target, FALSE)

(* handleTimer: a job whose time has come, checked against the row.        *)
IsCurrent(t) ==
  /\ Alive(t.act)
  /\ row[t.act].version = t.version
  /\ row[t.act].status \in ExpectedSource(t.kind)

FireTimer(w, t) ==
  /\ IsIdle(w) /\ job[w] = Null
  /\ t.due <= now
  /\ IsCurrent(t)
  /\ timers' = timers \ {t}
  /\ job' = [job EXCEPT ![w] = t]
  /\ pending' = [pending EXCEPT ![w] = {SystemRequest(t.act, TargetStatus(t.kind))}]
  /\ UNCHANGED <<now, row, outbox, held>>

DiscardTimer(w, t) ==
  /\ IsIdle(w) /\ job[w] = Null
  /\ t.due <= now
  /\ ~IsCurrent(t)
  /\ timers' = timers \ {t}
  /\ UNCHANGED <<now, row, outbox, pending, held, job>>

(* The job is acknowledged once everything it decided has been executed.   *)
FinishTimer(w) ==
  /\ IsIdle(w) /\ job[w] # Null
  /\ job' = [job EXCEPT ![w] = Null]
  /\ UNCHANGED <<now, row, outbox, timers, pending, held>>

(* findDueForTransition: ORDER BY deadline, start, end, NULLS LAST, LIMIT. *)
Earlier(x, y) == x # y /\ x # Null /\ (y = Null \/ x < y)

Before(a, b) ==
  LET r == row[a]
      s == row[b]
  IN  \/ Earlier(r.deadline, s.deadline)
      \/ r.deadline = s.deadline /\ r.start < s.start
      \/ r.deadline = s.deadline /\ r.start = s.start /\ Earlier(r.end, s.end)

(* Faulty variant: the query forgets a status.                             *)
DueNotVerify == { a \in Activities :
  row[a] # Null /\ IsDue(row[a], now) /\ row[a].status # "verify" }

Due == { a \in Activities : row[a] # Null /\ IsDue(row[a], now) }

IsSweepBatch(S) ==
  /\ S \subseteq Due
  /\ \/ S = Due
     \/ Cardinality(S) = SweepLimit
  /\ Cardinality(S) <= SweepLimit
  /\ \A a \in S, b \in Due \ S : ~Before(b, a)

(* runSweep: one query, then one transition per row of its result.         *)
Sweep(w) ==
  /\ IsIdle(w) /\ job[w] = Null
  /\ \E S \in SUBSET Due :
       /\ IsSweepBatch(S)
       /\ pending' = [pending EXCEPT ![w] =
            { SystemRequest(a, DueTarget(row[a])) : a \in S }]
  /\ UNCHANGED <<now, row, outbox, timers, held, job>>

-----------------------------------------------------------------------------
(* transition(): second read, the rule and who may execute it.             *)
Permitted(q) ==
  /\ Alive(q.act)
  /\ IF q.actor = Null THEN SystemMay(row[q.act], q.to)
                       ELSE UserMay(row[q.act], q.to, q.actor)

(* Faulty variant: the rule is looked up, the actor is not checked.        *)
LoadUnchecked(p, q) ==
  /\ held[p] = Null
  /\ Alive(q.act) /\ <<row[q.act].status, q.to>> \in Edges
  /\ held' = [held EXCEPT ![p] =
       [req |-> q, from |-> row[q.act].status, version |-> row[q.act].version,
        at |-> now]]
  /\ pending' = [pending EXCEPT ![p] = @ \ {q}]
  /\ UNCHANGED <<now, row, outbox, timers, job>>

Load(p, q) ==
  /\ held[p] = Null
  /\ Permitted(q)
  /\ held' = [held EXCEPT ![p] =
       [req |-> q, from |-> row[q.act].status, version |-> row[q.act].version,
        at |-> now]]
  /\ pending' = [pending EXCEPT ![p] = @ \ {q}]
  /\ UNCHANGED <<now, row, outbox, timers, job>>

(* The rule does not apply: 403, 404 or 409 for a user, nothing for a job. *)
Drop(p, q) ==
  /\ held[p] = Null
  /\ ~Permitted(q)
  /\ pending' = [pending EXCEPT ![p] = @ \ {q}]
  /\ UNCHANGED <<now, row, outbox, timers, held, job>>

(* applyTransition(): third read under FOR UPDATE.                         *)
(* Faulty variants: compare the status only, or nothing.                   *)
MatchesStatus(s) == Alive(s.req.act) /\ row[s.req.act].status = s.from
MatchesAlive(s) == Alive(s.req.act)

Matches(s) ==
  LET r == row[s.req.act]
  IN  Alive(s.req.act) /\ r.status = s.from /\ r.version = s.version

Commit(p) ==
  /\ held[p] # Null
  /\ Matches(held[p])
  /\ LET s == held[p]
         q == s.req
         r == NextRow(row[q.act], q.to, s.at, q.assignee, q.deletes)
     IN  /\ row' = [row EXCEPT ![q.act] = r]
         /\ outbox' = [outbox EXCEPT ![q.act] =
              Append(@, [version |-> r.version, from |-> s.from, to |-> q.to,
                         event |-> EventOf(<<s.from, q.to>>), actor |-> q.actor])]
         /\ WireTimers(q.act, r, s.version)
  /\ held' = [held EXCEPT ![p] = Null]
  /\ UNCHANGED <<now, pending, job>>

(* A miss: 409 for a user, nothing for a job.                              *)
Conflict(p) ==
  /\ held[p] # Null
  /\ ~Matches(held[p])
  /\ held' = [held EXCEPT ![p] = Null]
  /\ UNCHANGED <<now, row, outbox, timers, pending, job>>

-----------------------------------------------------------------------------
(* Faults.  A timer is lost when Redis loses it, when its enqueue failed   *)
(* or when the process died between the commit and the enqueue.            *)
LoseTimer(t) ==
  /\ "redis" \in Faults
  /\ timers' = timers \ {t}
  /\ UNCHANGED <<now, row, outbox, pending, held, job>>

(* A process dies.  The open transaction rolls back; BullMQ may or may not *)
(* hand a stalled job to another worker.                                   *)
Crash(p) ==
  /\ "crash" \in Faults
  /\ ~IsIdle(p) \/ job[p] # Null
  /\ pending' = [pending EXCEPT ![p] = {}]
  /\ held' = [held EXCEPT ![p] = Null]
  /\ job' = [job EXCEPT ![p] = Null]
  /\ timers' \in {timers, timers \cup ({job[p]} \ {Null})}
  /\ UNCHANGED <<now, row, outbox>>

-----------------------------------------------------------------------------
Route(c, a, u) ==
  \/ Complete(c, a, u)
  \/ ConfirmAssignment(c, a, u)
  \/ Delete(c, a, u)
  \/ Cancel(c, a, u)
  \/ DeclineAssignment(c, a, u)
  \/ \E target \in Members : Assign(c, a, u, target)

Execute(p) ==
  \/ \E q \in pending[p] : Load(p, q) \/ Drop(p, q)
  \/ Commit(p)
  \/ Conflict(p)

Next ==
  \/ Tick
  \/ \E a \in Activities, u \in Members, m \in Members \cup {Null}, s \in Schedules :
       Create(a, u, m, s)
  \/ \E c \in Clients, a \in Activities, u \in Members : Route(c, a, u)
  \/ \E w \in Workers, t \in timers : FireTimer(w, t) \/ DiscardTimer(w, t)
  \/ \E w \in Workers : Sweep(w) \/ FinishTimer(w)
  \/ \E p \in Processes : Execute(p) \/ Crash(p)
  \/ \E t \in timers : LoseTimer(t)

Spec == Init /\ [][Next]_vars

(* The scheduler repeats the sweep for ever, a worker executes what it has *)
(* taken on, and time passes.  Clients and timers promise nothing.         *)
Fairness ==
  /\ WF_vars(Tick)
  /\ \A w \in Workers : /\ WF_vars(Sweep(w))
                        /\ WF_vars(FinishTimer(w))
                        /\ WF_vars(Execute(w))

FairSpec == Spec /\ Fairness
-----------------------------------------------------------------------------
(* Properties.                                                             *)

LastEvent(a) == outbox[a][Len(outbox[a])]

(* The outbox of an activity is its history: one event per version, in     *)
(* order, each leaving from where the one before arrived, the last one at  *)
(* the row's status.  Broken if applyTransition compared less than status  *)
(* and version, or wrote the row and the event in two transactions.        *)
HistoryMatchesRow ==
  \A a \in Activities :
    IF row[a] = Null
    THEN outbox[a] = <<>>
    ELSE /\ Len(outbox[a]) = row[a].version
         /\ row[a].version > 0
         /\ LastEvent(a).to = row[a].status
         /\ \A i \in 1..Len(outbox[a]) :
              /\ outbox[a][i].version = i
              /\ outbox[a][i].from = IF i = 1 THEN "new" ELSE outbox[a][i - 1].to

(* overdueOrigin() reads the reason an activity is overdue off assigned_to *)
(* and verify_at; the history knows the reason.  They agree, whatever path *)
(* of reassignments and verifications the row has taken before.            *)
OriginMatchesHistory ==
  \A a \in Activities :
    row[a] # Null /\ row[a].status = "overdue"
      => OverdueOrigin(row[a]) = LastEvent(a).from

(* The columns a status implies: side effects are attached to edges, so    *)
(* what a row holds depends on the path it took to its status.  A row that *)
(* waits for an answer has a deadline (or neither timer nor sweep would    *)
(* ever find it); a new assignee starts from a clean sheet; only a row on  *)
(* its way through verification carries the mark of it.                    *)
ColumnsFitStatus(r) ==
  /\ r.status \in {"created", "assigned", "verify"} => r.deadline # Null
  /\ r.status \in {"assisting", "in_progress", "done", "cancelled"} => r.deadline = Null
  /\ r.status = "created" => ~r.confirmedAt /\ ~r.declinedAt
  /\ r.status = "assigned" => ~r.confirmedAt /\ ~r.declinedAt
  /\ r.status \in {"assisting", "in_progress", "verify", "done"} => r.confirmedAt
  /\ r.status = "verify" => r.verifyAt
  /\ r.verifyAt => r.status \in {"verify", "overdue"}
  /\ r.deletedAt => r.status = "cancelled"
  /\ (r.assignedTo = Null) => r.status \in {"created", "overdue", "cancelled"}
  /\ r.status = "created" => r.assignedTo = Null

ColumnsMatchStatus ==
  \A a \in Activities : row[a] # Null => ColumnsFitStatus(row[a])

(* Optimistic locking does its work: a snapshot of transition() whose      *)
(* version is still the row's is a snapshot of the row as it is, and what  *)
(* it was allowed to do it still is.                                       *)
SnapshotHolds(s) ==
  LET r == row[s.req.act]
  IN  /\ r # Null
      /\ s.version <= r.version
      /\ s.version = r.version => r.status = s.from /\ Permitted(s.req)

SnapshotsHold == \A p \in Processes : held[p] # Null => SnapshotHolds(held[p])

(* Without faults every row that waits for the system has the job that     *)
(* will move it, at the row's own version, in the queue or in the hands of *)
(* a worker that has not dropped it.  Each transition bumps the version    *)
(* and so strands every job enqueued before it: all that is still needed   *)
(* must be enqueued again.  wireTimers never enqueues a START in the past, *)
(* so an assisting row past its start is left to the sweep.                *)
WaitsFor(r, t) ==
  CASE r.status \in {"created", "assigned"} -> {"response_timeout"}
    [] r.status = "assisting" /\ r.start > t -> {"start"}
    [] r.status = "in_progress" -> {"end"}
    [] r.status = "verify" -> {"verify_timeout"}
    [] OTHER -> {}

TimerCoverage ==
  \A a \in Activities : row[a] # Null => \A k \in WaitsFor(row[a], now) :
    LET t == [kind |-> k, act |-> a, version |-> row[a].version,
              due |-> DueAnchor(row[a])]
    IN  t \in timers \/ \E w \in Workers : job[w] = t /\ ~IsIdle(w)

Becomes(a, s) == row'[a].status = s /\ row[a].status # s

(* No step of the system is taken before its time, however stale the read  *)
(* it was decided on and however many handlers overlap: an activity does   *)
(* not begin before its start and does not go to verification before its   *)
(* end.  (What a row becomes overdue for is another matter, see below.)    *)
SystemActsOnTime ==
  [][\A a \in Activities : row[a] # Null =>
       /\ Becomes(a, "in_progress") => row[a].start <= now
       /\ Becomes(a, "verify") => EndAnchor(row[a]) <= now
    ]_vars

(* The component keeps the contract of its users and of its consumers.     *)
Contract == INSTANCE ActivityContract WITH
  status      <- [a \in Activities |-> IF row[a] = Null THEN Null ELSE row[a].status],
  responsible <- [a \in Activities |-> IF row[a] = Null THEN Null ELSE row[a].assignedTo],
  published   <- outbox

ImplementsContract == Contract!ContractSpec

(* Timers may all be lost: the sweep alone moves every row that is due,    *)
(* even when more rows are due than one sweep takes.                       *)
DueRowsMove ==
  \A a \in Activities :
    (row[a] # Null /\ IsDue(row[a], now))
      ~> (row[a] # Null /\ ~IsDue(row[a], now))

(* activity-timers.sweep.ts and activity-timers.processor.ts say that a    *)
(* race with another writer is a no-op.  Read so, a row becomes overdue    *)
(* only when its own deadline has passed.                                  *)
NoPrematureOverdue ==
  [][\A a \in Activities : row[a] # Null =>
       (Becomes(a, "overdue") => row[a].deadline <= now)]_vars

=============================================================================
