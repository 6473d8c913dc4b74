--------------------------- MODULE Notifications ---------------------------
(***************************************************************************)
(* From an event of the outbox to the inbox of a user: the runs of the     *)
(* relay, the fan-out into notifications, the inbox with its               *)
(* read marks and its retention, and the frames published for the screens  *)
(* (src/src/webhooks/dispatcher/relay.ts and fan-out.service.ts,           *)
(* src/src/notifications, src/src/realtime/realtime-publisher.service.ts). *)
(* What the gateway does with the frames is in RealtimeGateway.            *)
(*                                                                         *)
(* One bond in which, to begin with, an activity or an expense is alive.   *)
(* Their life cycles have modules of their own; here they change as far as *)
(* the fan-out reads them.                                                 *)
(* Deliveries to webhooks, the other half of a dispatch, are in            *)
(* WebhookDelivery.                                                        *)
(***************************************************************************)
EXTENDS NotificationRules, Sequences

CONSTANTS
  Progenitors,    \* the members a bond is created with
  Creator,        \* who created the activity
  Requester,      \* who requested the expense
  ActivityTypes,  \* types of the activity events that may be emitted
  ExpenseTypes,   \* types of the expense events that may be emitted
  Relays,         \* runs of the relay that may overlap
  BatchLimit,     \* RELAY_BATCH_LIMIT
  Retention,      \* NOTIFICATIONS_RETENTION_DAYS
  Assignees,      \* bound: users whom the activity is assigned to
  Readers,        \* bound: users who open their inbox
  MaxEvents,      \* bound: events emitted
  MaxDay,         \* bound: days that pass
  MaxFaults       \* bound: rollbacks, lost frames and crashes

ASSUME NotificationsAssumption ==
  /\ Progenitors \subseteq Users /\ {Creator, Requester} \subseteq Progenitors
  /\ Readers \cup Assignees \subseteq Users
  /\ BatchLimit \in Nat \ {0}
  /\ {Retention, MaxEvents, MaxDay, MaxFaults} \subseteq Nat

VARIABLES
  role,      \* role of every user in the bond
  activity,  \* the columns of the activity the fan-out reads
  expense,   \* the columns of the expense the fan-out reads
  outbox,    \* events, in the order of created_at
  inbox,     \* rows of notification
  told,      \* history: who has been given a row, and for which event
  day,       \* the clock, in days
  run,       \* the relay runs
  published, \* history: frames that Redis has taken
  faults     \* faults that have happened

bondVars == <<role, activity, expense>>
inboxVars == <<inbox, told, day>>
vars == <<bondVars, outbox, inboxVars, run, published, faults>>

Members == { u \in Users : role[u] # "none" }

(* findCoordinator(): a member with that role, or none.                    *)
Coordinators ==
  LET c == { u \in Users : role[u] = "coordinator" } IN IF c = {} THEN {NoUser} ELSE c

Events == 1..MaxEvents
Kinds == {"activity", "expense"}
Types == ActivityTypes \cup ExpenseTypes

Event(kind, type, actor) ==
  [kind |-> kind, type |-> type, actor |-> actor, dispatched |-> FALSE]

(* A notification.created frame; `by` tells the runs that publish apart.   *)
Frame(u, e, r) == [user |-> u, event |-> e, by |-> r]
Frames == [user : Users, event : Events, by : Relays]

(* A notification of the fan-out, unread.                                  *)
Row(u, e) == [user |-> u, event |-> e, read |-> FALSE, created |-> day]
Rows == [user : Users, event : Events, read : BOOLEAN, created : 0..MaxDay]

(* A run of the relay: the events it has read and not got to, the one it   *)
(* is at (0: none) and the recipients it has selected or still to announce.*)
At(pc, batch, now, to) == [pc |-> pc, batch |-> batch, now |-> now, to |-> to]
Idle == At("idle", {}, 0, {})

(* One type invariant.                                                     *)
TypeOK ==
  /\ role \in [Users -> {"none", "progenitor", "coordinator"}]
  /\ activity \in [assignedTo : Users \cup {NoUser}, createdBy : Users,
                   state : {"open", "closed", "deleted"}]
  /\ expense \in [requestedBy : Users, status : {"pending", "approved", "cancelled"},
                  approvedBy : Users \cup {NoUser}]
  /\ outbox \in Seq([kind : Kinds, type : Types, actor : Users \cup {NoUser},
                     dispatched : BOOLEAN])
  /\ Len(outbox) <= MaxEvents
  /\ inbox \subseteq Rows
  /\ told \subseteq Users \X Events
  /\ day \in 0..MaxDay
  /\ run \in [Relays -> [pc : {"idle", "batch", "commit", "publish"}, batch : SUBSET Events,
                         now : {0} \cup Events, to : SUBSET Users]]
  /\ published \subseteq Frames
  /\ faults \in 0..MaxFaults

Init ==
  /\ \E c \in {NoUser} \cup (Users \ Progenitors) :
       role = [u \in Users |-> CASE u \in Progenitors -> "progenitor"
                                 [] u = c -> "coordinator"
                                 [] OTHER -> "none"]
  /\ \E alive \in Kinds :
       /\ activity = [assignedTo |-> NoUser, createdBy |-> Creator,
                      state |-> IF alive = "activity" THEN "open" ELSE "deleted"]
       /\ expense = [requestedBy |-> Requester, approvedBy |-> NoUser,
                     status |-> IF alive = "expense" THEN "pending" ELSE "cancelled"]
  /\ outbox = <<>>
  /\ inbox = {}
  /\ told = {}
  /\ day = 0
  /\ run = [r \in Relays |-> Idle]
  /\ published = {}
  /\ faults = 0

Fault ==
  /\ faults < MaxFaults
  /\ faults' = faults + 1

-----------------------------------------------------------------------------
(* The bond, its activity and its expense, as far as the fan-out sees them.*)

Emit(kind, type, actor) ==
  /\ type \in Types
  /\ Len(outbox) < MaxEvents
  /\ outbox' = Append(outbox, Event(kind, type, actor))
  /\ UNCHANGED <<inboxVars, run, published, faults>>

(* addBondMember(): the only way into a bond; nobody leaves, and no        *)
(* operation makes a coordinator (a bond may have one in its data).        *)
AddMember(u) ==
  /\ role[u] = "none"
  /\ role' = [role EXCEPT ![u] = "progenitor"]
  /\ UNCHANGED <<activity, expense, outbox, inboxVars, run, published, faults>>

(* Whose act an event is: the creator's, nobody's (the timers and the      *)
(* sweep) or a member's.                                                   *)
Actors(type) ==
  CASE type = "created" -> {activity.createdBy}
    [] type \in {"in_progress", "verify", "verify_expired", "created_overdue", "overdue"} ->
         {NoUser}
    [] OTHER -> Members

(* A transition commits: the row and its event.  Of the columns the fan-out*)
(* reads, only an assignment moves one; `done` and `cancelled` are final.  *)
ActivityEvent(type, actor, assignee) ==
  /\ activity.state = "open"
  /\ type \in ActivityTypes
  /\ actor \in Actors(type)
  /\ IF type = "assigned" THEN assignee \in Members \cap Assignees ELSE assignee = activity.assignedTo
  /\ activity' = [activity EXCEPT
       !.assignedTo = assignee,
       !.state = IF type \in {"done", "cancelled"} THEN "closed" ELSE "open"]
  /\ Emit("activity", type, actor)
  /\ UNCHANGED <<role, expense>>

(* delete(): deleted_at and activity.cancelled in one transaction.         *)
DeleteActivity(actor) ==
  /\ activity.state = "open"
  /\ actor \in Members
  /\ activity' = [activity EXCEPT !.state = "deleted"]
  /\ Emit("activity", "cancelled", actor)
  /\ UNCHANGED <<role, expense>>

(* Announcing a pending expense: its creation, or the reminder, which has  *)
(* no user as its actor.                                                   *)
AnnounceExpense(type) ==
  /\ expense.status = "pending"
  /\ type \in ExpenseTypes \cap {"created", "stale"}
  /\ \A i \in DOMAIN outbox : <<outbox[i].kind, outbox[i].type>> # <<"expense", type>>
  /\ Emit("expense", type, IF type = "stale" THEN NoUser ELSE expense.requestedBy)
  /\ UNCHANGED bondVars

(* approve(): the policy takes the counterpart of the moment.              *)
ApproveExpense(u) ==
  /\ expense.status = "pending"
  /\ u \in Counterparts(Members, expense.requestedBy) \ {NoUser}
  /\ expense' = [expense EXCEPT !.status = "approved", !.approvedBy = u]
  /\ Emit("expense", "approved", u)
  /\ UNCHANGED <<role, activity>>

(* cancel(): the expense is hidden; there is no event.                     *)
CancelExpense ==
  /\ expense.status = "pending"
  /\ expense' = [expense EXCEPT !.status = "cancelled"]
  /\ UNCHANGED <<role, activity, outbox, inboxVars, run, published, faults>>

-----------------------------------------------------------------------------
(* The relay and the fan-out.                                              *)

Pending == { e \in DOMAIN outbox : ~outbox[e].dispatched }

(* findPending(): the oldest events without a mark.                        *)
Poll(r) ==
  /\ run[r].pc = "idle" /\ Pending # {}
  /\ run' = [run EXCEPT ![r] = At("batch",
                { e \in Pending : Cardinality({ f \in Pending : f < e }) < BatchLimit }, 0, {})]
  /\ UNCHANGED <<bondVars, outbox, inboxVars, published, faults>>

(* handleOutboxEvent(): what the rules give on the rows of this moment. A  *)
(* deleted activity and a cancelled expense tell nobody.                   *)
ToldOf(event, coordinator, counterpart) ==
  CASE event.kind = "activity" /\ activity.state # "deleted" /\ HasActivityRule(event.type) ->
         Recipients(ActivityRule[event.type],
                    [assignedTo |-> activity.assignedTo, createdBy |-> activity.createdBy,
                     coordinator |-> coordinator, members |-> Members, actor |-> event.actor])
    [] event.kind = "expense" /\ expense.status # "cancelled" /\ HasExpenseRule(event.type) ->
         ExpenseRecipients(event.type, expense.requestedBy, counterpart, event.actor)
    [] OTHER -> {}

(* Inside the transaction of the dispatch, but through connections of      *)
(* their own, activity or expense and members are read.                    *)
Select(r) ==
  /\ run[r].pc = "batch"
  /\ \E e \in run[r].batch, coordinator \in Coordinators,
        counterpart \in Counterparts(Members, expense.requestedBy) :
       /\ \A f \in run[r].batch : e <= f
       /\ run' = [run EXCEPT ![r] = At("commit", @.batch \ {e}, e,
                                       ToldOf(outbox[e], coordinator, counterpart))]
  /\ UNCHANGED <<bondVars, outbox, inboxVars, published, faults>>

(* The rows that ON CONFLICT (user_id, source_event_id) DO NOTHING lets in.*)
Fresh(users, e) == { u \in users : \A n \in inbox : <<n.user, n.event>> # <<u, e>> }

(* Faulty variants: recipients that had their row count as created; an     *)
(* event that tells nobody anything new is not marked.                     *)
CommitAllAsCreated(r) ==
  LET e == run[r].now
      fresh == Fresh(run[r].to, e)
  IN
  /\ run[r].pc = "commit"
  /\ inbox' = inbox \cup { Row(u, e) : u \in fresh }
  /\ told' = told \cup (fresh \X {e})
  /\ outbox' = [outbox EXCEPT ![e].dispatched = TRUE]
  /\ run' = [run EXCEPT ![r].pc = "publish"]
  /\ UNCHANGED <<bondVars, day, published, faults>>

CommitMarksIfNew(r) ==
  LET e == run[r].now
      fresh == Fresh(run[r].to, e)
  IN
  /\ run[r].pc = "commit"
  /\ inbox' = inbox \cup { Row(u, e) : u \in fresh }
  /\ told' = told \cup (fresh \X {e})
  /\ outbox' = [outbox EXCEPT ![e].dispatched = @ \/ fresh # {}]
  /\ run' = [run EXCEPT ![r].pc = "publish", ![r].to = fresh]
  /\ UNCHANGED <<bondVars, day, published, faults>>

(* The transaction of dispatch(): a row per recipient and the mark.        *)
Commit(r) ==
  LET e == run[r].now
      fresh == Fresh(run[r].to, e)
  IN
  /\ run[r].pc = "commit"
  /\ inbox' = inbox \cup { Row(u, e) : u \in fresh }
  /\ told' = told \cup (fresh \X {e})
  /\ outbox' = [outbox EXCEPT ![e].dispatched = TRUE]
  /\ run' = [run EXCEPT ![r].pc = "publish", ![r].to = fresh]
  /\ UNCHANGED <<bondVars, day, published, faults>>

(* Faulty variants: the frames of a transaction that has failed are sent;  *)
(* an error after the mark does not undo it.                               *)
RollbackAndPublish(r) ==
  /\ run[r].pc = "commit"
  /\ Fault
  /\ run' = [run EXCEPT ![r].pc = "publish"]
  /\ UNCHANGED <<bondVars, outbox, inboxVars, published>>
RollbackKeepsMark(r) ==
  /\ run[r].pc = "commit"
  /\ Fault
  /\ outbox' = [outbox EXCEPT ![run[r].now].dispatched = TRUE]
  /\ run' = [run EXCEPT ![r] = At("batch", @.batch, 0, {})]
  /\ UNCHANGED <<bondVars, inboxVars, published>>

(* Any error rolls the transaction back; the run goes on with the next one.*)
Rollback(r) ==
  /\ run[r].pc = "commit"
  /\ Fault
  /\ run' = [run EXCEPT ![r] = At("batch", @.batch, 0, {})]
  /\ UNCHANGED <<bondVars, outbox, inboxVars, published>>

(* publishNotificationCreated(), for each row that was really created. The *)
(* publisher never throws: a frame Redis does not take is dropped.         *)
PublishNotification(r, u) ==
  /\ run[r].pc = "publish" /\ u \in run[r].to
  /\ \/ published' = published \cup {Frame(u, run[r].now, r)} /\ UNCHANGED faults
     \/ Fault /\ UNCHANGED published
  /\ run' = [run EXCEPT ![r].to = @ \ {u}]
  /\ UNCHANGED <<bondVars, outbox, inboxVars>>

(* publish() / publishExpenseChanged(): the frame of the bond, which says  *)
(* nothing but that something has changed; and on to the next event.       *)
PublishChanged(r) ==
  /\ run[r].pc = "publish" /\ run[r].to = {}
  /\ run' = [run EXCEPT ![r] = At("batch", @.batch, 0, {})]
  /\ UNCHANGED <<bondVars, outbox, inboxVars, published, faults>>

Finish(r) ==
  /\ run[r].pc = "batch" /\ run[r].batch = {}
  /\ run' = [run EXCEPT ![r] = Idle]
  /\ UNCHANGED <<bondVars, outbox, inboxVars, published, faults>>

(* The worker dies: what it had not committed or published is lost.        *)
Crash(r) ==
  /\ run[r].pc # "idle"
  /\ Fault
  /\ run' = [run EXCEPT ![r] = Idle]
  /\ UNCHANGED <<bondVars, outbox, inboxVars, published>>

-----------------------------------------------------------------------------
(* The inbox of a user and its retention.                                  *)

ReadRows(rows) == (inbox \ rows) \cup { [n EXCEPT !.read = TRUE] : n \in rows }
Outside == UNCHANGED <<bondVars, outbox, run, published, faults>>

(* markRead(): one UPDATE with the user in its WHERE; another's row is a   *)
(* 404.                                                                    *)
MarkRead(u, n) ==
  /\ n \in inbox /\ n.user = u
  /\ inbox' = ReadRows({n})
  /\ UNCHANGED <<told, day>> /\ Outside

(* markAllRead()                                                           *)
MarkAllRead(u) ==
  /\ inbox' = ReadRows({ n \in inbox : n.user = u /\ ~n.read })
  /\ UNCHANGED <<told, day>> /\ Outside

(* Faulty variant: a cutoff that is one day late.                          *)
PurgeTooMuch ==
  /\ inbox' = { n \in inbox : n.created + Retention > day }
  /\ UNCHANGED <<told, day>> /\ Outside

(* run() of the retention, once a day: rows older than the window go, read *)
(* or not.                                                                 *)
Purge ==
  /\ inbox' = { n \in inbox : n.created + Retention >= day }
  /\ UNCHANGED <<told, day>> /\ Outside

(* A day passes.  A run of the relay is a matter of seconds: none lasts    *)
(* from one day to the next.                                               *)
Tick ==
  /\ day < MaxDay
  /\ \A r \in Relays : run[r].pc = "idle"
  /\ day' = day + 1
  /\ UNCHANGED <<inbox, told>> /\ Outside

-----------------------------------------------------------------------------
BondNext ==
  \/ \E u \in Users : AddMember(u)
  \/ \E type \in ActivityTypes, actor, assignee \in Users \cup {NoUser} :
       ActivityEvent(type, actor, assignee)
  \/ \E actor \in Users : DeleteActivity(actor)
  \/ \E type \in ExpenseTypes : AnnounceExpense(type)
  \/ \E u \in Users : ApproveExpense(u)
  \/ CancelExpense

RunNext(r) ==
  \/ Poll(r) \/ Select(r) \/ Commit(r)
  \/ \E u \in Users : PublishNotification(r, u)
  \/ PublishChanged(r) \/ Finish(r)

InboxNext ==
  \/ \E u \in Readers : MarkAllRead(u) \/ \E n \in inbox : MarkRead(u, n)
  \/ Purge \/ Tick

Next ==
  \/ BondNext
  \/ \E r \in Relays : RunNext(r) \/ Rollback(r) \/ Crash(r)
  \/ InboxNext

Spec == Init /\ [][Next]_vars

(* The poll repeats for ever and a run goes on; nothing makes the users    *)
(* do anything.                                                            *)
FairSpec == Spec /\ \A r \in Relays : WF_vars(RunNext(r))

-----------------------------------------------------------------------------
(* Properties.                                                             *)

(* A frame never announces a notification that was not committed: the      *)
(* frames leave after the transaction of the dispatch (fan-out.service.ts),*)
(* also when it rolls back or the worker dies.                             *)
FramesHaveRows ==
  \A f \in published : <<f.user, f.event>> \in told

(* However many runs dispatch an event, a notification is announced once:  *)
(* only rows really created become frames (notification-fan-out.service).  *)
OneFramePerRow ==
  \A f, g \in published :
    f.user = g.user /\ f.event = g.event => f.by = g.by

(* Who must hear of an event whatever changes later: the creator of the    *)
(* activity or the requester of the expense, of what another has done,     *)
(* where the rule names them.                                              *)
MustHear(u, e) ==
  /\ e <= Len(outbox) /\ outbox[e].actor # u
  /\ IF outbox[e].kind = "activity"
       THEN u = Creator /\ "creator" \in ActivityRule[outbox[e].type].recipients
       ELSE u = Requester /\ ExpenseRule[outbox[e].type] = "requester"

Gone(e) ==
  /\ e <= Len(outbox)
  /\ IF outbox[e].kind = "activity" THEN activity.state = "deleted" ELSE expense.status = "cancelled"

(* A rolled-back or interrupted dispatch is repeated until each of them    *)
(* has his notification (relay.ts, fan-out.service.ts).                    *)
NobodyForgotten ==
  \A u \in {Creator, Requester}, e \in Events :
    MustHear(u, e) ~> (<<u, e>> \in told \/ Gone(e))

(* Every event is dispatched in the end, one that tells nobody anything    *)
(* (new) as well as one behind another whose transaction has rolled back:  *)
(* run() of the relay goes on with the rest of the batch, and what it had  *)
(* to skip stays pending (relay.ts).                                       *)
EventsDispatched ==
  \A e \in Events :
    e <= Len(outbox) ~> (e <= Len(outbox) /\ outbox[e].dispatched)

(* The life of the inbox: at most one notification for a user and an event,*)
(* ever, never one for the actor; read marks stay, and only the retention  *)
(* removes rows (InboxContract).                                           *)
Contract == INSTANCE InboxContract WITH
  actor <- [e \in Events |-> IF e <= Len(outbox) THEN outbox[e].actor ELSE NoUser]
ImplementsInbox == Contract!ContractSpec

(* expense-counterpart.ts and notification-fan-out.service.ts claim that   *)
(* nobody approves an expense he was not told of.                          *)
ApproverWasTold ==
  expense.status = "approved" =>
    \A e \in DOMAIN outbox :
      outbox[e].kind = "expense" /\ outbox[e].type = "created" /\ outbox[e].dispatched
        => <<expense.approvedBy, e>> \in told

=============================================================================
