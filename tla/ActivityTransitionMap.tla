----------------------- MODULE ActivityTransitionMap -----------------------
(***************************************************************************)
(* The rule table of src/src/activities/activity-transition.map.ts, the    *)
(* policy of activity-policy.service.ts and the pure timer tables of       *)
(* src/src/queues/activity-timers, as sets of edges and functions.         *)
(*                                                                         *)
(* A row is a record of the columns that decide a transition.  Timestamps  *)
(* that are only ever compared with NULL (confirmed_at, declined_at,       *)
(* verify_at, deleted_at) are Booleans: TRUE stands for "set".             *)
(* completed_at, cancelled_at and the reasons are written and never read   *)
(* by a transition, so they are left out.                                  *)
(***************************************************************************)
EXTENDS Naturals

CONSTANTS Members,          \* users that belong to the bond
          Null,             \* SQL NULL
          ResponseTimeout   \* RESPONSE_TIMEOUT_HOURS, in clock ticks

ASSUME MapAssumption ==
  /\ Null \notin Nat
  /\ Null \notin Members
  /\ ResponseTimeout \in Nat

Statuses == {"created", "assigned", "assisting", "in_progress", "verify",
             "overdue", "not_assisting", "done", "cancelled"}

-----------------------------------------------------------------------------
(* The edges, grouped by who may execute them.                             *)

SystemEdges ==
  { <<"assigned", "overdue">>,       \* T7
    <<"assisting", "in_progress">>,  \* T10
    <<"in_progress", "verify">>,     \* T12
    <<"verify", "overdue">>,         \* T14
    <<"created", "overdue">> }       \* T16

AssigneeEdges ==
  { <<"assigned", "assisting">>,       \* T5
    <<"assigned", "not_assisting">>,   \* T6
    <<"overdue", "not_assisting">> }   \* T8

CancelSources ==
  {"created", "assigned", "assisting", "not_assisting", "overdue",
   "in_progress", "verify"}

CancelEdges == CancelSources \X {"cancelled"}   \* T15

MemberEdges ==
  { <<"created", "assigned">>,         \* T3
    <<"not_assisting", "assigned">>,   \* T9
    <<"in_progress", "done">>,         \* T11
    <<"verify", "done">> } \cup CancelEdges

Edges == SystemEdges \cup AssigneeEdges \cup MemberEdges

(* Side effects: the edges that set and that clear each column.            *)

SetsDeadline == { <<"created", "assigned">>, <<"not_assisting", "assigned">>,
                  <<"in_progress", "verify">> }

ClearsDeadline ==
  { <<"assigned", "assisting">>, <<"assigned", "not_assisting">>,
    <<"verify", "done">>, <<"verify", "overdue">>, <<"created", "overdue">> }
  \cup CancelEdges

SetsConfirmed   == { <<"assigned", "assisting">> }
ClearsConfirmed == { <<"not_assisting", "assigned">> }
SetsDeclined    == { <<"assigned", "not_assisting">>,
                     <<"overdue", "not_assisting">> }
ClearsDeclined  == { <<"not_assisting", "assigned">> }
SetsVerify      == { <<"in_progress", "verify">> }
(* Faulty variants, used to see the properties fail: T14 clears verify_at, *)
(* T15 does not.                                                           *)
ClearsVerifyOnExpiry ==
  { <<"verify", "done">>, <<"verify", "overdue">> } \cup CancelEdges
ClearsVerifyNotOnCancel == { <<"verify", "done">> }

ClearsVerify    == { <<"verify", "done">> } \cup CancelEdges

Effect(edge, sets, clears, new, none, old) ==
  IF edge \in sets THEN new ELSE IF edge \in clears THEN none ELSE old

(* The event an edge publishes: named for the status it lands on, with the *)
(* three ways into "overdue" told apart.                                   *)
EventOf(edge) ==
  CASE edge = <<"created", "overdue">> -> "created_overdue"
    [] edge = <<"verify", "overdue">>  -> "verify_expired"
    [] OTHER                           -> edge[2]

InitialStatus(assignee) == IF assignee = Null THEN "created" ELSE "assigned"

-----------------------------------------------------------------------------
(* The row after a transition computed at time t (buildTransitionFields    *)
(* and the fields a caller merges in).  `assignee` is Null unless the      *)
(* caller passes fields.assignedTo.                                        *)

NextRow(r, to, t, assignee, deletes) ==
  LET e == <<r.status, to>>
  IN  [status      |-> to,
       version     |-> r.version + 1,
       createdBy   |-> r.createdBy,
       assignedTo  |-> IF assignee = Null THEN r.assignedTo ELSE assignee,
       start       |-> r.start,
       end         |-> r.end,
       deadline    |-> Effect(e, SetsDeadline, ClearsDeadline,
                              t + ResponseTimeout, Null, r.deadline),
       confirmedAt |-> Effect(e, SetsConfirmed, ClearsConfirmed, TRUE, FALSE, r.confirmedAt),
       declinedAt  |-> Effect(e, SetsDeclined, ClearsDeclined, TRUE, FALSE, r.declinedAt),
       verifyAt    |-> Effect(e, SetsVerify, ClearsVerify, TRUE, FALSE, r.verifyAt),
       deletedAt   |-> r.deletedAt \/ deletes]

-----------------------------------------------------------------------------
(* ActivityPolicyService.                                                  *)

OverdueOrigin(r) ==
  CASE r.assignedTo = Null -> "created"
    [] r.assignedTo # Null /\ r.verifyAt -> "verify"
    [] OTHER -> "assigned"

EndAnchor(r) == IF r.end = Null THEN r.start ELSE r.end

IsPast(r, t) == EndAnchor(r) <= t

CanCancel(r, u, t) == r.createdBy = u /\ ~IsPast(r, t)

CanDecline(r, u, t) ==
  /\ r.assignedTo = u
  /\ \/ r.status = "assigned"
     \/ r.status = "overdue" /\ OverdueOrigin(r) = "assigned"
  /\ ~IsPast(r, t)

(* The checks transition() makes on the row it has just read.              *)
UserMay(r, to, u) ==
  LET e == <<r.status, to>>
  IN  /\ e \in AssigneeEdges \cup MemberEdges
      /\ e \in AssigneeEdges => r.assignedTo = u
      /\ e = <<"overdue", "not_assisting">> => OverdueOrigin(r) = "assigned"

SystemMay(r, to) == <<r.status, to>> \in SystemEdges

-----------------------------------------------------------------------------
(* Timers.                                                                 *)

TimerKinds == {"response_timeout", "start", "end", "verify_timeout"}

(* Faulty variant: IN_PROGRESS relies on the END job enqueued earlier.     *)
EnqueueKindsOnce(status) ==
  CASE status = "assigned"              -> {"response_timeout", "start", "end"}
    [] status = "created"               -> {"response_timeout"}
    [] status \in {"assisting", "overdue"} -> {"start", "end"}
    [] status = "verify"                -> {"verify_timeout"}
    [] OTHER                            -> {}

EnqueueKinds(status) ==
  CASE status = "assigned"              -> {"response_timeout", "start", "end"}
    [] status = "created"               -> {"response_timeout"}
    [] status \in {"assisting", "overdue"} -> {"start", "end"}
    [] status = "in_progress"           -> {"end"}
    [] status = "verify"                -> {"verify_timeout"}
    [] OTHER                            -> {}

CancelKinds(status) ==
  CASE status = "assisting" -> {"response_timeout"}
    [] status = "verify"    -> {"end"}
    [] status \in {"done", "cancelled", "not_assisting"} -> TimerKinds
    [] OTHER                -> {}

(* Faulty variant: END is anchored at the start even if there is an end.   *)
TimerTargetAtStart(kind, r) ==
  IF kind \in {"start", "end"} THEN r.start ELSE r.deadline

TimerTarget(kind, r) ==
  CASE kind = "start" -> r.start
    [] kind = "end"   -> EndAnchor(r)
    [] OTHER          -> r.deadline

ExpectedSource(kind) ==
  CASE kind = "response_timeout" -> {"created", "assigned"}
    [] kind = "start"            -> {"assisting"}
    [] kind = "end"              -> {"in_progress"}
    [] kind = "verify_timeout"   -> {"verify"}

TargetStatus(kind) ==
  CASE kind = "start" -> "in_progress"
    [] kind = "end"   -> "verify"
    [] OTHER          -> "overdue"

(* findDueForTransition and dueTargetFor: what a row is due for at time t. *)
DueAnchor(r) ==
  CASE r.status \in {"created", "assigned", "verify"} -> r.deadline
    [] r.status = "assisting"   -> r.start
    [] r.status = "in_progress" -> EndAnchor(r)
    [] OTHER                    -> Null

IsDue(r, t) == ~r.deletedAt /\ DueAnchor(r) # Null /\ DueAnchor(r) <= t

DueTarget(r) ==
  CASE r.status = "assisting"   -> "in_progress"
    [] r.status = "in_progress" -> "verify"
    [] OTHER                    -> "overdue"

=============================================================================
