------------------------- MODULE NotificationRules -------------------------
(***************************************************************************)
(* Who is told of an event: the two rule tables of the notification        *)
(* fan-out and the selection of recipients                                 *)
(* (src/src/notifications/fan-out/activity-notification.map.ts and         *)
(* expense-notification.map.ts) and the counterpart of an expense          *)
(* (src/src/expenses/expense-counterpart.ts).  Titles and bodies are left  *)
(* out.                                                                    *)
(***************************************************************************)
EXTENDS Integers, FiniteSets

CONSTANTS Users, NoUser

ASSUME RulesAssumption == IsFiniteSet(Users) /\ NoUser \notin Users

(* RecipientSlot: where a candidate comes from.                            *)
Slots == {"assignee", "creator", "coordinator", "members"}

Rule(slots, exclude) == [recipients |-> slots, excludeCoordinator |-> exclude]

(* NOTIFICATION_FAN_OUT_RULES by event type; "unassigned" has no rule.     *)
ActivityRule ==
  [created         |-> Rule({"members"}, TRUE),
   assigned        |-> Rule({"assignee", "creator"}, TRUE),
   assisting       |-> Rule({"creator", "coordinator"}, FALSE),
   in_progress     |-> Rule({"assignee", "creator"}, FALSE),
   verify          |-> Rule({"assignee", "creator"}, FALSE),
   verify_expired  |-> Rule({"assignee", "creator", "coordinator"}, FALSE),
   created_overdue |-> Rule({"creator", "coordinator"}, FALSE),
   overdue         |-> Rule({"assignee", "creator", "coordinator"}, FALSE),
   not_assisting   |-> Rule({"creator", "coordinator"}, FALSE),
   done            |-> Rule({"assignee", "creator", "coordinator"}, FALSE),
   cancelled       |-> Rule({"assignee", "creator"}, FALSE)]

(* resolveNotificationRule(): an unknown type has no rule and is no error. *)
HasActivityRule(type) == type \in DOMAIN ActivityRule

(* RecipientContext: what the fan-out has read when it selects.            *)
Contexts == [assignedTo  : Users \cup {NoUser}, createdBy : Users \cup {NoUser},
             coordinator : Users \cup {NoUser}, members   : SUBSET Users,
             actor       : Users \cup {NoUser}]

Candidates(slot, ctx) ==
  CASE slot = "assignee"    -> {ctx.assignedTo}
    [] slot = "creator"     -> {ctx.createdBy}
    [] slot = "coordinator" -> {ctx.coordinator}
    [] slot = "members"     -> ctx.members

Excluded(rule, ctx) ==
  {NoUser, ctx.actor} \cup (IF rule.excludeCoordinator THEN {ctx.coordinator} ELSE {})

(* buildRecipientIds()                                                     *)
Recipients(rule, ctx) ==
  (UNION { Candidates(slot, ctx) : slot \in rule.recipients }) \ Excluded(rule, ctx)

(***************************************************************************)
(* Expenses.                                                               *)
(***************************************************************************)

(* EXPENSE_NOTIFICATION_RULES: every rule names one slot.                  *)
ExpenseRule ==
  [created |-> "counterpart", approved |-> "requester", rejected |-> "requester",
   paid    |-> "requester",   stale    |-> "counterpart"]

HasExpenseRule(type) == type \in DOMAIN ExpenseRule

(* selectCounterpartId(): the first active member that is not the requester*)
(* of a list that no query orders: any of them.                            *)
Counterparts(members, requester) ==
  IF members \subseteq {requester} THEN {NoUser} ELSE members \ {requester}

(* buildExpenseRecipientIds()                                              *)
ExpenseRecipients(type, requester, counterpart, actor) ==
  (IF ExpenseRule[type] = "requester" THEN {requester} ELSE {counterpart}) \ {NoUser, actor}

=============================================================================
