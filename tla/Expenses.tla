----------------------------- MODULE Expenses ------------------------------
(***************************************************************************)
(* Shared expenses of one bond: creation, editing, approval, rejection,    *)
(* payment, cancellation and the daily reminder of stale ones              *)
(* (src/src/expenses).                                                     *)
(*                                                                         *)
(* An expense has no version column.  A request reads the row, decides,    *)
(* and later writes with `WHERE status = :read AND deleted_at IS NULL`; row,*)
(* audit entry and event commit together.  The reminder finds its rows in  *)
(* one snapshot, locks them one after the other with SKIP LOCKED and then  *)
(* commits one event per locked row.                                       *)
(*                                                                         *)
(* Concept, amount, category and split are one value, the terms.  That     *)
(* seven days have passed since the date of an expense is a Boolean.       *)
(***************************************************************************)
EXTENDS Naturals, Sequences, FiniteSets

CONSTANTS Expenses,
          People,       \* users that are or may become members of the bond
          Founders,     \* its members at the start
          Terms,        \* what an edit may change
          Null,
          Clients,      \* API connections
          Workers,      \* reminder jobs that may overlap
          MaxEdits,     \* bound: accepted edits of an expense
          MaxFailures   \* bound: reminder scans that roll back

Statuses == {"pending", "approved", "rejected", "paid"}

Operations == {"edit", "cancel", "approve", "reject", "pay"}

(* old: expense_date is seven days past.                                   *)
Row == [requestedBy : People, status : Statuses, terms : Terms, old : BOOLEAN,
        approvedBy : People \cup {Null}, deleted : BOOLEAN]

Event == [type : {"created", "approved", "rejected", "paid", "stale"},
          version : 1..3, actor : People \cup {Null}]

Entry == [action : {"create", "update", "delete", "approve", "reject", "pay"},
          user : People, old : Terms \cup Statuses \cup {Null},
          new : Terms \cup Statuses \cup {Null}]

(* A request between its read and its write: what it read, what it wants.  *)
Call == [op : Operations, expense : Expenses, viewer : People,
         from : Statuses, read : Terms, patch : Terms \cup {Null}]

(* A reminder scan: rows of its snapshot still to lock, and locked rows.   *)
Scan == [found : SUBSET Expenses, held : SUBSET Expenses]

ASSUME ExpensesAssumption ==
  /\ Founders \subseteq People /\ Founders # {}
  /\ Null \notin People \cup Terms \cup Statuses \cup Row \cup Call \cup Scan
  /\ Terms \cap Statuses = {}
  /\ MaxEdits \in Nat /\ MaxFailures \in Nat

VARIABLES members,   \* active members of the bond (left_at IS NULL)
          active,    \* bond.is_active
          row,       \* expense rows
          outbox,    \* events of each expense, in the order of their commits
          audit,     \* audit entries of each expense
          call,      \* requests in progress
          scan,      \* reminder scans in progress
          failures   \* scans rolled back so far

vars == <<members, active, row, outbox, audit, call, scan, failures>>

TypeOK ==
  /\ members \subseteq People
  /\ active \in BOOLEAN
  /\ row \in [Expenses -> Row \cup {Null}]
  /\ outbox \in [Expenses -> Seq(Event)]
  /\ audit \in [Expenses -> Seq(Entry)]
  /\ call \in [Clients -> Call \cup {Null}]
  /\ scan \in [Workers -> Scan \cup {Null}]
  /\ failures \in 0..MaxFailures

-----------------------------------------------------------------------------
(* expenseAggregateVersion: the ordinal of the status.                     *)
Version == [s \in Statuses |->
  CASE s = "pending" -> 1 [] s = "paid" -> 3 [] OTHER -> 2]

(* EXPENSE_STATUS_EVENT.                                                   *)
StatusEvent == [s \in Statuses |-> IF s = "pending" THEN "created" ELSE s]

NextStatus == [approve |-> "approved", reject |-> "rejected", pay |-> "paid"]

Published(type, status, actor) ==
  [type |-> type, version |-> Version[status], actor |-> actor]

Audited(action, user, old, new) ==
  [action |-> action, user |-> user, old |-> old, new |-> new]

Alive(e) == row[e] # Null /\ ~row[e].deleted

(* existsActiveBondForMember.                                              *)
MayEnter(u) == active /\ u \in members

(* selectCounterpartId: the first member that is not the requester, in a   *)
(* query without an order; nobody while the requester is alone.            *)
Counterparts(u) ==
  IF members \ {u} = {} THEN {Null} ELSE members \ {u}

(* Faulty variant: either party may approve.                               *)
CanByParty(op, r, viewer, counterpart) ==
  CASE op \in {"edit", "cancel"} -> viewer = r.requestedBy /\ r.status = "pending"
    [] op \in {"approve", "reject"} ->
         viewer \in {r.requestedBy, counterpart} /\ r.status = "pending"
    [] op = "pay" -> viewer \in {r.requestedBy, counterpart} /\ r.status = "approved"

(* ExpensePolicyService.evaluate.                                          *)
Can(op, r, viewer, counterpart) ==
  CASE op \in {"edit", "cancel"} -> viewer = r.requestedBy /\ r.status = "pending"
    [] op \in {"approve", "reject"} -> viewer = counterpart /\ r.status = "pending"
    [] op = "pay" -> viewer \in {r.requestedBy, counterpart} /\ r.status = "approved"

Edits(e) == SelectSeq(audit[e], LAMBDA a : a.action = "update")

-----------------------------------------------------------------------------
Init ==
  /\ members = Founders
  /\ active = TRUE
  /\ row = [e \in Expenses |-> Null]
  /\ outbox = [e \in Expenses |-> <<>>]
  /\ audit = [e \in Expenses |-> <<>>]
  /\ call = [c \in Clients |-> Null]
  /\ scan = [w \in Workers |-> Null]
  /\ failures = 0

(* The administration adds members and switches the bond off and on.       *)
AddMember(u) ==
  /\ u \notin members
  /\ members' = members \cup {u}
  /\ UNCHANGED <<active, row, outbox, audit, call, scan, failures>>

SetActive(on) ==
  /\ active # on
  /\ active' = on
  /\ UNCHANGED <<members, row, outbox, audit, call, scan, failures>>

(* create(): row, audit entry and event in one transaction.                *)
Create(e, u, terms, old) ==
  /\ row[e] = Null /\ MayEnter(u)
  /\ row' = [row EXCEPT ![e] =
       [requestedBy |-> u, status |-> "pending", terms |-> terms, old |-> old,
        approvedBy |-> Null, deleted |-> FALSE]]
  /\ outbox' = [outbox EXCEPT ![e] = Append(@, Published("created", "pending", u))]
  /\ audit' = [audit EXCEPT ![e] = Append(@, Audited("create", u, Null, "pending"))]
  /\ UNCHANGED <<members, active, call, scan, failures>>

(* Seven days have passed.                                                 *)
Age(e) ==
  /\ Alive(e) /\ ~row[e].old
  /\ row' = [row EXCEPT ![e].old = TRUE]
  /\ UNCHANGED <<members, active, outbox, audit, call, scan, failures>>

(* loadForViewer and the decision of the policy.                           *)
Load(c, op, e, u, patch) ==
  /\ call[c] = Null
  /\ Alive(e) /\ MayEnter(u)
  /\ \E k \in Counterparts(row[e].requestedBy) : Can(op, row[e], u, k)
  /\ op = "edit" => Len(Edits(e)) < MaxEdits
  /\ call' = [call EXCEPT ![c] =
       [op |-> op, expense |-> e, viewer |-> u, from |-> row[e].status,
        read |-> row[e].terms, patch |-> IF op = "edit" THEN patch ELSE Null]]
  /\ UNCHANGED <<members, active, row, outbox, audit, scan, failures>>

(* Faulty variants: the condition forgets the status, or the deletion.     *)
MatchesAlive(c) == Alive(call[c].expense)
MatchesStatus(c) == row[call[c].expense].status = call[c].from

(* updateGuarded: the condition of the UPDATE.                             *)
Matches(c) ==
  /\ Alive(call[c].expense)
  /\ row[call[c].expense].status = call[c].from

(* An UPDATE waits while a scan holds the row.                             *)
Locked(e) == \E w \in Workers : scan[w] # Null /\ e \in scan[w].held

Writable(c) == call[c] # Null /\ Matches(c) /\ ~Locked(call[c].expense)

(* approve(), reject(), pay().                                             *)
Transition(c) ==
  /\ Writable(c) /\ call[c].op \in {"approve", "reject", "pay"}
  /\ LET k == call[c]
         e == k.expense
         to == NextStatus[k.op]
     IN  /\ row' = [row EXCEPT ![e].status = to,
                               ![e].approvedBy = IF k.op = "approve" THEN k.viewer ELSE @]
         /\ audit' = [audit EXCEPT ![e] = Append(@, Audited(k.op, k.viewer, k.from, to))]
         /\ outbox' = [outbox EXCEPT ![e] =
                         Append(@, Published(StatusEvent[to], to, k.viewer))]
  /\ call' = [call EXCEPT ![c] = Null]
  /\ UNCHANGED <<members, active, scan, failures>>

(* update(): the audit entry has the terms that were read, not the replaced*)
(* ones.  The date may be edited as well.                                  *)
Edit(c) ==
  /\ Writable(c) /\ call[c].op = "edit"
  /\ LET k == call[c]
         e == k.expense
     IN  /\ \E old \in BOOLEAN :
              row' = [row EXCEPT ![e].terms = k.patch, ![e].old = old]
         /\ audit' = [audit EXCEPT ![e] =
                        Append(@, Audited("update", k.viewer, k.read, k.patch))]
  /\ call' = [call EXCEPT ![c] = Null]
  /\ UNCHANGED <<members, active, outbox, scan, failures>>

(* cancel(): a mark, and no event.                                         *)
Cancel(c) ==
  /\ Writable(c) /\ call[c].op = "cancel"
  /\ LET k == call[c]
         e == k.expense
     IN  /\ row' = [row EXCEPT ![e].deleted = TRUE]
         /\ audit' = [audit EXCEPT ![e] =
                        Append(@, Audited("delete", k.viewer, k.from, Null))]
  /\ call' = [call EXCEPT ![c] = Null]
  /\ UNCHANGED <<members, active, outbox, scan, failures>>

(* 409: the UPDATE affected no row.                                        *)
Conflict(c) ==
  /\ call[c] # Null /\ ~Matches(c)
  /\ call' = [call EXCEPT ![c] = Null]
  /\ UNCHANGED <<members, active, row, outbox, audit, scan, failures>>

-----------------------------------------------------------------------------
(* emitStaleEvents.                                                        *)
IsStale(e) == Alive(e) /\ row[e].status = "pending" /\ row[e].old

Reminded(e) == \E i \in 1..Len(outbox[e]) : outbox[e][i].type = "stale"

(* Faulty variant: any event counts as a reminder.                         *)
IsDueUnpublished(e) == IsStale(e) /\ outbox[e] = <<>>

IsDue(e) == IsStale(e) /\ ~Reminded(e)

(* A scan that finds nothing changes nothing.                              *)
StartScan(w) ==
  /\ scan[w] = Null
  /\ \E e \in Expenses : IsDue(e)
  /\ scan' = [scan EXCEPT ![w] =
       [found |-> { e \in Expenses : IsDue(e) }, held |-> {}]]
  /\ UNCHANGED <<members, active, row, outbox, audit, call, failures>>

Skip(w, e) == scan' = [scan EXCEPT ![w].found = @ \ {e}]

(* A row that has been updated since the snapshot is checked again; the    *)
(* anti-join is not.                                                       *)
(* Faulty variant: the scan does not lock, so nothing is checked again.    *)
LockUnchecked(w, e) ==
  /\ scan[w] # Null /\ e \in scan[w].found
  /\ scan' = [scan EXCEPT ![w].found = @ \ {e}, ![w].held = @ \cup {e}]
  /\ UNCHANGED <<members, active, row, outbox, audit, call, failures>>

Lock(w, e) ==
  /\ scan[w] # Null /\ e \in scan[w].found
  /\ IF IsStale(e) /\ ~Locked(e)
     THEN scan' = [scan EXCEPT ![w].found = @ \ {e}, ![w].held = @ \cup {e}]
     ELSE Skip(w, e)
  /\ UNCHANGED <<members, active, row, outbox, audit, call, failures>>

(* SKIP LOCKED: the transaction of a request is writing the row.           *)
SkipLocked(w, e) ==
  /\ scan[w] # Null /\ e \in scan[w].found
  /\ \E c \in Clients : Writable(c) /\ call[c].expense = e
  /\ Skip(w, e)
  /\ UNCHANGED <<members, active, row, outbox, audit, call, failures>>

Emit(w) ==
  /\ scan[w] # Null /\ scan[w].found = {}
  /\ outbox' = [e \in Expenses |->
       IF e \in scan[w].held
       THEN Append(outbox[e], Published("stale", "pending", Null))
       ELSE outbox[e]]
  /\ scan' = [scan EXCEPT ![w] = Null]
  /\ UNCHANGED <<members, active, row, audit, call, failures>>

(* The transaction rolls back; the next scan starts over.                  *)
ScanFails(w) ==
  /\ scan[w] # Null
  /\ failures < MaxFailures
  /\ failures' = failures + 1
  /\ scan' = [scan EXCEPT ![w] = Null]
  /\ UNCHANGED <<members, active, row, outbox, audit, call>>

-----------------------------------------------------------------------------
Finish(c) == Transition(c) \/ Edit(c) \/ Cancel(c) \/ Conflict(c)

ScanStep(w) ==
  \/ \E e \in Expenses : Lock(w, e) \/ SkipLocked(w, e)
  \/ Emit(w)

Next ==
  \/ \E u \in People : AddMember(u)
  \/ SetActive(TRUE) \/ SetActive(FALSE)
  \/ \E e \in Expenses, u \in People, t \in Terms, old \in BOOLEAN : Create(e, u, t, old)
  \/ \E e \in Expenses : Age(e)
  \/ \E c \in Clients, op \in Operations, e \in Expenses, u \in People, t \in Terms :
       Load(c, op, e, u, t)
  \/ \E c \in Clients : Finish(c)
  \/ \E w \in Workers : StartScan(w) \/ ScanStep(w) \/ ScanFails(w)

Spec == Init /\ [][Next]_vars

(* The scheduler repeats the scan, and what has begun goes on.             *)
Fairness ==
  /\ \A c \in Clients : WF_vars(Finish(c))
  /\ \A w \in Workers : WF_vars(StartScan(w)) /\ WF_vars(ScanStep(w))

FairSpec == Spec /\ Fairness

-----------------------------------------------------------------------------
(* Properties.                                                             *)

(* Row, outbox and audit tell the same story: the events of an expense but *)
(* its reminders are the path to its status, and each was caused by the    *)
(* user whom the audit names for it.  A conflict or a lost race leaves no  *)
(* trace in any of the three.                                              *)
Path == [pending  |-> <<"created">>,
         approved |-> <<"created", "approved">>,
         rejected |-> <<"created", "rejected">>,
         paid     |-> <<"created", "approved", "paid">>]

(* Where in outbox and audit the changes of the status are.                *)
Changes(e) == { i \in 1..Len(outbox[e]) : outbox[e][i].type # "stale" }

Decisions(e) == { i \in 1..Len(audit[e]) : audit[e][i].action \notin {"update", "delete"} }

(* The set S of n positions in its order.                                  *)
InOrder(S, n) ==
  { p \in [1..n -> S] : /\ \A i \in S : \E k \in 1..n : p[k] = i
                        /\ \A j, k \in 1..n : j < k => p[j] < p[k] }

StoriesAgree ==
  \A e \in Expenses : row[e] # Null =>
    LET path == Path[row[e].status] IN
    \E p \in InOrder(Changes(e), Len(path)), q \in InOrder(Decisions(e), Len(path)) :
      \A k \in 1..Len(path) : /\ outbox[e][p[k]].type = path[k]
                              /\ outbox[e][p[k]].actor = audit[e][q[k]].user

(* expense-events.ts calls the version monotone: no event of an expense    *)
(* has a lower version than one committed before it.  A reminder has       *)
(* version 1, so it must never follow an approval, although the scan that  *)
(* sends it has found the expense pending in an older snapshot.            *)
VersionsNeverFall ==
  \A e \in Expenses : \A i, j \in 1..Len(outbox[e]) :
    i < j => outbox[e][i].version <= outbox[e][j].version

(* What has been approved, rejected or paid is not edited any more, though *)
(* an edit and an approval may both have read the expense as pending.      *)
TermsAreFrozen ==
  [][\A e \in Expenses :
       row[e] # Null /\ row[e].status # "pending" => row'[e].terms = row[e].terms]_vars

(* A cancelled expense never changes and publishes nothing again.          *)
CancelledIsFinal ==
  [][\A e \in Expenses :
       row[e] # Null /\ row[e].deleted
         => row'[e] = row[e] /\ outbox'[e] = outbox[e] /\ audit'[e] = audit[e]]_vars

(* Nobody's expense is approved, and so paid, by its requester, whoever    *)
(* joins the bond in the meantime.                                         *)
ApprovedByAnother ==
  \A e \in Expenses : row[e] # Null /\ row[e].status \in {"approved", "paid"} =>
    row[e].approvedBy \in members \ {row[e].requestedBy}

(* An expense that stays pending for a week gets its reminder, however     *)
(* often a scan skips it or rolls back.                                    *)
StaleGetsReminder ==
  \A e \in Expenses : IsStale(e) ~> (Reminded(e) \/ ~IsStale(e))

(* expense-stale-reminder.repository.ts: confirmed reminders are not       *)
(* repeated, and two simultaneous workers do not claim the same expense.   *)
RemindedOnce ==
  \A e \in Expenses : \A i, j \in 1..Len(outbox[e]) :
    outbox[e][i].type = "stale" /\ outbox[e][j].type = "stale" => i = j

=============================================================================
