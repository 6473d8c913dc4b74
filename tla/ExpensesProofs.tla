-------------------------- MODULE ExpensesProofs ---------------------------
(***************************************************************************)
(* Proofs about Expenses, for any number of expenses, people, connections  *)
(* and reminder jobs, any interleaving and any bounds.                     *)
(***************************************************************************)
EXTENDS Expenses, TLAPS

(* What a request has read still tells what its status allows, and an      *)
(* approval on its way comes from a member other than the requester.       *)
CallsSound ==
  \A c \in Clients : call[c] # Null =>
    LET k == call[c] IN
      /\ row[k.expense] # Null
      /\ k.from = IF k.op = "pay" THEN "approved" ELSE "pending"
      /\ k.op = "edit" => k.patch \in Terms
      /\ k.op = "approve" =>
           k.viewer \in members /\ k.viewer # row[k.expense].requestedBy

(* The lock of a scan keeps its expenses alive and pending until it commits.*)
HeldArePending ==
  \A w \in Workers : scan[w] # Null =>
    \A e \in scan[w].held : Alive(e) /\ row[e].status = "pending"

(* No event is ahead of its expense.                                       *)
VersionsReached ==
  \A e \in Expenses :
    /\ row[e] = Null => outbox[e] = <<>>
    /\ row[e] # Null =>
         \A i \in 1..Len(outbox[e]) : outbox[e][i].version <= Version[row[e].status]

ExpensesInv ==
  /\ TypeOK
  /\ CallsSound
  /\ HeldArePending
  /\ VersionsReached
  /\ VersionsNeverFall
  /\ ApprovedByAnother

-----------------------------------------------------------------------------
(* The ordinals of the statuses.                                           *)
LEMMA VersionType ==
  /\ Version["pending"] = 1 /\ Version["approved"] = 2
  /\ Version["rejected"] = 2 /\ Version["paid"] = 3
  /\ \A s \in Statuses : Version[s] \in 1..3
BY DEF Version, Statuses

(* An event that is not behind the last one may be appended.               *)
LEMMA AppendRises ==
  ASSUME NEW q \in Seq(Event), NEW v \in Event, NEW n \in Nat,
         \A i \in 1..Len(q) : q[i].version <= n,
         \A i, j \in 1..Len(q) : i < j => q[i].version <= q[j].version,
         n <= v.version
  PROVE  LET p == Append(q, v) IN
         /\ p \in Seq(Event)
         /\ \A i \in 1..Len(p) : p[i].version <= v.version
         /\ \A i, j \in 1..Len(p) : i < j => p[i].version <= p[j].version
<1>. DEFINE p == Append(q, v)
<1>1. /\ p \in Seq(Event) /\ Len(p) = Len(q) + 1 /\ Len(q) \in Nat
      /\ p[Len(q) + 1] = v
      /\ \A i \in 1..Len(q) : p[i] = q[i] /\ q[i] \in Event
  OBVIOUS
<1>2. \A x \in Event : x.version \in Nat
  BY DEF Event
<1>. HIDE DEF p
<1>3. \A i \in 1..Len(p) : p[i].version <= v.version
  <2>. SUFFICES ASSUME NEW i \in 1..Len(p) PROVE p[i].version <= v.version
    OBVIOUS
  <2>1. CASE i = Len(q) + 1
    BY <1>1, <1>2, <2>1
  <2>2. CASE i \in 1..Len(q)
    <3>1. p[i].version <= n /\ p[i].version \in Nat
      BY <1>1, <1>2, <2>2
    <3>. QED  BY <3>1, <1>2
  <2>. QED  BY <1>1, <2>1, <2>2
<1>4. \A i, j \in 1..Len(p) : i < j => p[i].version <= p[j].version
  <2>. SUFFICES ASSUME NEW i \in 1..Len(p), NEW j \in 1..Len(p), i < j
                PROVE  p[i].version <= p[j].version
    OBVIOUS
  <2>1. CASE j = Len(q) + 1
    BY <1>1, <1>3, <2>1
  <2>2. CASE j \in 1..Len(q)
    <3>1. i \in 1..Len(q)
      BY <1>1, <2>2
    <3>. QED  BY <1>1, <2>2, <3>1
  <2>. QED  BY <1>1, <2>1, <2>2
<1>. QED  BY <1>1, <1>3, <1>4 DEF p

(* Requests stay sound while nobody leaves and no expense changes hands.   *)
LEMMA CallsStaySound ==
  ASSUME TypeOK, CallsSound, members' = members,
         \A x \in Expenses : row[x] # Null =>
           row'[x] # Null /\ row'[x].requestedBy = row[x].requestedBy,
         \A c \in Clients : call'[c] \in {Null, call[c]}
  PROVE  CallsSound'
<1>1. \A c \in Clients : call[c] # Null => call[c].expense \in Expenses
  BY DEF TypeOK, Call
<1>. QED  BY <1>1 DEF CallsSound

(* Nothing exists at first but the founders.                               *)
LEMMA ExpensesInit == Init => ExpensesInv
BY ExpensesAssumption
DEF Init, ExpensesInv, TypeOK, CallsSound, HeldArePending, VersionsReached,
    VersionsNeverFall, ApprovedByAnother

-----------------------------------------------------------------------------
(* The administration.                                                     *)
LEMMA AddMemberKeeps ==
  ASSUME ExpensesInv, NEW u \in People, AddMember(u)
  PROVE  ExpensesInv'
<1>. USE DEF ExpensesInv
<1>1. TypeOK'
  BY DEF TypeOK, AddMember
<1>2. CallsSound' /\ HeldArePending' /\ VersionsReached' /\ VersionsNeverFall'
  BY DEF AddMember, CallsSound, HeldArePending, VersionsReached, VersionsNeverFall, Alive
<1>3. ApprovedByAnother'
  BY DEF AddMember, ApprovedByAnother
<1>. QED  BY <1>1, <1>2, <1>3

LEMMA SetActiveKeeps ==
  ASSUME ExpensesInv, NEW on \in BOOLEAN, SetActive(on)
  PROVE  ExpensesInv'
<1>. USE DEF ExpensesInv
<1>1. TypeOK'
  BY DEF TypeOK, SetActive
<1>2. CallsSound' /\ HeldArePending' /\ VersionsReached' /\ VersionsNeverFall'
  BY DEF SetActive, CallsSound, HeldArePending, VersionsReached, VersionsNeverFall, Alive
<1>3. ApprovedByAnother'
  BY DEF SetActive, ApprovedByAnother
<1>. QED  BY <1>1, <1>2, <1>3

-----------------------------------------------------------------------------
(* Requests.                                                               *)

(* Creation: the first event of an empty outbox.                           *)
LEMMA CreateKeeps ==
  ASSUME ExpensesInv, NEW e \in Expenses, NEW u \in People, NEW t \in Terms,
         NEW old \in BOOLEAN, Create(e, u, t, old)
  PROVE  ExpensesInv'
<1>. USE DEF ExpensesInv
<1>. DEFINE r == [requestedBy |-> u, status |-> "pending", terms |-> t, old |-> old,
                  approvedBy |-> Null, deleted |-> FALSE]
            v == Published("created", "pending", u)
<1>1. r \in Row /\ r # Null /\ v \in Event /\ v.version = 1
  <2>1. r \in Row
    BY DEF Row, Statuses
  <2>2. v \in Event /\ v.version = 1
    BY VersionType DEF Published, Event
  <2>. QED  BY <2>1, <2>2, ExpensesAssumption
<1>2. Audited("create", u, Null, "pending") \in Entry
  BY DEF Audited, Entry, Statuses
<1>. HIDE DEF r, v
<1>3. row' = [row EXCEPT ![e] = r] /\ outbox' = [outbox EXCEPT ![e] = Append(@, v)]
  BY DEF Create, r, v
<1>4. TypeOK'
  <2>1. row' \in [Expenses -> Row \cup {Null}]
    BY <1>1, <1>3 DEF TypeOK
  <2>2. outbox' \in [Expenses -> Seq(Event)]
    BY <1>1, <1>3 DEF TypeOK
  <2>3. audit' \in [Expenses -> Seq(Entry)]
    BY <1>2 DEF TypeOK, Create
  <2>. QED  BY <2>1, <2>2, <2>3 DEF TypeOK, Create
<1>5. CallsSound' /\ HeldArePending'
  <2>1. CallsSound'
    BY <1>3 DEF TypeOK, Create, CallsSound, Call
  <2>2. HeldArePending'
    BY <1>3 DEF TypeOK, Create, HeldArePending, Alive, Scan
  <2>. QED  BY <2>1, <2>2
<1>6. outbox'[e] = <<v>> /\ row'[e].status = "pending" /\ row'[e].requestedBy = u
  <2>1. outbox[e] = <<>> /\ outbox'[e] = Append(outbox[e], v)
    BY <1>3 DEF TypeOK, Create, VersionsReached
  <2>2. row'[e] = r
    BY <1>3 DEF TypeOK
  <2>. QED  BY <2>1, <2>2 DEF r
<1>7. VersionsReached' /\ VersionsNeverFall'
  <2>1. Len(outbox'[e]) = 1 /\ outbox'[e][1] = v
    BY <1>6
  <2>2. row'[e] # Null
    BY <1>1, <1>3 DEF TypeOK
  <2>3. \A x \in Expenses : x # e => row'[x] = row[x] /\ outbox'[x] = outbox[x]
    BY <1>3 DEF TypeOK
  <2>4. VersionsReached'
    BY <1>1, <1>6, <2>1, <2>2, <2>3, VersionType DEF VersionsReached
  <2>5. VersionsNeverFall'
    BY <2>1, <2>3 DEF VersionsNeverFall
  <2>. QED  BY <2>4, <2>5
<1>8. ApprovedByAnother'
  BY <1>3, <1>6 DEF TypeOK, Create, ApprovedByAnother
<1>. QED  BY <1>4, <1>5, <1>7, <1>8

(* The calendar.                                                           *)
LEMMA AgeKeeps ==
  ASSUME ExpensesInv, NEW e \in Expenses, Age(e)
  PROVE  ExpensesInv'
<1>. USE DEF ExpensesInv
<1>. DEFINE r == [row[e] EXCEPT !.old = TRUE]
<1>1. /\ r \in Row /\ r # Null /\ row[e] # Null /\ row' = [row EXCEPT ![e] = r]
      /\ r.status = row[e].status /\ r.requestedBy = row[e].requestedBy
      /\ r.approvedBy = row[e].approvedBy /\ r.deleted = row[e].deleted
  <2>1. row[e] \in Row /\ row[e] # Null
    BY DEF TypeOK, Age, Alive
  <2>2. row' = [row EXCEPT ![e] = r]
    BY DEF Age
  <2>3. /\ r \in Row
        /\ r.status = row[e].status /\ r.requestedBy = row[e].requestedBy
        /\ r.approvedBy = row[e].approvedBy /\ r.deleted = row[e].deleted
    BY <2>1 DEF Row
  <2>. QED  BY <2>1, <2>2, <2>3, ExpensesAssumption
<1>. HIDE DEF r
<1>2. TypeOK'
  BY <1>1 DEF TypeOK, Age
<1>3. CallsSound'
  BY <1>1, CallsStaySound DEF TypeOK, Age
<1>4. HeldArePending'
  <2>1. scan' = scan /\ row \in [Expenses -> Row \cup {Null}]
    BY DEF TypeOK, Age
  <2>2. \A x \in Expenses : row[x] # Null => /\ row'[x] # Null
                                            /\ row'[x].status = row[x].status
                                            /\ row'[x].deleted = row[x].deleted
    BY <1>1, <2>1
  <2>3. \A w \in Workers : scan[w] # Null => scan[w].held \subseteq Expenses
    BY DEF TypeOK, Scan
  <2>. QED  BY <2>1, <2>2, <2>3 DEF HeldArePending, Alive
<1>5. VersionsReached' /\ VersionsNeverFall'
  <2>1. UNCHANGED outbox
    BY DEF Age
  <2>2. \A x \in Expenses : row[x] # Null => row'[x] # Null /\ row'[x].status = row[x].status
    BY <1>1 DEF TypeOK
  <2>. QED  BY <1>1, <2>1, <2>2 DEF TypeOK, VersionsReached, VersionsNeverFall
<1>6. ApprovedByAnother'
  BY <1>1 DEF TypeOK, Age, ApprovedByAnother
<1>. QED  BY <1>2, <1>3, <1>4, <1>5, <1>6

(* The policy: whom a request comes from and what it has read.             *)
LEMMA LoadKeeps ==
  ASSUME ExpensesInv, NEW c \in Clients, NEW op \in Operations, NEW e \in Expenses,
         NEW u \in People, NEW patch \in Terms, Load(c, op, e, u, patch)
  PROVE  ExpensesInv'
<1>. USE DEF ExpensesInv
<1>. DEFINE k == [op |-> op, expense |-> e, viewer |-> u, from |-> row[e].status,
                  read |-> row[e].terms, patch |-> IF op = "edit" THEN patch ELSE Null]
<1>1. row[e] # Null /\ row[e] \in Row /\ u \in members
  BY DEF TypeOK, Load, Alive, MayEnter
<1>2. /\ k \in Call /\ k.op = op /\ k.expense = e /\ k.viewer = u /\ k.from = row[e].status
      /\ k.op = "edit" => k.patch \in Terms
  BY <1>1 DEF Call, Row
<1>. HIDE DEF k
<1>3. call' = [call EXCEPT ![c] = k]
  BY DEF Load, k
<1>4. TypeOK'
  BY <1>2, <1>3 DEF TypeOK, Load
<1>5. PICK x \in Counterparts(row[e].requestedBy) : Can(op, row[e], u, x)
  BY DEF Load
<1>6. x # row[e].requestedBy
  BY <1>1, ExpensesAssumption DEF Counterparts, Row
<1>7. row[e].status = IF op = "pay" THEN "approved" ELSE "pending"
  BY <1>5 DEF Can, Operations
<1>8. op = "approve" => u # row[e].requestedBy
  BY <1>5, <1>6 DEF Can
<1>9. CallsSound'
  BY <1>1, <1>2, <1>3, <1>7, <1>8 DEF TypeOK, Load, CallsSound
<1>10. HeldArePending' /\ VersionsReached' /\ VersionsNeverFall' /\ ApprovedByAnother'
  BY DEF Load, HeldArePending, VersionsReached, VersionsNeverFall, ApprovedByAnother, Alive
<1>. QED  BY <1>4, <1>9, <1>10

(* The guarded UPDATE: the row is as the request has read it, and no scan  *)
(* holds it.                                                               *)
LEMMA WritableFacts ==
  ASSUME ExpensesInv, NEW c \in Clients, Writable(c)
  PROVE  /\ call[c] \in Call /\ call[c].expense \in Expenses
         /\ row[call[c].expense] \in Row /\ row[call[c].expense] # Null
         /\ ~row[call[c].expense].deleted
         /\ row[call[c].expense].status = call[c].from
         /\ call[c].from = IF call[c].op = "pay" THEN "approved" ELSE "pending"
         /\ \A w \in Workers : scan[w] # Null => call[c].expense \notin scan[w].held
<1>1. call[c] \in Call /\ call[c].expense \in Expenses
  BY DEF ExpensesInv, TypeOK, Writable, Call
<1>. QED
  BY <1>1 DEF ExpensesInv, TypeOK, CallsSound, Writable, Matches, Alive, Locked

(* approve(), reject(), pay(): one event, with the ordinal of the new status.*)
LEMMA TransitionKeeps ==
  ASSUME ExpensesInv, NEW c \in Clients, Transition(c)
  PROVE  ExpensesInv'
<1>. USE DEF ExpensesInv
<1>. DEFINE k == call[c]
            e == k.expense
            to == NextStatus[k.op]
            r == [row[e] EXCEPT !.status = to,
                    !.approvedBy = IF k.op = "approve" THEN k.viewer ELSE @]
            v == Published(StatusEvent[to], to, k.viewer)
<1>1. /\ k \in Call /\ e \in Expenses /\ row[e] \in Row /\ row[e] # Null
      /\ row[e].status = k.from
      /\ k.from = IF k.op = "pay" THEN "approved" ELSE "pending"
      /\ \A w \in Workers : scan[w] # Null => e \notin scan[w].held
      /\ k.op \in {"approve", "reject", "pay"} /\ k # Null
  BY WritableFacts DEF Transition, Writable
<1>2. /\ k.viewer \in People
      /\ k.op = "approve" => k.viewer \in members /\ k.viewer # row[e].requestedBy
  BY <1>1 DEF Call, CallsSound
<1>3. /\ row' = [row EXCEPT ![e] = r] /\ outbox' = [outbox EXCEPT ![e] = Append(@, v)]
      /\ audit' = [audit EXCEPT ![e] = Append(@, Audited(k.op, k.viewer, k.from, to))]
      /\ call' = [call EXCEPT ![c] = Null]
      /\ UNCHANGED <<members, active, scan, failures>>
  BY <1>1 DEF Transition, TypeOK, Row
<1>4. to \in {"approved", "rejected", "paid"} /\ Version[k.from] <= Version[to]
      /\ (to \in {"approved", "paid"} <=> k.op \in {"approve", "pay"})
  BY <1>1, VersionType DEF NextStatus
<1>5. /\ r \in Row /\ r # Null /\ r.status = to /\ r.requestedBy = row[e].requestedBy
      /\ r.approvedBy = IF k.op = "approve" THEN k.viewer ELSE row[e].approvedBy
  <2>1. r \in Row
    BY <1>1, <1>2, <1>4 DEF Row, Statuses
  <2>2. /\ r.status = to /\ r.requestedBy = row[e].requestedBy
        /\ r.approvedBy = IF k.op = "approve" THEN k.viewer ELSE row[e].approvedBy
    BY <1>1 DEF Row
  <2>. QED  BY <2>1, <2>2, ExpensesAssumption
<1>6. v \in Event /\ v.version = Version[to]
  BY <1>2, <1>4, VersionType DEF Published, Event, StatusEvent, Statuses
<1>7. Audited(k.op, k.viewer, k.from, to) \in Entry
  BY <1>1, <1>2, <1>4 DEF Audited, Entry, Statuses, Row
<1>. HIDE DEF r, v, to, k, e
<1>8. TypeOK'
  <2>1. row' \in [Expenses -> Row \cup {Null}]
    BY <1>1, <1>3, <1>5 DEF TypeOK
  <2>2. outbox' \in [Expenses -> Seq(Event)]
    BY <1>1, <1>3, <1>6 DEF TypeOK
  <2>3. audit' \in [Expenses -> Seq(Entry)]
    BY <1>1, <1>3, <1>7 DEF TypeOK
  <2>4. call' \in [Clients -> Call \cup {Null}]
    BY <1>3 DEF TypeOK
  <2>. QED  BY <1>3, <2>1, <2>2, <2>3, <2>4 DEF TypeOK
<1>9. /\ row'[e] = r /\ outbox'[e] = Append(outbox[e], v)
      /\ \A x \in Expenses : x # e => row'[x] = row[x] /\ outbox'[x] = outbox[x]
      /\ outbox[e] \in Seq(Event)
  BY <1>1, <1>3 DEF TypeOK
<1>10. CallsSound'
  <2>1. \A d \in Clients : call'[d] \in {Null, call[d]}
    BY <1>3 DEF TypeOK
  <2>2. \A x \in Expenses : row[x] # Null =>
          row'[x] # Null /\ row'[x].requestedBy = row[x].requestedBy
    BY <1>5, <1>9
  <2>. QED  BY <1>3, <2>1, <2>2, CallsStaySound
<1>11. HeldArePending'
  BY <1>1, <1>3, <1>9 DEF TypeOK, HeldArePending, Alive, Scan
<1>12. VersionsReached' /\ VersionsNeverFall'
  <2>1. /\ \A i \in 1..Len(outbox[e]) : outbox[e][i].version <= Version[k.from]
        /\ \A i, j \in 1..Len(outbox[e]) :
             i < j => outbox[e][i].version <= outbox[e][j].version
    BY <1>1 DEF VersionsReached, VersionsNeverFall
  <2>2. Version[k.from] \in Nat
    BY <1>1, VersionType DEF Row
  <2>3. /\ \A i \in 1..Len(outbox'[e]) : outbox'[e][i].version <= v.version
        /\ \A i, j \in 1..Len(outbox'[e]) :
             i < j => outbox'[e][i].version <= outbox'[e][j].version
    BY <1>4, <1>6, <1>9, <2>1, <2>2, AppendRises
  <2>4. VersionsReached'
    BY <1>5, <1>6, <1>9, <2>3 DEF VersionsReached
  <2>5. VersionsNeverFall'
    BY <1>9, <2>3 DEF VersionsNeverFall
  <2>. QED  BY <2>4, <2>5
<1>13. ApprovedByAnother'
  <2>1. r.status \in {"approved", "paid"} => r.approvedBy \in members \ {r.requestedBy}
    BY <1>1, <1>2, <1>4, <1>5 DEF ApprovedByAnother
  <2>. QED  BY <1>3, <1>9, <2>1 DEF ApprovedByAnother
<1>. QED  BY <1>8, <1>10, <1>11, <1>12, <1>13

(* A write that keeps status and parties of an expense that no scan holds  *)
(* keeps what is said of statuses, versions and approvals.                 *)
LEMMA SameStatusKeeps ==
  ASSUME ExpensesInv, NEW e \in Expenses, row[e] # Null, NEW r \in Row,
         row' = [row EXCEPT ![e] = r],
         r.status = row[e].status, r.requestedBy = row[e].requestedBy,
         r.approvedBy = row[e].approvedBy,
         \A w \in Workers : scan[w] # Null => e \notin scan[w].held,
         \A d \in Clients : call'[d] \in {Null, call[d]},
         UNCHANGED <<members, active, outbox, scan, failures>>,
         audit' \in [Expenses -> Seq(Entry)],
         call' \in [Clients -> Call \cup {Null}]
  PROVE  ExpensesInv'
<1>. USE DEF ExpensesInv
<1>1. r # Null
  BY ExpensesAssumption
<1>2. TypeOK'
  BY DEF TypeOK
<1>3. row'[e] = r /\ \A x \in Expenses : x # e => row'[x] = row[x]
  BY DEF TypeOK
<1>4. CallsSound'
  BY <1>1, <1>3, CallsStaySound
<1>5. HeldArePending'
  BY <1>3 DEF TypeOK, HeldArePending, Alive, Scan
<1>6. VersionsReached' /\ VersionsNeverFall'
  BY <1>1, <1>3 DEF VersionsReached, VersionsNeverFall
<1>7. ApprovedByAnother'
  BY <1>1, <1>3 DEF ApprovedByAnother
<1>. QED  BY <1>2, <1>4, <1>5, <1>6, <1>7

LEMMA EditKeeps ==
  ASSUME ExpensesInv, NEW c \in Clients, Edit(c)
  PROVE  ExpensesInv'
<1>. USE DEF ExpensesInv
<1>. DEFINE k == call[c]
            e == k.expense
<1>1. /\ k \in Call /\ e \in Expenses /\ row[e] \in Row /\ row[e] # Null
      /\ \A w \in Workers : scan[w] # Null => e \notin scan[w].held
      /\ k.op = "edit"
  BY WritableFacts DEF Edit, Writable
<1>2. k.viewer \in People /\ k.read \in Terms /\ k.patch \in Terms
  BY <1>1 DEF Call, CallsSound, Edit, Writable
<1>3. PICK old \in BOOLEAN : row' = [row EXCEPT ![e].terms = k.patch, ![e].old = old]
  BY DEF Edit
<1>. DEFINE r == [row[e] EXCEPT !.terms = k.patch, !.old = old]
<1>4. /\ r \in Row /\ row' = [row EXCEPT ![e] = r]
      /\ r.status = row[e].status /\ r.requestedBy = row[e].requestedBy
      /\ r.approvedBy = row[e].approvedBy
  BY <1>1, <1>2, <1>3 DEF Row, TypeOK
<1>5. audit' \in [Expenses -> Seq(Entry)]
  <2>1. Audited("update", k.viewer, k.read, k.patch) \in Entry
    BY <1>2 DEF Audited, Entry
  <2>. QED  BY <1>1, <2>1 DEF TypeOK, Edit
<1>6. /\ call' \in [Clients -> Call \cup {Null}]
      /\ \A d \in Clients : call'[d] \in {Null, call[d]}
      /\ UNCHANGED <<members, active, outbox, scan, failures>>
  BY DEF TypeOK, Edit
<1>. HIDE DEF r, e, k
<1>. QED  BY <1>1, <1>4, <1>5, <1>6, SameStatusKeeps

LEMMA CancelKeeps ==
  ASSUME ExpensesInv, NEW c \in Clients, Cancel(c)
  PROVE  ExpensesInv'
<1>. USE DEF ExpensesInv
<1>. DEFINE k == call[c]
            e == k.expense
            r == [row[e] EXCEPT !.deleted = TRUE]
<1>1. /\ k \in Call /\ e \in Expenses /\ row[e] \in Row /\ row[e] # Null
      /\ \A w \in Workers : scan[w] # Null => e \notin scan[w].held
  BY WritableFacts DEF Cancel
<1>2. /\ r \in Row /\ row' = [row EXCEPT ![e] = r]
      /\ r.status = row[e].status /\ r.requestedBy = row[e].requestedBy
      /\ r.approvedBy = row[e].approvedBy
  BY <1>1 DEF Row, TypeOK, Cancel
<1>3. audit' \in [Expenses -> Seq(Entry)]
  <2>1. Audited("delete", k.viewer, k.from, Null) \in Entry
    BY <1>1 DEF Audited, Entry, Call
  <2>. QED  BY <1>1, <2>1 DEF TypeOK, Cancel
<1>4. /\ call' \in [Clients -> Call \cup {Null}]
      /\ \A d \in Clients : call'[d] \in {Null, call[d]}
      /\ UNCHANGED <<members, active, outbox, scan, failures>>
  BY DEF TypeOK, Cancel
<1>. HIDE DEF r, e, k
<1>. QED  BY <1>1, <1>2, <1>3, <1>4, SameStatusKeeps

(* 409: nothing is written.                                                *)
LEMMA ConflictKeeps ==
  ASSUME ExpensesInv, NEW c \in Clients, Conflict(c)
  PROVE  ExpensesInv'
<1>. USE DEF ExpensesInv
<1>1. TypeOK'
  BY DEF TypeOK, Conflict
<1>2. CallsSound'
  BY CallsStaySound DEF TypeOK, Conflict
<1>3. HeldArePending' /\ VersionsReached' /\ VersionsNeverFall' /\ ApprovedByAnother'
  BY DEF Conflict, HeldArePending, VersionsReached, VersionsNeverFall, ApprovedByAnother, Alive
<1>. QED  BY <1>1, <1>2, <1>3

-----------------------------------------------------------------------------
(* Reminder scans.                                                         *)

(* What a step that only moves a scan on leaves as it was.                 *)
LEMMA ScanMoves ==
  ASSUME ExpensesInv, scan' \in [Workers -> Scan \cup {Null}], failures' \in 0..MaxFailures,
         UNCHANGED <<members, active, row, outbox, audit, call>>,
         HeldArePending'
  PROVE  ExpensesInv'
<1>. USE DEF ExpensesInv
<1>1. TypeOK'
  BY DEF TypeOK
<1>2. CallsSound' /\ VersionsReached' /\ VersionsNeverFall' /\ ApprovedByAnother'
  BY DEF CallsSound, VersionsReached, VersionsNeverFall, ApprovedByAnother
<1>. QED  BY <1>1, <1>2

LEMMA StartScanKeeps ==
  ASSUME ExpensesInv, NEW w \in Workers, StartScan(w)
  PROVE  ExpensesInv'
<1>. USE DEF ExpensesInv
<1>. DEFINE s == [found |-> { e \in Expenses : IsDue(e) }, held |-> {}]
<1>1. s \in Scan /\ s.held = {}
  BY DEF Scan
<1>. HIDE DEF s
<1>2. scan' = [scan EXCEPT ![w] = s] /\ UNCHANGED <<members, active, row, outbox, audit, call, failures>>
  BY DEF StartScan, s
<1>3. scan' \in [Workers -> Scan \cup {Null}] /\ failures' \in 0..MaxFailures
  BY <1>1, <1>2 DEF TypeOK
<1>4. HeldArePending'
  BY <1>1, <1>2 DEF TypeOK, HeldArePending, Alive
<1>. QED  BY <1>2, <1>3, <1>4, ScanMoves

(* A scan is its two sets.                                                 *)
LEMMA ScanFields ==
  ASSUME NEW s \in Scan, NEW f \in SUBSET Expenses, NEW h \in SUBSET Expenses
  PROVE  /\ [s EXCEPT !.found = f] = [found |-> f, held |-> s.held]
         /\ [s EXCEPT !.found = f, !.held = h] = [found |-> f, held |-> h]
<1>1. \A x \in Scan : x = [found |-> x.found, held |-> x.held]
  BY DEF Scan
<1>. DEFINE a == [s EXCEPT !.found = f]
            b == [s EXCEPT !.found = f, !.held = h]
<1>2. a \in Scan /\ a.found = f /\ a.held = s.held
  BY DEF Scan
<1>3. b \in Scan /\ b.found = f /\ b.held = h
  BY DEF Scan
<1>. HIDE DEF a, b
<1>4. a = [found |-> f, held |-> s.held] /\ b = [found |-> f, held |-> h]
  BY <1>1, <1>2, <1>3
<1>. QED  BY <1>4 DEF a, b

(* A row is locked only as it is now, whatever the snapshot said.          *)
LEMMA LockKeeps ==
  ASSUME ExpensesInv, NEW w \in Workers, NEW e \in Expenses,
         Lock(w, e) \/ SkipLocked(w, e)
  PROVE  ExpensesInv'
<1>. USE DEF ExpensesInv
<1>1. /\ scan[w] \in Scan /\ scan[w] # Null
      /\ UNCHANGED <<members, active, row, outbox, audit, call, failures>>
  BY DEF TypeOK, Lock, SkipLocked
<1>2. PICK h \in SUBSET Expenses :
        /\ scan' = [scan EXCEPT ![w] = [found |-> scan[w].found \ {e}, held |-> h]]
        /\ h = scan[w].held \/ (h = scan[w].held \cup {e} /\ IsStale(e))
  <2>1. CASE scan' = [scan EXCEPT ![w].found = @ \ {e}]
    <3>1. scan' = [scan EXCEPT ![w] = [found |-> scan[w].found \ {e}, held |-> scan[w].held]]
      <4>1. [scan[w] EXCEPT !.found = @ \ {e}]
              = [found |-> scan[w].found \ {e}, held |-> scan[w].held]
        BY <1>1, ScanFields DEF Scan
      <4>. QED  BY <2>1, <4>1 DEF TypeOK
    <3>2. scan[w].held \in SUBSET Expenses
      BY <1>1 DEF Scan
    <3>. QED  BY <3>1, <3>2
  <2>2. CASE /\ scan' = [scan EXCEPT ![w].found = @ \ {e}, ![w].held = @ \cup {e}]
             /\ IsStale(e)
    <3>. DEFINE f == scan[w].found \ {e}
                h == scan[w].held \cup {e}
    <3>1. scan' = [scan EXCEPT ![w] = [found |-> scan[w].found \ {e},
                                       held |-> scan[w].held \cup {e}]]
      <4>1. [scan[w] EXCEPT !.found = @ \ {e}, !.held = @ \cup {e}] = [found |-> f, held |-> h]
        <5>1. f \in SUBSET Expenses /\ h \in SUBSET Expenses
          BY <1>1 DEF Scan
        <5>2. scan[w] \in Scan
          BY <1>1
        <5>3. [scan[w] EXCEPT !.found = @ \ {e}, !.held = @ \cup {e}]
                = [scan[w] EXCEPT !.found = f, !.held = h]
          BY Zenon
        <5>. HIDE DEF f, h
        <5>4. [scan[w] EXCEPT !.found = f, !.held = h] = [found |-> f, held |-> h]
          BY <5>1, <5>2, ScanFields
        <5>. QED  BY <5>3, <5>4
      <4>. QED  BY <2>2, <4>1 DEF TypeOK
    <3>2. scan[w].held \cup {e} \in SUBSET Expenses
      BY <1>1 DEF Scan
    <3>. QED  BY <2>2, <3>1, <3>2
  <2>. QED  BY <2>1, <2>2 DEF Lock, SkipLocked, Skip
<1>. DEFINE s == [found |-> scan[w].found \ {e}, held |-> h]
<1>3. s \in Scan /\ s.held = h
  BY <1>1, <1>2 DEF Scan
<1>4. \A x \in h : Alive(x) /\ row[x].status = "pending"
  BY <1>1, <1>2 DEF HeldArePending, IsStale
<1>. HIDE DEF s
<1>5. scan' \in [Workers -> Scan \cup {Null}] /\ failures' \in 0..MaxFailures
  BY <1>1, <1>2, <1>3 DEF TypeOK, s
<1>6. HeldArePending'
  BY <1>1, <1>2, <1>3, <1>4 DEF TypeOK, HeldArePending, Alive, s
<1>. QED  BY <1>1, <1>5, <1>6, ScanMoves

LEMMA ScanFailsKeeps ==
  ASSUME ExpensesInv, NEW w \in Workers, ScanFails(w)
  PROVE  ExpensesInv'
<1>. USE DEF ExpensesInv
<1>1. scan' \in [Workers -> Scan \cup {Null}] /\ failures' \in 0..MaxFailures
  BY ExpensesAssumption DEF TypeOK, ScanFails
<1>2. HeldArePending'
  BY DEF TypeOK, ScanFails, HeldArePending, Alive
<1>. QED  BY <1>1, <1>2, ScanMoves DEF ScanFails

(* The reminders of a scan are of pending expenses, so that no version     *)
(* falls.                                                                  *)
LEMMA EmitKeeps ==
  ASSUME ExpensesInv, NEW w \in Workers, Emit(w)
  PROVE  ExpensesInv'
<1>. USE DEF ExpensesInv
<1>. DEFINE v == Published("stale", "pending", Null)
<1>1. v \in Event /\ v.version = 1
  BY VersionType DEF Published, Event
<1>. HIDE DEF v
<1>2. /\ scan[w] # Null /\ scan' = [scan EXCEPT ![w] = Null]
      /\ outbox' = [e \in Expenses |-> IF e \in scan[w].held THEN Append(outbox[e], v)
                                       ELSE outbox[e]]
      /\ UNCHANGED <<members, active, row, audit, call, failures>>
  BY DEF Emit, v
<1>3. \A e \in Expenses :
        /\ outbox'[e] \in Seq(Event)
        /\ row[e] = Null => outbox'[e] = <<>>
        /\ row[e] # Null => \A i \in 1..Len(outbox'[e]) : outbox'[e][i].version <= Version[row[e].status]
        /\ \A i, j \in 1..Len(outbox'[e]) : i < j => outbox'[e][i].version <= outbox'[e][j].version
  <2>. SUFFICES ASSUME NEW e \in Expenses
       PROVE /\ outbox'[e] \in Seq(Event)
             /\ row[e] = Null => outbox'[e] = <<>>
             /\ row[e] # Null => \A i \in 1..Len(outbox'[e]) : outbox'[e][i].version <= Version[row[e].status]
             /\ \A i, j \in 1..Len(outbox'[e]) : i < j => outbox'[e][i].version <= outbox'[e][j].version
    OBVIOUS
  <2>1. CASE e \notin scan[w].held
    BY <1>2, <2>1 DEF TypeOK, VersionsReached, VersionsNeverFall
  <2>2. CASE e \in scan[w].held
    <3>1. row[e] # Null /\ row[e].status = "pending"
      BY <1>2, <2>2 DEF HeldArePending, Alive
    <3>2. /\ outbox[e] \in Seq(Event) /\ outbox'[e] = Append(outbox[e], v)
          /\ \A i \in 1..Len(outbox[e]) : outbox[e][i].version <= 1
          /\ \A i, j \in 1..Len(outbox[e]) : i < j => outbox[e][i].version <= outbox[e][j].version
      BY <1>2, <2>2, <3>1, VersionType DEF TypeOK, VersionsReached, VersionsNeverFall
    <3>3. /\ outbox'[e] \in Seq(Event)
          /\ \A i \in 1..Len(outbox'[e]) : outbox'[e][i].version <= v.version
          /\ \A i, j \in 1..Len(outbox'[e]) : i < j => outbox'[e][i].version <= outbox'[e][j].version
      BY <1>1, <3>2, AppendRises
    <3>. QED  BY <1>1, <3>1, <3>3, VersionType
  <2>. QED  BY <2>1, <2>2
<1>4. TypeOK'
  <2>1. outbox' \in [Expenses -> Seq(Event)]
    BY <1>2, <1>3
  <2>. QED  BY <1>2, <2>1 DEF TypeOK
<1>5. CallsSound' /\ ApprovedByAnother'
  BY <1>2 DEF CallsSound, ApprovedByAnother
<1>6. HeldArePending'
  BY <1>2 DEF TypeOK, HeldArePending, Alive
<1>7. VersionsReached' /\ VersionsNeverFall'
  BY <1>2, <1>3 DEF VersionsReached, VersionsNeverFall
<1>. QED  BY <1>4, <1>5, <1>6, <1>7

-----------------------------------------------------------------------------
LEMMA ExpensesStep == ExpensesInv /\ [Next]_vars => ExpensesInv'
<1>. SUFFICES ASSUME ExpensesInv, [Next]_vars PROVE ExpensesInv'
  OBVIOUS
<1>1. CASE UNCHANGED vars
  BY <1>1 DEF vars, ExpensesInv, TypeOK, CallsSound, HeldArePending, VersionsReached,
              VersionsNeverFall, ApprovedByAnother, Alive
<1>2. CASE Next
  <2>1. CASE \E u \in People : AddMember(u)
    BY <2>1, AddMemberKeeps
  <2>2. CASE SetActive(TRUE) \/ SetActive(FALSE)
    BY <2>2, SetActiveKeeps
  <2>3. CASE \E e \in Expenses, u \in People, t \in Terms, old \in BOOLEAN : Create(e, u, t, old)
    BY <2>3, CreateKeeps
  <2>4. CASE \E e \in Expenses : Age(e)
    BY <2>4, AgeKeeps
  <2>5. CASE \E c \in Clients, op \in Operations, e \in Expenses, u \in People, t \in Terms :
               Load(c, op, e, u, t)
    BY <2>5, LoadKeeps
  <2>6. CASE \E c \in Clients : Finish(c)
    BY <2>6, TransitionKeeps, EditKeeps, CancelKeeps, ConflictKeeps DEF Finish
  <2>7. CASE \E w \in Workers : StartScan(w) \/ ScanStep(w) \/ ScanFails(w)
    BY <2>7, StartScanKeeps, LockKeeps, EmitKeeps, ScanFailsKeeps DEF ScanStep
  <2>. QED  BY <1>2, <2>1, <2>2, <2>3, <2>4, <2>5, <2>6, <2>7 DEF Next
<1>. QED  BY <1>1, <1>2

(* transition(), update(), cancel(), emitStaleEvents(): the invariant that *)
(* the results below rest on.                                              *)
THEOREM ExpensesAlways == Spec => []ExpensesInv
BY ExpensesInit, ExpensesStep, PTL DEF Spec

(* expenseAggregateVersion: no reminder follows the decision on an expense,*)
(* however old the snapshot in which a scan has found it pending.          *)
THEOREM VersionsAlwaysRise == Spec => []VersionsNeverFall
<1>1. ExpensesInv => VersionsNeverFall
  BY DEF ExpensesInv
<1>. QED  BY <1>1, ExpensesAlways, PTL

(* selectCounterpartId, evaluate: an expense is never approved by its      *)
(* requester, whoever joins the bond between the decision and the write.   *)
THEOREM AlwaysApprovedByAnother == Spec => []ApprovedByAnother
<1>1. ExpensesInv => ApprovedByAnother
  BY DEF ExpensesInv
<1>. QED  BY <1>1, ExpensesAlways, PTL

-----------------------------------------------------------------------------
(* What the guarded UPDATE forbids.                                        *)

(* Only a write under the guard changes the terms, and nothing changes what*)
(* is cancelled.                                                           *)
LEMMA GuardedWrites ==
  ASSUME ExpensesInv, Next, NEW e \in Expenses, row[e] # Null
  PROVE  /\ row[e].status # "pending" => row'[e].terms = row[e].terms
         /\ row[e].deleted =>
              row'[e] = row[e] /\ outbox'[e] = outbox[e] /\ audit'[e] = audit[e]
<1>. USE DEF ExpensesInv
<1>. DEFINE Goal ==
       /\ row[e].status # "pending" => row'[e].terms = row[e].terms
       /\ row[e].deleted =>
            row'[e] = row[e] /\ outbox'[e] = outbox[e] /\ audit'[e] = audit[e]
<1>1. CASE UNCHANGED <<row, outbox, audit>>
  BY <1>1
<1>2. ASSUME NEW x \in Expenses, NEW u \in People, NEW t \in Terms, NEW old \in BOOLEAN,
             Create(x, u, t, old)
      PROVE  Goal
  BY <1>2 DEF TypeOK, Create
<1>3. ASSUME NEW x \in Expenses, Age(x) PROVE Goal
  BY <1>3 DEF TypeOK, Age, Alive, Row
<1>4. ASSUME NEW c \in Clients, Transition(c) \/ Edit(c) \/ Cancel(c) PROVE Goal
  <2>1. Writable(c)
    BY <1>4 DEF Transition, Edit, Cancel
  <2>2. CASE call[c].expense # e
    BY <1>4, <2>1, <2>2, WritableFacts DEF TypeOK, Transition, Edit, Cancel
  <2>3. CASE call[c].expense = e
    <3>1. ~row[e].deleted /\ row[e] \in Row
      BY <2>1, <2>3, WritableFacts
    <3>2. Edit(c) => row[e].status = "pending"
      BY <2>1, <2>3, WritableFacts DEF Edit
    <3>3. Transition(c) \/ Cancel(c) => row'[e].terms = row[e].terms
      BY <2>3, <3>1 DEF TypeOK, Transition, Cancel, Row
    <3>. QED  BY <1>4, <3>1, <3>2, <3>3
  <2>. QED  BY <2>2, <2>3
<1>5. ASSUME NEW w \in Workers, Emit(w) PROVE Goal
  <2>1. e \in scan[w].held => ~row[e].deleted
    BY <1>5 DEF Emit, HeldArePending, Alive
  <2>. QED  BY <1>5, <2>1 DEF Emit
<1>6. ASSUME NEW w \in Workers, NEW x \in Expenses, Lock(w, x) \/ SkipLocked(w, x)
      PROVE  UNCHANGED <<row, outbox, audit>>
  BY <1>6 DEF Lock, SkipLocked
<1>. QED
  BY <1>1, <1>2, <1>3, <1>4, <1>5, <1>6
  DEF Next, Finish, ScanStep, AddMember, SetActive, Load, Conflict, StartScan, ScanFails

(* update(): an edit that has read a pending expense does not change what  *)
(* was approved, rejected or paid since.                                   *)
THEOREM TermsStayFrozen == Spec => TermsAreFrozen
<1>1. ExpensesInv /\ [Next]_vars =>
        [\A e \in Expenses :
           row[e] # Null /\ row[e].status # "pending" => row'[e].terms = row[e].terms]_vars
  BY GuardedWrites
<1>. QED  BY <1>1, ExpensesAlways, PTL DEF Spec, TermsAreFrozen

(* cancel(): a cancelled expense is never written, published or audited    *)
(* again by a request or a scan that has read it before.                   *)
THEOREM CancelledStaysFinal == Spec => CancelledIsFinal
<1>1. ExpensesInv /\ [Next]_vars =>
        [\A e \in Expenses :
           row[e] # Null /\ row[e].deleted
             => row'[e] = row[e] /\ outbox'[e] = outbox[e] /\ audit'[e] = audit[e]]_vars
  BY GuardedWrites
<1>. QED  BY <1>1, ExpensesAlways, PTL DEF Spec, CancelledIsFinal

-----------------------------------------------------------------------------
(* One story in three tables.  StoriesAgree is about positions of sequences*)
(* that grow at their end, so each step appends to the listings that are   *)
(* there or leaves them alone.                                             *)

Types == {"created", "approved", "rejected", "paid", "stale"}

NotStale(out) == { i \in 1..Len(out) : out[i].type # "stale" }

Deciding(aud) == { i \in 1..Len(aud) : aud[i].action \notin {"update", "delete"} }

(* The events out take the path and the entries aud name their causes.     *)
Told(path, out, aud) ==
  \E p \in InOrder(NotStale(out), Len(path)), q \in InOrder(Deciding(aud), Len(path)) :
    \A k \in 1..Len(path) : /\ out[p[k]].type = path[k]
                            /\ out[p[k]].actor = aud[q[k]].user

(* Nothing is audited before an expense exists.                            *)
AuditBegins == \A e \in Expenses : row[e] = Null => audit[e] = <<>>

StoriesInv == AuditBegins /\ StoriesAgree

(* The property, expense by expense.                                       *)
LEMMA StoriesAreTold ==
  StoriesAgree <=>
    \A e \in Expenses : row[e] # Null => Told(Path[row[e].status], outbox[e], audit[e])
BY DEF StoriesAgree, Told, Changes, Decisions, NotStale, Deciding

(* A position behind the others becomes the last of the listing.           *)
LEMMA OrderGrows ==
  ASSUME NEW S \in SUBSET Nat, NEW n \in Nat, NEW p \in InOrder(S, n), NEW m \in Nat,
         \A i \in S : i < m
  PROVE  [k \in 1..(n + 1) |-> IF k \in 1..n THEN p[k] ELSE m] \in InOrder(S \cup {m}, n + 1)
<1>. DEFINE r == [k \in 1..(n + 1) |-> IF k \in 1..n THEN p[k] ELSE m]
            T == S \cup {m}
<1>1. /\ p \in [1..n -> S]
      /\ \A i \in S : \E k \in 1..n : p[k] = i
      /\ \A j, k \in 1..n : j < k => p[j] < p[k]
  BY DEF InOrder
<1>2. /\ \A k \in 1..n : r[k] = p[k] /\ k \in 1..(n + 1)
      /\ r[n + 1] = m /\ n + 1 \in 1..(n + 1)
      /\ \A k \in 1..(n + 1) : k \in 1..n \/ k = n + 1
  OBVIOUS
<1>3. r \in [1..(n + 1) -> T]
  BY <1>1
<1>. HIDE DEF r
<1>4. \A i \in T : \E k \in 1..(n + 1) : r[k] = i
  BY <1>1, <1>2
<1>5. ASSUME NEW j \in 1..(n + 1), NEW k \in 1..(n + 1), j < k PROVE r[j] < r[k]
  <2>1. j \in 1..n /\ r[j] = p[j] /\ p[j] \in S
    BY <1>1, <1>2, <1>5
  <2>2. CASE k = n + 1
    BY <1>2, <2>1, <2>2
  <2>3. CASE k \in 1..n
    BY <1>1, <1>2, <1>5, <2>1, <2>3
  <2>. QED  BY <1>2, <2>2, <2>3
<1>6. r \in InOrder(T, n + 1)
  BY <1>3, <1>4, <1>5 DEF InOrder
<1>. QED  BY <1>6 DEF r

(* What is appended to an outbox adds its own position, or none.           *)
LEMMA EventsGrow ==
  ASSUME NEW out \in Seq(Event), NEW v \in Event
  PROVE  /\ v.type = "stale" => NotStale(Append(out, v)) = NotStale(out)
         /\ v.type # "stale" => NotStale(Append(out, v)) = NotStale(out) \cup {Len(out) + 1}
         /\ \A i \in NotStale(out) : i \in 1..Len(out) /\ Append(out, v)[i] = out[i]
<1>. DEFINE w == Append(out, v)
<1>1. /\ Len(w) = Len(out) + 1 /\ Len(out) \in Nat /\ w[Len(out) + 1] = v
      /\ \A i \in 1..Len(out) : w[i] = out[i]
  OBVIOUS
<1>. HIDE DEF w
<1>2. /\ v.type = "stale" => NotStale(w) = NotStale(out)
      /\ v.type # "stale" => NotStale(w) = NotStale(out) \cup {Len(out) + 1}
  BY <1>1 DEF NotStale
<1>3. \A i \in NotStale(out) : i \in 1..Len(out) /\ w[i] = out[i]
  BY <1>1 DEF NotStale
<1>. QED  BY <1>2, <1>3 DEF w

(* The same of an audit.                                                   *)
LEMMA EntriesGrow ==
  ASSUME NEW aud \in Seq(Entry), NEW a \in Entry
  PROVE  /\ a.action \in {"update", "delete"} => Deciding(Append(aud, a)) = Deciding(aud)
         /\ a.action \notin {"update", "delete"} =>
              Deciding(Append(aud, a)) = Deciding(aud) \cup {Len(aud) + 1}
         /\ \A i \in Deciding(aud) : i \in 1..Len(aud) /\ Append(aud, a)[i] = aud[i]
<1>. DEFINE b == Append(aud, a)
<1>1. /\ Len(b) = Len(aud) + 1 /\ Len(aud) \in Nat /\ b[Len(aud) + 1] = a
      /\ \A i \in 1..Len(aud) : b[i] = aud[i]
  OBVIOUS
<1>. HIDE DEF b
<1>2. /\ a.action \in {"update", "delete"} => Deciding(b) = Deciding(aud)
      /\ a.action \notin {"update", "delete"} => Deciding(b) = Deciding(aud) \cup {Len(aud) + 1}
  BY <1>1 DEF Deciding
<1>3. \A i \in Deciding(aud) : i \in 1..Len(aud) /\ b[i] = aud[i]
  BY <1>1 DEF Deciding
<1>. QED  BY <1>2, <1>3 DEF b

(* A change of the status that is published and audited together goes on   *)
(* with the story.                                                         *)
LEMMA StoryGoesOn ==
  ASSUME NEW out \in Seq(Event), NEW v \in Event, NEW aud \in Seq(Entry), NEW a \in Entry,
         NEW path \in Seq(Types), Told(path, out, aud),
         v.type # "stale", a.action \notin {"update", "delete"}, v.actor = a.user
  PROVE  Told(Append(path, v.type), Append(out, v), Append(aud, a))
<1>. DEFINE n == Len(path)
            w == Append(out, v)
            b == Append(aud, a)
            longer == Append(path, v.type)
            x == Len(out) + 1
            y == Len(aud) + 1
<1>0. PICK p \in InOrder(NotStale(out), n), q \in InOrder(Deciding(aud), n) :
        \A k \in 1..n : out[p[k]].type = path[k] /\ out[p[k]].actor = aud[q[k]].user
  BY DEF Told
<1>. DEFINE pp == [k \in 1..(n + 1) |-> IF k \in 1..n THEN p[k] ELSE x]
            qq == [k \in 1..(n + 1) |-> IF k \in 1..n THEN q[k] ELSE y]
<1>1. /\ n \in Nat /\ Len(longer) = n + 1 /\ longer[n + 1] = v.type
      /\ \A k \in 1..n : longer[k] = path[k]
  BY DEF Event
<1>2. /\ NotStale(w) = NotStale(out) \cup {x} /\ Deciding(b) = Deciding(aud) \cup {y}
      /\ \A i \in NotStale(out) : i \in 1..Len(out) /\ w[i] = out[i]
      /\ \A i \in Deciding(aud) : i \in 1..Len(aud) /\ b[i] = aud[i]
  <2>1. NotStale(w) = NotStale(out) \cup {x}
    BY EventsGrow
  <2>2. Deciding(b) = Deciding(aud) \cup {y}
    BY EntriesGrow
  <2>3. \A i \in NotStale(out) : i \in 1..Len(out) /\ w[i] = out[i]
    BY EventsGrow
  <2>4. \A i \in Deciding(aud) : i \in 1..Len(aud) /\ b[i] = aud[i]
    BY EntriesGrow
  <2>. QED  BY <2>1, <2>2, <2>3, <2>4
<1>3. w[x] = v /\ b[y] = a /\ Len(out) \in Nat /\ Len(aud) \in Nat
  OBVIOUS
<1>. HIDE DEF n, w, b, longer
<1>4. pp \in InOrder(NotStale(w), n + 1) /\ qq \in InOrder(Deciding(b), n + 1)
  <2>1. NotStale(out) \in SUBSET Nat /\ \A i \in NotStale(out) : i < x
    BY <1>2, <1>3
  <2>2. Deciding(aud) \in SUBSET Nat /\ \A i \in Deciding(aud) : i < y
    BY <1>2, <1>3
  <2>3. x \in Nat /\ y \in Nat
    BY <1>3
  <2>. HIDE DEF x, y
  <2>4. pp \in InOrder(NotStale(out) \cup {x}, n + 1)
    BY <1>1, <2>1, <2>3, OrderGrows
  <2>5. qq \in InOrder(Deciding(aud) \cup {y}, n + 1)
    BY <1>1, <2>2, <2>3, OrderGrows
  <2>. QED  BY <1>2, <2>4, <2>5
<1>5. /\ \A k \in 1..n : pp[k] = p[k] /\ qq[k] = q[k]
      /\ pp[n + 1] = x /\ qq[n + 1] = y
      /\ \A k \in 1..(n + 1) : k \in 1..n \/ k = n + 1
  BY <1>1
<1>6. \A k \in 1..n : p[k] \in NotStale(out) /\ q[k] \in Deciding(aud)
  BY DEF InOrder
<1>. HIDE DEF pp, qq, x, y
<1>7. ASSUME NEW k \in 1..(n + 1)
      PROVE  w[pp[k]].type = longer[k] /\ w[pp[k]].actor = b[qq[k]].user
  <2>1. CASE k \in 1..n
    <3>1. w[pp[k]] = out[p[k]] /\ b[qq[k]] = aud[q[k]]
      BY <1>2, <1>5, <1>6, <2>1
    <3>. QED  BY <1>0, <1>1, <2>1, <3>1
  <2>2. CASE k = n + 1
    BY <1>1, <1>3, <1>5, <2>2
  <2>. QED  BY <1>5, <2>1, <2>2
<1>8. Told(longer, w, b)
  BY <1>1, <1>4, <1>7 DEF Told
<1>. QED  BY <1>8 DEF longer, w, b

(* A reminder, or the audit of an edit or a cancellation, leaves it alone. *)
LEMMA StoryStays ==
  ASSUME NEW out \in Seq(Event), NEW v \in Event, NEW aud \in Seq(Entry), NEW a \in Entry,
         NEW path, Told(path, out, aud)
  PROVE  /\ v.type = "stale" => Told(path, Append(out, v), aud)
         /\ a.action \in {"update", "delete"} => Told(path, out, Append(aud, a))
<1>. DEFINE n == Len(path)
            w == Append(out, v)
            b == Append(aud, a)
<1>0. PICK p \in InOrder(NotStale(out), n), q \in InOrder(Deciding(aud), n) :
        \A k \in 1..n : out[p[k]].type = path[k] /\ out[p[k]].actor = aud[q[k]].user
  BY DEF Told
<1>1. \A k \in 1..n : p[k] \in NotStale(out) /\ q[k] \in Deciding(aud)
  BY DEF InOrder
<1>2. ASSUME v.type = "stale" PROVE Told(path, w, aud)
  <2>1. NotStale(w) = NotStale(out)
    BY <1>2, EventsGrow
  <2>2. \A i \in NotStale(out) : w[i] = out[i]
    BY EventsGrow
  <2>. HIDE DEF w
  <2>3. \A k \in 1..n : w[p[k]] = out[p[k]]
    BY <1>1, <2>2
  <2>4. p \in InOrder(NotStale(w), n)
    BY <2>1
  <2>5. \A k \in 1..n : w[p[k]].type = path[k] /\ w[p[k]].actor = aud[q[k]].user
    BY <1>0, <2>3
  <2>. QED  BY <2>4, <2>5 DEF Told
<1>3. ASSUME a.action \in {"update", "delete"} PROVE Told(path, out, b)
  <2>1. Deciding(b) = Deciding(aud)
    BY <1>3, EntriesGrow
  <2>2. \A i \in Deciding(aud) : b[i] = aud[i]
    BY EntriesGrow
  <2>. HIDE DEF b
  <2>3. \A k \in 1..n : b[q[k]] = aud[q[k]]
    BY <1>1, <2>2
  <2>4. q \in InOrder(Deciding(b), n)
    BY <2>1
  <2>5. \A k \in 1..n : out[p[k]].type = path[k] /\ out[p[k]].actor = b[q[k]].user
    BY <1>0, <2>3
  <2>. QED  BY <2>4, <2>5 DEF Told
<1>. QED  BY <1>2, <1>3

(* The paths, one step longer with each change of the status.              *)
LEMMA Paths ==
  /\ \A s \in Statuses : Path[s] \in Seq(Types)
  /\ Path["pending"] = Append(<<>>, "created")
  /\ Path["approved"] = Append(Path["pending"], "approved")
  /\ Path["rejected"] = Append(Path["pending"], "rejected")
  /\ Path["paid"] = Append(Path["approved"], "paid")
<1>1. \A s \in Statuses : Path[s] \in Seq(Types)
  <2>1. <<"created">> \in Seq(Types) /\ <<"created", "approved">> \in Seq(Types)
    BY DEF Types
  <2>2. <<"created", "rejected">> \in Seq(Types) /\ <<"created", "approved", "paid">> \in Seq(Types)
    BY DEF Types
  <2>3. /\ Path["pending"] = <<"created">> /\ Path["approved"] = <<"created", "approved">>
        /\ Path["rejected"] = <<"created", "rejected">>
        /\ Path["paid"] = <<"created", "approved", "paid">>
    BY DEF Path
  <2>. QED  BY <2>1, <2>2, <2>3 DEF Statuses
<1>2. Path["pending"] = Append(<<>>, "created")
  BY DEF Path
<1>3. Path["approved"] = Append(Path["pending"], "approved")
  BY DEF Path
<1>4. Path["rejected"] = Append(Path["pending"], "rejected")
  BY DEF Path
<1>5. Path["paid"] = Append(Path["approved"], "paid")
  BY DEF Path
<1>. QED  BY <1>1, <1>2, <1>3, <1>4, <1>5

(* Before the first event there is nothing to tell.                        *)
LEMMA NothingToTell == Told(<<>>, <<>>, <<>>)
<1>1. NotStale(<<>>) = {} /\ Deciding(<<>>) = {} /\ Len(<<>>) = 0
  BY DEF NotStale, Deciding
<1>2. PICK p \in [1..0 -> {}] : TRUE
  <2>1. [k \in 1..0 |-> k] \in [1..0 -> {}]
    OBVIOUS
  <2>. QED  BY <2>1
<1>3. p \in InOrder({}, 0)
  BY <1>2 DEF InOrder
<1>. QED  BY <1>1, <1>3 DEF Told

(* No expense, no story.                                                   *)
LEMMA StoriesInit == Init => StoriesInv
BY DEF Init, StoriesInv, AuditBegins, StoriesAgree

(* create(): the first event and the first entry.                          *)
LEMMA CreateTells ==
  ASSUME ExpensesInv, StoriesInv, NEW e \in Expenses, NEW u \in People, NEW t \in Terms,
         NEW old \in BOOLEAN, Create(e, u, t, old)
  PROVE  StoriesInv'
<1>. DEFINE v == Published("created", "pending", u)
            a == Audited("create", u, Null, "pending")
<1>1. /\ v \in Event /\ v.type = "created" /\ v.actor = u
      /\ a \in Entry /\ a.action = "create" /\ a.user = u
  BY VersionType DEF Published, Event, Audited, Entry, Statuses
<1>2. outbox[e] = <<>> /\ audit[e] = <<>>
  BY DEF ExpensesInv, VersionsReached, StoriesInv, AuditBegins, Create
<1>. HIDE DEF v, a
<1>3. /\ outbox'[e] = Append(<<>>, v) /\ audit'[e] = Append(<<>>, a)
      /\ row'[e].status = "pending" /\ row'[e] # Null
      /\ \A x \in Expenses : x # e =>
           row'[x] = row[x] /\ outbox'[x] = outbox[x] /\ audit'[x] = audit[x]
  <2>1. /\ outbox'[e] = Append(<<>>, v) /\ audit'[e] = Append(<<>>, a)
        /\ \A x \in Expenses : x # e =>
             row'[x] = row[x] /\ outbox'[x] = outbox[x] /\ audit'[x] = audit[x]
    BY <1>2 DEF ExpensesInv, TypeOK, Create, v, a
  <2>2. row'[e] = [requestedBy |-> u, status |-> "pending", terms |-> t, old |-> old,
                   approvedBy |-> Null, deleted |-> FALSE]
    BY DEF ExpensesInv, TypeOK, Create
  <2>3. row'[e] \in Row /\ row'[e].status = "pending"
    BY <2>2 DEF Row, Statuses
  <2>. QED  BY <2>1, <2>3, ExpensesAssumption
<1>4. Told(Append(<<>>, "created"), Append(<<>>, v), Append(<<>>, a))
  <2>1. <<>> \in Seq(Event) /\ <<>> \in Seq(Entry) /\ <<>> \in Seq(Types)
    OBVIOUS
  <2>2. v.type # "stale" /\ a.action \notin {"update", "delete"} /\ v.actor = a.user
    BY <1>1
  <2>. QED  BY <1>1, <2>1, <2>2, NothingToTell, StoryGoesOn
<1>5. \A x \in Expenses : row'[x] # Null => Told(Path[row'[x].status], outbox'[x], audit'[x])
  BY <1>3, <1>4, Paths, StoriesAreTold DEF StoriesInv
<1>6. StoriesAgree'
  BY <1>5 DEF StoriesAgree, Told, Changes, Decisions, NotStale, Deciding
<1>7. AuditBegins'
  BY <1>3 DEF AuditBegins, StoriesInv
<1>. QED  BY <1>6, <1>7 DEF StoriesInv

(* approve(), reject(), pay(): event and entry name the same user.         *)
LEMMA TransitionTells ==
  ASSUME ExpensesInv, StoriesInv, NEW c \in Clients, Transition(c)
  PROVE  StoriesInv'
<1>1. PICK k \in Call, e \in Expenses : k = call[c] /\ e = k.expense
  BY WritableFacts DEF Transition
<1>. DEFINE to == NextStatus[k.op]
            v == Published(StatusEvent[to], to, k.viewer)
            a == Audited(k.op, k.viewer, k.from, to)
<1>2. /\ row[e] \in Row /\ row[e] # Null /\ row[e].status = k.from
      /\ k.from = IF k.op = "pay" THEN "approved" ELSE "pending"
      /\ k.op \in {"approve", "reject", "pay"} /\ k.viewer \in People
  BY <1>1, WritableFacts DEF Transition, Call
<1>3. /\ to \in {"approved", "rejected", "paid"} /\ to \in Statuses
      /\ Path[to] = Append(Path[k.from], to) /\ k.from \in Statuses
  <2>1. /\ NextStatus["approve"] = "approved" /\ NextStatus["reject"] = "rejected"
        /\ NextStatus["pay"] = "paid"
    BY DEF NextStatus
  <2>2. \/ k.from = "pending" /\ to = "approved"
        \/ k.from = "pending" /\ to = "rejected"
        \/ k.from = "approved" /\ to = "paid"
    BY <1>2, <2>1
  <2>3. k.from \in Statuses /\ to \in Statuses
    BY <2>2 DEF Statuses
  <2>. HIDE DEF to
  <2>. QED  BY <2>2, <2>3, Paths
<1>4. /\ v \in Event /\ v.type = to /\ v.actor = k.viewer
      /\ a \in Entry /\ a.action = k.op /\ a.user = k.viewer
  BY <1>2, <1>3, VersionType DEF Published, Event, StatusEvent, Audited, Entry, Statuses
<1>5. /\ row' = [row EXCEPT ![e].status = to,
                            ![e].approvedBy = IF k.op = "approve" THEN k.viewer ELSE @]
      /\ audit' = [audit EXCEPT ![e] = Append(@, a)]
      /\ outbox' = [outbox EXCEPT ![e] = Append(@, v)]
  BY <1>1 DEF Transition
<1>. HIDE DEF v, a, to
<1>6. /\ outbox'[e] = Append(outbox[e], v) /\ audit'[e] = Append(audit[e], a)
      /\ \A x \in Expenses : x # e =>
           row'[x] = row[x] /\ outbox'[x] = outbox[x] /\ audit'[x] = audit[x]
      /\ outbox[e] \in Seq(Event) /\ audit[e] \in Seq(Entry)
  BY <1>5 DEF ExpensesInv, TypeOK
<1>7. row'[e].status = to /\ row'[e] # Null
  <2>1. row'[e].status = to /\ row'[e] \in Row
    BY <1>2, <1>3, <1>5 DEF ExpensesInv, TypeOK, Row
  <2>. QED  BY <2>1, ExpensesAssumption
<1>8. Told(Append(Path[k.from], to), Append(outbox[e], v), Append(audit[e], a))
  <2>1. Told(Path[k.from], outbox[e], audit[e])
    BY <1>2, StoriesAreTold DEF StoriesInv
  <2>2. Path[k.from] \in Seq(Types)
    BY <1>3, Paths
  <2>3. v.type # "stale" /\ a.action \notin {"update", "delete"} /\ v.actor = a.user
    BY <1>2, <1>3, <1>4
  <2>4. Told(Append(Path[k.from], v.type), Append(outbox[e], v), Append(audit[e], a))
    BY <1>4, <1>6, <2>1, <2>2, <2>3, StoryGoesOn
  <2>. QED  BY <1>4, <2>4
<1>9. \A x \in Expenses : row'[x] # Null => Told(Path[row'[x].status], outbox'[x], audit'[x])
  BY <1>3, <1>6, <1>7, <1>8, StoriesAreTold DEF StoriesInv
<1>10. StoriesAgree'
  BY <1>9 DEF StoriesAgree, Told, Changes, Decisions, NotStale, Deciding
<1>11. AuditBegins'
  BY <1>6, <1>7 DEF AuditBegins, StoriesInv
<1>. QED  BY <1>10, <1>11 DEF StoriesInv

(* A row that keeps its status under an outbox and an audit that keep their*)
(* story.                                                                  *)
LEMMA SameStoryKept ==
  ASSUME StoriesInv,
         \A x \in Expenses : row[x] = Null => row'[x] = Null /\ audit'[x] = audit[x],
         \A x \in Expenses : row[x] # Null =>
           /\ row'[x] # Null /\ row'[x].status = row[x].status
           /\ Told(Path[row[x].status], outbox'[x], audit'[x])
  PROVE  StoriesInv'
<1>1. \A x \in Expenses : row'[x] # Null => Told(Path[row'[x].status], outbox'[x], audit'[x])
  OBVIOUS
<1>2. StoriesAgree'
  BY <1>1 DEF StoriesAgree, Told, Changes, Decisions, NotStale, Deciding
<1>3. AuditBegins'
  BY DEF AuditBegins, StoriesInv
<1>. QED  BY <1>2, <1>3 DEF StoriesInv

(* update() and cancel() audit what is no decision, and publish nothing.   *)
LEMMA EditTells ==
  ASSUME ExpensesInv, StoriesInv, NEW c \in Clients, Edit(c) \/ Cancel(c)
  PROVE  StoriesInv'
<1>1. PICK k \in Call, e \in Expenses : k = call[c] /\ e = k.expense
  BY WritableFacts DEF Edit, Cancel
<1>2. row[e] \in Row /\ row[e] # Null /\ k.viewer \in People /\ k.from \in Statuses
  BY <1>1, WritableFacts DEF Edit, Cancel, Call
<1>3. Edit(c) => k.read \in Terms /\ k.patch \in Terms
  <2>1. Edit(c) => k # Null /\ k.op = "edit"
    BY <1>1 DEF Edit, Writable
  <2>. QED  BY <1>1, <2>1 DEF ExpensesInv, CallsSound, Call
<1>4. PICK a \in Entry : a.action \in {"update", "delete"}
                       /\ audit' = [audit EXCEPT ![e] = Append(@, a)]
  <2>1. CASE Edit(c)
    <3>1. /\ Audited("update", k.viewer, k.read, k.patch) \in Entry
          /\ Audited("update", k.viewer, k.read, k.patch).action = "update"
      BY <1>2, <1>3, <2>1 DEF Audited, Entry
    <3>2. audit' = [audit EXCEPT ![e] = Append(@, Audited("update", k.viewer, k.read, k.patch))]
      BY <1>1, <2>1 DEF Edit
    <3>. QED  BY <3>1, <3>2
  <2>2. CASE Cancel(c)
    <3>1. /\ Audited("delete", k.viewer, k.from, Null) \in Entry
          /\ Audited("delete", k.viewer, k.from, Null).action = "delete"
      BY <1>2 DEF Audited, Entry
    <3>2. audit' = [audit EXCEPT ![e] = Append(@, Audited("delete", k.viewer, k.from, Null))]
      BY <1>1, <2>2 DEF Cancel
    <3>. QED  BY <3>1, <3>2
  <2>. QED  BY <2>1, <2>2
<1>5. /\ outbox' = outbox /\ audit'[e] = Append(audit[e], a)
      /\ audit[e] \in Seq(Entry) /\ outbox[e] \in Seq(Event)
      /\ \A x \in Expenses : x # e => row'[x] = row[x] /\ audit'[x] = audit[x]
  <2>1. outbox' = outbox
    BY DEF Edit, Cancel
  <2>2. audit'[e] = Append(audit[e], a) /\ \A x \in Expenses : x # e => audit'[x] = audit[x]
    BY <1>4 DEF ExpensesInv, TypeOK
  <2>3. audit[e] \in Seq(Entry) /\ outbox[e] \in Seq(Event)
    BY DEF ExpensesInv, TypeOK
  <2>4. \A x \in Expenses : x # e => row'[x] = row[x]
    BY <1>1 DEF ExpensesInv, TypeOK, Edit, Cancel
  <2>. QED  BY <2>1, <2>2, <2>3, <2>4
<1>6. row'[e] # Null /\ row'[e].status = row[e].status
  <2>1. CASE Edit(c)
    <3>1. PICK old \in BOOLEAN : row' = [row EXCEPT ![e].terms = k.patch, ![e].old = old]
      BY <1>1, <2>1 DEF Edit
    <3>2. row'[e] \in Row /\ row'[e].status = row[e].status
      BY <1>2, <1>3, <2>1, <3>1 DEF ExpensesInv, TypeOK, Row
    <3>. QED  BY <3>2, ExpensesAssumption
  <2>2. CASE Cancel(c)
    <3>1. row' = [row EXCEPT ![e].deleted = TRUE]
      BY <1>1, <2>2 DEF Cancel
    <3>2. row'[e] \in Row /\ row'[e].status = row[e].status
      BY <1>2, <3>1 DEF ExpensesInv, TypeOK, Row
    <3>. QED  BY <3>2, ExpensesAssumption
  <2>. QED  BY <2>1, <2>2
<1>7. Told(Path[row[e].status], outbox[e], audit[e])
  BY <1>2, StoriesAreTold DEF StoriesInv
<1>8. PICK v \in Event : TRUE
  <2>1. Published("stale", "pending", Null) \in Event
    BY VersionType DEF Published, Event
  <2>. QED  BY <2>1
<1>9. Told(Path[row[e].status], outbox[e], Append(audit[e], a))
  BY <1>4, <1>5, <1>7, StoryStays
<1>10. \A x \in Expenses : row[x] # Null =>
         /\ row'[x] # Null /\ row'[x].status = row[x].status
         /\ Told(Path[row[x].status], outbox'[x], audit'[x])
  BY <1>5, <1>6, <1>9, StoriesAreTold DEF StoriesInv
<1>. QED  BY <1>2, <1>5, <1>10, SameStoryKept

(* emitStaleEvents: reminders are no part of the story.                    *)
LEMMA EmitTells ==
  ASSUME ExpensesInv, StoriesInv, NEW w \in Workers, Emit(w)
  PROVE  StoriesInv'
<1>1. PICK v \in Event : /\ v.type = "stale"
                         /\ \A e \in Expenses :
                              outbox'[e] \in {outbox[e], Append(outbox[e], v)}
  <2>1. /\ Published("stale", "pending", Null) \in Event
        /\ Published("stale", "pending", Null).type = "stale"
    BY VersionType DEF Published, Event
  <2>2. \A e \in Expenses :
          outbox'[e] \in {outbox[e], Append(outbox[e], Published("stale", "pending", Null))}
    BY DEF Emit
  <2>. QED  BY <2>1, <2>2
<1>2. PICK a \in Entry : a.action \in {"update", "delete"}
  <2>1. PICK u \in People : TRUE
    BY ExpensesAssumption
  <2>2. /\ Audited("delete", u, Null, Null) \in Entry
        /\ Audited("delete", u, Null, Null).action = "delete"
    BY DEF Audited, Entry
  <2>. QED  BY <2>2
<1>3. ASSUME NEW x \in Expenses, row[x] # Null
      PROVE  Told(Path[row[x].status], outbox'[x], audit[x])
  <2>1. Told(Path[row[x].status], outbox[x], audit[x])
    BY <1>3, StoriesAreTold DEF StoriesInv
  <2>2. outbox[x] \in Seq(Event) /\ audit[x] \in Seq(Entry)
    BY DEF ExpensesInv, TypeOK
  <2>3. Told(Path[row[x].status], Append(outbox[x], v), audit[x])
    BY <1>1, <1>2, <2>1, <2>2, StoryStays
  <2>. QED  BY <1>1, <2>1, <2>3
<1>4. row' = row /\ audit' = audit
  BY DEF Emit
<1>. QED  BY <1>3, <1>4, SameStoryKept

(* The calendar changes no status.                                         *)
LEMMA AgeTells ==
  ASSUME ExpensesInv, StoriesInv, NEW e \in Expenses, Age(e)
  PROVE  StoriesInv'
<1>1. row[e] \in Row /\ row[e] # Null
  BY DEF ExpensesInv, TypeOK, Age, Alive
<1>2. row' = [row EXCEPT ![e].old = TRUE] /\ outbox' = outbox /\ audit' = audit
  BY DEF Age
<1>3. row'[e] \in Row /\ row'[e].status = row[e].status
  BY <1>1, <1>2 DEF ExpensesInv, TypeOK, Row
<1>4. \A x \in Expenses : x # e => row'[x] = row[x]
  BY <1>2 DEF ExpensesInv, TypeOK
<1>5. \A x \in Expenses : row[x] # Null =>
        /\ row'[x] # Null /\ row'[x].status = row[x].status
        /\ Told(Path[row[x].status], outbox'[x], audit'[x])
  BY <1>2, <1>3, <1>4, ExpensesAssumption, StoriesAreTold DEF StoriesInv
<1>6. \A x \in Expenses : row[x] = Null => row'[x] = Null /\ audit'[x] = audit[x]
  BY <1>1, <1>2, <1>4
<1>. QED  BY <1>5, <1>6, SameStoryKept

(* All the other steps leave row, outbox and audit as they are.            *)
LEMMA StoriesStep == ExpensesInv /\ StoriesInv /\ [Next]_vars => StoriesInv'
<1>. SUFFICES ASSUME ExpensesInv, StoriesInv, [Next]_vars PROVE StoriesInv'
  OBVIOUS
<1>1. CASE UNCHANGED <<row, outbox, audit>>
  BY <1>1, StoriesAreTold, SameStoryKept DEF StoriesInv
<1>2. CASE \E e \in Expenses, u \in People, t \in Terms, old \in BOOLEAN : Create(e, u, t, old)
  BY <1>2, CreateTells
<1>3. CASE \E e \in Expenses : Age(e)
  BY <1>3, AgeTells
<1>4. CASE \E c \in Clients : Finish(c)
  BY <1>1, <1>4, TransitionTells, EditTells DEF Finish, Conflict
<1>5. CASE \E w \in Workers : StartScan(w) \/ ScanStep(w) \/ ScanFails(w)
  <2>1. ASSUME NEW w \in Workers, StartScan(w) \/ ScanStep(w) \/ ScanFails(w)
        PROVE  Emit(w) \/ UNCHANGED <<row, outbox, audit>>
    BY <2>1 DEF StartScan, ScanStep, Lock, SkipLocked, ScanFails
  <2>. QED  BY <1>1, <1>5, <2>1, EmitTells
<1>6. CASE \/ \E u \in People : AddMember(u)
           \/ SetActive(TRUE) \/ SetActive(FALSE)
           \/ \E c \in Clients, op \in Operations, e \in Expenses, u \in People, t \in Terms :
                Load(c, op, e, u, t)
           \/ UNCHANGED vars
  BY <1>1, <1>6 DEF AddMember, SetActive, Load, vars
<1>. QED  BY <1>2, <1>3, <1>4, <1>5, <1>6 DEF Next

(* create(), transition(), update(), cancel(), emitStaleEvents: the events *)
(* of an expense are the path to its status, each caused by the user whom  *)
(* the audit names, whatever requests and scans raced for the row.         *)
THEOREM StoriesAlwaysAgree == Spec => []StoriesAgree
<1>1. Spec => [](ExpensesInv /\ StoriesInv)
  BY ExpensesInit, ExpensesStep, StoriesInit, StoriesStep, PTL DEF Spec
<1>2. StoriesInv => StoriesAgree
  BY DEF StoriesInv
<1>. QED  BY <1>1, <1>2, PTL

=============================================================================
