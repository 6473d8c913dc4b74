---------------------- MODULE ActivityLifecycleProofs ----------------------
(***************************************************************************)
(* Proofs about ActivityLifecycle, for any number of activities, members,  *)
(* connections and workers, any schedules, any faults and any bounds.      *)
(***************************************************************************)
EXTENDS ActivityLifecycle, TLAPS

-----------------------------------------------------------------------------
(* Typing.                                                                 *)

(* A transition turns a row into a row.                                    *)
LEMMA NextRowType ==
  ASSUME NEW r \in Row, NEW to \in Statuses, NEW t \in Nat,
         NEW m \in Members \cup {Null}, NEW d \in BOOLEAN
  PROVE  NextRow(r, to, t, m, d) \in Row
<1>. DEFINE e == <<r.status, to>>
            deadline == Effect(e, SetsDeadline, ClearsDeadline,
                               t + ResponseTimeout, Null, r.deadline)
            confirmed == Effect(e, SetsConfirmed, ClearsConfirmed, TRUE, FALSE, r.confirmedAt)
            declined == Effect(e, SetsDeclined, ClearsDeclined, TRUE, FALSE, r.declinedAt)
            verify == Effect(e, SetsVerify, ClearsVerify, TRUE, FALSE, r.verifyAt)
            deleted == r.deletedAt \/ d
            assignee == IF m = Null THEN r.assignedTo ELSE m
<1>1. deadline \in Time
  BY MapAssumption DEF Effect, Row, Time
<1>2. confirmed \in BOOLEAN /\ declined \in BOOLEAN /\ verify \in BOOLEAN
  BY DEF Effect, Row
<1>3. deleted \in BOOLEAN /\ assignee \in Members \cup {Null}
  BY DEF Row
<1>4. NextRow(r, to, t, m, d) =
        [status |-> to, version |-> r.version + 1, createdBy |-> r.createdBy,
         assignedTo |-> assignee, start |-> r.start, end |-> r.end,
         deadline |-> deadline, confirmedAt |-> confirmed,
         declinedAt |-> declined, verifyAt |-> verify, deletedAt |-> deleted]
  BY DEF NextRow
<1>. HIDE DEF deadline, confirmed, declined, verify, deleted, assignee
<1>5. /\ r.version + 1 \in Nat /\ r.createdBy \in Members
      /\ r.start \in Nat /\ r.end \in Time
  BY DEF Row
<1>. QED  BY <1>1, <1>2, <1>3, <1>4, <1>5 DEF Row

(* The jobs a row asks for are jobs.                                       *)
LEMMA EnqueuedType ==
  ASSUME NEW a \in Activities, NEW r \in Row
  PROVE  Enqueued(a, r) \subseteq Timer
<1>1. \A k : k \in EnqueueKinds(r.status) => k \in TimerKinds
  BY DEF EnqueueKinds, TimerKinds
<1>2. \A k \in TimerKinds : TimerTarget(k, r) # Null => TimerTarget(k, r) \in Nat
  BY DEF TimerTarget, EndAnchor, Row, Time
<1>. QED  BY <1>1, <1>2 DEF Enqueued, Timer, Row

(* Wiring keeps the queue a set of jobs.                                   *)
LEMMA WireTimersType ==
  ASSUME NEW a \in Activities, NEW r \in Row, NEW v \in Nat,
         timers \subseteq Timer, WireTimers(a, r, v)
  PROVE  timers' \subseteq Timer
BY EnqueuedType DEF WireTimers, Cancelled

(* The event of an edge is one the outbox can hold.                        *)
LEMMA EventOfType ==
  ASSUME NEW from \in Statuses, NEW to \in Statuses
  PROVE  EventOf(<<from, to>>) \in Statuses \cup {"created_overdue", "verify_expired"}
BY DEF EventOf

(* The requests the system makes are requests.                             *)
LEMMA SystemRequestType ==
  ASSUME NEW a \in Activities, NEW to \in Statuses
  PROVE  SystemRequest(a, to) \in Request
BY DEF SystemRequest, Request

(* The row an insert writes is a row.                                      *)
LEMMA InitialRowType ==
  ASSUME TypeOK, NEW u \in Members, NEW m \in Members \cup {Null}, NEW s \in Schedules
  PROVE  InitialRow(u, m, s) \in Row /\ InitialRow(u, m, s) # Null
<1>1. s.start \in Nat /\ s.end \in Time
  BY LifecycleAssumption DEF Time
<1>2. InitialStatus(m) \in Statuses
  BY DEF InitialStatus, Statuses
<1>3. now + ResponseTimeout \in Time
  BY MapAssumption DEF TypeOK, Time
<1>4. InitialRow(u, m, s) \in Row
  BY <1>1, <1>2, <1>3 DEF InitialRow, Row
<1>. QED  BY <1>4, LifecycleAssumption

LEMMA TypeOKInit == Init => TypeOK
BY DEF Init, TypeOK

(* Every step keeps every variable within its type.                        *)
LEMMA TypeOKNext == TypeOK /\ [Next]_vars => TypeOK'
<1>. SUFFICES ASSUME TypeOK, [Next]_vars
              PROVE  TypeOK'
  OBVIOUS
<1>. USE DEF TypeOK
<1>1. CASE Tick
  BY <1>1 DEF Tick
<1>2. ASSUME NEW a \in Activities, NEW u \in Members, NEW m \in Members \cup {Null},
             NEW s \in Schedules, Create(a, u, m, s)
      PROVE  TypeOK'
  <2>. DEFINE r == InitialRow(u, m, s)
  <2>1. r \in Row
    BY InitialRowType
  <2>2. row' \in [Activities -> Row \cup {Null}]
    BY <1>2, <2>1 DEF Create
  <2>3. outbox' \in [Activities -> Seq(OutboxEvent)]
    <3>. DEFINE e == [version |-> 1, from |-> "new", to |-> r.status,
                      event |-> r.status, actor |-> u]
    <3>1. e \in OutboxEvent
      BY <2>1 DEF OutboxEvent, Row
    <3>2. outbox' = [outbox EXCEPT ![a] = Append(@, e)]
      BY <1>2 DEF Create
    <3>. HIDE DEF e, r
    <3>. QED  BY <3>1, <3>2
  <2>4. timers' \subseteq Timer
    <3>1. WireTimers(a, r, 0)
      BY <1>2 DEF Create
    <3>. HIDE DEF r
    <3>. QED  BY <2>1, <3>1, WireTimersType
  <2>. QED  BY <1>2, <2>2, <2>3, <2>4 DEF Create
<1>3. ASSUME NEW c \in Clients, NEW a \in Activities, NEW u \in Members, Route(c, a, u)
      PROVE  TypeOK'
  <2>1. ASSUME NEW to \in Statuses, NEW m \in Members \cup {Null}, NEW d \in BOOLEAN,
               Accept(c, a, u, to, m, d)
        PROVE  TypeOK'
    <3>1. [act |-> a, to |-> to, actor |-> u, assignee |-> m, deletes |-> d] \in Request
      BY DEF Request
    <3>. QED  BY <2>1, <3>1 DEF Accept, Processes
  <2>2. {"done", "assisting", "cancelled", "not_assisting", "assigned"} \subseteq Statuses
    BY DEF Statuses
  <2>. QED
    BY <1>3, <2>1, <2>2
    DEF Route, Complete, ConfirmAssignment, Delete, Cancel, DeclineAssignment, Assign
<1>4. ASSUME NEW w \in Workers, NEW t \in timers, FireTimer(w, t)
      PROVE  TypeOK'
  <2>1. t \in Timer /\ t.act \in Activities
    BY DEF Timer
  <2>2. TargetStatus(t.kind) \in Statuses
    BY DEF TargetStatus, Statuses
  <2>3. SystemRequest(t.act, TargetStatus(t.kind)) \in Request
    BY <2>1, <2>2, SystemRequestType
  <2>. QED  BY <1>4, <2>1, <2>3 DEF FireTimer, Processes
<1>5. ASSUME NEW w \in Workers, NEW t \in timers, DiscardTimer(w, t)
      PROVE  TypeOK'
  BY <1>5 DEF DiscardTimer
<1>6. ASSUME NEW w \in Workers, Sweep(w)
      PROVE  TypeOK'
  <2>1. \A a \in Activities : SystemRequest(a, DueTarget(row[a])) \in Request
    BY SystemRequestType DEF DueTarget, Statuses
  <2>2. Due \subseteq Activities
    BY DEF Due
  <2>. QED  BY <1>6, <2>1, <2>2 DEF Sweep, Processes
<1>7. ASSUME NEW w \in Workers, FinishTimer(w)
      PROVE  TypeOK'
  BY <1>7 DEF FinishTimer
<1>8. ASSUME NEW p \in Processes, NEW q \in pending[p], Load(p, q)
      PROVE  TypeOK'
  <2>1. q \in Request /\ q.act \in Activities
    BY DEF Request
  <2>2. row[q.act] \in Row
    BY <1>8, <2>1 DEF Load, Permitted, Alive
  <2>3. [req |-> q, from |-> row[q.act].status, version |-> row[q.act].version,
         at |-> now] \in Snapshot
    BY <2>1, <2>2 DEF Snapshot, Row
  <2>. QED  BY <1>8, <2>3 DEF Load
<1>9. ASSUME NEW p \in Processes, NEW q \in pending[p], Drop(p, q)
      PROVE  TypeOK'
  BY <1>9 DEF Drop
<1>10. ASSUME NEW p \in Processes, Commit(p)
       PROVE  TypeOK'
  <2>. DEFINE s == held[p]
              q == s.req
              r == NextRow(row[q.act], q.to, s.at, q.assignee, q.deletes)
              e == [version |-> r.version, from |-> s.from, to |-> q.to,
                    event |-> EventOf(<<s.from, q.to>>), actor |-> q.actor]
  <2>1. s \in Snapshot
    BY <1>10 DEF Commit
  <2>2. q \in Request /\ q.act \in Activities
    BY <2>1 DEF Snapshot, Request
  <2>3. row[q.act] \in Row
    BY <1>10, <2>2 DEF Commit, Matches, Alive
  <2>4. r \in Row
    BY <2>1, <2>2, <2>3, NextRowType DEF Snapshot, Request
  <2>5. e \in OutboxEvent
    <3>1. r.version \in Nat
      BY <2>4 DEF Row
    <3>2. EventOf(<<s.from, q.to>>) \in Statuses \cup {"created_overdue", "verify_expired"}
      BY <2>1, <2>2, EventOfType DEF Snapshot, Request
    <3>. HIDE DEF r
    <3>. QED  BY <3>1, <3>2, <2>1, <2>2 DEF OutboxEvent, Snapshot, Request
  <2>6. /\ row' = [row EXCEPT ![q.act] = r]
        /\ outbox' = [outbox EXCEPT ![q.act] = Append(@, e)]
        /\ WireTimers(q.act, r, s.version)
        /\ held' = [held EXCEPT ![p] = Null]
        /\ UNCHANGED <<now, pending, job>>
    BY <1>10 DEF Commit
  <2>7. s.version \in Nat
    BY <2>1 DEF Snapshot
  <2>. HIDE DEF s, q, r, e
  <2>8. timers' \subseteq Timer
    BY <2>2, <2>4, <2>6, <2>7, WireTimersType
  <2>. QED  BY <2>2, <2>4, <2>5, <2>6, <2>8
<1>11. ASSUME NEW p \in Processes, Conflict(p)
       PROVE  TypeOK'
  BY <1>11 DEF Conflict
<1>12. ASSUME NEW p \in Processes, Crash(p)
       PROVE  TypeOK'
  BY <1>12 DEF Crash
<1>13. ASSUME NEW t \in timers, LoseTimer(t)
       PROVE  TypeOK'
  BY <1>13 DEF LoseTimer
<1>14. CASE UNCHANGED vars
  BY <1>14 DEF vars
<1>. QED
  BY <1>1, <1>2, <1>3, <1>4, <1>5, <1>6, <1>7, <1>8, <1>9, <1>10, <1>11, <1>12,
     <1>13, <1>14
  DEF Next, Execute

(* The columns, events, jobs, requests and snapshots always have the shape *)
(* the tables and the queue give them, whatever interleaves or fails.      *)
THEOREM TypeCorrect == Spec => []TypeOK
BY TypeOKInit, TypeOKNext, PTL DEF Spec

-----------------------------------------------------------------------------
(* The inductive invariant.  None of the checked invariants is inductive   *)
(* by itself: a commit is right because the snapshot it compares is right, *)
(* and a snapshot is right because the row and the request it came from    *)
(* are.                                                                    *)

WellFormed(q) ==
  /\ (q.assignee # Null) <=> (q.to = "assigned")
  /\ q.deletes => q.to = "cancelled"

RequestsWellFormed ==
  \A p \in Processes :
    /\ \A q \in pending[p] : WellFormed(q)
    /\ held[p] # Null => WellFormed(held[p].req)

Consistent ==
  /\ TypeOK
  /\ RequestsWellFormed
  /\ HistoryMatchesRow
  /\ ColumnsMatchStatus
  /\ OriginMatchesHistory
  /\ SnapshotsHold

(* What a permitted request may do to a row is an edge of the table, and   *)
(* a late refusal only ever hands back an activity that awaited an answer. *)
LEMMA PermittedEdge ==
  ASSUME NEW q, Permitted(q), row[q.act].status \in Statuses
  PROVE  /\ <<row[q.act].status, q.to>> \in Edges
         /\ row[q.act].status = "overdue" /\ q.to = "not_assisting"
              => OverdueOrigin(row[q.act]) = "assigned"
<1>1. <<row[q.act].status, q.to>> \in Edges
  BY DEF Permitted, SystemMay, UserMay, Edges
<1>2. <<"overdue", "not_assisting">> \notin SystemEdges
  BY DEF SystemEdges
<1>. QED  BY <1>1, <1>2 DEF Permitted, SystemMay, UserMay

(* The edges and their side effects as conditions on the two statuses.     *)
LEMMA EdgeCases ==
  ASSUME NEW from, NEW to, <<from, to>> \in Edges
  PROVE  \/ from = "assigned" /\ to \in {"overdue", "assisting", "not_assisting"}
         \/ from = "assisting" /\ to = "in_progress"
         \/ from = "in_progress" /\ to \in {"verify", "done"}
         \/ from = "verify" /\ to \in {"overdue", "done"}
         \/ from = "created" /\ to \in {"overdue", "assigned"}
         \/ from = "overdue" /\ to = "not_assisting"
         \/ from = "not_assisting" /\ to = "assigned"
         \/ from \in CancelSources /\ to = "cancelled"
BY DEF Edges, SystemEdges, AssigneeEdges, MemberEdges, CancelEdges

LEMMA EdgeEffects ==
  ASSUME NEW from, NEW to, <<from, to>> \in Edges
  PROVE  LET e == <<from, to>> IN
         /\ e \in SetsDeadline <=> to \in {"assigned", "verify"}
         /\ e \in ClearsDeadline <=>
              \/ to \in {"assisting", "cancelled"}
              \/ from = "assigned" /\ to = "not_assisting"
              \/ from = "verify" /\ to # "cancelled"
              \/ from = "created" /\ to = "overdue"
         /\ e \in SetsConfirmed <=> to = "assisting"
         /\ e \in ClearsConfirmed <=> from = "not_assisting" /\ to = "assigned"
         /\ e \in SetsDeclined <=> to = "not_assisting"
         /\ e \in ClearsDeclined <=> from = "not_assisting" /\ to = "assigned"
         /\ e \in SetsVerify <=> to = "verify"
         /\ e \in ClearsVerify <=> to = "cancelled" \/ (from = "verify" /\ to = "done")
<1>. DEFINE e == <<from, to>>
<1>. USE EdgeCases DEF CancelSources, CancelEdges
<1>1. e \in SetsDeadline <=> to \in {"assigned", "verify"}
  BY DEF SetsDeadline
<1>2. e \in ClearsDeadline <=>
        \/ to \in {"assisting", "cancelled"}
        \/ from = "assigned" /\ to = "not_assisting"
        \/ from = "verify" /\ to # "cancelled"
        \/ from = "created" /\ to = "overdue"
  BY DEF ClearsDeadline
<1>3. /\ e \in SetsConfirmed <=> to = "assisting"
      /\ e \in ClearsConfirmed <=> from = "not_assisting" /\ to = "assigned"
  BY DEF SetsConfirmed, ClearsConfirmed
<1>4. /\ e \in SetsDeclined <=> to = "not_assisting"
      /\ e \in ClearsDeclined <=> from = "not_assisting" /\ to = "assigned"
  BY DEF SetsDeclined, ClearsDeclined
<1>5. /\ e \in SetsVerify <=> to = "verify"
      /\ e \in ClearsVerify <=> to = "cancelled" \/ (from = "verify" /\ to = "done")
  BY DEF SetsVerify, ClearsVerify
<1>. QED  BY <1>1, <1>2, <1>3, <1>4, <1>5

(* Every edge takes a row whose columns fit its status to one whose        *)
(* columns fit the new status.                                             *)
LEMMA ColumnsStep ==
  ASSUME NEW r \in Row, ColumnsFitStatus(r),
         NEW to \in Statuses, <<r.status, to>> \in Edges,
         NEW t \in Nat, NEW m \in Members \cup {Null}, NEW d \in BOOLEAN,
         (m # Null) <=> (to = "assigned"),
         d => to = "cancelled", ~r.deletedAt,
         r.status = "overdue" /\ to = "not_assisting" => OverdueOrigin(r) = "assigned"
  PROVE  ColumnsFitStatus(NextRow(r, to, t, m, d))
<1>. DEFINE n == NextRow(r, to, t, m, d)
            e == <<r.status, to>>
<1>1. t + ResponseTimeout # Null
  BY MapAssumption
<1>2. /\ n.status = to
      /\ n.assignedTo = (IF m = Null THEN r.assignedTo ELSE m)
      /\ n.deletedAt <=> (r.deletedAt \/ d)
      /\ n.deadline = IF e \in SetsDeadline THEN t + ResponseTimeout
                      ELSE IF e \in ClearsDeadline THEN Null ELSE r.deadline
  BY DEF NextRow, Effect
<1>3. /\ n.confirmedAt <=> e \in SetsConfirmed \/ (r.confirmedAt /\ e \notin ClearsConfirmed)
      /\ n.declinedAt <=> e \in SetsDeclined \/ (r.declinedAt /\ e \notin ClearsDeclined)
      /\ n.verifyAt <=> e \in SetsVerify \/ (r.verifyAt /\ e \notin ClearsVerify)
  BY DEF NextRow, Effect, Row
<1>. HIDE DEF n
<1>4. /\ n.deadline # Null <=>
          \/ to \in {"assigned", "verify"}
          \/ /\ r.deadline # Null
             /\ to \notin {"assisting", "cancelled"}
             /\ ~(r.status = "assigned" /\ to = "not_assisting")
             /\ r.status # "verify"
             /\ ~(r.status = "created" /\ to = "overdue")
      /\ n.confirmedAt <=> to = "assisting" \/ (r.confirmedAt /\ to # "assigned")
           \/ (r.confirmedAt /\ r.status # "not_assisting")
      /\ n.declinedAt <=> to = "not_assisting" \/ (r.declinedAt /\ to # "assigned")
           \/ (r.declinedAt /\ r.status # "not_assisting")
      /\ n.verifyAt <=> to = "verify"
           \/ (r.verifyAt /\ to # "cancelled" /\ ~(r.status = "verify" /\ to = "done"))
  BY <1>1, <1>2, <1>3, EdgeEffects
<1>5. /\ n.status \in {"created", "assigned", "verify"} => n.deadline # Null
      /\ n.status \in {"assisting", "in_progress", "done", "cancelled"} => n.deadline = Null
  BY <1>2, <1>4, EdgeCases DEF ColumnsFitStatus
<1>6. /\ n.status # "created"
      /\ n.status = "assigned" => ~n.confirmedAt /\ ~n.declinedAt
      /\ n.status \in {"assisting", "in_progress", "verify", "done"} => n.confirmedAt
  BY <1>2, <1>4, EdgeCases DEF ColumnsFitStatus
<1>7. r.status = "overdue" /\ to = "not_assisting" => r.assignedTo # Null /\ ~r.verifyAt
  BY DEF OverdueOrigin
<1>8. /\ n.status = "verify" => n.verifyAt
      /\ n.verifyAt => n.status \in {"verify", "overdue"}
  BY <1>2, <1>4, <1>7, EdgeCases DEF ColumnsFitStatus
<1>9. /\ n.deletedAt => n.status = "cancelled"
      /\ n.assignedTo = Null => n.status \in {"created", "overdue", "cancelled"}
  BY <1>2, <1>7, EdgeCases DEF ColumnsFitStatus
<1>10. ColumnsFitStatus(n)
  BY <1>5, <1>6, <1>8, <1>9 DEF ColumnsFitStatus
<1>. QED  BY <1>10 DEF n

(* A row that becomes overdue says by its columns where it came from.      *)
LEMMA OriginStep ==
  ASSUME NEW r \in Row, ColumnsFitStatus(r), <<r.status, "overdue">> \in Edges,
         NEW t \in Nat, NEW d \in BOOLEAN
  PROVE  OverdueOrigin(NextRow(r, "overdue", t, Null, d)) = r.status
<1>1. r.status \in {"created", "assigned", "verify"}
  BY DEF Edges, SystemEdges, AssigneeEdges, MemberEdges, CancelEdges
<1>2. NextRow(r, "overdue", t, Null, d).assignedTo = r.assignedTo
  BY DEF NextRow
<1>3. NextRow(r, "overdue", t, Null, d).verifyAt = r.verifyAt
  BY <1>1 DEF NextRow, Effect, SetsVerify, ClearsVerify, CancelEdges, CancelSources
<1>. QED  BY <1>1, <1>2, <1>3 DEF OverdueOrigin, ColumnsFitStatus

-----------------------------------------------------------------------------
(* What a step does to the table and its outbox: nothing, an insert, or    *)
(* the commit of a snapshot that was right.                                *)
LEMMA QuietSteps ==
  ASSUME [Next]_vars
  PROVE  \/ UNCHANGED <<row, outbox>>
         \/ \E a \in Activities, u \in Members, m \in Members \cup {Null}, s \in Schedules :
              Create(a, u, m, s)
         \/ \E p \in Processes : Commit(p)
BY DEF Next, vars, Tick, Route, Complete, ConfirmAssignment, Delete, Cancel,
       DeclineAssignment, Assign, Accept, FireTimer, DiscardTimer, Sweep, FinishTimer,
       Execute, Load, Drop, Conflict, Crash, LoseTimer

(* The row an insert writes.                                               *)
LEMMA CreateFacts ==
  ASSUME TypeOK, NEW a \in Activities, NEW u \in Members,
         NEW m \in Members \cup {Null}, NEW s \in Schedules, Create(a, u, m, s)
  PROVE  LET r == InitialRow(u, m, s)
             e == [version |-> 1, from |-> "new", to |-> r.status,
                   event |-> r.status, actor |-> u]
         IN  /\ row[a] = Null
             /\ r \in Row /\ r # Null /\ r.version = 1
             /\ r.status \in {"created", "assigned"}
             /\ ColumnsFitStatus(r)
             /\ row' = [row EXCEPT ![a] = r]
             /\ outbox' = [outbox EXCEPT ![a] = Append(@, e)]
<1>. DEFINE r == InitialRow(u, m, s)
<1>1. /\ r.status = (IF m = Null THEN "created" ELSE "assigned")
      /\ r.version = 1 /\ r.assignedTo = m /\ r.deadline = now + ResponseTimeout
      /\ ~r.confirmedAt /\ ~r.declinedAt /\ ~r.verifyAt /\ ~r.deletedAt
  BY DEF InitialRow, InitialStatus
<1>2. now + ResponseTimeout \in Nat /\ now + ResponseTimeout # Null
  BY MapAssumption DEF TypeOK
<1>3. r \in Row
  BY InitialRowType
<1>4. r # Null
  BY InitialRowType
<1>5. ColumnsFitStatus(r)
  <2>. HIDE DEF r
  <2>. QED  BY <1>1, <1>2 DEF ColumnsFitStatus
<1>6. r.status \in {"created", "assigned"}
  BY <1>1
<1>7. /\ row[a] = Null
      /\ row' = [row EXCEPT ![a] = r]
      /\ outbox' = [outbox EXCEPT ![a] =
           Append(@, [version |-> 1, from |-> "new", to |-> r.status,
                      event |-> r.status, actor |-> u])]
  BY DEF Create
<1>8. r.version = 1
  BY <1>1
<1>. HIDE DEF r
<1>. QED  BY <1>3, <1>4, <1>5, <1>6, <1>7, <1>8 DEF r

(* A commit moves its row along an edge the actor was permitted, to a row  *)
(* whose columns fit.                                                      *)
LEMMA CommitFacts ==
  ASSUME Consistent, NEW p \in Processes, Commit(p)
  PROVE  LET s == held[p]
             q == s.req
             r == NextRow(row[q.act], q.to, s.at, q.assignee, q.deletes)
             e == [version |-> r.version, from |-> s.from, to |-> q.to,
                   event |-> EventOf(<<s.from, q.to>>), actor |-> q.actor]
         IN  /\ s \in Snapshot /\ q \in Request /\ q.act \in Activities
             /\ WellFormed(q) /\ Permitted(q)
             /\ row[q.act] \in Row /\ row[q.act] # Null
             /\ row[q.act].status = s.from /\ row[q.act].version = s.version
             /\ <<s.from, q.to>> \in Edges
             /\ r \in Row /\ r # Null /\ r.status = q.to
             /\ r.version = row[q.act].version + 1
             /\ r.assignedTo = (IF q.assignee = Null THEN row[q.act].assignedTo
                                                     ELSE q.assignee)
             /\ ColumnsFitStatus(r)
             /\ q.to = "overdue" => OverdueOrigin(r) = s.from
             /\ row' = [row EXCEPT ![q.act] = r]
             /\ outbox' = [outbox EXCEPT ![q.act] = Append(@, e)]
             /\ held' = [held EXCEPT ![p] = Null]
             /\ pending' = pending
<1>. DEFINE s == held[p]
            q == s.req
            x == row[q.act]
            r == NextRow(x, q.to, s.at, q.assignee, q.deletes)
            e == [version |-> r.version, from |-> s.from, to |-> q.to,
                  event |-> EventOf(<<s.from, q.to>>), actor |-> q.actor]
<1>1. s # Null /\ s \in Snapshot
  BY DEF Commit, Consistent, TypeOK
<1>2. q \in Request /\ q.act \in Activities /\ q.to \in Statuses
      /\ q.assignee \in Members \cup {Null} /\ q.deletes \in BOOLEAN /\ s.at \in Nat
  BY <1>1 DEF Snapshot, Request
<1>3. x # Null /\ ~x.deletedAt /\ x.status = s.from /\ x.version = s.version
  BY DEF Commit, Matches, Alive
<1>4. x \in Row
  BY <1>2, <1>3 DEF Consistent, TypeOK
<1>5. WellFormed(q)
  BY <1>1 DEF Consistent, RequestsWellFormed
<1>6. Permitted(q)
  BY <1>1, <1>3 DEF Consistent, SnapshotsHold, SnapshotHolds
<1>7. /\ <<x.status, q.to>> \in Edges
      /\ x.status = "overdue" /\ q.to = "not_assisting" => OverdueOrigin(x) = "assigned"
  <2>1. x.status \in Statuses
    BY <1>4 DEF Row
  <2>. QED  BY <1>6, <2>1, PermittedEdge
<1>8. ColumnsFitStatus(x)
  BY <1>2, <1>3 DEF Consistent, ColumnsMatchStatus
<1>9. r \in Row /\ r # Null
  BY <1>2, <1>4, NextRowType, LifecycleAssumption
<1>10. /\ r.status = q.to /\ r.version = x.version + 1
       /\ r.assignedTo = (IF q.assignee = Null THEN x.assignedTo ELSE q.assignee)
  BY DEF NextRow
<1>11. ColumnsFitStatus(r)
  <2>1. /\ (q.assignee # Null) <=> (q.to = "assigned")
        /\ q.deletes => q.to = "cancelled"
    BY <1>5 DEF WellFormed
  <2>. HIDE DEF x, q, s
  <2>. QED  BY <1>2, <1>3, <1>4, <1>7, <1>8, <2>1, ColumnsStep
<1>12. q.to = "overdue" => OverdueOrigin(r) = s.from
  <2>1. q.to = "overdue" => q.assignee = Null
    BY <1>5 DEF WellFormed
  <2>. HIDE DEF x, q, s
  <2>. QED  BY <1>2, <1>3, <1>4, <1>7, <1>8, <2>1, OriginStep
<1>13. /\ row' = [row EXCEPT ![q.act] = r]
       /\ outbox' = [outbox EXCEPT ![q.act] = Append(@, e)]
       /\ held' = [held EXCEPT ![p] = Null]
       /\ pending' = pending
  BY DEF Commit
<1>. HIDE DEF s, q, x, r, e
<1>14. <<s.from, q.to>> \in Edges
  BY <1>3, <1>7
<1>. QED
  BY <1>1, <1>2, <1>3, <1>4, <1>5, <1>6, <1>9, <1>10, <1>11, <1>12, <1>13, <1>14
  DEF s, q, x, r, e

-----------------------------------------------------------------------------
(* Preservation, one lemma per invariant.                                  *)

LEMMA HistoryNext ==
  ASSUME Consistent, [Next]_vars
  PROVE  HistoryMatchesRow'
<1>0. TypeOK
  BY DEF Consistent
<1>. USE DEF HistoryMatchesRow, LastEvent
<1>1. HistoryMatchesRow /\ outbox \in [Activities -> Seq(OutboxEvent)]
      /\ row \in [Activities -> Row \cup {Null}]
  BY DEF Consistent, TypeOK
<1>2. CASE UNCHANGED <<row, outbox>>
  BY <1>1, <1>2
<1>3. ASSUME NEW a \in Activities, NEW u \in Members, NEW m \in Members \cup {Null},
             NEW s \in Schedules, Create(a, u, m, s)
      PROVE  HistoryMatchesRow'
  <2>. DEFINE r == InitialRow(u, m, s)
              e == [version |-> 1, from |-> "new", to |-> r.status,
                    event |-> r.status, actor |-> u]
  <2>1. /\ row[a] = Null /\ r # Null /\ r.version = 1
        /\ row' = [row EXCEPT ![a] = r]
        /\ outbox' = [outbox EXCEPT ![a] = Append(@, e)]
    BY <1>0, <1>3, CreateFacts
  <2>2. e.version = 1 /\ e.from = "new" /\ e.to = r.status
    OBVIOUS
  <2>. HIDE DEF r, e
  <2>3. outbox[a] = <<>>
    BY <1>1, <2>1
  <2>4. outbox'[a] = <<e>>
    BY <1>1, <2>1, <2>3
  <2>5. \A b \in Activities : b # a => row'[b] = row[b] /\ outbox'[b] = outbox[b]
    BY <1>1, <2>1
  <2>6. row'[a] = r
    BY <1>1, <2>1
  <2>. QED  BY <1>1, <2>1, <2>2, <2>4, <2>5, <2>6
<1>4. ASSUME NEW p \in Processes, Commit(p)
      PROVE  HistoryMatchesRow'
  <2>. DEFINE s == held[p]
              q == s.req
              r == NextRow(row[q.act], q.to, s.at, q.assignee, q.deletes)
              e == [version |-> r.version, from |-> s.from, to |-> q.to,
                    event |-> EventOf(<<s.from, q.to>>), actor |-> q.actor]
              a == q.act
  <2>1. /\ a \in Activities /\ row[a] \in Row /\ row[a] # Null
        /\ row[a].status = s.from
        /\ r # Null /\ r.status = q.to /\ r.version = row[a].version + 1
        /\ row' = [row EXCEPT ![a] = r]
        /\ outbox' = [outbox EXCEPT ![a] = Append(@, e)]
    BY <1>4, CommitFacts
  <2>2. e.version = r.version /\ e.from = s.from /\ e.to = q.to
    OBVIOUS
  <2>. HIDE DEF r, e, s, q, a
  <2>3. row[a].version \in Nat /\ outbox[a] \in Seq(OutboxEvent)
    BY <1>1, <2>1 DEF Row
  <2>4. \A b \in Activities : b # a => row'[b] = row[b] /\ outbox'[b] = outbox[b]
    BY <1>1, <2>1
  <2>5. row'[a] = r /\ outbox'[a] = Append(outbox[a], e)
    BY <1>1, <2>1
  <2>. DEFINE n == Len(outbox[a])
  <2>6. /\ n \in Nat /\ n > 0 /\ n = row[a].version
        /\ outbox[a][n].to = row[a].status
        /\ \A i \in 1..n : /\ outbox[a][i].version = i
                           /\ outbox[a][i].from = IF i = 1 THEN "new" ELSE outbox[a][i - 1].to
    BY <1>1, <2>1, <2>3
  <2>7. /\ Len(outbox'[a]) = n + 1
        /\ \A i \in 1..n : outbox'[a][i] = outbox[a][i]
        /\ outbox'[a][n + 1] = e
    BY <2>3, <2>5
  <2>. HIDE DEF n
  <2>8. \A i \in 1..(n + 1) :
          /\ outbox'[a][i].version = i
          /\ outbox'[a][i].from = IF i = 1 THEN "new" ELSE outbox'[a][i - 1].to
    <3>. TAKE i \in 1..(n + 1)
    <3>1. CASE i \in 1..n
      <4>1. i # 1 => i - 1 \in 1..n
        BY <3>1, <2>6
      <4>2. /\ outbox'[a][i] = outbox[a][i]
            /\ i # 1 => outbox'[a][i - 1] = outbox[a][i - 1]
        BY <3>1, <4>1, <2>7
      <4>. QED  BY <3>1, <4>2, <2>6
    <3>2. CASE i = n + 1
      <4>1. n \in 1..n /\ i # 1 /\ i - 1 = n
        BY <3>2, <2>6
      <4>2. outbox'[a][i] = e /\ outbox'[a][i - 1] = outbox[a][n]
        BY <3>2, <4>1, <2>7
      <4>. QED  BY <3>2, <4>1, <4>2, <2>1, <2>2, <2>6
    <3>. QED  BY <3>1, <3>2, <2>6
  <2>9. /\ Len(outbox'[a]) = row'[a].version /\ row'[a].version > 0
        /\ outbox'[a][Len(outbox'[a])].to = row'[a].status
    BY <2>1, <2>2, <2>3, <2>5, <2>6, <2>7
  <2>. QED  BY <1>1, <2>1, <2>4, <2>5, <2>7, <2>8, <2>9
<1>. QED  BY <1>2, <1>3, <1>4, QuietSteps

LEMMA ColumnsNext ==
  ASSUME Consistent, [Next]_vars
  PROVE  ColumnsMatchStatus'
<1>0. TypeOK
  BY DEF Consistent
<1>. USE DEF ColumnsMatchStatus
<1>1. ColumnsMatchStatus /\ row \in [Activities -> Row \cup {Null}]
  BY DEF Consistent, TypeOK
<1>2. CASE UNCHANGED <<row, outbox>>
  BY <1>1, <1>2
<1>3. ASSUME NEW a \in Activities, NEW u \in Members, NEW m \in Members \cup {Null},
             NEW s \in Schedules, Create(a, u, m, s)
      PROVE  ColumnsMatchStatus'
  <2>. DEFINE r == InitialRow(u, m, s)
  <2>1. ColumnsFitStatus(r)
    BY <1>0, <1>3, CreateFacts
  <2>2. row' = [row EXCEPT ![a] = r]
    BY <1>3 DEF Create
  <2>. HIDE DEF r
  <2>. QED  BY <1>1, <2>1, <2>2
<1>4. ASSUME NEW p \in Processes, Commit(p)
      PROVE  ColumnsMatchStatus'
  <2>. DEFINE q == held[p].req
              r == NextRow(row[q.act], q.to, held[p].at, q.assignee, q.deletes)
  <2>1. ColumnsFitStatus(r) /\ row' = [row EXCEPT ![q.act] = r]
    BY <1>4, CommitFacts
  <2>. HIDE DEF r, q
  <2>. QED  BY <1>1, <2>1
<1>. QED  BY <1>2, <1>3, <1>4, QuietSteps

LEMMA OriginNext ==
  ASSUME Consistent, [Next]_vars
  PROVE  OriginMatchesHistory'
<1>0. TypeOK
  BY DEF Consistent
<1>. USE DEF OriginMatchesHistory, LastEvent
<1>1. /\ OriginMatchesHistory
      /\ row \in [Activities -> Row \cup {Null}]
      /\ outbox \in [Activities -> Seq(OutboxEvent)]
  BY DEF Consistent, TypeOK
<1>2. CASE UNCHANGED <<row, outbox>>
  BY <1>1, <1>2
<1>3. ASSUME NEW a \in Activities, NEW u \in Members, NEW m \in Members \cup {Null},
             NEW s \in Schedules, Create(a, u, m, s)
      PROVE  OriginMatchesHistory'
  <2>. DEFINE r == InitialRow(u, m, s)
              e == [version |-> 1, from |-> "new", to |-> r.status,
                    event |-> r.status, actor |-> u]
  <2>1. /\ r.status \in {"created", "assigned"}
        /\ row' = [row EXCEPT ![a] = r]
        /\ outbox' = [outbox EXCEPT ![a] = Append(@, e)]
    BY <1>0, <1>3, CreateFacts
  <2>. HIDE DEF r, e
  <2>2. \A b \in Activities : b # a => outbox'[b] = outbox[b]
    BY <1>1, <2>1
  <2>. QED  BY <1>1, <2>1, <2>2
<1>4. ASSUME NEW p \in Processes, Commit(p)
      PROVE  OriginMatchesHistory'
  <2>. DEFINE s == held[p]
              q == s.req
              r == NextRow(row[q.act], q.to, s.at, q.assignee, q.deletes)
              e == [version |-> r.version, from |-> s.from, to |-> q.to,
                    event |-> EventOf(<<s.from, q.to>>), actor |-> q.actor]
  <2>1. /\ q.act \in Activities /\ r.status = q.to
        /\ q.to = "overdue" => OverdueOrigin(r) = s.from
        /\ row' = [row EXCEPT ![q.act] = r]
        /\ outbox' = [outbox EXCEPT ![q.act] = Append(@, e)]
    BY <1>4, CommitFacts
  <2>2. e.from = s.from
    OBVIOUS
  <2>. HIDE DEF s, q, r, e
  <2>3. outbox'[q.act] = Append(outbox[q.act], e) /\ outbox[q.act] \in Seq(OutboxEvent)
    BY <1>1, <2>1
  <2>4. outbox'[q.act][Len(outbox'[q.act])] = e
    BY <2>3
  <2>5. row'[q.act] = r
    BY <1>1, <2>1
  <2>6. \A b \in Activities : b # q.act => row'[b] = row[b] /\ outbox'[b] = outbox[b]
    BY <1>1, <2>1
  <2>. QED  BY <1>1, <2>1, <2>2, <2>4, <2>5, <2>6
<1>. QED  BY <1>2, <1>3, <1>4, QuietSteps

(* SnapshotHolds as a relation between a row and a snapshot, free of state.*)
Current(x, s) ==
  /\ x # Null
  /\ s.version <= x.version
  /\ s.version = x.version =>
       /\ x.status = s.from
       /\ ~x.deletedAt
       /\ IF s.req.actor = Null THEN SystemMay(x, s.req.to)
                                ELSE UserMay(x, s.req.to, s.req.actor)

LEMMA SnapshotsAsCurrent ==
  /\ SnapshotsHold <=>
       \A p \in Processes : held[p] # Null => Current(row[held[p].req.act], held[p])
  /\ SnapshotsHold' <=>
       \A p \in Processes : held'[p] # Null => Current(row'[held'[p].req.act], held'[p])
<1>1. SnapshotsHold <=>
        \A p \in Processes : held[p] # Null => Current(row[held[p].req.act], held[p])
  BY DEF SnapshotsHold, SnapshotHolds, Permitted, Alive, Current
<1>2. SnapshotsHold' <=>
        \A p \in Processes : held'[p] # Null => Current(row'[held'[p].req.act], held'[p])
  BY DEF SnapshotsHold, SnapshotHolds, Permitted, Alive, Current
<1>. QED  BY <1>1, <1>2

LEMMA SnapshotsNext ==
  ASSUME Consistent, [Next]_vars
  PROVE  SnapshotsHold'
<1>1. /\ TypeOK
      /\ row \in [Activities -> Row \cup {Null}]
      /\ held \in [Processes -> Snapshot \cup {Null}]
      /\ pending \in [Processes -> SUBSET Request]
  BY DEF Consistent, TypeOK
<1>2. \A p \in Processes : held[p] # Null => Current(row[held[p].req.act], held[p])
  BY SnapshotsAsCurrent DEF Consistent
<1>. SUFFICES \A p \in Processes : held'[p] # Null => Current(row'[held'[p].req.act], held'[p])
  BY SnapshotsAsCurrent
<1>3. ASSUME UNCHANGED row,
             \A p \in Processes : held'[p] = held[p] \/ held'[p] = Null
      PROVE  \A p \in Processes : held'[p] # Null => Current(row'[held'[p].req.act], held'[p])
  BY <1>2, <1>3
<1>4. ASSUME NEW a \in Activities, NEW u \in Members, NEW m \in Members \cup {Null},
             NEW s \in Schedules, Create(a, u, m, s)
      PROVE  \A p \in Processes : held'[p] # Null => Current(row'[held'[p].req.act], held'[p])
  <2>. DEFINE r == InitialRow(u, m, s)
  <2>1. row[a] = Null
    BY <1>1, <1>4, CreateFacts
  <2>2. row' = [row EXCEPT ![a] = r] /\ held' = held
    BY <1>4 DEF Create
  <2>. HIDE DEF r
  <2>. SUFFICES ASSUME NEW p \in Processes, held[p] # Null
                PROVE  Current(row'[held[p].req.act], held[p])
    BY <2>2
  <2>3. row[held[p].req.act] # Null
    BY <1>2 DEF Current
  <2>4. row'[held[p].req.act] = row[held[p].req.act]
    BY <1>1, <2>1, <2>2, <2>3
  <2>. QED  BY <1>2, <2>4
<1>5. ASSUME NEW p \in Processes, Commit(p)
      PROVE  \A z \in Processes : held'[z] # Null => Current(row'[held'[z].req.act], held'[z])
  <2>. DEFINE a == held[p].req.act
              r == NextRow(row[a], held[p].req.to, held[p].at, held[p].req.assignee,
                           held[p].req.deletes)
  <2>1. /\ a \in Activities /\ row[a] \in Row
        /\ r # Null /\ r \in Row /\ r.version = row[a].version + 1
        /\ row' = [row EXCEPT ![a] = r]
        /\ held' = [held EXCEPT ![p] = Null]
    BY <1>5, CommitFacts
  <2>. HIDE DEF a, r
  <2>. SUFFICES ASSUME NEW z \in Processes, held'[z] # Null
                PROVE  Current(row'[held'[z].req.act], held'[z])
    OBVIOUS
  <2>2. held'[z] = held[z] /\ held[z] \in Snapshot /\ held[z].version \in Nat
    BY <1>1, <2>1 DEF Snapshot
  <2>3. Current(row[held[z].req.act], held[z])
    BY <1>2, <2>2
  <2>4. CASE held[z].req.act = a
    <3>1. row'[a] = r
      BY <1>1, <2>1
    <3>2. held[z].version <= row[a].version /\ row[a].version \in Nat
      BY <2>1, <2>3, <2>4 DEF Current, Row
    <3>3. held[z].version < r.version
      BY <2>1, <2>2, <3>2
    <3>. QED  BY <2>1, <2>2, <2>4, <3>1, <3>2, <3>3 DEF Current
  <2>5. CASE held[z].req.act # a
    <3>1. row'[held[z].req.act] = row[held[z].req.act]
      BY <1>1, <2>1, <2>5
    <3>. QED  BY <2>2, <2>3, <3>1
  <2>. QED  BY <2>4, <2>5
<1>6. ASSUME NEW p \in Processes, NEW q \in pending[p], Load(p, q)
      PROVE  \A z \in Processes : held'[z] # Null => Current(row'[held'[z].req.act], held'[z])
  <2>. DEFINE s == [req |-> q, from |-> row[q.act].status,
                    version |-> row[q.act].version, at |-> now]
  <2>1. /\ Permitted(q) /\ held' = [held EXCEPT ![p] = s] /\ row' = row
    BY <1>6 DEF Load
  <2>2. q.act \in Activities
    BY <1>1 DEF Request
  <2>3. row[q.act] # Null /\ row[q.act].version \in Nat
    BY <1>1, <2>1, <2>2 DEF Permitted, Alive, Row
  <2>4. Current(row[q.act], s)
    BY <2>1, <2>3 DEF Permitted, Alive, Current
  <2>5. s.req.act = q.act
    OBVIOUS
  <2>. HIDE DEF s
  <2>. QED  BY <1>1, <1>2, <2>1, <2>4, <2>5
<1>. QED
  <2>1. CASE /\ UNCHANGED row
             /\ \A p \in Processes : held'[p] = held[p] \/ held'[p] = Null
    BY <1>3, <2>1
  <2>2. \/ /\ UNCHANGED row
           /\ \A p \in Processes : held'[p] = held[p] \/ held'[p] = Null
        \/ \E a \in Activities, u \in Members, m \in Members \cup {Null}, s \in Schedules :
             Create(a, u, m, s)
        \/ \E p \in Processes : Commit(p)
        \/ \E p \in Processes : \E q \in pending[p] : Load(p, q)
    BY <1>1 DEF Next, vars, Tick, Route, Complete, ConfirmAssignment, Delete, Cancel,
       DeclineAssignment, Assign, Accept, FireTimer, DiscardTimer, Sweep, FinishTimer,
       Execute, Drop, Conflict, Crash, LoseTimer
  <2>. QED  BY <1>4, <1>5, <1>6, <2>1, <2>2

(* What a step does to the decisions in hand: it takes one, reads the row  *)
(* for one, or at most lets go of some.                                    *)
LEMMA DecisionSteps ==
  ASSUME TypeOK, [Next]_vars
  PROVE  \/ \A p \in Processes : /\ pending'[p] \subseteq pending[p]
                                 /\ held'[p] = held[p] \/ held'[p] = Null
                                 /\ job'[p] = job[p] \/ job'[p] = Null
         \/ \E c \in Clients, a \in Activities, u \in Members : Route(c, a, u)
         \/ \E w \in Workers, t \in timers : FireTimer(w, t)
         \/ \E w \in Workers : Sweep(w)
         \/ \E p \in Processes : \E q \in pending[p] : Load(p, q)
<1>. DEFINE Quiet == \A p \in Processes : /\ pending'[p] \subseteq pending[p]
                                          /\ held'[p] = held[p] \/ held'[p] = Null
                                          /\ job'[p] = job[p] \/ job'[p] = Null
<1>1. /\ held \in [Processes -> Snapshot \cup {Null}]
      /\ pending \in [Processes -> SUBSET Request]
      /\ job \in [Processes -> Timer \cup {Null}]
  BY DEF TypeOK
<1>2. UNCHANGED <<pending, held, job>> => Quiet
  OBVIOUS
<1>3. ASSUME NEW w \in Workers, FinishTimer(w) PROVE Quiet
  BY <1>1, <1>3 DEF FinishTimer
<1>4. ASSUME NEW p \in Processes, NEW q \in pending[p], Drop(p, q) PROVE Quiet
  BY <1>1, <1>4 DEF Drop
<1>5. ASSUME NEW p \in Processes, Commit(p) PROVE Quiet
  <2>1. held' = [held EXCEPT ![p] = Null] /\ UNCHANGED <<pending, job>>
    BY <1>5 DEF Commit
  <2>. QED  BY <1>1, <2>1
<1>6. ASSUME NEW p \in Processes, Conflict(p) PROVE Quiet
  BY <1>1, <1>6 DEF Conflict
<1>7. ASSUME NEW p \in Processes, Crash(p) PROVE Quiet
  BY <1>1, <1>7 DEF Crash
<1>8. ASSUME Tick \/ UNCHANGED vars PROVE UNCHANGED <<pending, held, job>>
  BY <1>8 DEF Tick, vars
<1>9. ASSUME NEW a \in Activities, NEW u \in Members, NEW m \in Members \cup {Null},
             NEW s \in Schedules, Create(a, u, m, s)
      PROVE  UNCHANGED <<pending, held, job>>
  BY <1>9 DEF Create
<1>10. ASSUME NEW w \in Workers, NEW t \in timers, DiscardTimer(w, t)
       PROVE  UNCHANGED <<pending, held, job>>
  BY <1>10 DEF DiscardTimer
<1>11. ASSUME NEW t \in timers, LoseTimer(t)
       PROVE  UNCHANGED <<pending, held, job>>
  BY <1>11 DEF LoseTimer
<1>. HIDE DEF Quiet
<1>12. CASE Tick \/ UNCHANGED vars
  BY <1>2, <1>8, <1>12 DEF Quiet
<1>13. ASSUME Next, ~Tick
       PROVE  \/ Quiet
              \/ \E c \in Clients, a \in Activities, u \in Members : Route(c, a, u)
              \/ \E w \in Workers, t \in timers : FireTimer(w, t)
              \/ \E w \in Workers : Sweep(w)
              \/ \E p \in Processes : \E q \in pending[p] : Load(p, q)
  BY <1>3, <1>4, <1>5, <1>6, <1>7, <1>9, <1>10, <1>11, <1>2, <1>13 DEF Next, Execute
<1>. QED  BY <1>12, <1>13 DEF Quiet

LEMMA RequestsNext ==
  ASSUME Consistent, [Next]_vars
  PROVE  RequestsWellFormed'
<1>. USE DEF RequestsWellFormed
<1>1. /\ TypeOK /\ RequestsWellFormed
      /\ held \in [Processes -> Snapshot \cup {Null}]
      /\ pending \in [Processes -> SUBSET Request]
  BY DEF Consistent, TypeOK
<1>2. ASSUME \A p \in Processes :
               /\ \A q \in pending'[p] : q \in pending[p] \/ WellFormed(q)
               /\ held'[p] # Null => held'[p] = held[p] \/ WellFormed(held'[p].req)
      PROVE  RequestsWellFormed'
  BY <1>1, <1>2 DEF WellFormed
<1>3. ASSUME NEW c \in Clients, NEW a \in Activities, NEW u \in Members, Route(c, a, u)
      PROVE  RequestsWellFormed'
  <2>1. ASSUME NEW to, NEW m, NEW d, Accept(c, a, u, to, m, d),
               (m # Null) <=> (to = "assigned"), d => to = "cancelled"
        PROVE  RequestsWellFormed'
    <3>. DEFINE q == [act |-> a, to |-> to, actor |-> u, assignee |-> m, deletes |-> d]
    <3>1. WellFormed(q)
      BY <2>1 DEF WellFormed
    <3>2. pending' = [pending EXCEPT ![c] = {q}] /\ held' = held
      BY <2>1 DEF Accept
    <3>. HIDE DEF q
    <3>. QED  BY <1>1, <1>2, <3>1, <3>2
  <2>2. \A target \in Members : target # Null
    BY MapAssumption
  <2>. QED
    BY <1>3, <2>1, <2>2
    DEF Route, Complete, ConfirmAssignment, Delete, Cancel, DeclineAssignment, Assign
<1>4. ASSUME NEW w \in Workers, NEW t \in timers, FireTimer(w, t)
      PROVE  RequestsWellFormed'
  <2>1. TargetStatus(t.kind) \in {"in_progress", "verify", "overdue"}
    BY DEF TargetStatus
  <2>2. WellFormed(SystemRequest(t.act, TargetStatus(t.kind)))
    BY <2>1 DEF WellFormed, SystemRequest
  <2>3. /\ pending' = [pending EXCEPT ![w] = {SystemRequest(t.act, TargetStatus(t.kind))}]
        /\ held' = held
    BY <1>4 DEF FireTimer
  <2>. QED  BY <1>1, <1>2, <2>2, <2>3
<1>5. ASSUME NEW w \in Workers, Sweep(w)
      PROVE  RequestsWellFormed'
  <2>1. \A a : WellFormed(SystemRequest(a, DueTarget(row[a])))
    BY DEF WellFormed, SystemRequest, DueTarget
  <2>2. PICK S \in SUBSET Due :
          pending' = [pending EXCEPT ![w] = { SystemRequest(a, DueTarget(row[a])) : a \in S }]
    BY <1>5 DEF Sweep
  <2>3. held' = held
    BY <1>5 DEF Sweep
  <2>. QED  BY <1>1, <1>2, <2>1, <2>2, <2>3
<1>6. ASSUME NEW p \in Processes, NEW q \in pending[p], Load(p, q)
      PROVE  RequestsWellFormed'
  <2>1. WellFormed(q)
    BY <1>1
  <2>. DEFINE s == [req |-> q, from |-> row[q.act].status,
                    version |-> row[q.act].version, at |-> now]
  <2>2. s.req = q
    OBVIOUS
  <2>3. held' = [held EXCEPT ![p] = s] /\ pending' = [pending EXCEPT ![p] = @ \ {q}]
    BY <1>6 DEF Load
  <2>. HIDE DEF s
  <2>. QED  BY <1>1, <1>2, <2>1, <2>2, <2>3
<1>7. ASSUME \A p \in Processes : /\ pending'[p] \subseteq pending[p]
                                  /\ held'[p] = held[p] \/ held'[p] = Null
      PROVE  RequestsWellFormed'
  BY <1>2, <1>7
<1>. QED
  <2>1. \/ \A p \in Processes : /\ pending'[p] \subseteq pending[p]
                                /\ held'[p] = held[p] \/ held'[p] = Null
        \/ \E c \in Clients, a \in Activities, u \in Members : Route(c, a, u)
        \/ \E w \in Workers, t \in timers : FireTimer(w, t)
        \/ \E w \in Workers : Sweep(w)
        \/ \E p \in Processes : \E q \in pending[p] : Load(p, q)
    BY <1>1, DecisionSteps
  <2>. QED  BY <1>3, <1>4, <1>5, <1>6, <1>7, <2>1

LEMMA ConsistentInit == Init => Consistent
<1>. SUFFICES ASSUME Init PROVE Consistent
  OBVIOUS
<1>1. TypeOK
  BY TypeOKInit
<1>2. RequestsWellFormed /\ SnapshotsHold
  BY DEF Init, RequestsWellFormed, SnapshotsHold
<1>3. HistoryMatchesRow /\ ColumnsMatchStatus /\ OriginMatchesHistory
  BY DEF Init, HistoryMatchesRow, ColumnsMatchStatus, OriginMatchesHistory
<1>. QED  BY <1>1, <1>2, <1>3 DEF Consistent

LEMMA ConsistentNext == Consistent /\ [Next]_vars => Consistent'
<1>. SUFFICES ASSUME Consistent, [Next]_vars PROVE Consistent'
  OBVIOUS
<1>1. TypeOK'
  BY TypeOKNext DEF Consistent
<1>. QED
  BY <1>1, RequestsNext, HistoryNext, ColumnsNext, OriginNext, SnapshotsNext
  DEF Consistent

(* The inductive invariant is an invariant.                                *)
THEOREM ConsistentAlways == Spec => []Consistent
BY ConsistentInit, ConsistentNext, PTL DEF Spec

(* The outbox of every activity is exactly its history, whatever requests, *)
(* timers, sweeps, crashes and lost jobs interleave.                       *)
THEOREM HistoryIsComplete == Spec => []HistoryMatchesRow
<1>1. Consistent => HistoryMatchesRow
  BY DEF Consistent
<1>. QED  BY <1>1, ConsistentAlways, PTL

(* Whatever path a row took, its columns are those of its status: in       *)
(* particular a row that waits for an answer always has a deadline.        *)
THEOREM ColumnsAlwaysMatch == Spec => []ColumnsMatchStatus
<1>1. Consistent => ColumnsMatchStatus
  BY DEF Consistent
<1>. QED  BY <1>1, ConsistentAlways, PTL

(* overdueOrigin() is always right about why an activity is overdue.       *)
THEOREM OriginAlwaysMatches == Spec => []OriginMatchesHistory
<1>1. Consistent => OriginMatchesHistory
  BY DEF Consistent
<1>. QED  BY <1>1, ConsistentAlways, PTL

(* Optimistic locking: a snapshot whose version is the row's is the row,   *)
(* and the decision taken on it may still be taken.                        *)
THEOREM SnapshotsAlwaysHold == Spec => []SnapshotsHold
<1>1. Consistent => SnapshotsHold
  BY DEF Consistent
<1>. QED  BY <1>1, ConsistentAlways, PTL

-----------------------------------------------------------------------------
(* Refinement: every commit is a step the contract allows.                 *)

StatusOf == [a \in Activities |-> IF row[a] = Null THEN Null ELSE row[a].status]
ResponsibleOf == [a \in Activities |-> IF row[a] = Null THEN Null ELSE row[a].assignedTo]

(* The contract and the component speak of the same rule table.            *)
LEMMA SameTable ==
  /\ Contract!Statuses = Statuses
  /\ Contract!SystemEdges = SystemEdges
  /\ Contract!AssigneeEdges = AssigneeEdges
  /\ Contract!MemberEdges = MemberEdges
  /\ Contract!Edges = Edges
  /\ \A m : Contract!InitialStatus(m) = InitialStatus(m)
  /\ \A e : Contract!EventOf(e) = EventOf(e)
<1>1. Contract!Statuses = Statuses
  BY DEF Contract!Statuses, Statuses
<1>2. Contract!SystemEdges = SystemEdges
  BY DEF Contract!SystemEdges, SystemEdges
<1>3. Contract!AssigneeEdges = AssigneeEdges
  BY DEF Contract!AssigneeEdges, AssigneeEdges
<1>4. Contract!MemberEdges = MemberEdges
  BY DEF Contract!MemberEdges, MemberEdges, Contract!CancelEdges, CancelEdges,
         Contract!CancelSources, CancelSources
<1>5. Contract!Edges = Edges
  BY <1>2, <1>3, <1>4 DEF Contract!Edges, Edges
<1>6. \A m : Contract!InitialStatus(m) = InitialStatus(m)
  BY DEF Contract!InitialStatus, InitialStatus
<1>7. \A e : Contract!EventOf(e) = EventOf(e)
  BY DEF Contract!EventOf, EventOf
<1>. QED  BY <1>1, <1>2, <1>3, <1>4, <1>5, <1>6, <1>7

(* A permitted request is one the contract authorises: the assignee of the *)
(* row is the person responsible, and the origin of an overdue row is what *)
(* the last event says.                                                    *)
LEMMA PermittedIsAuthorised ==
  ASSUME Consistent, NEW q \in Request, Permitted(q)
  PROVE  Contract!Authorised(q.act, <<row[q.act].status, q.to>>, q.actor)
<1>. DEFINE a == q.act
            x == row[a]
            e == <<x.status, q.to>>
<1>1. a \in Activities /\ x # Null /\ q.actor \in Members \cup {Null}
  BY DEF Permitted, Alive, Request
<1>2. ResponsibleOf[a] = x.assignedTo
  BY <1>1 DEF ResponsibleOf
<1>3. CASE q.actor = Null
  <2>1. e \in SystemEdges
    BY <1>3 DEF Permitted, SystemMay
  <2>. QED  BY <1>3, <2>1, SameTable DEF Contract!Authorised
<1>4. CASE q.actor # Null
  <2>1. UserMay(x, q.to, q.actor)
    BY <1>4 DEF Permitted
  <2>2. CASE e \in MemberEdges
    BY <1>1, <1>4, <2>2, SameTable DEF Contract!Authorised
  <2>3. CASE e \in AssigneeEdges
    <3>1. q.actor = x.assignedTo
      BY <2>1, <2>3 DEF UserMay
    <3>2. ASSUME e[1] = "overdue"
          PROVE  Contract!AwaitedAnswer(a)
      <4>1. x.status = "overdue" /\ q.to = "not_assisting"
        BY <2>3, <3>2 DEF AssigneeEdges
      <4>2. OverdueOrigin(x) = "assigned"
        BY <2>1, <4>1 DEF UserMay
      <4>3. outbox[a][Len(outbox[a])].from = "assigned"
        BY <1>1, <4>1, <4>2 DEF Consistent, OriginMatchesHistory, LastEvent
      <4>4. outbox[a] # <<>>
        <5>1. Len(outbox[a]) = x.version /\ x.version > 0
          BY <1>1 DEF Consistent, HistoryMatchesRow
        <5>. QED  BY <5>1
      <4>. QED  BY <4>3, <4>4 DEF Contract!AwaitedAnswer
    <3>. QED
      BY <1>1, <1>2, <1>4, <2>3, <3>1, <3>2, SameTable DEF Contract!Authorised, ResponsibleOf
  <2>. QED  BY <2>1, <2>2, <2>3 DEF UserMay
<1>. QED  BY <1>3, <1>4

LEMMA ContractInitStep == Init => Contract!ContractInit
BY DEF Init, Contract!ContractInit

LEMMA ContractNextStep ==
  ASSUME Consistent, [Next]_vars
  PROVE  [Contract!ContractNext]_(Contract!cvars)
<1>0. TypeOK
  BY DEF Consistent
<1>1. /\ row \in [Activities -> Row \cup {Null}]
      /\ outbox \in [Activities -> Seq(OutboxEvent)]
  BY DEF Consistent, TypeOK
<1>2. CASE UNCHANGED <<row, outbox>>
  BY <1>2 DEF Contract!cvars
<1>3. ASSUME NEW a \in Activities, NEW u \in Members, NEW m \in Members \cup {Null},
             NEW s \in Schedules, Create(a, u, m, s)
      PROVE  Contract!ContractNext
  <2>. DEFINE r == InitialRow(u, m, s)
              e == [version |-> 1, from |-> "new", to |-> r.status,
                    event |-> r.status, actor |-> u]
  <2>1. /\ row[a] = Null
        /\ row' = [row EXCEPT ![a] = r]
        /\ outbox' = [outbox EXCEPT ![a] = Append(@, e)]
    BY <1>3 DEF Create
  <2>9. r # Null
    BY <1>0, InitialRowType
  <2>2. r.status = InitialStatus(m) /\ r.assignedTo = m
    BY DEF InitialRow
  <2>3. outbox[a] = <<>>
    BY <2>1 DEF Consistent, HistoryMatchesRow
  <2>4. e = [version |-> Len(outbox[a]) + 1, from |-> "new", to |-> InitialStatus(m),
             event |-> InitialStatus(m), actor |-> u]
    BY <2>2, <2>3
  <2>. HIDE DEF r, e
  <2>5. StatusOf[a] = Null
    BY <2>1 DEF StatusOf
  <2>6. StatusOf' = [StatusOf EXCEPT ![a] = InitialStatus(m)]
    BY <1>1, <2>1, <2>2, <2>9 DEF StatusOf
  <2>7. ResponsibleOf' = [ResponsibleOf EXCEPT ![a] = m]
    BY <1>1, <2>1, <2>2, <2>9 DEF ResponsibleOf
  <2>8. Contract!Open(a, u, m)
    BY <2>1, <2>4, <2>5, <2>6, <2>7, SameTable
    DEF Contract!Open, Contract!Publish, Contract!Event, StatusOf, ResponsibleOf
  <2>. QED  BY <2>8 DEF Contract!ContractNext
<1>4. ASSUME NEW p \in Processes, Commit(p)
      PROVE  Contract!ContractNext
  <2>. DEFINE s == held[p]
              q == s.req
              a == q.act
              r == NextRow(row[a], q.to, s.at, q.assignee, q.deletes)
              e == [version |-> r.version, from |-> s.from, to |-> q.to,
                    event |-> EventOf(<<s.from, q.to>>), actor |-> q.actor]
  <2>1. /\ q \in Request /\ a \in Activities /\ WellFormed(q) /\ Permitted(q)
        /\ row[a] \in Row /\ row[a] # Null /\ row[a].status = s.from
        /\ <<s.from, q.to>> \in Edges
        /\ r # Null /\ r.status = q.to /\ r.version = row[a].version + 1
        /\ r.assignedTo = (IF q.assignee = Null THEN row[a].assignedTo ELSE q.assignee)
        /\ row' = [row EXCEPT ![a] = r]
        /\ outbox' = [outbox EXCEPT ![a] = Append(@, e)]
    BY <1>4, CommitFacts
  <2>2. Contract!Authorised(a, <<s.from, q.to>>, q.actor)
    BY <2>1, PermittedIsAuthorised
  <2>3. Len(outbox[a]) = row[a].version
    BY <2>1 DEF Consistent, HistoryMatchesRow
  <2>4. e = [version |-> Len(outbox[a]) + 1, from |-> s.from, to |-> q.to,
             event |-> EventOf(<<s.from, q.to>>), actor |-> q.actor]
    BY <2>1, <2>3
  <2>5. /\ q.to \in Statuses /\ q.actor \in Members \cup {Null}
        /\ q.assignee \in Members \cup {Null}
        /\ (q.assignee # Null) <=> (q.to = "assigned")
    BY <2>1 DEF Request, WellFormed
  <2>. HIDE DEF s, q, a, r, e
  <2>6. StatusOf[a] = s.from
    BY <2>1 DEF StatusOf
  <2>7. StatusOf' = [StatusOf EXCEPT ![a] = q.to]
    BY <1>1, <2>1 DEF StatusOf
  <2>8. ResponsibleOf' =
          [ResponsibleOf EXCEPT ![a] = IF q.assignee = Null THEN @ ELSE q.assignee]
    BY <1>1, <2>1 DEF ResponsibleOf
  <2>9. PICK b \in Activities, to \in Statuses : b = a /\ to = q.to
    BY <2>1, <2>5
  <2>10. Contract!Move(b, to)
    BY <2>1, <2>2, <2>4, <2>5, <2>6, <2>7, <2>8, <2>9, SameTable
    DEF Contract!Move, Contract!Publish, Contract!Event, StatusOf, ResponsibleOf
  <2>11. to \in Contract!Statuses
    BY SameTable
  <2>. QED  BY <2>10, <2>11 DEF Contract!ContractNext
<1>. QED  BY <1>2, <1>3, <1>4, QuietSteps

(* The component keeps the contract: a status changes only along an edge   *)
(* of the rule table, by an actor that edge allows at that moment, and     *)
(* every change is published exactly once, in order, as it happened.       *)
THEOREM LifecycleKeepsContract == Spec => ImplementsContract
<1>1. Spec => []Consistent
  BY ConsistentAlways
<1>2. Init => Contract!ContractInit
  BY ContractInitStep
<1>3. Consistent /\ [Next]_vars => [Contract!ContractNext]_(Contract!cvars)
  BY ContractNextStep
<1>. QED  BY <1>1, <1>2, <1>3, PTL DEF Spec, ImplementsContract, Contract!ContractSpec

-----------------------------------------------------------------------------
(* Time and timers.  Decisions are taken in time because a schedule never  *)
(* changes and a timer is never due before what it stands for; a needed    *)
(* timer is never lost because the job that takes it off the queue keeps   *)
(* its decision until it has been executed, and only a commit on the same  *)
(* row makes the execution miss.                                           *)

(* What a process has decided to begin or to end was due.                  *)
DecidedOn(q) ==
  /\ q.to = "in_progress" => row[q.act] # Null /\ row[q.act].start <= now
  /\ q.to = "verify" => row[q.act] # Null /\ EndAnchor(row[q.act]) <= now

RequestsOnTime ==
  \A p \in Processes :
    /\ \A q \in pending[p] : DecidedOn(q)
    /\ held[p] # Null => DecidedOn(held[p].req)

(* A timer is of a version the row has had, and due when its kind is.      *)
TimerSound(t) ==
  /\ row[t.act] # Null /\ t.version <= row[t.act].version
  /\ t.kind = "start" => t.due = row[t.act].start
  /\ t.kind = "end" => t.due = EndAnchor(row[t.act])

TimersSound ==
  /\ \A t \in timers : TimerSound(t)
  /\ \A p \in Processes : job[p] # Null => TimerSound(job[p])

(* A job executes the decision of its timer and nothing else, on a read    *)
(* that is not older than the timer.                                       *)
JobsInHand ==
  \A p \in Processes : job[p] # Null =>
    /\ p \in Workers
    /\ pending[p] \subseteq {SystemRequest(job[p].act, TargetStatus(job[p].kind))}
    /\ held[p] # Null => held[p].req.act = job[p].act /\ job[p].version <= held[p].version

OnTime == Consistent /\ TimersSound /\ RequestsOnTime /\ JobsInHand

(* Who moves the clock, and who takes or gives back a job.                 *)
LEMMA ClockAndJobs ==
  ASSUME [Next]_vars
  PROVE  /\ now' = now \/ now' = now + 1
         /\ \/ job' = job
            \/ \E w \in Workers, t \in timers : FireTimer(w, t)
            \/ \E w \in Workers : FinishTimer(w)
            \/ \E p \in Processes : Crash(p)
<1>1. ASSUME NEW c \in Clients, NEW a \in Activities, NEW u \in Members, Route(c, a, u)
      PROVE  UNCHANGED <<now, job>>
  BY <1>1 DEF Route, Complete, ConfirmAssignment, Delete, Cancel, DeclineAssignment, Assign, Accept
<1>2. ASSUME NEW p \in Processes, Execute(p)
      PROVE  UNCHANGED <<now, job>>
  <2>1. ASSUME NEW q \in pending[p], Load(p, q) \/ Drop(p, q) PROVE UNCHANGED <<now, job>>
    BY <2>1 DEF Load, Drop
  <2>2. CASE Commit(p) \/ Conflict(p)
    BY <2>2 DEF Commit, Conflict
  <2>. QED  BY <1>2, <2>1, <2>2 DEF Execute
<1>3. ASSUME NEW a \in Activities, NEW u \in Members, NEW m, NEW s, Create(a, u, m, s)
      PROVE  UNCHANGED <<now, job>>
  BY <1>3 DEF Create
<1>4. ASSUME NEW w \in Workers, Sweep(w) PROVE UNCHANGED <<now, job>>
  BY <1>4 DEF Sweep
<1>5. ASSUME NEW w \in Workers, FinishTimer(w) PROVE UNCHANGED now
  BY <1>5 DEF FinishTimer
<1>6. ASSUME NEW w, NEW t, FireTimer(w, t) PROVE UNCHANGED now
  BY <1>6 DEF FireTimer
<1>7. ASSUME NEW w, NEW t, DiscardTimer(w, t) PROVE UNCHANGED <<now, job>>
  BY <1>7 DEF DiscardTimer
<1>8. ASSUME NEW p, Crash(p) PROVE UNCHANGED now
  BY <1>8 DEF Crash
<1>9. ASSUME NEW t, LoseTimer(t) PROVE UNCHANGED <<now, job>>
  BY <1>9 DEF LoseTimer
<1>10. ASSUME Tick PROVE now' = now + 1 /\ UNCHANGED job
  BY <1>10 DEF Tick
<1>11. ASSUME UNCHANGED vars PROVE UNCHANGED <<now, job>>
  BY <1>11 DEF vars
<1>. QED  BY <1>1, <1>2, <1>3, <1>4, <1>5, <1>6, <1>7, <1>8, <1>9, <1>10, <1>11 DEF Next

(* The schedule of a row never changes, its version and the clock rise.    *)
LEMMA ScheduleIsKept ==
  ASSUME Consistent, [Next]_vars, NEW a \in Activities, row[a] # Null
  PROVE  /\ row'[a] # Null /\ row[a] \in Row /\ row'[a] \in Row
         /\ row'[a].start = row[a].start /\ row'[a].end = row[a].end
         /\ row[a].version <= row'[a].version
         /\ now \in Nat /\ now' \in Nat /\ now <= now'
<1>1. /\ row \in [Activities -> Row \cup {Null}] /\ row[a] \in Row
      /\ row[a].version \in Nat /\ now \in Nat
  BY DEF Consistent, TypeOK, Row
<1>2. now' \in Nat /\ now <= now'
  BY <1>1, ClockAndJobs
<1>3. CASE row' = row
  BY <1>1, <1>2, <1>3
<1>4. ASSUME NEW b \in Activities, NEW u \in Members, NEW m \in Members \cup {Null},
             NEW s \in Schedules, Create(b, u, m, s)
      PROVE  row'[a] = row[a]
  BY <1>1, <1>4, CreateFacts DEF Consistent
<1>5. ASSUME NEW p \in Processes, Commit(p)
      PROVE  /\ row'[a] # Null /\ row'[a] \in Row
             /\ row'[a].start = row[a].start /\ row'[a].end = row[a].end
             /\ row[a].version <= row'[a].version
  <2>. DEFINE q == held[p].req
              r == NextRow(row[q.act], q.to, held[p].at, q.assignee, q.deletes)
  <2>1. r \in Row /\ r # Null /\ r.version = row[q.act].version + 1
        /\ row' = [row EXCEPT ![q.act] = r] /\ q.act \in Activities
    BY <1>5, CommitFacts
  <2>2. r.start = row[q.act].start /\ r.end = row[q.act].end
    BY DEF NextRow
  <2>. HIDE DEF q, r
  <2>. QED  BY <1>1, <2>1, <2>2
<1>. QED  BY <1>1, <1>2, <1>3, <1>4, <1>5, QuietSteps

(* What was decided in time, and a sound timer, stay so.                   *)
LEMMA DecisionStays ==
  ASSUME Consistent, [Next]_vars, NEW q \in Request, DecidedOn(q)
  PROVE  DecidedOn(q)'
<1>1. q.act \in Activities
  BY DEF Request
<1>2. ASSUME row[q.act] # Null
      PROVE  /\ row'[q.act] # Null /\ row'[q.act].start = row[q.act].start
             /\ EndAnchor(row'[q.act]) = EndAnchor(row[q.act])
             /\ row[q.act].start \in Nat /\ EndAnchor(row[q.act]) \in Nat
             /\ now \in Nat /\ now' \in Nat /\ now <= now'
  BY <1>1, <1>2, ScheduleIsKept DEF Row, EndAnchor, Time
<1>. QED  BY <1>2 DEF DecidedOn

LEMMA TimerStaysSound ==
  ASSUME Consistent, [Next]_vars, NEW t \in Timer, TimerSound(t)
  PROVE  TimerSound(t)'
<1>1. t.act \in Activities /\ t.version \in Nat
  BY DEF Timer
<1>2. /\ row'[t.act] # Null /\ row'[t.act].start = row[t.act].start
      /\ EndAnchor(row'[t.act]) = EndAnchor(row[t.act])
      /\ row[t.act].version <= row'[t.act].version
      /\ row[t.act].version \in Nat /\ row'[t.act].version \in Nat
  BY <1>1, ScheduleIsKept DEF TimerSound, Row, EndAnchor
<1>. QED  BY <1>1, <1>2 DEF TimerSound

(* wireTimers() enqueues sound timers.                                     *)
LEMMA EnqueuedSound ==
  ASSUME NEW a \in Activities, NEW r \in Row, r # Null, row'[a] = r,
         NEW t \in Enqueued(a, r)
  PROVE  TimerSound(t)'
<1>1. PICK k \in EnqueueKinds(r.status) :
        t = [kind |-> k, act |-> a, version |-> r.version, due |-> TimerTarget(k, r)]
  BY DEF Enqueued
<1>2. /\ k = "start" => TimerTarget(k, r) = r.start
      /\ k = "end" => TimerTarget(k, r) = EndAnchor(r)
  BY DEF TimerTarget
<1>3. r.version <= r.version
  BY DEF Row
<1>4. t.kind = k /\ t.act = a /\ t.version = r.version /\ t.due = TimerTarget(k, r)
  BY <1>1
<1>. QED  BY <1>2, <1>3, <1>4 DEF TimerSound

LEMMA TimersSoundNext ==
  ASSUME Consistent, TimersSound, [Next]_vars
  PROVE  TimersSound'
<1>1. /\ timers \subseteq Timer /\ job \in [Processes -> Timer \cup {Null}]
      /\ row \in [Activities -> Row \cup {Null}] /\ TypeOK
  BY DEF Consistent, TypeOK
<1>. DEFINE old == timers \cup { job[p] : p \in { z \in Processes : job[z] # Null } }
<1>2. \A t \in old : t \in Timer /\ TimerSound(t)
  BY <1>1 DEF TimersSound
<1>3. \A t \in old : TimerSound(t)'
  BY <1>2, TimerStaysSound
<1>4. \A p \in Processes : job'[p] # Null => job'[p] \in old
  BY <1>1, ClockAndJobs DEF FireTimer, FinishTimer, Crash, Processes
<1>5. CASE timers' \subseteq old
  BY <1>3, <1>4, <1>5 DEF TimersSound
<1>6. ASSUME NEW a \in Activities, NEW r \in Row, r # Null, row' = [row EXCEPT ![a] = r],
             NEW v, WireTimers(a, r, v)
      PROVE  TimersSound'
  <2>1. timers' \subseteq old \cup Enqueued(a, r)
    BY <1>6 DEF WireTimers
  <2>2. \A t \in Enqueued(a, r) : TimerSound(t)'
    BY <1>1, <1>6, EnqueuedSound
  <2>. QED  BY <1>3, <1>4, <2>1, <2>2 DEF TimersSound
<1>7. ASSUME NEW a \in Activities, NEW u \in Members, NEW m \in Members \cup {Null},
             NEW s \in Schedules, Create(a, u, m, s)
      PROVE  TimersSound'
  <2>. DEFINE r == InitialRow(u, m, s)
  <2>1. r \in Row /\ r # Null
    BY <1>1, InitialRowType
  <2>2. WireTimers(a, r, 0) /\ row' = [row EXCEPT ![a] = r]
    BY <1>7 DEF Create
  <2>. HIDE DEF r
  <2>. QED  BY <1>6, <2>1, <2>2
<1>8. ASSUME NEW p \in Processes, Commit(p) PROVE TimersSound'
  <2>. DEFINE q == held[p].req
              r == NextRow(row[q.act], q.to, held[p].at, q.assignee, q.deletes)
  <2>1. r \in Row /\ r # Null /\ row' = [row EXCEPT ![q.act] = r] /\ q.act \in Activities
    BY <1>8, CommitFacts
  <2>2. WireTimers(q.act, r, held[p].version)
    BY <1>8 DEF Commit
  <2>. HIDE DEF q, r
  <2>. QED  BY <1>6, <2>1, <2>2
<1>9. \/ timers' \subseteq old
      \/ \E a \in Activities, u \in Members, m \in Members \cup {Null}, s \in Schedules :
           Create(a, u, m, s)
      \/ \E p \in Processes : Commit(p)
  BY DEF Next, vars, Tick, Route, Complete, ConfirmAssignment, Delete, Cancel,
     DeclineAssignment, Assign, Accept, FireTimer, DiscardTimer, Sweep, FinishTimer,
     Execute, Load, Drop, Conflict, Crash, LoseTimer
<1>. QED  BY <1>5, <1>7, <1>8, <1>9

LEMMA RequestsOnTimeNext ==
  ASSUME Consistent, TimersSound, RequestsOnTime, [Next]_vars
  PROVE  RequestsOnTime'
<1>1. /\ TypeOK
      /\ row \in [Activities -> Row \cup {Null}] /\ timers \subseteq Timer /\ now \in Nat
      /\ held \in [Processes -> Snapshot \cup {Null}]
      /\ pending \in [Processes -> SUBSET Request]
  BY DEF Consistent, TypeOK
<1>2. /\ \A p \in Processes : \A q \in pending[p] : DecidedOn(q)'
      /\ \A p \in Processes : held[p] # Null => \E q : q = held[p].req /\ DecidedOn(q)'
  <2>1. \A p \in Processes : \A q \in pending[p] : q \in Request /\ DecidedOn(q)
    BY <1>1 DEF RequestsOnTime
  <2>2. \A p \in Processes : held[p] # Null => held[p].req \in Request /\ DecidedOn(held[p].req)
    BY <1>1 DEF RequestsOnTime, Snapshot
  <2>3. ASSUME NEW p \in Processes, NEW q \in pending[p] PROVE DecidedOn(q)'
    BY <2>1, DecisionStays
  <2>4. ASSUME NEW p \in Processes, held[p] # Null
        PROVE  \E q : q = held[p].req /\ DecidedOn(q)'
    <3>1. PICK q \in Request : q = held[p].req /\ DecidedOn(q)
      BY <2>2, <2>4
    <3>. QED  BY <3>1, DecisionStays
  <2>. QED  BY <2>3, <2>4
<1>3. ASSUME \A p \in Processes :
               /\ \A q \in pending'[p] : q \in pending[p] \/ DecidedOn(q)'
               /\ held'[p] # Null => held'[p] = held[p] \/ held'[p].req \in pending[p]
      PROVE  RequestsOnTime'
  <2>1. ASSUME NEW p \in Processes, NEW q \in pending'[p] PROVE DecidedOn(q)'
    BY <1>2, <1>3
  <2>2. ASSUME NEW p \in Processes, held'[p] # Null
        PROVE  \E q : q = held'[p].req /\ DecidedOn(q)'
    BY <1>2, <1>3, <2>2
  <2>. QED  BY <2>1, <2>2 DEF RequestsOnTime, DecidedOn
<1>4. ASSUME NEW c \in Clients, NEW a \in Activities, NEW u \in Members, Route(c, a, u)
      PROVE  RequestsOnTime'
  <2>1. ASSUME NEW to, NEW m, NEW d, Accept(c, a, u, to, m, d), to \notin {"in_progress", "verify"}
        PROVE  RequestsOnTime'
    <3>0. PICK q : q = [act |-> a, to |-> to, actor |-> u, assignee |-> m, deletes |-> d]
      OBVIOUS
    <3>1. q.to = to
      BY <3>0
    <3>2. pending' = [pending EXCEPT ![c] = {q}] /\ held' = held
      BY <2>1, <3>0 DEF Accept
    <3>3. DecidedOn(q)'
      BY <2>1, <3>1 DEF DecidedOn
    <3>. QED  BY <1>1, <1>3, <3>2, <3>3
  <2>2. \E to \in {"done", "assisting", "cancelled", "not_assisting", "assigned"} : \E m, d :
          Accept(c, a, u, to, m, d)
    BY <1>4 DEF Route, Complete, ConfirmAssignment, Delete, Cancel, DeclineAssignment, Assign
  <2>. QED  BY <2>1, <2>2
<1>5. ASSUME NEW w \in Workers, NEW t \in timers, FireTimer(w, t)
      PROVE  RequestsOnTime'
  <2>0. PICK q : q = SystemRequest(t.act, TargetStatus(t.kind))
    OBVIOUS
  <2>1. q \in Request /\ q.act = t.act /\ q.to = TargetStatus(t.kind)
    BY <1>1, <2>0, SystemRequestType DEF SystemRequest, Timer, TimerKinds, TargetStatus, Statuses
  <2>2. t.due <= now /\ TimerSound(t) /\ row[t.act] # Null
    BY <1>5 DEF FireTimer, TimersSound, TimerSound
  <2>3. /\ q.to = "in_progress" => t.kind = "start"
        /\ q.to = "verify" => t.kind = "end"
    BY <2>1 DEF TargetStatus
  <2>4. pending' = [pending EXCEPT ![w] = {q}] /\ held' = held
    BY <1>5, <2>0 DEF FireTimer
  <2>5. DecidedOn(q)
    BY <2>1, <2>2, <2>3 DEF DecidedOn, TimerSound
  <2>. QED  BY <1>1, <1>3, <2>1, <2>4, <2>5, DecisionStays
<1>6. ASSUME NEW w \in Workers, Sweep(w)
      PROVE  RequestsOnTime'
  <2>1. PICK S \in SUBSET Due :
          pending' = [pending EXCEPT ![w] = { SystemRequest(a, DueTarget(row[a])) : a \in S }]
    BY <1>6 DEF Sweep
  <2>2. held' = held
    BY <1>6 DEF Sweep
  <2>3. ASSUME NEW a \in Due
        PROVE  \E q : q = SystemRequest(a, DueTarget(row[a])) /\ DecidedOn(q)'
    <3>0. PICK q : q = SystemRequest(a, DueTarget(row[a]))
      OBVIOUS
    <3>1. a \in Activities /\ row[a] # Null /\ DueAnchor(row[a]) <= now
      BY DEF Due, IsDue
    <3>2. q \in Request /\ q.act = a /\ q.to = DueTarget(row[a])
      BY <3>0, <3>1, SystemRequestType DEF SystemRequest, DueTarget, Statuses
    <3>3. /\ q.to = "in_progress" => DueAnchor(row[a]) = row[a].start
          /\ q.to = "verify" => DueAnchor(row[a]) = EndAnchor(row[a])
      BY <3>2 DEF DueTarget, DueAnchor
    <3>4. DecidedOn(q)
      BY <3>1, <3>2, <3>3 DEF DecidedOn
    <3>. QED  BY <3>0, <3>2, <3>4, DecisionStays
  <2>4. ASSUME NEW p \in Processes, NEW q \in pending'[p], q \notin pending[p] PROVE DecidedOn(q)'
    <3>1. PICK a \in S : q = SystemRequest(a, DueTarget(row[a]))
      BY <1>1, <2>1, <2>4
    <3>. QED  BY <2>3, <3>1
  <2>. QED  BY <1>3, <2>2, <2>4
<1>7. ASSUME NEW p \in Processes, NEW q \in pending[p], Load(p, q)
      PROVE  RequestsOnTime'
  <2>. DEFINE s == [req |-> q, from |-> row[q.act].status,
                    version |-> row[q.act].version, at |-> now]
  <2>1. s.req = q
    OBVIOUS
  <2>2. held' = [held EXCEPT ![p] = s] /\ pending' = [pending EXCEPT ![p] = @ \ {q}]
    BY <1>7 DEF Load
  <2>. HIDE DEF s
  <2>. QED  BY <1>1, <1>3, <2>1, <2>2
<1>8. ASSUME \A p \in Processes : /\ pending'[p] \subseteq pending[p]
                                  /\ held'[p] = held[p] \/ held'[p] = Null
      PROVE  RequestsOnTime'
  BY <1>3, <1>8
<1>. QED
  <2>1. \/ \A p \in Processes : /\ pending'[p] \subseteq pending[p]
                                /\ held'[p] = held[p] \/ held'[p] = Null
        \/ \E c \in Clients, a \in Activities, u \in Members : Route(c, a, u)
        \/ \E w \in Workers, t \in timers : FireTimer(w, t)
        \/ \E w \in Workers : Sweep(w)
        \/ \E p \in Processes : \E q \in pending[p] : Load(p, q)
    BY <1>1, DecisionSteps
  <2>. QED  BY <1>4, <1>5, <1>6, <1>7, <1>8, <2>1

LEMMA JobsInHandNext ==
  ASSUME Consistent, TimersSound, JobsInHand, [Next]_vars
  PROVE  JobsInHand'
<1>1. /\ TypeOK
      /\ row \in [Activities -> Row \cup {Null}] /\ timers \subseteq Timer
      /\ held \in [Processes -> Snapshot \cup {Null}]
      /\ pending \in [Processes -> SUBSET Request]
      /\ job \in [Processes -> Timer \cup {Null}]
  BY DEF Consistent, TypeOK
<1>2. ASSUME \A p \in Processes : job'[p] # Null =>
               /\ job'[p] = job[p] /\ pending'[p] \subseteq pending[p]
               /\ held'[p] # Null => held'[p] = held[p]
      PROVE  JobsInHand'
  BY <1>2 DEF JobsInHand, SystemRequest
<1>3. ASSUME NEW c \in Clients, NEW a \in Activities, NEW u \in Members, Route(c, a, u)
      PROVE  JobsInHand'
  <2>1. job' = job /\ held' = held /\ \A p \in Processes : p # c => pending'[p] = pending[p]
    BY <1>1, <1>3 DEF Route, Complete, ConfirmAssignment, Delete, Cancel, DeclineAssignment, Assign, Accept
  <2>2. c \notin Workers
    BY LifecycleAssumption
  <2>. QED  BY <1>2, <2>1, <2>2 DEF JobsInHand
<1>4. ASSUME NEW w \in Workers, NEW t \in timers, FireTimer(w, t)
      PROVE  JobsInHand'
  <2>1. /\ job' = [job EXCEPT ![w] = t] /\ held' = held /\ held[w] = Null
        /\ pending' = [pending EXCEPT ![w] = {SystemRequest(t.act, TargetStatus(t.kind))}]
    BY <1>4 DEF FireTimer, IsIdle
  <2>2. w \in Processes
    BY DEF Processes
  <2>. QED  BY <1>1, <2>1, <2>2 DEF JobsInHand, SystemRequest
<1>5. ASSUME NEW w \in Workers, Sweep(w)
      PROVE  JobsInHand'
  <2>1. /\ job[w] = Null /\ job' = job /\ held' = held
        /\ \A p \in Processes : p # w => pending'[p] = pending[p]
    BY <1>1, <1>5 DEF Sweep
  <2>. QED  BY <1>2, <2>1
<1>6. ASSUME NEW p \in Processes, NEW q \in pending[p], Load(p, q)
      PROVE  JobsInHand'
  <2>. DEFINE s == [req |-> q, from |-> row[q.act].status,
                    version |-> row[q.act].version, at |-> now]
  <2>1. s.req = q /\ s.version = row[q.act].version
    OBVIOUS
  <2>2. held' = [held EXCEPT ![p] = s] /\ pending' = [pending EXCEPT ![p] = @ \ {q}] /\ job' = job
    BY <1>6 DEF Load
  <2>. HIDE DEF s
  <2>3. job[p] # Null => q.act = job[p].act /\ job[p].version <= s.version
    <3>1. job[p] # Null => q = SystemRequest(job[p].act, TargetStatus(job[p].kind))
      BY DEF JobsInHand
    <3>2. job[p] # Null => q.act = job[p].act
      BY <3>1 DEF SystemRequest
    <3>. QED  BY <2>1, <3>2 DEF TimersSound, TimerSound
  <2>4. ASSUME NEW z \in Processes, job'[z] # Null
        PROVE  /\ z \in Workers
               /\ pending'[z] \subseteq {SystemRequest(job'[z].act, TargetStatus(job'[z].kind))}
               /\ held'[z] # Null => held'[z].req.act = job'[z].act /\ job'[z].version <= held'[z].version
    BY <1>1, <2>1, <2>2, <2>3, <2>4 DEF JobsInHand
  <2>. QED  BY <2>4 DEF JobsInHand, SystemRequest
<1>7. \/ \A p \in Processes : job'[p] # Null =>
           /\ job'[p] = job[p] /\ pending'[p] \subseteq pending[p]
           /\ held'[p] # Null => held'[p] = held[p]
      \/ \E c \in Clients, a \in Activities, u \in Members : Route(c, a, u)
      \/ \E w \in Workers, t \in timers : FireTimer(w, t)
      \/ \E w \in Workers : Sweep(w)
      \/ \E p \in Processes : \E q \in pending[p] : Load(p, q)
  BY <1>1, DecisionSteps
<1>. QED  BY <1>2, <1>3, <1>4, <1>5, <1>6, <1>7

LEMMA OnTimeInit == Init => OnTime
<1>. SUFFICES ASSUME Init PROVE OnTime
  OBVIOUS
<1>1. TimersSound /\ RequestsOnTime /\ JobsInHand
  BY DEF Init, TimersSound, RequestsOnTime, JobsInHand
<1>. QED  BY <1>1, ConsistentInit DEF OnTime

LEMMA OnTimeNext == OnTime /\ [Next]_vars => OnTime'
BY ConsistentNext, TimersSoundNext, RequestsOnTimeNext, JobsInHandNext DEF OnTime

LEMMA OnTimeAlways == Spec => []OnTime
BY OnTimeInit, OnTimeNext, PTL DEF Spec

(* The system is never early, whatever is lost, crashes or is read stale:  *)
(* no activity begins before its start or goes to verification before its  *)
(* end.                                                                    *)
THEOREM SystemAlwaysOnTime == Spec => SystemActsOnTime
<1>1. ASSUME OnTime, [Next]_vars
      PROVE  [\A a \in Activities : row[a] # Null =>
                /\ Becomes(a, "in_progress") => row[a].start <= now
                /\ Becomes(a, "verify") => EndAnchor(row[a]) <= now]_vars
  <2>1. ASSUME NEW p \in Processes, Commit(p), NEW a \in Activities, row'[a] # row[a]
        PROVE  /\ row'[a].status = "in_progress" => row[a].start <= now
               /\ row'[a].status = "verify" => EndAnchor(row[a]) <= now
    <3>. DEFINE q == held[p].req
                r == NextRow(row[q.act], q.to, held[p].at, q.assignee, q.deletes)
    <3>0. Consistent /\ TypeOK
      BY <1>1 DEF OnTime, Consistent
    <3>1. r.status = q.to /\ row' = [row EXCEPT ![q.act] = r]
      <4>1. r.status = q.to
        BY DEF NextRow
      <4>. HIDE DEF r
      <4>2. row' = [row EXCEPT ![q.act] = NextRow(row[q.act], q.to, held[p].at, q.assignee, q.deletes)]
        BY <2>1 DEF Commit
      <4>. QED  BY <4>1, <4>2 DEF r
    <3>2. DecidedOn(q)
      <4>1. held[p] # Null
        BY <2>1 DEF Commit
      <4>. QED  BY <1>1, <4>1 DEF OnTime, RequestsOnTime
    <3>. HIDE DEF q, r
    <3>3. a = q.act /\ row'[a] = r
      BY <2>1, <3>0, <3>1 DEF TypeOK
    <3>. QED  BY <3>1, <3>2, <3>3 DEF DecidedOn
  <2>2. ASSUME NEW b \in Activities, NEW u \in Members, NEW m \in Members \cup {Null},
               NEW s \in Schedules, Create(b, u, m, s),
               NEW a \in Activities, row[a] # Null
        PROVE  row'[a] = row[a]
    <3>1. Consistent /\ TypeOK /\ row \in [Activities -> Row \cup {Null}]
      BY <1>1 DEF OnTime, Consistent, TypeOK
    <3>2. row[b] = Null /\ row' = [row EXCEPT ![b] = InitialRow(u, m, s)]
      BY <2>2 DEF Create
    <3>. QED  BY <2>2, <3>1, <3>2
  <2>. QED  BY <1>1, <2>1, <2>2, QuietSteps DEF Becomes, OnTime
<1>. QED  BY <1>1, OnTimeAlways, PTL DEF Spec, SystemActsOnTime

-----------------------------------------------------------------------------
(* Coverage.                                                               *)

Needed(a, k) ==
  [kind |-> k, act |-> a, version |-> row[a].version, due |-> DueAnchor(row[a])]

InHands(t) == \E w \in Workers : job[w] = t /\ ~IsIdle(w)

(* What a row waits for: its kind of timer is enqueued with the row, its   *)
(* handler finds it current, and the system may execute it.                *)
LEMMA WaitingRows ==
  ASSUME NEW r \in Row, ColumnsFitStatus(r), NEW t, NEW k \in WaitsFor(r, t)
  PROVE  /\ k \in EnqueueKinds(r.status) /\ k \in TimerKinds
         /\ TimerTarget(k, r) = DueAnchor(r) /\ TimerTarget(k, r) # Null
         /\ k = "start" => r.start > t
         /\ ~r.deletedAt /\ r.status \in ExpectedSource(k)
         /\ SystemMay(r, TargetStatus(k))
<1>1. r.start # Null /\ EndAnchor(r) # Null
  BY MapAssumption DEF Row, EndAnchor, Time
<1>2. CASE r.status \in {"created", "assigned"} /\ k = "response_timeout"
  BY <1>2 DEF EnqueueKinds, TimerKinds, TimerTarget, DueAnchor, ExpectedSource, SystemMay, SystemEdges,
              TargetStatus, ColumnsFitStatus
<1>3. CASE r.status = "assisting" /\ r.start > t /\ k = "start"
  BY <1>1, <1>3 DEF EnqueueKinds, TimerKinds, TimerTarget, DueAnchor, ExpectedSource, SystemMay,
              SystemEdges, TargetStatus, ColumnsFitStatus
<1>4. CASE r.status = "in_progress" /\ k = "end"
  BY <1>1, <1>4 DEF EnqueueKinds, TimerKinds, TimerTarget, DueAnchor, ExpectedSource, SystemMay,
              SystemEdges, TargetStatus, ColumnsFitStatus
<1>5. CASE r.status = "verify" /\ k = "verify_timeout"
  BY <1>5 DEF EnqueueKinds, TimerKinds, TimerTarget, DueAnchor, ExpectedSource, SystemMay, SystemEdges,
              TargetStatus, ColumnsFitStatus
<1>. QED  BY <1>2, <1>3, <1>4, <1>5 DEF WaitsFor

(* A needed timer leaves the queue only into the hands of a worker.        *)
LEMMA NeededInQueue ==
  ASSUME OnTime, Faults = {}, [Next]_vars,
         NEW a \in Activities, row[a] # Null, row'[a] = row[a],
         NEW k \in WaitsFor(row[a], now), NEW t, t = Needed(a, k), t \in timers
  PROVE  t \in timers' \/ InHands(t)'
<1>1. /\ Consistent /\ TypeOK
      /\ row \in [Activities -> Row \cup {Null}] /\ row[a] \in Row
      /\ pending \in [Processes -> SUBSET Request]
      /\ job \in [Processes -> Timer \cup {Null}]
  BY DEF OnTime, Consistent, TypeOK
<1>2. t.act = a /\ t.kind = k /\ t.version = row[a].version
  BY DEF Needed
<1>3. IsCurrent(t)
  BY <1>1, <1>2, WaitingRows DEF IsCurrent, Alive, Consistent, ColumnsMatchStatus
<1>4. ASSUME NEW w \in Workers, NEW x \in timers, FireTimer(w, x)
      PROVE  t \in timers' \/ InHands(t)'
  <2>1. CASE x = t
    <3>1. w \in Processes
      BY DEF Processes
    <3>2. PICK q : q = SystemRequest(t.act, TargetStatus(t.kind))
      OBVIOUS
    <3>3. job'[w] = t /\ q \in pending'[w]
      BY <1>1, <1>4, <2>1, <3>1, <3>2 DEF FireTimer
    <3>. QED  BY <3>3 DEF InHands, IsIdle
  <2>. QED  BY <1>4, <2>1 DEF FireTimer
<1>5. ASSUME NEW w \in Workers, NEW x \in timers, DiscardTimer(w, x)
      PROVE  t \in timers'
  BY <1>3, <1>5 DEF DiscardTimer
<1>6. ASSUME NEW b \in Activities, NEW r, NEW v, WireTimers(b, r, v), b # a
      PROVE  t \in timers'
  BY <1>2, <1>6 DEF WireTimers, Cancelled
<1>7. ASSUME NEW b \in Activities, NEW u \in Members, NEW m \in Members \cup {Null},
             NEW s \in Schedules, Create(b, u, m, s)
      PROVE  t \in timers'
  BY <1>6, <1>7 DEF Create
<1>8. ASSUME NEW p \in Processes, Commit(p)
      PROVE  t \in timers'
  <2>. DEFINE q == held[p].req
              r == NextRow(row[q.act], q.to, held[p].at, q.assignee, q.deletes)
  <2>1. /\ q.act \in Activities /\ row[q.act] \in Row
        /\ r.version = row[q.act].version + 1 /\ row' = [row EXCEPT ![q.act] = r]
    BY <1>1, <1>8, CommitFacts
  <2>2. WireTimers(q.act, r, held[p].version)
    BY <1>8 DEF Commit
  <2>. HIDE DEF q, r
  <2>3. q.act # a
    BY <1>1, <2>1 DEF Row
  <2>. QED  BY <1>6, <2>1, <2>2, <2>3
<1>9. \/ timers \subseteq timers'
      \/ \E w \in Workers, x \in timers : FireTimer(w, x) \/ DiscardTimer(w, x)
      \/ \E b \in Activities, u \in Members, m \in Members \cup {Null}, s \in Schedules :
           Create(b, u, m, s)
      \/ \E p \in Processes : Commit(p)
  BY DEF Next, vars, Tick, Route, Complete, ConfirmAssignment, Delete, Cancel,
     DeclineAssignment, Assign, Accept, Sweep, FinishTimer,
     Execute, Load, Drop, Conflict, Crash, LoseTimer
<1>. QED  BY <1>4, <1>5, <1>7, <1>8, <1>9

(* A worker that holds it keeps it until the row has moved.                *)
LEMMA NeededInHands ==
  ASSUME OnTime, Faults = {}, [Next]_vars,
         NEW a \in Activities, row[a] # Null, row'[a] = row[a],
         NEW k \in WaitsFor(row[a], now), NEW t, t = Needed(a, k), InHands(t)
  PROVE  InHands(t)'
<1>1. /\ Consistent /\ TypeOK
      /\ row \in [Activities -> Row \cup {Null}] /\ row[a] \in Row
      /\ held \in [Processes -> Snapshot \cup {Null}]
      /\ pending \in [Processes -> SUBSET Request]
      /\ job \in [Processes -> Timer \cup {Null}]
  BY DEF OnTime, Consistent, TypeOK
<1>2. t.act = a /\ t.kind = k /\ t.version = row[a].version /\ t # Null
  <2>1. t.act = a /\ t.kind = k /\ t.version = row[a].version
    BY DEF Needed
  <2>2. PICK w \in Workers : job[w] = t /\ ~IsIdle(w)
    BY DEF InHands
  <2>3. t # Null
    <3>1. t \in Timer
      BY <1>1, <2>1, WaitingRows DEF Needed, Timer, Row, Consistent, ColumnsMatchStatus,
         DueAnchor, WaitsFor, EndAnchor, Time, ColumnsFitStatus
    <3>. QED  BY <3>1, LifecycleAssumption
  <2>. QED  BY <2>1, <2>3
<1>3. PICK w \in Workers : job[w] = t /\ ~IsIdle(w)
  BY DEF InHands
<1>4. w \in Processes /\ w \notin Clients
  BY LifecycleAssumption DEF Processes
<1>5. PICK q : q = SystemRequest(a, TargetStatus(k))
  OBVIOUS
<1>6. /\ pending[w] \subseteq {q}
      /\ held[w] # Null => held[w].req.act = a /\ row[a].version <= held[w].version
  BY <1>2, <1>3, <1>4, <1>5 DEF OnTime, JobsInHand
<1>7. Alive(a) /\ SystemMay(row[a], TargetStatus(k))
  BY <1>1, WaitingRows DEF Alive, Consistent, ColumnsMatchStatus
<1>8. Permitted(q)
  BY <1>5, <1>7 DEF Permitted, SystemRequest
<1>9. SUFFICES job'[w] = t /\ (pending'[w] # {} \/ held'[w] # Null)
  BY DEF InHands, IsIdle
<1>10. CASE UNCHANGED <<pending, held, job>>
  BY <1>3, <1>10 DEF IsIdle
<1>11. ASSUME NEW c \in Clients, NEW b \in Activities, NEW u \in Members, Route(c, b, u)
       PROVE  job'[w] = t /\ (pending'[w] # {} \/ held'[w] # Null)
  <2>1. job' = job /\ held' = held /\ pending'[w] = pending[w]
    BY <1>1, <1>4, <1>11 DEF Route, Complete, ConfirmAssignment, Delete, Cancel,
       DeclineAssignment, Assign, Accept
  <2>. QED  BY <1>3, <2>1 DEF IsIdle
<1>12. ASSUME NEW v \in Workers,
              \/ Sweep(v)
              \/ FinishTimer(v)
              \/ \E x \in timers : FireTimer(v, x)
       PROVE  job'[w] = t /\ (pending'[w] # {} \/ held'[w] # Null)
  <2>0. IsIdle(v) /\ held' = held
    BY <1>12 DEF Sweep, FinishTimer, FireTimer
  <2>1. v # w
    BY <1>3, <2>0
  <2>2. job'[w] = job[w] /\ pending'[w] = pending[w]
    BY <1>1, <1>4, <1>12, <2>1 DEF Sweep, FinishTimer, FireTimer
  <2>. QED  BY <1>3, <2>0, <2>2 DEF IsIdle
<1>13. ASSUME NEW p \in Processes, NEW x \in pending[p], Load(p, x)
       PROVE  job'[w] = t /\ (pending'[w] # {} \/ held'[w] # Null)
  <2>. DEFINE s == [req |-> x, from |-> row[x.act].status,
                    version |-> row[x.act].version, at |-> now]
  <2>1. held' = [held EXCEPT ![p] = s] /\ pending' = [pending EXCEPT ![p] = @ \ {x}] /\ job' = job
    BY <1>13 DEF Load
  <2>2. s # Null
    <3>1. held' \in [Processes -> Snapshot \cup {Null}]
      BY <1>1, TypeOKNext DEF TypeOK
    <3>2. s \in Snapshot
      <4>1. x \in Request /\ x.act \in Activities /\ row[x.act] # Null
        BY <1>1, <1>13 DEF Request, Load, Permitted, Alive
      <4>2. row[x.act] \in Row
        BY <1>1, <4>1
      <4>. QED  BY <1>1, <4>1, <4>2 DEF Snapshot, Row, TypeOK
    <3>. QED  BY <3>2, LifecycleAssumption
  <2>. HIDE DEF s
  <2>. QED  BY <1>1, <1>3, <1>4, <2>1, <2>2 DEF IsIdle
<1>14. ASSUME NEW p \in Processes, NEW x \in pending[p], Drop(p, x)
       PROVE  job'[w] = t /\ (pending'[w] # {} \/ held'[w] # Null)
  <2>1. p # w
    BY <1>6, <1>8, <1>14 DEF Drop
  <2>2. job'[w] = job[w] /\ pending'[w] = pending[w] /\ held' = held
    BY <1>1, <1>14, <2>1 DEF Drop
  <2>. QED  BY <1>3, <2>2 DEF IsIdle
<1>15. ASSUME NEW p \in Processes, Commit(p)
       PROVE  job'[w] = t /\ (pending'[w] # {} \/ held'[w] # Null)
  <2>. DEFINE d == held[p].req
              r == NextRow(row[d.act], d.to, held[p].at, d.assignee, d.deletes)
  <2>1. /\ d.act \in Activities /\ row[d.act] \in Row
        /\ r.version = row[d.act].version + 1 /\ row' = [row EXCEPT ![d.act] = r]
    BY <1>1, <1>15, CommitFacts
  <2>2. held[p] # Null
    BY <1>15 DEF Commit
  <2>. HIDE DEF r
  <2>3. d.act # a
    BY <1>1, <2>1 DEF Row
  <2>4. p # w
    BY <1>6, <2>2, <2>3
  <2>5. job'[w] = job[w] /\ pending'[w] = pending[w] /\ held'[w] = held[w]
    BY <1>1, <1>15, <2>4 DEF Commit
  <2>. QED  BY <1>3, <2>5 DEF IsIdle
<1>16. ASSUME NEW p \in Processes, Conflict(p)
       PROVE  job'[w] = t /\ (pending'[w] # {} \/ held'[w] # Null)
  <2>1. p # w
    <3>1. SUFFICES ASSUME held[w] # Null PROVE Matches(held[w])
      BY <1>16 DEF Conflict
    <3>2. held[w] \in Snapshot /\ held[w].version \in Nat /\ row[a].version \in Nat
      BY <1>1, <1>4, <3>1 DEF Snapshot, Row
    <3>3. SnapshotHolds(held[w])
      BY <1>1, <1>4, <3>1 DEF Consistent, SnapshotsHold
    <3>. QED  BY <1>6, <1>7, <3>1, <3>2, <3>3 DEF SnapshotHolds, Matches
  <2>2. job'[w] = job[w] /\ pending'[w] = pending[w] /\ held'[w] = held[w]
    BY <1>1, <1>16, <2>1 DEF Conflict
  <2>. QED  BY <1>3, <2>2 DEF IsIdle
<1>17. \/ UNCHANGED <<pending, held, job>>
       \/ \E c \in Clients, b \in Activities, u \in Members : Route(c, b, u)
       \/ \E v \in Workers : \/ Sweep(v)
                             \/ FinishTimer(v)
                             \/ \E x \in timers : FireTimer(v, x)
       \/ \E p \in Processes : \/ \E x \in pending[p] : Load(p, x) \/ Drop(p, x)
                               \/ Commit(p) \/ Conflict(p)
  BY DEF Next, vars, Tick, Create, DiscardTimer, Execute, Crash, LoseTimer
<1>. QED  BY <1>10, <1>11, <1>12, <1>13, <1>14, <1>15, <1>16, <1>17

(* A row that has just been written has the timers it waits for.           *)
LEMMA WrittenRowsCovered ==
  ASSUME NEW a \in Activities, NEW r \in Row, ColumnsFitStatus(r), NEW v, WireTimers(a, r, v),
         now' = now, row'[a] = r, NEW k \in WaitsFor(r, now)
  PROVE  Needed(a, k)' \in timers'
<1>1. /\ k \in EnqueueKinds(r.status)
      /\ k = "start" => r.start > now
      /\ TimerTarget(k, r) = DueAnchor(r) /\ TimerTarget(k, r) # Null
  BY WaitingRows
<1>2. Needed(a, k)' = [kind |-> k, act |-> a, version |-> r.version, due |-> TimerTarget(k, r)]
  BY <1>1 DEF Needed
<1>3. Needed(a, k)' \in Enqueued(a, r)
  BY <1>1, <1>2 DEF Enqueued
<1>. QED  BY <1>3 DEF WireTimers

LEMMA CoverageNext ==
  ASSUME OnTime, TimerCoverage, Faults = {}, [Next]_vars
  PROVE  TimerCoverage'
<1>1. /\ Consistent /\ TypeOK
      /\ row \in [Activities -> Row \cup {Null}]
      /\ timers \subseteq Timer
  BY DEF OnTime, Consistent, TypeOK
<1>. SUFFICES ASSUME NEW a \in Activities, row'[a] # Null, NEW k \in WaitsFor(row'[a], now')
              PROVE  Needed(a, k)' \in timers' \/ InHands(Needed(a, k))'
  BY DEF TimerCoverage, Needed, InHands
<1>2. ASSUME row'[a] = row[a]
      PROVE  Needed(a, k)' \in timers' \/ InHands(Needed(a, k))'
  <2>1. k \in WaitsFor(row[a], now)
    <3>1. now \in Nat /\ now' \in Nat /\ now <= now' /\ row[a] \in Row /\ row[a].start \in Nat
      BY <1>1, <1>2, ScheduleIsKept DEF Row
    <3>2. row[a].start > now' => row[a].start > now
      BY <3>1
    <3>. QED  BY <1>2, <3>2 DEF WaitsFor
  <2>2. PICK t : t = Needed(a, k)
    OBVIOUS
  <2>3. t = Needed(a, k)'
    BY <1>2, <2>2 DEF Needed
  <2>4. t \in timers \/ InHands(t)
    BY <1>2, <2>1, <2>2 DEF TimerCoverage, Needed, InHands
  <2>5. t \in timers' \/ InHands(t)'
    BY <1>2, <2>1, <2>2, <2>4, NeededInQueue, NeededInHands
  <2>. QED  BY <2>3, <2>5 DEF InHands
<1>3. ASSUME NEW b \in Activities, NEW u \in Members, NEW m \in Members \cup {Null},
             NEW s \in Schedules, Create(b, u, m, s), row'[a] # row[a]
      PROVE  Needed(a, k)' \in timers'
  <2>. DEFINE r == InitialRow(u, m, s)
  <2>1. r \in Row /\ ColumnsFitStatus(r)
    BY <1>1, <1>3, CreateFacts
  <2>2. WireTimers(b, r, 0) /\ now' = now /\ row' = [row EXCEPT ![b] = r]
    BY <1>3 DEF Create
  <2>. HIDE DEF r
  <2>3. b = a /\ row'[a] = r
    BY <1>1, <1>3, <2>2
  <2>. QED  BY <2>1, <2>2, <2>3, WrittenRowsCovered
<1>4. ASSUME NEW p \in Processes, Commit(p), row'[a] # row[a]
      PROVE  Needed(a, k)' \in timers'
  <2>. DEFINE q == held[p].req
              r == NextRow(row[q.act], q.to, held[p].at, q.assignee, q.deletes)
  <2>1. r \in Row /\ ColumnsFitStatus(r) /\ row' = [row EXCEPT ![q.act] = r] /\ q.act \in Activities
    BY <1>1, <1>4, CommitFacts
  <2>2. WireTimers(q.act, r, held[p].version) /\ now' = now
    BY <1>4 DEF Commit
  <2>. HIDE DEF q, r
  <2>3. q.act = a /\ row'[a] = r
    BY <1>1, <1>4, <2>1
  <2>. QED  BY <2>1, <2>2, <2>3, WrittenRowsCovered
<1>. QED  BY <1>2, <1>3, <1>4, QuietSteps

(* As long as nothing is lost and nothing crashes, whatever a row waits    *)
(* for has its timer, in the queue or in the hands of a worker: no change  *)
(* of version strands a row that only a timer would move in time.          *)
THEOREM NeededTimersAlwaysThere == Faults = {} => (Spec => []TimerCoverage)
<1>1. Init => TimerCoverage
  BY DEF Init, TimerCoverage
<1>2. Faults = {} /\ OnTime /\ TimerCoverage /\ [Next]_vars => TimerCoverage'
  BY CoverageNext
<1>3. CASE Faults = {}
  <2>1. OnTime /\ TimerCoverage /\ [Next]_vars => TimerCoverage'
    BY <1>2, <1>3
  <2>. QED  BY <1>1, <2>1, OnTimeAlways, PTL DEF Spec
<1>. QED  BY <1>3

-----------------------------------------------------------------------------
(* Who may expire early.  A decision to mark a row overdue that is executed *)
(* late may hit a newer version of the row (NoPrematureOverdue is refuted), *)
(* but only where somebody else can have made that version meanwhile.       *)

OneWorker == \A v, w \in Workers : v = w

(* Statuses nobody but the worker that has decided can lead a row back to.  *)
Sheltered == {"created"} \cup {s \in {"verify"} : OneWorker}

Carried(p) == pending[p] \cup (IF held[p] = Null THEN {} ELSE {held[p].req})

(* The deadline has passed for which a sheltered row is to be overdue.      *)
Expired(q) ==
  q.to = "overdue" => /\ row[q.act] # Null
                      /\ row[q.act].status \in Sheltered => row[q.act].deadline <= now

ExpiriesDue == \A p \in Processes : \A q \in Carried(p) : Expired(q)

(* Only workers decide for the system, once per activity.                   *)
SystemDecides ==
  \A p \in Processes : \A q \in Carried(p) : q.to = "overdue" \/ q.actor = Null => p \in Workers

OneDecisionEach ==
  \A p \in Processes :
    /\ \A q, r \in pending[p] : q.act = r.act => q = r
    /\ held[p] # Null => \A q \in pending[p] : q.act # held[p].req.act

(* The timer of an answer is due at the deadline of its version.            *)
AnswerTimed(t) ==
  t.kind \in {"response_timeout", "verify_timeout"} /\ t.version = row[t.act].version
    => t.due = row[t.act].deadline

AnswersTimed ==
  /\ \A t \in timers : AnswerTimed(t)
  /\ \A p \in Processes : job[p] # Null => AnswerTimed(job[p])

Expiry == OnTime /\ AnswersTimed /\ SystemDecides /\ OneDecisionEach /\ ExpiriesDue

LEMMA AnswersTimedNext ==
  ASSUME OnTime, AnswersTimed, [Next]_vars
  PROVE  AnswersTimed'
<1>1. /\ timers \subseteq Timer /\ job \in [Processes -> Timer \cup {Null}]
      /\ row \in [Activities -> Row \cup {Null}] /\ TypeOK /\ Consistent /\ TimersSound
  BY DEF OnTime, Consistent, TypeOK
<1>. DEFINE old == timers \cup { job[p] : p \in { z \in Processes : job[z] # Null } }
<1>2. \A t \in old : t \in Timer /\ TimerSound(t) /\ AnswerTimed(t)
  BY <1>1 DEF TimersSound, AnswersTimed
<1>3. \A p \in Processes : job'[p] # Null => job'[p] \in old
  BY <1>1, ClockAndJobs DEF FireTimer, FinishTimer, Crash, Processes
<1>4. ASSUME NEW a \in Activities, NEW r \in Row, r # Null, row' = [row EXCEPT ![a] = r],
             row[a] = Null \/ (row[a] \in Row /\ r.version = row[a].version + 1),
             NEW v, WireTimers(a, r, v)
      PROVE  AnswersTimed'
  <2>1. ASSUME NEW t \in old PROVE AnswerTimed(t)'
    <3>1. t.act \in Activities /\ t.version \in Nat /\ row[t.act] # Null
          /\ t.version <= row[t.act].version
      BY <1>2 DEF Timer, TimerSound
    <3>2. CASE t.act # a
      BY <1>1, <1>2, <1>4, <3>1, <3>2 DEF AnswerTimed
    <3>3. CASE t.act = a
      <4>1. row'[a] = r /\ row[a].version \in Nat /\ r.version = row[a].version + 1
        BY <1>1, <1>4, <3>1, <3>3 DEF Row
      <4>. QED  BY <3>1, <3>3, <4>1 DEF AnswerTimed
    <3>. QED  BY <3>2, <3>3
  <2>2. ASSUME NEW t \in Enqueued(a, r) PROVE AnswerTimed(t)'
    <3>1. PICK k : t = [kind |-> k, act |-> a, version |-> r.version, due |-> TimerTarget(k, r)]
      BY DEF Enqueued
    <3>2. k \in {"response_timeout", "verify_timeout"} => TimerTarget(k, r) = r.deadline
      BY DEF TimerTarget
    <3>3. t.kind = k /\ t.act = a /\ t.due = TimerTarget(k, r) /\ row'[a] = r
      BY <1>1, <1>4, <3>1
    <3>. QED  BY <3>2, <3>3 DEF AnswerTimed
  <2>3. timers' \subseteq old \cup Enqueued(a, r)
    BY <1>4 DEF WireTimers
  <2>. QED  BY <1>3, <2>1, <2>2, <2>3 DEF AnswersTimed
<1>5. CASE timers' \subseteq old /\ row' = row
  <2>1. \A t \in old : AnswerTimed(t)'
    BY <1>2, <1>5 DEF AnswerTimed
  <2>. QED  BY <1>3, <1>5, <2>1 DEF AnswersTimed
<1>6. ASSUME NEW a \in Activities, NEW u \in Members, NEW m \in Members \cup {Null},
             NEW s \in Schedules, Create(a, u, m, s)
      PROVE  AnswersTimed'
  <2>. DEFINE r == InitialRow(u, m, s)
  <2>1. r \in Row /\ r # Null
    BY <1>1, InitialRowType
  <2>2. WireTimers(a, r, 0) /\ row' = [row EXCEPT ![a] = r] /\ row[a] = Null
    BY <1>6 DEF Create
  <2>. HIDE DEF r
  <2>. QED  BY <1>4, <2>1, <2>2
<1>7. ASSUME NEW p \in Processes, Commit(p) PROVE AnswersTimed'
  <2>. DEFINE q == held[p].req
              r == NextRow(row[q.act], q.to, held[p].at, q.assignee, q.deletes)
  <2>1. /\ r \in Row /\ r # Null /\ row' = [row EXCEPT ![q.act] = r] /\ q.act \in Activities
        /\ row[q.act] \in Row /\ r.version = row[q.act].version + 1
    BY <1>1, <1>7, CommitFacts
  <2>2. WireTimers(q.act, r, held[p].version)
    BY <1>7 DEF Commit
  <2>. HIDE DEF q, r
  <2>. QED  BY <1>4, <2>1, <2>2
<1>8. \/ timers' \subseteq old /\ row' = row
      \/ \E a \in Activities, u \in Members, m \in Members \cup {Null}, s \in Schedules :
           Create(a, u, m, s)
      \/ \E p \in Processes : Commit(p)
  BY DEF Next, vars, Tick, Route, Complete, ConfirmAssignment, Delete, Cancel,
     DeclineAssignment, Assign, Accept, FireTimer, DiscardTimer, Sweep, FinishTimer,
     Execute, Load, Drop, Conflict, Crash, LoseTimer
<1>. QED  BY <1>5, <1>6, <1>7, <1>8

LEMMA OneDecisionNext ==
  ASSUME TypeOK, OneDecisionEach, [Next]_vars
  PROVE  OneDecisionEach'
<1>1. /\ held \in [Processes -> Snapshot \cup {Null}]
      /\ pending \in [Processes -> SUBSET Request]
  BY DEF TypeOK
<1>2. ASSUME \A p \in Processes : /\ pending'[p] \subseteq pending[p]
                                  /\ held'[p] = held[p] \/ held'[p] = Null
      PROVE  OneDecisionEach'
  BY <1>2 DEF OneDecisionEach
<1>3. ASSUME NEW p \in Processes, NEW new, held[p] = Null, held' = held,
             pending' = [pending EXCEPT ![p] = new],
             \A q, r \in new : q.act = r.act => q = r
      PROVE  OneDecisionEach'
  BY <1>1, <1>3 DEF OneDecisionEach
<1>4. ASSUME NEW c \in Clients, NEW a \in Activities, NEW u \in Members, Route(c, a, u)
      PROVE  OneDecisionEach'
  <2>1. ASSUME NEW to, NEW m, NEW d, Accept(c, a, u, to, m, d)
        PROVE  \E q : /\ held[c] = Null /\ held' = held
                      /\ pending' = [pending EXCEPT ![c] = {q}]
    BY <2>1 DEF Accept, IsIdle
  <2>2. \E to, m, d : Accept(c, a, u, to, m, d)
    BY <1>4 DEF Route, Complete, ConfirmAssignment, Delete, Cancel, DeclineAssignment, Assign
  <2>3. PICK q : held[c] = Null /\ held' = held /\ pending' = [pending EXCEPT ![c] = {q}]
    BY <2>1, <2>2
  <2>4. c \in Processes /\ \A x, y \in {q} : x.act = y.act => x = y
    BY DEF Processes
  <2>. QED  BY <1>3, <2>3, <2>4
<1>5. ASSUME NEW w \in Workers, NEW t \in timers, FireTimer(w, t)
      PROVE  OneDecisionEach'
  <2>1. PICK q : held[w] = Null /\ held' = held /\ pending' = [pending EXCEPT ![w] = {q}]
    BY <1>5 DEF FireTimer, IsIdle
  <2>2. w \in Processes /\ \A x, y \in {q} : x.act = y.act => x = y
    BY DEF Processes
  <2>. QED  BY <1>3, <2>1, <2>2
<1>6. ASSUME NEW w \in Workers, Sweep(w)
      PROVE  OneDecisionEach'
  <2>1. PICK S \in SUBSET Due :
          pending' = [pending EXCEPT ![w] = { SystemRequest(a, DueTarget(row[a])) : a \in S }]
    BY <1>6 DEF Sweep
  <2>. DEFINE new == { SystemRequest(a, DueTarget(row[a])) : a \in S }
  <2>2. \A q, r \in new : q.act = r.act => q = r
    <3>1. \A q \in new : q = SystemRequest(q.act, DueTarget(row[q.act]))
      BY DEF SystemRequest
    <3>. HIDE DEF new
    <3>. QED  BY <3>1
  <2>3. held[w] = Null /\ held' = held /\ w \in Processes /\ pending' = [pending EXCEPT ![w] = new]
    BY <1>6, <2>1 DEF Sweep, IsIdle, Processes
  <2>. HIDE DEF new
  <2>. QED  BY <1>3, <2>2, <2>3
<1>7. ASSUME NEW p \in Processes, NEW q \in pending[p], Load(p, q)
      PROVE  OneDecisionEach'
  <2>1. PICK s : s.req = q /\ held' = [held EXCEPT ![p] = s]
    <3>. DEFINE s == [req |-> q, from |-> row[q.act].status,
                      version |-> row[q.act].version, at |-> now]
    <3>1. s.req = q /\ held' = [held EXCEPT ![p] = s]
      BY <1>7 DEF Load
    <3>. QED  BY <3>1
  <2>2. pending' = [pending EXCEPT ![p] = @ \ {q}]
    BY <1>7 DEF Load
  <2>. QED  BY <1>1, <2>1, <2>2 DEF OneDecisionEach
<1>. QED
  <2>1. \/ \A p \in Processes : /\ pending'[p] \subseteq pending[p]
                                /\ held'[p] = held[p] \/ held'[p] = Null
        \/ \E c \in Clients, a \in Activities, u \in Members : Route(c, a, u)
        \/ \E w \in Workers, t \in timers : FireTimer(w, t)
        \/ \E w \in Workers : Sweep(w)
        \/ \E p \in Processes : \E q \in pending[p] : Load(p, q)
    BY DecisionSteps
  <2>. QED  BY <1>2, <1>4, <1>5, <1>6, <1>7, <2>1

(* What a process carries it has carried before, or decides in this step:   *)
(* a user on something else than expiry, a worker on what is due.           *)
LEMMA DecisionsTaken ==
  ASSUME OnTime, AnswersTimed, [Next]_vars, NEW p \in Processes, NEW q \in Carried(p)'
  PROVE  \/ q \in Carried(p)
         \/ p \in Clients /\ q.actor # Null /\ q.to # "overdue"
         \/ p \in Workers /\ Expired(q) /\ row' = row /\ now' = now
<1>1. /\ TypeOK /\ TimersSound
      /\ row \in [Activities -> Row \cup {Null}] /\ timers \subseteq Timer
      /\ held \in [Processes -> Snapshot \cup {Null}]
      /\ pending \in [Processes -> SUBSET Request]
  BY DEF OnTime, Consistent, TypeOK
<1>2. ASSUME \A z \in Processes : /\ pending'[z] \subseteq pending[z]
                                  /\ held'[z] = held[z] \/ held'[z] = Null
      PROVE  q \in Carried(p)
  BY <1>2 DEF Carried
<1>3. ASSUME NEW c \in Clients, NEW a \in Activities, NEW u \in Members, Route(c, a, u)
      PROVE  q \in Carried(p) \/ (p \in Clients /\ q.actor # Null /\ q.to # "overdue")
  <2>0. PICK to \in {"done", "assisting", "cancelled", "not_assisting", "assigned"} :
          \E m, d : Accept(c, a, u, to, m, d)
    BY <1>3 DEF Route, Complete, ConfirmAssignment, Delete, Cancel, DeclineAssignment, Assign
  <2>1. PICK m, d : Accept(c, a, u, to, m, d)
    BY <2>0
  <2>2. PICK x : x = [act |-> a, to |-> to, actor |-> u, assignee |-> m, deletes |-> d]
    OBVIOUS
  <2>3. pending' = [pending EXCEPT ![c] = {x}] /\ held' = held
    BY <2>1, <2>2 DEF Accept
  <2>4. x.actor # Null /\ x.to # "overdue"
    BY <2>0, <2>2, MapAssumption
  <2>5. CASE p # c
    BY <1>1, <2>3, <2>5 DEF Carried
  <2>6. CASE p = c
    BY <1>1, <2>3, <2>4, <2>6 DEF Carried
  <2>. QED  BY <2>5, <2>6
<1>4. ASSUME NEW w \in Workers, NEW t \in timers, FireTimer(w, t)
      PROVE  q \in Carried(p) \/ (p \in Workers /\ Expired(q) /\ row' = row /\ now' = now)
  <2>1. PICK x : x = SystemRequest(t.act, TargetStatus(t.kind))
    OBVIOUS
  <2>2. /\ pending' = [pending EXCEPT ![w] = {x}] /\ held' = held /\ row' = row /\ now' = now
        /\ t.due <= now /\ row[t.act] # Null /\ row[t.act].version = t.version
    BY <1>4, <2>1 DEF FireTimer, IsCurrent, Alive
  <2>3. Expired(x)
    <3>1. x.act = t.act /\ x.to = TargetStatus(t.kind)
      BY <2>1 DEF SystemRequest
    <3>2. x.to = "overdue" => t.kind \in {"response_timeout", "verify_timeout"}
      <4>1. t.kind \in TimerKinds
        BY <1>1 DEF Timer
      <4>. QED  BY <3>1, <4>1 DEF TargetStatus, TimerKinds
    <3>3. AnswerTimed(t)
      BY DEF AnswersTimed
    <3>. QED  BY <2>2, <3>1, <3>2, <3>3 DEF Expired, AnswerTimed
  <2>4. CASE p # w
    BY <1>1, <2>2, <2>4 DEF Carried
  <2>5. CASE p = w
    BY <1>1, <2>2, <2>3, <2>5 DEF Carried
  <2>. QED  BY <2>4, <2>5
<1>5. ASSUME NEW w \in Workers, Sweep(w)
      PROVE  q \in Carried(p) \/ (p \in Workers /\ Expired(q) /\ row' = row /\ now' = now)
  <2>1. PICK S \in SUBSET Due :
          pending' = [pending EXCEPT ![w] = { SystemRequest(a, DueTarget(row[a])) : a \in S }]
    BY <1>5 DEF Sweep
  <2>2. held' = held /\ row' = row /\ now' = now
    BY <1>5 DEF Sweep
  <2>3. ASSUME NEW a \in Due, NEW x, x = SystemRequest(a, DueTarget(row[a]))
        PROVE  Expired(x)
    <3>1. row[a] # Null /\ DueAnchor(row[a]) # Null /\ DueAnchor(row[a]) <= now
      BY DEF Due, IsDue
    <3>2. x.act = a /\ x.to = DueTarget(row[a])
      BY <2>3 DEF SystemRequest
    <3>3. x.to = "overdue" => DueAnchor(row[a]) = row[a].deadline
      BY <3>1, <3>2 DEF DueTarget, DueAnchor
    <3>. QED  BY <3>1, <3>2, <3>3 DEF Expired
  <2>4. CASE p # w
    BY <1>1, <2>1, <2>2, <2>4 DEF Carried
  <2>5. CASE p = w
    <3>1. q \in pending'[w] \/ q \in Carried(p)
      BY <2>2, <2>5 DEF Carried
    <3>2. pending'[w] = { SystemRequest(a, DueTarget(row[a])) : a \in S }
      BY <1>1, <2>1, <2>5
    <3>3. q \in pending'[w] => \E a \in Due : q = SystemRequest(a, DueTarget(row[a]))
      BY <3>2
    <3>. QED  BY <2>2, <2>3, <2>5, <3>1, <3>3
  <2>. QED  BY <2>4, <2>5
<1>6. ASSUME NEW z \in Processes, NEW x \in pending[z], Load(z, x)
      PROVE  q \in Carried(p)
  <2>1. PICK s : s.req = x /\ held' = [held EXCEPT ![z] = s]
    <3>. DEFINE s == [req |-> x, from |-> row[x.act].status,
                      version |-> row[x.act].version, at |-> now]
    <3>1. s.req = x /\ held' = [held EXCEPT ![z] = s]
      BY <1>6 DEF Load
    <3>. QED  BY <3>1
  <2>2. pending' = [pending EXCEPT ![z] = @ \ {x}]
    BY <1>6 DEF Load
  <2>. QED  BY <1>1, <2>1, <2>2 DEF Carried
<1>. QED
  <2>1. \/ \A z \in Processes : /\ pending'[z] \subseteq pending[z]
                                /\ held'[z] = held[z] \/ held'[z] = Null
        \/ \E c \in Clients, a \in Activities, u \in Members : Route(c, a, u)
        \/ \E w \in Workers, t \in timers : FireTimer(w, t)
        \/ \E w \in Workers : Sweep(w)
        \/ \E z \in Processes : \E x \in pending[z] : Load(z, x)
    BY <1>1, DecisionSteps
  <2>. QED  BY <1>2, <1>3, <1>4, <1>5, <1>6, <2>1

LEMMA SystemDecidesNext ==
  ASSUME OnTime, AnswersTimed, SystemDecides, [Next]_vars
  PROVE  SystemDecides'
BY DecisionsTaken DEF SystemDecides

(* Only the process that has decided to end an activity puts it in          *)
(* verification, so that no expiry it carries is of that activity.          *)
LEMMA ExpiriesDueNext ==
  ASSUME Expiry, [Next]_vars
  PROVE  ExpiriesDue'
<1>1. /\ OnTime /\ Consistent /\ AnswersTimed /\ TypeOK
      /\ row \in [Activities -> Row \cup {Null}] /\ now \in Nat
      /\ held \in [Processes -> Snapshot \cup {Null}]
      /\ pending \in [Processes -> SUBSET Request]
  BY DEF Expiry, OnTime, Consistent, TypeOK
<1>. SUFFICES ASSUME NEW p \in Processes, NEW q \in Carried(p)', q.to = "overdue"
              PROVE  Expired(q)'
  BY DEF ExpiriesDue, Expired
<1>2. CASE q \notin Carried(p)
  BY <1>1, <1>2, DecisionsTaken DEF Expired
<1>3. CASE q \in Carried(p)
  <2>1. q \in Request /\ q.act \in Activities
    BY <1>1, <1>3 DEF Carried, Snapshot, Request
  <2>2. Expired(q) /\ row[q.act] # Null
    BY <1>3 DEF Expiry, ExpiriesDue, Expired
  <2>3. row[q.act] \in Row /\ row'[q.act] # Null /\ now' \in Nat /\ now <= now'
    BY <1>1, <2>1, <2>2, ScheduleIsKept
  <2>4. CASE row'[q.act] = row[q.act]
    <3>1. row[q.act].status \in Sheltered => row[q.act].deadline \in Nat
      BY <1>1, <2>1, <2>2, <2>3 DEF Sheltered, Consistent, ColumnsMatchStatus, ColumnsFitStatus, Row, Time
    <3>. QED  BY <1>1, <2>2, <2>3, <2>4, <3>1 DEF Expired
  <2>5. ASSUME NEW z \in Processes, Commit(z), row'[q.act] # row[q.act]
        PROVE  row'[q.act].status \notin Sheltered
    <3>. DEFINE c == held[z].req
                r == NextRow(row[c.act], c.to, held[z].at, c.assignee, c.deletes)
    <3>1. /\ held[z] # Null /\ c.act \in Activities /\ Permitted(c) /\ row[c.act] # Null
          /\ <<row[c.act].status, c.to>> \in Edges
          /\ row' = [row EXCEPT ![c.act] = r] /\ r.status = c.to
          /\ held' = [held EXCEPT ![z] = Null] /\ pending' = pending
      <4>1. Commit(z) => held[z] # Null
        BY DEF Commit
      <4>. QED  BY <1>1, <2>5, <4>1, CommitFacts
    <3>. HIDE DEF r
    <3>2. c.act = q.act /\ row'[q.act].status = c.to
      BY <1>1, <2>1, <2>5, <3>1
    <3>3. c.to # "created"
      BY <3>1, EdgeCases
    <3>4. ASSUME OneWorker, c.to = "verify" PROVE FALSE
      <4>1. c.actor = Null
        BY <3>1, <3>4 DEF Permitted, UserMay, AssigneeEdges, MemberEdges, CancelEdges
      <4>2. c \in Carried(z) /\ z \in Workers
        BY <3>1, <4>1 DEF Carried, Expiry, SystemDecides
      <4>3. p \in Workers
        BY <1>3 DEF Expiry, SystemDecides
      <4>4. p = z
        BY <3>4, <4>2, <4>3 DEF OneWorker
      <4>5. q \in pending[p]
        BY <1>1, <3>1, <4>4 DEF Carried
      <4>. QED  BY <3>1, <3>2, <4>4, <4>5 DEF Expiry, OneDecisionEach
    <3>. QED  BY <3>2, <3>3, <3>4 DEF Sheltered
  <2>6. ASSUME NEW a \in Activities, NEW u \in Members, NEW m \in Members \cup {Null},
               NEW s \in Schedules, Create(a, u, m, s)
        PROVE  row'[q.act] = row[q.act]
    <3>1. row[a] = Null /\ row' = [row EXCEPT ![a] = InitialRow(u, m, s)]
      BY <2>6 DEF Create
    <3>. QED  BY <1>1, <2>1, <2>2, <3>1
  <2>. QED  BY <2>3, <2>4, <2>5, <2>6, QuietSteps DEF Expired
<1>. QED  BY <1>2, <1>3

LEMMA ExpiryInit == Init => Expiry
<1>. SUFFICES ASSUME Init PROVE Expiry
  OBVIOUS
<1>1. \A p \in Processes : Carried(p) = {}
  BY DEF Init, Carried
<1>2. AnswersTimed /\ OneDecisionEach
  BY DEF Init, AnswersTimed, OneDecisionEach
<1>. QED  BY <1>1, <1>2, OnTimeInit DEF Expiry, SystemDecides, ExpiriesDue

LEMMA ExpiryNext == Expiry /\ [Next]_vars => Expiry'
<1>. SUFFICES ASSUME Expiry, [Next]_vars PROVE Expiry'
  OBVIOUS
<1>1. OnTime /\ AnswersTimed /\ SystemDecides /\ OneDecisionEach /\ TypeOK
  BY DEF Expiry, OnTime, Consistent
<1>. QED
  BY <1>1, OnTimeNext, AnswersTimedNext, SystemDecidesNext, OneDecisionNext, ExpiriesDueNext
  DEF Expiry

LEMMA ExpiryAlways == Spec => []Expiry
BY ExpiryInit, ExpiryNext, PTL DEF Spec

LEMMA ShelteredExpire ==
  ASSUME Expiry, [Next]_vars, NEW a \in Activities, row[a] # Null, Becomes(a, "overdue"),
         row[a].status \in Sheltered
  PROVE  row[a].deadline <= now
<1>1. Consistent /\ TypeOK /\ row \in [Activities -> Row \cup {Null}]
  BY DEF Expiry, OnTime, Consistent, TypeOK
<1>2. PICK p \in Processes : Commit(p)
  <2>1. ASSUME NEW b \in Activities, NEW u \in Members, NEW m \in Members \cup {Null},
               NEW s \in Schedules, Create(b, u, m, s)
        PROVE  FALSE
    <3>1. row[b] = Null /\ row' = [row EXCEPT ![b] = InitialRow(u, m, s)]
      BY <2>1 DEF Create
    <3>. QED  BY <1>1, <3>1 DEF Becomes
  <2>. QED  BY <2>1, QuietSteps DEF Becomes
<1>. DEFINE c == held[p].req
            r == NextRow(row[c.act], c.to, held[p].at, c.assignee, c.deletes)
<1>3. /\ c.act \in Activities /\ row' = [row EXCEPT ![c.act] = r] /\ r.status = c.to
  BY <1>1, <1>2, CommitFacts
<1>4. c \in Carried(p)
  BY <1>2 DEF Commit, Carried
<1>. HIDE DEF r
<1>5. c.act = a /\ c.to = "overdue"
  BY <1>1, <1>3 DEF Becomes
<1>. QED  BY <1>4, <1>5 DEF Expiry, ExpiriesDue, Expired

(* An activity that nobody has answered for yet becomes overdue only when   *)
(* its deadline has passed (activity-timers.sweep.ts): nothing leads back   *)
(* to "created", so that whoever has decided late finds another status.     *)
THEOREM UnansweredNeverExpiresEarly ==
  Spec => [][\A a \in Activities :
               row[a] # Null /\ row[a].status = "created" /\ Becomes(a, "overdue")
                 => row[a].deadline <= now]_vars
<1>1. Expiry /\ [Next]_vars =>
        [\A a \in Activities : row[a] # Null /\ row[a].status = "created" /\ Becomes(a, "overdue")
           => row[a].deadline <= now]_vars
  BY ShelteredExpire DEF Sheltered
<1>. QED  BY <1>1, ExpiryAlways, PTL DEF Spec

(* With the one worker of the deployment (worker-deployment.yaml), a race   *)
(* can make only a fresh assignment overdue before its time.                *)
THEOREM OnlyAssignmentsExpireEarly ==
  ASSUME OneWorker
  PROVE  Spec => [][\A a \in Activities :
                      row[a] # Null /\ Becomes(a, "overdue") /\ ~(row[a].deadline <= now)
                        => row[a].status = "assigned"]_vars
<1>1. ASSUME Expiry, [Next]_vars
      PROVE  [\A a \in Activities :
                row[a] # Null /\ Becomes(a, "overdue") /\ ~(row[a].deadline <= now)
                  => row[a].status = "assigned"]_vars
  <2>1. ASSUME NEW a \in Activities, row[a] # Null, Becomes(a, "overdue")
        PROVE  row[a].status \in {"assigned", "created", "verify"}
    <3>1. Consistent /\ TypeOK /\ row \in [Activities -> Row \cup {Null}]
      BY <1>1 DEF Expiry, OnTime, Consistent, TypeOK
    <3>2. ASSUME NEW p \in Processes, Commit(p)
          PROVE  row[a].status \in {"assigned", "created", "verify"}
      <4>. DEFINE c == held[p].req
                  r == NextRow(row[c.act], c.to, held[p].at, c.assignee, c.deletes)
      <4>1. /\ c.act \in Activities /\ row' = [row EXCEPT ![c.act] = r] /\ r.status = c.to
            /\ row[c.act].status = held[p].from /\ <<held[p].from, c.to>> \in Edges
        BY <3>1, <3>2, CommitFacts
      <4>. HIDE DEF r
      <4>2. c.act = a /\ c.to = "overdue"
        BY <2>1, <3>1, <4>1 DEF Becomes
      <4>. QED  BY <4>1, <4>2, EdgeCases
    <3>3. ASSUME NEW b \in Activities, NEW u \in Members, NEW m \in Members \cup {Null},
                 NEW s \in Schedules, Create(b, u, m, s)
          PROVE  FALSE
      <4>1. row[b] = Null /\ row' = [row EXCEPT ![b] = InitialRow(u, m, s)]
        BY <3>3 DEF Create
      <4>. QED  BY <2>1, <3>1, <4>1 DEF Becomes
    <3>. QED  BY <1>1, <2>1, <3>2, <3>3, QuietSteps DEF Becomes
  <2>2. {"created", "verify"} \subseteq Sheltered
    BY DEF Sheltered
  <2>. QED  BY <1>1, <2>1, <2>2, ShelteredExpire
<1>. QED  BY <1>1, ExpiryAlways, PTL DEF Spec

=============================================================================
