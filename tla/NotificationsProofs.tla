------------------------ MODULE NotificationsProofs ------------------------
(***************************************************************************)
(* The inbox keeps its contract, and a notification is announced by one    *)
(* frame that has its row, for any bond, any number of overlapping relay   *)
(* runs, and any rollbacks and crashes.  What makes it true is that an     *)
(* event in the hands of a run that tells it a second time still has the   *)
(* rows of the first (StillThere): the retention removes nothing of today, *)
(* and no run lasts from one day to the next.                              *)
(***************************************************************************)
EXTENDS Notifications, SequenceTheorems, TLAPS

EventRecords == [kind : Kinds, type : Types, actor : Users \cup {NoUser}, dispatched : BOOLEAN]
Stages == {"idle", "batch", "commit", "publish"}
Runs == [pc : Stages, batch : SUBSET Events, now : {0} \cup Events, to : SUBSET Users]

(* A run has events of the outbox in hand, and none when it is idle. *)
InHand(r) == run[r].batch \cup IF run[r].pc = "commit" THEN {run[r].now} ELSE {}

RunsSound ==
  \A r \in Relays :
    /\ run[r].batch \subseteq DOMAIN outbox
    /\ run[r].pc \in {"commit", "publish"} => run[r].now \in DOMAIN outbox
    /\ run[r].pc = "idle" => run[r].batch = {}
    /\ run[r].pc = "commit" => outbox[run[r].now].actor \notin run[r].to

(* Nobody has been told of an event that is not marked. *)
ToldAreMarked ==
  \A u \in Users, e \in Events :
    <<u, e>> \in told => e \in DOMAIN outbox /\ outbox[e].dispatched

(* Whoever was told of an event that a run has in hand was told today. *)
StillThere ==
  \A r \in Relays : \A e \in InHand(r) : \A u \in Users :
    <<u, e>> \in told => \E n \in inbox : n.user = u /\ n.event = e /\ n.created = day

(* A run has announced, or is about to announce, a row it created itself. *)
Owns(r, u, e) ==
  \/ Frame(u, e, r) \in published
  \/ run[r].pc = "publish" /\ run[r].now = e /\ u \in run[r].to

OwnersSound ==
  \A u \in Users, e \in Events :
    /\ \A r \in Relays : Owns(r, u, e) => <<u, e>> \in told
    /\ \A r, s \in Relays : Owns(r, u, e) /\ Owns(s, u, e) => r = s

NotificationsInv == TypeOK /\ RunsSound /\ ToldAreMarked /\ StillThere /\ OwnersSound

-----------------------------------------------------------------------------
(* What the types say of outbox and runs, in the names used here. *)
LEMMA TypesNamed ==
  TypeOK => outbox \in Seq(EventRecords) /\ run \in [Relays -> Runs]
BY DEF TypeOK, EventRecords, Runs, Stages

(* Nobody has been told of anything yet. *)
LEMMA NotificationsInit == Init => NotificationsInv
<1> SUFFICES ASSUME Init PROVE NotificationsInv
  OBVIOUS
<1>1. TypeOK
  <2>1. role \in [Users -> {"none", "progenitor", "coordinator"}]
    BY DEF Init
  <2>2. activity \in [assignedTo : Users \cup {NoUser}, createdBy : Users,
                      state : {"open", "closed", "deleted"}]
    BY NotificationsAssumption DEF Init
  <2>3. expense \in [requestedBy : Users, status : {"pending", "approved", "cancelled"},
                     approvedBy : Users \cup {NoUser}]
    BY NotificationsAssumption DEF Init
  <2>4. outbox \in Seq([kind : Kinds, type : Types, actor : Users \cup {NoUser},
                        dispatched : BOOLEAN]) /\ Len(outbox) <= MaxEvents
    BY NotificationsAssumption DEF Init
  <2>5. inbox \subseteq Rows /\ told \subseteq Users \X Events /\ published \subseteq Frames
    BY DEF Init
  <2>6. day \in 0..MaxDay /\ faults \in 0..MaxFaults
    BY NotificationsAssumption DEF Init
  <2>7. run \in [Relays -> [pc : {"idle", "batch", "commit", "publish"}, batch : SUBSET Events,
                            now : {0} \cup Events, to : SUBSET Users]]
    BY DEF Init, Idle, At
  <2>. QED  BY <2>1, <2>2, <2>3, <2>4, <2>5, <2>6, <2>7 DEF TypeOK
<1>2. RunsSound /\ ToldAreMarked /\ StillThere /\ OwnersSound
  BY DEF Init, Idle, At, RunsSound, ToldAreMarked, StillThere, OwnersSound, Owns
<1>. QED  BY <1>1, <1>2 DEF NotificationsInv

-----------------------------------------------------------------------------
(* The rules name slots only. *)
LEMMA RulesNameSlots ==
  ASSUME NEW t \in DOMAIN ActivityRule PROVE ActivityRule[t].recipients \subseteq Slots
BY DEF ActivityRule, Rule, Slots

(* The rules select users, and never the actor of the event. *)
LEMMA ToldAreUsers ==
  ASSUME TypeOK, NEW event \in EventRecords, NEW coordinator \in Coordinators,
         NEW counterpart \in Counterparts(Members, expense.requestedBy)
  PROVE  ToldOf(event, coordinator, counterpart) \subseteq Users \ {event.actor}
<1>1. coordinator \in Users \cup {NoUser} /\ counterpart \in Users \cup {NoUser}
  BY DEF Coordinators, Counterparts, Members
<1>2. /\ activity.assignedTo \in Users \cup {NoUser} /\ activity.createdBy \in Users
      /\ expense.requestedBy \in Users /\ Members \subseteq Users
  BY DEF TypeOK, Members
<1>3. ASSUME NEW rule, rule.recipients \subseteq Slots, NEW ctx,
             ctx.assignedTo \in Users \cup {NoUser}, ctx.createdBy \in Users,
             ctx.coordinator \in Users \cup {NoUser}, ctx.members \subseteq Users
      PROVE  Recipients(rule, ctx) \subseteq Users \ {ctx.actor}
  <2>1. ASSUME NEW slot \in rule.recipients
        PROVE  Candidates(slot, ctx) \subseteq Users \cup {NoUser}
    <3>1. slot \in Slots
      BY <1>3
    <3>. QED  BY <1>3, <3>1 DEF Candidates, Slots
  <2>2. {NoUser, ctx.actor} \subseteq Excluded(rule, ctx)
    BY DEF Excluded
  <2>3. ASSUME NEW u, u \in Recipients(rule, ctx) PROVE u \in Users /\ u # ctx.actor
    <3>1. u \notin Excluded(rule, ctx)
      <4>. DEFINE C == UNION { Candidates(slot, ctx) : slot \in rule.recipients }
      <4>1. u \in C \ Excluded(rule, ctx)
        BY <2>3 DEF Recipients
      <4>. HIDE DEF C
      <4>. QED  BY <4>1
    <3>2. PICK slot \in rule.recipients : u \in Candidates(slot, ctx)
      BY <2>3 DEF Recipients
    <3>. QED  BY <2>1, <2>2, <3>1, <3>2
  <2>. QED  BY <2>3
<1>4. HasActivityRule(event.type) => ActivityRule[event.type].recipients \subseteq Slots
  BY RulesNameSlots DEF HasActivityRule
<1>5. CASE event.kind = "activity" /\ activity.state # "deleted" /\ HasActivityRule(event.type)
  <2>. DEFINE ctx == [assignedTo |-> activity.assignedTo, createdBy |-> activity.createdBy,
                      coordinator |-> coordinator, members |-> Members, actor |-> event.actor]
  <2>1. Recipients(ActivityRule[event.type], ctx) \subseteq Users \ {ctx.actor}
    BY <1>1, <1>2, <1>3, <1>4, <1>5
  <2>. QED  BY <2>1, <1>5 DEF ToldOf
<1>6. CASE event.kind = "expense"
  BY <1>1, <1>2, <1>6 DEF ToldOf, ExpenseRecipients
<1>7. CASE event.kind # "expense" /\
           ~(event.kind = "activity" /\ activity.state # "deleted" /\ HasActivityRule(event.type))
  BY <1>7 DEF ToldOf
<1>. QED  BY <1>5, <1>6, <1>7

(* Marking an event changes nothing else of the outbox. *)
LEMMA Marking ==
  ASSUME NEW s \in Seq(EventRecords), NEW e \in DOMAIN s,
         NEW t, t = [s EXCEPT ![e].dispatched = TRUE]
  PROVE  /\ t \in Seq(EventRecords) /\ Len(t) = Len(s) /\ DOMAIN t = DOMAIN s
         /\ t[e].dispatched
         /\ \A i \in DOMAIN s : t[i].actor = s[i].actor /\ (s[i].dispatched => t[i].dispatched)
<1>. DEFINE m == [s[e] EXCEPT !.dispatched = TRUE]
<1>1. DOMAIN s = 1..Len(s) /\ s[e] \in EventRecords
  OBVIOUS
<1>2. m \in EventRecords /\ m.actor = s[e].actor /\ m.dispatched
  BY <1>1 DEF EventRecords
<1>3. t = [s EXCEPT ![e] = m]
  OBVIOUS
<1>. HIDE DEF m
<1>4. t \in Seq(EventRecords) /\ Len(t) = Len(s)
  <2>1. e \in 1..Len(s)
    BY <1>1
  <2>2. [s EXCEPT ![e] = m] \in Seq(EventRecords) /\ Len([s EXCEPT ![e] = m]) = Len(s)
    BY <2>1, <1>2, ExceptSeq
  <2>. QED  BY <2>2, <1>3
<1>5. DOMAIN t = DOMAIN s
  BY <1>1, <1>4
<1>6. \A i \in DOMAIN s : t[i] = IF i = e THEN m ELSE s[i]
  BY <1>3
<1>. QED  BY <1>2, <1>4, <1>5, <1>6

(* Appending an event leaves the earlier ones alone. *)
LEMMA Appending ==
  ASSUME NEW s \in Seq(EventRecords), NEW x \in EventRecords, NEW t, t = Append(s, x)
  PROVE  /\ t \in Seq(EventRecords) /\ Len(t) = Len(s) + 1 /\ DOMAIN s \subseteq DOMAIN t
         /\ \A i \in DOMAIN s : t[i] = s[i]
BY AppendProperties

-----------------------------------------------------------------------------
(* The steps outside relay and inbox: the outbox may grow, the rest of the *)
(* invariant is about what is there already. *)
Grows ==
  \/ outbox' = outbox
  \/ Len(outbox) < MaxEvents /\ \E x \in EventRecords : outbox' = Append(outbox, x)

(* Whatever happens in the bond, rows, runs and frames stay. *)
LEMMA BondSteps ==
  ASSUME TypeOK, BondNext
  PROVE  Grows /\ UNCHANGED <<inboxVars, run, published>> /\ TypeOK'
<1>1. outbox \in Seq(EventRecords) /\ Members \subseteq Users /\ Len(outbox) \in Nat
  BY TypesNamed DEF Members
<1>2. ASSUME NEW k \in Kinds, NEW t, NEW a \in Users \cup {NoUser}, Emit(k, t, a)
      PROVE  Grows /\ UNCHANGED <<inboxVars, run, published, faults>>
  BY <1>2 DEF Emit, Grows, Event, EventRecords
<1>3. ASSUME NEW u \in Users, AddMember(u)
      PROVE  /\ UNCHANGED <<activity, expense, outbox, inboxVars, run, published, faults>>
             /\ role' \in [Users -> {"none", "progenitor", "coordinator"}]
  BY <1>3 DEF AddMember, TypeOK
<1>4. ASSUME NEW t \in ActivityTypes, NEW a \in Users \cup {NoUser},
             NEW b \in Users \cup {NoUser}, ActivityEvent(t, a, b)
      PROVE  /\ Grows /\ UNCHANGED <<role, expense, inboxVars, run, published, faults>>
             /\ activity' \in [assignedTo : Users \cup {NoUser}, createdBy : Users,
                               state : {"open", "closed", "deleted"}]
  BY <1>2, <1>4 DEF ActivityEvent, TypeOK, Kinds
<1>5. ASSUME NEW a \in Users, DeleteActivity(a)
      PROVE  /\ Grows /\ UNCHANGED <<role, expense, inboxVars, run, published, faults>>
             /\ activity' \in [assignedTo : Users \cup {NoUser}, createdBy : Users,
                               state : {"open", "closed", "deleted"}]
  BY <1>2, <1>5 DEF DeleteActivity, TypeOK, Kinds
<1>6. ASSUME NEW t \in ExpenseTypes, AnnounceExpense(t)
      PROVE  Grows /\ UNCHANGED <<bondVars, inboxVars, run, published, faults>>
  <2>1. expense.requestedBy \in Users
    BY DEF TypeOK
  <2>. QED  BY <1>2, <1>6, <2>1 DEF AnnounceExpense, Kinds
<1>7. ASSUME NEW u \in Users, ApproveExpense(u)
      PROVE  /\ Grows /\ UNCHANGED <<role, activity, inboxVars, run, published, faults>>
             /\ expense' \in [requestedBy : Users, status : {"pending", "approved", "cancelled"},
                              approvedBy : Users \cup {NoUser}]
  BY <1>2, <1>7 DEF ApproveExpense, TypeOK, Kinds
<1>8. ASSUME CancelExpense
      PROVE  /\ UNCHANGED <<role, activity, outbox, inboxVars, run, published, faults>>
             /\ expense' \in [requestedBy : Users, status : {"pending", "approved", "cancelled"},
                              approvedBy : Users \cup {NoUser}]
  BY <1>8 DEF CancelExpense, TypeOK
<1>9. /\ Grows /\ UNCHANGED <<inboxVars, run, published, faults>>
      /\ role' \in [Users -> {"none", "progenitor", "coordinator"}]
      /\ activity' \in [assignedTo : Users \cup {NoUser}, createdBy : Users,
                        state : {"open", "closed", "deleted"}]
      /\ expense' \in [requestedBy : Users, status : {"pending", "approved", "cancelled"},
                       approvedBy : Users \cup {NoUser}]
  BY <1>3, <1>4, <1>5, <1>6, <1>7, <1>8 DEF BondNext, bondVars, Grows, TypeOK
<1>10. outbox' \in Seq(EventRecords) /\ Len(outbox') <= MaxEvents
  <2>1. Len(outbox) <= MaxEvents /\ MaxEvents \in Nat
    BY NotificationsAssumption DEF TypeOK
  <2>. QED  BY <1>1, <1>9, <2>1, Appending DEF Grows
<1>. QED  BY <1>9, <1>10 DEF TypeOK, inboxVars, EventRecords

(* They keep the invariant. *)
LEMMA BondKeeps == ASSUME NotificationsInv, BondNext PROVE NotificationsInv'
<1>0. /\ TypeOK /\ RunsSound /\ ToldAreMarked /\ StillThere /\ OwnersSound
      /\ outbox \in Seq(EventRecords)
  BY TypesNamed DEF NotificationsInv
<1>1. /\ Grows /\ TypeOK'
      /\ inbox' = inbox /\ told' = told /\ day' = day /\ run' = run /\ published' = published
  BY <1>0, BondSteps DEF inboxVars
<1>2. DOMAIN outbox \subseteq DOMAIN outbox' /\ \A i \in DOMAIN outbox : outbox'[i] = outbox[i]
  BY <1>0, <1>1, Appending DEF Grows
<1>3. RunsSound'
  BY <1>0, <1>1, <1>2 DEF RunsSound
<1>4. ToldAreMarked'
  BY <1>0, <1>1, <1>2 DEF ToldAreMarked
<1>5. StillThere'
  BY <1>0, <1>1 DEF StillThere, InHand
<1>6. OwnersSound'
  BY <1>0, <1>1 DEF OwnersSound, Owns
<1>. QED  BY <1>1, <1>3, <1>4, <1>5, <1>6 DEF NotificationsInv

-----------------------------------------------------------------------------
(* The steps of the relay.                                                 *)

(* A run other than the one that moves keeps what it has in hand.          *)
LEMMA OthersInHand ==
  ASSUME run \in [Relays -> Runs], NEW r \in Relays, NEW q, run' = [run EXCEPT ![r] = q],
         NEW s \in Relays, s # r
  PROVE  run'[s] = run[s] /\ InHand(s)' = InHand(s)
BY DEF InHand

(* A run that moves without telling, marking or publishing anything.       *)
Moves(r, q) ==
  /\ run' = [run EXCEPT ![r] = q]
  /\ UNCHANGED <<bondVars, outbox, inboxVars, published>>
  /\ faults' \in 0..MaxFaults
  /\ q \in Runs
  /\ q.batch \subseteq DOMAIN outbox
  /\ q.pc = "idle" => q.batch = {}
  /\ q.pc = "commit" => q.now \in DOMAIN outbox /\ outbox[q.now].actor \notin q.to
  /\ q.pc = "publish" => run[r].pc = "publish" /\ q.now = run[r].now /\ q.to \subseteq run[r].to
  /\ \A e \in q.batch \cup (IF q.pc = "commit" THEN {q.now} ELSE {}) :
       e \in InHand(r) \/ ~outbox[e].dispatched

(* Such a move keeps the invariant.                                        *)
LEMMA MoveKeeps ==
  ASSUME NotificationsInv, NEW r \in Relays, NEW q, Moves(r, q) PROVE NotificationsInv'
<1>0. /\ TypeOK /\ RunsSound /\ ToldAreMarked /\ StillThere /\ OwnersSound
      /\ outbox \in Seq(EventRecords) /\ run \in [Relays -> Runs]
  BY TypesNamed DEF NotificationsInv
<1>1. /\ run' = [run EXCEPT ![r] = q] /\ q \in Runs
      /\ outbox' = outbox /\ inbox' = inbox /\ told' = told /\ day' = day /\ published' = published
  BY DEF Moves, inboxVars
<1>2. run'[r] = q /\ \A s \in Relays \ {r} : run'[s] = run[s]
  BY <1>0, <1>1
<1>3. TypeOK'
  <2>1. run' \in [Relays -> Runs]
    BY <1>0, <1>1
  <2>. QED  BY <1>0, <1>1, <2>1 DEF TypeOK, Moves, bondVars, Runs, Stages
<1>4. RunsSound'
  <2>1. run[r].pc = "publish" => run[r].now \in DOMAIN outbox
    BY <1>0 DEF RunsSound
  <2>. QED  BY <1>0, <1>1, <1>2, <2>1 DEF RunsSound, Moves
<1>5. ToldAreMarked'
  BY <1>0, <1>1 DEF ToldAreMarked
<1>6. StillThere'
  <2> SUFFICES ASSUME NEW s \in Relays, NEW e \in InHand(s)', NEW u \in Users, <<u, e>> \in told
               PROVE  \E n \in inbox : n.user = u /\ n.event = e /\ n.created = day
    BY <1>1 DEF StillThere
  <2>1. CASE s = r
    <3>1. e \in InHand(r) \/ ~outbox[e].dispatched
      BY <1>2, <2>1 DEF InHand, Moves
    <3>2. e \in Events
      BY <1>0, <1>1, <1>2, <2>1 DEF InHand, Moves, Runs, TypeOK, Events
    <3>. QED  BY <1>0, <3>1, <3>2, <2>1 DEF StillThere, ToldAreMarked
  <2>2. CASE s # r
    <3>1. e \in InHand(s)
      BY <1>2, <2>2 DEF InHand
    <3>. QED  BY <1>0, <3>1 DEF StillThere
  <2>. QED  BY <2>1, <2>2
<1>7. OwnersSound'
  <2>1. ASSUME NEW s \in Relays, NEW u, NEW e PROVE Owns(s, u, e)' => Owns(s, u, e)
    BY <1>1, <1>2 DEF Owns, Moves
  <2>. QED  BY <1>0, <1>1, <2>1 DEF OwnersSound
<1>. QED  BY <1>3, <1>4, <1>5, <1>6, <1>7 DEF NotificationsInv

(* All steps of a run but the commit and a frame that Redis takes are moves. *)
LEMMA StepsAreMoves ==
  ASSUME NotificationsInv, NEW r \in Relays,
         Poll(r) \/ Select(r) \/ PublishChanged(r) \/ Finish(r) \/ Rollback(r) \/ Crash(r)
  PROVE  \E q : Moves(r, q)
<1>0. /\ TypeOK /\ RunsSound /\ outbox \in Seq(EventRecords) /\ run \in [Relays -> Runs]
      /\ faults \in 0..MaxFaults /\ MaxFaults \in Nat
  BY TypesNamed, NotificationsAssumption DEF NotificationsInv, TypeOK
<1>1. /\ run[r].batch \subseteq DOMAIN outbox /\ run[r] \in Runs
      /\ DOMAIN outbox \subseteq Events
  <2>1. DOMAIN outbox \subseteq Events
    BY <1>0, NotificationsAssumption DEF TypeOK, Events
  <2>. QED  BY <1>0, <2>1 DEF RunsSound
<1>2. ASSUME NEW B, B \subseteq DOMAIN outbox, NEW p \in {"idle", "batch"}
      PROVE  At(p, B, 0, {}) \in Runs
  BY <1>1, <1>2 DEF At, Runs, Stages
<1>3. CASE Poll(r)
  <2>. DEFINE B == { e \in Pending : Cardinality({ f \in Pending : f < e }) < BatchLimit }
  <2>1. B \subseteq DOMAIN outbox /\ \A e \in B : ~outbox[e].dispatched
    BY DEF Pending
  <2>2. run' = [run EXCEPT ![r] = At("batch", B, 0, {})]
        /\ UNCHANGED <<bondVars, outbox, inboxVars, published, faults>>
    BY <1>3 DEF Poll
  <2>. HIDE DEF B
  <2>3. Moves(r, At("batch", B, 0, {}))
    BY <1>0, <1>2, <2>1, <2>2 DEF Moves, At
  <2>. QED  BY <2>3
<1>4. CASE Select(r)
  <2>1. PICK e \in run[r].batch, coordinator \in Coordinators,
             counterpart \in Counterparts(Members, expense.requestedBy) :
          run' = [run EXCEPT ![r] = At("commit", @.batch \ {e}, e,
                                       ToldOf(outbox[e], coordinator, counterpart))]
    BY <1>4 DEF Select
  <2>. DEFINE to == ToldOf(outbox[e], coordinator, counterpart)
              q == At("commit", run[r].batch \ {e}, e, to)
  <2>2. e \in DOMAIN outbox /\ outbox[e] \in EventRecords
    BY <1>0, <1>1
  <2>3. to \subseteq Users \ {outbox[e].actor}
    BY <1>0, <2>2, ToldAreUsers
  <2>4. run' = [run EXCEPT ![r] = q]
    BY <2>1
  <2>. HIDE DEF to
  <2>5. q \in Runs
    BY <1>1, <2>2, <2>3 DEF At, Runs, Stages
  <2>6. Moves(r, q)
    BY <1>0, <1>1, <1>4, <2>2, <2>3, <2>4, <2>5 DEF Moves, At, InHand, Select
  <2>. QED  BY <2>6
<1>5. CASE PublishChanged(r) \/ Rollback(r)
  <2>. DEFINE q == At("batch", run[r].batch, 0, {})
  <2>1. run' = [run EXCEPT ![r] = q] /\ UNCHANGED <<bondVars, outbox, inboxVars, published>>
    BY <1>5 DEF PublishChanged, Rollback
  <2>2. faults' \in 0..MaxFaults
    BY <1>0, <1>5 DEF PublishChanged, Rollback, Fault
  <2>3. q \in Runs
    BY <1>1, <1>2
  <2>4. Moves(r, q)
    BY <1>1, <2>1, <2>2, <2>3 DEF Moves, At, InHand
  <2>. QED  BY <2>4
<1>6. CASE Finish(r) \/ Crash(r)
  <2>1. run' = [run EXCEPT ![r] = Idle] /\ UNCHANGED <<bondVars, outbox, inboxVars, published>>
    BY <1>6 DEF Finish, Crash
  <2>2. faults' \in 0..MaxFaults
    BY <1>0, <1>6 DEF Finish, Crash, Fault
  <2>3. Idle \in Runs
    BY <1>2 DEF Idle
  <2>4. Moves(r, Idle)
    BY <2>1, <2>2, <2>3 DEF Moves, At, Idle
  <2>. QED  BY <2>4
<1>. QED  BY <1>3, <1>4, <1>5, <1>6

(* A frame that is taken, or lost, was the run's own to send.              *)
LEMMA PublishKeeps ==
  ASSUME NotificationsInv, NEW r \in Relays, NEW v \in Users, PublishNotification(r, v)
  PROVE  NotificationsInv'
<1>. DEFINE q == [run[r] EXCEPT !.to = @ \ {v}]
<1>0. /\ TypeOK /\ RunsSound /\ ToldAreMarked /\ StillThere /\ OwnersSound
      /\ outbox \in Seq(EventRecords) /\ run \in [Relays -> Runs]
      /\ faults \in 0..MaxFaults /\ MaxFaults \in Nat
  BY TypesNamed, NotificationsAssumption DEF NotificationsInv, TypeOK
<1>1. /\ run[r] \in Runs /\ run[r].pc = "publish" /\ v \in run[r].to
      /\ run[r].now \in DOMAIN outbox /\ run[r].now \in Events
      /\ run[r].batch \subseteq DOMAIN outbox
  <2>1. DOMAIN outbox \subseteq Events
    BY <1>0, NotificationsAssumption DEF TypeOK, Events
  <2>. QED  BY <1>0, <2>1 DEF PublishNotification, RunsSound
<1>2. /\ q \in Runs /\ q.pc = "publish" /\ q.batch = run[r].batch /\ q.now = run[r].now
      /\ q.to = run[r].to \ {v}
  BY <1>1 DEF Runs
<1>3. run' = [run EXCEPT ![r] = q] /\ UNCHANGED <<bondVars, outbox, inboxVars>>
  BY <1>0 DEF PublishNotification
<1>4. faults' \in 0..MaxFaults
  BY <1>0 DEF PublishNotification, Fault
<1>. HIDE DEF q
<1>5. CASE published' = published
  <2>1. Moves(r, q)
    BY <1>1, <1>2, <1>3, <1>4, <1>5 DEF Moves, InHand
  <2>. QED  BY <2>1, MoveKeeps DEF NotificationsInv
<1>6. CASE published' = published \cup {Frame(v, run[r].now, r)}
  <2>0. run'[r] = q /\ \A s \in Relays \ {r} : run'[s] = run[s]
    BY <1>0, <1>3
  <2>1. TypeOK'
    <3>1. run' \in [Relays -> Runs]
      BY <1>0, <1>2, <1>3
    <3>2. published' \subseteq Frames
      BY <1>0, <1>1, <1>6 DEF TypeOK, Frame, Frames
    <3>. QED  BY <1>0, <1>3, <1>4, <3>1, <3>2 DEF TypeOK, bondVars, inboxVars, Runs, Stages
  <2>2. RunsSound'
    BY <1>0, <1>1, <1>2, <1>3, <2>0 DEF RunsSound
  <2>3. ToldAreMarked'
    BY <1>0, <1>3 DEF ToldAreMarked, inboxVars
  <2>4. StillThere'
    <3>1. \A s \in Relays : InHand(s)' = InHand(s)
      BY <1>1, <1>2, <2>0 DEF InHand
    <3>. QED  BY <1>0, <1>3, <3>1 DEF StillThere, inboxVars
  <2>5. OwnersSound'
    <3>1. ASSUME NEW s \in Relays, NEW u \in Users, NEW e \in Events PROVE Owns(s, u, e)' => Owns(s, u, e)
      <4>1. Frame(u, e, s) \in published' => Frame(u, e, s) \in published \/ (u = v /\ e = run[r].now /\ s = r)
        BY <1>6 DEF Frame
      <4>. QED  BY <1>1, <1>2, <2>0, <4>1 DEF Owns
    <3>. QED  BY <1>0, <1>3, <3>1 DEF OwnersSound, inboxVars
  <2>. QED  BY <2>1, <2>2, <2>3, <2>4, <2>5 DEF NotificationsInv
<1>. QED  BY <1>5, <1>6 DEF PublishNotification

(* Whom a commit tells has not been told before.                           *)
LEMMA FreshAreNew ==
  ASSUME NotificationsInv, NEW r \in Relays, run[r].pc = "commit"
  PROVE  LET e == run[r].now
             fresh == Fresh(run[r].to, e)
         IN  /\ e \in DOMAIN outbox /\ e \in Events /\ fresh \subseteq Users
             /\ outbox[e].actor \notin fresh
             /\ \A u \in fresh : <<u, e>> \notin told
<1>. DEFINE e == run[r].now
<1>0. /\ TypeOK /\ RunsSound /\ StillThere
      /\ outbox \in Seq(EventRecords) /\ run \in [Relays -> Runs]
  BY TypesNamed DEF NotificationsInv
<1>1. e \in DOMAIN outbox /\ outbox[e].actor \notin run[r].to
  BY <1>0 DEF RunsSound
<1>2. e \in Events
  BY <1>0, <1>1, NotificationsAssumption DEF TypeOK, Events
<1>3. run[r].to \subseteq Users
  BY <1>0 DEF Runs
<1>4. Fresh(run[r].to, e) \subseteq run[r].to
  BY DEF Fresh
<1>5. ASSUME NEW u \in Fresh(run[r].to, e), <<u, e>> \in told PROVE FALSE
  <2>1. e \in InHand(r)
    BY DEF InHand
  <2>2. PICK n \in inbox : n.user = u /\ n.event = e
    BY <1>0, <1>3, <1>4, <1>5, <2>1 DEF StillThere
  <2>. QED  BY <2>2 DEF Fresh
<1>. QED  BY <1>1, <1>2, <1>3, <1>4, <1>5

(* The transaction of the dispatch: each row it creates is announced by    *)
(* this run and no other.                                                  *)
LEMMA CommitKeeps == ASSUME NotificationsInv, NEW r \in Relays, Commit(r) PROVE NotificationsInv'
<1>. DEFINE e == run[r].now
            fresh == Fresh(run[r].to, e)
            q == [run[r] EXCEPT !.pc = "publish", !.to = fresh]
<1>0. /\ TypeOK /\ RunsSound /\ ToldAreMarked /\ StillThere /\ OwnersSound
      /\ outbox \in Seq(EventRecords) /\ run \in [Relays -> Runs]
  BY TypesNamed DEF NotificationsInv
<1>1. /\ e \in DOMAIN outbox /\ e \in Events /\ fresh \subseteq Users
      /\ \A u \in fresh : <<u, e>> \notin told
  BY FreshAreNew DEF Commit
<1>2. /\ inbox' = inbox \cup { Row(u, e) : u \in fresh }
      /\ told' = told \cup (fresh \X {e})
      /\ outbox' = [outbox EXCEPT ![e].dispatched = TRUE]
      /\ run' = [run EXCEPT ![r] = q]
      /\ UNCHANGED <<bondVars, day, published, faults>>
  BY <1>0 DEF Commit
<1>3. run[r] \in Runs /\ run[r].pc = "commit"
  BY <1>0 DEF Commit
<1>. HIDE DEF fresh
<1>4. /\ q \in Runs /\ q.pc = "publish" /\ q.batch = run[r].batch /\ q.now = e /\ q.to = fresh
  BY <1>1, <1>3 DEF Runs, Stages
<1>. HIDE DEF q
<1>5. run'[r] = q /\ \A s \in Relays \ {r} : run'[s] = run[s]
  BY <1>0, <1>2
<1>6. /\ outbox' \in Seq(EventRecords) /\ Len(outbox') = Len(outbox) /\ DOMAIN outbox' = DOMAIN outbox
      /\ outbox'[e].dispatched
      /\ \A i \in DOMAIN outbox :
           outbox'[i].actor = outbox[i].actor /\ (outbox[i].dispatched => outbox'[i].dispatched)
  BY <1>0, <1>1, <1>2, Marking
<1>. HIDE DEF e
<1>7. TypeOK'
  <2>1. run' \in [Relays -> Runs]
    BY <1>0, <1>2, <1>4
  <2>2. inbox' \subseteq Rows
    <3>1. \A u \in fresh : Row(u, e) \in Rows
      BY <1>0, <1>1 DEF TypeOK, Row, Rows
    <3>. QED  BY <1>0, <1>2, <3>1 DEF TypeOK
  <2>3. told' \subseteq Users \X Events
    BY <1>0, <1>1, <1>2 DEF TypeOK
  <2>. QED  BY <1>0, <1>2, <1>6, <2>1, <2>2, <2>3 DEF TypeOK, bondVars, Runs, Stages, EventRecords
<1>8. RunsSound'
  BY <1>0, <1>1, <1>4, <1>5, <1>6 DEF RunsSound
<1>9. ToldAreMarked'
  BY <1>0, <1>1, <1>2, <1>6 DEF ToldAreMarked
<1>10. StillThere'
  <2> SUFFICES ASSUME NEW s \in Relays, NEW f \in InHand(s)', NEW u \in Users, <<u, f>> \in told'
               PROVE  \E n \in inbox' : n.user = u /\ n.event = f /\ n.created = day
    BY <1>2 DEF StillThere
  <2>1. f \in InHand(s)
    BY <1>3, <1>4, <1>5 DEF InHand
  <2>2. CASE <<u, f>> \in told
    BY <1>0, <1>2, <2>1, <2>2 DEF StillThere
  <2>3. CASE u \in fresh /\ f = e
    <3>1. Row(u, e) \in inbox'
      BY <1>2, <2>3
    <3>2. Row(u, e).user = u /\ Row(u, e).event = e /\ Row(u, e).created = day
      BY DEF Row
    <3>. QED  BY <2>3, <3>1, <3>2
  <2>. QED  BY <1>2, <2>2, <2>3
<1>11. OwnersSound'
  <2>1. ASSUME NEW s \in Relays, NEW u \in Users, NEW f \in Events, Owns(s, u, f)'
        PROVE  Owns(s, u, f) \/ (s = r /\ f = e /\ u \in fresh)
    BY <1>2, <1>4, <1>5, <2>1 DEF Owns
  <2>2. ASSUME NEW s \in Relays, NEW u \in fresh, Owns(s, u, e) PROVE FALSE
    BY <1>0, <1>1, <2>2 DEF OwnersSound
  <2>. QED  BY <1>0, <1>1, <1>2, <2>1, <2>2 DEF OwnersSound
<1>. QED  BY <1>7, <1>8, <1>9, <1>10, <1>11 DEF NotificationsInv

-----------------------------------------------------------------------------
(* The steps of the inbox.                                                 *)

(* Reading, forgetting and the passing of days keep who was told, and what *)
(* is of today as long as any run is busy.                                 *)
LEMMA InboxKeeps == ASSUME NotificationsInv, InboxNext PROVE NotificationsInv'
<1>0. /\ TypeOK /\ RunsSound /\ ToldAreMarked /\ StillThere /\ OwnersSound
      /\ outbox \in Seq(EventRecords) /\ run \in [Relays -> Runs]
      /\ inbox \subseteq Rows /\ day \in 0..MaxDay /\ {Retention, MaxDay} \subseteq Nat
  BY TypesNamed, NotificationsAssumption DEF NotificationsInv, TypeOK
<1>1. ASSUME NEW rows, rows \subseteq inbox, inbox' = ReadRows(rows), day' = day
      PROVE  /\ inbox' \subseteq Rows
             /\ \A n \in inbox : \E m \in inbox' :
                  m.user = n.user /\ m.event = n.event /\ m.created = n.created
  <2>1. \A n \in Rows : LET m == [n EXCEPT !.read = TRUE] IN
          m \in Rows /\ m.user = n.user /\ m.event = n.event /\ m.created = n.created
    BY DEF Rows
  <2>. QED  BY <1>0, <1>1, <2>1 DEF ReadRows
<1>4. told' = told /\ Outside
  BY DEF InboxNext, MarkAllRead, MarkRead, Purge, Tick
<1>5. /\ inbox' \subseteq Rows /\ day' \in 0..MaxDay
      /\ \/ day' = day /\ \A n \in inbox : n.created = day =>
              \E m \in inbox' : m.user = n.user /\ m.event = n.event /\ m.created = day
         \/ \A r \in Relays : run[r].pc = "idle"
  <2>1. CASE \E u \in Readers : MarkAllRead(u) \/ \E n \in inbox : MarkRead(u, n)
    <3>1. day' = day /\ \E rows \in SUBSET inbox : inbox' = ReadRows(rows)
      BY <2>1 DEF MarkAllRead, MarkRead
    <3>2. PICK rows \in SUBSET inbox : inbox' = ReadRows(rows)
      BY <3>1
    <3>. QED  BY <1>0, <1>1, <3>1, <3>2
  <2>2. CASE Purge
    <3>1. inbox' = { n \in inbox : n.created + Retention >= day } /\ day' = day
      BY <2>2 DEF Purge
    <3>2. \A n \in inbox : n.created = day => n \in inbox'
      BY <1>0, <3>1
    <3>. QED  BY <1>0, <3>1, <3>2
  <2>3. CASE Tick
    BY <1>0, <2>3 DEF Tick
  <2>. QED  BY <2>1, <2>2, <2>3 DEF InboxNext
<1>6. TypeOK' /\ RunsSound' /\ ToldAreMarked' /\ OwnersSound'
  BY <1>0, <1>4, <1>5 DEF Outside, bondVars, TypeOK, RunsSound, ToldAreMarked, OwnersSound, Owns
<1>7. StillThere'
  <2>1. \A r \in Relays : InHand(r)' = InHand(r)
    BY <1>4 DEF InHand, Outside
  <2>2. CASE \A r \in Relays : run[r].pc = "idle"
    <3>1. \A r \in Relays : InHand(r) = {}
      BY <1>0, <2>2 DEF InHand, RunsSound
    <3>. QED  BY <2>1, <3>1 DEF StillThere
  <2>3. CASE day' = day /\ \A n \in inbox : n.created = day =>
               \E m \in inbox' : m.user = n.user /\ m.event = n.event /\ m.created = day
    <3> SUFFICES ASSUME NEW r \in Relays, NEW e \in InHand(r), NEW u \in Users, <<u, e>> \in told
                 PROVE  \E m \in inbox' : m.user = u /\ m.event = e /\ m.created = day
      BY <1>4, <2>1, <2>3 DEF StillThere
    <3>1. PICK n \in inbox : n.user = u /\ n.event = e /\ n.created = day
      BY <1>0 DEF StillThere
    <3>. QED  BY <2>3, <3>1
  <2>. QED  BY <1>5, <2>2, <2>3
<1>. QED  BY <1>6, <1>7 DEF NotificationsInv

-----------------------------------------------------------------------------
(* Every step keeps the invariant.                                         *)
LEMMA NotificationsNext == NotificationsInv /\ [Next]_vars => NotificationsInv'
<1> SUFFICES ASSUME NotificationsInv, [Next]_vars PROVE NotificationsInv'
  OBVIOUS
<1>1. CASE BondNext
  BY <1>1, BondKeeps
<1>2. ASSUME NEW r \in Relays, RunNext(r) \/ Rollback(r) \/ Crash(r) PROVE NotificationsInv'
  <2>1. CASE Commit(r)
    BY <2>1, CommitKeeps
  <2>2. ASSUME NEW u \in Users, PublishNotification(r, u) PROVE NotificationsInv'
    BY <2>2, PublishKeeps
  <2>3. CASE Poll(r) \/ Select(r) \/ PublishChanged(r) \/ Finish(r) \/ Rollback(r) \/ Crash(r)
    BY <2>3, StepsAreMoves, MoveKeeps
  <2>. QED  BY <1>2, <2>1, <2>2, <2>3 DEF RunNext
<1>3. CASE InboxNext
  BY <1>3, InboxKeeps
<1>4. CASE UNCHANGED vars
  <2>1. /\ role' = role /\ activity' = activity /\ expense' = expense /\ outbox' = outbox
        /\ inbox' = inbox /\ told' = told /\ day' = day /\ run' = run
        /\ published' = published /\ faults' = faults
    BY <1>4 DEF vars, bondVars, inboxVars
  <2>2. TypeOK'
    BY <2>1 DEF NotificationsInv, TypeOK
  <2>3. RunsSound' /\ ToldAreMarked'
    BY <2>1 DEF NotificationsInv, RunsSound, ToldAreMarked
  <2>4. StillThere'
    BY <2>1 DEF NotificationsInv, StillThere, InHand
  <2>5. OwnersSound'
    BY <2>1 DEF NotificationsInv, OwnersSound, Owns
  <2>. QED  BY <2>2, <2>3, <2>4, <2>5 DEF NotificationsInv
<1>. QED  BY <1>1, <1>2, <1>3, <1>4 DEF Next

(* The inductive invariant.                                                *)
THEOREM NotificationsAlways == Spec => []NotificationsInv
BY NotificationsInit, NotificationsNext, PTL DEF Spec

(* A frame never announces a notification that was not committed.          *)
THEOREM FramesAlwaysHaveRows == Spec => []FramesHaveRows
<1>1. NotificationsInv => FramesHaveRows
  <2> SUFFICES ASSUME NotificationsInv, NEW f \in published PROVE <<f.user, f.event>> \in told
    BY DEF FramesHaveRows
  <2>1. f.user \in Users /\ f.event \in Events /\ f.by \in Relays /\ f = Frame(f.user, f.event, f.by)
    BY DEF NotificationsInv, TypeOK, Frames, Frame
  <2>. QED  BY <2>1 DEF NotificationsInv, OwnersSound, Owns
<1>. QED  BY <1>1, NotificationsAlways, PTL

(* However many runs dispatch an event, a notification is announced once.  *)
THEOREM OnlyOneFramePerRow == Spec => []OneFramePerRow
<1>1. NotificationsInv => OneFramePerRow
  <2> SUFFICES ASSUME NotificationsInv, NEW f \in published, NEW g \in published,
                      f.user = g.user, f.event = g.event
               PROVE  f.by = g.by
    BY DEF OneFramePerRow
  <2>1. f.user \in Users /\ f.event \in Events /\ f.by \in Relays /\ g.by \in Relays
    BY DEF NotificationsInv, TypeOK, Frames
  <2>2. f = Frame(f.user, f.event, f.by) /\ g = Frame(f.user, f.event, g.by)
    BY DEF NotificationsInv, TypeOK, Frames, Frame
  <2>. QED  BY <2>1, <2>2 DEF NotificationsInv, OwnersSound, Owns
<1>. QED  BY <1>1, NotificationsAlways, PTL

-----------------------------------------------------------------------------
(* The refinement.                                                         *)

ActorOf == [e \in Events |-> IF e <= Len(outbox) THEN outbox[e].actor ELSE NoUser]

(* A commit tells whoever had not been told, and never the actor.          *)
LEMMA CommitTells ==
  ASSUME NotificationsInv, NEW r \in Relays, Commit(r) PROVE Contract!ContractNext
<1>. DEFINE e == run[r].now
            fresh == Fresh(run[r].to, e)
<1>0. outbox \in Seq(EventRecords)
  BY TypesNamed DEF NotificationsInv
<1>1. /\ e \in DOMAIN outbox /\ e \in Events /\ fresh \subseteq Users
      /\ outbox[e].actor \notin fresh /\ \A u \in fresh : <<u, e>> \notin told
  BY FreshAreNew DEF Commit
<1>2. /\ inbox' = inbox \cup { Row(u, e) : u \in fresh }
      /\ told' = told \cup (fresh \X {e}) /\ day' = day
      /\ outbox' = [outbox EXCEPT ![e].dispatched = TRUE]
  BY DEF Commit
<1>. HIDE DEF e, fresh
<1>3. ActorOf' = ActorOf
  <2>1. /\ Len(outbox') = Len(outbox) /\ DOMAIN outbox = 1..Len(outbox)
        /\ \A i \in DOMAIN outbox : outbox'[i].actor = outbox[i].actor
    BY <1>0, <1>1, <1>2, Marking
  <2>2. \A i \in Events : (i <= Len(outbox)) => i \in DOMAIN outbox
    BY <1>0, <2>1 DEF Events
  <2>. QED  BY <2>1, <2>2 DEF ActorOf
<1>4. ActorOf[e] = outbox[e].actor
  BY <1>0, <1>1 DEF ActorOf
<1>5. Contract!Tell(e, fresh)
  BY <1>1, <1>2, <1>3, <1>4 DEF Contract!Tell, Row, ActorOf
<1>. QED  BY <1>1, <1>5 DEF Contract!ContractNext

(* Events appear with an actor and keep it.                                *)
LEMMA BondHappens == ASSUME NotificationsInv, BondNext PROVE Contract!ContractNext
<1>0. TypeOK /\ ToldAreMarked /\ outbox \in Seq(EventRecords)
  BY TypesNamed DEF NotificationsInv
<1>1. Grows /\ inbox' = inbox /\ told' = told /\ day' = day
  BY <1>0, BondSteps DEF inboxVars
<1>2. ASSUME NEW e \in Events, ActorOf'[e] # ActorOf[e] PROVE e \notin DOMAIN outbox
  <2>1. e \in DOMAIN outbox => e \in DOMAIN outbox' /\ outbox'[e] = outbox[e]
    BY <1>0, <1>1, Appending DEF Grows
  <2>2. outbox' \in Seq(EventRecords)
    BY <1>0, <1>1, Appending DEF Grows
  <2>. QED  BY <1>0, <1>2, <2>1, <2>2 DEF ActorOf
<1>3. \A e \in Events : ActorOf'[e] # ActorOf[e] => \A u \in Users : <<u, e>> \notin told
  BY <1>0, <1>2 DEF ToldAreMarked
<1>4. Contract!Happen
  BY <1>1, <1>3 DEF Contract!Happen, ActorOf
<1>. QED  BY <1>4 DEF Contract!ContractNext

(* Every step of the notifications is a step of the contract, or none.     *)
LEMMA StepsKeepContract ==
  NotificationsInv /\ [Next]_vars => [Contract!ContractNext]_(Contract!cvars)
<1> SUFFICES ASSUME NotificationsInv, [Next]_vars
             PROVE  Contract!ContractNext \/ UNCHANGED Contract!cvars
  OBVIOUS
<1>1. CASE BondNext
  BY <1>1, BondHappens
<1>2. ASSUME NEW r \in Relays, RunNext(r) \/ Rollback(r) \/ Crash(r)
      PROVE  Contract!ContractNext \/ UNCHANGED Contract!cvars
  <2>1. CASE Commit(r)
    BY <2>1, CommitTells
  <2>2. CASE ~Commit(r)
    <3>1. outbox' = outbox /\ inbox' = inbox /\ told' = told /\ day' = day
      BY <1>2, <2>2 DEF RunNext, Poll, Select, PublishNotification, PublishChanged, Finish,
                        Rollback, Crash, inboxVars
    <3>. QED  BY <3>1 DEF Contract!cvars
  <2>. QED  BY <2>1, <2>2
<1>3. CASE InboxNext
  <2>1. told' = told /\ outbox' = outbox
    BY <1>3 DEF InboxNext, MarkAllRead, MarkRead, Purge, Tick, Outside
  <2>2. ASSUME NEW u \in Readers, MarkAllRead(u) PROVE Contract!ContractNext
    <3>. DEFINE rows == { n \in inbox : n.user = u /\ ~n.read }
    <3>1. u \in Users /\ rows \in SUBSET inbox
      BY NotificationsAssumption
    <3>2. Contract!Read(u, rows)
      BY <2>1, <2>2 DEF MarkAllRead, ReadRows, Contract!Read
    <3>. QED  BY <3>1, <3>2 DEF Contract!ContractNext
  <2>3. ASSUME NEW u \in Readers, NEW n \in inbox, MarkRead(u, n) PROVE Contract!ContractNext
    <3>1. u \in Users /\ {n} \in SUBSET inbox
      BY NotificationsAssumption
    <3>2. Contract!Read(u, {n})
      BY <2>1, <2>3 DEF MarkRead, ReadRows, Contract!Read
    <3>. QED  BY <3>1, <3>2 DEF Contract!ContractNext
  <2>4. CASE Purge
    <3>1. inbox' = { n \in inbox : day <= n.created + Retention }
      <4>1. inbox \subseteq Rows /\ day \in Nat /\ Retention \in Nat
        BY NotificationsAssumption DEF NotificationsInv, TypeOK
      <4>. QED  BY <2>4, <4>1 DEF Purge, Rows
    <3>2. Contract!Forget
      BY <2>1, <2>4, <3>1 DEF Purge, Contract!Forget
    <3>. QED  BY <3>2 DEF Contract!ContractNext
  <2>5. CASE Tick
    BY <2>1, <2>5 DEF Tick, Contract!ContractNext, Contract!Pass
  <2>. QED  BY <1>3, <2>2, <2>3, <2>4, <2>5 DEF InboxNext
<1>4. CASE UNCHANGED vars
  BY <1>4 DEF vars, inboxVars, Contract!cvars
<1>. QED  BY <1>1, <1>2, <1>3, <1>4 DEF Next

(* Relay, transactions, rollbacks and overlapping runs implement an inbox  *)
(* that tells every user of an event at most once and never the actor, and *)
(* forgets only what is old.                                               *)
THEOREM NotificationsKeepContract == Spec => ImplementsInbox
<1>1. Init => Contract!ContractInit
  BY DEF Init, Contract!ContractInit
<1>. QED  BY <1>1, StepsKeepContract, NotificationsAlways, PTL DEF Spec, ImplementsInbox, Contract!ContractSpec

=============================================================================
