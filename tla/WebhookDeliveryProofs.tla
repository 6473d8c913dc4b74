----------------------- MODULE WebhookDeliveryProofs -----------------------
(***************************************************************************)
(* The safety of webhook delivery for any number of events, subscriptions, *)
(* runs, handlers, replays, edits, attempts, removals and faults.  Four    *)
(* inductive invariants, one upon the other:                               *)
(*   DeliveryInv   shapes, and a handler that has not lost its lock holds  *)
(*                 the active job of its pair;                             *)
(*   MatchInv      what a run has matched before its transaction is still  *)
(*                 enough when it commits;                                 *)
(*   CountersInv   row, job and handler agree on the attempts made, as long*)
(*                 as the calm lasts;                                      *)
(*   PromiseInv    nobody touches a pair before it is announced, and a run *)
(*                 has matched only who asked: with these every step is one*)
(*                 of DeliveryContract.                                    *)
(* The batch of a run stays untyped: it is the result of SelectSeq, a      *)
(* recursive operator, and nothing below depends on it.                    *)
(***************************************************************************)
EXTENDS WebhookDelivery, TLAPS

USE DEF subs

RunFields == {"phase", "batch", "matched", "todo"}

IsRun(q) == q = [f \in RunFields |-> q[f]]

Spending == [upsets : Nat, calm : BOOLEAN, steady : SUBSET Subscriptions]

ShapesOK ==
  /\ subscription \in [Subscriptions -> {"ACTIVE", "DISABLED", "REMOVED"}]
  /\ removals \in [Subscriptions -> Nat]
  /\ edit \in [Clients -> EditCopy \cup {Null}]
  /\ delivery \in [Pairs -> Delivery \cup {Null}]
  /\ posts \in [Pairs -> Nat]
  /\ job \in [Pairs -> Job \cup {Null}]
  /\ run = [r \in Runners |-> run[r]]
  /\ \A r \in Runners : run[r] # Null => IsRun(run[r])
  /\ handler \in [Handlers -> Handling \cup {Null}]
  /\ replay \in [Clients -> Pairs \cup {Null}]
  /\ spent \in Spending

(* A job that may still be worked on has an attempt left. *)
LiveJobsHaveAttempts == \A p \in Pairs : IsLive(p) => job[p].made < MaxAttempts

(* A handler that has its lock holds the active job of its pair. *)
HandlersHoldJobs ==
  \A h \in Handlers : handler[h] # Null /\ handler[h].lock => InState(handler[h].pair, {"active"})

DeliveryInv == ShapesOK /\ LiveJobsHaveAttempts /\ HandlersHoldJobs /\ OneHandlerPerDelivery

(* Whoever wanted the event and has been active since is among the matched. *)
MatchesHold ==
  \A r \in Runners : run[r] # Null /\ run[r].phase = "matched" =>
    \A s \in spent.steady : Head(run[r].batch) \in Wants(s) => s \in run[r].matched

SteadyAreActive == \A s \in spent.steady : subscription[s] = "ACTIVE"

MatchInv == DeliveryInv /\ SteadyAreActive /\ MatchesHold /\ NoSubscriberSkipped

(* A removed subscription has no rows. *)
RemovedHaveNoRows ==
  \A p \in Pairs : subscription[p[2]] = "REMOVED" => delivery[p] = Null

(* What the calm excludes: replays, handlers without a lock, and a         *)
(* subscription that came back.                                            *)
CalmMeans ==
  spent.calm =>
    /\ \A c \in Clients : replay[c] = Null
    /\ \A h \in Handlers : handler[h] # Null => handler[h].lock
    /\ \A s \in Subscriptions : subscription[s] # "REMOVED" => removals[s] = 0

(* A subscription that was never removed is there. *)
RemovalsAreCounted == \A s \in Subscriptions : removals[s] = 0 => subscription[s] # "REMOVED"

RemovalInv == DeliveryInv /\ RemovedHaveNoRows /\ CalmMeans /\ RemovalsAreCounted

-----------------------------------------------------------------------------
(* Records are not Null, and the fields of a record that is changed keep    *)
(* their types.                                                            *)
LEMMA RecordsAreNotNull ==
  /\ \A d \in Delivery : d # Null
  /\ \A j \in Job : j # Null
  /\ \A x \in Handling : x # Null
  /\ \A x \in EditCopy : x # Null
  /\ \A p \in Pairs : p # Null
  /\ NewJob \in Job /\ NewJob.state = "waiting" /\ NewJob.made = 0 /\ 0 < MaxAttempts
BY DeliveryAssumption DEF NewJob, Job

(* When its delay is over only that changes in a row. *)
LEMMA ElapsedRow == ASSUME NEW d \in Delivery PROVE [d EXCEPT !.due = TRUE] \in Delivery
BY DEF Delivery

(* A row as the fan-out inserts it and a replay leaves it. *)
LEMMA FreshRow == [status |-> "PENDING", count |-> 0, due |-> TRUE] \in Delivery
BY DEF Delivery, Open

(* Nothing has begun. *)
LEMMA DeliveryInit == Init => DeliveryInv
<1> SUFFICES ASSUME Init PROVE DeliveryInv
  OBVIOUS
<1>1. ShapesOK
  BY DEF Init, ShapesOK, Spending
<1>2. LiveJobsHaveAttempts /\ HandlersHoldJobs /\ OneHandlerPerDelivery
  BY DEF Init, LiveJobsHaveAttempts, HandlersHoldJobs, OneHandlerPerDelivery, IsLive, InState
<1>. QED  BY <1>1, <1>2 DEF DeliveryInv

Holding == LiveJobsHaveAttempts /\ HandlersHoldJobs /\ OneHandlerPerDelivery

(* Neither jobs nor handlers move. *)
LEMMA HoldingUndisturbed ==
  ASSUME DeliveryInv, UNCHANGED <<job, handler>>
  PROVE  Holding'
BY DEF DeliveryInv, Holding, LiveJobsHaveAttempts, HandlersHoldJobs, OneHandlerPerDelivery, IsLive, InState

(* A job that no handler holds is added, moved or dropped. *)
LEMMA HoldingJob ==
  ASSUME DeliveryInv, NEW p \in Pairs, ~InState(p, {"active"}), NEW j,
         j # Null /\ j.state \in {"waiting", "delayed", "active"} => j.made < MaxAttempts,
         job' = [job EXCEPT ![p] = j], handler' = handler
  PROVE  Holding'
<1>1. job \in [Pairs -> Job \cup {Null}] /\ \A q \in Pairs : job'[q] = IF q = p THEN j ELSE job[q]
  BY DEF DeliveryInv, ShapesOK
<1>2. LiveJobsHaveAttempts'
  BY <1>1 DEF DeliveryInv, LiveJobsHaveAttempts, IsLive, InState
<1>3. \A h \in Handlers : handler[h] # Null /\ handler[h].lock =>
        handler[h].pair \in Pairs /\ handler[h].pair # p
  BY DEF DeliveryInv, ShapesOK, HandlersHoldJobs, Handling
<1>4. HandlersHoldJobs'
  BY <1>1, <1>3 DEF DeliveryInv, HandlersHoldJobs, InState
<1>. QED  BY <1>2, <1>4 DEF DeliveryInv, Holding, OneHandlerPerDelivery

(* A handler goes on with the pair it has, or ends without its job. *)
LEMMA HoldingHandler ==
  ASSUME DeliveryInv, NEW h \in Handlers, handler[h] # Null, NEW x,
         x # Null => x.pair = handler[h].pair /\ (x.lock => handler[h].lock),
         handler' = [handler EXCEPT ![h] = x], job' = job
  PROVE  Holding'
<1>1. \A k \in Handlers : handler'[k] = IF k = h THEN x ELSE handler[k]
  BY DEF DeliveryInv, ShapesOK
<1>2. LiveJobsHaveAttempts'
  BY DEF DeliveryInv, LiveJobsHaveAttempts, IsLive, InState
<1>3. HandlersHoldJobs'
  BY <1>1 DEF DeliveryInv, HandlersHoldJobs, InState
<1>4. OneHandlerPerDelivery'
  BY <1>1 DEF DeliveryInv, OneHandlerPerDelivery
<1>. QED  BY <1>2, <1>3, <1>4 DEF Holding

(* A handler lets go of its job, or the job is taken from it. *)
LEMMA HoldingReleased ==
  ASSUME DeliveryInv, NEW h \in Handlers, handler[h] # Null, handler[h].lock, NEW j, NEW x,
         j # Null /\ j.state \in {"waiting", "delayed", "active"} => j.made < MaxAttempts,
         x # Null => x.pair = handler[h].pair /\ ~x.lock,
         job' = [job EXCEPT ![handler[h].pair] = j],
         handler' = [handler EXCEPT ![h] = x]
  PROVE  Holding'
<1> DEFINE p == handler[h].pair
<1>1. /\ p \in Pairs
      /\ \A q \in Pairs : job'[q] = IF q = p THEN j ELSE job[q]
      /\ \A k \in Handlers : handler'[k] = IF k = h THEN x ELSE handler[k]
      /\ \A k \in Handlers : handler[k] # Null => handler[k].pair \in Pairs
  BY DEF DeliveryInv, ShapesOK, Handling
<1>2. LiveJobsHaveAttempts'
  BY <1>1 DEF DeliveryInv, LiveJobsHaveAttempts, IsLive, InState
<1>3. \A k \in Handlers : handler'[k] # Null /\ handler'[k].lock =>
        handler'[k].pair # p /\ handler'[k] = handler[k]
  BY <1>1 DEF DeliveryInv, OneHandlerPerDelivery
<1>4. HandlersHoldJobs'
  BY <1>1, <1>3 DEF DeliveryInv, HandlersHoldJobs, InState
<1>5. OneHandlerPerDelivery'
  BY <1>1, <1>3 DEF DeliveryInv, OneHandlerPerDelivery
<1>. QED  BY <1>2, <1>4, <1>5 DEF Holding

-----------------------------------------------------------------------------
(* The shapes, one field at a time. *)
LEMMA ShapesNow ==
  ASSUME ShapesOK
  PROVE  /\ \A s \in Subscriptions : subscription[s] \in {"ACTIVE", "DISABLED", "REMOVED"}
         /\ \A p \in Pairs : delivery[p] # Null => delivery[p] \in Delivery
         /\ \A p \in Pairs : job[p] # Null => job[p] \in Job
         /\ \A h \in Handlers : handler[h] # Null =>
              /\ handler[h] \in Handling /\ handler[h].pair \in Pairs /\ handler[h].no \in Nat
              /\ handler[h].outcome \in Outcomes
              /\ handler[h].patch # Null => handler[h].patch \in {"ACTIVE", "DISABLED"}
         /\ \A p \in Pairs : p[1] \in Events /\ p[2] \in Subscriptions
BY DEF ShapesOK, Handling, Pairs

(* What is spent: the calm can only end, and an upset disturbs nobody's    *)
(* steadiness.                                                             *)
LEMMA Upsets ==
  ASSUME ShapesOK, NEW calmly \in BOOLEAN, Upset(calmly)
  PROVE  /\ spent' \in Spending /\ spent'.steady = spent.steady
         /\ spent'.calm <=> spent.calm /\ calmly
<1>1. spent = [upsets |-> spent.upsets, calm |-> spent.calm, steady |-> spent.steady]
      /\ spent.upsets \in Nat /\ spent.calm \in BOOLEAN /\ spent.steady \in SUBSET Subscriptions
  BY DEF ShapesOK, Spending
<1>. DEFINE b == spent.calm /\ calmly
<1>2. b \in BOOLEAN
  BY Zenon
<1>3. spent' = [[spent EXCEPT !.upsets = spent.upsets + 1] EXCEPT !.calm = b]
  BY Zenon DEF Upset
<1>. HIDE DEF b
<1>4. spent' = [upsets |-> spent.upsets + 1, calm |-> b, steady |-> spent.steady]
  BY <1>1, <1>3
<1>5. spent'.calm = b /\ spent'.steady = spent.steady
  BY <1>4
<1>6. spent' \in Spending
  BY <1>1, <1>2, <1>4 DEF Spending
<1>. QED  BY <1>5, <1>6 DEF b

LEMMA CountedFault ==
  ASSUME ShapesOK, NEW f, Fault(f)
  PROVE  /\ spent' \in Spending /\ spent'.steady = spent.steady
         /\ spent'.calm => spent.calm /\ f \notin {"error", "crash", "stall"}
<1>. DEFINE calmly == f \notin {"error", "crash", "stall"}
<1>1. calmly \in BOOLEAN /\ Upset(calmly)
  BY Zenon DEF Fault
<1>. QED  BY <1>1, Upsets

(* save() of a subscription. *)
LEMMA SavedStatus ==
  ASSUME ShapesOK, NEW s \in Subscriptions, NEW status \in {"ACTIVE", "DISABLED"},
         SaveStatus(s, status)
  PROVE  /\ subscription' \in [Subscriptions -> {"ACTIVE", "DISABLED", "REMOVED"}]
         /\ \A t \in Subscriptions : subscription'[t] = IF t = s THEN status ELSE subscription[t]
         /\ spent' \in Spending
         /\ spent'.calm <=> spent.calm /\ subscription[s] # "REMOVED"
         /\ spent'.steady = IF status = "ACTIVE" THEN spent.steady ELSE spent.steady \ {s}
<1>1. spent = [upsets |-> spent.upsets, calm |-> spent.calm, steady |-> spent.steady]
      /\ spent.upsets \in Nat /\ spent.calm \in BOOLEAN /\ spent.steady \in SUBSET Subscriptions
  BY DEF ShapesOK, Spending
<1>. DEFINE b == spent.calm /\ subscription[s] # "REMOVED"
            S == IF status = "ACTIVE" THEN spent.steady ELSE spent.steady \ {s}
<1>2. b \in BOOLEAN
  BY Zenon
<1>3. S \in SUBSET Subscriptions
  BY <1>1
<1>4. spent' = [[spent EXCEPT !.calm = b] EXCEPT !.steady = S]
  BY Zenon DEF SaveStatus
<1>5. /\ subscription' \in [Subscriptions -> {"ACTIVE", "DISABLED", "REMOVED"}]
      /\ \A t \in Subscriptions : subscription'[t] = IF t = s THEN status ELSE subscription[t]
  BY DEF SaveStatus, ShapesOK
<1>. HIDE DEF b, S
<1>6. spent' = [upsets |-> spent.upsets, calm |-> b, steady |-> S]
  BY <1>1, <1>4
<1>7. spent'.calm = b /\ spent'.steady = S
  BY <1>6
<1>8. spent' \in Spending
  BY <1>1, <1>2, <1>3, <1>6 DEF Spending
<1>. QED  BY <1>5, <1>7, <1>8 DEF b, S

(* Removing a subscription. *)
LEMMA RemovedStatus ==
  ASSUME ShapesOK, NEW s \in Subscriptions, Remove(s)
  PROVE  /\ subscription' \in [Subscriptions -> {"ACTIVE", "DISABLED", "REMOVED"}]
         /\ \A t \in Subscriptions : subscription'[t] = IF t = s THEN "REMOVED" ELSE subscription[t]
         /\ removals' \in [Subscriptions -> Nat]
         /\ \A t \in Subscriptions : removals'[t] = IF t = s THEN removals[t] + 1 ELSE removals[t]
         /\ spent' \in Spending
         /\ spent'.calm = spent.calm /\ spent'.steady = spent.steady \ {s}
<1>1. spent = [upsets |-> spent.upsets, calm |-> spent.calm, steady |-> spent.steady]
      /\ spent.upsets \in Nat /\ spent.calm \in BOOLEAN /\ spent.steady \in SUBSET Subscriptions
  BY DEF ShapesOK, Spending
<1>2. spent' = [upsets |-> spent.upsets, calm |-> spent.calm, steady |-> spent.steady \ {s}]
  BY <1>1 DEF Remove
<1>3. spent' \in Spending /\ spent'.calm = spent.calm /\ spent'.steady = spent.steady \ {s}
  BY <1>1, <1>2 DEF Spending
<1>. QED  BY <1>3 DEF Remove, ShapesOK

(* Who writes subscriptions and what is spent. *)
SubsNext ==
  \/ \E s \in Subscriptions : Remove(s) \/ \E c \in Clients : LoadEdit(c, s)
  \/ \E c \in Clients : SaveEdit(c)

(* Members and their subscriptions. *)
LEMMA OutsideStep ==
  ASSUME DeliveryInv, (\E e \in Events : Produce(e)) \/ SubsNext
  PROVE  DeliveryInv'
<1>1. UNCHANGED <<posts, job, run, handler, replay>>
  BY DEF Produce, SubsNext, LoadEdit, SaveEdit, Remove
<1>2. CASE \E e \in Events : Produce(e)
  <2>1. ShapesOK'
    BY <1>2 DEF Produce, DeliveryInv, ShapesOK
  <2>. QED  BY <1>1, <2>1, HoldingUndisturbed DEF DeliveryInv, Holding
<1>3. ASSUME NEW c \in Clients, NEW s \in Subscriptions, LoadEdit(c, s)
      PROVE  DeliveryInv'
  <2>1. spent' \in Spending
    BY <1>3, Upsets DEF LoadEdit, DeliveryInv
  <2>2. edit' \in [Clients -> EditCopy \cup {Null}]
    BY <1>3 DEF LoadEdit, DeliveryInv, ShapesOK, EditCopy
  <2>3. ShapesOK'
    BY <1>3, <2>1, <2>2 DEF LoadEdit, DeliveryInv, ShapesOK
  <2>. QED  BY <1>1, <2>3, HoldingUndisturbed DEF DeliveryInv, Holding
<1>4. ASSUME NEW c \in Clients, SaveEdit(c)
      PROVE  DeliveryInv'
  <2>1. edit[c].sub \in Subscriptions /\ edit[c].status \in {"ACTIVE", "DISABLED"}
    BY <1>4 DEF SaveEdit, DeliveryInv, ShapesOK, EditCopy
  <2>2. /\ subscription' \in [Subscriptions -> {"ACTIVE", "DISABLED", "REMOVED"}]
        /\ spent' \in Spending
    BY <1>4, <2>1, SavedStatus DEF SaveEdit, DeliveryInv
  <2>3. ShapesOK'
    BY <1>4, <2>2 DEF SaveEdit, DeliveryInv, ShapesOK
  <2>. QED  BY <1>1, <2>3, HoldingUndisturbed DEF DeliveryInv, Holding
<1>5. ASSUME NEW s \in Subscriptions, Remove(s)
      PROVE  DeliveryInv'
  <2>1. ShapesOK'
    BY <1>5, RemovedStatus DEF Remove, DeliveryInv, ShapesOK
  <2>. QED  BY <1>1, <2>1, HoldingUndisturbed DEF DeliveryInv, Holding
<1>. QED  BY <1>2, <1>3, <1>4, <1>5 DEF SubsNext

(* A job is added unless there is one. *)
LEMMA HoldingAdded ==
  ASSUME DeliveryInv, NEW p \in Pairs, AddJob(p) \/ UNCHANGED job, UNCHANGED handler
  PROVE  Holding' /\ job' \in [Pairs -> Job \cup {Null}]
<1>1. CASE AddJob(p) /\ job[p] = Null
  <2>1. job' = [job EXCEPT ![p] = NewJob]
    BY <1>1 DEF AddJob
  <2>2. ~InState(p, {"active"})
    BY <1>1 DEF InState
  <2>3. Holding'
    BY <2>1, <2>2, RecordsAreNotNull, HoldingJob
  <2>. QED  BY <2>1, <2>3, RecordsAreNotNull DEF DeliveryInv, ShapesOK
<1>2. CASE AddJob(p) /\ job[p] # Null
  <2>1. job' = job
    BY <1>2 DEF AddJob, DeliveryInv, ShapesOK
  <2>. QED  BY <2>1, HoldingUndisturbed DEF DeliveryInv, ShapesOK
<1>3. CASE UNCHANGED job
  BY <1>3, HoldingUndisturbed DEF DeliveryInv, ShapesOK
<1>. QED  BY <1>1, <1>2, <1>3

(* A run that goes on is a run again, and the others stay as they are. *)
LEMMA NewRun ==
  ASSUME NEW ph, NEW b, NEW m, NEW t
  PROVE  IsRun([phase |-> ph, batch |-> b, matched |-> m, todo |-> t])
BY DEF IsRun, RunFields

LEMMA RunReplaced ==
  ASSUME ShapesOK, NEW r \in Runners, NEW q, IsRun(q), run' = [run EXCEPT ![r] = q]
  PROVE  run' = [x \in Runners |-> run'[x]] /\ \A x \in Runners : run'[x] # Null => IsRun(run'[x])
BY DEF ShapesOK

(* Relay and reconciliation. *)
LEMMA RunsStep ==
  ASSUME DeliveryInv, NEW r \in Runners, StartRun(r) \/ RunStep(r) \/ CrashRun(r)
  PROVE  DeliveryInv'
<1>. USE DEF DeliveryInv
<1>1. CASE StartRun(r)
  <2>1. ShapesOK'
    BY <1>1 DEF StartRun, ShapesOK, IsRun, RunFields
  <2>. QED  BY <1>1, <2>1, HoldingUndisturbed DEF Holding, StartRun
<1>2. CASE Match(r)
  <2>1. ShapesOK'
    <3>. DEFINE q == [run[r] EXCEPT !.phase = "matched", !.matched = Matched(Head(run[r].batch))]
    <3>1. IsRun(q)
      BY <1>2 DEF Match, ShapesOK, IsRun, RunFields
    <3>2. run' = [run EXCEPT ![r] = q]
      BY <1>2 DEF Match
    <3>. HIDE DEF q
    <3>3. run' = [x \in Runners |-> run'[x]] /\ \A x \in Runners : run'[x] # Null => IsRun(run'[x])
      BY <3>1, <3>2, RunReplaced
    <3>. QED  BY <1>2, <3>3 DEF Match, ShapesOK
  <2>. QED  BY <1>2, <2>1, HoldingUndisturbed DEF Holding, Match
<1>3. CASE Dispatch(r)
  <2>1. delivery' \in [Pairs -> Delivery \cup {Null}]
    BY <1>3, FreshRow DEF Dispatch, ShapesOK
  <2>2. ShapesOK'
    <3>. DEFINE new == Inserted(Head(run[r].batch), run[r].matched)
                q == [phase |-> IF new = {} THEN "relay" ELSE "enqueue",
                      batch |-> Tail(run[r].batch), matched |-> {}, todo |-> new]
    <3>1. IsRun(q)
      BY NewRun
    <3>2. run' = [run EXCEPT ![r] = q]
      BY <1>3 DEF Dispatch
    <3>. HIDE DEF q
    <3>3. run' = [x \in Runners |-> run'[x]] /\ \A x \in Runners : run'[x] # Null => IsRun(run'[x])
      BY <3>1, <3>2, RunReplaced
    <3>. QED  BY <1>3, <2>1, <3>3 DEF Dispatch, ShapesOK
  <2>. QED  BY <1>3, <2>2, HoldingUndisturbed DEF Holding, Dispatch
<1>4. CASE DispatchFails(r)
  <2>1. spent' \in Spending
    BY <1>4, CountedFault DEF DispatchFails, ShapesOK
  <2>2. ShapesOK'
    <3>1. run' = [x \in Runners |-> run'[x]] /\ \A x \in Runners : run'[x] # Null => IsRun(run'[x])
      BY <1>4, NewRun, RunReplaced DEF DispatchFails, SkipEvent
    <3>. QED  BY <1>4, <2>1, <3>1 DEF DispatchFails, ShapesOK
  <2>. QED  BY <1>4, <2>2, HoldingUndisturbed DEF Holding, DispatchFails
<1>5. CASE EndRelay(r)
  <2>1. ShapesOK'
    BY <1>5 DEF EndRelay, ShapesOK, IsRun, RunFields
  <2>. QED  BY <1>5, <2>1, HoldingUndisturbed DEF Holding, EndRelay
<1>6. CASE BreakReconcile(r)
  <2>1. ShapesOK'
    BY <1>6, CountedFault DEF BreakReconcile, ShapesOK
  <2>. QED  BY <1>6, <2>1, HoldingUndisturbed DEF Holding, BreakReconcile
<1>7. CASE CrashRun(r)
  <2>1. ShapesOK'
    BY <1>7, CountedFault DEF CrashRun, ShapesOK
  <2>. QED  BY <1>7, <2>1, HoldingUndisturbed DEF Holding, CrashRun
<1>8. ASSUME NEW p \in Pairs, Enqueue(r, p) \/ Recheck(r, p)
      PROVE  DeliveryInv'
  <2>1. /\ (AddJob(p) /\ UNCHANGED spent) \/ (Fault("refuse") /\ UNCHANGED job)
        /\ UNCHANGED <<subs, delivery, posts, handler, replay>>
        /\ run[r] # Null
    BY <1>8 DEF Enqueue, Recheck
  <2>2. Holding' /\ job' \in [Pairs -> Job \cup {Null}]
    BY <2>1, HoldingAdded
  <2>3. spent' \in Spending
    BY <2>1, CountedFault DEF ShapesOK
  <2>4. run' = [q \in Runners |-> run'[q]] /\ \A q \in Runners : run'[q] # Null => IsRun(run'[q])
    <3>1. CASE Enqueue(r, p)
      BY <2>1, <3>1 DEF Enqueue, ShapesOK, IsRun, RunFields
    <3>2. CASE Recheck(r, p)
      BY <2>1, <3>2 DEF Recheck, ShapesOK, IsRun, RunFields
    <3>. QED  BY <1>8, <3>1, <3>2
  <2>5. ShapesOK'
    BY <2>1, <2>2, <2>3, <2>4 DEF ShapesOK
  <2>. QED  BY <2>2, <2>5 DEF Holding
<1>. QED  BY <1>1, <1>2, <1>3, <1>4, <1>5, <1>6, <1>7, <1>8 DEF RunStep

(* What a handler moves to has all it had but the stage. *)
LEMMA HandlerMoves ==
  ASSUME ShapesOK, NEW h \in Handlers, handler[h] # Null,
         NEW st \in {"post", "settled", "retry"}, MoveTo(h, st)
  PROVE  \E x \in Handling :
           /\ handler' = [handler EXCEPT ![h] = x]
           /\ x.pair = handler[h].pair /\ x.no = handler[h].no /\ x.life = handler[h].life
           /\ x.lock = handler[h].lock /\ x.outcome = handler[h].outcome
           /\ x.patch = handler[h].patch /\ x.stage = st
<1>1. handler[h] \in Handling
  BY DEF ShapesOK
<1>. DEFINE x == [handler[h] EXCEPT !.stage = st]
<1>2. /\ x \in Handling /\ x.pair = handler[h].pair /\ x.no = handler[h].no
      /\ x.life = handler[h].life /\ x.lock = handler[h].lock
      /\ x.outcome = handler[h].outcome /\ x.patch = handler[h].patch /\ x.stage = st
  BY <1>1 DEF Handling
<1>3. handler' = [handler EXCEPT ![h] = x]
  BY DEF MoveTo
<1>. QED  BY <1>2, <1>3

(* What has ended has its pair and its lock and nothing else. *)
LEMMA HandlerEnds ==
  ASSUME ShapesOK, NEW h \in Handlers, handler[h] # Null, NEW st \in {"return", "throw"}, End(h, st)
  PROVE  \E x \in Handling :
           /\ handler' = [handler EXCEPT ![h] = x]
           /\ x.pair = handler[h].pair /\ x.lock = handler[h].lock /\ x.stage = st /\ x.patch = Null
<1>1. handler[h].pair \in Pairs /\ handler[h].lock \in BOOLEAN
  BY DEF ShapesOK, Handling
<1>. DEFINE x == [[Handle(handler[h].pair) EXCEPT !.stage = st] EXCEPT !.lock = handler[h].lock]
<1>2. x \in Handling /\ x.pair = handler[h].pair /\ x.lock = handler[h].lock
      /\ x.stage = st /\ x.patch = Null
  BY <1>1 DEF Handling, Handle, Outcomes
<1>3. handler' = [handler EXCEPT ![h] = x]
  BY DEF End, ShapesOK
<1>. QED  BY <1>2, <1>3

(* A reply is classified as one of the four outcomes. *)
LEMMA ClassifyIsOutcome == \A reply : Classify(reply) \in Outcomes
BY DEF Classify, Outcomes

(* Whatever a row is updated to is a row. *)
LEMMA UpdatedRows ==
  ASSUME ShapesOK, NEW h \in Handlers, handler[h] # Null, NEW d \in Delivery, Update(h, d)
  PROVE  /\ delivery' \in [Pairs -> Delivery \cup {Null}]
         /\ \A q \in Pairs :
              delivery'[q] = IF q = handler[h].pair /\ HasRow(h) THEN d ELSE delivery[q]
BY DEF ShapesOK, Update, Handling

(* A handler with its lock: its record, its pair and the job it holds. *)
LEMMA HandlerAtWork ==
  ASSUME DeliveryInv, NEW h \in Handlers, handler[h] # Null, handler[h].lock
  PROVE  /\ job[handler[h].pair] \in Job /\ job[handler[h].pair].state = "active"
         /\ job[handler[h].pair].made < MaxAttempts /\ job[handler[h].pair] # Null
<1>1. handler[h].pair \in Pairs
  BY ShapesNow DEF DeliveryInv
<1>. QED  BY <1>1 DEF DeliveryInv, ShapesOK, HandlersHoldJobs, InState, LiveJobsHaveAttempts, IsLive

(* What fail() writes. *)
LEMMA FailWrites ==
  ASSUME DeliveryInv, NEW h \in Handlers, Fail(h)
  PROVE  /\ handler[h] # Null
         /\ \E d \in Delivery : d.status = "FAILED" /\ Update(h, d)
<1>1. handler[h].no \in Nat /\ handler[h] # Null
  BY ShapesNow DEF Fail, At, DeliveryInv
<1>2. [status |-> "FAILED", count |-> handler[h].no, due |-> TRUE] \in Delivery
  BY <1>1 DEF Delivery, Settled
<1>. QED  BY <1>1, <1>2 DEF Fail

(* What insertAttempt() and applyOutcome() write. *)
LEMMA RecordWrites ==
  ASSUME DeliveryInv, NEW h \in Handlers, Record(h)
  PROVE  /\ handler[h] # Null
         /\ \E d \in Delivery :
           /\ d.count = handler[h].no
           /\ d.status \in Settled \cup {"RETRYING"}
           /\ d.status = "RETRYING" => handler[h].no < MaxAttempts
           /\ d.status = "DEAD" => handler[h].no >= MaxAttempts
           /\ Update(h, d)
           /\ \/ HasRow(h) /\ d.status = "RETRYING" /\ MoveTo(h, "retry")
              \/ HasRow(h) /\ d.status # "RETRYING" /\ MoveTo(h, "settled")
              \/ ~HasRow(h) /\ End(h, "throw")
<1>. DEFINE no == handler[h].no
            status == NextStatus(handler[h].outcome, no)
            d == [status |-> status, count |-> no, due |-> status # "RETRYING"]
<1>1. no \in Nat /\ handler[h] # Null
  BY ShapesNow DEF Record, At, DeliveryInv
<1>2. /\ status \in Settled \cup {"RETRYING"}
      /\ status = "RETRYING" => no < MaxAttempts
      /\ status = "DEAD" => no >= MaxAttempts
  BY <1>1, DeliveryAssumption DEF NextStatus, Settled
<1>3. /\ Update(h, d)
      /\ IF HasRow(h) THEN MoveTo(h, IF status = "RETRYING" THEN "retry" ELSE "settled")
                      ELSE End(h, "throw")
  BY DEF Record
<1>. HIDE DEF status
<1>5. (status # "RETRYING") \in BOOLEAN
  OBVIOUS
<1>6. d \in Delivery /\ d.count = no /\ d.status = status
  BY <1>1, <1>2, <1>5 DEF Delivery, Open, Settled
<1>. HIDE DEF d, no
<1>7. /\ d.count = handler[h].no /\ d.status \in Settled \cup {"RETRYING"}
      /\ d.status = "RETRYING" => handler[h].no < MaxAttempts
      /\ d.status = "DEAD" => handler[h].no >= MaxAttempts
  BY <1>2, <1>6 DEF no
<1>8. \/ HasRow(h) /\ d.status = "RETRYING" /\ MoveTo(h, "retry")
      \/ HasRow(h) /\ d.status # "RETRYING" /\ MoveTo(h, "settled")
      \/ ~HasRow(h) /\ End(h, "throw")
  <2>1. CASE ~HasRow(h)
    BY <1>3, <2>1
  <2>2. CASE HasRow(h) /\ status = "RETRYING"
    BY <1>3, <1>6, <2>2
  <2>3. CASE HasRow(h) /\ status # "RETRYING"
    BY <1>3, <1>6, <2>3
  <2>. QED  BY <2>1, <2>2, <2>3
<1>. QED  BY <1>1, <1>3, <1>6, <1>7, <1>8

(* A status that a handler has ready to save. *)
LEMMA PatchesAreStatuses ==
  ASSUME ShapesOK, NEW h \in Handlers, SaveHealth(h)
  PROVE  /\ handler[h] # Null /\ handler[h].pair \in Pairs /\ handler[h].pair[2] \in Subscriptions
         /\ handler[h].patch \in {"ACTIVE", "DISABLED"}
BY ShapesNow DEF SaveHealth, InHealth, At

LEMMA HandlersTake ==
  ASSUME DeliveryInv, NEW h \in Handlers, NEW p \in Pairs, Take(h, p)
  PROVE  DeliveryInv'
<1>. USE DEF DeliveryInv
<1>1. job[p] \in Job /\ job[p].state = "waiting" /\ job[p].made < MaxAttempts /\ handler[h] = Null
  BY DEF Take, InState, ShapesOK, LiveJobsHaveAttempts, IsLive
<1>. DEFINE x == Handle(p)
            j == [job[p] EXCEPT !.state = "active"]
<1>2. x \in Handling /\ x.pair = p
  BY DEF Handle, Handling, Outcomes
<1>3. j \in Job /\ j.state = "active" /\ j.made = job[p].made
  BY <1>1 DEF Job
<1>4. job' = [job EXCEPT ![p] = j] /\ handler' = [handler EXCEPT ![h] = x]
  BY DEF Take
<1>. HIDE DEF x, j
<1>5. ShapesOK'
  BY <1>2, <1>3, <1>4 DEF Take, ShapesOK
<1>6. /\ \A q \in Pairs : job'[q] = IF q = p THEN j ELSE job[q]
      /\ \A k \in Handlers : handler'[k] = IF k = h THEN x ELSE handler[k]
      /\ \A k \in Handlers : handler[k] # Null /\ handler[k].lock =>
           handler[k].pair \in Pairs /\ handler[k].pair # p
  BY <1>1, <1>4 DEF ShapesOK, HandlersHoldJobs, InState, Handling
<1>7. LiveJobsHaveAttempts'
  BY <1>1, <1>3, <1>6 DEF LiveJobsHaveAttempts, IsLive, InState
<1>8. HandlersHoldJobs'
  BY <1>2, <1>3, <1>6, RecordsAreNotNull DEF HandlersHoldJobs, InState
<1>9. OneHandlerPerDelivery'
  BY <1>2, <1>6 DEF OneHandlerPerDelivery
<1>. QED  BY <1>5, <1>7, <1>8, <1>9

(* A step that changes a handler's record, and of the shapes only this. *)
LEMMA HandlerRecordStep ==
  ASSUME DeliveryInv, NEW h \in Handlers, handler[h] # Null, NEW x \in Handling,
         x.pair = handler[h].pair, x.lock => handler[h].lock,
         handler' = [handler EXCEPT ![h] = x],
         UNCHANGED <<removals, edit, job, run, replay>>,
         subscription' \in [Subscriptions -> {"ACTIVE", "DISABLED", "REMOVED"}],
         delivery' \in [Pairs -> Delivery \cup {Null}], posts' \in [Pairs -> Nat],
         spent' \in Spending
  PROVE  DeliveryInv'
<1>1. ShapesOK'
  BY DEF DeliveryInv, ShapesOK
<1>2. Holding'
  BY HoldingHandler
<1>. QED  BY <1>1, <1>2 DEF Holding, DeliveryInv

(* Whatever a handler does before it finishes, it keeps its pair and lock. *)
HandlerWorks(h) ==
  \/ Find(h) \/ Prepare(h) \/ Fail(h) \/ Record(h) \/ HandlerThrows(h)
  \/ SkipHealth(h) \/ LoadHealth(h) \/ SaveHealth(h)
  \/ \E found \in Lookups : Post(h, found)

(* The pair and the lock of a handler stay. *)
KeepsPair(h) ==
  \E x \in Handling : /\ handler' = [handler EXCEPT ![h] = x]
                      /\ x.pair = handler[h].pair /\ x.lock = handler[h].lock

LEMMA HandlerKeepsPair ==
  ASSUME DeliveryInv, NEW h \in Handlers, HandlerWorks(h)
  PROVE  /\ handler[h] # Null /\ handler[h] \in Handling
         /\ KeepsPair(h)
<1>. USE DEF DeliveryInv
<1>1. handler[h] # Null /\ handler[h] \in Handling /\ handler[h].pair \in Pairs
  BY ShapesNow DEF HandlerWorks, Find, Prepare, Fail, Record, HandlerThrows, SkipHealth, LoadHealth,
     SaveHealth, Post, InHealth, At
<1>2. ASSUME NEW st \in {"return", "throw"}, End(h, st) PROVE KeepsPair(h)
  BY <1>1, <1>2, HandlerEnds DEF KeepsPair
<1>3. ASSUME NEW st \in {"post", "settled", "retry"}, MoveTo(h, st) PROVE KeepsPair(h)
  BY <1>1, <1>3, HandlerMoves DEF KeepsPair
<1>4. CASE Find(h) /\ delivery[handler[h].pair] # Null
  <2>. DEFINE p == handler[h].pair
              x == [handler[h] EXCEPT !.stage = "read", !.no = AttemptNo(p), !.life = removals[p[2]]]
  <2>1. AttemptNo(p) \in Nat /\ removals[p[2]] \in Nat
    <3>1. delivery[p] \in Delivery /\ p[2] \in Subscriptions
      BY <1>1, <1>4, ShapesNow
    <3>. QED  BY <1>1, <3>1 DEF AttemptNo, Delivery, ShapesOK
  <2>2. x \in Handling /\ x.pair = p /\ x.lock = handler[h].lock
    BY <1>1, <2>1 DEF Handling
  <2>3. handler' = [handler EXCEPT ![h] = x]
    BY <1>4 DEF Find
  <2>. HIDE DEF x
  <2>. QED  BY <1>1, <2>2, <2>3 DEF KeepsPair
<1>5. ASSUME NEW found \in Lookups, Post(h, found) PROVE KeepsPair(h)
  <2>1. PICK reply \in Replies(found) :
          handler' = [handler EXCEPT ![h].stage = "answered", ![h].outcome = Classify(reply)]
    BY <1>5 DEF Post
  <2>. DEFINE x == [handler[h] EXCEPT !.stage = "answered", !.outcome = Classify(reply)]
  <2>2. x \in Handling /\ x.pair = handler[h].pair /\ x.lock = handler[h].lock
    BY <1>1, ClassifyIsOutcome DEF Handling
  <2>3. handler' = [handler EXCEPT ![h] = x]
    BY <2>1
  <2>. HIDE DEF x
  <2>. QED  BY <1>1, <2>2, <2>3 DEF KeepsPair
<1>6. CASE LoadHealth(h) /\ subscription[handler[h].pair[2]] # "REMOVED"
  <2>1. PICK patch \in Patches(handler[h].outcome, subscription[handler[h].pair[2]]) :
          handler' = [handler EXCEPT ![h].patch = patch]
    BY <1>6 DEF LoadHealth
  <2>2. patch \in {"ACTIVE", "DISABLED"}
    BY <1>1, <1>6, ShapesNow DEF Patches
  <2>. DEFINE x == [handler[h] EXCEPT !.patch = patch]
  <2>3. x \in Handling /\ x.pair = handler[h].pair /\ x.lock = handler[h].lock
    BY <1>1, <2>2 DEF Handling
  <2>4. handler' = [handler EXCEPT ![h] = x]
    BY <2>1
  <2>. HIDE DEF x
  <2>. QED  BY <1>1, <2>3, <2>4 DEF KeepsPair
<1>7. CASE Find(h) /\ delivery[handler[h].pair] = Null
  BY <1>1, <1>2, <1>7 DEF Find
<1>8. CASE LoadHealth(h) /\ subscription[handler[h].pair[2]] = "REMOVED"
  BY <1>1, <1>2, <1>8 DEF LoadHealth
<1>9. CASE Prepare(h)
  BY <1>1, <1>3, <1>9 DEF Prepare
<1>10. CASE Record(h)
  BY <1>1, <1>2, <1>3, <1>10, RecordWrites
<1>11. CASE Fail(h) \/ HandlerThrows(h) \/ SkipHealth(h) \/ SaveHealth(h)
  BY <1>1, <1>2, <1>11 DEF Fail, HandlerThrows, SkipHealth, SaveHealth, Leave
<1>12. KeepsPair(h)
  BY <1>4, <1>5, <1>6, <1>7, <1>8, <1>9, <1>10, <1>11 DEF HandlerWorks
<1>. QED  BY <1>1, <1>12

LEMMA HandlersGoOn ==
  ASSUME DeliveryInv, NEW h \in Handlers, HandlerWorks(h)
  PROVE  DeliveryInv'
<1>1. PICK x \in Handling : /\ handler' = [handler EXCEPT ![h] = x]
                            /\ x.pair = handler[h].pair /\ x.lock = handler[h].lock
  BY HandlerKeepsPair DEF KeepsPair
<1>2. /\ handler[h] # Null /\ handler[h].pair \in Pairs
      /\ subscription \in [Subscriptions -> {"ACTIVE", "DISABLED", "REMOVED"}]
      /\ delivery \in [Pairs -> Delivery \cup {Null}] /\ posts \in [Pairs -> Nat]
      /\ spent \in Spending
  BY HandlerKeepsPair, ShapesNow DEF DeliveryInv, ShapesOK
<1>3. CASE Find(h) \/ Prepare(h) \/ SkipHealth(h) \/ LoadHealth(h)
  BY <1>1, <1>2, <1>3, HandlerRecordStep DEF Find, Prepare, SkipHealth, LoadHealth
<1>4. CASE Fail(h)
  <2>1. delivery' \in [Pairs -> Delivery \cup {Null}]
    BY <1>4, FailWrites, UpdatedRows DEF DeliveryInv
  <2>2. spent' \in Spending
    BY <1>2, <1>4, CountedFault DEF Fail, DeliveryInv
  <2>. QED  BY <1>1, <1>2, <1>4, <2>1, <2>2, HandlerRecordStep DEF Fail
<1>5. CASE Record(h)
  <2>1. delivery' \in [Pairs -> Delivery \cup {Null}]
    BY <1>5, RecordWrites, UpdatedRows DEF DeliveryInv
  <2>. QED  BY <1>1, <1>2, <1>5, <2>1, HandlerRecordStep DEF Record
<1>6. CASE HandlerThrows(h)
  <2>1. spent' \in Spending
    BY <1>6, CountedFault DEF HandlerThrows, DeliveryInv
  <2>. QED  BY <1>1, <1>2, <1>6, <2>1, HandlerRecordStep DEF HandlerThrows
<1>7. CASE SaveHealth(h)
  <2>1. /\ subscription' \in [Subscriptions -> {"ACTIVE", "DISABLED", "REMOVED"}]
        /\ spent' \in Spending
    BY <1>7, PatchesAreStatuses, SavedStatus DEF SaveHealth, DeliveryInv
  <2>. QED  BY <1>1, <1>2, <1>7, <2>1, HandlerRecordStep DEF SaveHealth
<1>8. ASSUME NEW found \in Lookups, Post(h, found) PROVE DeliveryInv'
  <2>1. posts' \in [Pairs -> Nat]
    <3>1. posts[handler[h].pair] + 1 \in Nat
      BY <1>2
    <3>2. posts' = [posts EXCEPT ![handler[h].pair] = posts[handler[h].pair] + 1]
      BY <1>8 DEF Post
    <3>. QED  BY <1>2, <3>1, <3>2
  <2>. QED  BY <1>1, <1>2, <1>8, <2>1, HandlerRecordStep DEF Post
<1>. QED  BY <1>3, <1>4, <1>5, <1>6, <1>7, <1>8 DEF HandlerWorks

(* The job of a handler that has lost its lock. *)
LEMMA JobTaken ==
  ASSUME DeliveryInv, NEW h \in Handlers, handler[h] # Null, handler[h].lock, LoseLock(h)
  PROVE  \E j \in Job : /\ job' = [job EXCEPT ![handler[h].pair] = j]
                        /\ j.made = job[handler[h].pair].made /\ j.made < MaxAttempts
<1>. DEFINE p == handler[h].pair
            j == [job[p] EXCEPT !.state = IF job[p].stalled THEN "failed" ELSE "waiting",
                                !.stalled = TRUE]
<1>1. job[p] \in Job /\ job[p].made < MaxAttempts
  BY HandlerAtWork
<1>2. j \in Job /\ j.made = job[p].made
  BY <1>1 DEF Job
<1>3. job' = [job EXCEPT ![p] = j]
  BY DEF LoseLock
<1>. HIDE DEF j
<1>. QED  BY <1>1, <1>2, <1>3

(* What becomes of the job of a handler that has returned or thrown. *)
LEMMA JobFinished ==
  ASSUME DeliveryInv, NEW h \in Handlers, handler[h] # Null, handler[h].lock, Finish(h)
  PROVE  \E j \in Job :
           /\ job' = [job EXCEPT ![handler[h].pair] = j]
           /\ \/ At(h, "throw") /\ j.made = job[handler[h].pair].made + 1
                 /\ \/ j.state = "failed" /\ j.made >= MaxAttempts
                    \/ j.state = "delayed" /\ j.made < MaxAttempts
              \/ ~At(h, "throw") /\ j.state = "completed"
<1>. DEFINE p == handler[h].pair
            made == job[p].made + 1
            state == IF made >= MaxAttempts THEN "failed" ELSE "delayed"
            thrown == [job[p] EXCEPT !.made = made, !.state = state]
            returned == [job[p] EXCEPT !.state = "completed"]
<1>1. job[p] \in Job /\ job[p].made < MaxAttempts
  BY HandlerAtWork
<1>2. /\ made \in 0..MaxAttempts /\ state \in {"failed", "delayed"}
      /\ state = "delayed" => made < MaxAttempts
      /\ state = "failed" => made >= MaxAttempts
  BY <1>1, DeliveryAssumption DEF Job
<1>3. job' = [job EXCEPT ![p] = IF At(h, "throw") THEN thrown ELSE returned]
  BY DEF Finish
<1>4. /\ thrown \in Job /\ thrown.made = made /\ thrown.state = state
      /\ returned \in Job /\ returned.state = "completed"
  <2>. HIDE DEF made, state
  <2>. QED  BY <1>1, <1>2 DEF Job
<1>5. made = job[p].made + 1
  OBVIOUS
<1>. HIDE DEF thrown, returned, made, state
<1>6. CASE At(h, "throw")
  BY <1>2, <1>3, <1>4, <1>5, <1>6
<1>7. CASE ~At(h, "throw")
  BY <1>3, <1>4, <1>7
<1>. QED  BY <1>6, <1>7

(* A handler lets go of its job: it has returned, thrown, died or stalled. *)
LEMMA HandlersLetGo ==
  ASSUME DeliveryInv, NEW h \in Handlers, Finish(h) \/ CrashHandler(h) \/ Stall(h)
  PROVE  DeliveryInv'
<1>. USE DEF DeliveryInv
<1>1. handler[h] # Null /\ handler[h] \in Handling /\ handler[h].pair \in Pairs
  BY ShapesNow DEF Finish, CrashHandler, Stall, At
<1>2. \E x \in Handling \cup {Null} :
        /\ handler' = [handler EXCEPT ![h] = x]
        /\ x # Null => x.pair = handler[h].pair /\ ~x.lock
  <2>1. CASE Finish(h) \/ CrashHandler(h)
    BY <2>1 DEF Finish, CrashHandler
  <2>2. CASE Stall(h)
    <3>. DEFINE x == [handler[h] EXCEPT !.lock = FALSE]
    <3>1. x \in Handling /\ x.pair = handler[h].pair /\ ~x.lock
      BY <1>1 DEF Handling
    <3>2. handler' = [handler EXCEPT ![h] = x]
      BY <2>2 DEF Stall
    <3>. HIDE DEF x
    <3>. QED  BY <3>1, <3>2
  <2>. QED  BY <2>1, <2>2
<1>3. spent' \in Spending
  BY CountedFault DEF Finish, CrashHandler, Stall, ShapesOK
<1>4. CASE handler[h].lock
  <2>1. PICK j \in Job : /\ job' = [job EXCEPT ![handler[h].pair] = j]
                         /\ j.state \in {"waiting", "delayed", "active"} => j.made < MaxAttempts
    BY <1>1, <1>4, JobFinished, JobTaken DEF CrashHandler, Stall
  <2>2. ShapesOK'
    BY <1>1, <1>2, <1>3, <2>1 DEF Finish, CrashHandler, Stall, ShapesOK
  <2>3. Holding'
    BY <1>1, <1>2, <1>4, <2>1, HoldingReleased
  <2>. QED  BY <2>2, <2>3 DEF Holding
<1>5. CASE ~handler[h].lock
  <2>1. UNCHANGED job
    BY <1>5 DEF Finish, CrashHandler, Stall, LoseLock
  <2>2. ShapesOK'
    BY <1>1, <1>2, <1>3, <2>1 DEF Finish, CrashHandler, Stall, ShapesOK
  <2>3. Holding'
    BY <1>1, <1>2, <1>5, <2>1, HoldingHandler
  <2>. QED  BY <2>2, <2>3 DEF Holding
<1>. QED  BY <1>4, <1>5

(* BullMQ, Redis and the clock. *)
LEMMA QueueStep ==
  ASSUME DeliveryInv, NEW p \in Pairs, Promote(p) \/ Elapse(p) \/ Expire(p) \/ Lose(p)
  PROVE  DeliveryInv'
<1>. USE DEF DeliveryInv
<1>1. CASE Elapse(p)
  <2>1. delivery' \in [Pairs -> Delivery \cup {Null}]
    <3>1. delivery[p] \in Delivery /\ delivery \in [Pairs -> Delivery \cup {Null}]
      BY <1>1 DEF Elapse, HasStatus, ShapesOK
    <3>2. delivery' = [delivery EXCEPT ![p] = [delivery[p] EXCEPT !.due = TRUE]]
      BY <1>1 DEF Elapse
    <3>. QED  BY <3>1, <3>2, ElapsedRow
  <2>2. ShapesOK'
    BY <1>1, <2>1 DEF Elapse, ShapesOK
  <2>. QED  BY <1>1, <2>2, HoldingUndisturbed DEF Elapse, Holding
<1>2. CASE Promote(p)
  <2>. DEFINE j == [job[p] EXCEPT !.state = "waiting"]
  <2>1. job[p] \in Job /\ job[p].made < MaxAttempts /\ ~InState(p, {"active"})
    BY <1>2 DEF Promote, InState, ShapesOK, LiveJobsHaveAttempts, IsLive
  <2>2. j \in Job /\ j.made = job[p].made
    BY <2>1 DEF Job
  <2>3. job' = [job EXCEPT ![p] = j]
    BY <1>2 DEF Promote
  <2>. HIDE DEF j
  <2>4. ShapesOK'
    BY <1>2, <2>2, <2>3 DEF Promote, ShapesOK
  <2>. QED  BY <1>2, <2>1, <2>2, <2>3, <2>4, HoldingJob DEF Promote, Holding
<1>3. CASE Expire(p) \/ Lose(p)
  <2>1. ~InState(p, {"active"})
    BY <1>3 DEF Expire, Lose, InState
  <2>2. spent' \in Spending
    BY <1>3, CountedFault DEF Expire, Lose, ShapesOK
  <2>3. job' = [job EXCEPT ![p] = Null] /\ UNCHANGED handler
    BY <1>3 DEF Expire, Lose
  <2>4. ShapesOK'
    BY <1>3, <2>2, <2>3 DEF Expire, Lose, ShapesOK
  <2>5. Holding'
    BY <2>1, <2>3, HoldingJob
  <2>. QED  BY <2>4, <2>5 DEF Holding
<1>. QED  BY <1>1, <1>2, <1>3

LEMMA ReplayStep ==
  ASSUME DeliveryInv, NEW c \in Clients, Requeue(c) \/ \E p \in Pairs : Reset(c, p)
  PROVE  DeliveryInv'
<1>. USE DEF DeliveryInv
<1>1. ASSUME NEW p \in Pairs, Reset(c, p) PROVE DeliveryInv'
  <2>1. delivery' \in [Pairs -> Delivery \cup {Null}] /\ posts' \in [Pairs -> Nat]
    BY <1>1 DEF Reset, ShapesOK, Delivery, Open
  <2>2. spent' \in Spending
    BY <1>1, Upsets DEF Reset
  <2>3. ShapesOK'
    BY <1>1, <2>1, <2>2 DEF Reset, ShapesOK
  <2>. QED  BY <1>1, <2>3, HoldingUndisturbed DEF Reset, Holding
<1>2. CASE Requeue(c)
  <2>. DEFINE p == replay[c]
  <2>1. p \in Pairs
    BY <1>2 DEF Requeue, ShapesOK
  <2>2. spent' \in Spending
    BY <1>2, CountedFault DEF Requeue, ShapesOK
  <2>3. CASE job' = [job EXCEPT ![p] = NewJob] /\ ~InState(p, {"active"})
    <3>1. ShapesOK'
      BY <1>2, <2>1, <2>2, <2>3, RecordsAreNotNull DEF Requeue, ShapesOK
    <3>2. Holding'
      BY <1>2, <2>1, <2>3, RecordsAreNotNull, HoldingJob DEF Requeue
    <3>. QED  BY <3>1, <3>2 DEF Holding
  <2>4. CASE job' = [job EXCEPT ![p] = Null] /\ ~InState(p, {"active"})
    <3>1. ShapesOK'
      BY <1>2, <2>1, <2>2, <2>4 DEF Requeue, ShapesOK
    <3>2. Holding'
      BY <1>2, <2>1, <2>4, HoldingJob DEF Requeue
    <3>. QED  BY <3>1, <3>2 DEF Holding
  <2>5. CASE UNCHANGED job
    <3>1. ShapesOK'
      BY <1>2, <2>1, <2>2, <2>5 DEF Requeue, ShapesOK
    <3>. QED  BY <1>2, <2>5, <3>1, HoldingUndisturbed DEF Requeue, Holding
  <2>6. \/ \E j \in {NewJob, Null} : job' = [job EXCEPT ![p] = j] /\ ~InState(p, {"active"})
        \/ UNCHANGED job
    BY <1>2 DEF Requeue, Replaces, ShapesOK
  <2>. QED  BY <2>3, <2>4, <2>5, <2>6
<1>. QED  BY <1>1, <1>2

LEMMA DeliveryStep == DeliveryInv /\ [Next]_vars => DeliveryInv'
<1> SUFFICES ASSUME DeliveryInv, [Next]_vars PROVE DeliveryInv'
  OBVIOUS
<1>1. CASE UNCHANGED vars
  BY <1>1 DEF vars, DeliveryInv, ShapesOK, LiveJobsHaveAttempts, HandlersHoldJobs,
              OneHandlerPerDelivery, IsLive, InState
<1>2. CASE Next
  BY <1>2, OutsideStep, RunsStep, HandlersTake, HandlersGoOn, HandlersLetGo, QueueStep, ReplayStep
     DEF Next, HandlerStep, HandlerWorks, SubsNext
<1>. QED  BY <1>1, <1>2

-----------------------------------------------------------------------------
(* Who writes what. *)
LEMMA SubscriptionWriters ==
  ASSUME DeliveryInv, Next
  PROVE  \/ UNCHANGED <<subscription, removals, spent>>
         \/ UNCHANGED <<subscription, removals>> /\ \E calmly \in BOOLEAN : Upset(calmly)
         \/ /\ UNCHANGED removals
            /\ \E s \in Subscriptions, status \in {"ACTIVE", "DISABLED"} : SaveStatus(s, status)
         \/ \E s \in Subscriptions : Remove(s)
<1>1. ASSUME NEW f, Fault(f) PROVE \E calmly \in BOOLEAN : Upset(calmly)
  BY <1>1 DEF Fault
<1>2. ASSUME NEW r \in Runners, StartRun(r) \/ RunStep(r) \/ CrashRun(r)
      PROVE  UNCHANGED <<subscription, removals>> /\ (UNCHANGED spent \/ \E f \in FaultKinds : Fault(f))
  BY <1>2 DEF StartRun, RunStep, Match, Dispatch, DispatchFails, EndRelay, BreakReconcile, Enqueue,
     Recheck, CrashRun, FaultKinds
<1>3. ASSUME NEW h \in Handlers,
             \/ CrashHandler(h) \/ Stall(h) \/ Find(h) \/ Prepare(h) \/ Fail(h) \/ Record(h)
             \/ Finish(h) \/ HandlerThrows(h) \/ SkipHealth(h) \/ LoadHealth(h)
             \/ (\E p \in Pairs : Take(h, p)) \/ \E found \in Lookups : Post(h, found)
      PROVE  UNCHANGED <<subscription, removals>> /\ (UNCHANGED spent \/ \E f \in FaultKinds : Fault(f))
  BY <1>3 DEF CrashHandler, Stall, Find, Prepare, Fail, Record, Finish, HandlerThrows, SkipHealth,
     LoadHealth, Take, Post, FaultKinds
<1>4. ASSUME NEW h \in Handlers, SaveHealth(h)
      PROVE  /\ UNCHANGED removals
             /\ \E s \in Subscriptions, status \in {"ACTIVE", "DISABLED"} : SaveStatus(s, status)
  BY <1>4, PatchesAreStatuses DEF SaveHealth, DeliveryInv
<1>5. ASSUME NEW c \in Clients, SaveEdit(c)
      PROVE  /\ UNCHANGED removals
             /\ \E s \in Subscriptions, status \in {"ACTIVE", "DISABLED"} : SaveStatus(s, status)
  BY <1>5 DEF SaveEdit, DeliveryInv, ShapesOK, EditCopy
<1>6. ASSUME \/ \E p \in Pairs : Promote(p) \/ Elapse(p) \/ Expire(p) \/ Lose(p)
             \/ \E c \in Clients : Requeue(c)
             \/ \E e \in Events : Produce(e)
      PROVE  UNCHANGED <<subscription, removals>> /\ (UNCHANGED spent \/ \E f \in FaultKinds : Fault(f))
  BY <1>6 DEF Promote, Elapse, Expire, Lose, Requeue, Produce, FaultKinds
<1>7. ASSUME NEW c \in Clients,
             (\E p \in Pairs : Reset(c, p)) \/ \E s \in Subscriptions : LoadEdit(c, s)
      PROVE  UNCHANGED <<subscription, removals>> /\ \E calmly \in BOOLEAN : Upset(calmly)
  BY <1>7 DEF Reset, LoadEdit
<1>8. ASSUME UNCHANGED <<subscription, removals>> /\ (UNCHANGED spent \/ \E f \in FaultKinds : Fault(f))
      PROVE  \/ UNCHANGED <<subscription, removals, spent>>
             \/ UNCHANGED <<subscription, removals>> /\ \E calmly \in BOOLEAN : Upset(calmly)
  BY <1>1, <1>8
<1>. QED  BY <1>2, <1>3, <1>4, <1>5, <1>6, <1>7, <1>8 DEF Next, HandlerStep

LEMMA RowWriters ==
  ASSUME Next
  PROVE  \/ UNCHANGED delivery
         \/ \E s \in Subscriptions : Remove(s)
         \/ \E r \in Runners : Dispatch(r)
         \/ \E h \in Handlers : Fail(h) \/ Record(h)
         \/ \E p \in Pairs : Elapse(p)
         \/ \E c \in Clients, p \in Pairs : Reset(c, p)
<1>1. ASSUME NEW r \in Runners, StartRun(r) \/ RunStep(r) \/ CrashRun(r)
      PROVE  UNCHANGED delivery \/ Dispatch(r)
  BY <1>1 DEF StartRun, RunStep, Match, DispatchFails, EndRelay, BreakReconcile, Enqueue,
     Recheck, CrashRun
<1>2. ASSUME NEW h \in Handlers,
             \/ CrashHandler(h) \/ Stall(h) \/ Find(h) \/ Prepare(h) \/ Finish(h) \/ HandlerThrows(h)
             \/ SkipHealth(h) \/ LoadHealth(h) \/ SaveHealth(h)
             \/ (\E q \in Pairs : Take(h, q)) \/ \E found \in Lookups : Post(h, found)
      PROVE  UNCHANGED delivery
  BY <1>2 DEF CrashHandler, Stall, Find, Prepare, Finish, HandlerThrows, SkipHealth, LoadHealth,
     SaveHealth, Take, Post
<1>3. ASSUME \/ \E q \in Pairs : Promote(q) \/ Expire(q) \/ Lose(q)
             \/ \E c \in Clients : Requeue(c) \/ SaveEdit(c) \/ \E s \in Subscriptions : LoadEdit(c, s)
             \/ \E e \in Events : Produce(e)
      PROVE  UNCHANGED delivery
  BY <1>3 DEF Promote, Expire, Lose, Requeue, Produce, SaveEdit, LoadEdit
<1>. QED  BY <1>1, <1>2, <1>3 DEF Next, HandlerStep

(* Calm and steadiness only end. *)
LEMMA SpentOnlyEnds ==
  ASSUME DeliveryInv, Next
  PROVE  spent'.steady \subseteq spent.steady /\ (spent'.calm => spent.calm)
<1>1. ASSUME NEW s \in Subscriptions, Remove(s)
      PROVE  spent'.steady \subseteq spent.steady /\ (spent'.calm => spent.calm)
  BY <1>1, RemovedStatus DEF DeliveryInv
<1>2. ASSUME NEW s \in Subscriptions, NEW status \in {"ACTIVE", "DISABLED"}, SaveStatus(s, status)
      PROVE  spent'.steady \subseteq spent.steady /\ (spent'.calm => spent.calm)
  BY <1>2, SavedStatus DEF DeliveryInv
<1>3. ASSUME NEW calmly \in BOOLEAN, Upset(calmly)
      PROVE  spent'.steady \subseteq spent.steady /\ (spent'.calm => spent.calm)
  BY <1>3, Upsets DEF DeliveryInv
<1>. QED  BY <1>1, <1>2, <1>3, SubscriptionWriters

-----------------------------------------------------------------------------
(* Who is matched before the transaction is still matched in it. *)

(* Who is steady is active. *)
LEMMA SteadyStep ==
  ASSUME DeliveryInv, SteadyAreActive, Next
  PROVE  SteadyAreActive'
<1>1. ASSUME NEW s \in Subscriptions, Remove(s) PROVE SteadyAreActive'
  BY <1>1, RemovedStatus DEF DeliveryInv, SteadyAreActive, ShapesOK, Spending
<1>2. ASSUME NEW s \in Subscriptions, NEW status \in {"ACTIVE", "DISABLED"}, SaveStatus(s, status)
      PROVE  SteadyAreActive'
  <2>1. spent.steady \subseteq Subscriptions
    BY DEF DeliveryInv, ShapesOK, Spending
  <2>2. /\ \A t \in Subscriptions : subscription'[t] = IF t = s THEN status ELSE subscription[t]
        /\ spent'.steady = IF status = "ACTIVE" THEN spent.steady ELSE spent.steady \ {s}
    BY <1>2, SavedStatus DEF DeliveryInv
  <2>. QED  BY <2>1, <2>2 DEF SteadyAreActive
<1>3. ASSUME UNCHANGED subscription, NEW calmly \in BOOLEAN, Upset(calmly) PROVE SteadyAreActive'
  BY <1>3, Upsets DEF DeliveryInv, SteadyAreActive
<1>. QED  BY <1>1, <1>2, <1>3, SubscriptionWriters DEF SteadyAreActive

(* Only its subscription takes a row with it. *)
LEMMA RowsStay ==
  ASSUME DeliveryInv, Next, NEW p \in Pairs, delivery[p] # Null, subscription'[p[2]] # "REMOVED"
  PROVE  delivery'[p] # Null
<1>. USE DEF DeliveryInv
<1>1. ASSUME NEW s \in Subscriptions, Remove(s) PROVE delivery'[p] # Null
  BY <1>1, ShapesNow DEF Remove, ShapesOK
<1>2. ASSUME NEW h \in Handlers, Fail(h) \/ Record(h) PROVE delivery'[p] # Null
  <2>1. /\ handler[h] # Null
        /\ \E d \in Delivery : Update(h, d)
    BY <1>2, FailWrites, RecordWrites
  <2>. QED  BY <2>1, UpdatedRows, RecordsAreNotNull
<1>3. ASSUME NEW r \in Runners, Dispatch(r) PROVE delivery'[p] # Null
  BY <1>3 DEF Dispatch, Inserted
<1>4. ASSUME NEW q \in Pairs, Elapse(q) PROVE delivery'[p] # Null
  <2>1. delivery'[p] = IF p = q THEN [delivery[p] EXCEPT !.due = TRUE] ELSE delivery[p]
    BY <1>4 DEF Elapse, ShapesOK
  <2>2. [delivery[p] EXCEPT !.due = TRUE] \in Delivery
    <3>1. delivery[p] \in Delivery
      BY DEF ShapesOK
    <3>. QED  BY <3>1, ElapsedRow
  <2>. QED  BY <2>1, <2>2, RecordsAreNotNull
<1>5. ASSUME NEW c \in Clients, NEW q \in Pairs, Reset(c, q) PROVE delivery'[p] # Null
  <2>1. delivery'[p] = IF p = q THEN [status |-> "PENDING", count |-> 0, due |-> TRUE] ELSE delivery[p]
    BY <1>5 DEF Reset, ShapesOK
  <2>. QED  BY <2>1, FreshRow, RecordsAreNotNull
<1>. QED  BY <1>1, <1>2, <1>3, <1>4, <1>5, RowWriters

(* What one run does leaves the others as they are. *)
LEMMA OtherRuns ==
  ASSUME ShapesOK, NEW r \in Runners, StartRun(r) \/ RunStep(r) \/ CrashRun(r)
  PROVE  \A q \in Runners : q # r => run'[q] = run[q]
BY DEF ShapesOK, StartRun, RunStep, Match, Dispatch, DispatchFails, SkipEvent, EndRelay,
   BreakReconcile, Enqueue, Recheck, CrashRun

LEMMA RunsOnly ==
  ASSUME Next
  PROVE  UNCHANGED <<run, dispatched>> \/ \E r \in Runners : StartRun(r) \/ RunStep(r) \/ CrashRun(r)
BY DEF Next, HandlerStep, Produce, LoadEdit, SaveEdit, Remove, Find, Prepare, Fail, Record, Finish,
   HandlerThrows, SkipHealth, LoadHealth, SaveHealth, Post, CrashHandler, Stall, Take, Promote,
   Elapse, Expire, Lose, Requeue, Reset

(* Only findActiveByBond() makes a run one that has matched. *)
LEMMA MatchedByMatch ==
  ASSUME ShapesOK, NEW r \in Runners, StartRun(r) \/ RunStep(r) \/ CrashRun(r),
         run'[r] # Null, run'[r].phase = "matched"
  PROVE  /\ UNCHANGED <<subscription, spent>>
         /\ run'[r].batch = run[r].batch /\ run'[r].matched = Matched(Head(run[r].batch))
<1>1. CASE Match(r)
  <2>1. /\ run[r] = [f \in RunFields |-> run[r][f]]
        /\ run' = [run EXCEPT ![r].phase = "matched",
                              ![r].matched = Matched(Head(run[r].batch))]
        /\ run = [q \in Runners |-> run[q]]
    BY <1>1 DEF Match, ShapesOK, IsRun
  <2>2. run'[r].batch = run[r].batch /\ run'[r].matched = Matched(Head(run[r].batch))
    BY <2>1 DEF RunFields
  <2>. QED  BY <1>1, <2>2 DEF Match
<1>2. CASE StartRun(r) \/ DispatchFails(r) \/ EndRelay(r) \/ BreakReconcile(r) \/ CrashRun(r)
  <2>1. run'[r] = Null \/ run'[r].phase \in {"relay", "reconcile"}
    BY <1>2 DEF StartRun, DispatchFails, SkipEvent, EndRelay, BreakReconcile, CrashRun, ShapesOK
  <2>. QED  BY <2>1
<1>3. CASE Dispatch(r)
  <2>1. run'[r].phase \in {"relay", "enqueue"}
    BY <1>3 DEF Dispatch, ShapesOK
  <2>. QED  BY <2>1
<1>4. ASSUME NEW p \in Pairs, Enqueue(r, p) \/ Recheck(r, p) PROVE FALSE
  <2>1. CASE Enqueue(r, p)
    <3>. DEFINE ph == IF run[r].todo \ {p} = {} THEN "relay" ELSE "enqueue"
    <3>1. /\ run[r] = [f \in RunFields |-> run[r][f]] /\ run[r].phase = "enqueue"
          /\ run' = [run EXCEPT ![r].todo = run[r].todo \ {p},
                                ![r].phase = IF run[r].todo \ {p} = {} THEN "relay" ELSE @]
          /\ run = [q \in Runners |-> run[q]]
      BY <2>1 DEF Enqueue, ShapesOK, IsRun
    <3>2. run'[r].phase = ph
      BY <3>1 DEF RunFields
    <3>. QED  BY <3>2
  <2>2. CASE Recheck(r, p)
    BY <1>4, <2>2 DEF Recheck, ShapesOK, IsRun, RunFields
  <2>. QED  BY <1>4, <2>1, <2>2
<1>. QED  BY <1>1, <1>2, <1>3, <1>4 DEF RunStep

LEMMA MatchStep == MatchInv /\ [Next]_vars => MatchInv'
<1> SUFFICES ASSUME MatchInv, [Next]_vars PROVE MatchInv'
  OBVIOUS
<1>1. DeliveryInv'
  BY DeliveryStep DEF MatchInv
<1>2. CASE UNCHANGED vars
  BY <1>1, <1>2 DEF vars, MatchInv, SteadyAreActive, MatchesHold, NoSubscriberSkipped
<1>3. CASE Next
  <2>. USE <1>3 DEF MatchInv
  <2>1. spent'.steady \subseteq spent.steady /\ spent.steady \subseteq Subscriptions
    BY SpentOnlyEnds DEF DeliveryInv, ShapesOK, Spending
  <2>2. SteadyAreActive'
    BY SteadyStep
  <2>3. MatchesHold'
    <3> SUFFICES ASSUME NEW r \in Runners, run'[r] # Null, run'[r].phase = "matched",
                        NEW s \in spent'.steady, Head(run'[r].batch) \in Wants(s)
                 PROVE  s \in run'[r].matched
      BY DEF MatchesHold
    <3>1. CASE StartRun(r) \/ RunStep(r) \/ CrashRun(r)
      <4>1. /\ UNCHANGED <<subscription, spent>>
            /\ run'[r].batch = run[r].batch /\ run'[r].matched = Matched(Head(run[r].batch))
        BY <3>1, MatchedByMatch DEF DeliveryInv
      <4>. QED  BY <2>1, <4>1 DEF Matched, FindActive, SteadyAreActive
    <3>2. CASE run'[r] = run[r]
      BY <2>1, <3>2 DEF MatchesHold
    <3>. QED  BY <3>1, <3>2, RunsOnly, OtherRuns DEF DeliveryInv
  <2>4. NoSubscriberSkipped'
    <3> SUFFICES ASSUME NEW e \in dispatched', NEW s \in Subscriptions, e \in Wants(s),
                        s \in spent'.steady
                 PROVE  delivery'[<<e, s>>] # Null
      BY DEF NoSubscriberSkipped
    <3>1. <<e, s>> \in Pairs /\ <<e, s>>[2] = s
      BY DEF Wants, Pairs
    <3>2. s \in spent.steady /\ subscription'[s] = "ACTIVE"
      BY <2>1, <2>2 DEF SteadyAreActive
    <3>3. CASE e \in dispatched
      BY <3>1, <3>2, <3>3, RowsStay DEF NoSubscriberSkipped
    <3>4. ASSUME NEW r \in Runners, Dispatch(r), e \notin dispatched PROVE delivery'[<<e, s>>] # Null
      <4>1. e = Head(run[r].batch) /\ run[r] # Null /\ run[r].phase = "matched"
        BY <3>4 DEF Dispatch
      <4>2. s \in run[r].matched
        BY <3>2, <4>1 DEF MatchesHold
      <4>. DEFINE row == [status |-> "PENDING", count |-> 0, due |-> TRUE]
      <4>3. delivery[<<e, s>>] = Null => delivery'[<<e, s>>] = row
        BY <3>1, <3>4, <4>1, <4>2 DEF Dispatch, Inserted
      <4>4. row # Null
        BY FreshRow, RecordsAreNotNull
      <4>. HIDE DEF row
      <4>. QED  BY <3>1, <3>2, <4>3, <4>4, RowsStay
    <3>5. e \in dispatched \/ \E r \in Runners : Dispatch(r)
      BY RunsOnly DEF StartRun, RunStep, Match, DispatchFails, EndRelay, BreakReconcile, Enqueue,
         Recheck, CrashRun
    <3>. QED  BY <3>3, <3>4, <3>5
  <2>. QED  BY <1>1, <2>2, <2>3, <2>4
<1>. QED  BY <1>2, <1>3

-----------------------------------------------------------------------------
(* Removed subscriptions and the calm. *)

(* A row appears only by a dispatch, and for a subscription that exists. *)
LEMMA RowsAppearByDispatch ==
  ASSUME DeliveryInv, Next, NEW p \in Pairs, delivery[p] = Null, delivery'[p] # Null
  PROVE  \E r \in Runners : Dispatch(r) /\ p[2] \in run[r].matched
<1>. USE DEF DeliveryInv
<1>1. ASSUME NEW h \in Handlers, Fail(h) \/ Record(h) PROVE FALSE
  <2>1. /\ handler[h] # Null
        /\ \E d \in Delivery : Update(h, d)
    BY <1>1, FailWrites, RecordWrites
  <2>. QED  BY <2>1, UpdatedRows DEF HasRow
<1>2. ASSUME NEW q \in Pairs, Elapse(q) PROVE FALSE
  BY <1>2 DEF Elapse, HasStatus, ShapesOK
<1>3. ASSUME NEW c \in Clients, NEW q \in Pairs, Reset(c, q) PROVE FALSE
  BY <1>3 DEF Reset, ShapesOK
<1>4. ASSUME NEW s \in Subscriptions, Remove(s) PROVE FALSE
  BY <1>4 DEF Remove
<1>5. ASSUME NEW r \in Runners, Dispatch(r) PROVE p[2] \in run[r].matched
  BY <1>5 DEF Dispatch, Inserted
<1>. QED  BY <1>1, <1>2, <1>3, <1>4, <1>5, RowWriters

LEMMA RemovedBySomebody ==
  ASSUME DeliveryInv, Next, NEW s \in Subscriptions,
         subscription'[s] = "REMOVED", subscription[s] # "REMOVED"
  PROVE  Remove(s)
<1>1. ASSUME NEW t \in Subscriptions, NEW status \in {"ACTIVE", "DISABLED"}, SaveStatus(t, status)
      PROVE  FALSE
  BY <1>1, SavedStatus DEF DeliveryInv
<1>2. ASSUME NEW t \in Subscriptions, Remove(t) PROVE Remove(s)
  BY <1>2, RemovedStatus DEF DeliveryInv
<1>. QED  BY <1>1, <1>2, SubscriptionWriters

(* Only a replay resets, only a stall takes the lock from a handler. *)
LEMMA ReplayWriters ==
  ASSUME ShapesOK, Next
  PROVE  \/ UNCHANGED replay
         \/ \E c \in Clients : Requeue(c) /\ replay' = [replay EXCEPT ![c] = Null]
         \/ Upset(FALSE)
<1>1. ASSUME NEW r \in Runners, StartRun(r) \/ RunStep(r) \/ CrashRun(r) PROVE UNCHANGED replay
  BY <1>1 DEF StartRun, RunStep, Match, Dispatch, DispatchFails, EndRelay, BreakReconcile, Enqueue,
     Recheck, CrashRun
<1>2. ASSUME NEW h \in Handlers,
             HandlerStep(h) \/ CrashHandler(h) \/ Stall(h) \/ \E q \in Pairs : Take(h, q)
      PROVE  UNCHANGED replay
  BY <1>2 DEF HandlerStep, CrashHandler, Stall, Find, Prepare, Fail, Record, Finish, HandlerThrows,
     SkipHealth, LoadHealth, SaveHealth, Take, Post
<1>3. ASSUME \/ \E q \in Pairs : Promote(q) \/ Elapse(q) \/ Expire(q) \/ Lose(q)
             \/ \E e \in Events : Produce(e)
             \/ \E s \in Subscriptions : Remove(s) \/ \E c \in Clients : LoadEdit(c, s)
             \/ \E c \in Clients : SaveEdit(c)
      PROVE  UNCHANGED replay
  BY <1>3 DEF Promote, Elapse, Expire, Lose, Produce, Remove, LoadEdit, SaveEdit
<1>. QED  BY <1>1, <1>2, <1>3 DEF Next, Reset, Requeue

LEMMA LockWriters ==
  ASSUME DeliveryInv, Next, NEW h \in Handlers, handler'[h] # Null
  PROVE  \/ handler'[h].lock
         \/ handler[h] # Null /\ handler'[h].lock = handler[h].lock
         \/ Stall(h)
<1>. USE DEF DeliveryInv
<1>1. ASSUME NEW k \in Handlers, handler[k] # Null, NEW x \in Handling,
             handler' = [handler EXCEPT ![k] = x], x.lock = handler[k].lock
      PROVE  handler'[h].lock \/ (handler[h] # Null /\ handler'[h].lock = handler[h].lock)
  BY <1>1 DEF ShapesOK
<1>2. ASSUME NEW k \in Handlers, NEW p \in Pairs, Take(k, p)
      PROVE  handler'[h].lock \/ (handler[h] # Null /\ handler'[h].lock = handler[h].lock)
  <2>1. \A k1 \in Handlers : handler'[k1] = IF k1 = k THEN Handle(p) ELSE handler[k1]
    BY <1>2 DEF Take, ShapesOK
  <2>2. Handle(p).lock = TRUE
    BY DEF Handle
  <2>. QED  BY <2>1, <2>2
<1>3. ASSUME NEW k \in Handlers, HandlerWorks(k)
      PROVE  handler'[h].lock \/ (handler[h] # Null /\ handler'[h].lock = handler[h].lock)
  BY <1>1, <1>3, HandlerKeepsPair DEF KeepsPair
<1>4. ASSUME NEW k \in Handlers, Finish(k) \/ CrashHandler(k)
      PROVE  handler[h] # Null /\ handler'[h].lock = handler[h].lock
  BY <1>4 DEF Finish, CrashHandler, ShapesOK
<1>5. ASSUME NEW k \in Handlers, Stall(k), k # h
      PROVE  handler[h] # Null /\ handler'[h].lock = handler[h].lock
  BY <1>5 DEF Stall, ShapesOK
<1>6. ASSUME NEW r \in Runners, StartRun(r) \/ RunStep(r) \/ CrashRun(r) PROVE UNCHANGED handler
  BY <1>6 DEF StartRun, RunStep, Match, Dispatch, DispatchFails, EndRelay, BreakReconcile, Enqueue,
     Recheck, CrashRun
<1>7. ASSUME \/ \E q \in Pairs : Promote(q) \/ Elapse(q) \/ Expire(q) \/ Lose(q)
             \/ \E e \in Events : Produce(e)
             \/ \E s \in Subscriptions : Remove(s) \/ \E c \in Clients : LoadEdit(c, s)
             \/ \E c \in Clients : SaveEdit(c) \/ Requeue(c) \/ \E q \in Pairs : Reset(c, q)
      PROVE  UNCHANGED handler
  BY <1>7 DEF Promote, Elapse, Expire, Lose, Produce, Remove, LoadEdit, SaveEdit, Requeue, Reset
<1>. QED  BY <1>2, <1>3, <1>4, <1>5, <1>6, <1>7 DEF Next, HandlerStep, HandlerWorks

LEMMA RemovalInit == Init => RemovalInv
BY DeliveryInit DEF Init, RemovalInv, RemovedHaveNoRows, CalmMeans, RemovalsAreCounted

LEMMA CalmStep ==
  ASSUME RemovalInv, Next
  PROVE  CalmMeans'
<1> SUFFICES ASSUME spent'.calm
             PROVE  /\ \A c \in Clients : replay'[c] = Null
                    /\ \A h \in Handlers : handler'[h] # Null => handler'[h].lock
                    /\ \A s \in Subscriptions : subscription'[s] # "REMOVED" => removals'[s] = 0
  BY DEF CalmMeans
<1>1. spent.calm /\ CalmMeans /\ DeliveryInv /\ ShapesOK
  BY SpentOnlyEnds DEF RemovalInv, DeliveryInv
<1>2. ASSUME NEW c \in Clients PROVE replay'[c] = Null
  <2>1. replay[c] = Null
    BY <1>1 DEF CalmMeans
  <2>2. CASE UNCHANGED replay
    BY <2>1, <2>2
  <2>3. ASSUME NEW b \in Clients, replay' = [replay EXCEPT ![b] = Null] PROVE replay'[c] = Null
    BY <1>1, <2>1, <2>3 DEF ShapesOK
  <2>4. CASE Upset(FALSE)
    BY <1>1, <2>4, Upsets
  <2>. QED  BY <1>1, <2>2, <2>3, <2>4, ReplayWriters
<1>3. ASSUME NEW h \in Handlers, handler'[h] # Null PROVE handler'[h].lock
  <2>1. CASE Stall(h)
    BY <1>1, <2>1, CountedFault DEF Stall
  <2>2. CASE handler[h] # Null /\ handler'[h].lock = handler[h].lock
    BY <1>1, <2>2 DEF CalmMeans
  <2>. QED  BY <1>1, <1>3, <2>1, <2>2, LockWriters
<1>4. ASSUME NEW s \in Subscriptions, subscription'[s] # "REMOVED" PROVE removals'[s] = 0
  <2>1. subscription[s] # "REMOVED" => removals[s] = 0
    BY <1>1 DEF CalmMeans
  <2>2. ASSUME NEW t \in Subscriptions, Remove(t) PROVE removals'[s] = 0
    BY <1>1, <1>4, <2>1, <2>2, RemovedStatus
  <2>3. ASSUME NEW t \in Subscriptions, NEW status \in {"ACTIVE", "DISABLED"}, SaveStatus(t, status),
               UNCHANGED removals
        PROVE  removals'[s] = 0
    BY <1>1, <1>4, <2>1, <2>3, SavedStatus
  <2>4. CASE UNCHANGED <<subscription, removals>>
    BY <1>4, <2>1, <2>4
  <2>. QED  BY <1>1, <2>2, <2>3, <2>4, SubscriptionWriters
<1>. QED  BY <1>2, <1>3, <1>4

LEMMA RemovalStep == RemovalInv /\ [Next]_vars => RemovalInv'
<1> SUFFICES ASSUME RemovalInv, [Next]_vars PROVE RemovalInv'
  OBVIOUS
<1>. USE DEF RemovalInv
<1>1. DeliveryInv'
  BY DeliveryStep
<1>2. CASE UNCHANGED vars
  BY <1>1, <1>2 DEF vars, RemovedHaveNoRows, CalmMeans, RemovalsAreCounted
<1>3. CASE Next
  <2>1. RemovedHaveNoRows'
    <3> SUFFICES ASSUME NEW p \in Pairs, subscription'[p[2]] = "REMOVED", delivery'[p] # Null
                 PROVE  FALSE
      BY DEF RemovedHaveNoRows
    <3>1. p[2] \in Subscriptions
      BY ShapesNow DEF DeliveryInv
    <3>2. CASE subscription[p[2]] # "REMOVED"
      <4>1. Remove(p[2])
        BY <1>3, <3>1, <3>2, RemovedBySomebody
      <4>. QED  BY <4>1 DEF Remove
    <3>3. CASE subscription[p[2]] = "REMOVED"
      <4>1. delivery[p] = Null
        BY <3>3 DEF RemovedHaveNoRows
      <4>2. PICK r \in Runners : Dispatch(r) /\ p[2] \in run[r].matched
        BY <1>3, <4>1, RowsAppearByDispatch
      <4>. QED  BY <3>3, <4>2 DEF Dispatch
    <3>. QED  BY <3>2, <3>3
  <2>2. RemovalsAreCounted'
    <3> SUFFICES ASSUME NEW s \in Subscriptions, removals'[s] = 0
                 PROVE  subscription'[s] # "REMOVED"
      BY DEF RemovalsAreCounted
    <3>1. ShapesOK /\ removals[s] \in Nat
      BY DEF DeliveryInv, ShapesOK
    <3>2. ASSUME NEW t \in Subscriptions, Remove(t) PROVE subscription'[s] # "REMOVED"
      BY <3>1, <3>2, RemovedStatus DEF RemovalsAreCounted
    <3>3. ASSUME NEW t \in Subscriptions, NEW status \in {"ACTIVE", "DISABLED"}, SaveStatus(t, status),
                 UNCHANGED removals
          PROVE  subscription'[s] # "REMOVED"
      BY <3>1, <3>3, SavedStatus DEF RemovalsAreCounted
    <3>4. CASE UNCHANGED <<subscription, removals>>
      BY <3>4 DEF RemovalsAreCounted
    <3>. QED  BY <1>3, <3>2, <3>3, <3>4, SubscriptionWriters
  <2>. QED  BY <1>1, <1>3, <2>1, <2>2, CalmStep
<1>. QED  BY <1>2, <1>3

-----------------------------------------------------------------------------
(* Row, job and handler agree as long as the calm lasts. *)

(* Nothing was ever inserted for this pair. *)
NeverAnnounced(p) == delivery[p] = Null /\ removals[p[2]] = 0

Holds(h, p) == handler[h] # Null /\ handler[h].pair = p

Answering(p) == \E h \in Handlers : Holds(h, p) /\ handler[h].stage = "answered"

InHand(p) == \E r \in Runners : run[r] # Null /\ p \in run[r].todo

(* A pair that was never dispatched is in nobody's hands. *)
UntouchedBefore(p) == NeverAnnounced(p) => job[p] = Null /\ posts[p] = 0 /\ ~InHand(p)

(* An open row has counted the requests sent, and its job at most as many. *)
OpenRowCounts(p) ==
  HasStatus(p, Open) =>
    /\ delivery[p].count < MaxAttempts
    /\ ~Answering(p) => posts[p] = delivery[p].count
    /\ job[p] # Null => IsLive(p) /\ job[p].made <= delivery[p].count

(* Nobody will work on a settled row: its job does not wait, and where it  *)
(* is gone nobody is about to add it again.                                *)
SettledRowRests(p) ==
  HasStatus(p, Settled) =>
    /\ ~InState(p, {"waiting", "delayed", "failed"})
    /\ job[p] = Null => ~InHand(p)
    /\ delivery[p].status = "DEAD" => posts[p] = MaxAttempts

(* The attempt in a handler's hands is the next of the row and of the job, *)
(* and the row is the one it has read.                                     *)
AttemptCounts(h, p) ==
  /\ handler[h].stage = "taken" => ~HasStatus(p, Settled)
  /\ handler[h].stage \in {"read", "post", "answered"} =>
       /\ handler[h].no <= MaxAttempts /\ job[p].made < handler[h].no
       /\ posts[p] = IF handler[h].stage = "answered" THEN handler[h].no ELSE handler[h].no - 1
       /\ delivery[p] # Null => /\ HasStatus(p, Open) /\ delivery[p].count = handler[h].no - 1
                                /\ handler[h].life = removals[p[2]]
  /\ handler[h].stage \in {"settled", "return"} => ~HasStatus(p, Open)
  /\ handler[h].stage \in {"retry", "throw"} /\ delivery[p] # Null =>
       HasStatus(p, {"RETRYING"}) /\ job[p].made < delivery[p].count

PairAgrees(p) ==
  /\ UntouchedBefore(p) /\ OpenRowCounts(p) /\ SettledRowRests(p)
  /\ posts[p] <= MaxAttempts
  /\ \A h \in Handlers : Holds(h, p) => AttemptCounts(h, p)

CountersAgree == \A p \in Pairs : PairAgrees(p)

CountersInv == RemovalInv /\ (Undisturbed => CountersAgree)

Agreement == RemovalInv /\ Undisturbed /\ CountersAgree

(* Replays, crashes, stalls, database errors and returning subscriptions   *)
(* leave the agreement unpromised.                                         *)
LEMMA UndisturbedSteps ==
  ASSUME RemovalInv, Next, Undisturbed'
  PROVE  /\ Undisturbed
         /\ \A r \in Runners : ~CrashRun(r)
         /\ \A h \in Handlers : ~HandlerThrows(h) /\ ~CrashHandler(h) /\ ~Stall(h)
         /\ \A c \in Clients : ~Requeue(c) /\ \A p \in Pairs : ~Reset(c, p)
         /\ ~Fault("error") /\ ~Fault("crash")
<1>. USE DEF RemovalInv, DeliveryInv
<1>1. Undisturbed
  BY SpentOnlyEnds DEF Undisturbed
<1>2. ~Fault("error") /\ ~Fault("crash") /\ ~Fault("stall")
  BY CountedFault DEF Undisturbed
<1>3. \A c \in Clients : ~Requeue(c)
  BY <1>1 DEF Requeue, CalmMeans, Undisturbed
<1>4. \A c \in Clients : \A p \in Pairs : ~Reset(c, p)
  BY Upsets DEF Reset, Undisturbed
<1>. QED  BY <1>1, <1>2, <1>3, <1>4 DEF CrashRun, HandlerThrows, CrashHandler, Stall

(* In the calm a handler has its lock, and its pair to itself. *)
LEMMA OneHolder ==
  ASSUME RemovalInv, Undisturbed, NEW h \in Handlers, handler[h] # Null
  PROVE  /\ handler[h].lock /\ handler[h].pair \in Pairs /\ handler[h] \in Handling
         /\ handler[h].no \in Nat /\ MaxAttempts \in Nat
         /\ \A k \in Handlers : Holds(k, handler[h].pair) => k = h
<1>1. \A k \in Handlers : handler[k] # Null => handler[k].lock
  BY DEF RemovalInv, CalmMeans, Undisturbed
<1>. QED  BY <1>1, ShapesNow, DeliveryAssumption
          DEF RemovalInv, DeliveryInv, OneHandlerPerDelivery, Holds

(* In the calm whoever is there was never removed. *)
LEMMA CalmRows ==
  ASSUME RemovalInv, Undisturbed, NEW p \in Pairs
  PROVE  /\ subscription[p[2]] # "REMOVED" => removals[p[2]] = 0
         /\ delivery[p] # Null => removals[p[2]] = 0 /\ subscription[p[2]] # "REMOVED"
BY ShapesNow DEF RemovalInv, DeliveryInv, CalmMeans, RemovedHaveNoRows, Undisturbed

(* A pair that a step does not concern. *)
LEMMA PairKept ==
  ASSUME NEW p \in Pairs, PairAgrees(p),
         delivery'[p] = Null <=> delivery[p] = Null, delivery'[p].status = delivery[p].status,
         delivery'[p].count = delivery[p].count, posts'[p] = posts[p], job'[p] = job[p],
         removals'[p[2]] = removals[p[2]],
         InHand(p)' => InHand(p),
         \A h \in Handlers : Holds(h, p) \/ Holds(h, p)' => handler'[h] = handler[h]
  PROVE  PairAgrees(p)'
<1>1. \A h \in Handlers : Holds(h, p)' <=> Holds(h, p)
  BY DEF Holds
<1>2. Answering(p)' <=> Answering(p)
  BY <1>1 DEF Answering
<1>3. /\ \A states : InState(p, states)' <=> InState(p, states)
      /\ \A statuses : HasStatus(p, statuses)' <=> HasStatus(p, statuses)
  BY DEF InState, HasStatus
<1>4. IsLive(p)' <=> IsLive(p)
  BY <1>3 DEF IsLive
<1>5. UntouchedBefore(p)'
  BY DEF PairAgrees, UntouchedBefore, NeverAnnounced
<1>6. OpenRowCounts(p)'
  BY <1>2, <1>3, <1>4 DEF PairAgrees, OpenRowCounts
<1>7. SettledRowRests(p)'
  BY <1>3 DEF PairAgrees, SettledRowRests
<1>8. ASSUME NEW h \in Handlers, Holds(h, p)' PROVE AttemptCounts(h, p)'
  BY <1>1, <1>3, <1>8 DEF PairAgrees, AttemptCounts
<1>. QED  BY <1>5, <1>6, <1>7, <1>8 DEF PairAgrees

(* The pairs of other handlers are not concerned. *)
LEMMA OtherPairsKept ==
  ASSUME ShapesOK, CountersAgree, NEW h \in Handlers, NEW q \in Pairs, NEW x,
         handler' = [handler EXCEPT ![h] = x], x = Null \/ x.pair = q,
         handler[h] = Null \/ handler[h].pair = q, UNCHANGED <<run, removals>>,
         NEW p \in Pairs, p # q,
         delivery'[p] = delivery[p], posts'[p] = posts[p], job'[p] = job[p]
  PROVE  PairAgrees(p)'
<1>1. \A k \in Handlers : handler'[k] = IF k = h THEN x ELSE handler[k]
  BY DEF ShapesOK
<1>2. \A k \in Handlers : Holds(k, p) \/ Holds(k, p)' => handler'[k] = handler[k]
  BY <1>1 DEF Holds
<1>3. InHand(p)' => InHand(p)
  BY DEF InHand
<1>. QED  BY <1>2, <1>3, PairKept DEF CountersAgree

(* A pair in the hands of a handler, and of no other. *)
LEMMA PairHeld ==
  ASSUME Agreement, NEW h \in Handlers, handler[h] # Null, NEW x,
         handler' = [handler EXCEPT ![h] = x]
  PROVE  /\ \A k \in Handlers : Holds(k, handler[h].pair) => k = h
         /\ \A k \in Handlers : handler'[k] # Null /\ handler'[k].pair = handler[h].pair => k = h
         /\ handler'[h] = x
<1>1. \A k \in Handlers : handler'[k] = IF k = h THEN x ELSE handler[k]
  BY DEF Agreement, RemovalInv, DeliveryInv, ShapesOK
<1>2. \A k \in Handlers : Holds(k, handler[h].pair) => k = h
  BY OneHolder DEF Agreement
<1>3. ASSUME NEW k \in Handlers, k # h PROVE handler'[k] # Null => handler'[k].pair # handler[h].pair
  <2>1. handler'[k] = handler[k]
    BY <1>1, <1>3
  <2>2. handler[k] # Null => handler[k].pair # handler[h].pair
    BY <1>2, <1>3 DEF Holds
  <2>. QED  BY <2>1, <2>2
<1>. QED  BY <1>1, <1>2, <1>3

(* Nobody holds a pair whose job is not active. *)
LEMMA NobodyHolds ==
  ASSUME Agreement, NEW p \in Pairs, ~InState(p, {"active"})
  PROVE  \A h \in Handlers : ~Holds(h, p)
BY OneHolder DEF Agreement, RemovalInv, DeliveryInv, HandlersHoldJobs, Holds

(* Members: a removed subscription takes its rows with it. *)
LEMMA CountersOutside ==
  ASSUME Agreement, Next, (\E e \in Events : Produce(e)) \/ SubsNext, NEW p \in Pairs
  PROVE  PairAgrees(p)'
<1>. USE DEF Agreement, RemovalInv
<1>1. UNCHANGED <<posts, job, run, handler>>
  BY DEF Produce, SubsNext, LoadEdit, SaveEdit, Remove
<1>2. PairAgrees(p)
  BY DEF CountersAgree
<1>3. InHand(p)' <=> InHand(p)
  BY <1>1 DEF InHand
<1>4. CASE delivery'[p] = delivery[p] /\ removals'[p[2]] = removals[p[2]]
  BY <1>1, <1>2, <1>3, <1>4, PairKept
<1>5. ASSUME NEW s \in Subscriptions, Remove(s), p[2] = s PROVE PairAgrees(p)'
  <2>1. delivery'[p] = Null /\ removals'[p[2]] # 0
    <3>1. removals'[s] = removals[s] + 1 /\ removals[s] \in Nat
      BY <1>5, RemovedStatus DEF DeliveryInv, ShapesOK
    <3>2. delivery'[p] = Null
      BY <1>5 DEF Remove
    <3>. QED  BY <1>5, <3>1, <3>2
  <2>2. \A statuses : ~HasStatus(p, statuses)'
    BY <2>1 DEF HasStatus
  <2>3. UntouchedBefore(p)' /\ OpenRowCounts(p)' /\ SettledRowRests(p)' /\ posts'[p] <= MaxAttempts
    BY <1>1, <1>2, <2>1, <2>2
       DEF PairAgrees, UntouchedBefore, NeverAnnounced, OpenRowCounts, SettledRowRests
  <2>4. ASSUME NEW h \in Handlers, Holds(h, p)' PROVE AttemptCounts(h, p)'
    <3>1. AttemptCounts(h, p)
      BY <1>1, <1>2, <2>4 DEF PairAgrees, Holds
    <3>. QED  BY <1>1, <2>1, <2>2, <3>1 DEF AttemptCounts
  <2>. QED  BY <2>3, <2>4 DEF PairAgrees
<1>6. \/ delivery'[p] = delivery[p] /\ removals'[p[2]] = removals[p[2]]
      \/ \E s \in Subscriptions : Remove(s) /\ p[2] = s
  <2>1. ASSUME NEW s \in Subscriptions, Remove(s), p[2] # s
        PROVE  delivery'[p] = delivery[p] /\ removals'[p[2]] = removals[p[2]]
    <3>1. p[2] \in Subscriptions
      BY ShapesNow DEF DeliveryInv
    <3>. QED  BY <2>1, <3>1 DEF Remove, DeliveryInv, ShapesOK
  <2>2. CASE \A s \in Subscriptions : ~Remove(s)
    BY <2>2 DEF Produce, SubsNext, LoadEdit, SaveEdit
  <2>. QED  BY <2>1, <2>2
<1>. QED  BY <1>4, <1>5, <1>6

(* Runs that match, skip, end or break off take nothing new in hand but    *)
(* open rows.                                                              *)
LEMMA CountersOfRuns ==
  ASSUME Agreement, Next, NEW r \in Runners,
         \/ StartRun(r) \/ Match(r) \/ DispatchFails(r) \/ EndRelay(r) \/ BreakReconcile(r),
         NEW p \in Pairs
  PROVE  PairAgrees(p)'
<1>. USE DEF Agreement, RemovalInv
<1>1. UNCHANGED <<subscription, removals, delivery, posts, job, handler>>
  BY DEF StartRun, Match, DispatchFails, EndRelay, BreakReconcile
<1>2. PairAgrees(p)
  BY DEF CountersAgree
<1>3. \A q \in Runners : q # r => run'[q] = run[q]
  BY OtherRuns DEF DeliveryInv, RunStep
<1>4. ASSUME InHand(p)', ~InHand(p) PROVE HasStatus(p, Open)
  <2>1. run'[r] # Null /\ p \in run'[r].todo /\ ~(run[r] # Null /\ p \in run[r].todo)
    BY <1>3, <1>4 DEF InHand
  <2>2. CASE StartRun(r)
    BY <2>1, <2>2 DEF StartRun, DeliveryInv, ShapesOK
  <2>3. CASE Match(r)
    <3>1. run[r] # Null /\ run[r] = [f \in RunFields |-> run[r][f]]
          /\ run' = [run EXCEPT ![r].phase = "matched",
                                ![r].matched = Matched(Head(run[r].batch))]
          /\ run = [q \in Runners |-> run[q]]
      BY <2>3 DEF Match, DeliveryInv, ShapesOK, IsRun
    <3>2. run'[r].todo = run[r].todo
      BY <3>1 DEF RunFields
    <3>. QED  BY <2>1, <3>1, <3>2
  <2>4. CASE DispatchFails(r)
    BY <2>1, <2>4 DEF DispatchFails, SkipEvent, DeliveryInv, ShapesOK
  <2>5. CASE EndRelay(r)
    BY <2>1, <2>5 DEF EndRelay, Reconcilable, DeliveryInv, ShapesOK
  <2>6. CASE BreakReconcile(r)
    BY <2>1, <2>6 DEF BreakReconcile, DeliveryInv, ShapesOK
  <2>. QED  BY <2>2, <2>3, <2>4, <2>5, <2>6
<1>5. CASE InHand(p)' => InHand(p)
  BY <1>1, <1>2, <1>5, PairKept
<1>6. CASE HasStatus(p, Open)
  <2>1. ~HasStatus(p, Settled) /\ delivery[p] # Null
    BY <1>6 DEF HasStatus, Open, Settled
  <2>2. UntouchedBefore(p)' /\ SettledRowRests(p)'
    BY <1>1, <2>1 DEF UntouchedBefore, NeverAnnounced, SettledRowRests, HasStatus
  <2>3. OpenRowCounts(p)' /\ posts'[p] <= MaxAttempts
    BY <1>1, <1>2 DEF PairAgrees, OpenRowCounts, HasStatus, Answering, Holds, IsLive, InState
  <2>4. \A h \in Handlers : Holds(h, p)' => AttemptCounts(h, p)'
    BY <1>1, <1>2 DEF PairAgrees, Holds, AttemptCounts, HasStatus
  <2>. QED  BY <2>2, <2>3, <2>4 DEF PairAgrees
<1>. QED  BY <1>4, <1>5, <1>6

(* A dispatch: the rows it inserts were untouched before. *)
LEMMA CountersOfDispatch ==
  ASSUME Agreement, Next, NEW r \in Runners, Dispatch(r), NEW p \in Pairs
  PROVE  PairAgrees(p)'
<1>. USE DEF Agreement, RemovalInv
<1>. DEFINE new == Inserted(Head(run[r].batch), run[r].matched)
            row == [status |-> "PENDING", count |-> 0, due |-> TRUE]
<1>1. /\ UNCHANGED <<subscription, removals, posts, job, handler>>
      /\ delivery'[p] = IF p \in new THEN row ELSE delivery[p]
      /\ run'[r].todo = new
      /\ p \in new => delivery[p] = Null /\ subscription[p[2]] # "REMOVED"
  BY DEF Dispatch, Inserted, DeliveryInv, ShapesOK
<1>2. PairAgrees(p)
  BY DEF CountersAgree
<1>. HIDE DEF new
<1>3. \A q \in Runners : q # r => run'[q] = run[q]
  BY OtherRuns DEF DeliveryInv, RunStep
<1>4. CASE p \notin new
  <2>1. InHand(p)' => InHand(p)
    BY <1>1, <1>3, <1>4 DEF InHand
  <2>. QED  BY <1>1, <1>2, <1>4, <2>1, PairKept
<1>5. CASE p \in new
  <2>0. NeverAnnounced(p)
    BY <1>1, <1>5, CalmRows DEF NeverAnnounced
  <2>1. job[p] = Null /\ posts[p] = 0 /\ \A h \in Handlers : ~Holds(h, p)
    BY <1>2, <2>0, NobodyHolds DEF PairAgrees, UntouchedBefore, InState
  <2>2. delivery'[p] = row /\ row \in Delivery /\ row # Null /\ row.count = 0 /\ row.status = "PENDING"
    BY <1>1, <1>5, FreshRow, RecordsAreNotNull
  <2>. HIDE DEF row
  <2>3. UntouchedBefore(p)' /\ SettledRowRests(p)'
    BY <2>2 DEF UntouchedBefore, NeverAnnounced, SettledRowRests, HasStatus, Settled
  <2>4. OpenRowCounts(p)' /\ posts'[p] <= MaxAttempts
    <3>1. job'[p] = Null /\ posts'[p] = 0 /\ delivery'[p].count = 0
      BY <1>1, <2>1, <2>2
    <3>2. MaxAttempts \in Nat /\ 0 < MaxAttempts
      BY DeliveryAssumption
    <3>. QED  BY <3>1, <3>2 DEF OpenRowCounts
  <2>5. \A h \in Handlers : ~Holds(h, p)'
    BY <1>1, <2>1 DEF Holds
  <2>. QED  BY <2>3, <2>4, <2>5 DEF PairAgrees
<1>. QED  BY <1>4, <1>5

(* A pair that no handler holds: its job is added, moved or dropped. *)
LEMMA FreePair ==
  ASSUME Agreement, NEW p \in Pairs, UNCHANGED removals,
         delivery'[p] = delivery[p], posts'[p] = posts[p], handler' = handler,
         \A h \in Handlers : ~Holds(h, p), job[p] # Null \/ InHand(p),
         HasStatus(p, Open) /\ job'[p] # Null => IsLive(p)' /\ job'[p].made <= delivery[p].count,
         HasStatus(p, Settled) => ~InState(p, {"waiting", "delayed", "failed"})'
                                  /\ (job'[p] = Null => ~InHand(p)')
  PROVE  PairAgrees(p)'
<1>1. PairAgrees(p)
  BY DEF Agreement, CountersAgree
<1>2. /\ \A h \in Handlers : ~Holds(h, p)'
      /\ ~Answering(p) /\ ~Answering(p)'
      /\ \A statuses : HasStatus(p, statuses)' <=> HasStatus(p, statuses)
  BY DEF Holds, Answering, HasStatus
<1>3. UntouchedBefore(p)'
  BY <1>1 DEF PairAgrees, UntouchedBefore, NeverAnnounced
<1>4. OpenRowCounts(p)'
  BY <1>1, <1>2 DEF PairAgrees, OpenRowCounts
<1>5. SettledRowRests(p)'
  BY <1>1, <1>2 DEF PairAgrees, SettledRowRests
<1>. QED  BY <1>1, <1>2, <1>3, <1>4, <1>5 DEF PairAgrees

(* A pair whose row and job a step of the queue leaves alone. *)
LEMMA QueueLeavesAlone ==
  ASSUME Agreement, NEW p \in Pairs, handler' = handler, UNCHANGED removals,
         delivery'[p] = delivery[p], posts'[p] = posts[p], job'[p] = job[p],
         InHand(p)' => InHand(p)
  PROVE  PairAgrees(p)'
BY PairKept DEF Agreement, CountersAgree

(* Relay and reconciliation add a job. *)
LEMMA CountersOfAdding ==
  ASSUME Agreement, Next, NEW r \in Runners, NEW q \in Pairs,
         Enqueue(r, q) \/ Recheck(r, q), NEW p \in Pairs
  PROVE  PairAgrees(p)'
<1>. USE DEF Agreement, RemovalInv
<1>1. /\ UNCHANGED <<removals, delivery, posts, handler>>
      /\ AddJob(q) \/ UNCHANGED job
      /\ InHand(q)
  BY DEF Enqueue, Recheck, InHand
<1>2. \A k \in Runners : k # r => run'[k] = run[k]
  BY OtherRuns DEF DeliveryInv, RunStep
<1>3. run'[r] # Null => run'[r].todo \subseteq run[r].todo
  <2>1. run[r] # Null /\ run[r] = [f \in RunFields |-> run[r][f]] /\ run = [k \in Runners |-> run[k]]
    BY DEF Enqueue, Recheck, DeliveryInv, ShapesOK, IsRun
  <2>2. CASE Enqueue(r, q)
    BY <2>1, <2>2 DEF Enqueue, RunFields
  <2>3. CASE Recheck(r, q)
    BY <2>1, <2>3 DEF Recheck, RunFields
  <2>. QED  BY <2>2, <2>3
<1>4. run[r] # Null
  BY DEF Enqueue, Recheck
<1>5. InHand(p)' => InHand(p)
  BY <1>2, <1>3, <1>4 DEF InHand
<1>6. CASE job'[p] = job[p]
  BY <1>1, <1>5, <1>6, QueueLeavesAlone
<1>7. CASE p = q /\ job[p] = Null /\ job'[p] = NewJob
  <2>1. PairAgrees(p)
    BY DEF CountersAgree
  <2>2. \A h \in Handlers : ~Holds(h, p)
    BY <1>7, NobodyHolds DEF InState
  <2>3. ~HasStatus(p, Settled)
    BY <1>1, <1>7, <2>1 DEF PairAgrees, SettledRowRests
  <2>4. HasStatus(p, Open) => IsLive(p)' /\ job'[p].made <= delivery[p].count
    <3>1. delivery[p] # Null => delivery[p].count \in Nat
      BY ShapesNow DEF DeliveryInv, Delivery
    <3>2. job'[p] # Null /\ job'[p].state = "waiting" /\ job'[p].made = 0
      BY <1>7, RecordsAreNotNull
    <3>. QED  BY <3>1, <3>2 DEF IsLive, InState, HasStatus
  <2>. QED  BY <1>1, <1>7, <2>2, <2>3, <2>4, FreePair
<1>8. job'[p] = job[p] \/ (p = q /\ job[p] = Null /\ job'[p] = NewJob)
  BY <1>1 DEF AddJob, DeliveryInv, ShapesOK
<1>. QED  BY <1>6, <1>7, <1>8

(* BullMQ, Redis and the clock. *)
LEMMA CountersOfQueue ==
  ASSUME Agreement, Next, NEW q \in Pairs,
         Promote(q) \/ Elapse(q) \/ Expire(q) \/ Lose(q), NEW p \in Pairs
  PROVE  PairAgrees(p)'
<1>. USE DEF Agreement, RemovalInv
<1>1. UNCHANGED <<removals, posts, run, handler>>
  BY DEF Promote, Elapse, Expire, Lose
<1>2. InHand(p)' <=> InHand(p)
  BY <1>1 DEF InHand
<1>3. PairAgrees(p)
  BY DEF CountersAgree
<1>4. CASE Elapse(q)
  <2>1. /\ job' = job
        /\ delivery' = [delivery EXCEPT ![q].due = TRUE]
        /\ delivery[q] # Null /\ delivery[q] \in Delivery
    BY <1>4, ShapesNow DEF Elapse, HasStatus, DeliveryInv
  <2>2. [delivery[q] EXCEPT !.due = TRUE] \in Delivery
    BY <2>1 DEF Delivery
  <2>3. /\ delivery'[p] = Null <=> delivery[p] = Null
        /\ delivery'[p].status = delivery[p].status /\ delivery'[p].count = delivery[p].count
    BY <2>1, <2>2, RecordsAreNotNull DEF DeliveryInv, ShapesOK, Delivery
  <2>. QED  BY <1>1, <1>2, <1>3, <2>1, <2>3, PairKept
<1>5. CASE p # q /\ ~Elapse(q)
  <2>1. job'[p] = job[p] /\ delivery' = delivery
    BY <1>5 DEF Promote, Expire, Lose, DeliveryInv, ShapesOK
  <2>. QED  BY <1>1, <1>2, <2>1, QueueLeavesAlone
<1>6. CASE p = q /\ ~Elapse(q)
  <2>1. delivery' = delivery /\ job[p] # Null /\ ~InState(p, {"active"})
    BY <1>6 DEF Promote, Expire, Lose, InState
  <2>2. \A h \in Handlers : ~Holds(h, p)
    BY <2>1, NobodyHolds
  <2>3. job \in [Pairs -> Job \cup {Null}] /\ job[p] \in Job
    BY <2>1 DEF DeliveryInv, ShapesOK
  <2>4. CASE Promote(p)
    <3>1. job'[p].state = "waiting" /\ job'[p].made = job[p].made /\ job'[p] # Null
      <4>1. [job[p] EXCEPT !.state = "waiting"] \in Job
        BY <2>3 DEF Job
      <4>. QED  BY <2>3, <2>4, <4>1, RecordsAreNotNull DEF Promote, Job
    <3>2. ~HasStatus(p, Settled)
      BY <1>3, <2>4 DEF Promote, PairAgrees, SettledRowRests, InState
    <3>3. HasStatus(p, Open) => IsLive(p)' /\ job'[p].made <= delivery[p].count
      BY <1>3, <2>1, <3>1 DEF PairAgrees, OpenRowCounts, IsLive, InState
    <3>. QED  BY <1>1, <2>1, <2>2, <3>2, <3>3, FreePair
  <2>5. CASE Expire(p)
    <3>1. job'[p] = Null /\ ~InHand(p)
      BY <2>3, <2>5 DEF Expire, InHand, DeliveryInv, ShapesOK
    <3>. QED  BY <1>1, <1>2, <2>1, <2>2, <3>1, FreePair DEF InState
  <2>6. CASE Lose(p)
    <3>1. job'[p] = Null
      BY <2>3, <2>6 DEF Lose
    <3>2. ~HasStatus(p, Settled)
      BY <1>3, <2>6 DEF Lose, PairAgrees, SettledRowRests, InState
    <3>. QED  BY <1>1, <2>1, <2>2, <3>1, <3>2, FreePair
  <2>. QED  BY <1>6, <2>4, <2>5, <2>6
<1>. QED  BY <1>4, <1>5, <1>6

(* The pair in a handler's hands, before and after a step of the handler. *)
LEMMA HeldPair ==
  ASSUME Agreement, NEW h \in Handlers, handler[h] # Null, NEW x,
         handler' = [handler EXCEPT ![h] = x], NEW p \in Pairs, p = handler[h].pair,
         UNCHANGED removals, delivery'[p] = Null => delivery[p] = Null,
         posts'[p] <= MaxAttempts,
         HasStatus(p, Open)' =>
           /\ delivery'[p].count < MaxAttempts
           /\ ~(x # Null /\ x.stage = "answered") => posts'[p] = delivery'[p].count
           /\ job'[p] # Null => IsLive(p)' /\ job'[p].made <= delivery'[p].count,
         HasStatus(p, Settled)' =>
           /\ job'[p] # Null /\ ~InState(p, {"waiting", "delayed", "failed"})'
           /\ delivery'[p].status = "DEAD" => posts'[p] = MaxAttempts,
         x # Null => x.pair = p /\ AttemptCounts(h, p)'
  PROVE  PairAgrees(p)'
<1>1. handler'[h] = x /\ \A k \in Handlers : handler'[k] # Null /\ handler'[k].pair = p => k = h
  BY PairHeld
<1>2. job[p] # Null
  BY OneHolder, HandlerAtWork DEF Agreement, RemovalInv
<1>3. UntouchedBefore(p)'
  BY <1>2 DEF Agreement, CountersAgree, PairAgrees, UntouchedBefore, NeverAnnounced
<1>4. OpenRowCounts(p)'
  <2>1. Answering(p)' <=> x # Null /\ x.stage = "answered"
    BY <1>1 DEF Answering, Holds
  <2>. QED  BY <2>1 DEF OpenRowCounts
<1>5. SettledRowRests(p)'
  BY DEF SettledRowRests
<1>6. ASSUME NEW k \in Handlers, Holds(k, p)' PROVE AttemptCounts(k, p)'
  BY <1>1, <1>6 DEF Holds
<1>. QED  BY <1>3, <1>4, <1>5, <1>6 DEF PairAgrees

(* What a handler at work knows of its pair, and of its job. *)
LEMMA HeldPairNow ==
  ASSUME Agreement, NEW h \in Handlers, handler[h] # Null,
         NEW p \in Pairs, p = handler[h].pair
  PROVE  /\ AttemptCounts(h, p) /\ PairAgrees(p) /\ posts[p] \in Nat
         /\ Answering(p) <=> handler[h].stage = "answered"
         /\ delivery[p] # Null => delivery[p] \in Delivery /\ delivery[p].count \in Nat
         /\ job[p] \in Job /\ job[p] # Null /\ job[p].state = "active" /\ job[p].made < MaxAttempts
         /\ job[p].made \in Nat /\ MaxAttempts \in Nat /\ handler[h].no \in Nat
         /\ HasRow(h) <=> delivery[p] # Null /\ handler[h].life = removals[p[2]]
<1>. USE DEF Agreement
<1>1. PairAgrees(p) /\ AttemptCounts(h, p)
  BY DEF CountersAgree, PairAgrees, Holds
<1>2. Answering(p) <=> handler[h].stage = "answered"
  BY OneHolder DEF Answering, Holds
<1>3. /\ job[p] \in Job /\ job[p] # Null /\ job[p].state = "active" /\ job[p].made < MaxAttempts
      /\ MaxAttempts \in Nat /\ handler[h].no \in Nat
  BY OneHolder, HandlerAtWork DEF RemovalInv
<1>4. job[p].made \in Nat
  BY <1>3, DeliveryAssumption DEF Job
<1>5. delivery[p] # Null => delivery[p] \in Delivery /\ delivery[p].count \in Nat
  BY ShapesNow DEF RemovalInv, DeliveryInv, Delivery
<1>. QED  BY <1>1, <1>2, <1>3, <1>4, <1>5 DEF RemovalInv, DeliveryInv, ShapesOK, HasRow

(* The job of a handler at work stays active while it goes on. *)
LEMMA HeldJobStays ==
  ASSUME Agreement, NEW h \in Handlers, handler[h] # Null, job' = job,
         NEW p \in Pairs, p = handler[h].pair
  PROVE  IsLive(p)' /\ ~InState(p, {"waiting", "delayed", "failed"})' /\ job'[p] # Null
BY HeldPairNow DEF IsLive, InState

(* The handler goes on, and row, requests and job stay as they are. *)
LEMMA HeldPairIdle ==
  ASSUME Agreement, NEW h \in Handlers, handler[h] # Null, NEW x \in Handling,
         handler' = [handler EXCEPT ![h] = x], NEW p \in Pairs, p = handler[h].pair,
         UNCHANGED <<removals, delivery, posts, job>>, x.pair = p,
         x.stage # "answered", handler[h].stage # "answered", AttemptCounts(h, p)'
  PROVE  PairAgrees(p)'
<1>1. PairAgrees(p) /\ ~Answering(p)
  BY HeldPairNow
<1>2. \A statuses : HasStatus(p, statuses)' <=> HasStatus(p, statuses)
  BY DEF HasStatus
<1>3. /\ posts'[p] <= MaxAttempts
      /\ HasStatus(p, Open)' => /\ delivery'[p].count < MaxAttempts /\ posts'[p] = delivery'[p].count
                                /\ job'[p].made <= delivery'[p].count
      /\ HasStatus(p, Settled)' => (delivery'[p].status = "DEAD" => posts'[p] = MaxAttempts)
  BY <1>1, <1>2, HeldPairNow DEF PairAgrees, OpenRowCounts, SettledRowRests
<1>4. IsLive(p)' /\ ~InState(p, {"waiting", "delayed", "failed"})' /\ job'[p] # Null
  BY HeldJobStays
<1>. QED  BY <1>3, <1>4, HeldPair

(* The job of a pair is taken. *)
LEMMA CountersOfTake ==
  ASSUME Agreement, Next, NEW h \in Handlers, NEW q \in Pairs, Take(h, q), NEW p \in Pairs
  PROVE  PairAgrees(p)'
<1>. USE DEF Agreement, RemovalInv
<1>. DEFINE x == Handle(q)
            j == [job[q] EXCEPT !.state = "active"]
<1>1. /\ UNCHANGED <<removals, delivery, posts, run>>
      /\ handler[h] = Null /\ handler' = [handler EXCEPT ![h] = x]
      /\ job' = [job EXCEPT ![q] = j] /\ InState(q, {"waiting"})
  BY DEF Take
<1>2. x.pair = q /\ x.stage = "taken"
  BY DEF Handle
<1>3. j \in Job /\ j # Null /\ j.state = "active" /\ j.made = job[q].made /\ job'[q] = j
  <2>1. job[q] \in Job
    BY <1>1, ShapesNow DEF InState, DeliveryInv
  <2>2. j \in Job /\ j.state = "active" /\ j.made = job[q].made
    BY <2>1 DEF Job
  <2>. QED  BY <1>1, <2>2, RecordsAreNotNull DEF DeliveryInv, ShapesOK
<1>. HIDE DEF x, j
<1>4. CASE p # q
  <2>1. delivery'[p] = delivery[p] /\ posts'[p] = posts[p] /\ job'[p] = job[p]
    BY <1>1, <1>4 DEF DeliveryInv, ShapesOK
  <2>. QED  BY <1>1, <1>2, <1>4, <2>1, OtherPairsKept DEF DeliveryInv
<1>5. CASE p = q
  <2>1. PairAgrees(p)
    BY DEF CountersAgree
  <2>2. \A k \in Handlers : ~Holds(k, p)
    <3>1. ~InState(p, {"active"})
      BY <1>1, <1>5 DEF InState
    <3>. QED  BY <3>1, NobodyHolds
  <2>3. ~HasStatus(p, Settled)
    BY <1>1, <1>5, <2>1 DEF PairAgrees, SettledRowRests, InState
  <2>4. HasStatus(p, Open) => /\ delivery[p].count < MaxAttempts /\ posts[p] = delivery[p].count
                              /\ job[p].made <= delivery[p].count
    BY <1>1, <1>5, <2>1, <2>2 DEF PairAgrees, OpenRowCounts, Answering, InState
  <2>5. \A k \in Handlers : handler'[k] = IF k = h THEN x ELSE handler[k]
    BY <1>1 DEF DeliveryInv, ShapesOK
  <2>6. \A k \in Handlers : Holds(k, p)' => k = h
    BY <2>2, <2>5 DEF Holds
  <2>7. AttemptCounts(h, p)'
    BY <1>1, <1>2, <2>3, <2>5 DEF AttemptCounts, HasStatus
  <2>8. UntouchedBefore(p)'
    BY <1>1, <1>5, <2>1 DEF PairAgrees, UntouchedBefore, NeverAnnounced, InState
  <2>9. OpenRowCounts(p)'
    BY <1>1, <1>3, <1>5, <2>4 DEF OpenRowCounts, HasStatus, IsLive, InState
  <2>10. SettledRowRests(p)'
    BY <1>1, <2>3 DEF SettledRowRests, HasStatus
  <2>. QED  BY <1>1, <2>1, <2>6, <2>7, <2>8, <2>9, <2>10 DEF PairAgrees
<1>. QED  BY <1>4, <1>5

(* The other pairs are not concerned. *)
LEMMA CountersOfOthers ==
  ASSUME Agreement, Next, NEW h \in Handlers, HandlerWorks(h), NEW p \in Pairs, p # handler[h].pair
  PROVE  PairAgrees(p)'
<1>. USE DEF Agreement, RemovalInv
<1>1. PICK x \in Handling : handler' = [handler EXCEPT ![h] = x] /\ x.pair = handler[h].pair
  BY HandlerKeepsPair DEF KeepsPair
<1>2. handler[h] # Null /\ handler[h].pair \in Pairs
  BY HandlerKeepsPair, ShapesNow DEF DeliveryInv
<1>3. delivery'[p] = delivery[p]
  <2>1. CASE UNCHANGED delivery
    BY <2>1
  <2>2. CASE Fail(h)
    BY <1>2, <2>2, FailWrites, UpdatedRows DEF DeliveryInv
  <2>3. CASE Record(h)
    BY <1>2, <2>3, RecordWrites, UpdatedRows DEF DeliveryInv
  <2>. QED  BY <2>1, <2>2, <2>3 DEF HandlerWorks, Find, Prepare, HandlerThrows, SkipHealth,
            LoadHealth, SaveHealth, Post
<1>4. posts'[p] = posts[p] /\ UNCHANGED <<job, run, removals>>
  BY <1>2 DEF HandlerWorks, Find, Prepare, Fail, Record, HandlerThrows, SkipHealth, LoadHealth,
     SaveHealth, Post, DeliveryInv, ShapesOK
<1>. QED  BY <1>1, <1>2, <1>3, <1>4, OtherPairsKept DEF DeliveryInv

(* The row is read. *)
LEMMA CountersOfFind ==
  ASSUME Agreement, NEW h \in Handlers, Find(h), NEW p \in Pairs, p = handler[h].pair
  PROVE  PairAgrees(p)'
<1>. USE DEF Agreement, RemovalInv, DeliveryInv
<1>1. /\ handler[h] # Null /\ handler[h] \in Handling /\ handler[h].stage = "taken"
      /\ UNCHANGED <<removals, delivery, posts, job>>
  BY OneHolder DEF Find, At
<1>2. /\ AttemptCounts(h, p) /\ PairAgrees(p) /\ ~Answering(p)
      /\ delivery[p] # Null => delivery[p] \in Delivery /\ delivery[p].count \in Nat
      /\ job[p] # Null /\ job[p].made \in Nat /\ MaxAttempts \in Nat
  BY <1>1, HeldPairNow
<1>3. CASE delivery[p] = Null
  <2>1. PICK x \in Handling : /\ handler' = [handler EXCEPT ![h] = x]
                              /\ x.pair = p /\ x.stage = "return"
    BY <1>1, <1>3, HandlerEnds DEF Find
  <2>2. handler'[h] = x
    BY <2>1 DEF ShapesOK
  <2>3. AttemptCounts(h, p)'
    BY <1>1, <1>3, <2>1, <2>2 DEF AttemptCounts, HasStatus
  <2>. QED  BY <1>1, <2>1, <2>3, HeldPairIdle
<1>4. CASE delivery[p] # Null
  <2>. DEFINE no == AttemptNo(p)
              x == [handler[h] EXCEPT !.stage = "read", !.no = no, !.life = removals[p[2]]]
  <2>1. no = delivery[p].count + 1 /\ no \in Nat /\ removals[p[2]] \in Nat
    BY <1>2, <1>4, ShapesNow DEF AttemptNo, ShapesOK
  <2>. HIDE DEF no
  <2>2. /\ x \in Handling /\ x.pair = p /\ x.stage = "read" /\ x.no = no /\ x.life = removals[p[2]]
    BY <1>1, <2>1 DEF Handling
  <2>3. handler' = [handler EXCEPT ![h] = x]
    BY <1>4 DEF Find, no
  <2>. HIDE DEF x
  <2>4. handler'[h] = x
    BY <2>2, <2>3 DEF ShapesOK
  <2>5. HasStatus(p, Open)
    BY <1>1, <1>2, <1>4 DEF AttemptCounts, HasStatus, Delivery
  <2>6. /\ delivery[p].count < MaxAttempts /\ posts[p] = delivery[p].count
        /\ job[p].made <= delivery[p].count
    BY <1>2, <2>5 DEF PairAgrees, OpenRowCounts
  <2>7. no <= MaxAttempts /\ job[p].made < no /\ posts[p] = no - 1 /\ delivery[p].count = no - 1
    BY <1>2, <1>4, <2>1, <2>6
  <2>8. AttemptCounts(h, p)'
    BY <1>1, <2>2, <2>4, <2>5, <2>7 DEF AttemptCounts, HasStatus
  <2>. QED  BY <1>1, <2>2, <2>3, <2>8, HeldPairIdle
<1>. QED  BY <1>3, <1>4

LEMMA CountersOfPrepare ==
  ASSUME Agreement, NEW h \in Handlers, Prepare(h), NEW p \in Pairs, p = handler[h].pair
  PROVE  PairAgrees(p)'
<1>. USE DEF Agreement, RemovalInv, DeliveryInv
<1>1. /\ handler[h] # Null /\ handler[h].stage = "read"
      /\ UNCHANGED <<removals, delivery, posts, job>>
  BY DEF Prepare, At
<1>2. PICK x \in Handling : /\ handler' = [handler EXCEPT ![h] = x] /\ x.stage = "post"
                            /\ x.pair = p /\ x.no = handler[h].no /\ x.life = handler[h].life
  BY <1>1, HandlerMoves DEF Prepare
<1>3. handler'[h] = x
  BY <1>2 DEF ShapesOK
<1>4. AttemptCounts(h, p)'
  BY <1>1, <1>2, <1>3, HeldPairNow DEF AttemptCounts, HasStatus
<1>. QED  BY <1>1, <1>2, <1>4, HeldPairIdle

(* The handler leaves the subscription's health, or writes it. *)
LEMMA CountersOfHealth ==
  ASSUME Agreement, NEW h \in Handlers, SkipHealth(h) \/ LoadHealth(h) \/ SaveHealth(h),
         NEW p \in Pairs, p = handler[h].pair
  PROVE  PairAgrees(p)'
<1>. USE DEF Agreement, RemovalInv, DeliveryInv
<1>1. /\ handler[h] # Null /\ handler[h] \in Handling /\ handler[h].stage \in {"settled", "retry"}
      /\ UNCHANGED <<removals, delivery, posts, job>>
  BY OneHolder DEF SkipHealth, LoadHealth, SaveHealth, InHealth, At
<1>2. AttemptCounts(h, p)
  BY <1>1, HeldPairNow
<1>3. ASSUME NEW st \in {"return", "throw"}, End(h, st), st = "return" => handler[h].stage = "settled",
             st = "throw" => handler[h].stage = "retry" \/ delivery[p] = Null
      PROVE  PairAgrees(p)'
  <2>1. PICK x \in Handling : /\ handler' = [handler EXCEPT ![h] = x]
                              /\ x.pair = p /\ x.stage = st
    BY <1>1, <1>3, HandlerEnds
  <2>2. handler'[h] = x
    BY <2>1 DEF ShapesOK
  <2>3. AttemptCounts(h, p)'
    BY <1>1, <1>2, <1>3, <2>1, <2>2 DEF AttemptCounts, HasStatus
  <2>. QED  BY <1>1, <2>1, <2>3, HeldPairIdle
<1>4. CASE SkipHealth(h) \/ SaveHealth(h)
  <2>1. End(h, Leave(h))
    BY <1>4 DEF SkipHealth, SaveHealth
  <2>. QED  BY <1>1, <1>3, <2>1 DEF Leave, At
<1>5. CASE LoadHealth(h) /\ subscription[p[2]] = "REMOVED"
  <2>1. End(h, "throw") /\ delivery[p] = Null
    BY <1>5 DEF LoadHealth, RemovedHaveNoRows
  <2>. QED  BY <1>3, <2>1
<1>6. CASE LoadHealth(h) /\ subscription[p[2]] # "REMOVED"
  <2>1. PICK patch \in Patches(handler[h].outcome, subscription[p[2]]) :
          handler' = [handler EXCEPT ![h].patch = patch]
    BY <1>6 DEF LoadHealth
  <2>2. patch \in {"ACTIVE", "DISABLED"}
    BY <1>1, <1>6, ShapesNow DEF Patches
  <2>. DEFINE x == [handler[h] EXCEPT !.patch = patch]
  <2>3. x \in Handling /\ x.pair = p /\ x.stage = handler[h].stage
    BY <1>1, <2>2 DEF Handling
  <2>4. handler' = [handler EXCEPT ![h] = x]
    BY <2>1
  <2>. HIDE DEF x
  <2>5. handler'[h] = x
    BY <2>4 DEF ShapesOK
  <2>6. AttemptCounts(h, p)'
    BY <1>1, <1>2, <2>3, <2>5 DEF AttemptCounts, HasStatus
  <2>. QED  BY <1>1, <2>3, <2>4, <2>6, HeldPairIdle
<1>. QED  BY <1>4, <1>5, <1>6

LEMMA CountersOfPost ==
  ASSUME Agreement, NEW h \in Handlers, NEW found \in Lookups, Post(h, found),
         NEW p \in Pairs, p = handler[h].pair
  PROVE  PairAgrees(p)'
<1>. USE DEF Agreement, RemovalInv, DeliveryInv
<1>1. /\ handler[h] # Null /\ handler[h] \in Handling /\ handler[h].stage = "post"
      /\ UNCHANGED <<removals, delivery, job>> /\ posts'[p] = posts[p] + 1
  BY OneHolder DEF Post, At, ShapesOK
<1>2. PICK reply \in Replies(found) :
        handler' = [handler EXCEPT ![h].stage = "answered", ![h].outcome = Classify(reply)]
  BY DEF Post
<1>. DEFINE x == [handler[h] EXCEPT !.stage = "answered", !.outcome = Classify(reply)]
<1>3. /\ x \in Handling /\ x.stage = "answered" /\ x.pair = p
      /\ x.no = handler[h].no /\ x.life = handler[h].life
  BY <1>1, ClassifyIsOutcome DEF Handling
<1>4. handler' = [handler EXCEPT ![h] = x]
  BY <1>2
<1>. HIDE DEF x
<1>5. x # Null /\ handler'[h] = x
  BY <1>3, <1>4, RecordsAreNotNull DEF ShapesOK
<1>6. /\ AttemptCounts(h, p) /\ PairAgrees(p)
      /\ job[p].made \in Nat /\ MaxAttempts \in Nat /\ handler[h].no \in Nat
  BY <1>1, HeldPairNow
<1>7. posts'[p] = handler[h].no /\ handler[h].no <= MaxAttempts
  BY <1>1, <1>6 DEF AttemptCounts
<1>8. AttemptCounts(h, p)'
  BY <1>1, <1>3, <1>5, <1>6, <1>7 DEF AttemptCounts, HasStatus
<1>9. \A statuses : HasStatus(p, statuses)' <=> HasStatus(p, statuses)
  BY <1>1 DEF HasStatus
<1>10. /\ HasStatus(p, Open)' => /\ delivery'[p].count < MaxAttempts
                                 /\ job'[p].made <= delivery'[p].count
       /\ ~HasStatus(p, Settled)'
  BY <1>1, <1>6, <1>9, HeldPairNow DEF PairAgrees, OpenRowCounts, AttemptCounts, HasStatus, Open, Settled
<1>11. IsLive(p)' /\ ~InState(p, {"waiting", "delayed", "failed"})' /\ job'[p] # Null
  BY <1>1, HeldJobStays
<1>. QED  BY <1>1, <1>3, <1>4, <1>5, <1>7, <1>8, <1>10, <1>11, HeldPair

LEMMA CountersOfFail ==
  ASSUME Agreement, NEW h \in Handlers, Fail(h), ~Fault("error"), NEW p \in Pairs, p = handler[h].pair
  PROVE  PairAgrees(p)'
<1>. USE DEF Agreement, RemovalInv, DeliveryInv
<1>1. handler[h] # Null /\ handler[h].stage = "read" /\ UNCHANGED <<removals, posts, job>>
  BY DEF Fail, At
<1>2. PICK x \in Handling : /\ handler' = [handler EXCEPT ![h] = x]
                            /\ x.pair = p /\ x.stage = "return"
  BY <1>1, HandlerEnds DEF Fail
<1>3. x # Null /\ handler'[h] = x
  BY <1>2, RecordsAreNotNull DEF ShapesOK
<1>4. PairAgrees(p) /\ AttemptCounts(h, p) /\ (delivery[p] # Null => HasRow(h))
  BY <1>1, HeldPairNow DEF AttemptCounts
<1>5. PICK d \in Delivery : d.status = "FAILED" /\ Update(h, d)
  BY FailWrites
<1>6. delivery'[p] = IF delivery[p] # Null THEN d ELSE Null
  BY <1>1, <1>4, <1>5, UpdatedRows DEF HasRow
<1>7. /\ ~HasStatus(p, Open)' /\ (delivery'[p] = Null => delivery[p] = Null)
      /\ delivery'[p] # Null => delivery'[p].status = "FAILED"
  BY <1>5, <1>6, RecordsAreNotNull DEF HasStatus, Open
<1>8. AttemptCounts(h, p)'
  BY <1>2, <1>3, <1>7 DEF AttemptCounts
<1>9. IsLive(p)' /\ ~InState(p, {"waiting", "delayed", "failed"})' /\ job'[p] # Null
  BY <1>1, HeldJobStays
<1>10. /\ posts'[p] <= MaxAttempts
       /\ HasStatus(p, Settled)' => (delivery'[p].status = "DEAD" => posts'[p] = MaxAttempts)
  BY <1>1, <1>4, <1>7 DEF PairAgrees, HasStatus
<1>. QED  BY <1>1, <1>2, <1>3, <1>7, <1>8, <1>9, <1>10, HeldPair

LEMMA CountersOfRecord ==
  ASSUME Agreement, NEW h \in Handlers, Record(h), NEW p \in Pairs, p = handler[h].pair
  PROVE  PairAgrees(p)'
<1>. USE DEF Agreement, RemovalInv, DeliveryInv
<1>. DEFINE no == handler[h].no
<1>1. handler[h] # Null /\ handler[h].stage = "answered" /\ UNCHANGED <<removals, posts, job>>
  BY DEF Record, At
<1>2. PICK d \in Delivery :
           /\ d.count = no
           /\ d.status \in Settled \cup {"RETRYING"}
           /\ d.status = "RETRYING" => no < MaxAttempts
           /\ d.status = "DEAD" => no >= MaxAttempts
           /\ Update(h, d)
           /\ \/ HasRow(h) /\ d.status = "RETRYING" /\ MoveTo(h, "retry")
              \/ HasRow(h) /\ d.status # "RETRYING" /\ MoveTo(h, "settled")
              \/ ~HasRow(h) /\ End(h, "throw")
  BY RecordWrites
<1>3. /\ posts'[p] = no /\ no <= MaxAttempts /\ job'[p].made < no
      /\ job'[p].made \in Nat /\ MaxAttempts \in Nat /\ no \in Nat
      /\ HasRow(h) <=> delivery[p] # Null
  BY <1>1, HeldPairNow DEF AttemptCounts
<1>4. PICK x \in Handling :
        /\ handler' = [handler EXCEPT ![h] = x] /\ x.pair = p
        /\ \/ x.stage = "retry" /\ delivery[p] # Null /\ d.status = "RETRYING"
           \/ x.stage = "settled" /\ delivery[p] # Null /\ d.status # "RETRYING"
           \/ x.stage = "throw" /\ delivery[p] = Null
  <2>1. CASE HasRow(h) /\ d.status = "RETRYING" /\ MoveTo(h, "retry")
    BY <1>1, <1>3, <2>1, HandlerMoves
  <2>2. CASE HasRow(h) /\ d.status # "RETRYING" /\ MoveTo(h, "settled")
    BY <1>1, <1>3, <2>2, HandlerMoves
  <2>3. CASE ~HasRow(h) /\ End(h, "throw")
    BY <1>1, <1>3, <2>3, HandlerEnds
  <2>. QED  BY <1>2, <2>1, <2>2, <2>3
<1>5. x # Null /\ handler'[h] = x
  BY <1>4, RecordsAreNotNull DEF ShapesOK
<1>6. delivery'[p] = IF delivery[p] # Null THEN d ELSE Null
  BY <1>1, <1>2, <1>3, UpdatedRows
<1>7. /\ delivery'[p] = Null => delivery[p] = Null
      /\ delivery'[p] # Null => delivery'[p] = d
  BY <1>6, RecordsAreNotNull
<1>8. AttemptCounts(h, p)'
  BY <1>2, <1>3, <1>4, <1>5, <1>6 DEF AttemptCounts, HasStatus, Open, Settled
<1>9. HasStatus(p, Open)' => /\ delivery'[p].count < MaxAttempts /\ posts'[p] = delivery'[p].count
                             /\ job'[p].made <= delivery'[p].count
  BY <1>2, <1>3, <1>7 DEF HasStatus, Open, Settled
<1>10. HasStatus(p, Settled)' => (delivery'[p].status = "DEAD" => posts'[p] = MaxAttempts)
  BY <1>2, <1>3, <1>7 DEF HasStatus
<1>11. IsLive(p)' /\ ~InState(p, {"waiting", "delayed", "failed"})' /\ job'[p] # Null
  BY <1>1, HeldJobStays
<1>. QED  BY <1>1, <1>3, <1>4, <1>7, <1>8, <1>9, <1>10, <1>11, HeldPair

(* BullMQ completes or delays the job; it never gives up an open row. *)
LEMMA CountersOfFinish ==
  ASSUME Agreement, Next, NEW h \in Handlers, Finish(h), NEW p \in Pairs
  PROVE  PairAgrees(p)'
<1>. USE DEF Agreement, RemovalInv, DeliveryInv
<1>. DEFINE q == handler[h].pair
<1>1. /\ handler[h] # Null /\ handler' = [handler EXCEPT ![h] = Null]
      /\ UNCHANGED <<removals, delivery, posts, run>>
      /\ handler[h].stage \in {"return", "throw"}
  BY DEF Finish, At
<1>2. q \in Pairs /\ handler[h].lock
  BY <1>1, OneHolder
<1>3. PICK j \in Job :
        /\ job' = [job EXCEPT ![q] = j]
        /\ \/ At(h, "throw") /\ j.made = job[q].made + 1
              /\ \/ j.state = "failed" /\ j.made >= MaxAttempts
                 \/ j.state = "delayed" /\ j.made < MaxAttempts
           \/ ~At(h, "throw") /\ j.state = "completed"
  BY <1>1, <1>2, JobFinished
<1>4. CASE p # q
  <2>1. delivery'[p] = delivery[p] /\ posts'[p] = posts[p] /\ job'[p] = job[p]
    BY <1>1, <1>2, <1>3, <1>4 DEF ShapesOK
  <2>. QED  BY <1>1, <1>2, <1>4, <2>1, OtherPairsKept
<1>5. CASE p = q
  <2>1. /\ AttemptCounts(h, p) /\ PairAgrees(p) /\ ~Answering(p)
        /\ job[p].made < MaxAttempts /\ job[p].made \in Nat /\ MaxAttempts \in Nat
        /\ delivery[p] # Null => delivery[p].count \in Nat
    BY <1>1, <1>5, HeldPairNow
  <2>2. job'[p] = j /\ j # Null
    BY <1>2, <1>3, <1>5, RecordsAreNotNull DEF ShapesOK
  <2>3. ASSUME HasStatus(p, Open)
        PROVE  job'[p].state = "delayed" /\ job'[p].made <= delivery[p].count
    <3>1. handler[h].stage = "throw" /\ job[p].made < delivery[p].count /\ delivery[p].count < MaxAttempts
      BY <1>1, <2>1, <2>3 DEF AttemptCounts, PairAgrees, OpenRowCounts, HasStatus
    <3>2. delivery[p].count \in Nat
      BY <2>1, <2>3 DEF HasStatus
    <3>3. j.made = job[p].made + 1 /\ (j.state = "delayed" \/ j.made >= MaxAttempts)
      BY <1>3, <1>5, <1>1, <3>1 DEF At
    <3>. QED  BY <2>1, <2>2, <3>1, <3>2, <3>3
  <2>4. ASSUME HasStatus(p, Settled) PROVE job'[p].state = "completed"
    <3>1. handler[h].stage # "throw"
      BY <2>1, <2>4 DEF AttemptCounts, HasStatus, Settled
    <3>. QED  BY <1>3, <2>2, <3>1 DEF At
  <2>5. \A statuses : HasStatus(p, statuses)' <=> HasStatus(p, statuses)
    BY <1>1 DEF HasStatus
  <2>6. HasStatus(p, Open)' => /\ delivery'[p].count < MaxAttempts /\ posts'[p] = delivery'[p].count
                               /\ IsLive(p)' /\ job'[p].made <= delivery'[p].count
    BY <1>1, <2>1, <2>2, <2>3, <2>5 DEF PairAgrees, OpenRowCounts, IsLive, InState
  <2>7. HasStatus(p, Settled)' =>
          /\ job'[p] # Null /\ ~InState(p, {"waiting", "delayed", "failed"})'
          /\ delivery'[p].status = "DEAD" => posts'[p] = MaxAttempts
    BY <1>1, <2>1, <2>2, <2>4, <2>5 DEF PairAgrees, SettledRowRests, InState
  <2>8. posts'[p] <= MaxAttempts /\ (delivery'[p] = Null => delivery[p] = Null)
    BY <1>1, <2>1 DEF PairAgrees
  <2>. QED  BY <1>1, <1>5, <2>6, <2>7, <2>8, HeldPair
<1>. QED  BY <1>4, <1>5

LEMMA CountersInit == Init => CountersInv
<1> SUFFICES ASSUME Init PROVE CountersInv
  OBVIOUS
<1>1. ASSUME NEW p \in Pairs PROVE PairAgrees(p)
  <2>1. delivery[p] = Null /\ job[p] = Null /\ posts[p] = 0
    BY DEF Init
  <2>2. ~InHand(p) /\ \A h \in Handlers : ~Holds(h, p)
    BY DEF Init, InHand, Holds
  <2>. QED  BY <2>1, <2>2, DeliveryAssumption
            DEF PairAgrees, UntouchedBefore, OpenRowCounts, SettledRowRests, HasStatus
<1>. QED  BY <1>1, RemovalInit DEF CountersInv, CountersAgree

LEMMA CountersStep == CountersInv /\ [Next]_vars => CountersInv'
<1> SUFFICES ASSUME CountersInv, [Next]_vars PROVE CountersInv'
  OBVIOUS
<1>1. RemovalInv /\ RemovalInv'
  BY RemovalStep DEF CountersInv
<1>2. CASE UNCHANGED vars
  BY <1>1, <1>2 DEF vars, CountersInv, Undisturbed, CountersAgree, PairAgrees, UntouchedBefore,
     NeverAnnounced, OpenRowCounts, SettledRowRests, AttemptCounts, Answering, InHand, Holds,
     HasStatus, IsLive, InState
<1>3. ASSUME Next, Undisturbed', NEW p \in Pairs PROVE PairAgrees(p)'
  <2>1. /\ Agreement
        /\ \A r \in Runners : ~CrashRun(r)
        /\ \A h \in Handlers : ~HandlerThrows(h) /\ ~CrashHandler(h) /\ ~Stall(h)
        /\ \A c \in Clients : ~Requeue(c) /\ \A q \in Pairs : ~Reset(c, q)
        /\ ~Fault("error")
    BY <1>1, <1>3, UndisturbedSteps DEF CountersInv, Agreement
  <2>2. CASE (\E e \in Events : Produce(e)) \/ SubsNext
    BY <1>3, <2>1, <2>2, CountersOutside
  <2>3. ASSUME NEW r \in Runners, StartRun(r) \/ RunStep(r) PROVE PairAgrees(p)'
    BY <1>3, <2>1, <2>3, CountersOfRuns, CountersOfDispatch, CountersOfAdding DEF RunStep
  <2>4. ASSUME NEW h \in Handlers, HandlerWorks(h) PROVE PairAgrees(p)'
    <3>1. CASE p # handler[h].pair
      BY <1>3, <2>1, <2>4, <3>1, CountersOfOthers
    <3>2. CASE p = handler[h].pair
      BY <1>3, <2>1, <2>4, <3>2, CountersOfFind, CountersOfPrepare, CountersOfHealth, CountersOfPost,
         CountersOfFail, CountersOfRecord DEF HandlerWorks
    <3>. QED  BY <3>1, <3>2
  <2>5. ASSUME NEW h \in Handlers, Finish(h) PROVE PairAgrees(p)'
    BY <1>3, <2>1, <2>5, CountersOfFinish
  <2>6. ASSUME NEW h \in Handlers, NEW q \in Pairs, Take(h, q) PROVE PairAgrees(p)'
    BY <1>3, <2>1, <2>6, CountersOfTake
  <2>7. ASSUME NEW q \in Pairs, Promote(q) \/ Elapse(q) \/ Expire(q) \/ Lose(q) PROVE PairAgrees(p)'
    BY <1>3, <2>1, <2>7, CountersOfQueue
  <2>. QED  BY <1>3, <2>1, <2>2, <2>3, <2>4, <2>5, <2>6, <2>7 DEF Next, HandlerStep, HandlerWorks, SubsNext
<1>4. CASE Next
  BY <1>1, <1>3, <1>4 DEF CountersInv, CountersAgree
<1>. QED  BY <1>2, <1>4

LEMMA MatchInit == Init => MatchInv
BY DeliveryInit DEF Init, MatchInv, SteadyAreActive, MatchesHold, NoSubscriberSkipped

(* A settled row is left alone: whoever writes a row holds an open one. *)
LEMMA SettledStep ==
  ASSUME CountersInv, Next, NEW p \in Pairs, HasStatus(p, Settled), Undisturbed, Undisturbed'
  PROVE  delivery'[p] \in {delivery[p], Null}
<1>. USE DEF CountersInv, Agreement
<1>1. /\ Agreement /\ RemovalInv /\ DeliveryInv /\ PairAgrees(p)
      /\ delivery[p] # Null /\ ~HasStatus(p, Open)
  BY DEF CountersAgree, RemovalInv, HasStatus, Settled, Open
<1>2. \A c \in Clients, q \in Pairs : ~Reset(c, q)
  BY <1>1, UndisturbedSteps
<1>3. ASSUME NEW h \in Handlers, Fail(h) \/ Record(h) PROVE delivery'[p] = delivery[p]
  <2>1. handler[h] # Null /\ handler[h].stage \in {"read", "answered"}
    BY <1>3 DEF Fail, Record, At
  <2>2. handler[h].pair # p
    BY <1>1, <2>1 DEF PairAgrees, Holds, AttemptCounts
  <2>. QED  BY <1>1, <1>3, <2>1, <2>2, FailWrites, RecordWrites, UpdatedRows DEF DeliveryInv
<1>4. ASSUME NEW q \in Pairs, Elapse(q) PROVE delivery'[p] = delivery[p]
  <2>1. p # q
    BY <1>1, <1>4 DEF Elapse
  <2>. QED  BY <1>1, <1>4, <2>1 DEF Elapse, DeliveryInv, ShapesOK
<1>5. ASSUME NEW r \in Runners, Dispatch(r) PROVE delivery'[p] = delivery[p]
  BY <1>1, <1>5 DEF Dispatch, Inserted
<1>6. ASSUME NEW s \in Subscriptions, Remove(s) PROVE delivery'[p] \in {delivery[p], Null}
  BY <1>6 DEF Remove
<1>. QED  BY <1>2, <1>3, <1>4, <1>5, <1>6, RowWriters

-----------------------------------------------------------------------------
(* The contract.                                                           *)

(* A pair that was never announced is in nobody's hands, also after        *)
(* replays, crashes, stalls and errors.                                    *)
Beforehand ==
  \A p \in Pairs : NeverAnnounced(p) =>
    /\ job[p] = Null /\ posts[p] = 0 /\ ~InHand(p)
    /\ (\A c \in Clients : replay[c] # p) /\ (\A h \in Handlers : ~Holds(h, p))

(* A run has matched only who asked for the event. *)
MatchedWanted ==
  \A r \in Runners : run[r] # Null /\ run[r].phase = "matched" =>
    \A s \in run[r].matched : s \in Subscriptions /\ Head(run[r].batch) \in Wants(s)

(* A handler has a status to save only after it has recorded the outcome. *)
PatchesAreLate ==
  \A h \in Handlers : handler[h] # Null /\ handler[h].patch # Null =>
    handler[h].stage \in {"settled", "retry"}

PromiseInv == CountersInv /\ Beforehand /\ MatchedWanted /\ PatchesAreLate

(* Only a removal counts. *)
LEMMA RemovalsGrow ==
  ASSUME DeliveryInv, Next
  PROVE  UNCHANGED removals \/ \E s \in Subscriptions : Remove(s)
BY SubscriptionWriters

(* Who was never announced was not announced before. *)
LEMMA NeverBefore ==
  ASSUME CountersInv, Next, NEW p \in Pairs, NeverAnnounced(p)'
  PROVE  NeverAnnounced(p)
<1>1. DeliveryInv /\ RemovalInv' /\ p[2] \in Subscriptions /\ removals[p[2]] \in Nat
  BY RemovalStep, ShapesNow DEF CountersInv, RemovalInv, DeliveryInv, ShapesOK
<1>2. removals[p[2]] = 0
  <2>1. ASSUME NEW s \in Subscriptions, Remove(s) PROVE removals[p[2]] = 0
    BY <1>1, <2>1, RemovedStatus DEF NeverAnnounced, DeliveryInv
  <2>. QED  BY <1>1, <2>1, RemovalsGrow DEF NeverAnnounced
<1>3. subscription'[p[2]] # "REMOVED"
  BY <1>1 DEF RemovalInv, RemovalsAreCounted, NeverAnnounced
<1>. QED  BY <1>1, <1>2, <1>3, RowsStay DEF NeverAnnounced

(* What a run newly takes in hand has a row. *)
LEMMA HandsTakeRows ==
  ASSUME DeliveryInv, NEW r \in Runners, StartRun(r) \/ RunStep(r) \/ CrashRun(r), NEW p \in Pairs,
         run'[r] # Null, p \in run'[r].todo
  PROVE  (run[r] # Null /\ p \in run[r].todo) \/ delivery'[p] # Null
<1>1. run = [q \in Runners |-> run[q]] /\ (run[r] # Null => run[r] = [f \in RunFields |-> run[r][f]])
  BY DEF DeliveryInv, ShapesOK, IsRun
<1>2. CASE StartRun(r) \/ DispatchFails(r) \/ BreakReconcile(r) \/ CrashRun(r)
  <2>1. run'[r] = Null \/ run'[r].todo = {}
    BY <1>1, <1>2 DEF StartRun, DispatchFails, SkipEvent, BreakReconcile, CrashRun
  <2>. QED  BY <2>1
<1>3. CASE Match(r)
  <2>1. /\ run[r] # Null
        /\ run' = [run EXCEPT ![r].phase = "matched",
                              ![r].matched = Matched(Head(run[r].batch))]
    BY <1>3 DEF Match
  <2>2. run'[r].todo = run[r].todo
    BY <1>1, <2>1 DEF RunFields
  <2>. QED  BY <2>1, <2>2
<1>4. CASE Dispatch(r)
  <2>. DEFINE row == [status |-> "PENDING", count |-> 0, due |-> TRUE]
  <2>1. p \in Inserted(Head(run[r].batch), run[r].matched)
    BY <1>1, <1>4 DEF Dispatch
  <2>2. delivery'[p] = row
    BY <1>4, <2>1 DEF Dispatch
  <2>3. row # Null
    BY FreshRow, RecordsAreNotNull
  <2>. QED  BY <2>2, <2>3
<1>5. CASE EndRelay(r)
  <2>1. run'[r].todo = Reconcilable
    BY <1>1, <1>5 DEF EndRelay
  <2>2. delivery[p] # Null
    BY <2>1 DEF Reconcilable, HasStatus
  <2>. QED  BY <1>5, <2>2 DEF EndRelay
<1>6. ASSUME NEW q \in Pairs, Enqueue(r, q) \/ Recheck(r, q)
      PROVE  run[r] # Null /\ p \in run[r].todo
  <2>1. CASE Enqueue(r, q)
    BY <1>1, <2>1 DEF Enqueue, RunFields
  <2>2. CASE Recheck(r, q)
    BY <1>1, <2>2 DEF Recheck, RunFields
  <2>. QED  BY <1>6, <2>1, <2>2
<1>. QED  BY <1>2, <1>3, <1>4, <1>5, <1>6 DEF RunStep

(* Who writes handlers. *)
LEMMA HandlerWriters ==
  ASSUME Next
  PROVE  \/ UNCHANGED handler
         \/ \E h \in Handlers :
              HandlerWorks(h) \/ Finish(h) \/ CrashHandler(h) \/ Stall(h) \/ \E p \in Pairs : Take(h, p)
BY DEF Next, HandlerStep, HandlerWorks, StartRun, RunStep, Match, Dispatch, DispatchFails, EndRelay,
   BreakReconcile, Enqueue, Recheck, CrashRun, Promote, Elapse, Expire, Lose, Produce, Remove,
   LoadEdit, SaveEdit, Requeue, Reset

(* Nobody touches what was never announced. *)
LEMMA BeforehandNext ==
  ASSUME PromiseInv, Next, NEW p \in Pairs, NeverAnnounced(p)'
  PROVE  (/\ job[p] = Null /\ posts[p] = 0 /\ ~InHand(p)
          /\ (\A c \in Clients : replay[c] # p) /\ (\A h \in Handlers : ~Holds(h, p)))'
<1>. USE DEF PromiseInv, CountersInv, RemovalInv, DeliveryInv
<1>1. /\ NeverAnnounced(p) /\ delivery[p] = Null /\ delivery'[p] = Null
      /\ job[p] = Null /\ posts[p] = 0 /\ ~InHand(p) /\ \A c \in Clients : replay[c] # p
  BY NeverBefore DEF NeverAnnounced, Beforehand
<1>2. \A h \in Handlers : handler[h] # Null => handler[h].pair # p /\ handler[h].pair \in Pairs
  BY <1>1, ShapesNow DEF Beforehand, Holds
<1>3. \A c \in Clients : replay'[c] # p
  <2>1. ASSUME NEW c \in Clients, NEW q \in Pairs, Reset(c, q) PROVE \A b \in Clients : replay'[b] # p
    BY <1>1, <2>1 DEF Reset, ShapesOK
  <2>2. ASSUME NEW c \in Clients, Requeue(c) PROVE \A b \in Clients : replay'[b] # p
    BY <1>1, <2>2, RecordsAreNotNull DEF Requeue, ShapesOK
  <2>3. \/ UNCHANGED replay
        \/ \E c \in Clients : Requeue(c) \/ \E q \in Pairs : Reset(c, q)
    BY DEF Next, HandlerStep, StartRun, RunStep, Match, Dispatch, DispatchFails, EndRelay,
       BreakReconcile, Enqueue, Recheck, CrashRun, CrashHandler, Stall, Find, Prepare, Fail, Record,
       Finish, HandlerThrows, SkipHealth, LoadHealth, SaveHealth, Take, Post, Promote, Elapse, Expire,
       Lose, Produce, Remove, LoadEdit, SaveEdit
  <2>. QED  BY <1>1, <2>1, <2>2, <2>3
<1>4. ~InHand(p)'
  <2> SUFFICES ASSUME NEW r \in Runners, run'[r] # Null, p \in run'[r].todo PROVE FALSE
    BY DEF InHand
  <2>1. CASE StartRun(r) \/ RunStep(r) \/ CrashRun(r)
    BY <1>1, <2>1, HandsTakeRows DEF InHand
  <2>2. CASE run'[r] = run[r]
    BY <1>1, <2>2 DEF InHand
  <2>. QED  BY <2>1, <2>2, RunsOnly, OtherRuns
<1>5. posts'[p] = 0
  <2>1. ASSUME NEW h \in Handlers, NEW found \in Lookups, Post(h, found) PROVE posts'[p] = 0
    <3>1. handler[h] # Null
      BY <2>1 DEF Post, At
    <3>. QED  BY <1>1, <1>2, <2>1, <3>1 DEF Post, ShapesOK
  <2>2. ASSUME NEW c \in Clients, NEW q \in Pairs, Reset(c, q) PROVE posts'[p] = 0
    BY <1>1, <2>2 DEF Reset, ShapesOK
  <2>3. \/ UNCHANGED posts
        \/ \E h \in Handlers, found \in Lookups : Post(h, found)
        \/ \E c \in Clients, q \in Pairs : Reset(c, q)
    BY DEF Next, RunStep, HandlerStep, Produce, LoadEdit, SaveEdit, Remove, StartRun, Match, Dispatch,
       DispatchFails, EndRelay, BreakReconcile, Enqueue, Recheck, CrashRun, Find, Prepare, Fail, Record,
       Finish, HandlerThrows, SkipHealth, LoadHealth, SaveHealth, CrashHandler, Stall, Take, Promote,
       Elapse, Expire, Lose, Requeue
  <2>. QED  BY <1>1, <2>1, <2>2, <2>3
<1>6. job'[p] = Null
  <2>1. ASSUME NEW r \in Runners, NEW q \in Pairs, Enqueue(r, q) \/ Recheck(r, q) PROVE job'[p] = Null
    <3>1. p # q
      BY <1>1, <2>1 DEF Enqueue, Recheck, InHand
    <3>. QED  BY <1>1, <2>1, <3>1 DEF Enqueue, Recheck, AddJob, ShapesOK
  <2>2. ASSUME NEW h \in Handlers, Finish(h) \/ CrashHandler(h) \/ Stall(h) PROVE job'[p] = Null
    <3>1. handler[h] # Null
      BY <2>2 DEF Finish, CrashHandler, Stall, At
    <3>. QED  BY <1>1, <1>2, <2>2, <3>1 DEF Finish, CrashHandler, Stall, LoseLock, ShapesOK
  <2>3. ASSUME NEW q \in Pairs,
               Promote(q) \/ Expire(q) \/ Lose(q) \/ \E h \in Handlers : Take(h, q)
        PROVE  job'[p] = Null
    <3>1. p # q
      BY <1>1, <2>3 DEF Promote, Expire, Lose, Take, InState
    <3>. QED  BY <1>1, <2>3, <3>1 DEF Promote, Expire, Lose, Take, ShapesOK
  <2>4. ASSUME NEW c \in Clients, Requeue(c) PROVE job'[p] = Null
    BY <1>1, <2>4 DEF Requeue, ShapesOK
  <2>5. \/ UNCHANGED job
        \/ \E r \in Runners, q \in Pairs : Enqueue(r, q) \/ Recheck(r, q)
        \/ \E h \in Handlers : Finish(h) \/ CrashHandler(h) \/ Stall(h)
        \/ \E q \in Pairs : Promote(q) \/ Expire(q) \/ Lose(q) \/ \E h \in Handlers : Take(h, q)
        \/ \E c \in Clients : Requeue(c)
    BY DEF Next, RunStep, HandlerStep, Produce, LoadEdit, SaveEdit, Remove, StartRun, Match, Dispatch,
       DispatchFails, EndRelay, BreakReconcile, CrashRun, Find, Prepare, Fail, Record, HandlerThrows,
       SkipHealth, LoadHealth, SaveHealth, Post, Elapse, Reset
  <2>. QED  BY <1>1, <2>1, <2>2, <2>3, <2>4, <2>5
<1>7. ASSUME NEW h \in Handlers, Holds(h, p)' PROVE FALSE
  <2>1. ASSUME NEW k \in Handlers, HandlerWorks(k) PROVE FALSE
    <3>1. handler[k] # Null /\ KeepsPair(k)
      BY <2>1, HandlerKeepsPair
    <3>. QED  BY <1>2, <1>7, <3>1 DEF KeepsPair, Holds, ShapesOK
  <2>2. ASSUME NEW k \in Handlers, Finish(k) \/ CrashHandler(k) PROVE FALSE
    BY <1>2, <1>7, <2>2 DEF Finish, CrashHandler, Holds, ShapesOK
  <2>3. ASSUME NEW k \in Handlers, Stall(k) PROVE FALSE
    <3>1. handler[k] \in Handling /\ handler' = [handler EXCEPT ![k].lock = FALSE] /\ handler[k] # Null
      BY <2>3, ShapesNow DEF Stall
    <3>2. [handler[k] EXCEPT !.lock = FALSE].pair = handler[k].pair
      BY <3>1 DEF Handling
    <3>. QED  BY <1>2, <1>7, <3>1, <3>2 DEF Holds, ShapesOK
  <2>4. ASSUME NEW k \in Handlers, NEW q \in Pairs, Take(k, q) PROVE FALSE
    <3>1. p # q
      BY <1>1, <2>4 DEF Take, InState
    <3>2. Handle(q).pair = q
      BY DEF Handle
    <3>. QED  BY <1>2, <1>7, <2>4, <3>1, <3>2 DEF Take, Holds, ShapesOK
  <2>. QED  BY <1>2, <1>7, <2>1, <2>2, <2>3, <2>4, HandlerWriters DEF Holds
<1>. QED  BY <1>3, <1>4, <1>5, <1>6, <1>7

LEMMA MatchedWantedNext ==
  ASSUME PromiseInv, Next
  PROVE  MatchedWanted'
<1>. USE DEF PromiseInv, CountersInv, RemovalInv
<1> SUFFICES ASSUME NEW r \in Runners, run'[r] # Null, run'[r].phase = "matched",
                    NEW s \in run'[r].matched
             PROVE  s \in Subscriptions /\ Head(run'[r].batch) \in Wants(s)
  BY DEF MatchedWanted
<1>1. CASE StartRun(r) \/ RunStep(r) \/ CrashRun(r)
  <2>1. run'[r].batch = run[r].batch /\ run'[r].matched = Matched(Head(run[r].batch))
    BY <1>1, MatchedByMatch DEF DeliveryInv
  <2>. QED  BY <2>1 DEF Matched, FindActive
<1>2. CASE run'[r] = run[r]
  BY <1>2 DEF MatchedWanted
<1>. QED  BY <1>1, <1>2, RunsOnly, OtherRuns DEF DeliveryInv

(* When a handler has a status to save, and when no more. *)
PatchMove(h, x) ==
  \/ x.patch = Null /\ handler[h].patch = Null
  \/ /\ LoadHealth(h) /\ subscription[handler[h].pair[2]] # "REMOVED"
     /\ x.stage \in {"settled", "retry"}
  \/ (SaveHealth(h) \/ HandlerThrows(h)) /\ x.patch = Null

LEMMA PatchMoves ==
  ASSUME DeliveryInv, PatchesAreLate, NEW h \in Handlers, HandlerWorks(h)
  PROVE  /\ handler[h] # Null
         /\ \E x \in Handling : /\ handler' = [handler EXCEPT ![h] = x]
                               /\ x.pair = handler[h].pair /\ PatchMove(h, x)
<1>. USE DEF DeliveryInv
<1>. DEFINE Moved == \E x \in Handling : /\ handler' = [handler EXCEPT ![h] = x]
                                       /\ x.pair = handler[h].pair /\ PatchMove(h, x)
<1>1. handler[h] # Null /\ handler[h] \in Handling
  BY HandlerKeepsPair
<1>2. handler[h].patch # Null => handler[h].stage \in {"settled", "retry"}
  BY <1>1 DEF PatchesAreLate
<1>3. ASSUME NEW st \in {"return", "throw"}, End(h, st),
             handler[h].patch = Null \/ SaveHealth(h) \/ HandlerThrows(h)
      PROVE  Moved
  BY <1>1, <1>3, HandlerEnds DEF PatchMove
<1>4. ASSUME NEW st \in {"post", "settled", "retry"}, MoveTo(h, st), handler[h].patch = Null
      PROVE  Moved
  BY <1>1, <1>4, HandlerMoves DEF PatchMove
<1>5. ASSUME Find(h) PROVE Moved
  <2>1. handler[h].patch = Null
    BY <1>2, <1>5 DEF Find, At
  <2>2. CASE delivery[handler[h].pair] = Null
    BY <1>3, <1>5, <2>1, <2>2 DEF Find
  <2>3. CASE delivery[handler[h].pair] # Null
    <3>1. PICK x \in Handling : handler' = [handler EXCEPT ![h] = x] /\ x.pair = handler[h].pair
      BY <1>5, HandlerKeepsPair DEF KeepsPair
    <3>2. handler'[h] = x
      BY <3>1 DEF ShapesOK
    <3>3. handler'[h].patch = Null
      <4>. DEFINE p == handler[h].pair
                  y == [handler[h] EXCEPT !.stage = "read", !.no = AttemptNo(p), !.life = removals[p[2]]]
      <4>1. y.patch = Null
        BY <1>1, <2>1 DEF Handling
      <4>2. handler' = [handler EXCEPT ![h] = y]
        BY <1>5, <2>3 DEF Find
      <4>. HIDE DEF y
      <4>. QED  BY <4>1, <4>2 DEF ShapesOK
    <3>. QED  BY <2>1, <3>1, <3>2, <3>3 DEF PatchMove
  <2>. QED  BY <2>2, <2>3
<1>6. ASSUME Prepare(h) PROVE Moved
  BY <1>2, <1>4, <1>6 DEF Prepare, At
<1>7. ASSUME Fail(h) PROVE Moved
  BY <1>2, <1>3, <1>7 DEF Fail, At
<1>8. ASSUME Record(h) PROVE Moved
  <2>1. handler[h].patch = Null
    BY <1>2, <1>8 DEF Record, At
  <2>2. CASE \E st \in {"settled", "retry"} : MoveTo(h, st)
    BY <1>4, <2>1, <2>2
  <2>3. CASE End(h, "throw")
    BY <1>3, <2>1, <2>3
  <2>. QED  BY <1>8, <2>2, <2>3, RecordWrites
<1>9. ASSUME HandlerThrows(h) \/ SkipHealth(h) \/ SaveHealth(h) PROVE Moved
  <2>1. \E st \in {"return", "throw"} : End(h, st)
    BY <1>9 DEF HandlerThrows, SkipHealth, SaveHealth, Leave
  <2>. QED  BY <1>3, <1>9, <2>1 DEF SkipHealth
<1>10. ASSUME LoadHealth(h) PROVE Moved
  <2>1. CASE subscription[handler[h].pair[2]] = "REMOVED"
    BY <1>3, <1>10, <2>1 DEF LoadHealth
  <2>2. CASE subscription[handler[h].pair[2]] # "REMOVED"
    <3>1. PICK patch \in Patches(handler[h].outcome, subscription[handler[h].pair[2]]) :
            handler' = [handler EXCEPT ![h].patch = patch]
      BY <1>10, <2>2 DEF LoadHealth
    <3>2. patch \in {"ACTIVE", "DISABLED"} /\ handler[h].stage \in {"settled", "retry"}
      BY <1>1, <1>10, <2>2, ShapesNow DEF Patches, LoadHealth, InHealth, At
    <3>. DEFINE x == [handler[h] EXCEPT !.patch = patch]
    <3>3. x \in Handling /\ x.pair = handler[h].pair /\ x.stage = handler[h].stage
      BY <1>1, <3>2 DEF Handling
    <3>4. handler' = [handler EXCEPT ![h] = x]
      BY <3>1
    <3>. HIDE DEF x
    <3>5. PatchMove(h, x)
      BY <1>10, <2>2, <3>2, <3>3 DEF PatchMove
    <3>. QED  BY <3>3, <3>4, <3>5
  <2>. QED  BY <2>1, <2>2
<1>11. ASSUME NEW found \in Lookups, Post(h, found) PROVE Moved
  <2>1. handler[h].patch = Null
    BY <1>2, <1>11 DEF Post, At
  <2>2. PICK reply \in Replies(found) :
          handler' = [handler EXCEPT ![h].stage = "answered", ![h].outcome = Classify(reply)]
    BY <1>11 DEF Post
  <2>. DEFINE x == [handler[h] EXCEPT !.stage = "answered", !.outcome = Classify(reply)]
  <2>3. x \in Handling /\ x.pair = handler[h].pair /\ x.patch = Null
    BY <1>1, <2>1, ClassifyIsOutcome DEF Handling
  <2>4. handler' = [handler EXCEPT ![h] = x]
    BY <2>2
  <2>. HIDE DEF x
  <2>. QED  BY <2>1, <2>3, <2>4 DEF PatchMove
<1>. HIDE DEF Moved
<1>12. Moved
  BY <1>5, <1>6, <1>7, <1>8, <1>9, <1>10, <1>11 DEF HandlerWorks
<1>. QED  BY <1>1, <1>12 DEF Moved

LEMMA PatchesAreLateNext ==
  ASSUME DeliveryInv, PatchesAreLate, Next
  PROVE  PatchesAreLate'
<1>. USE DEF DeliveryInv
<1> SUFFICES ASSUME NEW h \in Handlers, handler'[h] # Null, handler'[h].patch # Null
             PROVE  handler'[h].stage \in {"settled", "retry"}
  BY DEF PatchesAreLate
<1>1. CASE handler'[h] = handler[h]
  BY <1>1 DEF PatchesAreLate
<1>2. CASE HandlerWorks(h)
  <2>1. PICK x \in Handling : handler' = [handler EXCEPT ![h] = x] /\ PatchMove(h, x)
    BY <1>2, PatchMoves
  <2>2. handler'[h] = x
    BY <2>1 DEF ShapesOK
  <2>. QED  BY <2>1, <2>2 DEF PatchMove
<1>3. CASE Finish(h) \/ CrashHandler(h)
  BY <1>3 DEF Finish, CrashHandler, ShapesOK
<1>4. CASE Stall(h)
  <2>. DEFINE x == [handler[h] EXCEPT !.lock = FALSE]
  <2>1. handler[h] # Null /\ handler[h] \in Handling /\ handler' = [handler EXCEPT ![h] = x]
    BY <1>4, ShapesNow DEF Stall
  <2>2. x.patch = handler[h].patch /\ x.stage = handler[h].stage
    BY <2>1 DEF Handling
  <2>. HIDE DEF x
  <2>. QED  BY <2>1, <2>2 DEF PatchesAreLate, ShapesOK
<1>5. ASSUME NEW p \in Pairs, Take(h, p) PROVE FALSE
  <2>1. Handle(p).patch = Null
    BY DEF Handle
  <2>. QED  BY <1>5, <2>1 DEF Take, ShapesOK
<1>6. ASSUME NEW k \in Handlers, k # h,
             \/ HandlerWorks(k) \/ Finish(k) \/ CrashHandler(k) \/ Stall(k)
             \/ \E p \in Pairs : Take(k, p)
      PROVE  handler'[h] = handler[h]
  <2>1. CASE HandlerWorks(k)
    BY <1>6, <2>1, HandlerKeepsPair DEF KeepsPair, ShapesOK
  <2>2. CASE Finish(k) \/ CrashHandler(k) \/ Stall(k) \/ \E p \in Pairs : Take(k, p)
    BY <1>6, <2>2 DEF Finish, CrashHandler, Stall, Take, ShapesOK
  <2>. QED  BY <1>6, <2>1, <2>2
<1>. QED  BY <1>1, <1>2, <1>3, <1>4, <1>5, <1>6, HandlerWriters

LEMMA PromiseInit == Init => PromiseInv
<1> SUFFICES ASSUME Init PROVE PromiseInv
  OBVIOUS
<1>1. Beforehand /\ MatchedWanted /\ PatchesAreLate
  BY RecordsAreNotNull DEF Init, Beforehand, MatchedWanted, PatchesAreLate, InHand, Holds
<1>. QED  BY <1>1, CountersInit DEF PromiseInv

LEMMA PromiseStep == PromiseInv /\ [Next]_vars => PromiseInv'
<1> SUFFICES ASSUME PromiseInv, [Next]_vars PROVE PromiseInv'
  OBVIOUS
<1>1. CountersInv' /\ DeliveryInv
  BY CountersStep DEF PromiseInv, CountersInv, RemovalInv
<1>2. CASE UNCHANGED vars
  BY <1>1, <1>2 DEF vars, PromiseInv, Beforehand, MatchedWanted, PatchesAreLate, InHand, Holds,
     NeverAnnounced
<1>3. CASE Next
  <2>1. Beforehand'
    BY <1>3, BeforehandNext DEF Beforehand
  <2>. QED  BY <1>1, <1>3, <2>1, MatchedWantedNext, PatchesAreLateNext DEF PromiseInv
<1>. QED  BY <1>2, <1>3

(* The letter of a pair, read off its row and the removals. *)
LEMMA LetterRead ==
  ASSUME ShapesOK, NEW p \in Pairs
  PROVE  /\ LettersNow[p] = LetterOf(p)
         /\ LetterOf(p) = "none" <=> NeverAnnounced(p)
         /\ delivery[p] = Null <=> LetterOf(p) \in {"none", "withdrawn"}
         /\ HasStatus(p, Open) => LetterOf(p) = "open"
         /\ delivery[p] # Null /\ ~HasStatus(p, Open) => LetterOf(p) = delivery[p].status
<1>1. delivery[p] # Null => delivery[p].status \in Open \cup Settled
  BY ShapesNow DEF Delivery
<1>2. removals[p[2]] \in Nat
  BY ShapesNow DEF ShapesOK
<1>. QED  BY <1>1, <1>2 DEF LettersNow, LetterOf, NeverAnnounced, HasStatus, Open, Settled

LEMMA LetterKept ==
  ASSUME NEW p \in Pairs, delivery'[p] = Null <=> delivery[p] = Null,
         delivery'[p].status = delivery[p].status, removals'[p[2]] = removals[p[2]]
  PROVE  LetterOf(p)' = LetterOf(p)
<1>1. HasStatus(p, Open)' <=> HasStatus(p, Open)
  BY DEF HasStatus
<1>. QED  BY <1>1 DEF LetterOf

(* How a subscription that is gone goes on while somebody has a copy. *)
ListMove(s) ==
  \/ ListedAs(s)' = ListedAs(s)
  \/ ListedAs(s) = "leaving" /\ ListedAs(s)' = "gone"
  \/ ListedAs(s) = "leaving" /\ ListedAs(s)' = "present" /\ ~Undisturbed'

ListMoves ==
  \/ ListNow' = ListNow
  \/ \E s \in Subscriptions : ListNow[s] = "leaving" /\ ListNow' = [ListNow EXCEPT ![s] = "gone"]
  \/ \E s \in Subscriptions :
       ListNow[s] = "leaving" /\ ListNow' = [ListNow EXCEPT ![s] = "present"] /\ ~Undisturbed'

LEMMA OneListed ==
  ASSUME NEW s \in Subscriptions, ListMove(s),
         \A t \in Subscriptions : t # s => ListedAs(t)' = ListedAs(t)
  PROVE  ListMoves
<1>1. ListNow[s] = ListedAs(s)
  BY DEF ListNow
<1>2. CASE ListedAs(s)' = ListedAs(s)
  BY <1>2 DEF ListMoves, ListNow
<1>3. ASSUME NEW left, ListedAs(s)' = left PROVE ListNow' = [ListNow EXCEPT ![s] = left]
  BY <1>3 DEF ListNow
<1>. QED  BY <1>1, <1>2, <1>3 DEF ListMoves, ListMove

LEMMA ListedKept ==
  ASSUME NEW s \in Subscriptions, subscription'[s] = subscription[s], Copied(s)' <=> Copied(s)
  PROVE  ListedAs(s)' = ListedAs(s)
BY DEF ListedAs

Patched(h, s) == handler[h] # Null /\ handler[h].patch # Null /\ handler[h].pair[2] = s

(* Copies come and go with edits and handlers. *)
LEMMA CopiesOfHandler ==
  ASSUME ShapesOK, UNCHANGED edit, NEW h \in Handlers, NEW x, handler' = [handler EXCEPT ![h] = x],
         NEW s \in Subscriptions, Patched(h, s)' => Patched(h, s)
  PROVE  /\ Copied(s)' => Copied(s)
         /\ ~Patched(h, s) \/ Patched(h, s)' => (Copied(s)' <=> Copied(s))
<1>1. \A k \in Handlers : k # h => handler'[k] = handler[k]
  BY DEF ShapesOK
<1>. QED  BY <1>1 DEF Copied, Patched

LEMMA CopiesOfClient ==
  ASSUME ShapesOK, UNCHANGED handler, NEW c \in Clients, NEW x, edit' = [edit EXCEPT ![c] = x],
         NEW s \in Subscriptions, edit[c] = Null \/ edit[c].sub # s, x = Null \/ x.sub # s
  PROVE  Copied(s)' <=> Copied(s)
<1>1. \A b \in Clients : edit'[b] = IF b = c THEN x ELSE edit[b]
  BY DEF ShapesOK
<1>. QED  BY <1>1 DEF Copied

(* A handler drops the status it was about to save. *)
LEMMA CopyDropped ==
  ASSUME ShapesOK, UNCHANGED <<subscription, edit>>, NEW h \in Handlers, handler[h] # Null, NEW x,
         x = Null \/ x.patch = Null, handler' = [handler EXCEPT ![h] = x]
  PROVE  ListMoves /\ (handler[h].patch = Null => ListNow' = ListNow)
<1>0. PICK s : s = handler[h].pair[2]
  OBVIOUS
<1>1. handler'[h] = x /\ s \in Subscriptions
  BY <1>0, ShapesNow DEF ShapesOK
<1>2. \A t : ~Patched(h, t)'
  BY <1>1 DEF Patched
<1>3. \A t : t # s \/ handler[h].patch = Null => ~Patched(h, t)
  BY <1>0 DEF Patched
<1>4. ASSUME NEW t \in Subscriptions, t # s \/ handler[h].patch = Null
      PROVE  ListedAs(t)' = ListedAs(t)
  BY <1>2, <1>3, <1>4, CopiesOfHandler, ListedKept
<1>5. ListMove(s)
  <2>1. Copied(s)' => Copied(s)
    BY <1>1, <1>2, CopiesOfHandler
  <2>. QED  BY <2>1 DEF ListMove, ListedAs
<1>6. ListMoves
  BY <1>1, <1>4, <1>5, OneListed
<1>7. handler[h].patch = Null => ListNow' = ListNow
  BY <1>4 DEF ListNow
<1>. QED  BY <1>6, <1>7

(* A copy is saved. *)
LEMMA CopySaved ==
  ASSUME ShapesOK, NEW s \in Subscriptions, Copied(s), NEW status \in {"ACTIVE", "DISABLED"},
         SaveStatus(s, status), \A t \in Subscriptions : t # s => (Copied(t)' <=> Copied(t))
  PROVE  ListMoves
<1>1. /\ \A t \in Subscriptions : subscription'[t] = IF t = s THEN status ELSE subscription[t]
      /\ spent'.calm => subscription[s] # "REMOVED"
  BY SavedStatus
<1>2. \A t \in Subscriptions : t # s => ListedAs(t)' = ListedAs(t)
  BY <1>1, ListedKept
<1>3. ListMove(s)
  <2>1. subscription'[s] # "REMOVED"
    BY <1>1
  <2>2. ListedAs(s)' = "present"
    BY <2>1 DEF ListedAs
  <2>. QED  BY <1>1, <2>2 DEF ListMove, ListedAs, Undisturbed
<1>. QED  BY <1>2, <1>3, OneListed

(* How a handler's work shows in the list. *)
LEMMA HandlerKeepsList ==
  ASSUME PromiseInv, NEW h \in Handlers, HandlerWorks(h)
  PROVE  ListMoves /\ (Fail(h) \/ Record(h) \/ (\E found \in Lookups : Post(h, found)) => ListNow' = ListNow)
<1>. USE DEF PromiseInv, CountersInv, RemovalInv, DeliveryInv
<1>0. PICK s : s = handler[h].pair[2]
  OBVIOUS
<1>1. /\ handler[h] # Null /\ s \in Subscriptions
  BY <1>0, HandlerKeepsPair, ShapesNow
<1>2. PICK x \in Handling : /\ handler' = [handler EXCEPT ![h] = x]
                            /\ x.pair = handler[h].pair /\ PatchMove(h, x)
  BY PatchMoves
<1>3. UNCHANGED edit /\ (SaveHealth(h) \/ UNCHANGED subscription)
  BY DEF HandlerWorks, Find, Prepare, Fail, Record, HandlerThrows, SkipHealth, LoadHealth, SaveHealth, Post
<1>4. handler'[h] = x
  BY <1>2 DEF ShapesOK
<1>5. CASE SaveHealth(h)
  <2>1. /\ handler[h].patch \in {"ACTIVE", "DISABLED"} /\ SaveStatus(s, handler[h].patch)
        /\ handler[h].patch # Null
    BY <1>0, <1>5, PatchesAreStatuses DEF SaveHealth
  <2>2. Copied(s)
    BY <1>0, <1>1, <2>1 DEF Copied
  <2>3. ASSUME NEW t \in Subscriptions, t # s PROVE Copied(t)' <=> Copied(t)
    <3>1. ~Patched(h, t) /\ ~Patched(h, t)'
      BY <1>0, <1>2, <1>4, <2>3 DEF Patched
    <3>. QED  BY <1>2, <1>3, <3>1, CopiesOfHandler
  <2>4. ListMoves
    BY <1>1, <2>1, <2>2, <2>3, CopySaved
  <2>5. ~Fail(h) /\ ~Record(h) /\ \A found \in Lookups : ~Post(h, found)
    BY <1>5 DEF SaveHealth, Fail, Record, Post, InHealth, At
  <2>. QED  BY <2>4, <2>5
<1>6. CASE ~SaveHealth(h) /\ x.patch = Null
  <2>1. ListMoves /\ (handler[h].patch = Null => ListNow' = ListNow)
    BY <1>1, <1>2, <1>3, <1>6, CopyDropped
  <2>2. Fail(h) \/ Record(h) \/ (\E found \in Lookups : Post(h, found)) => handler[h].patch = Null
    BY <1>1 DEF PatchesAreLate, Fail, Record, Post, At
  <2>. QED  BY <2>1, <2>2
<1>7. CASE ~SaveHealth(h) /\ x.patch # Null
  <2>1. LoadHealth(h) /\ subscription[s] # "REMOVED"
    BY <1>0, <1>2, <1>7 DEF PatchMove
  <2>2. ASSUME NEW t \in Subscriptions PROVE ListedAs(t)' = ListedAs(t)
    <3>1. CASE t = s
      BY <1>3, <1>7, <2>1, <3>1 DEF ListedAs
    <3>2. CASE t # s
      <4>1. ~Patched(h, t) /\ ~Patched(h, t)'
        BY <1>0, <1>2, <1>4, <3>2 DEF Patched
      <4>. QED  BY <1>2, <1>3, <1>7, <4>1, CopiesOfHandler, ListedKept
    <3>. QED  BY <3>1, <3>2
  <2>3. ListNow' = ListNow
    BY <2>2 DEF ListNow
  <2>. QED  BY <2>3 DEF ListMoves
<1>. QED  BY <1>3, <1>5, <1>6, <1>7

(* Neither does anybody else bring a subscription back, but an edit. *)
LEMMA OthersMoveList ==
  ASSUME PromiseInv, Next, \A s \in Subscriptions : ~Remove(s)
  PROVE  ListMoves
<1>. USE DEF PromiseInv, CountersInv, RemovalInv, DeliveryInv
<1>1. CASE UNCHANGED <<subscription, edit, handler>>
  <2>1. \A t \in Subscriptions : ListedAs(t)' = ListedAs(t)
    BY <1>1, ListedKept DEF Copied
  <2>. QED  BY <2>1 DEF ListNow, ListMoves
<1>2. ASSUME NEW h \in Handlers, HandlerWorks(h) PROVE ListMoves
  BY <1>2, HandlerKeepsList
<1>3. ASSUME NEW h \in Handlers, Finish(h) \/ CrashHandler(h) PROVE ListMoves
  <2>1. /\ handler[h] # Null /\ handler' = [handler EXCEPT ![h] = Null]
        /\ UNCHANGED <<subscription, edit>>
    BY <1>3 DEF Finish, CrashHandler, At
  <2>. QED  BY <2>1, CopyDropped
<1>4. ASSUME NEW h \in Handlers, Stall(h) PROVE ListMoves
  <2>. DEFINE x == [handler[h] EXCEPT !.lock = FALSE]
  <2>1. /\ handler[h] # Null /\ handler[h] \in Handling /\ handler' = [handler EXCEPT ![h] = x]
        /\ UNCHANGED <<subscription, edit>>
    BY <1>4, ShapesNow DEF Stall
  <2>2. x.patch = handler[h].patch /\ x.pair = handler[h].pair /\ x # Null
    BY <2>1, RecordsAreNotNull DEF Handling
  <2>. HIDE DEF x
  <2>3. handler'[h] = x
    BY <2>1 DEF ShapesOK
  <2>4. \A t \in Subscriptions : Patched(h, t)' <=> Patched(h, t)
    BY <2>1, <2>2, <2>3 DEF Patched
  <2>5. \A t \in Subscriptions : ListedAs(t)' = ListedAs(t)
    BY <2>1, <2>4, CopiesOfHandler, ListedKept
  <2>. QED  BY <2>5 DEF ListNow, ListMoves
<1>5. ASSUME NEW h \in Handlers, NEW p \in Pairs, Take(h, p) PROVE ListMoves
  <2>1. /\ handler[h] = Null /\ handler' = [handler EXCEPT ![h] = Handle(p)]
        /\ UNCHANGED <<subscription, edit>> /\ Handle(p).patch = Null
    BY <1>5 DEF Take, Handle
  <2>2. handler'[h] = Handle(p)
    BY <2>1 DEF ShapesOK
  <2>3. \A t \in Subscriptions : ~Patched(h, t)' /\ ~Patched(h, t)
    BY <2>1, <2>2 DEF Patched
  <2>4. \A t \in Subscriptions : ListedAs(t)' = ListedAs(t)
    BY <2>1, <2>3, CopiesOfHandler, ListedKept
  <2>. QED  BY <2>4 DEF ListNow, ListMoves
<1>6. ASSUME NEW c \in Clients, NEW s \in Subscriptions, LoadEdit(c, s) PROVE ListMoves
  <2>1. PICK status \in {"ACTIVE", "DISABLED"} :
          edit' = [edit EXCEPT ![c] = [sub |-> s, status |-> status]]
    BY <1>6 DEF LoadEdit
  <2>2. edit[c] = Null /\ subscription[s] # "REMOVED" /\ UNCHANGED <<subscription, handler>>
    BY <1>6 DEF LoadEdit
  <2>3. ASSUME NEW t \in Subscriptions PROVE ListedAs(t)' = ListedAs(t)
    <3>1. CASE t = s
      BY <2>2, <3>1 DEF ListedAs
    <3>2. CASE t # s
      <4>. DEFINE x == [sub |-> s, status |-> status]
      <4>1. x.sub # t
        BY <3>2
      <4>2. edit' = [edit EXCEPT ![c] = x]
        BY <2>1
      <4>. HIDE DEF x
      <4>3. Copied(t)' <=> Copied(t)
        BY <2>2, <4>1, <4>2, CopiesOfClient
      <4>. QED  BY <2>2, <4>3, ListedKept
    <3>. QED  BY <3>1, <3>2
  <2>. QED  BY <2>3 DEF ListNow, ListMoves
<1>7. ASSUME NEW c \in Clients, SaveEdit(c) PROVE ListMoves
  <2>0. PICK s, status : s = edit[c].sub /\ status = edit[c].status
    OBVIOUS
  <2>1. /\ edit[c] # Null /\ s \in Subscriptions /\ status \in {"ACTIVE", "DISABLED"}
        /\ SaveStatus(s, status)
        /\ edit' = [edit EXCEPT ![c] = Null] /\ UNCHANGED handler
    BY <1>7, <2>0 DEF SaveEdit, ShapesOK, EditCopy
  <2>2. Copied(s)
    BY <2>0, <2>1 DEF Copied
  <2>3. \A t \in Subscriptions : t # s => (Copied(t)' <=> Copied(t))
    BY <2>0, <2>1, CopiesOfClient
  <2>. QED  BY <2>1, <2>2, <2>3, CopySaved
<1>8. \/ UNCHANGED <<subscription, edit, handler>>
      \/ \E h \in Handlers :
           \/ HandlerWorks(h) \/ Finish(h) \/ CrashHandler(h) \/ Stall(h)
           \/ \E p \in Pairs : Take(h, p)
      \/ \E c \in Clients : SaveEdit(c) \/ \E s \in Subscriptions : LoadEdit(c, s)
  BY DEF Next, HandlerStep, HandlerWorks, StartRun, RunStep, Match, Dispatch, DispatchFails, EndRelay,
     BreakReconcile, Enqueue, Recheck, CrashRun, Promote, Elapse, Expire, Lose, Produce, Requeue, Reset
<1>. QED  BY <1>1, <1>2, <1>3, <1>4, <1>5, <1>6, <1>7, <1>8

(* What leaves letters, requests and marks alone may only end the calm or  *)
(* let a removed subscription depart or return.                            *)
LEMMA SameLetters ==
  ASSUME PromiseInv, Next, UNCHANGED <<posts, dispatched>>, \A p \in Pairs : LetterOf(p)' = LetterOf(p),
         ListMoves
  PROVE  Contract!ContractNext
<1>1. LettersNow' = LettersNow
  BY DEF LettersNow
<1>2. { e \in Events : e \in dispatched }' = { e \in Events : e \in dispatched }
  OBVIOUS
<1>3. Undisturbed' => Undisturbed
  BY UndisturbedSteps DEF PromiseInv, CountersInv
<1>4. CASE ListNow' = ListNow
  BY <1>1, <1>2, <1>3, <1>4 DEF Contract!ContractNext
<1>5. ASSUME NEW s \in Subscriptions, ListNow[s] = "leaving", ListNow' = [ListNow EXCEPT ![s] = "gone"]
      PROVE  Contract!ContractNext
  BY <1>1, <1>2, <1>3, <1>5 DEF Contract!ContractNext, Contract!Depart
<1>6. ASSUME NEW s \in Subscriptions, ListNow[s] = "leaving",
             ListNow' = [ListNow EXCEPT ![s] = "present"], ~Undisturbed'
      PROVE  Contract!ContractNext
  BY <1>1, <1>2, <1>3, <1>6 DEF Contract!ContractNext, Contract!Return
<1>. QED  BY <1>4, <1>5, <1>6 DEF ListMoves

LEMMA SameRows ==
  ASSUME PromiseInv, Next, UNCHANGED <<posts, dispatched, removals>>, ListMoves,
         \A p \in Pairs : (delivery'[p] = Null <=> delivery[p] = Null)
                          /\ delivery'[p].status = delivery[p].status
  PROVE  Contract!ContractNext
BY LetterKept, SameLetters

(* The fan-out: rows for all who were matched, and the mark. *)
LEMMA DispatchAnnounces ==
  ASSUME PromiseInv, Next, NEW r \in Runners, Dispatch(r)
  PROVE  Contract!ContractNext
<1>0. PICK e, S : e = Head(run[r].batch) /\ S = run[r].matched
  OBVIOUS
<1>. DEFINE row == [status |-> "PENDING", count |-> 0, due |-> TRUE]
            told == { x \in Events : x \in dispatched }
<1>1. /\ ShapesOK
      /\ \A s \in S : s \in Subscriptions /\ e \in Wants(s) /\ subscription[s] # "REMOVED"
      /\ UNCHANGED <<subscription, removals, edit, handler, posts>> /\ dispatched' = dispatched \cup {e}
      /\ \A p \in Pairs : delivery'[p] =
           IF p \in {e} \X S /\ delivery[p] = Null THEN row ELSE delivery[p]
  BY <1>0 DEF Dispatch, Inserted, MatchedWanted, PromiseInv, CountersInv, RemovalInv, DeliveryInv
<1>2. row # Null /\ row.status = "PENDING"
  BY FreshRow, RecordsAreNotNull
<1>. HIDE DEF row
<1>3. /\ ListNow' = ListNow
      /\ Undisturbed' => Undisturbed
  <2>1. \A t \in Subscriptions : ListedAs(t)' = ListedAs(t)
    BY <1>1, ListedKept DEF Copied
  <2>. QED  BY <2>1, UndisturbedSteps DEF ListNow, PromiseInv, CountersInv
<1>4. CASE e \notin Events
  <2>1. \A p \in Pairs : delivery'[p] = delivery[p]
    BY <1>1, <1>4 DEF Pairs
  <2>2. { x \in Events : x \in dispatched }' = told
    BY <1>1, <1>4
  <2>3. \A p \in Pairs : LetterOf(p)' = LetterOf(p)
    BY <1>1, <2>1, LetterKept
  <2>4. LettersNow' = LettersNow
    BY <2>3 DEF LettersNow
  <2>. QED  BY <1>1, <1>3, <2>2, <2>4 DEF Contract!ContractNext
<1>5. CASE e \in Events
  <2>1. { x \in Events : x \in dispatched }' = told \cup {e}
    BY <1>1, <1>5
  <2>2. ASSUME NEW p \in Pairs
        PROVE  LetterOf(p)' = IF p \in {e} \X S /\ LettersNow[p] \in {"none", "withdrawn"}
                              THEN "open" ELSE LettersNow[p]
    <3>1. LettersNow[p] = LetterOf(p) /\ (delivery[p] = Null <=> LettersNow[p] \in {"none", "withdrawn"})
      BY <1>1, LetterRead
    <3>2. CASE p \in {e} \X S /\ delivery[p] = Null
      <4>1. delivery'[p] = row
        BY <1>1, <3>2
      <4>2. HasStatus(p, Open)'
        BY <1>2, <4>1 DEF HasStatus, Open
      <4>3. LetterOf(p)' = "open"
        BY <1>2, <4>1, <4>2 DEF LetterOf
      <4>. QED  BY <3>1, <3>2, <4>3
    <3>3. CASE ~(p \in {e} \X S /\ delivery[p] = Null)
      <4>1. LetterOf(p)' = LetterOf(p)
        BY <1>1, <3>3, LetterKept
      <4>. QED  BY <3>1, <3>3, <4>1
    <3>. QED  BY <3>2, <3>3
  <2>3. LettersNow' = [p \in Pairs |->
          IF p \in {e} \X S /\ LettersNow[p] \in {"none", "withdrawn"} THEN "open" ELSE LettersNow[p]]
    BY <2>2 DEF LettersNow
  <2>4. {e} \X S \subseteq Wanted
    BY <1>1, <1>5 DEF Wanted, Pairs
  <2>5. \A s \in S : ListNow[s] = "present"
    BY <1>1 DEF ListNow, ListedAs
  <2>6. Contract!Announce(e, S)
    BY <1>1, <1>3, <2>1, <2>3, <2>4, <2>5
    DEF Contract!Announce, Contract!Exists, Contract!Letters, Pairs
  <2>7. S \in SUBSET Subscriptions
    BY <1>1
  <2>8. \E x \in Events, audience \in SUBSET Subscriptions : Contract!Announce(x, audience)
    BY <1>5, <2>6, <2>7
  <2>. QED  BY <1>3, <2>8 DEF Contract!ContractNext
<1>. QED  BY <1>4, <1>5

(* A handler writes what it has found: an open row settles, or stays open. *)
LEMMA WriteSettles ==
  ASSUME PromiseInv, Next, NEW h \in Handlers, handler[h] # Null, NEW p \in Pairs, p = handler[h].pair,
         NEW d \in Delivery, Update(h, d), d.status \in Settled \cup {"RETRYING"},
         UNCHANGED <<posts, dispatched, removals>>, ListNow' = ListNow,
         Undisturbed /\ delivery[p] # Null => HasStatus(p, Open),
         Undisturbed /\ d.status = "SUCCEEDED" => posts[p] > 0,
         Undisturbed /\ d.status = "DEAD" => posts[p] = MaxAttempts
  PROVE  Contract!ContractNext
<1>1. ShapesOK /\ d # Null
  BY RecordsAreNotNull DEF PromiseInv, CountersInv, RemovalInv, DeliveryInv
<1>2. \A q \in Pairs : delivery'[q] = IF q = p /\ HasRow(h) THEN d ELSE delivery[q]
  BY <1>1, UpdatedRows
<1>3. CASE ~HasRow(h)
  BY <1>2, <1>3, SameRows DEF ListMoves
<1>4. CASE HasRow(h)
  <2>1. delivery[p] # Null
    BY <1>4 DEF HasRow
  <2>2. \A q \in Pairs : q # p => LetterOf(q)' = LetterOf(q)
    BY <1>2, LetterKept
  <2>3. PICK end \in Settled \cup {"open"} : end = IF d.status = "RETRYING" THEN "open" ELSE d.status
    OBVIOUS
  <2>4. LetterOf(p)' = end
    <3>1. delivery'[p] = d
      BY <1>2, <1>4
    <3>. QED  BY <1>1, <2>3, <3>1 DEF LetterOf, HasStatus, Open, Settled
  <2>5. LettersNow' = [LettersNow EXCEPT ![p] = end]
    BY <2>2, <2>4 DEF LettersNow
  <2>6. /\ LettersNow[p] \notin {"none", "withdrawn"} /\ (HasStatus(p, Open) => LettersNow[p] = "open")
        /\ LettersNow[p] = LetterOf(p)
    BY <1>1, <2>1, LetterRead
  <2>7. { e \in Events : e \in dispatched }' = { e \in Events : e \in dispatched }
    OBVIOUS
  <2>8. CASE ~Undisturbed \/ end # "open"
    <3>1. Undisturbed => /\ LettersNow[p] = "open" /\ end \in Settled
                         /\ end = "SUCCEEDED" => posts[p] > 0
                         /\ end = "DEAD" => posts[p] = MaxAttempts
      BY <2>1, <2>3, <2>6, <2>8
    <3>2. Contract!Settle(p, end)
      BY <2>5, <2>6, <2>7, <3>1 DEF Contract!Settle, Contract!Exists, Contract!Ends, Settled
    <3>3. p \in Contract!Letters /\ end \in Contract!Ends \cup {"open"}
      BY <2>3 DEF Contract!Letters, Contract!Ends, Pairs, Settled
    <3>4. Undisturbed' => Undisturbed
      BY UndisturbedSteps DEF PromiseInv, CountersInv
    <3>5. \E q \in Contract!Letters, x \in Contract!Ends \cup {"open"} : Contract!Settle(q, x)
      BY <3>2, <3>3
    <3>. QED  BY <3>4, <3>5 DEF Contract!ContractNext
  <2>9. CASE Undisturbed /\ end = "open"
    <3>1. LetterOf(p)' = LetterOf(p)
      BY <2>1, <2>4, <2>6, <2>9
    <3>. QED  BY <2>2, <3>1, SameLetters DEF ListMoves
  <2>. QED  BY <2>8, <2>9
<1>. QED  BY <1>3, <1>4

(* Whoever writes a row while the calm lasts has counted right. *)
LEMMA HandlerSettles ==
  ASSUME PromiseInv, Next, NEW h \in Handlers, Fail(h) \/ Record(h)
  PROVE  Contract!ContractNext
<1>1. PICK p : p = handler[h].pair
  OBVIOUS
<1>2. DeliveryInv /\ (Undisturbed => Agreement)
  BY DEF PromiseInv, CountersInv, RemovalInv, Agreement
<1>3. /\ handler[h] # Null /\ p \in Pairs
      /\ Fail(h) => handler[h].stage = "read"
      /\ Record(h) => handler[h].stage = "answered"
      /\ UNCHANGED <<posts, dispatched, removals>> /\ ListNow' = ListNow
  BY <1>1, <1>2, HandlerKeepsPair, HandlerKeepsList, ShapesNow
  DEF Fail, Record, At, HandlerWorks, DeliveryInv
<1>4. Undisturbed => AttemptCounts(h, p) /\ job[p].made \in Nat /\ MaxAttempts \in Nat /\ handler[h].no \in Nat
  BY <1>1, <1>2, <1>3, HeldPairNow
<1>5. Undisturbed /\ delivery[p] # Null => HasStatus(p, Open)
  BY <1>3, <1>4 DEF AttemptCounts
<1>6. CASE Fail(h)
  <2>1. PICK d \in Delivery : d.status = "FAILED" /\ Update(h, d)
    BY <1>2, <1>6, FailWrites
  <2>. QED  BY <1>1, <1>3, <1>5, <2>1, WriteSettles DEF Settled
<1>7. CASE Record(h)
  <2>1. PICK d \in Delivery : /\ d.status \in Settled \cup {"RETRYING"} /\ Update(h, d)
                              /\ d.status = "DEAD" => handler[h].no >= MaxAttempts
    BY <1>2, <1>7, RecordWrites
  <2>2. Undisturbed => posts[p] > 0 /\ (d.status = "DEAD" => posts[p] = MaxAttempts)
    <3>1. Undisturbed => handler[h].no <= MaxAttempts /\ job[p].made < handler[h].no
                         /\ posts[p] = handler[h].no
      BY <1>3, <1>4, <1>7 DEF AttemptCounts
    <3>. QED  BY <2>1, <1>4, <3>1
  <2>. QED  BY <1>1, <1>3, <1>5, <2>1, <2>2, WriteSettles
<1>. QED  BY <1>6, <1>7

(* A request goes out for a letter that is there, or was when it was read. *)
LEMMA PostAsks ==
  ASSUME PromiseInv, Next, NEW h \in Handlers, NEW found \in Lookups, Post(h, found)
  PROVE  Contract!ContractNext
<1>1. PICK p : p = handler[h].pair
  OBVIOUS
<1>2. DeliveryInv /\ ShapesOK /\ (Undisturbed => Agreement)
  BY DEF PromiseInv, CountersInv, RemovalInv, DeliveryInv, Agreement
<1>3. /\ handler[h] # Null /\ handler[h].stage = "post" /\ p \in Pairs
      /\ UNCHANGED <<delivery, removals, dispatched>> /\ ListNow' = ListNow
      /\ posts' = [posts EXCEPT ![p] = posts[p] + 1]
  BY <1>1, <1>2, HandlerKeepsPair, HandlerKeepsList, ShapesNow DEF Post, At, HandlerWorks
<1>4. LettersNow' = LettersNow
  <2>1. \A q \in Pairs : LetterOf(q)' = LetterOf(q)
    BY <1>3, LetterKept
  <2>. QED  BY <2>1 DEF LettersNow
<1>5. LettersNow[p] # "none"
  <2>1. Holds(h, p)
    BY <1>1, <1>3 DEF Holds
  <2>2. ~NeverAnnounced(p)
    BY <1>3, <2>1 DEF PromiseInv, Beforehand
  <2>. QED  BY <1>2, <1>3, <2>2, LetterRead
<1>6. Undisturbed => LettersNow[p] \in {"open", "withdrawn"} /\ posts[p] < MaxAttempts
  <2> SUFFICES ASSUME Undisturbed PROVE LettersNow[p] \in {"open", "withdrawn"} /\ posts[p] < MaxAttempts
    OBVIOUS
  <2>1. AttemptCounts(h, p) /\ handler[h].no \in Nat /\ MaxAttempts \in Nat
    BY <1>1, <1>2, <1>3, HeldPairNow
  <2>2. /\ handler[h].no <= MaxAttempts /\ posts[p] = handler[h].no - 1
        /\ delivery[p] # Null => HasStatus(p, Open)
    BY <1>3, <2>1 DEF AttemptCounts
  <2>3. LettersNow[p] \in {"open", "withdrawn"}
    BY <1>2, <1>3, <1>5, <2>2, LetterRead
  <2>. QED  BY <2>1, <2>2, <2>3
<1>7. { e \in Events : e \in dispatched }' = { e \in Events : e \in dispatched }
  BY <1>3
<1>8. Contract!Ask(p)
  BY <1>3, <1>4, <1>5, <1>6, <1>7 DEF Contract!Ask
<1>9. \E q \in Contract!Letters : Contract!Ask(q) \/ Contract!Reopen(q)
  BY <1>3, <1>8 DEF Contract!Letters, Pairs
<1>10. Undisturbed' => Undisturbed
  BY UndisturbedSteps DEF PromiseInv, CountersInv
<1>. QED  BY <1>9, <1>10 DEF Contract!ContractNext

(* A replay opens a letter again, and ends the calm. *)
LEMMA ResetReopens ==
  ASSUME PromiseInv, Next, NEW c \in Clients, NEW p \in Pairs, Reset(c, p)
  PROVE  Contract!ContractNext
<1>. DEFINE row == [status |-> "PENDING", count |-> 0, due |-> TRUE]
<1>1. /\ ShapesOK /\ UNCHANGED <<subscription, removals, edit, handler, dispatched>>
      /\ delivery[p] # Null
      /\ posts' = [posts EXCEPT ![p] = 0]
      /\ \A q \in Pairs : delivery'[q] = IF q = p THEN row ELSE delivery[q]
  BY DEF Reset, PromiseInv, CountersInv, RemovalInv, DeliveryInv, ShapesOK
<1>2. row # Null /\ row.status \in Open
  BY FreshRow, RecordsAreNotNull DEF Open
<1>. HIDE DEF row
<1>3. ListNow' = ListNow
  <2>1. \A t \in Subscriptions : ListedAs(t)' = ListedAs(t)
    BY <1>1, ListedKept DEF Copied
  <2>. QED  BY <2>1 DEF ListNow
<1>4. \A q \in Pairs : q # p => LetterOf(q)' = LetterOf(q)
  BY <1>1, LetterKept
<1>5. LetterOf(p)' = "open"
  BY <1>1, <1>2 DEF LetterOf, HasStatus
<1>6. LettersNow' = [LettersNow EXCEPT ![p] = "open"]
  BY <1>4, <1>5 DEF LettersNow
<1>7. LettersNow[p] \notin {"none", "withdrawn"}
  BY <1>1, LetterRead
<1>8. ~Undisturbed'
  <2>1. Upset(FALSE)
    BY DEF Reset
  <2>. QED  BY <1>1, <2>1, Upsets DEF Undisturbed
<1>9. { e \in Events : e \in dispatched }' = { e \in Events : e \in dispatched }
  BY <1>1
<1>10. Contract!Reopen(p)
  BY <1>1, <1>3, <1>6, <1>7, <1>8, <1>9 DEF Contract!Reopen, Contract!Exists
<1>11. \E q \in Contract!Letters : Contract!Ask(q) \/ Contract!Reopen(q)
  BY <1>10 DEF Contract!Letters, Pairs
<1>. QED  BY <1>8, <1>11 DEF Contract!ContractNext

(* A removal takes all letters of its subscription. *)
LEMMA RemoveWithdraws ==
  ASSUME PromiseInv, Next, NEW s \in Subscriptions, Remove(s)
  PROVE  Contract!ContractNext
<1>1. /\ ShapesOK /\ UNCHANGED <<posts, dispatched, edit, handler>> /\ subscription[s] # "REMOVED"
      /\ \A t \in Subscriptions : subscription'[t] = IF t = s THEN "REMOVED" ELSE subscription[t]
      /\ \A t \in Subscriptions : removals'[t] = IF t = s THEN removals[t] + 1 ELSE removals[t]
      /\ \A q \in Pairs : delivery'[q] = IF q[2] = s THEN Null ELSE delivery[q]
      /\ removals[s] \in Nat
  BY RemovedStatus DEF Remove, PromiseInv, CountersInv, RemovalInv, DeliveryInv, ShapesOK
<1>2. ASSUME NEW q \in Pairs
      PROVE  LetterOf(q)' = IF q[2] = s THEN "withdrawn" ELSE LettersNow[q]
  <2>1. q[2] \in Subscriptions
    BY DEF Pairs
  <2>2. CASE q[2] = s
    <3>1. delivery'[q] = Null /\ removals'[q[2]] > 0 /\ removals'[q[2]] # 0
      BY <1>1, <2>1, <2>2
    <3>2. LetterOf(q)' = "withdrawn"
      BY <3>1 DEF LetterOf, HasStatus
    <3>. QED  BY <2>2, <3>2
  <2>3. CASE q[2] # s
    BY <1>1, <2>1, <2>3, LetterKept DEF LettersNow
  <2>. QED  BY <2>2, <2>3
<1>3. LettersNow' = [q \in Pairs |-> IF q[2] = s THEN "withdrawn" ELSE LettersNow[q]]
  BY <1>2 DEF LettersNow
<1>4. { e \in Events : e \in dispatched }' = { e \in Events : e \in dispatched }
  BY <1>1
<1>5. ListNow[s] = "present" /\ \E left \in {"leaving", "gone"} : ListNow' = [ListNow EXCEPT ![s] = left]
  <2>1. \A t \in Subscriptions : t # s => ListedAs(t)' = ListedAs(t)
    BY <1>1, ListedKept DEF Copied
  <2>2. ListedAs(s)' \in {"leaving", "gone"} /\ ListedAs(s) = "present"
    <3>1. subscription'[s] = "REMOVED"
      BY <1>1
    <3>. QED  BY <1>1, <3>1 DEF ListedAs
  <2>3. ListNow' = [ListNow EXCEPT ![s] = ListedAs(s)']
    BY <2>1 DEF ListNow
  <2>. QED  BY <2>2, <2>3 DEF ListNow
<1>6. Contract!Withdraw(s)
  BY <1>1, <1>3, <1>4, <1>5 DEF Contract!Withdraw, Contract!Letters, Pairs
<1>7. Undisturbed' => Undisturbed
  BY UndisturbedSteps DEF PromiseInv, CountersInv
<1>. QED  BY <1>6, <1>7 DEF Contract!ContractNext

(* Everything else leaves letters, requests and marks alone. *)
LEMMA OthersKeep ==
  ASSUME PromiseInv, Next,
         \A r \in Runners : ~Dispatch(r), \A s \in Subscriptions : ~Remove(s),
         \A h \in Handlers : ~Fail(h) /\ ~Record(h) /\ \A found \in Lookups : ~Post(h, found),
         \A c \in Clients, p \in Pairs : ~Reset(c, p)
  PROVE  Contract!ContractNext
<1>1. DeliveryInv /\ ListMoves
  BY OthersMoveList DEF PromiseInv, CountersInv, RemovalInv
<1>2. UNCHANGED <<posts, dispatched, removals>>
  BY DEF Next, RunStep, HandlerStep, Produce, LoadEdit, SaveEdit, StartRun, Match, DispatchFails,
         EndRelay, BreakReconcile, Enqueue, Recheck, CrashRun, Find, Prepare, Finish, HandlerThrows,
         SkipHealth, LoadHealth, SaveHealth, CrashHandler, Stall, Take, Promote, Elapse, Expire,
         Lose, Requeue
<1>3. CASE UNCHANGED delivery
  BY <1>1, <1>2, <1>3, SameRows
<1>4. ASSUME NEW q \in Pairs, Elapse(q) PROVE Contract!ContractNext
  <2>1. /\ delivery[q] # Null /\ delivery[q] \in Delivery
        /\ \A p \in Pairs : delivery'[p] = IF p = q THEN [delivery[q] EXCEPT !.due = TRUE] ELSE delivery[p]
    BY <1>1, <1>4 DEF Elapse, HasStatus, DeliveryInv, ShapesOK
  <2>2. [delivery[q] EXCEPT !.due = TRUE] # Null
    BY <2>1, ElapsedRow, RecordsAreNotNull
  <2>3. [delivery[q] EXCEPT !.due = TRUE].status = delivery[q].status
    BY <2>1 DEF Delivery
  <2>. QED  BY <1>1, <1>2, <2>1, <2>2, <2>3, SameRows
<1>. QED  BY <1>3, <1>4, RowWriters

LEMMA StepsKeepPromise ==
  PromiseInv /\ [Next]_vars => [Contract!ContractNext]_(Contract!cvars)
<1> SUFFICES ASSUME PromiseInv, [Next]_vars
             PROVE  Contract!ContractNext \/ UNCHANGED Contract!cvars
  OBVIOUS
<1>1. CASE Next
  BY <1>1, DispatchAnnounces, HandlerSettles, PostAsks, ResetReopens, RemoveWithdraws, OthersKeep
<1>2. CASE UNCHANGED vars
  <2>1. \A p \in Pairs : LetterOf(p)' = LetterOf(p)
    BY <1>2, LetterKept DEF vars
  <2>2. \A s \in Subscriptions : ListedAs(s)' = ListedAs(s)
    BY <1>2, ListedKept DEF vars, Copied
  <2>3. LettersNow' = LettersNow /\ ListNow' = ListNow
    BY <2>1, <2>2 DEF LettersNow, ListNow
  <2>4. /\ { e \in Events : e \in dispatched }' = { e \in Events : e \in dispatched }
        /\ UNCHANGED <<posts, spent>>
    BY <1>2 DEF vars
  <2>5. Undisturbed' = Undisturbed
    BY <2>4 DEF Undisturbed
  <2>. QED  BY <2>3, <2>4, <2>5 DEF Contract!cvars
<1>. QED  BY <1>1, <1>2

-----------------------------------------------------------------------------
(* The theorems.                                                           *)

(* Two handlers never both hold the lock of one delivery, whatever crashes,*)
(* stalls, is lost, refused or replayed.  handle() reads the row, posts and*)
(* writes it without comparing anything in between: that two do so at once *)
(* takes a stall, in which BullMQ has taken the job from one of them.      *)
THEOREM OneHandlerAlways == Spec => []OneHandlerPerDelivery
<1>1. DeliveryInv => OneHandlerPerDelivery
  BY DEF DeliveryInv
<1>. QED  BY <1>1, DeliveryInit, DeliveryStep, PTL DEF Spec

(* No relay run marks an event without a delivery for every subscription   *)
(* that wanted it and was active all along, although it asks for the       *)
(* active ones before its transaction and other runs overlap with it.      *)
THEOREM NobodyEverSkipped == Spec => []NoSubscriberSkipped
<1>1. MatchInv => NoSubscriberSkipped
  BY DEF MatchInv
<1>. QED  BY <1>1, MatchInit, MatchStep, PTL DEF Spec

LEMMA CountersAlways == Spec => []CountersInv
BY CountersInit, CountersStep, PTL DEF Spec

(* BullMQ gives up a job only when its delivery has settled: attemptsMade  *)
(* stays behind attempt_count, also when a lost job is enqueued afresh.    *)
THEOREM AbandonedAlwaysSettled == Spec => []AbandonedIsSettled
<1>1. CountersInv => AbandonedIsSettled
  BY DEF CountersInv, CountersAgree, PairAgrees, OpenRowCounts, AbandonedIsSettled, IsLive, InState
<1>. QED  BY <1>1, CountersAlways, PTL

(* An endpoint sees at most WEBHOOK_MAX_ATTEMPTS requests for a delivery,  *)
(* and exactly so many before the delivery is dead.                        *)
THEOREM AttemptsAlwaysAccounted == Spec => []AttemptsAccounted
<1>1. CountersInv => AttemptsAccounted
  BY DEF CountersInv, CountersAgree, PairAgrees, SettledRowRests, AttemptsAccounted, HasStatus, Settled
<1>. QED  BY <1>1, CountersAlways, PTL

(* Nothing that comes late - a relay run, a reconciliation that decided on *)
(* an older state, another handler - changes a delivery that has settled.  *)
THEOREM SettledStaysFinal == Spec => SettledIsFinal
<1>1. CountersInv /\ [Next]_vars =>
        [\A p \in Pairs : HasStatus(p, Settled) /\ Undisturbed
           => delivery'[p] \in {delivery[p], Null} \/ ~Undisturbed']_vars
  BY SettledStep
<1>. QED  BY <1>1, CountersAlways, PTL DEF Spec, SettledIsFinal

(* Relay, fan-out, jobs, handlers, reconciliation, replay and edits, with  *)
(* all their faults, do nothing the contract does not allow: no letter     *)
(* without the mark of its event, for somebody who had not asked or for a  *)
(* subscription that is not there; no request for what was never announced;*)
(* a removed subscription back only from a copy loaded before (update(),   *)
(* rotateSecret(), the worker's bookkeeping), and without its letters; and *)
(* in the calm no request for what has settled or beyond the limit.        *)
THEOREM DeliveryKeepsContract == Spec => ImplementsDelivery
<1>1. Init => Contract!ContractInit
  <2> SUFFICES ASSUME Init PROVE Contract!ContractInit
    OBVIOUS
  <2>1. { e \in Events : e \in dispatched } = {}
    BY DEF Init
  <2>2. LettersNow = [p \in Pairs |-> "none"]
    <3>1. \A p \in Pairs : NeverAnnounced(p)
      BY ShapesNow, DeliveryInit DEF Init, DeliveryInv, NeverAnnounced
    <3>. QED  BY <3>1, LetterRead, DeliveryInit DEF LettersNow, DeliveryInv
  <2>3. ListNow = [s \in Subscriptions |-> "present"]
    BY DEF Init, ListNow, ListedAs
  <2>4. posts = [p \in Pairs |-> 0] /\ Undisturbed
    BY DEF Init, Undisturbed
  <2>. QED  BY <2>1, <2>2, <2>3, <2>4 DEF Contract!ContractInit, Contract!Letters, Pairs
<1>. QED  BY <1>1, PromiseInit, PromiseStep, StepsKeepPromise, PTL
          DEF Spec, ImplementsDelivery, Contract!ContractSpec

=============================================================================
