-------------------------- MODULE EndpointLimiter --------------------------
(***************************************************************************)
(* The semaphore that limits the requests a worker process has open to one *)
(* host (src/src/webhooks/delivery/endpoint-limiter.ts).                   *)
(*                                                                         *)
(* The code keeps a counter and a queue of callbacks per host; hosts do not*)
(* touch one another, so this is the limiter of one host.  Between two     *)
(* awaits a call runs alone: acquire() and release() are steps.  A released*)
(* slot is handed to the first waiter without touching the counter, and    *)
(* the waiter goes on some time later, when its promise is resolved.       *)
(***************************************************************************)
EXTENDS Naturals, Sequences, FiniteSets

CONSTANTS Tasks,  \* calls of run() for the host
          Cap     \* WEBHOOK_ENDPOINT_CONCURRENCY

ASSUME LimiterAssumption == Cap \in Nat \ {0} /\ IsFiniteSet(Tasks)

VARIABLES active,   \* slots the counter says are taken
          waiters,  \* callbacks waiting for a slot, oldest first
          stage     \* where each task is

vars == <<active, waiters, stage>>

Stages == {"idle", "waiting", "granted", "running"}

TypeOK ==
  /\ active \in Nat
  /\ waiters \in Seq(Tasks)
  /\ stage \in [Tasks -> Stages]

(* A slot belongs to a task from its grant to its release.                 *)
Holders == { t \in Tasks : stage[t] \in {"granted", "running"} }

Init ==
  /\ active = 0
  /\ waiters = <<>>
  /\ stage = [t \in Tasks |-> "idle"]

(* acquire(): a free slot, or a place in the queue.                        *)
Acquire(t) ==
  /\ stage[t] = "idle"
  /\ active < Cap
  /\ active' = active + 1
  /\ stage' = [stage EXCEPT ![t] = "granted"]
  /\ UNCHANGED waiters

Wait(t) ==
  /\ stage[t] = "idle"
  /\ active >= Cap
  /\ waiters' = Append(waiters, t)
  /\ stage' = [stage EXCEPT ![t] = "waiting"]
  /\ UNCHANGED active

(* run() goes on after its await and calls the task.                       *)
Start(t) ==
  /\ stage[t] = "granted"
  /\ stage' = [stage EXCEPT ![t] = "running"]
  /\ UNCHANGED <<active, waiters>>

(* Faulty variant: the counter goes down although the slot is handed over. *)
HandOverAndCount(t) ==
  /\ stage[t] = "running" /\ waiters # <<>>
  /\ stage' = [stage EXCEPT ![t] = "idle", ![Head(waiters)] = "granted"]
  /\ waiters' = Tail(waiters)
  /\ active' = active - 1

(* Faulty variant: waiters are not looked for.                             *)
GiveBackAlways(t) ==
  /\ stage[t] = "running"
  /\ stage' = [stage EXCEPT ![t] = "idle"]
  /\ active' = IF active > 0 THEN active - 1 ELSE 0
  /\ UNCHANGED waiters

(* The finally of run(): hand the slot over, or give it back.              *)
HandOver(t) ==
  /\ stage[t] = "running" /\ waiters # <<>>
  /\ stage' = [stage EXCEPT ![t] = "idle", ![Head(waiters)] = "granted"]
  /\ waiters' = Tail(waiters)
  /\ UNCHANGED active

GiveBack(t) ==
  /\ stage[t] = "running" /\ waiters = <<>>
  /\ stage' = [stage EXCEPT ![t] = "idle"]
  /\ active' = IF active > 0 THEN active - 1 ELSE 0
  /\ UNCHANGED waiters

Next ==
  \E t \in Tasks : Acquire(t) \/ Wait(t) \/ Start(t) \/ HandOver(t) \/ GiveBack(t)

Spec == Init /\ [][Next]_vars

-----------------------------------------------------------------------------
(* Properties.                                                             *)

(* The counter counts the slots in use, across any number of hand-overs: it*)
(* neither drifts down, which would break the cap, nor up, which would lose*)
(* slots until the host is blocked.                                        *)
SlotsAddUp == active = Cardinality(Holders) /\ active <= Cap

(* Nobody waits while a slot is free: such a waiter would wait for ever if *)
(* no request came after it, as only a release wakes one.                  *)
NobodyWaitsInVain == waiters # <<>> => active = Cap

(* The queue holds each waiting task once.                                 *)
QueueIsExact ==
  /\ { waiters[i] : i \in 1..Len(waiters) } = { t \in Tasks : stage[t] = "waiting" }
  /\ \A i, j \in 1..Len(waiters) : waiters[i] = waiters[j] => i = j

=============================================================================
