-------------------------- MODULE DeliveryContract --------------------------
(***************************************************************************)
(* What webhook delivery promises of each pair of event and subscription,  *)
(* without runs, jobs, handlers or two stores: a letter comes into being   *)
(* only with the announcement of its event, only if it was wanted and only *)
(* if its subscription is there; the endpoint is asked while its letter is *)
(* open and not more often than the limit; a letter settles once, as       *)
(* delivered only after it was asked and as dead only after it was asked to*)
(* the limit.  A removed subscription takes its letters with it.  It may   *)
(* come back while somebody is still leaving with an old copy of it, but   *)
(* empty: a letter that was withdrawn opens only with an announcement.     *)
(* Replays, crashes, stalls, a failing database and such a return end the  *)
(* calm, and with it what is said of attempts and of settling, and nothing *)
(* else.                                                                   *)
(***************************************************************************)
EXTENDS Naturals

CONSTANTS Events, Subscriptions,
          Wanted,      \* pairs of an event and a subscription that asked for it
          MaxAttempts

VARIABLES announced,   \* events whose fan-out has happened
          letter,      \* what has become of each pair
          listed,      \* whether a subscription is there
          requests,    \* requests since the letter was first opened or last reopened
          calm         \* nothing has upset the counting of attempts so far

cvars == <<announced, letter, listed, requests, calm>>

Letters == Events \X Subscriptions

Ends == {"SUCCEEDED", "FAILED", "DEAD"}

Exists(p) == letter[p] \notin {"none", "withdrawn"}

ContractInit ==
  /\ announced = {}
  /\ letter = [p \in Letters |-> "none"]
  /\ listed = [s \in Subscriptions |-> "present"]
  /\ requests = [p \in Letters |-> 0]
  /\ calm = TRUE

Announce(e, audience) ==
  /\ {e} \X audience \subseteq Wanted
  /\ \A s \in audience : listed[s] = "present"
  /\ announced' = announced \cup {e}
  /\ letter' = [p \in Letters |->
       IF p \in {e} \X audience /\ ~Exists(p) THEN "open" ELSE letter[p]]
  /\ UNCHANGED <<listed, requests>>

(* A request may be on its way when its letter is withdrawn.               *)
Ask(p) ==
  /\ letter[p] # "none"
  /\ calm => letter[p] \in {"open", "withdrawn"} /\ requests[p] < MaxAttempts
  /\ requests' = [requests EXCEPT ![p] = @ + 1]
  /\ UNCHANGED <<announced, letter, listed>>

Settle(p, end) ==
  /\ Exists(p)
  /\ calm => /\ letter[p] = "open" /\ end \in Ends
             /\ end = "SUCCEEDED" => requests[p] > 0
             /\ end = "DEAD" => requests[p] = MaxAttempts
  /\ letter' = [letter EXCEPT ![p] = end]
  /\ UNCHANGED <<announced, listed, requests>>

Reopen(p) ==
  /\ Exists(p)
  /\ letter' = [letter EXCEPT ![p] = "open"]
  /\ requests' = [requests EXCEPT ![p] = 0]
  /\ UNCHANGED <<announced, listed>>
  /\ ~calm'

Withdraw(s) ==
  /\ listed[s] = "present"
  /\ \E left \in {"leaving", "gone"} : listed' = [listed EXCEPT ![s] = left]
  /\ letter' = [p \in Letters |-> IF p[2] = s THEN "withdrawn" ELSE letter[p]]
  /\ UNCHANGED <<announced, requests>>

Depart(s) ==
  /\ listed[s] = "leaving"
  /\ listed' = [listed EXCEPT ![s] = "gone"]
  /\ UNCHANGED <<announced, letter, requests>>

Return(s) ==
  /\ listed[s] = "leaving"
  /\ listed' = [listed EXCEPT ![s] = "present"]
  /\ UNCHANGED <<announced, letter, requests>>
  /\ ~calm'

ContractNext ==
  /\ \/ \E e \in Events, audience \in SUBSET Subscriptions : Announce(e, audience)
     \/ \E p \in Letters : Ask(p) \/ Reopen(p)
     \/ \E p \in Letters, end \in Ends \cup {"open"} : Settle(p, end)
     \/ \E s \in Subscriptions : Withdraw(s) \/ Depart(s) \/ Return(s)
     \/ UNCHANGED <<announced, letter, listed, requests>>
  /\ calm' => calm

ContractSpec == ContractInit /\ [][ContractNext]_cvars

=============================================================================
