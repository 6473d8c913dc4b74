-------------------------- MODULE ActivityContract --------------------------
(***************************************************************************)
(* What the activity component promises its users and the consumers of its *)
(* outbox, without versions, timers, requests in flight or clocks:         *)
(*                                                                         *)
(*  - a status changes only along an edge of the rule table, and only by   *)
(*    an actor the edge allows: the system, the person responsible for the *)
(*    activity at that moment, or a member of the bond;                    *)
(*  - every change is published exactly once, in order, with the status it *)
(*    really left and the number of the version it created;                *)
(*  - an overdue activity can be handed back only if it became overdue     *)
(*    while waiting for an answer, which is read off the publication, not  *)
(*    off the columns the code derives it from.                            *)
(***************************************************************************)
EXTENDS Naturals, Sequences

CONSTANTS Activities, Members, Null, ResponseTimeout

INSTANCE ActivityTransitionMap

VARIABLES status,       \* status[a], Null before the activity exists
          responsible,  \* responsible[a], the member assigned to it or Null
          published     \* published[a], the events of a in commit order

cvars == <<status, responsible, published>>

Event(a, from, to, kind, actor) ==
  [version |-> Len(published[a]) + 1, from |-> from, to |-> to,
   event |-> kind, actor |-> actor]

Publish(a, e) == published' = [published EXCEPT ![a] = Append(@, e)]

ContractInit ==
  /\ status = [a \in Activities |-> Null]
  /\ responsible = [a \in Activities |-> Null]
  /\ published = [a \in Activities |-> <<>>]

Open(a, creator, assignee) ==
  LET s == InitialStatus(assignee)
  IN  /\ status[a] = Null
      /\ status' = [status EXCEPT ![a] = s]
      /\ responsible' = [responsible EXCEPT ![a] = assignee]
      /\ Publish(a, Event(a, "new", s, s, creator))

(* The activity became overdue while its assignee had not answered.        *)
AwaitedAnswer(a) ==
  published[a] # <<>> /\ published[a][Len(published[a])].from = "assigned"

Authorised(a, edge, actor) ==
  \/ edge \in SystemEdges /\ actor = Null
  \/ /\ edge \in AssigneeEdges
     /\ actor # Null /\ actor = responsible[a]
     /\ edge[1] = "overdue" => AwaitedAnswer(a)
  \/ edge \in MemberEdges /\ actor \in Members

(* Only an assignment names a responsible person, and it always does.      *)
Move(a, to) ==
  LET edge == <<status[a], to>>
  IN  /\ edge \in Edges
      /\ status' = [status EXCEPT ![a] = to]
      /\ \E actor, m \in Members \cup {Null} :
           /\ Authorised(a, edge, actor)
           /\ (m # Null) <=> (to = "assigned")
           /\ responsible' = [responsible EXCEPT ![a] = IF m = Null THEN @ ELSE m]
           /\ Publish(a, Event(a, status[a], to, EventOf(edge), actor))

ContractNext ==
  \E a \in Activities :
    \/ \E u \in Members, m \in Members \cup {Null} : Open(a, u, m)
    \/ \E to \in Statuses : Move(a, to)

ContractSpec == ContractInit /\ [][ContractNext]_cvars

=============================================================================
