--------------------------- MODULE InboxContract ---------------------------
(***************************************************************************)
(* What the notifications promise, without relay, transactions or runs: an *)
(* event may tell users of itself, each of them once and never the one who *)
(* caused it; a notification is read or not, and a read one stays read;    *)
(* only notifications older than the retention disappear, all of them      *)
(* together.                                                               *)
(***************************************************************************)
EXTENDS Naturals

CONSTANTS Users, Events, Retention

VARIABLES
  inbox,  \* the notifications there are
  told,   \* whoever was told of an event
  day,
  actor   \* who caused an event; known once the event is there

cvars == <<inbox, told, day, actor>>

ContractInit == inbox = {} /\ told = {} /\ day = 0

Tell(e, users) ==
  /\ users \cap { u \in Users : <<u, e>> \in told } = {}
  /\ actor[e] \notin users
  /\ told' = told \cup (users \X {e})
  /\ inbox' = inbox \cup
       { [user |-> u, event |-> e, read |-> FALSE, created |-> day] : u \in users }
  /\ UNCHANGED <<day, actor>>

Read(u, rows) ==
  /\ \A n \in rows : n.user = u
  /\ inbox' = (inbox \ rows) \cup { [n EXCEPT !.read = TRUE] : n \in rows }
  /\ UNCHANGED <<told, day, actor>>

Forget ==
  /\ inbox' = { n \in inbox : day <= n.created + Retention }
  /\ UNCHANGED <<told, day, actor>>

Pass ==
  /\ day' = day + 1
  /\ UNCHANGED <<inbox, told, actor>>

(* An event gets its actor when it appears, and keeps it.                  *)
Happen ==
  /\ \A e \in Events : actor'[e] # actor[e] => \A u \in Users : <<u, e>> \notin told
  /\ UNCHANGED <<inbox, told, day>>

ContractNext ==
  \/ \E e \in Events, users \in SUBSET Users : Tell(e, users)
  \/ \E u \in Users, rows \in SUBSET inbox : Read(u, rows)
  \/ Forget \/ Pass \/ Happen

ContractSpec == ContractInit /\ [][ContractNext]_cvars

=============================================================================
