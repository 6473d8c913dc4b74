------------------------- MODULE BondAdministration -------------------------
(***************************************************************************)
(* The back office of one bond: accounts, the bond, its member rows and its*)
(* children (src/src/admin/admin.service.ts with the repositories of       *)
(* src/src/bonds, users and children).  An operation reads first and writes*)
(* later, without a lock; two administrators work at once.  Names, titles, *)
(* dates, passwords and the is_active flag of an account are left out.     *)
(***************************************************************************)
EXTENDS Integers, FiniteSets

CONSTANTS
  Users, NoUser,
  Children,      \* ids a child row may get
  NoChild,
  Admins,        \* requests of the back office that run at once
  Registered,    \* users who have an account to begin with
  MaxRows        \* bound: member rows of a user

ASSUME AdministrationAssumption ==
  /\ Registered \subseteq Users /\ NoUser \notin Users /\ NoChild \notin Children
  /\ IsFiniteSet(Users) /\ IsFiniteSet(Children)
  /\ MaxRows \in Nat \ {0}

VARIABLES
  account,   \* none, the user row alone, or the row with its personal data
  bond,      \* absent, active or inactive
  rows,      \* member rows of every user; no key forbids a second one
  children,  \* child rows
  request    \* what every administrator's request has read and is to write

tables == <<bond, rows, children>>
adminVars == <<account, tables, request>>

Request(op, user, child, active, seen) ==
  [op |-> op, user |-> user, child |-> child, active |-> active, seen |-> seen]

Snapshot == [rows |-> rows, children |-> children]
Nothing == [rows |-> [u \in Users |-> 0], children |-> {}]
Idle == Request("idle", NoUser, NoChild, FALSE, Nothing)

Members == { u \in Users : rows[u] > 0 }

(* findBondsByUserId(): the bonds a user sees are active, and the inner    *)
(* join needs a child.                                                     *)
Visible(u) == bond = "active" /\ u \in Members /\ children # {}

(* One type invariant.                                                     *)
AdminTypeOK ==
  /\ account \in [Users -> {"none", "bare", "full"}]
  /\ bond \in {"absent", "active", "inactive"}
  /\ rows \in [Users -> 0..MaxRows]
  /\ children \subseteq Children
  /\ request \in [Admins ->
       [op : {"idle", "profile", "member", "child", "toggle"},
        user : Users \cup {NoUser}, child : Children \cup {NoChild}, active : BOOLEAN,
        seen : [rows : [Users -> 0..MaxRows], children : SUBSET Children]]]

AdminInit ==
  /\ account = [u \in Users |-> IF u \in Registered THEN "full" ELSE "none"]
  /\ bond = "absent"
  /\ rows = [u \in Users |-> 0]
  /\ children = {}
  /\ request = [a \in Admins |-> Idle]

Read(a, r) ==
  /\ request[a] = Idle
  /\ request' = [request EXCEPT ![a] = r]

Answer(a) == request' = [request EXCEPT ![a] = Idle]

-----------------------------------------------------------------------------
(* createUser(): the user row, whose e-mail is unique, and then, in another*)
(* transaction, the personal data.                                         *)
CreateUser(a, u) ==
  /\ account[u] = "none"
  /\ account' = [account EXCEPT ![u] = "bare"]
  /\ Read(a, Request("profile", u, NoChild, FALSE, Nothing))
  /\ UNCHANGED tables

SaveProfile(a) ==
  /\ request[a].op = "profile"
  /\ account' = [account EXCEPT ![request[a].user] = "full"]
  /\ Answer(a)
  /\ UNCHANGED tables

(* createBond(): two users that exist and at least one child; all of it    *)
(* commits or nothing does.                                                *)
CreateBond(pair, kids) ==
  /\ bond = "absent"
  /\ Cardinality(pair) = 2 /\ \A u \in pair : account[u] # "none"
  /\ kids # {}
  /\ bond' = "active"
  /\ rows' = [u \in Users |-> IF u \in pair THEN 1 ELSE 0]
  /\ children' = kids
  /\ UNCHANGED <<account, request>>

(* setBondActive(): the bond is read with its members and its children ... *)
LoadBond(a, active) ==
  /\ bond # "absent"
  /\ Read(a, Request("toggle", NoUser, NoChild, active, Snapshot))
  /\ UNCHANGED <<account, tables>>

(* Faulty variant: the relations are written as they were read.            *)
SaveSnapshot(a) ==
  /\ request[a].op = "toggle"
  /\ bond' = IF request[a].active THEN "active" ELSE "inactive"
  /\ rows' = request[a].seen.rows
  /\ children' = children \cap request[a].seen.children
  /\ Answer(a)
  /\ UNCHANGED account

(* ... and saved whole: the ORM would take a row out of the bond that was  *)
(* added since, bond_id may not be null, and nothing is written.  A child  *)
(* removed since is not put back.                                          *)
SaveBond(a) ==
  LET seen == request[a].seen IN
  /\ request[a].op = "toggle"
  /\ IF rows = seen.rows /\ children \subseteq seen.children
       THEN bond' = IF request[a].active THEN "active" ELSE "inactive"
       ELSE UNCHANGED bond
  /\ Answer(a)
  /\ UNCHANGED <<account, rows, children>>

(* addBondMember(): bond, user and "not a member yet" are read ...         *)
CheckMember(a, u) ==
  /\ bond # "absent" /\ account[u] # "none" /\ rows[u] = 0
  /\ Read(a, Request("member", u, NoChild, FALSE, Nothing))
  /\ UNCHANGED <<account, tables>>

(* ... and the row is inserted.                                            *)
InsertMember(a) ==
  LET u == request[a].user IN
  /\ request[a].op = "member" /\ rows[u] < MaxRows
  /\ rows' = [rows EXCEPT ![u] = @ + 1]
  /\ Answer(a)
  /\ UNCHANGED <<account, bond, children>>

(* addChildToBond(), removeChild(): a bond is never deleted, and removing  *)
(* a child that is gone removes nothing.                                   *)
AddChild(c) ==
  /\ bond # "absent" /\ c \notin children
  /\ \A a \in Admins : request[a].child # c /\ c \notin request[a].seen.children
  /\ children' = children \cup {c}
  /\ UNCHANGED <<account, bond, rows, request>>
RemoveChild(c) ==
  /\ c \in children
  /\ children' = children \ {c}
  /\ UNCHANGED <<account, bond, rows, request>>

(* updateChild(): read, patched and saved; save() inserts a row that is    *)
(* gone by then.                                                           *)
LoadChild(a, c) ==
  /\ c \in children
  /\ Read(a, Request("child", NoUser, c, FALSE, Nothing))
  /\ UNCHANGED <<account, tables>>
SaveChild(a) ==
  /\ request[a].op = "child"
  /\ children' = children \cup {request[a].child}
  /\ Answer(a)
  /\ UNCHANGED <<account, bond, rows>>

(* A statement fails or the process dies: what is committed stays.         *)
Abandon(a) ==
  /\ request[a] # Idle
  /\ Answer(a)
  /\ UNCHANGED <<account, tables>>

AdminNext ==
  \/ \E a \in Admins :
       \/ \E u \in Users : CreateUser(a, u) \/ CheckMember(a, u)
       \/ \E active \in BOOLEAN : LoadBond(a, active)
       \/ \E c \in Children : LoadChild(a, c)
       \/ SaveProfile(a) \/ SaveBond(a) \/ InsertMember(a) \/ SaveChild(a) \/ Abandon(a)
  \/ \E pair \in SUBSET Users, kids \in SUBSET Children : CreateBond(pair, kids)
  \/ \E c \in Children : AddChild(c) \/ RemoveChild(c)

AdminSpec == AdminInit /\ [][AdminNext]_adminVars

-----------------------------------------------------------------------------
(* Properties.                                                             *)

(* Nobody ever leaves a bond: a toggle that saves the bond with the members*)
(* it read before another request added one loses none (setBondActive,     *)
(* "desactivar un bond no toca sus miembros, hijos ni historial").         *)
MembersStay ==
  [][\A u \in Users : rows'[u] >= rows[u]]_adminVars

(* admin.service.ts calls a bond without children a state the product      *)
(* considers invalid, and creates none.                                    *)
BondHasChildren == bond # "absent" => children # {}

=============================================================================
