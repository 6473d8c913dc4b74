---------------------------- MODULE Attachments ----------------------------
(***************************************************************************)
(* The files of one activity and of one expense of the same bond:          *)
(* ActivityAttachmentsService, ExpenseAttachmentsService and the bucket    *)
(* both share through StorageService.  A row holds the key of an object;   *)
(* nothing but this code keeps rows and objects together, and every        *)
(* request is a chain of awaits (read the activity, read the row, ask the  *)
(* bucket, write the row, remove an object) that interleaves with others   *)
(* and may stop anywhere.                                                  *)
(***************************************************************************)
EXTENDS FiniteSets, Naturals

CONSTANTS
  Users, Members,       \* who asks, and who is an active member of the bond
  Admins,               \* system administrators
  Requester,            \* who asked for the expense
  Ids,                  \* identities of activity attachment rows
  NoId, NoKey,
  ActivityKeys,         \* keys under activities/<bond>/<activity>/
  ExpenseKeys,          \* keys under expenses/<bond>/<expense>/
  Requests,
  MaxCalls              \* bound: requests that pass their first check

ASSUME AttachmentsAssumption ==
  /\ ActivityKeys \cap ExpenseKeys = {}
  /\ NoKey \notin ActivityKeys \cup ExpenseKeys
  /\ NoId \notin Ids
  /\ MaxCalls \in Nat

Keys == ActivityKeys \cup ExpenseKeys

VARIABLES
  activity,   \* the activity: "unassigned", "open" or "closed"
  signed,     \* keys an upload URL was issued for
  files,      \* keys of the objects in the bucket
  row,        \* activity attachment rows
  docs,       \* file_url of the expense's attachment rows
  origin,     \* expense.activity_id is set
  request,    \* requests in flight
  uses,       \* ghost: how often a key was recorded by a confirm, a replace or a convert
  calls,      \* requests so far
  clashed     \* ghost: rows two requests worked on at once, or a removal left half done

vars == <<activity, signed, files, row, docs, origin, request, calls, uses, clashed>>

ActivityOps == {"confirm", "remove", "rename", "replace"}
ExpenseOps == {"confirmDoc", "convert"}
Stages == {"find", "exists", "insert", "save", "drop", "delete", "link"}

Row == [key: Keys, by: Users]
NoRow == [key |-> NoKey, by |-> "nobody"]
Removed == [key |-> NoKey, by |-> "removed"]

Request == [op: ActivityOps \cup ExpenseOps, by: Users, id: Ids \cup {NoId},
            key: Keys \cup {NoKey}, seen: Row \cup {NoRow}, at: Stages]
Idle == [op |-> "none"]

Alive(i) == row[i] \notin {NoRow, Removed}

(* The stage that follows the checks every operation starts with. *)
AfterCheck ==
  [confirm |-> "exists", remove |-> "find", rename |-> "find", replace |-> "find",
   confirmDoc |-> "exists", convert |-> "find"]

AfterFind ==
  [remove |-> "drop", rename |-> "save", replace |-> "exists", convert |-> "insert"]

TypeOK ==
  /\ activity \in {"unassigned", "open", "closed"}
  /\ signed \subseteq Keys
  /\ files \subseteq Keys
  /\ row \in [Ids -> Row \cup {NoRow, Removed}]
  /\ docs \subseteq Keys
  /\ origin \in BOOLEAN
  /\ request \in [Requests -> Request \cup {Idle}]
  /\ uses \in [Keys -> 0 .. 2]
  /\ calls \in 0 .. MaxCalls
  /\ clashed \subseteq Ids

Init ==
  /\ activity = "unassigned"
  /\ signed = {} /\ files = {} /\ docs = {}
  /\ row = [i \in Ids |-> NoRow]
  /\ origin = FALSE
  /\ request = [r \in Requests |-> Idle]
  /\ uses = [k \in Keys |-> 0]
  /\ calls = 0
  /\ clashed = {}

Used(k) == uses' = [uses EXCEPT ![k] = IF @ = 2 THEN 2 ELSE @ + 1]
Goto(r, stage) == request' = [request EXCEPT ![r].at = stage]
Done(r) == request' = [request EXCEPT ![r] = Idle]
Stored == <<row, docs, origin>>
Ghosts == <<uses, clashed>>

-----------------------------------------------------------------------------
(* The requests. *)

(* ensureMemberAndEditable: a member, and an activity that is assigned and not terminal. *)
MayEdit(u) == u \in Members /\ activity = "open"

(* ensureRequester: a member, and the one who asked for the expense. *)
MayDocument(u) == u \in Members /\ u = Requester

(* presign: a URL for a key nobody has, under the prefix of its parent. *)
Presign(k) ==
  /\ k \notin signed
  /\ IF k \in ActivityKeys THEN \E u \in Users : MayEdit(u) ELSE \E u \in Users : MayDocument(u)
  /\ signed' = signed \cup {k}
  /\ UNCHANGED <<activity, files, Stored, request, Ghosts, calls>>

(* A call arrives and passes its first check; which row and which path it names is the
   client's choice. *)
Receive(r, op, u, i, k) ==
  /\ request[r] = Idle
  /\ calls < MaxCalls
  /\ IF op \in ActivityOps THEN MayEdit(u) ELSE MayDocument(u)
  /\ (i # NoId) <=> (op \in {"remove", "rename", "replace", "convert"})
  /\ (k # NoKey) <=> (op \in {"confirm", "replace", "confirmDoc"})
  /\ i # NoId => row[i] # NoRow
  /\ k # NoKey => k \in signed
  /\ request' = [request EXCEPT ![r] = [op |-> op, by |-> u, id |-> i, key |-> k,
                                        seen |-> NoRow, at |-> AfterCheck[op]]]
  /\ calls' = calls + 1
  /\ UNCHANGED <<activity, signed, files, Stored, Ghosts>>

Editing(r, i) ==
  request[r] # Idle /\ request[r].id = i /\ request[r].op # "convert" /\ request[r].seen # NoRow

(* findOne: only the uploader or an administrator goes on; convert has no such test. *)
Find(r) ==
  /\ request[r] # Idle
  /\ request[r].at = "find"
  /\ LET i == request[r].id IN
       /\ Alive(i)
       /\ request[r].op # "convert" => row[i].by = request[r].by \/ request[r].by \in Admins
       /\ request' = [request EXCEPT ![r].seen = row[i], ![r].at = AfterFind[request[r].op]]
       /\ clashed' = IF request[r].op # "convert" /\ \E s \in Requests : Editing(s, i)
                       THEN clashed \cup {i} ELSE clashed
  /\ UNCHANGED <<activity, signed, files, Stored, uses, calls>>

(* Faulty variant: confirm and replace without their prefix test. *)
AnyPrefix(op) == IF op = "confirmDoc" THEN ExpenseKeys ELSE Keys

Prefix(op) == IF op = "confirmDoc" THEN ExpenseKeys ELSE ActivityKeys

(* The path is under the parent's own prefix and the bucket has the object. *)
Exists(r) ==
  /\ request[r] # Idle
  /\ request[r].at = "exists"
  /\ request[r].key \in Prefix(request[r].op) \cap files
  /\ Goto(r, IF request[r].op = "replace" THEN "save" ELSE "insert")
  /\ UNCHANGED <<activity, signed, files, Stored, Ghosts, calls>>

(* confirm: the row of an activity attachment. *)
Insert(r) ==
  /\ request[r] # Idle
  /\ request[r].at = "insert" /\ request[r].op = "confirm"
  /\ \E i \in Ids : /\ row[i] = NoRow
                    /\ row' = [row EXCEPT ![i] = [key |-> request[r].key, by |-> request[r].by]]
  /\ Used(request[r].key)
  /\ Done(r)
  /\ UNCHANGED <<activity, signed, files, docs, origin, clashed, calls>>

(* confirm and convert of an expense: a row with the path sent, or with the key of the
   activity's own object. *)
InsertDoc(r) ==
  /\ request[r] # Idle
  /\ request[r].at = "insert" /\ request[r].op \in ExpenseOps
  /\ LET k == IF request[r].op = "convert" THEN request[r].seen.key ELSE request[r].key IN
       docs' = docs \cup {k} /\ Used(k)
  /\ IF request[r].op = "convert" THEN Goto(r, "link") ELSE Done(r)
  /\ UNCHANGED <<activity, signed, files, row, origin, clashed, calls>>

(* updateActivityId, an update of its own after the row is committed. *)
Link(r) ==
  /\ request[r] # Idle
  /\ request[r].at = "link"
  /\ origin' = TRUE
  /\ Done(r)
  /\ UNCHANGED <<activity, signed, files, row, docs, Ghosts, calls>>

(* save() of the entity read before: whatever happened to the row since, it ends as the
   snapshot with the operation's change, and is inserted again if it was deleted. *)
Save(r) ==
  /\ request[r] # Idle
  /\ request[r].at = "save"
  /\ LET seen == request[r].seen IN
     IF request[r].op = "replace"
       THEN /\ row' = [row EXCEPT ![request[r].id] = [seen EXCEPT !.key = request[r].key]]
            /\ Used(request[r].key)
            /\ Goto(r, "drop")
       ELSE /\ row' = [row EXCEPT ![request[r].id] = seen]
            /\ Done(r)
            /\ UNCHANGED uses
  /\ UNCHANGED <<activity, signed, files, docs, origin, clashed, calls>>

(* Faulty variant: replace removes the path it was sent instead of the one it read. *)
DropSent(r) ==
  /\ request[r] # Idle
  /\ request[r].at = "drop"
  /\ files' \in {files \ {IF request[r].op = "replace" THEN request[r].key ELSE request[r].seen.key},
                 files}
  /\ IF request[r].op = "remove" THEN Goto(r, "delete") ELSE Done(r)
  /\ UNCHANGED <<activity, signed, Stored, Ghosts, calls>>

(* removeObject of the key read with the row: its answer is not looked at. *)
Drop(r) ==
  /\ request[r] # Idle
  /\ request[r].at = "drop"
  /\ files' \in {files \ {request[r].seen.key}, files}
  /\ IF request[r].op = "remove" THEN Goto(r, "delete") ELSE Done(r)
  /\ UNCHANGED <<activity, signed, Stored, Ghosts, calls>>

Delete(r) ==
  /\ request[r] # Idle
  /\ request[r].at = "delete"
  /\ row' = [row EXCEPT ![request[r].id] = Removed]
  /\ Done(r)
  /\ UNCHANGED <<activity, signed, files, docs, origin, Ghosts, calls>>

(* A check fails, the process dies or the database refuses: the request ends where it is. *)
Abandon(r) ==
  /\ request[r] # Idle
  /\ clashed' = IF request[r].at = "delete" THEN clashed \cup {request[r].id} ELSE clashed
  /\ Done(r)
  /\ UNCHANGED <<activity, signed, files, Stored, uses, calls>>

-----------------------------------------------------------------------------
(* Outside: the client uses its URL, the activity moves on. *)

Upload(k) ==
  /\ k \in signed \ files
  /\ files' = files \cup {k}
  /\ UNCHANGED <<activity, signed, Stored, request, Ghosts, calls>>

Proceed ==
  /\ activity' = CASE activity = "unassigned" -> "open" [] OTHER -> "closed"
  /\ activity # "closed"
  /\ UNCHANGED <<signed, files, Stored, request, Ghosts, calls>>

RequestNext(r) ==
  \/ \E op \in ActivityOps \cup ExpenseOps, u \in Users, i \in Ids \cup {NoId}, k \in Keys \cup {NoKey} :
       Receive(r, op, u, i, k)
  \/ Find(r) \/ Exists(r) \/ Insert(r) \/ InsertDoc(r)
  \/ Link(r) \/ Save(r) \/ Drop(r) \/ Delete(r) \/ Abandon(r)

Next ==
  \/ \E r \in Requests : RequestNext(r)
  \/ \E k \in Keys : Presign(k) \/ Upload(k)
  \/ Proceed

Spec == Init /\ [][Next]_vars

-----------------------------------------------------------------------------
(* Properties. *)

(* The document of an expense that was uploaded for it is in the bucket for good: nothing an
   activity's endpoints do, by anyone and in any order, can reach an object under the
   expense's prefix (the prefix tests of ActivityAttachmentsService.confirm and replace). *)
OwnDocumentsStand == docs \cap ExpenseKeys \subseteq files

(* A row nobody is working on shows a file the bucket has, provided its key was recorded only
   once, no two requests ever worked on the row together and no removal stopped half way:
   replace writes the row before it removes the old object, remove does both. *)
SettledRowHasFile ==
  \A i \in Ids :
    (/\ Alive(i)
     /\ i \notin clashed
     /\ uses[row[i].key] = 1
     /\ \A r \in Requests : ~Editing(r, i)) => row[i].key \in files

(* "puede verlo, no puede cambiarle la evidencia" (expense-attachments.service.ts:35-37): the
   object behind a document of the expense is only ever removed by the requester. *)
EvidenceIsTheRequesters ==
  [][\A k \in docs : k \in files /\ k \notin files' =>
       \E r \in Requests : request[r] # Idle /\ request'[r] # request[r] /\ request[r].by = Requester]_vars
=============================================================================
