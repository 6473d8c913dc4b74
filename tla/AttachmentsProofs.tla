------------------------- MODULE AttachmentsProofs -------------------------
(***************************************************************************)
(* OwnDocumentsStand and SettledRowHasFile for any bond, any number of     *)
(* rows, keys and requests.  Neither is inductive: that no request removes *)
(* an object of the expense rests on where the keys in flight come from,   *)
(* and that a row at rest has its file on which rows have a claim on which *)
(* keys.                                                                   *)
(***************************************************************************)
EXTENDS Attachments, TLAPS

(* A request that has read a row names one, and the key it read is one of the activity's.  *)
SnapshotSound(q) ==
  /\ q.at = "find" => q.id \in Ids /\ q.op \in {"remove", "rename", "replace", "convert"}
  /\ q.seen # NoRow => q.id \in Ids /\ q.seen.key \in ActivityKeys
  /\ q.at \in {"save", "drop"} \/ (q.at = "insert" /\ q.op = "convert") => q.seen # NoRow
  /\ q.at = "exists" => \/ q.op \in {"confirm", "confirmDoc"}
                        \/ q.op = "replace" /\ q.seen # NoRow
  /\ q.at = "delete" => q.id \in Ids

(* A path that passed the prefix test is the parent's own, and a document's object is there. *)
PathSound(q, F) ==
  /\ q.at = "insert" /\ q.op = "confirm" => q.key \in ActivityKeys
  /\ q.at = "insert" /\ q.op = "confirmDoc" => q.key \in ExpenseKeys \cap F
  /\ q.at = "save" /\ q.op = "replace" => q.key \in ActivityKeys

RowsSound == \A i \in Ids : Alive(i) => row[i].key \in ActivityKeys

RequestsSound == \A r \in Requests : request[r] # Idle =>
                   SnapshotSound(request[r]) /\ PathSound(request[r], files)

AttachmentsInv == TypeOK /\ OwnDocumentsStand /\ RowsSound /\ RequestsSound

-----------------------------------------------------------------------------
(* Nothing is stored or asked for yet.                                     *)
LEMMA AttachmentsInit == Init => AttachmentsInv
<1> SUFFICES ASSUME Init PROVE AttachmentsInv
  OBVIOUS
<1>1. TypeOK
  <2>1. calls \in 0 .. MaxCalls
    BY AttachmentsAssumption DEF Init
  <2>2. uses \in [Keys -> 0 .. 2]
    BY DEF Init
  <2>. QED  BY <2>1, <2>2 DEF Init, TypeOK
<1>2. OwnDocumentsStand /\ RowsSound /\ RequestsSound
  BY DEF Init, OwnDocumentsStand, RowsSound, RequestsSound, Alive
<1>. QED  BY <1>1, <1>2 DEF AttachmentsInv

(* A request only ever changes itself: the others keep what was true of    *)
(* them as long as the objects of the expense stay.                        *)
LEMMA OthersKeep ==
  ASSUME RequestsSound, NEW r \in Requests, NEW q,
         request \in [Requests -> Request \cup {Idle}],
         request' = [request EXCEPT ![r] = q],
         files \cap ExpenseKeys \subseteq files',
         q # Idle => SnapshotSound(q) /\ PathSound(q, files')
  PROVE  RequestsSound'
<1> SUFFICES ASSUME NEW s \in Requests, request'[s] # Idle
             PROVE  SnapshotSound(request'[s]) /\ PathSound(request'[s], files')
  BY DEF RequestsSound
<1>1. CASE s = r
  BY <1>1
<1>2. CASE s # r
  <2>1. request'[s] = request[s]
    BY <1>2
  <2>. QED  BY <2>1 DEF RequestsSound, PathSound
<1>. QED  BY <1>1, <1>2

(* The three markers are none of the records they stand beside.            *)
LEMMA MarkersApart ==
  /\ NoRow \notin Row /\ Removed \notin Row /\ NoRow # Removed
  /\ Idle \notin Request
  /\ NoRow.key = NoKey
BY AttachmentsAssumption DEF NoRow, Removed, Row, Idle, Request, Keys

(* What a request in flight may become keeps its type.                     *)
LEMMA RequestMoves ==
  ASSUME TypeOK, NEW r \in Requests, request[r] # Idle
  PROVE  /\ request[r] \in Request
         /\ \A s \in Stages : [request EXCEPT ![r].at = s] \in [Requests -> Request \cup {Idle}]
         /\ [request EXCEPT ![r] = Idle] \in [Requests -> Request \cup {Idle}]
<1>1. request \in [Requests -> Request \cup {Idle}]
  BY DEF TypeOK
<1>2. request[r] \in Request
  BY <1>1
<1>3. ASSUME NEW s \in Stages
      PROVE  [request EXCEPT ![r].at = s] \in [Requests -> Request \cup {Idle}]
  <2>1. [request[r] EXCEPT !.at = s] \in Request
    BY <1>2 DEF Request
  <2>. QED  BY <1>1, <2>1
<1>4. [request EXCEPT ![r] = Idle] \in [Requests -> Request \cup {Idle}]
  BY <1>1
<1>. QED  BY <1>2, <1>3, <1>4

(* The prefixes of an activity and of an expense share no key.             *)
LEMMA KeysApart == ActivityKeys \cap ExpenseKeys = {} /\ NoKey \notin Keys
BY AttachmentsAssumption DEF Keys

(* The ghost that counts how often a key was recorded stays in its range.  *)
LEMMA UsedTyped ==
  ASSUME uses \in [Keys -> 0 .. 2], NEW k, Used(k)
  PROVE  uses' \in [Keys -> 0 .. 2]
<1>1. uses' = [uses EXCEPT ![k] = IF uses[k] = 2 THEN 2 ELSE uses[k] + 1]
  BY DEF Used
<1>2. k \in Keys => (IF uses[k] = 2 THEN 2 ELSE uses[k] + 1) \in 0 .. 2
  <2>1. k \in Keys => uses[k] \in 0 .. 2
    OBVIOUS
  <2>. QED  BY <2>1
<1>. QED  BY <1>1, <1>2

(* Typing, one action at a time.                                           *)
LEMMA TypingStep == AttachmentsInv /\ [Next]_vars => TypeOK'
<1> SUFFICES ASSUME AttachmentsInv, [Next]_vars PROVE TypeOK'
  OBVIOUS
<1>. USE DEF AttachmentsInv, TypeOK
<1>1. ASSUME NEW k \in Keys, Presign(k) PROVE TypeOK'
  BY <1>1 DEF Presign, Stored, Ghosts
<1>2. ASSUME NEW k \in Keys, Upload(k) PROVE TypeOK'
  BY <1>2 DEF Upload, Stored, Ghosts
<1>3. ASSUME Proceed PROVE TypeOK'
  BY <1>3 DEF Proceed, Stored, Ghosts
<1>4. ASSUME NEW r \in Requests, NEW op \in ActivityOps \cup ExpenseOps, NEW u \in Users,
             NEW i \in Ids \cup {NoId}, NEW k \in Keys \cup {NoKey}, Receive(r, op, u, i, k)
      PROVE  TypeOK'
  <2>1. AfterCheck[op] \in Stages
    BY DEF AfterCheck, Stages, ActivityOps, ExpenseOps
  <2>2. [op |-> op, by |-> u, id |-> i, key |-> k, seen |-> NoRow, at |-> AfterCheck[op]] \in Request
    BY <2>1 DEF Request
  <2>3. request' \in [Requests -> Request \cup {Idle}]
    BY <1>4, <2>2 DEF Receive
  <2>4. calls' \in 0 .. MaxCalls
    BY <1>4, AttachmentsAssumption DEF Receive
  <2>. QED  BY <1>4, <2>3, <2>4 DEF Receive, Stored, Ghosts
<1>5. ASSUME NEW r \in Requests, Find(r) PROVE TypeOK'
  <2>. DEFINE q == [request[r] EXCEPT !.seen = row[request[r].id], !.at = AfterFind[request[r].op]]
  <2>1. request[r] \in Request /\ request[r].id \in Ids /\ request[r].op \in DOMAIN AfterFind
    BY <1>5, RequestMoves DEF Find, RequestsSound, SnapshotSound, AfterFind
  <2>2. row[request[r].id] \in Row
    BY <1>5, <2>1 DEF Find, Alive
  <2>3. AfterFind[request[r].op] \in Stages
    BY <2>1 DEF AfterFind, Stages
  <2>4. q \in Request
    BY <2>1, <2>2, <2>3 DEF Request
  <2>5. request' = [request EXCEPT ![r] = q]
    BY <1>5 DEF Find
  <2>6. clashed' \subseteq Ids
    BY <1>5, <2>1 DEF Find
  <2>. QED  BY <1>5, <2>4, <2>5, <2>6 DEF Find, Stored
<1>6. ASSUME NEW r \in Requests, Exists(r) PROVE TypeOK'
  <2>1. request' \in [Requests -> Request \cup {Idle}]
    BY <1>6, RequestMoves DEF Exists, Goto, Stages
  <2>. QED  BY <1>6, <2>1 DEF Exists, Stored, Ghosts
<1>7. ASSUME NEW r \in Requests, Insert(r) PROVE TypeOK'
  <2>1. request[r] \in Request /\ request' \in [Requests -> Request \cup {Idle}]
    BY <1>7, RequestMoves DEF Insert, Done
  <2>2. request[r].key \in Keys
    BY <1>7, <2>1, KeysApart DEF Insert, RequestsSound, PathSound, Keys
  <2>3. [key |-> request[r].key, by |-> request[r].by] \in Row
    BY <2>1, <2>2 DEF Row, Request
  <2>4. row' \in [Ids -> Row \cup {NoRow, Removed}]
    BY <1>7, <2>3 DEF Insert
  <2>5. uses' \in [Keys -> 0 .. 2]
    BY <1>7, UsedTyped DEF Insert
  <2>. QED  BY <1>7, <2>1, <2>4, <2>5 DEF Insert
<1>8. ASSUME NEW r \in Requests, InsertDoc(r) PROVE TypeOK'
  <2>. DEFINE k == IF request[r].op = "convert" THEN request[r].seen.key ELSE request[r].key
  <2>1. request' \in [Requests -> Request \cup {Idle}]
    <3>1. \/ request' = [request EXCEPT ![r].at = "link"]
          \/ request' = [request EXCEPT ![r] = Idle]
      BY <1>8 DEF InsertDoc, Goto, Done
    <3>2. request[r] # Idle /\ "link" \in Stages
      BY <1>8 DEF InsertDoc, Stages
    <3>3. CASE request' = [request EXCEPT ![r].at = "link"]
      BY <3>2, <3>3, RequestMoves
    <3>4. CASE request' = [request EXCEPT ![r] = Idle]
      BY <3>2, <3>4, RequestMoves
    <3>. QED  BY <3>1, <3>3, <3>4
  <2>2. k \in Keys
    BY <1>8 DEF InsertDoc, RequestsSound, SnapshotSound, PathSound, Keys, ExpenseOps
  <2>3. docs' \subseteq Keys
    BY <1>8, <2>2 DEF InsertDoc
  <2>4. uses' \in [Keys -> 0 .. 2]
    BY <1>8, UsedTyped DEF InsertDoc
  <2>. QED  BY <1>8, <2>1, <2>3, <2>4 DEF InsertDoc
<1>9. ASSUME NEW r \in Requests, Link(r) PROVE TypeOK'
  BY <1>9, RequestMoves DEF Link, Done, Ghosts
<1>10. ASSUME NEW r \in Requests, Save(r) PROVE TypeOK'
  <2>1. request[r] \in Request /\ request' \in [Requests -> Request \cup {Idle}]
    <3>1. \/ request' = [request EXCEPT ![r].at = "drop"]
          \/ request' = [request EXCEPT ![r] = Idle]
      BY <1>10 DEF Save, Goto, Done
    <3>2. request[r] # Idle /\ "drop" \in Stages
      BY <1>10 DEF Save, Stages
    <3>. QED  BY <3>1, <3>2, RequestMoves
  <2>2. request[r].seen \in Row
    BY <1>10, <2>1 DEF Save, RequestsSound, SnapshotSound, Request
  <2>3. request[r].op = "replace" => [request[r].seen EXCEPT !.key = request[r].key] \in Row
    BY <1>10, <2>2 DEF Save, RequestsSound, PathSound, Row, Keys
  <2>4. row' \in [Ids -> Row \cup {NoRow, Removed}]
    BY <1>10, <2>2, <2>3 DEF Save
  <2>5. uses' \in [Keys -> 0 .. 2]
    BY <1>10, UsedTyped DEF Save
  <2>. QED  BY <1>10, <2>1, <2>4, <2>5 DEF Save
<1>11. ASSUME NEW r \in Requests, Drop(r) PROVE TypeOK'
  <2>1. request' \in [Requests -> Request \cup {Idle}]
    <3>1. \/ request' = [request EXCEPT ![r].at = "delete"]
          \/ request' = [request EXCEPT ![r] = Idle]
      BY <1>11 DEF Drop, Goto, Done
    <3>2. request[r] # Idle /\ "delete" \in Stages
      BY <1>11 DEF Drop, Stages
    <3>3. CASE request' = [request EXCEPT ![r].at = "delete"]
      BY <3>2, <3>3, RequestMoves
    <3>4. CASE request' = [request EXCEPT ![r] = Idle]
      BY <3>2, <3>4, RequestMoves
    <3>. QED  BY <3>1, <3>3, <3>4
  <2>. QED  BY <1>11, <2>1 DEF Drop, Stored, Ghosts
<1>12. ASSUME NEW r \in Requests, Delete(r) PROVE TypeOK'
  BY <1>12, RequestMoves DEF Delete, Done, Ghosts
<1>13. ASSUME NEW r \in Requests, Abandon(r) PROVE TypeOK'
  <2>1. clashed' \subseteq Ids
    BY <1>13 DEF Abandon, RequestsSound, SnapshotSound
  <2>. QED  BY <1>13, <2>1, RequestMoves DEF Abandon, Done, Stored
<1>14. ASSUME UNCHANGED vars PROVE TypeOK'
  BY <1>14 DEF vars
<1>. QED  BY <1>1, <1>2, <1>3, <1>4, <1>5, <1>6, <1>7, <1>8, <1>9, <1>10, <1>11, <1>12, <1>13,
             <1>14 DEF Next, RequestNext

(* Where the keys in flight come from, and that no object of the expense   *)
(* ever goes.                                                              *)
LEMMA SoundStep ==
  AttachmentsInv /\ [Next]_vars => OwnDocumentsStand' /\ RowsSound' /\ RequestsSound'
<1> SUFFICES ASSUME AttachmentsInv, [Next]_vars
             PROVE  OwnDocumentsStand' /\ RowsSound' /\ RequestsSound'
  OBVIOUS
<1>. USE DEF AttachmentsInv
<1>a. request \in [Requests -> Request \cup {Idle}] /\ row \in [Ids -> Row \cup {NoRow, Removed}]
  BY DEF TypeOK
<1>1. ASSUME Proceed \/ \E k \in Keys : Presign(k) \/ Upload(k)
      PROVE  OwnDocumentsStand' /\ RowsSound' /\ RequestsSound'
  BY <1>1 DEF Presign, Upload, Proceed, Stored, Ghosts, OwnDocumentsStand, RowsSound, RequestsSound,
              PathSound, Alive
<1>2. ASSUME UNCHANGED vars
      PROVE  OwnDocumentsStand' /\ RowsSound' /\ RequestsSound'
  BY <1>2 DEF vars, OwnDocumentsStand, RowsSound, RequestsSound, PathSound, Alive
<1>3. ASSUME NEW r \in Requests, NEW op \in ActivityOps \cup ExpenseOps, NEW u \in Users,
             NEW i \in Ids \cup {NoId}, NEW k \in Keys \cup {NoKey}, Receive(r, op, u, i, k)
      PROVE  OwnDocumentsStand' /\ RowsSound' /\ RequestsSound'
  <2>. DEFINE q == [op |-> op, by |-> u, id |-> i, key |-> k, seen |-> NoRow, at |-> AfterCheck[op]]
  <2>1. q.at = "find" => i \in Ids /\ op \in {"remove", "rename", "replace", "convert"}
    BY <1>3 DEF Receive, AfterCheck, ActivityOps, ExpenseOps
  <2>2. q.at = "find" \/ (q.at = "exists" /\ q.op \in {"confirm", "confirmDoc"})
    BY DEF AfterCheck, ActivityOps, ExpenseOps
  <2>3. SnapshotSound(q) /\ PathSound(q, files')
    BY <2>1, <2>2 DEF SnapshotSound, PathSound
  <2>4. RequestsSound'
    BY <1>3, <1>a, <2>3, OthersKeep DEF Receive
  <2>. QED  BY <1>3, <2>4 DEF Receive, Stored, OwnDocumentsStand, RowsSound, Alive
<1>4. ASSUME NEW r \in Requests, Find(r)
      PROVE  OwnDocumentsStand' /\ RowsSound' /\ RequestsSound'
  <2>. DEFINE q == [request[r] EXCEPT !.seen = row[request[r].id], !.at = AfterFind[request[r].op]]
  <2>1. /\ request[r] \in Request /\ request[r].id \in Ids
        /\ request[r].op \in {"remove", "rename", "replace", "convert"}
    BY <1>4, <1>a DEF Find, RequestsSound, SnapshotSound
  <2>2. row[request[r].id].key \in ActivityKeys /\ row[request[r].id] # NoRow
    BY <1>4, <2>1 DEF Find, RowsSound, Alive
  <2>3. /\ q.at \in {"drop", "save", "exists", "insert"}
        /\ q.at = "insert" => q.op = "convert"
        /\ q.at = "exists" => q.op = "replace"
    BY <2>1 DEF AfterFind, Request
  <2>4. q.at = "save" => q.op = "rename"
    BY <2>1 DEF AfterFind, Request
  <2>5. SnapshotSound(q)
    <3>1. /\ q.id = request[r].id /\ q.op = request[r].op /\ q.seen = row[request[r].id]
          /\ q.at # "find" /\ q.at # "delete"
      BY <2>1, <2>3 DEF Request
    <3>. HIDE DEF q
    <3>. QED  BY <2>1, <2>2, <2>3, <2>4, <3>1 DEF SnapshotSound
  <2>7. PathSound(q, files')
    <3>1. q.op = request[r].op
      BY <2>1 DEF Request
    <3>. HIDE DEF q
    <3>. QED  BY <2>1, <2>3, <2>4, <3>1 DEF PathSound
  <2>6. RequestsSound'
    <3>1. request' = [request EXCEPT ![r] = q] /\ files' = files
      BY <1>4, <1>a DEF Find
    <3>. HIDE DEF q
    <3>. QED  BY <1>a, <2>5, <2>7, <3>1, OthersKeep
  <2>8. UNCHANGED <<row, docs, files>>
    BY <1>4 DEF Find, Stored
  <2>9. OwnDocumentsStand' /\ RowsSound'
    BY <1>a, <2>8 DEF OwnDocumentsStand, RowsSound, Alive
  <2>. QED  BY <2>6, <2>9
<1>5. ASSUME NEW r \in Requests, Exists(r)
      PROVE  OwnDocumentsStand' /\ RowsSound' /\ RequestsSound'
  <2>. DEFINE q == [request[r] EXCEPT !.at = IF request[r].op = "replace" THEN "save" ELSE "insert"]
  <2>1. request[r] \in Request /\ SnapshotSound(request[r])
    BY <1>5, <1>a DEF Exists, RequestsSound
  <2>2. SnapshotSound(q) /\ PathSound(q, files')
    BY <1>5, <2>1 DEF Exists, SnapshotSound, PathSound, Prefix, Request, Stored
  <2>3. RequestsSound'
    BY <1>5, <1>a, <2>2, OthersKeep DEF Exists, Goto, Stored
  <2>. QED  BY <1>5, <2>3 DEF Exists, Stored, OwnDocumentsStand, RowsSound, Alive
<1>6. ASSUME NEW r \in Requests, Insert(r)
      PROVE  OwnDocumentsStand' /\ RowsSound' /\ RequestsSound'
  <2>1. request[r].key \in ActivityKeys
    BY <1>6 DEF Insert, RequestsSound, PathSound
  <2>2. PICK i \in Ids : row' = [row EXCEPT ![i] = [key |-> request[r].key, by |-> request[r].by]]
    BY <1>6 DEF Insert
  <2>3. RowsSound'
    BY <1>a, <2>1, <2>2 DEF RowsSound, Alive
  <2>4. RequestsSound'
    BY <1>6, <1>a, OthersKeep DEF Insert, Done
  <2>. QED  BY <1>6, <2>3, <2>4 DEF Insert, OwnDocumentsStand
<1>7. ASSUME NEW r \in Requests, InsertDoc(r)
      PROVE  OwnDocumentsStand' /\ RowsSound' /\ RequestsSound'
  <2>. DEFINE k == IF request[r].op = "convert" THEN request[r].seen.key ELSE request[r].key
              q == IF request[r].op = "convert" THEN [request[r] EXCEPT !.at = "link"] ELSE Idle
  <2>1. request[r] \in Request /\ SnapshotSound(request[r]) /\ PathSound(request[r], files)
    BY <1>7, <1>a DEF InsertDoc, RequestsSound
  <2>2. k \in ActivityKeys \/ k \in ExpenseKeys \cap files
    BY <1>7, <2>1 DEF InsertDoc, SnapshotSound, PathSound, ExpenseOps
  <2>3. OwnDocumentsStand'
    BY <1>7, <2>2, KeysApart DEF InsertDoc, OwnDocumentsStand
  <2>4. q # Idle => SnapshotSound(q) /\ PathSound(q, files')
    BY <2>1 DEF SnapshotSound, PathSound, Request
  <2>5. request' = [request EXCEPT ![r] = q]
    BY <1>7 DEF InsertDoc, Goto, Done
  <2>6. RequestsSound'
    BY <1>7, <1>a, <2>4, <2>5, OthersKeep DEF InsertDoc
  <2>. QED  BY <1>7, <2>3, <2>6 DEF InsertDoc, RowsSound, Alive
<1>8. ASSUME NEW r \in Requests, Link(r) \/ Abandon(r)
      PROVE  OwnDocumentsStand' /\ RowsSound' /\ RequestsSound'
  <2>1. RequestsSound'
    BY <1>8, <1>a, OthersKeep DEF Link, Abandon, Done
  <2>. QED  BY <1>8, <2>1 DEF Link, Abandon, Stored, OwnDocumentsStand, RowsSound, Alive
<1>9. ASSUME NEW r \in Requests, Save(r)
      PROVE  OwnDocumentsStand' /\ RowsSound' /\ RequestsSound'
  <2>. DEFINE seen == request[r].seen
              put  == IF request[r].op = "replace" THEN [seen EXCEPT !.key = request[r].key] ELSE seen
              q == IF request[r].op = "replace" THEN [request[r] EXCEPT !.at = "drop"] ELSE Idle
  <2>1. request[r] \in Request /\ SnapshotSound(request[r]) /\ PathSound(request[r], files)
    BY <1>9, <1>a DEF Save, RequestsSound
  <2>2. seen \in Row /\ seen.key \in ActivityKeys
    BY <1>9, <2>1 DEF Save, SnapshotSound, Request
  <2>3. put.key \in ActivityKeys
    BY <1>9, <2>1, <2>2 DEF Save, PathSound, Row
  <2>4. row' = [row EXCEPT ![request[r].id] = put]
    BY <1>9 DEF Save
  <2>5. RowsSound'
    BY <1>a, <2>3, <2>4 DEF RowsSound, Alive
  <2>6. q # Idle => SnapshotSound(q) /\ PathSound(q, files')
    BY <1>9, <2>1 DEF Save, SnapshotSound, PathSound, Request
  <2>7. request' = [request EXCEPT ![r] = q]
    BY <1>9 DEF Save, Goto, Done
  <2>8. RequestsSound'
    BY <1>9, <1>a, <2>6, <2>7, OthersKeep DEF Save
  <2>. QED  BY <1>9, <2>5, <2>8 DEF Save, OwnDocumentsStand
<1>10. ASSUME NEW r \in Requests, Drop(r)
       PROVE  OwnDocumentsStand' /\ RowsSound' /\ RequestsSound'
  <2>. DEFINE q == IF request[r].op = "remove" THEN [request[r] EXCEPT !.at = "delete"] ELSE Idle
  <2>1. request[r] \in Request /\ SnapshotSound(request[r])
    BY <1>10, <1>a DEF Drop, RequestsSound
  <2>2. files \cap ExpenseKeys \subseteq files'
    BY <1>10, <2>1, KeysApart DEF Drop, SnapshotSound
  <2>3. q # Idle => SnapshotSound(q) /\ PathSound(q, files')
    BY <1>10, <2>1 DEF Drop, SnapshotSound, PathSound, Request
  <2>4. request' = [request EXCEPT ![r] = q]
    BY <1>10 DEF Drop, Goto, Done
  <2>5. RequestsSound'
    BY <1>a, <2>2, <2>3, <2>4, OthersKeep
  <2>. QED  BY <1>10, <2>2, <2>5 DEF Drop, Stored, OwnDocumentsStand, RowsSound, Alive
<1>11. ASSUME NEW r \in Requests, Delete(r)
       PROVE  OwnDocumentsStand' /\ RowsSound' /\ RequestsSound'
  <2>1. RowsSound'
    BY <1>11, <1>a DEF Delete, RowsSound, Alive
  <2>2. RequestsSound'
    BY <1>11, <1>a, OthersKeep DEF Delete, Done
  <2>. QED  BY <1>11, <2>1, <2>2 DEF Delete, OwnDocumentsStand
<1>. QED  BY <1>1, <1>2, <1>3, <1>4, <1>5, <1>6, <1>7, <1>8, <1>9, <1>10, <1>11 DEF Next, RequestNext

(* The inductive invariant: what each request in flight may still touch.   *)
THEOREM AttachmentsAlways == Spec => []AttachmentsInv
<1>1. AttachmentsInv /\ [Next]_vars => AttachmentsInv'
  BY TypingStep, SoundStep DEF AttachmentsInv
<1>. QED  BY <1>1, AttachmentsInit, PTL DEF Spec

(* No sequence of calls on the activity's files, by any users, removes the *)
(* object behind a document that was uploaded for the expense.             *)
THEOREM OwnDocumentsAlwaysStand == Spec => []OwnDocumentsStand
<1>1. AttachmentsInv => OwnDocumentsStand
  BY DEF AttachmentsInv
<1>. QED  BY <1>1, AttachmentsAlways, PTL

-----------------------------------------------------------------------------
(* Rows that have settled.                                                 *)

(* The stages an operation passes, and that it holds no row before findOne.*)
StageSound(q) ==
  /\ q.at = "find" \/ q.op \in {"confirm", "confirmDoc"} => q.seen = NoRow
  /\ q.at = "save" => q.op \in {"rename", "replace"}
  /\ q.at = "drop" => q.op \in {"remove", "replace"}
  /\ q.at = "delete" => q.op = "remove" /\ q.seen # NoRow
  /\ q.at \in {"insert", "link"} => q.op \in {"confirm", "confirmDoc", "convert"}
StagesSound == \A r \in Requests : request[r] # Idle => StageSound(request[r])

(* A row has a claim on the key that it shows, and on the key that someone *)
(* who works on it has read and may save again.  A key with a claim has    *)
(* been recorded; if it was recorded once, the claims are one row's.       *)
Claims(i, k) ==
  \/ Alive(i) /\ row[i].key = k
  \/ \E r \in Requests : Editing(r, i) /\ request[r].seen.key = k
ClaimsCounted == \A i \in Ids, k \in Keys : Claims(i, k) => uses[k] # 0
ClaimsApart ==
  \A i, j \in Ids, k \in Keys : Claims(i, k) /\ Claims(j, k) /\ uses[k] = 1 => i = j

(* A path that is about to be recorded was in the bucket when it was looked*)
(* for; it may have gone only because it is recorded somewhere already.    *)
Checked(q) == (q.at = "insert" /\ q.op = "confirm") \/ (q.at = "save" /\ q.op = "replace")
PathsThere ==
  \A r \in Requests : request[r] # Idle /\ Checked(request[r]) =>
    request[r].key \in files \/ uses[request[r].key] # 0

(* Whoever works on a row that nobody else has worked on sees it as it is, *)
(* with its own change.                                                    *)
EditSound(q, x) ==
  /\ q.at \in {"exists", "save", "delete"} \/ q.op = "remove" => x = q.seen
  /\ q.at = "drop" /\ q.op = "replace" => x.key = q.key
EditsSound ==
  \A i \in Ids, r \in Requests : Editing(r, i) =>
    /\ row[i] # NoRow
    /\ request[r].at = "drop" /\ request[r].op = "replace" /\ request[r].key = request[r].seen.key =>
         uses[request[r].key] = 2
    /\ i \notin clashed => /\ EditSound(request[r], row[i])
                           /\ \A s \in Requests : Editing(s, i) => s = r

(* Only a removal between its two halves leaves a row without its object.  *)
Halfway(i) == \E r \in Requests : Editing(r, i) /\ request[r].at = "delete"
FilesThere ==
  \A i \in Ids : Alive(i) /\ i \notin clashed /\ uses[row[i].key] = 1 /\ ~Halfway(i) =>
    row[i].key \in files

SettledInv ==
  StagesSound /\ ClaimsCounted /\ ClaimsApart /\ PathsThere /\ EditsSound /\ FilesThere

LEMMA SettledInit == Init => SettledInv
BY DEF Init, SettledInv, StagesSound, ClaimsCounted, ClaimsApart, PathsThere, EditsSound,
       FilesThere, Claims, Editing, Alive

(* Recording a key counts it, up to two, and no other.                     *)
LEMMA UsedCounts ==
  ASSUME TypeOK, NEW k \in Keys, Used(k)
  PROVE  /\ uses'[k] # 0
         /\ uses[k] # 0 => uses'[k] = 2
         /\ \A j \in Keys : /\ j # k => uses'[j] = uses[j]
                            /\ uses[j] # 0 => uses'[j] # 0
                            /\ uses[j] = 2 => uses'[j] = 2
<1>1. uses \in [Keys -> 0 .. 2]
  BY DEF TypeOK
<1>2. uses[k] \in 0 .. 2
  BY <1>1
<1>3. uses'[k] = IF uses[k] = 2 THEN 2 ELSE uses[k] + 1
  BY <1>1 DEF Used
<1>4. \A j \in Keys : j # k => uses'[j] = uses[j]
  BY <1>1 DEF Used
<1>. QED  BY <1>2, <1>3, <1>4

(* Claims that were there before, and one on the key just recorded.        *)
LEMMA ClaimsKept ==
  ASSUME TypeOK, SettledInv, UNCHANGED uses,
         \A i \in Ids, k \in Keys : Claims(i, k)' => Claims(i, k)
  PROVE  ClaimsCounted' /\ ClaimsApart'
BY DEF SettledInv, ClaimsCounted, ClaimsApart

LEMMA ClaimsRecorded ==
  ASSUME TypeOK, SettledInv, NEW n, NEW h \in Keys, Used(h),
         \A i \in Ids, k \in Keys : Claims(i, k)' => Claims(i, k) \/ (i = n /\ k = h)
  PROVE  ClaimsCounted' /\ ClaimsApart'
<1>1. /\ uses'[h] # 0
      /\ uses[h] # 0 => uses'[h] = 2
      /\ \A j \in Keys : /\ j # h => uses'[j] = uses[j]
                         /\ uses[j] # 0 => uses'[j] # 0
  BY UsedCounts
<1>2. ClaimsCounted'
  BY <1>1 DEF SettledInv, ClaimsCounted
<1>3. ASSUME NEW i \in Ids, NEW j \in Ids, NEW k \in Keys, Claims(i, k)', Claims(j, k)',
             uses'[k] = 1
      PROVE  i = j
  <2>1. CASE k = h
    <3>1. \A m \in Ids : ~Claims(m, h)
      BY <1>1, <1>3, <2>1 DEF SettledInv, ClaimsCounted
    <3>. QED  BY <1>3, <2>1, <3>1
  <2>2. CASE k # h
    BY <1>1, <1>3, <2>2 DEF SettledInv, ClaimsApart
  <2>. QED  BY <2>1, <2>2
<1>4. ClaimsApart'
  BY <1>3 DEF ClaimsApart
<1>. QED  BY <1>2, <1>4

(* A step of a request that records nothing and works on no row that it did*)
(* not work on before; one that gives a removal up half way marks the row. *)
LEMMA RequestAlone ==
  ASSUME TypeOK, SettledInv, NEW r \in Requests, NEW q \in Request \cup {Idle},
         request' = [request EXCEPT ![r] = q],
         UNCHANGED <<row, uses, files>>, clashed \subseteq clashed',
         q # Idle => StageSound(q) /\ (Checked(q) => q.key \in files),
         q # Idle /\ q.op # "convert" /\ q.seen # NoRow =>
           /\ request[r] # Idle /\ request[r].op = q.op /\ request[r].id = q.id
           /\ request[r].seen = q.seen
           /\ q.at \in {"exists", "save"} /\ request[r].at \in {"exists", "save"},
         request[r] # Idle /\ request[r].at = "delete" => request[r].id \in clashed'
  PROVE  SettledInv'
<1>0. request \in [Requests -> Request \cup {Idle}]
  BY DEF TypeOK
<1>1. /\ request'[r] = q
      /\ \A s \in Requests : s # r => request'[s] = request[s]
  BY <1>0
<1>2. \A s \in Requests, i \in Ids : Editing(s, i)' =>
        /\ Editing(s, i)
        /\ request'[s].seen = request[s].seen /\ request'[s].op = request[s].op
        /\ s # r => request'[s] = request[s]
        /\ s = r => request'[s].at \in {"exists", "save"} /\ request[s].at \in {"exists", "save"}
  BY <1>1 DEF Editing
<1>3. StagesSound'
  BY <1>1 DEF SettledInv, StagesSound
<1>4. \A i \in Ids, k \in Keys : Claims(i, k)' => Claims(i, k)
  BY <1>2 DEF Claims, Alive
<1>5. ClaimsCounted' /\ ClaimsApart'
  BY <1>4, ClaimsKept
<1>6. PathsThere'
  BY <1>1 DEF SettledInv, PathsThere
<1>7. EditsSound'
  <2>. SUFFICES ASSUME NEW i \in Ids, NEW s \in Requests, Editing(s, i)'
                PROVE  /\ row[i] # NoRow
                       /\ request'[s].at = "drop" /\ request'[s].op = "replace"
                          /\ request'[s].key = request'[s].seen.key => uses[request'[s].key] = 2
                       /\ i \notin clashed' => /\ EditSound(request'[s], row[i])
                                               /\ \A t \in Requests : Editing(t, i)' => t = s
    BY DEF EditsSound, EditSound
  <2>1. row[i] # NoRow /\ (i \notin clashed => \A t \in Requests : Editing(t, i)' => t = s)
    BY <1>2 DEF SettledInv, EditsSound
  <2>2. CASE s # r
    BY <1>2, <2>1, <2>2 DEF SettledInv, EditsSound
  <2>3. CASE s = r
    <3>1. i \notin clashed => EditSound(request[s], row[i])
      BY <1>2 DEF SettledInv, EditsSound
    <3>2. i \notin clashed => EditSound(request'[s], row[i])
      BY <1>2, <2>3, <3>1 DEF EditSound
    <3>. QED  BY <1>2, <2>1, <2>3, <3>2
  <2>. QED  BY <2>2, <2>3
<1>8. FilesThere'
  <2>. SUFFICES ASSUME NEW i \in Ids, Alive(i), i \notin clashed', uses[row[i].key] = 1, ~Halfway(i)'
                PROVE  row[i].key \in files
    BY DEF FilesThere, Alive
  <2>1. \A s \in Requests : Editing(s, i) /\ s # r => Editing(s, i)' /\ request'[s] = request[s]
    BY <1>1 DEF Editing
  <2>2. ~Halfway(i)
    BY <2>1 DEF Halfway, Editing
  <2>. QED  BY <2>2 DEF SettledInv, FilesThere
<1>. QED  BY <1>3, <1>5, <1>6, <1>7, <1>8 DEF SettledInv

(* findOne() of an operation that changes the row: from here on it works on*)
(* the row as it is, alone or on a row that is marked.                     *)
LEMMA FindSettles ==
  ASSUME TypeOK, SettledInv, NEW r \in Requests, Find(r), request[r].id \in Ids,
         request[r].op \in {"remove", "rename", "replace"}
  PROVE  SettledInv'
<1>0. request \in [Requests -> Request \cup {Idle}] /\ row \in [Ids -> Row \cup {NoRow, Removed}]
  BY DEF TypeOK
<1>1. PICK n \in Ids : n = request[r].id
  OBVIOUS
<1>2. PICK q : q = [request[r] EXCEPT !.seen = row[n], !.at = AfterFind[request[r].op]]
  OBVIOUS
<1>3. /\ request[r] # Idle /\ request[r].at = "find" /\ Alive(n)
      /\ request' = [request EXCEPT ![r] = q]
      /\ clashed' = IF \E s \in Requests : Editing(s, n) THEN clashed \cup {n} ELSE clashed
      /\ UNCHANGED <<row, uses, files>>
  BY <1>0, <1>1, <1>2 DEF Find, Stored
<1>4. row[n] \in Row /\ request[r] \in Request
  BY <1>0, <1>3 DEF Alive
<1>5. /\ q \in Request /\ q.id = n /\ q.op = request[r].op /\ q.seen = row[n] /\ q.key = request[r].key
      /\ q.op = "remove" => q.at = "drop"
      /\ q.op = "rename" => q.at = "save"
      /\ q.op = "replace" => q.at = "exists"
  <2>1. /\ AfterFind["remove"] = "drop" /\ AfterFind["rename"] = "save"
        /\ AfterFind["replace"] = "exists"
    BY DEF AfterFind
  <2>2. AfterFind[request[r].op] \in Stages
    BY <2>1 DEF Stages
  <2>. QED  BY <1>1, <1>2, <1>4, <2>1, <2>2 DEF Request
<1>6. /\ request'[r] = q
      /\ \A s \in Requests : s # r => request'[s] = request[s]
  BY <1>0, <1>3
<1>7. ~Editing(r, n) /\ request[r].seen = NoRow
  BY <1>3, <1>1 DEF SettledInv, StagesSound, StageSound, Editing
<1>8. /\ \A s \in Requests, i \in Ids : s # r => (Editing(s, i)' <=> Editing(s, i))
      /\ \A i \in Ids : Editing(r, i)' => i = n
      /\ \A i \in Ids : ~Editing(r, i)
  BY <1>5, <1>6, <1>7 DEF Editing
<1>9. StagesSound'
  BY <1>4, <1>5, <1>6, MarkersApart DEF SettledInv, StagesSound, StageSound
<1>10. \A i \in Ids, k \in Keys : Claims(i, k)' => Claims(i, k)
  BY <1>3, <1>5, <1>6, <1>8 DEF Claims, Alive
<1>11. ClaimsCounted' /\ ClaimsApart'
  BY <1>3, <1>10, ClaimsKept
<1>12. PathsThere'
  BY <1>3, <1>5, <1>6 DEF SettledInv, PathsThere, Checked
<1>13. EditsSound'
  <2>. SUFFICES ASSUME NEW i \in Ids, NEW s \in Requests, Editing(s, i)'
                PROVE  /\ row[i] # NoRow
                       /\ request'[s].at = "drop" /\ request'[s].op = "replace"
                          /\ request'[s].key = request'[s].seen.key => uses[request'[s].key] = 2
                       /\ i \notin clashed' => /\ EditSound(request'[s], row[i])
                                               /\ \A t \in Requests : Editing(t, i)' => t = s
    BY <1>3 DEF EditsSound, EditSound
  <2>1. CASE s = r
    <3>1. i = n /\ row[i] # NoRow /\ ~(q.at = "drop" /\ q.op = "replace")
      BY <1>3, <1>5, <1>8, <2>1 DEF Alive
    <3>2. EditSound(q, row[i])
      BY <1>5, <3>1 DEF EditSound
    <3>3. i \notin clashed' => \A t \in Requests : Editing(t, i)' => t = r
      BY <1>3, <1>8, <3>1
    <3>. QED  BY <1>6, <2>1, <3>1, <3>2, <3>3
  <2>2. CASE s # r
    <3>1. Editing(s, i) /\ request'[s] = request[s]
      BY <1>6, <1>8, <2>2
    <3>2. i \notin clashed' => i # n /\ i \notin clashed
      BY <1>3, <3>1
    <3>3. i \notin clashed' => \A t \in Requests : Editing(t, i)' => t = s
      BY <1>8, <3>1, <3>2 DEF SettledInv, EditsSound
    <3>. QED  BY <3>1, <3>2, <3>3 DEF SettledInv, EditsSound
  <2>. QED  BY <2>1, <2>2
<1>14. FilesThere'
  <2>. SUFFICES ASSUME NEW i \in Ids, Alive(i), i \notin clashed', uses[row[i].key] = 1, ~Halfway(i)'
                PROVE  row[i].key \in files
    BY <1>3 DEF FilesThere, Alive
  <2>1. ~Halfway(i) /\ i \notin clashed
    BY <1>3, <1>6, <1>8 DEF Halfway
  <2>. QED  BY <2>1 DEF SettledInv, FilesThere
<1>. QED  BY <1>9, <1>11, <1>12, <1>13, <1>14 DEF SettledInv

(* A path that passed its checks is a key of the bucket.                   *)
LEMMA CheckedKeys ==
  ASSUME AttachmentsInv
  PROVE  \A r \in Requests : request[r] # Idle /\ Checked(request[r]) => request[r].key \in Keys
BY DEF AttachmentsInv, RequestsSound, PathSound, Checked, Keys

(* confirm: a new row, with a key that is in the bucket or has been        *)
(* recorded before.                                                        *)
LEMMA InsertSettles ==
  ASSUME AttachmentsInv, SettledInv, NEW r \in Requests, Insert(r)
  PROVE  SettledInv'
<1>0. request \in [Requests -> Request \cup {Idle}] /\ row \in [Ids -> Row \cup {NoRow, Removed}]
  BY DEF AttachmentsInv, TypeOK
<1>1. PICK h \in Keys : h = request[r].key
  BY CheckedKeys DEF Insert, Checked
<1>2. PICK n \in Ids : /\ row[n] = NoRow
                       /\ row' = [row EXCEPT ![n] = [key |-> h, by |-> request[r].by]]
  BY <1>1 DEF Insert
<1>3. /\ request[r] # Idle /\ request[r].at = "insert" /\ request[r].op = "confirm"
      /\ request' = [request EXCEPT ![r] = Idle]
      /\ Used(h)
      /\ UNCHANGED <<files, clashed>>
  BY <1>1 DEF Insert, Done
<1>4. /\ row'[n].key = h /\ row'[n] # NoRow
      /\ \A i \in Ids : i # n => row'[i] = row[i]
  BY <1>0, <1>2, AttachmentsAssumption DEF NoRow, Keys
<1>5. /\ request'[r] = Idle
      /\ \A s \in Requests : s # r => request'[s] = request[s]
  BY <1>0, <1>3
<1>6. \A s \in Requests, i \in Ids : Editing(s, i)' <=> Editing(s, i)
  <2>1. request[r].seen = NoRow
    BY <1>3 DEF SettledInv, StagesSound, StageSound
  <2>. QED  BY <1>5, <2>1 DEF Editing
<1>7. \A s \in Requests, i \in Ids : Editing(s, i) => s # r /\ request'[s] = request[s] /\ i # n
  <2>1. \A s \in Requests, i \in Ids : Editing(s, i) => s # r
    BY <1>5, <1>6 DEF Editing
  <2>. QED  BY <1>2, <1>5, <2>1 DEF SettledInv, EditsSound
<1>8. /\ uses'[h] # 0 /\ (uses[h] # 0 => uses'[h] = 2)
      /\ \A j \in Keys : /\ j # h => uses'[j] = uses[j]
                         /\ uses[j] # 0 => uses'[j] # 0
                         /\ uses[j] = 2 => uses'[j] = 2
  BY <1>3, UsedCounts DEF AttachmentsInv
<1>9. StagesSound'
  BY <1>5 DEF SettledInv, StagesSound
<1>10. \A i \in Ids, k \in Keys : Claims(i, k)' => Claims(i, k) \/ (i = n /\ k = h)
  BY <1>4, <1>6, <1>7 DEF Claims, Alive
<1>11. ClaimsCounted' /\ ClaimsApart'
  BY <1>3, <1>10, ClaimsRecorded DEF AttachmentsInv
<1>12. PathsThere'
  BY <1>3, <1>5, <1>8, CheckedKeys DEF SettledInv, PathsThere
<1>13. EditsSound'
  <2>. SUFFICES ASSUME NEW i \in Ids, NEW s \in Requests, Editing(s, i)'
                PROVE  /\ row'[i] # NoRow
                       /\ request'[s].at = "drop" /\ request'[s].op = "replace"
                          /\ request'[s].key = request'[s].seen.key => uses'[request'[s].key] = 2
                       /\ i \notin clashed => /\ EditSound(request'[s], row'[i])
                                              /\ \A t \in Requests : Editing(t, i)' => t = s
    BY <1>3 DEF EditsSound, EditSound
  <2>1. Editing(s, i) /\ request'[s] = request[s] /\ row'[i] = row[i]
    BY <1>4, <1>6, <1>7
  <2>2. request[s].at = "drop" /\ request[s].op = "replace" /\ request[s].key = request[s].seen.key =>
          uses'[request[s].key] = 2
    <3>1. request[s].seen \in Row
      BY <1>0, <2>1 DEF Editing, Request
    <3>. QED  BY <1>8, <2>1, <3>1 DEF SettledInv, EditsSound, Row
  <2>. QED  BY <1>6, <2>1, <2>2 DEF SettledInv, EditsSound
<1>14. FilesThere'
  <2>. SUFFICES ASSUME NEW i \in Ids, Alive(i)', i \notin clashed, uses'[row'[i].key] = 1, ~Halfway(i)'
                PROVE  row'[i].key \in files
    BY <1>3 DEF FilesThere
  <2>1. CASE i = n
    BY <1>1, <1>3, <1>4, <1>8, <2>1 DEF SettledInv, PathsThere, Checked
  <2>2. CASE i # n
    <3>1. Alive(i) /\ row'[i] = row[i] /\ row[i].key \in Keys
      BY <1>0, <1>4, <2>2 DEF Alive, Row
    <3>2. ~Halfway(i)
      BY <1>6, <1>7 DEF Halfway
    <3>3. uses[row[i].key] = 1
      <4>1. uses[row[i].key] # 0
        BY <3>1 DEF SettledInv, ClaimsCounted, Claims
      <4>. QED  BY <1>8, <3>1, <4>1
    <3>. QED  BY <3>1, <3>2, <3>3 DEF SettledInv, FilesThere
  <2>. QED  BY <2>1, <2>2
<1>. QED  BY <1>9, <1>11, <1>12, <1>13, <1>14 DEF SettledInv

(* confirm and convert of an expense: a key is recorded once more, and no  *)
(* row of the activity changes.                                            *)
LEMMA InsertDocSettles ==
  ASSUME AttachmentsInv, SettledInv, NEW r \in Requests, InsertDoc(r)
  PROVE  SettledInv'
<1>0. request \in [Requests -> Request \cup {Idle}] /\ row \in [Ids -> Row \cup {NoRow, Removed}]
  BY DEF AttachmentsInv, TypeOK
<1>1. PICK h : h = IF request[r].op = "convert" THEN request[r].seen.key ELSE request[r].key
  OBVIOUS
<1>2. /\ request[r] # Idle /\ request[r].at = "insert" /\ request[r].op \in {"confirmDoc", "convert"}
      /\ Used(h)
      /\ UNCHANGED <<row, files, clashed>>
  BY <1>1 DEF InsertDoc, ExpenseOps
<1>3. h \in Keys
  <2>1. SnapshotSound(request[r]) /\ PathSound(request[r], files)
    BY <1>2 DEF AttachmentsInv, RequestsSound
  <2>. QED  BY <1>1, <1>2, <2>1 DEF SnapshotSound, PathSound, Keys
<1>4. PICK q \in {Idle, [request[r] EXCEPT !.at = "link"]} :
        /\ request' = [request EXCEPT ![r] = q]
        /\ q # Idle => request[r].op = "convert"
  BY DEF InsertDoc, Goto, Done
<1>5. /\ request'[r] = q
      /\ \A s \in Requests : s # r => request'[s] = request[s]
  BY <1>0, <1>4
<1>6. q # Idle => /\ q.op = "convert" /\ q.at = "link" /\ StageSound(q)
  BY <1>0, <1>2, <1>4 DEF Request, StageSound
<1>7. ~Editing(r, request[r].id)
  BY <1>2 DEF SettledInv, StagesSound, StageSound, Editing
<1>8. \A s \in Requests, i \in Ids : /\ Editing(s, i)' <=> Editing(s, i)
                                     /\ Editing(s, i) => s # r /\ request'[s] = request[s]
  BY <1>5, <1>6, <1>7 DEF Editing
<1>9. /\ uses'[h] # 0 /\ (uses[h] # 0 => uses'[h] = 2)
      /\ \A j \in Keys : /\ j # h => uses'[j] = uses[j]
                         /\ uses[j] # 0 => uses'[j] # 0
                         /\ uses[j] = 2 => uses'[j] = 2
  BY <1>2, <1>3, UsedCounts DEF AttachmentsInv
<1>10. StagesSound'
  BY <1>5, <1>6 DEF SettledInv, StagesSound
<1>11. \A i \in Ids, k \in Keys : Claims(i, k)' => Claims(i, k)
  BY <1>2, <1>8 DEF Claims, Alive
<1>12. ClaimsCounted' /\ ClaimsApart'
  BY <1>2, <1>3, <1>11, ClaimsRecorded DEF AttachmentsInv
<1>13. PathsThere'
  BY <1>2, <1>5, <1>6, <1>9, CheckedKeys DEF SettledInv, PathsThere, Checked
<1>14. EditsSound'
  <2>. SUFFICES ASSUME NEW i \in Ids, NEW s \in Requests, Editing(s, i)'
                PROVE  /\ row[i] # NoRow
                       /\ request'[s].at = "drop" /\ request'[s].op = "replace"
                          /\ request'[s].key = request'[s].seen.key => uses'[request'[s].key] = 2
                       /\ i \notin clashed => /\ EditSound(request'[s], row[i])
                                              /\ \A t \in Requests : Editing(t, i)' => t = s
    BY <1>2 DEF EditsSound, EditSound
  <2>1. Editing(s, i) /\ request'[s] = request[s]
    BY <1>8
  <2>2. request[s].at = "drop" /\ request[s].op = "replace" /\ request[s].key = request[s].seen.key =>
          uses'[request[s].key] = 2
    <3>1. request[s].seen \in Row
      BY <1>0, <2>1 DEF Editing, Request
    <3>. QED  BY <1>9, <2>1, <3>1 DEF SettledInv, EditsSound, Row
  <2>. QED  BY <1>8, <2>1, <2>2 DEF SettledInv, EditsSound
<1>15. FilesThere'
  <2>. SUFFICES ASSUME NEW i \in Ids, Alive(i), i \notin clashed, uses'[row[i].key] = 1, ~Halfway(i)'
                PROVE  row[i].key \in files
    BY <1>2 DEF FilesThere, Alive
  <2>1. row[i].key \in Keys
    BY <1>0 DEF Alive, Row
  <2>2. uses[row[i].key] # 0
    BY <2>1 DEF SettledInv, ClaimsCounted, Claims
  <2>3. uses[row[i].key] = 1 /\ ~Halfway(i)
    BY <1>8, <1>9, <2>1, <2>2 DEF Halfway
  <2>. QED  BY <2>3 DEF SettledInv, FilesThere
<1>. QED  BY <1>10, <1>12, <1>13, <1>14, <1>15 DEF SettledInv

(* rename: the row as it was read.  Alone, that is the row as it is.       *)
LEMMA RenameSettles ==
  ASSUME AttachmentsInv, SettledInv, NEW r \in Requests, Save(r), request[r].op # "replace"
  PROVE  SettledInv'
<1>0. request \in [Requests -> Request \cup {Idle}] /\ row \in [Ids -> Row \cup {NoRow, Removed}]
  BY DEF AttachmentsInv, TypeOK
<1>1. /\ request[r] # Idle /\ request[r].at = "save" /\ request[r].op = "rename"
      /\ request[r].seen # NoRow /\ request[r].id \in Ids
  BY DEF Save, SettledInv, StagesSound, StageSound, AttachmentsInv, RequestsSound, SnapshotSound
<1>2. PICK n \in Ids, seen \in Row : n = request[r].id /\ seen = request[r].seen
  BY <1>0, <1>1 DEF Request
<1>3. /\ row' = [row EXCEPT ![n] = seen]
      /\ request' = [request EXCEPT ![r] = Idle]
      /\ UNCHANGED <<uses, files, clashed>>
  BY <1>2 DEF Save, Done
<1>4. /\ request'[r] = Idle /\ row'[n] = seen /\ seen # NoRow
      /\ \A s \in Requests : s # r => request'[s] = request[s]
      /\ \A i \in Ids : i # n => row'[i] = row[i]
  BY <1>0, <1>2, <1>3, MarkersApart
<1>5. Editing(r, n)
  BY <1>1, <1>2 DEF Editing
<1>6. \A s \in Requests, i \in Ids : Editing(s, i)' => Editing(s, i) /\ s # r /\ request'[s] = request[s]
  BY <1>4 DEF Editing
<1>7. n \notin clashed => row[n] = seen
  BY <1>1, <1>2, <1>5 DEF SettledInv, EditsSound, EditSound
<1>8. StagesSound'
  BY <1>4 DEF SettledInv, StagesSound
<1>9. \A i \in Ids, k \in Keys : Claims(i, k)' => Claims(i, k)
  BY <1>2, <1>4, <1>5, <1>6 DEF Claims, Alive
<1>10. ClaimsCounted' /\ ClaimsApart'
  BY <1>3, <1>9, ClaimsKept DEF AttachmentsInv
<1>11. PathsThere'
  BY <1>3, <1>4 DEF SettledInv, PathsThere
<1>12. EditsSound'
  <2>. SUFFICES ASSUME NEW i \in Ids, NEW s \in Requests, Editing(s, i)'
                PROVE  /\ row'[i] # NoRow
                       /\ request'[s].at = "drop" /\ request'[s].op = "replace"
                          /\ request'[s].key = request'[s].seen.key => uses[request'[s].key] = 2
                       /\ i \notin clashed => /\ EditSound(request'[s], row'[i])
                                              /\ \A t \in Requests : Editing(t, i)' => t = s
    BY <1>3 DEF EditsSound, EditSound
  <2>1. Editing(s, i) /\ request'[s] = request[s]
    BY <1>6
  <2>2. row'[i] # NoRow /\ (i \notin clashed => row'[i] = row[i])
    BY <1>4, <1>7, <2>1 DEF SettledInv, EditsSound
  <2>. QED  BY <1>6, <2>1, <2>2 DEF SettledInv, EditsSound
<1>13. FilesThere'
  <2>. SUFFICES ASSUME NEW i \in Ids, Alive(i)', i \notin clashed, uses[row'[i].key] = 1, ~Halfway(i)'
                PROVE  row'[i].key \in files
    BY <1>3 DEF FilesThere
  <2>1. row'[i] = row[i] /\ Alive(i)
    BY <1>4, <1>7 DEF Alive
  <2>2. \A s \in Requests : Editing(s, i) /\ s # r => Editing(s, i)' /\ request'[s] = request[s]
    BY <1>4 DEF Editing
  <2>3. ~Halfway(i)
    BY <1>1, <2>2 DEF Halfway
  <2>. QED  BY <2>1, <2>3 DEF SettledInv, FilesThere
<1>. QED  BY <1>8, <1>10, <1>11, <1>12, <1>13 DEF SettledInv

(* replace: the row shows the new key, which is counted; the one who saves *)
(* still has a claim on the old one.                                       *)
LEMMA ReplaceSettles ==
  ASSUME AttachmentsInv, SettledInv, NEW r \in Requests, Save(r), request[r].op = "replace"
  PROVE  SettledInv'
<1>0. request \in [Requests -> Request \cup {Idle}] /\ row \in [Ids -> Row \cup {NoRow, Removed}]
  BY DEF AttachmentsInv, TypeOK
<1>1. /\ request[r] # Idle /\ request[r].at = "save" /\ request[r].op = "replace"
      /\ request[r].seen # NoRow /\ request[r].id \in Ids /\ request[r] \in Request
  BY <1>0 DEF Save, AttachmentsInv, RequestsSound, SnapshotSound
<1>2. PICK n \in Ids, seen \in Row, h \in Keys :
        n = request[r].id /\ seen = request[r].seen /\ h = request[r].key
  BY <1>1, CheckedKeys DEF Request, Checked
<1>3. PICK q, x : q = [request[r] EXCEPT !.at = "drop"] /\ x = [seen EXCEPT !.key = h]
  OBVIOUS
<1>4. /\ row' = [row EXCEPT ![n] = x]
      /\ request' = [request EXCEPT ![r] = q]
      /\ Used(h)
      /\ UNCHANGED <<files, clashed>>
  BY <1>1, <1>2, <1>3 DEF Save, Goto
<1>5. /\ q # Idle /\ q.op = "replace" /\ q.id = n /\ q.seen = seen /\ q.key = h /\ q.at = "drop"
      /\ x \in Row /\ x.key = h /\ x # NoRow
  <2>1. q \in Request /\ x \in Row
    BY <1>1, <1>2, <1>3 DEF Request, Stages, Row
  <2>. QED  BY <1>1, <1>2, <1>3, <2>1, MarkersApart DEF Request, Row
<1>6. /\ request'[r] = q /\ row'[n] = x
      /\ \A s \in Requests : s # r => request'[s] = request[s]
      /\ \A i \in Ids : i # n => row'[i] = row[i]
  BY <1>0, <1>4
<1>7. Editing(r, n)
  BY <1>1, <1>2 DEF Editing
<1>8. \A s \in Requests, i \in Ids : Editing(s, i)' <=> Editing(s, i)
  BY <1>1, <1>2, <1>5, <1>6 DEF Editing
<1>9. /\ uses'[h] # 0 /\ (uses[h] # 0 => uses'[h] = 2)
      /\ \A j \in Keys : /\ j # h => uses'[j] = uses[j]
                         /\ uses[j] # 0 => uses'[j] # 0
                         /\ uses[j] = 2 => uses'[j] = 2
  BY <1>4, UsedCounts DEF AttachmentsInv
<1>10. StagesSound'
  BY <1>5, <1>6 DEF SettledInv, StagesSound, StageSound
<1>11. \A i \in Ids, k \in Keys : Claims(i, k)' => Claims(i, k) \/ (i = n /\ k = h)
  BY <1>2, <1>5, <1>6, <1>8 DEF Claims, Alive
<1>12. ClaimsCounted' /\ ClaimsApart'
  BY <1>4, <1>11, ClaimsRecorded DEF AttachmentsInv
<1>13. PathsThere'
  BY <1>4, <1>5, <1>6, <1>9, CheckedKeys DEF SettledInv, PathsThere, Checked
<1>14. EditsSound'
  <2>. SUFFICES ASSUME NEW i \in Ids, NEW s \in Requests, Editing(s, i)'
                PROVE  /\ row'[i] # NoRow
                       /\ request'[s].at = "drop" /\ request'[s].op = "replace"
                          /\ request'[s].key = request'[s].seen.key => uses'[request'[s].key] = 2
                       /\ i \notin clashed => /\ EditSound(request'[s], row'[i])
                                              /\ \A t \in Requests : Editing(t, i)' => t = s
    BY <1>4 DEF EditsSound, EditSound
  <2>1. Editing(s, i) /\ row'[i] # NoRow
    BY <1>5, <1>6, <1>8 DEF SettledInv, EditsSound
  <2>2. i \notin clashed => \A t \in Requests : Editing(t, i)' => t = s
    BY <1>8, <2>1 DEF SettledInv, EditsSound
  <2>3. CASE s = r
    <3>1. i = n
      BY <1>2, <2>1, <2>3 DEF Editing
    <3>2. h = seen.key => uses'[h] = 2
      <4>1. Claims(n, seen.key)
        BY <1>2, <1>7 DEF Claims
      <4>. QED  BY <1>9, <4>1 DEF SettledInv, ClaimsCounted
    <3>3. EditSound(q, x)
      BY <1>5 DEF EditSound
    <3>. QED  BY <1>5, <1>6, <2>1, <2>2, <2>3, <3>1, <3>2, <3>3
  <2>4. CASE s # r
    <3>1. request'[s] = request[s] /\ request[s].seen \in Row
      BY <1>0, <1>6, <2>1, <2>4 DEF Editing, Request
    <3>2. request[s].at = "drop" /\ request[s].op = "replace" /\ request[s].key = request[s].seen.key =>
            uses'[request[s].key] = 2
      BY <1>9, <2>1, <3>1 DEF SettledInv, EditsSound, Row
    <3>3. i \notin clashed => i # n
      BY <1>7, <2>1, <2>4 DEF SettledInv, EditsSound
    <3>4. i \notin clashed => EditSound(request[s], row'[i])
      BY <1>6, <2>1, <3>3 DEF SettledInv, EditsSound
    <3>. QED  BY <2>1, <2>2, <3>1, <3>2, <3>4
  <2>. QED  BY <2>3, <2>4
<1>15. FilesThere'
  <2>. SUFFICES ASSUME NEW i \in Ids, Alive(i)', i \notin clashed, uses'[row'[i].key] = 1, ~Halfway(i)'
                PROVE  row'[i].key \in files
    BY <1>4 DEF FilesThere
  <2>1. CASE i = n
    <3>1. uses[h] = 0
      BY <1>5, <1>6, <1>9, <2>1
    <3>. QED  BY <1>1, <1>2, <1>5, <1>6, <2>1, <3>1 DEF SettledInv, PathsThere, Checked
  <2>2. CASE i # n
    <3>1. Alive(i) /\ row'[i] = row[i] /\ row[i].key \in Keys
      BY <1>0, <1>6, <2>2 DEF Alive, Row
    <3>2. uses[row[i].key] = 1
      <4>1. uses[row[i].key] # 0
        BY <3>1 DEF SettledInv, ClaimsCounted, Claims
      <4>. QED  BY <1>9, <3>1, <4>1
    <3>3. ~Halfway(i)
      BY <1>1, <1>6, <1>8 DEF Halfway
    <3>. QED  BY <3>1, <3>2, <3>3 DEF SettledInv, FilesThere
  <2>. QED  BY <2>1, <2>2
<1>. QED  BY <1>10, <1>12, <1>13, <1>14, <1>15 DEF SettledInv

(* removeObject(): the object goes whose key was read with the row.  A row *)
(* that shows it too is this one, before its own end, or the key has been  *)
(* recorded twice.                                                         *)
LEMMA DropSettles ==
  ASSUME AttachmentsInv, SettledInv, NEW r \in Requests, Drop(r)
  PROVE  SettledInv'
<1>0. request \in [Requests -> Request \cup {Idle}] /\ row \in [Ids -> Row \cup {NoRow, Removed}]
  BY DEF AttachmentsInv, TypeOK
<1>1. /\ request[r] # Idle /\ request[r].at = "drop" /\ request[r].op \in {"remove", "replace"}
      /\ request[r].seen # NoRow /\ request[r].id \in Ids /\ request[r] \in Request
  BY <1>0 DEF Drop, AttachmentsInv, RequestsSound, SnapshotSound, SettledInv, StagesSound, StageSound
<1>2. PICK n \in Ids, h \in Keys : n = request[r].id /\ h = request[r].seen.key
  BY <1>1 DEF Request, Row
<1>3. PICK q : q = IF request[r].op = "remove" THEN [request[r] EXCEPT !.at = "delete"] ELSE Idle
  OBVIOUS
<1>4. /\ request' = [request EXCEPT ![r] = q]
      /\ files' \in {files \ {h}, files}
      /\ UNCHANGED <<row, uses, clashed>>
  BY <1>2, <1>3 DEF Drop, Goto, Done, Stored, Ghosts
<1>5. q # Idle => /\ request[r].op = "remove" /\ q.op = "remove" /\ q.id = n /\ q.at = "delete"
                  /\ q.seen = request[r].seen /\ q.key = request[r].key
  BY <1>1, <1>2, <1>3 DEF Request
<1>6. /\ request'[r] = q
      /\ \A s \in Requests : s # r => request'[s] = request[s]
  BY <1>0, <1>4
<1>7. Editing(r, n) /\ Claims(n, h)
  BY <1>1, <1>2 DEF Editing, Claims
<1>8. \A s \in Requests, i \in Ids : Editing(s, i)' => Editing(s, i) /\ request'[s].seen = request[s].seen
  BY <1>1, <1>2, <1>5, <1>6 DEF Editing
<1>9. StagesSound'
  BY <1>1, <1>5, <1>6 DEF SettledInv, StagesSound, StageSound
<1>10. \A i \in Ids, k \in Keys : Claims(i, k)' => Claims(i, k)
  BY <1>4, <1>8 DEF Claims, Alive
<1>11. ClaimsCounted' /\ ClaimsApart'
  BY <1>4, <1>10, ClaimsKept DEF AttachmentsInv
<1>12. PathsThere'
  <2>1. uses[h] # 0
    BY <1>7 DEF SettledInv, ClaimsCounted
  <2>. QED  BY <1>4, <1>5, <1>6, <2>1 DEF SettledInv, PathsThere, Checked
<1>13. EditsSound'
  <2>. SUFFICES ASSUME NEW i \in Ids, NEW s \in Requests, Editing(s, i)'
                PROVE  /\ row[i] # NoRow
                       /\ request'[s].at = "drop" /\ request'[s].op = "replace"
                          /\ request'[s].key = request'[s].seen.key => uses[request'[s].key] = 2
                       /\ i \notin clashed => /\ EditSound(request'[s], row[i])
                                              /\ \A t \in Requests : Editing(t, i)' => t = s
    BY <1>4 DEF EditsSound, EditSound
  <2>1. Editing(s, i) /\ row[i] # NoRow
    BY <1>8 DEF SettledInv, EditsSound
  <2>2. i \notin clashed => \A t \in Requests : Editing(t, i)' => t = s
    BY <1>8, <2>1 DEF SettledInv, EditsSound
  <2>3. CASE s = r
    <3>1. q # Idle
      BY <1>6, <2>3 DEF Editing
    <3>2. i \notin clashed => EditSound(q, row[i])
      BY <1>5, <2>1, <2>3, <3>1 DEF SettledInv, EditsSound, EditSound
    <3>. QED  BY <1>5, <1>6, <2>1, <2>2, <2>3, <3>1, <3>2
  <2>4. CASE s # r
    BY <1>6, <2>1, <2>2, <2>4 DEF SettledInv, EditsSound
  <2>. QED  BY <2>3, <2>4
<1>14. FilesThere'
  <2>. SUFFICES ASSUME NEW i \in Ids, Alive(i), i \notin clashed, uses[row[i].key] = 1, ~Halfway(i)'
                PROVE  row[i].key \in files'
    BY <1>4 DEF FilesThere, Alive
  <2>1. row[i].key \in Keys /\ Claims(i, row[i].key)
    BY <1>0 DEF Alive, Row, Claims
  <2>2. \A s \in Requests : Editing(s, i) /\ s # r => Editing(s, i)' /\ request'[s] = request[s]
    BY <1>6 DEF Editing
  <2>3. ~Halfway(i)
    BY <1>1, <2>2 DEF Halfway
  <2>4. row[i].key \in files
    BY <2>3 DEF SettledInv, FilesThere
  <2>5. ASSUME row[i].key = h PROVE FALSE
    <3>1. i = n
      BY <1>7, <2>1, <2>5 DEF SettledInv, ClaimsApart
    <3>2. EditSound(request[r], row[n])
      BY <1>7, <3>1 DEF SettledInv, EditsSound
    <3>3. CASE request[r].op = "remove"
      <4>1. q # Idle /\ Editing(r, n)'
        <5>1. q \in Request /\ q.seen = request[r].seen /\ q.id = n /\ q.op = "remove"
          BY <1>1, <1>2, <1>3, <3>3 DEF Request, Stages
        <5>. QED  BY <1>1, <1>6, <5>1, MarkersApart DEF Editing
      <4>2. Halfway(n)'
        BY <1>5, <1>6, <4>1 DEF Halfway
      <4>. QED  BY <3>1, <4>2
    <3>4. CASE request[r].op = "replace"
      <4>1. request[r].key = h
        BY <1>1, <2>5, <3>1, <3>2, <3>4 DEF EditSound
      <4>2. uses[h] = 2
        BY <1>1, <1>2, <1>7, <3>4, <4>1 DEF SettledInv, EditsSound
      <4>. QED  BY <2>5, <4>2
    <3>. QED  BY <1>1, <3>3, <3>4
  <2>. QED  BY <1>4, <2>4, <2>5
<1>. QED  BY <1>9, <1>11, <1>12, <1>13, <1>14 DEF SettledInv

(* remove: the row is gone after its object.                               *)
LEMMA DeleteSettles ==
  ASSUME AttachmentsInv, SettledInv, NEW r \in Requests, Delete(r)
  PROVE  SettledInv'
<1>0. request \in [Requests -> Request \cup {Idle}] /\ row \in [Ids -> Row \cup {NoRow, Removed}]
  BY DEF AttachmentsInv, TypeOK
<1>1. /\ request[r] # Idle /\ request[r].at = "delete" /\ request[r].op = "remove"
      /\ request[r].seen # NoRow /\ request[r].id \in Ids
  BY DEF Delete, AttachmentsInv, RequestsSound, SnapshotSound, SettledInv, StagesSound, StageSound
<1>2. PICK n \in Ids : n = request[r].id
  BY <1>1
<1>3. /\ row' = [row EXCEPT ![n] = Removed]
      /\ request' = [request EXCEPT ![r] = Idle]
      /\ UNCHANGED <<uses, files, clashed>>
  BY <1>2 DEF Delete, Done, Ghosts
<1>4. /\ request'[r] = Idle /\ row'[n] = Removed /\ Removed # NoRow
      /\ \A s \in Requests : s # r => request'[s] = request[s]
      /\ \A i \in Ids : i # n => row'[i] = row[i]
  BY <1>0, <1>3, MarkersApart
<1>5. Editing(r, n)
  BY <1>1, <1>2 DEF Editing
<1>6. \A s \in Requests, i \in Ids : Editing(s, i)' => Editing(s, i) /\ s # r /\ request'[s] = request[s]
  BY <1>4 DEF Editing
<1>7. StagesSound'
  BY <1>4 DEF SettledInv, StagesSound
<1>8. \A i \in Ids, k \in Keys : Claims(i, k)' => Claims(i, k)
  BY <1>4, <1>6 DEF Claims, Alive
<1>9. ClaimsCounted' /\ ClaimsApart'
  BY <1>3, <1>8, ClaimsKept DEF AttachmentsInv
<1>10. PathsThere'
  BY <1>3, <1>4 DEF SettledInv, PathsThere
<1>11. EditsSound'
  <2>. SUFFICES ASSUME NEW i \in Ids, NEW s \in Requests, Editing(s, i)'
                PROVE  /\ row'[i] # NoRow
                       /\ request'[s].at = "drop" /\ request'[s].op = "replace"
                          /\ request'[s].key = request'[s].seen.key => uses[request'[s].key] = 2
                       /\ i \notin clashed => /\ EditSound(request'[s], row'[i])
                                              /\ \A t \in Requests : Editing(t, i)' => t = s
    BY <1>3 DEF EditsSound, EditSound
  <2>1. Editing(s, i) /\ s # r /\ request'[s] = request[s]
    BY <1>6
  <2>2. row'[i] # NoRow
    BY <1>4, <2>1 DEF SettledInv, EditsSound
  <2>3. i \notin clashed => i # n /\ row'[i] = row[i]
    BY <1>4, <1>5, <2>1 DEF SettledInv, EditsSound
  <2>. QED  BY <1>6, <2>1, <2>2, <2>3 DEF SettledInv, EditsSound
<1>12. FilesThere'
  <2>. SUFFICES ASSUME NEW i \in Ids, Alive(i)', i \notin clashed, uses[row'[i].key] = 1, ~Halfway(i)'
                PROVE  row'[i].key \in files
    BY <1>3 DEF FilesThere
  <2>1. i # n /\ row'[i] = row[i] /\ Alive(i)
    BY <1>4 DEF Alive
  <2>2. \A s \in Requests : Editing(s, i) => Editing(s, i)' /\ request'[s] = request[s]
    BY <1>2, <1>4, <2>1 DEF Editing
  <2>3. ~Halfway(i)
    BY <2>2 DEF Halfway
  <2>. QED  BY <2>1, <2>3 DEF SettledInv, FilesThere
<1>. QED  BY <1>7, <1>9, <1>10, <1>11, <1>12 DEF SettledInv

(* Every step keeps the claims apart and the files in their place.         *)
LEMMA SettledStep ==
  ASSUME AttachmentsInv, SettledInv, [Next]_vars
  PROVE  SettledInv'
<1>0. request \in [Requests -> Request \cup {Idle}] /\ row \in [Ids -> Row \cup {NoRow, Removed}] /\ TypeOK
  BY DEF AttachmentsInv, TypeOK
<1>1. ASSUME files \subseteq files', UNCHANGED <<request, row, uses, clashed>> PROVE SettledInv'
  BY <1>1 DEF SettledInv, StagesSound, ClaimsCounted, ClaimsApart, PathsThere, EditsSound,
              FilesThere, Claims, Alive, Editing, EditSound, Halfway
<1>2. ASSUME UNCHANGED vars \/ Proceed \/ \E k \in Keys : Presign(k) \/ Upload(k) PROVE SettledInv'
  <2>1. files \subseteq files' /\ UNCHANGED <<request, row, uses, clashed>>
    BY <1>2 DEF vars, Proceed, Presign, Upload, Stored, Ghosts
  <2>. QED  BY <1>1, <2>1
<1>3. ASSUME NEW r \in Requests, NEW op \in ActivityOps \cup ExpenseOps, NEW u \in Users,
             NEW i \in Ids \cup {NoId}, NEW k \in Keys \cup {NoKey}, Receive(r, op, u, i, k)
      PROVE  SettledInv'
  <2>. DEFINE q == [op |-> op, by |-> u, id |-> i, key |-> k, seen |-> NoRow, at |-> AfterCheck[op]]
  <2>1. q.op = op /\ q.seen = NoRow /\ q.at \in {"find", "exists"} /\ q.at \in Stages
    BY DEF AfterCheck, ActivityOps, ExpenseOps, Stages
  <2>2. q \in Request
    BY <2>1 DEF Request
  <2>3. /\ request[r] = Idle /\ request' = [request EXCEPT ![r] = q]
        /\ UNCHANGED <<row, uses, files, clashed>>
    BY <1>3 DEF Receive, Stored, Ghosts
  <2>. HIDE DEF q
  <2>4. StageSound(q) /\ ~Checked(q)
    BY <2>1 DEF StageSound, Checked
  <2>. QED  BY <1>0, <2>1, <2>2, <2>3, <2>4, RequestAlone
<1>4. ASSUME NEW r \in Requests, Find(r) PROVE SettledInv'
  <2>1. /\ request[r].op \in {"remove", "rename", "replace", "convert"} /\ request[r].id \in Ids
        /\ request[r] # Idle /\ request[r].at = "find" /\ request[r] \in Request
    BY <1>0, <1>4 DEF Find, AttachmentsInv, RequestsSound, SnapshotSound
  <2>2. CASE request[r].op # "convert"
    BY <1>0, <1>4, <2>1, <2>2, FindSettles
  <2>3. CASE request[r].op = "convert"
    <3>1. PICK q : q = [request[r] EXCEPT !.seen = row[request[r].id], !.at = "insert"]
      OBVIOUS
    <3>2. AfterFind[request[r].op] = "insert"
      BY <2>3 DEF AfterFind
    <3>3. /\ request' = [request EXCEPT ![r] = q]
          /\ UNCHANGED <<row, uses, files, clashed>>
      BY <1>4, <2>3, <3>1, <3>2 DEF Find, Stored
    <3>4. row[request[r].id] \in Row
      BY <1>0, <1>4, <2>1 DEF Find, Alive
    <3>5. q \in Request /\ q.op = "convert" /\ q.at = "insert"
      BY <2>1, <2>3, <3>1, <3>4 DEF Request, Stages
    <3>6. StageSound(q) /\ ~Checked(q)
      BY <3>5 DEF StageSound, Checked
    <3>. QED  BY <1>0, <2>1, <3>3, <3>5, <3>6, RequestAlone
  <2>. QED  BY <2>2, <2>3
<1>5. ASSUME NEW r \in Requests, Exists(r) PROVE SettledInv'
  <2>1. /\ request[r] \in Request /\ request[r] # Idle /\ request[r].at = "exists"
        /\ SnapshotSound(request[r]) /\ StageSound(request[r])
    BY <1>0, <1>5 DEF Exists, AttachmentsInv, RequestsSound, SettledInv, StagesSound
  <2>2. request[r].op \in {"confirm", "confirmDoc", "replace"} /\ request[r].key \in files
    BY <1>5, <2>1 DEF Exists, SnapshotSound
  <2>3. PICK q : q = [request[r] EXCEPT !.at = IF request[r].op = "replace" THEN "save" ELSE "insert"]
    OBVIOUS
  <2>4. /\ q \in Request /\ q.op = request[r].op /\ q.id = request[r].id /\ q.key = request[r].key
        /\ q.seen = request[r].seen
        /\ q.at = (IF request[r].op = "replace" THEN "save" ELSE "insert")
    BY <2>1, <2>3 DEF Request, Stages
  <2>5. request' = [request EXCEPT ![r] = q] /\ UNCHANGED <<row, uses, files, clashed>>
    BY <1>5, <2>3 DEF Exists, Goto, Stored, Ghosts
  <2>6. StageSound(q)
    BY <2>1, <2>2, <2>4 DEF StageSound
  <2>7. q.op # "convert" /\ q.seen # NoRow => q.at = "save"
    BY <2>1, <2>2, <2>4 DEF StageSound
  <2>. QED  BY <1>0, <2>1, <2>2, <2>4, <2>5, <2>6, <2>7, RequestAlone
<1>6. ASSUME NEW r \in Requests, Link(r) \/ Abandon(r) PROVE SettledInv'
  <2>1. /\ request[r] # Idle /\ request' = [request EXCEPT ![r] = Idle]
        /\ UNCHANGED <<row, uses, files>>
    BY <1>6 DEF Link, Abandon, Done, Stored, Ghosts
  <2>2. clashed \subseteq clashed' /\ (request[r].at = "delete" => request[r].id \in clashed')
    BY <1>6 DEF Link, Abandon, Ghosts
  <2>. QED  BY <1>0, <2>1, <2>2, RequestAlone
<1>7. ASSUME NEW r \in Requests, Save(r) PROVE SettledInv'
  BY <1>7, RenameSettles, ReplaceSettles
<1>. QED  BY <1>2, <1>3, <1>4, <1>5, <1>6, <1>7, InsertSettles, InsertDocSettles, DropSettles,
             DeleteSettles DEF Next, RequestNext

(* The claims of the rows on their keys, inductively.                      *)
THEOREM SettledAlways == Spec => [](AttachmentsInv /\ SettledInv)
<1>1. AttachmentsInv /\ SettledInv /\ [Next]_vars => SettledInv'
  BY SettledStep
<1>. QED  BY <1>1, SettledInit, AttachmentsAlways, PTL DEF Spec

(* replace(), remove(): a row at rest shows a file that the bucket has,    *)
(* provided its key was recorded once, nobody has worked on the row at the *)
(* same time as somebody else, and no removal has stopped half way.        *)
THEOREM SettledRowsHaveFiles == Spec => []SettledRowHasFile
<1>1. SettledInv => SettledRowHasFile
  BY DEF SettledInv, FilesThere, Halfway, SettledRowHasFile
<1>. QED  BY <1>1, SettledAlways, PTL

=============================================================================
