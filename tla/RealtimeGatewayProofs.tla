----------------------- MODULE RealtimeGatewayProofs -----------------------
(***************************************************************************)
(* The back office and the gateway together, for any number of users,      *)
(* tabs, administrators and frames: nobody loses a membership, a socket is *)
(* sent a frame at most once, and no open tab misses one.                  *)
(***************************************************************************)
EXTENDS RealtimeGateway, TLAPS

RequestType ==
  [op : {"idle", "profile", "member", "child", "toggle"},
   user : Users \cup {NoUser}, child : Children \cup {NoChild}, active : BOOLEAN,
   seen : [rows : [Users -> 0..MaxRows], children : SUBSET Children]]

(* What an operation writes for is a user or a child, and nothing is asked *)
(* about the members of a bond that does not exist.                        *)
RequestSound(q, b) ==
  /\ q.op \in {"profile", "member"} => q.user \in Users
  /\ q.op = "child" => q.child \in Children
  /\ q.op = "member" => b # "absent"

AdminInv ==
  /\ AdminTypeOK
  /\ bond = "absent" => \A u \in Users : rows[u] = 0
  /\ \A a \in Admins : RequestSound(request[a], bond)

(* What one step of the back office may do to the members.                 *)
MembershipGrows ==
  /\ \A u \in Users : rows'[u] >= rows[u]
  /\ bond # "absent" => bond' # "absent"

-----------------------------------------------------------------------------
(* The idle request, and the requests the operations build, are typed.     *)
LEMMA IdleTyped == Idle \in RequestType /\ Nothing \in [rows : [Users -> 0..MaxRows], children : SUBSET Children]
<1>1. Nothing \in [rows : [Users -> 0..MaxRows], children : SUBSET Children]
  BY AdministrationAssumption DEF Nothing
<1>. QED  BY <1>1 DEF Idle, Request, RequestType

LEMMA AdminStarts == AdminInit => AdminInv
<1> SUFFICES ASSUME AdminInit PROVE AdminInv
  OBVIOUS
<1>1. \A a \in Admins : request[a] = Idle
  BY DEF AdminInit
<1>2. request \in [Admins -> RequestType]
  BY IdleTyped DEF AdminInit
<1>3. rows \in [Users -> 0..MaxRows]
  BY AdministrationAssumption DEF AdminInit
<1>4. AdminTypeOK
  BY <1>2, <1>3 DEF AdminInit, AdminTypeOK, RequestType
<1>. QED  BY <1>1, <1>4 DEF AdminInit, AdminInv, RequestSound, Idle, Request

(* An operation replaces the request of one administrator.                 *)
LEMMA RequestSet ==
  ASSUME AdminInv, NEW a \in Admins, NEW q \in RequestType,
         request' = [request EXCEPT ![a] = q],
         bond # "absent" => bond' # "absent",
         RequestSound(q, bond')
  PROVE  request' \in [Admins -> RequestType] /\ \A b \in Admins : RequestSound(request'[b], bond')
<1>1. request \in [Admins -> RequestType]
  BY DEF AdminInv, AdminTypeOK, RequestType
<1>2. ASSUME NEW b \in Admins PROVE RequestSound(request'[b], bond')
  BY <1>1 DEF AdminInv, RequestSound
<1>. QED  BY <1>1, <1>2

(* A request that only reads leaves the bond as it is.                     *)
LEMMA TablesKept ==
  ASSUME AdminInv, UNCHANGED tables,
         account' \in [Users -> {"none", "bare", "full"}],
         request' \in [Admins -> RequestType] /\ \A b \in Admins : RequestSound(request'[b], bond')
  PROVE  AdminInv' /\ MembershipGrows
<1>1. \A u \in Users : rows[u] \in Int
  BY DEF AdminInv, AdminTypeOK
<1>. QED  BY <1>1 DEF AdminInv, AdminTypeOK, RequestType, tables, MembershipGrows

(* Every operation of the back office keeps the invariant, and no member   *)
(* is lost: a bond is created once, and saving it whole with members that  *)
(* were read before another row was added fails.                           *)
LEMMA AdminStep == AdminInv /\ [AdminNext]_adminVars => AdminInv' /\ MembershipGrows
<1> SUFFICES ASSUME AdminInv, [AdminNext]_adminVars PROVE AdminInv' /\ MembershipGrows
  OBVIOUS
<1>. USE DEF AdminInv, Read, Answer
<1>a. /\ request \in [Admins -> RequestType] /\ rows \in [Users -> 0..MaxRows]
      /\ children \subseteq Children /\ account \in [Users -> {"none", "bare", "full"}]
  BY DEF AdminTypeOK, RequestType
<1>b. \A u \in Users : rows[u] \in Int
  BY <1>a
<1>c. RequestSound(Idle, bond')
  BY DEF RequestSound, Idle, Request
<1>d. Snapshot \in [rows : [Users -> 0..MaxRows], children : SUBSET Children]
  BY <1>a DEF Snapshot
<1>1. ASSUME NEW a \in Admins, NEW u \in Users, CreateUser(a, u) PROVE AdminInv' /\ MembershipGrows
  <2>. DEFINE q == Request("profile", u, NoChild, FALSE, Nothing)
  <2>1. q \in RequestType /\ RequestSound(q, bond')
    BY IdleTyped DEF Request, RequestType, RequestSound
  <2>2. request' \in [Admins -> RequestType] /\ \A b \in Admins : RequestSound(request'[b], bond')
    BY <1>1, <2>1, RequestSet DEF CreateUser, tables
  <2>3. UNCHANGED tables /\ account' \in [Users -> {"none", "bare", "full"}]
    BY <1>1, <1>a DEF CreateUser
  <2>. QED  BY <2>2, <2>3, TablesKept
<1>2. ASSUME NEW a \in Admins, SaveProfile(a) PROVE AdminInv' /\ MembershipGrows
  <2>1. request' \in [Admins -> RequestType] /\ \A b \in Admins : RequestSound(request'[b], bond')
    BY <1>2, <1>c, IdleTyped, RequestSet DEF SaveProfile, tables
  <2>2. request[a].user \in Users
    BY <1>2 DEF SaveProfile, RequestSound
  <2>. QED  BY <1>2, <1>b, <2>1, <2>2 DEF SaveProfile, tables, AdminTypeOK, RequestType, MembershipGrows
<1>3. ASSUME NEW pair \in SUBSET Users, NEW kids \in SUBSET Children, CreateBond(pair, kids)
      PROVE  AdminInv' /\ MembershipGrows
  <2>1. rows' \in [Users -> 0..MaxRows]
    BY <1>3, AdministrationAssumption DEF CreateBond
  <2>2. \A u \in Users : rows'[u] >= rows[u]
    BY <1>3 DEF CreateBond
  <2>. QED  BY <1>3, <2>1, <2>2 DEF CreateBond, AdminTypeOK, RequestSound, MembershipGrows
<1>4. ASSUME NEW a \in Admins, NEW active \in BOOLEAN, LoadBond(a, active)
      PROVE  AdminInv' /\ MembershipGrows
  <2>. DEFINE q == Request("toggle", NoUser, NoChild, active, Snapshot)
  <2>1. q \in RequestType /\ RequestSound(q, bond')
    BY <1>d DEF Request, RequestType, RequestSound
  <2>2. request' \in [Admins -> RequestType] /\ \A b \in Admins : RequestSound(request'[b], bond')
    <3>1. request' = [request EXCEPT ![a] = q] /\ bond' = bond
      BY <1>4 DEF LoadBond, tables
    <3>. QED  BY <3>1, <2>1, RequestSet
  <2>3. UNCHANGED tables /\ account' \in [Users -> {"none", "bare", "full"}]
    BY <1>4, <1>a DEF LoadBond
  <2>. QED  BY <2>2, <2>3, TablesKept
<1>5. ASSUME NEW a \in Admins, SaveBond(a) PROVE AdminInv' /\ MembershipGrows
  <2>1. bond # "absent" => bond' # "absent"
    BY <1>5 DEF SaveBond
  <2>2. request' \in [Admins -> RequestType] /\ \A b \in Admins : RequestSound(request'[b], bond')
    BY <1>5, <1>c, <2>1, IdleTyped, RequestSet DEF SaveBond
  <2>3. bond' \in {"absent", "active", "inactive"} /\ (bond' = "absent" => bond = "absent")
    BY <1>5 DEF SaveBond, AdminTypeOK
  <2>. QED  BY <1>5, <1>b, <2>1, <2>2, <2>3 DEF SaveBond, AdminTypeOK, RequestType, MembershipGrows
<1>6. ASSUME NEW a \in Admins, NEW u \in Users, CheckMember(a, u) PROVE AdminInv' /\ MembershipGrows
  <2>. DEFINE q == Request("member", u, NoChild, FALSE, Nothing)
  <2>1. q \in RequestType /\ RequestSound(q, bond')
    BY <1>6, IdleTyped DEF CheckMember, tables, Request, RequestType, RequestSound
  <2>2. request' \in [Admins -> RequestType] /\ \A b \in Admins : RequestSound(request'[b], bond')
    BY <1>6, <2>1, RequestSet DEF CheckMember, tables
  <2>3. UNCHANGED tables /\ account' \in [Users -> {"none", "bare", "full"}]
    BY <1>6, <1>a DEF CheckMember
  <2>. QED  BY <2>2, <2>3, TablesKept
<1>7. ASSUME NEW a \in Admins, InsertMember(a) PROVE AdminInv' /\ MembershipGrows
  <2>1. request[a].user \in Users /\ bond # "absent"
    BY <1>7 DEF InsertMember, RequestSound
  <2>2. rows' \in [Users -> 0..MaxRows] /\ \A u \in Users : rows'[u] >= rows[u]
    BY <1>7, <1>a, <1>b, <2>1, AdministrationAssumption DEF InsertMember
  <2>3. request' \in [Admins -> RequestType] /\ \A b \in Admins : RequestSound(request'[b], bond')
    BY <1>7, <1>c, IdleTyped, RequestSet DEF InsertMember
  <2>. QED  BY <1>7, <2>1, <2>2, <2>3 DEF InsertMember, AdminTypeOK, RequestType, MembershipGrows
<1>8. ASSUME NEW c \in Children, AddChild(c) \/ RemoveChild(c) PROVE AdminInv' /\ MembershipGrows
  BY <1>8, <1>b DEF AddChild, RemoveChild, AdminTypeOK, RequestSound, MembershipGrows
<1>9. ASSUME NEW a \in Admins, NEW c \in Children, LoadChild(a, c) PROVE AdminInv' /\ MembershipGrows
  <2>. DEFINE q == Request("child", NoUser, c, FALSE, Nothing)
  <2>1. q \in RequestType /\ RequestSound(q, bond')
    BY IdleTyped DEF Request, RequestType, RequestSound
  <2>2. request' \in [Admins -> RequestType] /\ \A b \in Admins : RequestSound(request'[b], bond')
    BY <1>9, <2>1, RequestSet DEF LoadChild, tables
  <2>3. UNCHANGED tables /\ account' \in [Users -> {"none", "bare", "full"}]
    BY <1>9, <1>a DEF LoadChild
  <2>. QED  BY <2>2, <2>3, TablesKept
<1>10. ASSUME NEW a \in Admins, SaveChild(a) PROVE AdminInv' /\ MembershipGrows
  <2>1. request' \in [Admins -> RequestType] /\ \A b \in Admins : RequestSound(request'[b], bond')
    BY <1>10, <1>c, IdleTyped, RequestSet DEF SaveChild
  <2>2. children' \subseteq Children
    BY <1>10, <1>a DEF SaveChild, RequestSound
  <2>. QED  BY <1>10, <1>b, <2>1, <2>2 DEF SaveChild, AdminTypeOK, RequestType, MembershipGrows
<1>11. ASSUME NEW a \in Admins, Abandon(a) PROVE AdminInv' /\ MembershipGrows
  <2>1. request' \in [Admins -> RequestType] /\ \A b \in Admins : RequestSound(request'[b], bond')
    BY <1>11, <1>c, IdleTyped, RequestSet DEF Abandon, tables
  <2>. QED  BY <1>11, <1>b, <2>1 DEF Abandon, tables, AdminTypeOK, RequestType, MembershipGrows
<1>12. CASE UNCHANGED adminVars
  BY <1>12, <1>b DEF adminVars, tables, AdminTypeOK, RequestSound, MembershipGrows
<1>. QED  BY <1>1, <1>2, <1>3, <1>4, <1>5, <1>6, <1>7, <1>8, <1>9, <1>10, <1>11, <1>12 DEF AdminNext

-----------------------------------------------------------------------------
FrameType == [to : Users \cup {NoUser}, stage : {"query", "sent", "lost"}, due : SUBSET Sockets]

(* A frame nobody has delivered yet has been heard by nobody.              *)
UnsentUnheard ==
  \A s \in Sockets, f \in Frames :
    f > Len(frames) \/ frames[f].stage = "query" => heard[s][f] = 0

(* An open tab that was due to a frame is still registered for a member    *)
(* when its delivery goes to the registry.                                 *)
DueStayRegistered ==
  \A f \in DOMAIN frames, s \in Sockets :
    frames[f].stage = "query" /\ s \in frames[f].due /\ conn[s] = "open" => s \in SocketsOf(Members)

(* Only a socket that has connected is registered or due to a frame.       *)
KnownHaveConnected ==
  /\ \A s \in Sockets : handler[s] = "bonds" => conn[s] # "new"
  /\ \A u \in Users : \A s \in registry[u] : conn[s] # "new"
  /\ \A f \in DOMAIN frames : \A s \in frames[f].due : conn[s] # "new"

GatewayInv ==
  /\ AdminInv /\ GatewayTypeOK
  /\ OncePerSocket /\ EveryTabHears
  /\ UnsentUnheard /\ DueStayRegistered /\ KnownHaveConnected

(* The frames, one by one.                                                 *)
LEMMA FramesTyped ==
  ASSUME GatewayTypeOK
  PROVE  /\ frames \in Seq(FrameType) /\ Len(frames) \in Nat /\ MaxFrames \in Nat
         /\ DOMAIN frames = 1..Len(frames) /\ DOMAIN frames \subseteq Frames
         /\ \A f \in DOMAIN frames : frames[f] \in FrameType /\ frames[f].due \subseteq Sockets
<1>1. frames \in Seq(FrameType)
  BY DEF GatewayTypeOK, FrameType
<1>2. MaxFrames \in Nat
  BY GatewayAssumption
<1>3. \A f \in DOMAIN frames : frames[f] \in FrameType
  BY <1>1
<1>4. DOMAIN frames = 1..Len(frames) /\ Len(frames) \in Nat
  BY <1>1
<1>. QED  BY <1>1, <1>2, <1>3, <1>4 DEF GatewayTypeOK, FrameType, Frames

(* Sockets, registry, frames and counts are typed.                         *)
LEMMA GatewayStarts == Init => GatewayInv
<1> SUFFICES ASSUME Init PROVE GatewayInv
  OBVIOUS
<1>. USE DEF Init, GatewayInit
<1>1. AdminInv
  BY AdminStarts
<1>2. GatewayTypeOK
  <2>1. MaxFrames \in Nat /\ MaxErrors \in Nat
    BY GatewayAssumption
  <2>2. frames \in Seq(FrameType) /\ Len(frames) = 0
    OBVIOUS
  <2>. QED  BY <1>1, <2>1, <2>2 DEF GatewayTypeOK, AdminInv, FrameType
<1>3. OncePerSocket /\ EveryTabHears /\ UnsentUnheard /\ DueStayRegistered /\ KnownHaveConnected
  BY DEF OncePerSocket, EveryTabHears, UnsentUnheard, DueStayRegistered, KnownHaveConnected
<1>. QED  BY <1>1, <1>2, <1>3 DEF GatewayInv

(* A step of the back office only ever adds sockets to those of members.   *)
LEMMA BackOfficeStep ==
  ASSUME GatewayInv, AdminNext, UNCHANGED gatewayVars
  PROVE  GatewayInv'
<1>1. AdminInv' /\ MembershipGrows
  BY AdminStep DEF GatewayInv
<1>2. rows \in [Users -> 0..MaxRows] /\ rows' \in [Users -> 0..MaxRows]
  BY <1>1 DEF GatewayInv, AdminInv, AdminTypeOK
<1>3. Members \subseteq Members'
  BY <1>1, <1>2 DEF Members, MembershipGrows
<1>4. SocketsOf(Members) \subseteq SocketsOf(Members)'
  BY <1>3 DEF SocketsOf, gatewayVars
<1>5. DueStayRegistered'
  BY <1>4 DEF GatewayInv, DueStayRegistered, gatewayVars
<1>6. GatewayTypeOK'
  BY <1>1 DEF GatewayInv, GatewayTypeOK, AdminInv, gatewayVars
<1>7. OncePerSocket' /\ EveryTabHears' /\ UnsentUnheard' /\ KnownHaveConnected'
  BY DEF GatewayInv, gatewayVars, OncePerSocket, EveryTabHears, UnsentUnheard, KnownHaveConnected
<1>. QED  BY <1>1, <1>5, <1>6, <1>7 DEF GatewayInv

(* Nothing the sockets do loses a frame: one that is open and due stays    *)
(* registered, and one that closes is no longer due.                       *)
LEMMA SocketStep ==
  ASSUME GatewayInv, UNCHANGED adminVars, NEW s \in Sockets,
         Connect(s) \/ RefuseToken(s) \/ Accept(s) \/ RefuseUser(s) \/ Disconnect(s)
  PROVE  GatewayInv'
<1>. USE DEF GatewayInv
<1>a. /\ conn \in [Sockets -> {"new", "open", "closed"}]
      /\ handler \in [Sockets -> {"none", "bonds", "accepted", "refused"}]
      /\ registry \in [Users -> SUBSET Sockets] /\ errors \in 0..MaxErrors
      /\ OwnerOf[s] \in Users /\ frames' = frames /\ heard' = heard /\ MaxErrors \in Nat
  BY GatewayAssumption DEF GatewayTypeOK, Connect, RefuseToken, Accept, RefuseUser, Disconnect
<1>1. AdminInv'
  BY AdminStep DEF adminVars
<1>2. errors' \in 0..MaxErrors
  BY <1>a DEF Connect, RefuseToken, Accept, RefuseUser, Disconnect, Error
<1>3. registry' \in [Users -> SUBSET Sockets]
  BY <1>a DEF Connect, RefuseToken, Accept, RefuseUser, Disconnect
<1>4. GatewayTypeOK'
  BY <1>a, <1>1, <1>2, <1>3 DEF GatewayTypeOK, AdminInv, Connect, RefuseToken, Accept, RefuseUser, Disconnect
<1>5. \A t \in Sockets : /\ conn'[t] = "open" => conn[t] \in {"open", "new"}
                         /\ conn'[t] = "new" => conn[t] = "new"
  BY <1>a DEF Connect, RefuseToken, Accept, RefuseUser, Disconnect
<1>6. KnownHaveConnected'
  <2>1. \A t \in Sockets : handler'[t] = "bonds" => conn'[t] # "new"
    BY <1>a DEF KnownHaveConnected, Connect, RefuseToken, Accept, RefuseUser, Disconnect
  <2>2. \A u \in Users : \A t \in registry'[u] : t \in registry[u] \/ (t = s /\ handler[s] = "bonds")
    BY <1>a DEF Connect, RefuseToken, Accept, RefuseUser, Disconnect
  <2>3. \A f \in DOMAIN frames : frames[f].due \subseteq Sockets
    BY FramesTyped
  <2>. QED  BY <1>a, <1>3, <1>5, <2>1, <2>2, <2>3 DEF KnownHaveConnected
<1>7. \A t \in Sockets : conn'[t] = "open" /\ t \in SocketsOf(Members) => t \in SocketsOf(Members)'
  <2>1. \A u \in Users : \A t \in registry[u] : conn'[t] = "open" => t \in registry'[u]
    BY <1>a DEF Connect, RefuseToken, Accept, RefuseUser, Disconnect, KnownHaveConnected
  <2>2. Members' = Members /\ Members \subseteq Users
    BY DEF Members, adminVars, tables
  <2>. QED  BY <2>1, <2>2 DEF SocketsOf
<1>8. DueStayRegistered' /\ EveryTabHears'
  <2>1. ASSUME NEW f \in DOMAIN frames, NEW t \in Sockets, t \in frames[f].due, conn'[t] = "open"
        PROVE  conn[t] = "open"
    <3>1. conn[t] # "new"
      BY <2>1 DEF KnownHaveConnected
    <3>. QED  BY <1>5, <2>1, <3>1
  <2>2. EveryTabHears'
    BY <1>a, <2>1 DEF EveryTabHears
  <2>3. ASSUME NEW f \in DOMAIN frames, NEW t \in Sockets, frames[f].stage = "query",
               t \in frames[f].due, conn'[t] = "open"
        PROVE  t \in SocketsOf(Members)'
    <3>1. conn[t] = "open"
      BY <2>1, <2>3
    <3>2. t \in SocketsOf(Members)
      BY <2>3, <3>1 DEF DueStayRegistered
    <3>. QED  BY <1>7, <2>3, <3>2
  <2>. QED  BY <1>a, <2>2, <2>3 DEF DueStayRegistered
<1>9. OncePerSocket' /\ UnsentUnheard'
  BY <1>a DEF OncePerSocket, UnsentUnheard
<1>. QED  BY <1>1, <1>4, <1>6, <1>8, <1>9

(* A frame for a bond waits for its query, due to the tabs of its members. *)
LEMMA BondFrameStep ==
  ASSUME GatewayInv, UNCHANGED adminVars, BondFrame
  PROVE  GatewayInv'
<1>. USE DEF GatewayInv, BondFrame
<1>1. AdminInv' /\ Members' = Members /\ SocketsOf(Members)' = SocketsOf(Members) /\ Members \subseteq Users
  BY AdminStep DEF adminVars, tables, Members, SocketsOf
<1>2. /\ Len(frames) \in Nat /\ Len(frames) < MaxFrames /\ MaxFrames \in Nat
      /\ frames \in Seq(FrameType) /\ DOMAIN frames = 1..Len(frames)
  BY FramesTyped
<1>3. \A u \in Users : registry[u] \subseteq Sockets
  BY DEF GatewayTypeOK
<1>4. SocketsOf(Members) \subseteq Sockets /\ \A s \in SocketsOf(Members) : conn[s] # "new"
  BY <1>1, <1>3 DEF SocketsOf, KnownHaveConnected
<1>5. Frame(NoUser, "query", SocketsOf(Members)) \in FrameType
  BY <1>4 DEF Frame, FrameType
<1>6. frames' \in Seq(FrameType) /\ Len(frames') = Len(frames) + 1 /\ DOMAIN frames' = 1..Len(frames) + 1
  BY <1>2, <1>5
<1>7. /\ \A f \in DOMAIN frames : frames'[f] = frames[f]
      /\ frames'[Len(frames) + 1] = Frame(NoUser, "query", SocketsOf(Members))
  BY <1>2, <1>5
<1>8. GatewayTypeOK'
  BY <1>1, <1>2, <1>6 DEF GatewayTypeOK, AdminInv, FrameType
<1>9. OncePerSocket' /\ EveryTabHears'
  BY <1>2, <1>6, <1>7 DEF OncePerSocket, EveryTabHears, Frame
<1>10. UnsentUnheard'
  BY <1>2, <1>6, <1>7 DEF UnsentUnheard, Frames
<1>11. DueStayRegistered'
  BY <1>1, <1>2, <1>6, <1>7 DEF DueStayRegistered, Frame
<1>12. KnownHaveConnected'
  BY <1>2, <1>4, <1>6, <1>7 DEF KnownHaveConnected, Frame
<1>. QED  BY <1>1, <1>8, <1>9, <1>10, <1>11, <1>12

(* A frame for one user goes to the registry at once.                      *)
LEMMA NotificationStep ==
  ASSUME GatewayInv, UNCHANGED adminVars, NEW u \in Users, NotificationFrame(u)
  PROVE  GatewayInv'
<1>. USE DEF GatewayInv, NotificationFrame
<1>. DEFINE n == Len(frames) + 1
            due == SocketsOf({u})
<1>1. AdminInv' /\ Members' = Members /\ SocketsOf(Members)' = SocketsOf(Members) /\ Members \subseteq Users
  BY AdminStep DEF adminVars, tables, Members, SocketsOf
<1>2. /\ Len(frames) \in Nat /\ Len(frames) < MaxFrames /\ MaxFrames \in Nat
      /\ frames \in Seq(FrameType) /\ DOMAIN frames = 1..Len(frames) /\ n \in Frames
  BY FramesTyped DEF Frames
<1>3. due = registry[u] /\ registry[u] \subseteq Sockets /\ \A s \in due : conn[s] # "new"
  BY DEF SocketsOf, GatewayTypeOK, KnownHaveConnected
<1>4. Frame(u, "sent", due) \in FrameType
  BY <1>3 DEF Frame, FrameType
<1>5. frames' \in Seq(FrameType) /\ Len(frames') = n /\ DOMAIN frames' = 1..n
  BY <1>2, <1>4
<1>6. /\ \A f \in DOMAIN frames : frames'[f] = frames[f]
      /\ frames'[n] = Frame(u, "sent", due)
  BY <1>2, <1>4
<1>7. \A s \in Sockets : heard[s][n] = 0
  BY <1>2 DEF UnsentUnheard
<1>8. /\ heard' \in [Sockets -> [Frames -> Nat]]
      /\ \A s \in Sockets : heard'[s][n] = IF s \in due /\ conn[s] = "open" THEN 1 ELSE 0
      /\ \A s \in Sockets, f \in Frames : f # n => heard'[s][f] = heard[s][f]
  <2>1. heard \in [Sockets -> [Frames -> Nat]]
    BY DEF GatewayTypeOK
  <2>2. heard' = [s \in Sockets |-> IF s \in due /\ conn[s] = "open"
                                      THEN [heard[s] EXCEPT ![n] = @ + 1] ELSE heard[s]]
    BY DEF Send
  <2>. QED  BY <1>2, <1>7, <2>1, <2>2
<1>9. GatewayTypeOK'
  <2>1. UNCHANGED <<conn, handler, registry, errors>> /\ Len(frames') <= MaxFrames
    BY <1>2, <1>5
  <2>2. AdminTypeOK'
    BY <1>1 DEF AdminInv
  <2>3. heard' \in [Sockets -> [Frames -> Nat]] /\ Frames' = Frames
    BY <1>8 DEF Frames
  <2>. QED  BY <1>5, <2>1, <2>2, <2>3 DEF GatewayTypeOK, FrameType
<1>10. OncePerSocket'
  BY <1>2, <1>8 DEF OncePerSocket
<1>11. EveryTabHears'
  <2>1. ASSUME NEW f \in DOMAIN frames, NEW s \in Sockets PROVE heard'[s][f] = heard[s][f]
    BY <1>2, <1>8 DEF Frames
  <2>2. conn' = conn
    OBVIOUS
  <2>3. frames'[n].due = due
    BY <1>6 DEF Frame
  <2>4. ASSUME NEW f \in DOMAIN frames', NEW s \in Sockets, frames'[f].stage = "sent",
               s \in frames'[f].due, conn'[s] = "open"
        PROVE  heard'[s][f] > 0
    <3>1. CASE f = n
      <4>1. s \in due /\ conn[s] = "open"
        BY <2>2, <2>3, <2>4, <3>1
      <4>2. heard'[s][n] = 1
        BY <1>8, <4>1
      <4>. QED  BY <3>1, <4>2
    <3>2. CASE f # n
      <4>1. f \in DOMAIN frames
        BY <1>2, <1>5, <3>2
      <4>. QED  BY <1>6, <2>1, <2>2, <2>4, <4>1 DEF EveryTabHears
    <3>. QED  BY <3>1, <3>2
  <2>. QED  BY <2>4 DEF EveryTabHears
<1>12. UnsentUnheard'
  <2> SUFFICES ASSUME NEW s \in Sockets, NEW f \in Frames,
                      f > Len(frames') \/ frames'[f].stage = "query"
               PROVE  heard'[s][f] = 0
    BY DEF UnsentUnheard, Frames
  <2>1. f # n
    BY <1>2, <1>5, <1>6 DEF Frame
  <2>2. f > Len(frames) \/ frames[f].stage = "query"
    BY <1>2, <1>5, <1>6, <2>1 DEF Frames
  <2>. QED  BY <1>8, <2>1, <2>2 DEF UnsentUnheard
<1>13. DueStayRegistered'
  BY <1>1, <1>2, <1>5, <1>6 DEF DueStayRegistered, Frame
<1>14. KnownHaveConnected'
  BY <1>2, <1>3, <1>5, <1>6 DEF KnownHaveConnected, Frame
<1>. QED  BY <1>1, <1>9, <1>10, <1>11, <1>12, <1>13, <1>14

(* The query of a frame has an answer, or fails.                           *)
LEMMA DeliveryStep ==
  ASSUME GatewayInv, UNCHANGED adminVars, NEW n \in DOMAIN frames, Deliver(n) \/ LoseFrame(n)
  PROVE  GatewayInv'
<1>. USE DEF GatewayInv
<1>1. AdminInv' /\ Members' = Members /\ SocketsOf(Members)' = SocketsOf(Members)
  BY AdminStep DEF adminVars, tables, Members, SocketsOf, Deliver, LoseFrame
<1>2. /\ frames \in Seq(FrameType) /\ DOMAIN frames = 1..Len(frames) /\ n \in Frames
      /\ DOMAIN frames \subseteq Frames /\ frames[n].stage = "query" /\ MaxErrors \in Nat
      /\ \A f \in DOMAIN frames : frames[f] \in FrameType
  BY FramesTyped, GatewayAssumption DEF Deliver, LoseFrame
<1>3. PICK stage \in {"sent", "lost"} : frames' = [frames EXCEPT ![n].stage = stage]
  BY DEF Deliver, LoseFrame
<1>4. /\ frames' \in Seq(FrameType) /\ DOMAIN frames' = DOMAIN frames /\ Len(frames') = Len(frames)
      /\ \A f \in DOMAIN frames : f # n => frames'[f] = frames[f]
      /\ frames'[n].stage = stage /\ frames'[n].due = frames[n].due
  <2>1. [frames[n] EXCEPT !.stage = stage] \in FrameType
    BY <1>2 DEF FrameType
  <2>2. frames' = [frames EXCEPT ![n] = [frames[n] EXCEPT !.stage = stage]]
    BY <1>3
  <2>3. frames' \in Seq(FrameType) /\ Len(frames') = Len(frames) /\ DOMAIN frames' = DOMAIN frames
    BY <1>2, <2>1, <2>2
  <2>4. frames[n] \in FrameType
    BY <1>2
  <2>5. frames'[n] = [frames[n] EXCEPT !.stage = stage]
    BY <1>2, <2>2
  <2>6. frames'[n].stage = stage /\ frames'[n].due = frames[n].due
    BY <2>4, <2>5 DEF FrameType
  <2>. QED  BY <1>2, <2>2, <2>3, <2>6
<1>5. \A s \in Sockets : heard[s][n] = 0
  BY <1>2 DEF UnsentUnheard
<1>6. /\ heard' \in [Sockets -> [Frames -> Nat]]
      /\ \A s \in Sockets, f \in Frames : f # n => heard'[s][f] = heard[s][f]
      /\ \A s \in Sockets : heard'[s][n] \in {0, 1}
      /\ stage = "sent" => \A s \in Sockets :
            s \in SocketsOf(Members) /\ conn[s] = "open" => heard'[s][n] = 1
  <2>1. heard \in [Sockets -> [Frames -> Nat]]
    BY DEF GatewayTypeOK
  <2>2. CASE Deliver(n)
    <3>1. heard' = [s \in Sockets |-> IF s \in SocketsOf(Members) /\ conn[s] = "open"
                                        THEN [heard[s] EXCEPT ![n] = @ + 1] ELSE heard[s]]
      BY <2>2 DEF Deliver, Send
    <3>. QED  BY <1>2, <1>5, <2>1, <3>1
  <2>3. CASE LoseFrame(n)
    <3>1. frames'[n].stage = "lost" /\ heard' = heard
      BY <2>3, <1>2 DEF LoseFrame, FrameType
    <3>. QED  BY <1>2, <1>4, <1>5, <2>1, <3>1
  <2>. QED  BY <2>2, <2>3
<1>7. GatewayTypeOK'
  <2>1. errors' \in 0..MaxErrors /\ UNCHANGED <<conn, handler, registry>>
    BY <1>2 DEF GatewayTypeOK, Deliver, LoseFrame, Error
  <2>. QED  BY <1>1, <1>4, <1>6, <2>1 DEF GatewayTypeOK, AdminInv, FrameType
<1>8. conn' = conn /\ handler' = handler /\ registry' = registry
  BY DEF Deliver, LoseFrame
<1>9. OncePerSocket'
  <2>1. ASSUME NEW s \in Sockets, NEW f \in Frames PROVE heard'[s][f] <= 1
    <3>1. CASE f = n
      BY <1>6, <3>1
    <3>2. CASE f # n
      BY <1>6, <3>2 DEF OncePerSocket
    <3>. QED  BY <3>1, <3>2
  <2>. QED  BY <2>1 DEF OncePerSocket, Frames
<1>10. EveryTabHears'
  <2>1. ASSUME NEW f \in DOMAIN frames', NEW s \in Sockets, frames'[f].stage = "sent",
               s \in frames'[f].due, conn'[s] = "open"
        PROVE  heard'[s][f] > 0
    <3>1. CASE f = n
      BY <1>1, <1>2, <1>4, <1>6, <1>8, <2>1, <3>1 DEF DueStayRegistered
    <3>2. CASE f # n
      BY <1>2, <1>4, <1>6, <1>8, <2>1, <3>2 DEF EveryTabHears
    <3>. QED  BY <3>1, <3>2
  <2>. QED  BY <2>1 DEF EveryTabHears
<1>11. UnsentUnheard'
  <2>1. ASSUME NEW s \in Sockets, NEW f \in Frames, f > Len(frames') \/ frames'[f].stage = "query"
        PROVE  f # n /\ heard'[s][f] = 0
    <3>1. f # n
      BY <1>2, <1>3, <1>4, <2>1
    <3>2. f > Len(frames) \/ frames[f].stage = "query"
      BY <1>2, <1>3, <1>4, <2>1, <3>1
    <3>. QED  BY <1>6, <3>1, <3>2 DEF UnsentUnheard
  <2>. QED  BY <2>1 DEF UnsentUnheard
<1>12. DueStayRegistered'
  BY <1>1, <1>3, <1>4, <1>8 DEF DueStayRegistered
<1>13. KnownHaveConnected'
  <2>1. \A f \in DOMAIN frames' : frames'[f].due = frames[f].due
    BY <1>4
  <2>. QED  BY <1>4, <1>8, <2>1 DEF KnownHaveConnected
<1>. QED  BY <1>1, <1>7, <1>9, <1>10, <1>11, <1>12, <1>13

-----------------------------------------------------------------------------
(* The inductive invariant of the back office and the gateway together.    *)
THEOREM GatewayAlways == Spec => []GatewayInv
<1>1. GatewayInv /\ [Next]_vars => GatewayInv'
  <2> SUFFICES ASSUME GatewayInv, [Next]_vars PROVE GatewayInv'
    OBVIOUS
  <2>1. CASE AdminNext /\ UNCHANGED gatewayVars
    BY <2>1, BackOfficeStep
  <2>2. CASE GatewayNext /\ UNCHANGED adminVars
    BY <2>2, SocketStep, NotificationStep, BondFrameStep, DeliveryStep DEF GatewayNext
  <2>3. CASE UNCHANGED vars
    <3>1. UNCHANGED adminVars /\ UNCHANGED gatewayVars
      BY <2>3 DEF vars
    <3>2. AdminInv' /\ SocketsOf(Members)' = SocketsOf(Members)
      BY <3>1, AdminStep DEF GatewayInv, adminVars, tables, gatewayVars, Members, SocketsOf
    <3>3. GatewayTypeOK'
      BY <3>1, <3>2 DEF GatewayInv, GatewayTypeOK, AdminInv, gatewayVars
    <3>. QED  BY <3>1, <3>2, <3>3 DEF GatewayInv, gatewayVars, OncePerSocket, EveryTabHears,
                 UnsentUnheard, DueStayRegistered, KnownHaveConnected
  <2>. QED  BY <2>1, <2>2, <2>3 DEF Next
<1>. QED  BY <1>1, GatewayStarts, PTL DEF Spec

(* Whatever two administrators interleave, nobody loses a membership.      *)
THEOREM MembersAlwaysStay == Spec => MembersStay
<1>1. GatewayInv /\ [Next]_vars => [\A u \in Users : rows'[u] >= rows[u]]_adminVars
  <2> SUFFICES ASSUME GatewayInv, [Next]_vars
               PROVE  [\A u \in Users : rows'[u] >= rows[u]]_adminVars
    OBVIOUS
  <2>1. [AdminNext]_adminVars
    BY DEF Next, vars
  <2>. QED  BY <2>1, AdminStep DEF GatewayInv, MembershipGrows
<1>. QED  BY <1>1, GatewayAlways, PTL DEF Spec, MembersStay

(* No socket is sent the same frame twice, however often its user is a     *)
(* member of the bond.                                                     *)
THEOREM SentOnceToEverySocket == Spec => []OncePerSocket
<1>1. GatewayInv => OncePerSocket
  BY DEF GatewayInv
<1>. QED  BY <1>1, GatewayAlways, PTL

(* No open tab misses a frame that was sent, whatever connects, leaves or  *)
(* joins the bond while the members are queried.                           *)
THEOREM EveryTabAlwaysHears == Spec => []EveryTabHears
<1>1. GatewayInv => EveryTabHears
  BY DEF GatewayInv
<1>. QED  BY <1>1, GatewayAlways, PTL

(* A registered socket has been accepted, for the user that it belongs to. *)
RegisteredAccepted ==
  \A u \in Users : \A s \in registry[u] : handler[s] = "accepted" /\ u = OwnerOf[s]

(* Only an accepted handshake registers, and an accepted socket stays so.  *)
LEMMA RegistryStep ==
  ASSUME GatewayInv, RegisteredAccepted, [Next]_vars
  PROVE  RegisteredAccepted'
<1>1. /\ conn \in [Sockets -> {"new", "open", "closed"}]
      /\ handler \in [Sockets -> {"none", "bonds", "accepted", "refused"}]
      /\ registry \in [Users -> SUBSET Sockets]
      /\ \A u \in Users : \A s \in registry[u] : conn[s] # "new"
  BY DEF GatewayInv, GatewayTypeOK, KnownHaveConnected
<1>2. CASE UNCHANGED <<handler, registry>>
  BY <1>2 DEF RegisteredAccepted
<1>3. ASSUME NEW s \in Sockets,
             Connect(s) \/ RefuseToken(s) \/ Accept(s) \/ RefuseUser(s) \/ Disconnect(s)
      PROVE  RegisteredAccepted'
  <2>1. CASE Connect(s)
    BY <1>1, <2>1 DEF Connect, RegisteredAccepted
  <2>2. CASE RefuseToken(s)
    BY <1>1, <2>2 DEF RefuseToken, RegisteredAccepted
  <2>3. CASE Accept(s)
    BY <1>1, <2>3, GatewayAssumption DEF Accept, RegisteredAccepted
  <2>4. CASE RefuseUser(s)
    BY <1>1, <2>4 DEF RefuseUser, RegisteredAccepted
  <2>5. CASE Disconnect(s)
    BY <1>1, <2>5 DEF Disconnect, RegisteredAccepted
  <2>. QED  BY <1>3, <2>1, <2>2, <2>3, <2>4, <2>5
<1>4. CASE AdminNext /\ UNCHANGED gatewayVars
  BY <1>2, <1>4 DEF gatewayVars
<1>5. CASE GatewayNext
  BY <1>2, <1>3, <1>5 DEF GatewayNext, NotificationFrame, BondFrame, Deliver, LoseFrame
<1>6. CASE UNCHANGED vars
  BY <1>2, <1>6 DEF vars, gatewayVars
<1>. QED  BY <1>4, <1>5, <1>6 DEF Next

(* What is registered after its end was registered, or waited to be, when  *)
(* it ended: an accepted socket leaves the registry as it closes, and one  *)
(* that is refused was never in it.                                        *)
LEMMA GhostStep ==
  ASSUME GatewayInv, RegisteredAccepted, [Next]_vars,
         NEW s \in Sockets, conn'[s] = "closed", s \in registry'[OwnerOf[s]]
  PROVE  conn[s] = "closed" /\ (handler[s] = "bonds" \/ s \in SocketsOf(Users))
<1>1. /\ conn \in [Sockets -> {"new", "open", "closed"}]
      /\ registry \in [Users -> SUBSET Sockets] /\ OwnerOf[s] \in Users
      /\ \A u \in Users : \A t \in registry[u] : conn[t] # "new" /\ handler[t] = "accepted"
  BY GatewayAssumption DEF GatewayInv, GatewayTypeOK, KnownHaveConnected, RegisteredAccepted
<1>2. s \in registry[OwnerOf[s]] => s \in SocketsOf(Users)
  BY <1>1 DEF SocketsOf
<1>3. CASE UNCHANGED <<conn, registry>>
  BY <1>2, <1>3
<1>4. ASSUME NEW t \in Sockets,
             Connect(t) \/ RefuseToken(t) \/ Accept(t) \/ RefuseUser(t) \/ Disconnect(t)
      PROVE  conn[s] = "closed" /\ (handler[s] = "bonds" \/ s \in registry[OwnerOf[s]])
  <2>1. CASE Connect(t)
    BY <1>1, <2>1 DEF Connect
  <2>2. CASE RefuseToken(t)
    BY <1>1, <2>2 DEF RefuseToken
  <2>3. CASE Accept(t)
    BY <1>1, <2>3 DEF Accept
  <2>4. CASE RefuseUser(t)
    BY <1>1, <2>4 DEF RefuseUser
  <2>5. CASE Disconnect(t)
    BY <1>1, <2>5 DEF Disconnect
  <2>. QED  BY <1>4, <2>1, <2>2, <2>3, <2>4, <2>5
<1>5. CASE AdminNext /\ UNCHANGED gatewayVars
  BY <1>3, <1>5 DEF gatewayVars
<1>6. CASE GatewayNext
  BY <1>2, <1>3, <1>4, <1>6 DEF GatewayNext, NotificationFrame, BondFrame, Deliver, LoseFrame
<1>7. CASE UNCHANGED vars
  BY <1>3, <1>7 DEF vars, gatewayVars
<1>. QED  BY <1>5, <1>6, <1>7 DEF Next

(* handleConnection(), handleDisconnect(): a closed socket that is in the  *)
(* registry closed while its handshake was waiting for the bonds; no other *)
(* order of events leaks one.                                              *)
THEOREM GhostsOnlyFromHandshakes == Spec => GhostsAreFromHandshakes
<1>1. Init => RegisteredAccepted
  BY DEF Init, GatewayInit, RegisteredAccepted
<1>2. GatewayInv /\ RegisteredAccepted /\ [Next]_vars => RegisteredAccepted'
  BY RegistryStep
<1>3. GatewayInv /\ RegisteredAccepted /\ [Next]_vars =>
        [\A s \in Sockets :
           conn'[s] = "closed" /\ s \in registry'[OwnerOf[s]] =>
             conn[s] = "closed" /\ (handler[s] = "bonds" \/ s \in SocketsOf(Users))]_vars
  BY GhostStep
<1>. QED  BY <1>1, <1>2, <1>3, GatewayAlways, PTL DEF Spec, GhostsAreFromHandshakes

=============================================================================
