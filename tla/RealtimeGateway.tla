-------------------------- MODULE RealtimeGateway --------------------------
(***************************************************************************)
(* The WebSocket gateway of the API process, composed with the back office *)
(* whose tables it reads: the handshake, the registry of sockets, the      *)
(* frames that arrive through Redis and their delivery to a bond or to one *)
(* user (src/src/realtime: realtime.gateway.ts, realtime-auth.service.ts,  *)
(* realtime-subscriber.service.ts, dto).                                   *)
(***************************************************************************)
EXTENDS BondAdministration, Sequences

CONSTANTS
  Sockets,     \* connections
  OwnerOf,     \* whose token a connection carries
  MaxFrames,   \* bound: frames published
  MaxErrors    \* bound: queries that fail

ASSUME GatewayAssumption ==
  /\ OwnerOf \in [Sockets -> Users]
  /\ {MaxFrames, MaxErrors} \subseteq Nat

VARIABLES
  conn,       \* the connection: new, open or closed
  handler,    \* its handleConnection(): not begun, reading the bonds, accepted or refused
  registry,   \* sockets of every user
  frames,     \* frames received from the channel, in order
  heard,      \* history: how often a socket was sent a frame
  errors      \* queries that have failed

gatewayVars == <<conn, handler, registry, frames, heard, errors>>
vars == <<adminVars, gatewayVars>>

Frames == 1..MaxFrames

(* A frame for a bond (to: NoUser) or for one user; `due` is history: the  *)
(* registered sockets of those it concerned when it arrived.               *)
Frame(to, stage, due) == [to |-> to, stage |-> stage, due |-> due]

SocketsOf(users) == UNION { registry[u] : u \in users }

(* One type invariant.                                                     *)
GatewayTypeOK ==
  /\ AdminTypeOK
  /\ conn \in [Sockets -> {"new", "open", "closed"}]
  /\ handler \in [Sockets -> {"none", "bonds", "accepted", "refused"}]
  /\ registry \in [Users -> SUBSET Sockets]
  /\ frames \in Seq([to : Users \cup {NoUser}, stage : {"query", "sent", "lost"},
                     due : SUBSET Sockets])
  /\ Len(frames) <= MaxFrames
  /\ heard \in [Sockets -> [Frames -> Nat]]
  /\ errors \in 0..MaxErrors

GatewayInit ==
  /\ conn = [s \in Sockets |-> "new"]
  /\ handler = [s \in Sockets |-> "none"]
  /\ registry = [u \in Users |-> {}]
  /\ frames = <<>>
  /\ heard = [s \in Sockets |-> [f \in Frames |-> 0]]
  /\ errors = 0

Error ==
  /\ errors < MaxErrors
  /\ errors' = errors + 1

-----------------------------------------------------------------------------
(* handleConnection(), up to the end of authenticate(): a bad token is     *)
(* answered with a close.                                                  *)
Connect(s) ==
  /\ conn[s] = "new"
  /\ conn' = [conn EXCEPT ![s] = "open"]
  /\ handler' = [handler EXCEPT ![s] = "bonds"]
  /\ UNCHANGED <<registry, frames, heard, errors>>
RefuseToken(s) ==
  /\ conn[s] = "new"
  /\ conn' = [conn EXCEPT ![s] = "closed"]
  /\ handler' = [handler EXCEPT ![s] = "refused"]
  /\ UNCHANGED <<registry, frames, heard, errors>>

(* The bonds have been read: with one the socket is registered, whether or *)
(* not it is still there; without one it is closed.                        *)
Accept(s) ==
  /\ handler[s] = "bonds" /\ Visible(OwnerOf[s])
  /\ handler' = [handler EXCEPT ![s] = "accepted"]
  /\ registry' = [registry EXCEPT ![OwnerOf[s]] = @ \cup {s}]
  /\ UNCHANGED <<conn, frames, heard, errors>>
RefuseUser(s) ==
  /\ handler[s] = "bonds"
  /\ \/ ~Visible(OwnerOf[s]) /\ UNCHANGED errors
     \/ Error
  /\ handler' = [handler EXCEPT ![s] = "refused"]
  /\ conn' = [conn EXCEPT ![s] = "closed"]
  /\ UNCHANGED <<registry, frames, heard>>

(* Faulty variants of Disconnect: the whole entry of the user goes; the    *)
(* socket stays.                                                           *)
DisconnectUser(s) ==
  /\ conn[s] = "open"
  /\ conn' = [conn EXCEPT ![s] = "closed"]
  /\ registry' = [registry EXCEPT ![OwnerOf[s]] = IF s \in @ THEN {} ELSE @]
  /\ UNCHANGED <<handler, frames, heard, errors>>
DisconnectKeeps(s) ==
  /\ conn[s] = "open"
  /\ conn' = [conn EXCEPT ![s] = "closed"]
  /\ UNCHANGED <<handler, registry, frames, heard, errors>>

(* handleDisconnect(): the client has gone, at any moment of its handshake.*)
Disconnect(s) ==
  /\ conn[s] = "open"
  /\ conn' = [conn EXCEPT ![s] = "closed"]
  /\ registry' = [u \in Users |-> registry[u] \ {s}]
  /\ UNCHANGED <<handler, frames, heard, errors>>

-----------------------------------------------------------------------------
Send(f, targets) ==
  heard' = [s \in Sockets |->
             IF s \in targets /\ conn[s] = "open" THEN [heard[s] EXCEPT ![f] = @ + 1]
                                                  ELSE heard[s]]

(* deliverToUser(): at once, from the registry.                            *)
NotificationFrame(u) ==
  /\ Len(frames) < MaxFrames
  /\ frames' = Append(frames, Frame(u, "sent", SocketsOf({u})))
  /\ Send(Len(frames) + 1, SocketsOf({u}))
  /\ UNCHANGED <<conn, handler, registry, errors>>

(* deliverToBond(): first the members are queried ...                      *)
BondFrame ==
  /\ Len(frames) < MaxFrames
  /\ bond # "absent"
  /\ frames' = Append(frames, Frame(NoUser, "query", SocketsOf(Members)))
  /\ UNCHANGED <<conn, handler, registry, heard, errors>>

(* Faulty variant: one write per member row.                               *)
DeliverPerRow(f) ==
  /\ frames[f].stage = "query"
  /\ heard' = [s \in Sockets |->
                IF s \in SocketsOf(Users) /\ conn[s] = "open"
                  THEN [heard[s] EXCEPT ![f] = @ + rows[OwnerOf[s]]] ELSE heard[s]]
  /\ frames' = [frames EXCEPT ![f].stage = "sent"]
  /\ UNCHANGED <<conn, handler, registry, errors>>

(* ... and their sockets of then, collected in a set, are written to.      *)
Deliver(f) ==
  /\ frames[f].stage = "query"
  /\ Send(f, SocketsOf(Members))
  /\ frames' = [frames EXCEPT ![f].stage = "sent"]
  /\ UNCHANGED <<conn, handler, registry, errors>>

(* A failing query loses the frame.                                        *)
LoseFrame(f) ==
  /\ frames[f].stage = "query"
  /\ Error
  /\ frames' = [frames EXCEPT ![f].stage = "lost"]
  /\ UNCHANGED <<conn, handler, registry, heard>>

GatewayNext ==
  \/ \E s \in Sockets :
       Connect(s) \/ RefuseToken(s) \/ Accept(s) \/ RefuseUser(s) \/ Disconnect(s)
  \/ \E u \in Users : NotificationFrame(u)
  \/ BondFrame
  \/ \E f \in DOMAIN frames : Deliver(f) \/ LoseFrame(f)

Init == AdminInit /\ GatewayInit

Next ==
  \/ AdminNext /\ UNCHANGED gatewayVars
  \/ GatewayNext /\ UNCHANGED adminVars

Spec == Init /\ [][Next]_vars

-----------------------------------------------------------------------------
(* Properties.                                                             *)

(* A socket is sent a frame at most once, also when the administration has *)
(* made its user a member twice (deliverToBond, "exactly once").           *)
OncePerSocket ==
  \A s \in Sockets, f \in Frames : heard[s][f] <= 1

(* No tab goes deaf: a frame that was sent has reached every socket it was *)
(* due to that is still open, whoever disconnected, registered or was      *)
(* refused while the members were being queried (deliverToBond).           *)
EveryTabHears ==
  \A f \in DOMAIN frames, s \in Sockets :
    frames[f].stage = "sent" /\ s \in frames[f].due /\ conn[s] = "open" => heard[s][f] > 0

(* The only sockets left in the registry after their end are those that    *)
(* closed while handleConnection() was still waiting: nothing else leaks.  *)
(* Such a socket is registered when it is already gone and no event will   *)
(* remove it.                                                              *)
GhostsAreFromHandshakes ==
  [][\A s \in Sockets :
       conn'[s] = "closed" /\ s \in registry'[OwnerOf[s]] =>
         conn[s] = "closed" /\ (handler[s] = "bonds" \/ s \in SocketsOf(Users))]_vars

=============================================================================
