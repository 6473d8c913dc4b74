------------------------- MODULE MCRealtimeGateway -------------------------
(***************************************************************************)
(* Two tabs of a user who may become a member of the bond, once or twice,  *)
(* while two requests of the back office are served.                       *)
(***************************************************************************)
EXTENDS RealtimeGateway, TLC

CONSTANT Newcomer

MCOwnerOf == [s \in Sockets |-> Newcomer]

Symmetry == Permutations(Admins) \cup Permutations(Sockets)

=============================================================================
