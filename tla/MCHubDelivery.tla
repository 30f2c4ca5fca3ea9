--------------------------- MODULE MCHubDelivery ---------------------------
(***************************************************************************)
(* Instances of HubDelivery for TLC.                                       *)
(***************************************************************************)
EXTENDS HubDelivery

CONSTANTS c1, c2, c3, r1, r2, s1, s2

OneClient == {c1}
TwoClients == {c1, c2}
ThreeClients == {c1, c2, c3}
OneRoom == {r1}
TwoRooms == {r1, r2}
OneShard == {s1}
TwoShards == {s1, s2}

OneRoomOnOne == [r \in {r1} |-> s1]
RoomPerShard == (r1 :> s1) @@ (r2 :> s2)
UsersOnOne == [c \in Clients |-> s1]

ClientSymmetry == Permutations(Clients)
============================================================================
