-------------------------- MODULE MCRoomMembership -------------------------
(***************************************************************************)
(* Instances of RoomMembership for TLC.                                    *)
(***************************************************************************)
EXTENDS RoomMembership

CONSTANTS u1, u2, r1, h1, h2, none

TwoUsers == {u1, u2}
OneRoom == {r1}
TwoHandlers == {h1, h2}
BothRuntimes == {"hub", "redis"}
============================================================================
