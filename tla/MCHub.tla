------------------------------- MODULE MCHub -------------------------------
(***************************************************************************)
(* Instances of Hub for TLC.                                               *)
(***************************************************************************)
EXTENDS Hub

CONSTANTS c1, c2, u1, r1, ctl1, ctl2, none

TwoClients == {c1, c2}
OneUser == {u1}
OneRoom == {r1}
OneController == {ctl1}
TwoControllers == {ctl1, ctl2}

\* Both connections belong to one user.
SameUser == [c \in {c1, c2} |-> u1]

AllOps == ControllerOps
DisbandRaceOps == {"JoinRoom", "LeaveRoom", "DisbandRoom"}
============================================================================
