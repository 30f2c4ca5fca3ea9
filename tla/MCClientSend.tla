---------------------------- MODULE MCClientSend ---------------------------
(***************************************************************************)
(* Instances of ClientSend for TLC.                                        *)
(***************************************************************************)
EXTENDS ClientSend

CONSTANTS p1, p2, q1, q2

TwoSenders == {p1, p2}
TwoClosers == {q1, q2}
============================================================================
