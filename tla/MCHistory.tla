----------------------------- MODULE MCHistory -----------------------------
(***************************************************************************)
(* An instance of History for TLC: three messages of two users in one of   *)
(* two rooms.                                                              *)
(***************************************************************************)
EXTENDS History

MCMsgRoom == (1 :> 1) @@ (2 :> 1) @@ (3 :> 1)
MCMsgSender == (1 :> 1) @@ (2 :> 2) @@ (3 :> 1)
MCMsgType == (1 :> 1) @@ (2 :> 2) @@ (3 :> 1)
MCMsgText == (1 :> {"a"}) @@ (2 :> {"a", "@agent"}) @@ (3 :> {"ab"})
MCRoomTypes == (1 :> 2) @@ (2 :> 1)
============================================================================
