------------------------------ MODULE MCIngest ------------------------------
(***************************************************************************)
(* An instance of Ingest for TLC: a user and the agent, one node, MongoDB. *)
(***************************************************************************)
EXTENDS Ingest

CONSTANTS id1, id2, reply, old, garbage

MCIds == {id1, id2, reply, old}
MCIdsOf == [s \in Senders |-> IF s = Agent THEN {reply} ELSE {id1, id2}]
MongoOnly == {"mongo"}
MCForeign ==
    {[format |-> "other"],
     [format |-> "json", roomIsNumber |-> TRUE, room |-> 1, sender |-> 1, cid |-> old,
      content |-> 0, timestamp |-> 0]}
============================================================================
