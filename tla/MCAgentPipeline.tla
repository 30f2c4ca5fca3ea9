-------------------------- MODULE MCAgentPipeline --------------------------
(***************************************************************************)
(* An instance of AgentPipeline for TLC: one room whose first bot may      *)
(* answer and file chunks; a second one may be bound later.                *)
(***************************************************************************)
EXTENDS AgentPipeline, TLC

CONSTANTS garbage, none

Said(sender, id, trigger) == [room |-> 1, sender |-> sender, id |-> id, trigger |-> trigger]
Full == [words |-> TRUE, rag |-> TRUE]

MCRoomOf == (1 :> 1) @@ (2 :> 1)
MCBotOf == (1 :> 8) @@ (2 :> 9)
MCConfigs == {[words |-> FALSE, rag |-> FALSE]}

Alone == (1 :> Full) @@ (2 :> none)
Silent == (1 :> none) @@ (2 :> none)
MCStarts ==
    {[topic |-> <<Said(5, "a", TRUE)>>, config |-> Alone],
     [topic |-> <<Said(8, "b", TRUE)>>, config |-> Alone],
     [topic |-> <<Said(9, "b", TRUE)>>, config |-> Silent],
     [topic |-> <<garbage>>, config |-> Alone],
     [topic |-> <<Said(5, "a", TRUE), Said(5, "a", TRUE)>>, config |-> Silent]}
============================================================================
