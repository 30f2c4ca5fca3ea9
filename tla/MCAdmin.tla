------------------------------ MODULE MCAdmin ------------------------------
(***************************************************************************)
(* An instance of Admin for TLC: two users, the first with two connections;*)
(* three rooms, one disbanded; two events, of today and of yesterday;      *)
(* two files, of which a scan reads one record.                            *)
(***************************************************************************)
EXTENDS Admin

RequestSymmetry == Permutations(Requests)

MCConnUser == ("c1" :> 1) @@ ("c2" :> 1)

MCInputs == {[enabled |-> 0, top_k |-> 0], [enabled |-> NoFlag, top_k |-> 2]}

MCEventRow ==
    (1 :> [user |-> 1, room |-> 1, category |-> "spam", result |-> "violation", created |-> 5,
           toolFailed |-> FALSE, penalty |-> "kicked", review |-> "pending"]) @@
    (2 :> [user |-> 1, room |-> 2, category |-> "none", result |-> "safe", created |-> 3,
           toolFailed |-> TRUE, penalty |-> "none", review |-> "pending"])

MCKeyOwner == (1 :> 1) @@ (2 :> 2)
MCFileMembers == (1 :> {1})

MCUserRow ==
    (1 :> [name |-> "al", created |-> 1, prefixes |-> {"a", "al"}]) @@
    (2 :> [name |-> "bo", created |-> 2, prefixes |-> {"b", "bo"}])
MCRoomRow ==
    (1 :> [name |-> "ax", type |-> 2, created |-> 1, status |-> 0, deleted |-> FALSE, agentEnabled |-> TRUE,
           prefixes |-> {"a"}]) @@
    (2 :> [name |-> "bx", type |-> 2, created |-> 2, status |-> 0, deleted |-> TRUE, agentEnabled |-> FALSE,
           prefixes |-> {"b"}]) @@
    (3 :> [name |-> "ay", type |-> 1, created |-> 3, status |-> 1, deleted |-> FALSE, agentEnabled |-> FALSE,
           prefixes |-> {"a"}])
MCToolCallRow ==
    (1 :> [tool |-> "spam", user |-> 1, room |-> 1, success |-> TRUE, started |-> 1]) @@
    (2 :> [tool |-> "time", user |-> 2, room |-> 1, success |-> FALSE, started |-> 2])
MCErrorRow ==
    (1 :> [module |-> "spam", resolved |-> TRUE, timestamp |-> 1]) @@
    (2 :> [module |-> "http", resolved |-> FALSE, timestamp |-> 2])
MCRAGRow == (1 :> [room |-> 1, time |-> 1]) @@ (2 :> [room |-> 1, time |-> 2])

MCMemberships == {{<<1, 1>>, <<2, 1>>, <<3, 1>>, <<1, 2>>}}

MCAny == [page |-> 1, size |-> 1, keyword |-> "", keywordId |-> 0, role |-> -1, status |-> -1,
          type |-> 0, flag |-> "", user |-> 0, room |-> 0, category |-> "", penalty |-> "",
          action |-> "", target |-> "", fileStatus |-> "", start |-> 0, end |-> 0]
MCAskedQueries ==
    {MCAny,
     [MCAny EXCEPT !.size = 0, !.user = 1, !.room = 1, !.role = 0, !.status = 0, !.keyword = "a"],
     [MCAny EXCEPT !.size = 3, !.flag = "1", !.category = "spam", !.keywordId = 1, !.start = 2]}
============================================================================
