------------------------------- MODULE Admin -------------------------------
(***************************************************************************)
(* The admin API: the requests of AdminUsers, AgentConfig, Moderation and  *)
(* Files, the users who register and download files and open connections,  *)
(* and a reader who pages through the audit log meanwhile.                 *)
(*                                                                         *)
(* The four parts share no table but the audit log, so every behaviour is  *)
(* about one of them: it never makes the others wait, and a bound on the   *)
(* requests then leaves room for several of the same part.  The reader     *)
(* goes with the configuration, whose every change appends to the log.     *)
(***************************************************************************)
EXTENDS AdminQueries

CONSTANTS
    Memberships,   \* tables of room members to look at
    AskedQueries,  \* the queries that are asked
    WalkSize       \* page size of the reader of the audit log

ASSUME WalkAssumption == WalkSize \in Int

ASSUME AskedAssumption ==
    /\ \A rows \in Memberships : IsFiniteSet(rows) /\ rows \subseteq Rooms \X Users
    /\ \A q \in AskedQueries : DOMAIN q = QueryFields /\ q.page \in Int /\ q.size \in Int

Parts == {"users", "config", "moderation", "files"}

VARIABLES
    part,    \* what this behaviour is about
    walk     \* the reader: its page, the entries there were, the entries seen

vars == <<requestVars, userVars, configVars, moderationVars, fileVars, members, part, walk>>

NoWalk == [page |-> 0]

AdminInit ==
    /\ RequestsInit /\ UsersInit /\ ConfigInit /\ ModerationInit /\ FilesInit
    /\ part \in Parts
    /\ members \in IF part \in {"users", "moderation"} THEN Memberships ELSE {{}}
    /\ walk = NoWalk

-----------------------------------------------------------------------------
(* Paging through the audit log                                            *)

AuditQuery(page) == [page |-> page, size |-> WalkSize, action |-> NoText, target |-> NoText]

StartWalk ==
    /\ part = "config" /\ walk = NoWalk
    /\ walk' = [page |-> 1, entries |-> Len(audit), seen |-> {}, done |-> FALSE]
    /\ UNCHANGED <<requestVars, userVars, configVars, moderationVars, fileVars, members, part>>

\* AdminAuditList: the next page, until one is empty.
NextPage ==
    LET items == AdminAuditList(AuditQuery(walk.page)).items
    IN  /\ walk # NoWalk /\ ~walk.done
        /\ walk' = [walk EXCEPT !.page = @ + 1, !.seen = @ \cup ToSet(items), !.done = items = <<>>]
        /\ UNCHANGED <<requestVars, userVars, configVars, moderationVars, fileVars, members, part>>

AdminNext ==
    \/ /\ part = "users" /\ UsersNext
       /\ UNCHANGED <<configVars, moderationVars, fileVars, members, part, walk>>
    \/ /\ part = "config" /\ ConfigNext
       /\ UNCHANGED <<userVars, moderationVars, fileVars, members, part, walk>>
    \/ /\ part = "moderation" /\ ModerationNext
       /\ UNCHANGED <<userVars, configVars, fileVars, members, part, walk>>
    \/ /\ part = "files" /\ FilesNext
       /\ UNCHANGED <<userVars, configVars, moderationVars, members, part, walk>>
    \/ StartWalk
    \/ NextPage

AdminSpec == AdminInit /\ [][AdminNext]_vars

-----------------------------------------------------------------------------
(* Properties                                                              *)

\* Offset paging over a log that grows while it is read: whoever pages through the audit
\* log to its end has seen every entry there was at the beginning.  New entries come
\* first, so they push older ones to later pages and never to earlier ones.
AuditWalkComplete ==
    walk # NoWalk /\ walk.done => 1..walk.entries \subseteq walk.seen

\* The pages of a list, one after the other, are the rows that match, each once, and as
\* many as the total says.
PagesCover(List(_), q) ==
    LET total == List(q).total
        pages == 1..((total \div normalSize(q.size)) + 1)
        shown == FlattenSeq([p \in pages |-> List([q EXCEPT !.page = p]).items])
    IN  Len(shown) = total /\ IsInjective(shown)

\* The same for the logs, which other services write and no request changes.
LogsCovered ==
    served = 0 => \A q \in AskedQueries :
        /\ PagesCover(AdminToolCallList, q)
        /\ LET List(p) == ErrorList(Normalized(p)) IN PagesCover(List, q)
        /\ Cardinality(RAGRows(q)) = 1 =>
            LET rows == CHOOSE s \in RAGRows(q) : TRUE
                List(p) == AdminRAGQueries(p, rows)
            IN  PagesCover(List, q)
        /\ ErrorSummary = ErrorList([Normalized(q) EXCEPT !.flag = "false", !.category = NoText,
                                                          !.start = 0, !.end = 0]).total

\* The lists and the details of the admin API agree about the same tables: the pages of
\* every list cover it, the figures that a page of users or rooms takes from one grouped
\* query are those of the details, which count one by one, and a list that is ordered
\* by a time alone covers its rows whenever no two of them have the same time.  Users,
\* rooms and events are asked for between requests: the answers depend on the tables
\* alone, and every table that a request leaves is also there at its end.
QueriesAgree ==
    /\ (part \in {"users", "moderation"} /\ \A r \in Requests : req[r] = Idle) =>
       \A q \in AskedQueries :
        LET userItems == AdminUserList(q).items
            roomItems == AdminRoomList(q).items
            eventRows == EventRows(q)
            List(p) == AdminModerationList(p, CHOOSE rows \in eventRows : TRUE)
        IN  /\ PagesCover(AdminUserList, q) /\ PagesCover(AdminRoomList, q)
            /\ \A i \in DOMAIN userItems :
                /\ userItems[i] = AdminUserDetail(userItems[i].id)
                /\ Cardinality(userRooms(userItems[i].id)) <= userItems[i].rooms
            /\ \A i \in DOMAIN roomItems : roomItems[i] = AdminRoomDetail(roomItems[i].id)
            /\ Cardinality(eventRows) = 1 => PagesCover(List, q)
            /\ \A e \in UNION {ToSet(rows) : rows \in eventRows} : AdminModerationDetail(e) # NotFound
    /\ part = "files" => \A q \in AskedQueries :
        /\ PagesCover(AdminFileList, q)
        /\ \A item \in ToSet(AdminFileList(q).items) :
            AdminFileDetail(item.id) = item /\ AdminFileDownload(item.id) = "url"
    /\ part = "config" => \A q \in AskedQueries :
        PagesCover(AdminAuditList, q) /\ PagesCover(AdminAgentConfigHistory, q)
    /\ LogsCovered
=============================================================================
