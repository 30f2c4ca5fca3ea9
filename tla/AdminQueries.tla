---------------------------- MODULE AdminQueries ----------------------------
(***************************************************************************)
(* The read side of the admin API: the paged lists and the details of      *)
(* users, rooms, files, moderation events, audit entries, configuration    *)
(* versions, tool calls, errors and RAG queries (admin/application) as     *)
(* their handlers (admin/api) ask for them.                                *)
(*                                                                         *)
(* A query is a record whose fields are 0, -1 or "" where the request does *)
(* not name them.  The message counts that lists and details also show are *)
(* those of MessageStats.                                                  *)
(***************************************************************************)
EXTENDS AdminUsers, AgentConfig, Moderation, Files, SequencesExt

CONSTANTS
    UserRow,           \* UserRow[u]: name, created, and the prefixes of the name
    Rooms,
    RoomRow,           \* RoomRow[g]: name, type, created, status, deleted, agentEnabled, prefixes
    ToolCallRow,       \* tool_call_logs, by id
    ErrorRow,          \* system_error_logs, by id
    RAGRow,            \* rag_query_logs, by id
    MaxPageSize,       \* 100
    DefaultPageSize    \* 20

ASSUME QueriesAssumption ==
    /\ \A ids \in {Users, Rooms, DOMAIN ToolCallRow, DOMAIN ErrorRow, DOMAIN RAGRow} :
        IsFiniteSet(ids) /\ ids \subseteq Nat \ {0}
    /\ \A i \in DOMAIN ErrorRow : ErrorRow[i].resolved \in BOOLEAN
    /\ DefaultPageSize \in 1..MaxPageSize

VARIABLES members      \* room_members: pairs of a room and a user

-----------------------------------------------------------------------------
(* What the lists share                                                    *)

\* The fields of UserListQuery, RoomListQuery, ModerationListQuery and the other queries.
QueryFields ==
    {"page", "size", "keyword", "keywordId", "role", "status", "type", "flag", "user", "room",
     "category", "penalty", "action", "target", "fileStatus", "start", "end"}

normalPage(page) == IF page < 1 THEN 1 ELSE page
normalSize(size) == IF size < 1 \/ size > MaxPageSize THEN DefaultPageSize ELSE size

\* What the handler of every list does with page and page_size.
Normalized(q) == [q EXCEPT !.page = normalPage(@), !.size = normalSize(@)]

\* The answer of a handler whose service finds no row.
NotFound == <<>>

\* A faulty Offset that counts pages from 0.
PageFromZero(rows, page, size) ==
    SubSeq(rows, page * size + 1, Min({(page + 1) * size, Len(rows)}))

\* Offset((page - 1) * size).Limit(size)
Page(rows, page, size) ==
    SubSeq(rows, (page - 1) * size + 1, Min({page * size, Len(rows)}))

\* Count and Find; the two are separate queries.
Listed(rows, q) ==
    [items |-> Page(rows, q.page, q.size), total |-> Len(rows)]

\* Order("id DESC")
ByIdDesc(ids) ==
    CHOOSE rows \in [1..Cardinality(ids) -> ids] : \A i, j \in DOMAIN rows : i < j => rows[i] > rows[j]

\* Order by a time only: rows of the same time come in any order.
ByTimeDesc(ids, Time(_)) ==
    {rows \in SetToSeqs(ids) :
        \A i, j \in 1..Len(rows) : i < j => Time(rows[i]) >= Time(rows[j])}

NoText == ""
WantedId(given, id) == given > 0 => id = given
WantedCode(given, code) == given >= 0 => code = given
WantedText(given, text) == given # NoText => text = given
WantedFlag(given, flag) == given # NoText => flag = (given \in {"true", "1"})
WantedPrefix(given, prefixes) == given # NoText => given \in prefixes
InWindow(q, time) == (q.start > 0 => time >= q.start) /\ (q.end > 0 => time < q.end)

\* A keyword that is a number is an id.
WantedKeyword(q, id, prefixes) ==
    IF q.keywordId > 0 THEN id = q.keywordId ELSE WantedPrefix(q.keyword, prefixes)

\* COUNT(*) ... GROUP BY for the ids of a page: ids without rows are absent, and a
\* lookup of an absent one gives 0.
GroupCount(ids, rows, Key(_)) ==
    [id \in {Key(row) : row \in rows} \cap ids |-> Cardinality({row \in rows : Key(row) = id})]
Lookup(counts, id) == IF id \in DOMAIN counts THEN counts[id] ELSE 0

CheckUsersOnline(ids) == {u \in ids : CheckUserOnline(u)}

-----------------------------------------------------------------------------
(* Users                                                                   *)

countUserRoomsByIDs(ids) == GroupCount(ids, members, LAMBDA m : m[2])
countUserViolationsByIDs(ids) == GroupCount(ids, DOMAIN events, LAMBDA e : events[e].user)
countUserRooms(u) == Cardinality({m \in members : m[2] = u})
countUserViolations(u) == Cardinality(EventsWith(LAMBDA row : row.user = u))

\* Joined with the rooms that are not deleted, which countUserRooms is not.
userRooms(u) == {g \in Rooms : <<g, u>> \in members /\ ~RoomRow[g].deleted}

ListUsers(q) ==
    LET listed == Listed(ByIdDesc({u \in Users :
                    /\ WantedKeyword(q, u, UserRow[u].prefixes)
                    /\ WantedCode(q.role, users[u].role)
                    /\ WantedCode(q.status, users[u].status)
                    /\ InWindow(q, UserRow[u].created)}), q)
        ids == ToSet(listed.items)
        item(u) == [id |-> u, role |-> users[u].role, status |-> users[u].status,
                    online |-> u \in CheckUsersOnline(ids),
                    rooms |-> Lookup(countUserRoomsByIDs(ids), u),
                    violations |-> Lookup(countUserViolationsByIDs(ids), u)]
    IN  [items |-> [i \in DOMAIN listed.items |-> item(listed.items[i])], total |-> listed.total]

GetUserDetail(u) ==
    [id |-> u, role |-> users[u].role, status |-> users[u].status,
     online |-> CheckUserOnline(u), rooms |-> countUserRooms(u),
     violations |-> countUserViolations(u)]

AdminUserList(q) == ListUsers(Normalized(q))
AdminUserDetail(u) == IF u \in Users THEN GetUserDetail(u) ELSE NotFound

-----------------------------------------------------------------------------
(* Rooms                                                                   *)

\* A faulty count of the members who are online that counts every user once.
onlineMemberCountsOnce(ids) ==
    GroupCount(ids, {m \in members : /\ m[1] \in ids /\ m[2] \in CheckUsersOnline(Users)
                                     /\ \A n \in members : n[2] = m[2] => n[1] <= m[1]},
               LAMBDA m : m[1])

countMembersByIDs(ids) == GroupCount(ids, members, LAMBDA m : m[1])

\* The online keys are read once for the members of all rooms of the page.
onlineMemberCounts(ids) ==
    LET rows == {m \in members : m[1] \in ids}
        onlineMap == CheckUsersOnline({m[2] : m \in rows})
    IN  GroupCount(ids, {m \in rows : m[2] \in onlineMap}, LAMBDA m : m[1])

countRoomViolationsByIDs(ids) ==
    GroupCount(ids, EventsWith(LAMBDA row : row.created >= Today), LAMBDA e : events[e].room)
countMembers(g) == Cardinality({m \in members : m[1] = g})
roomMembers(g) == {[user |-> m[2], online |-> CheckUserOnline(m[2])] : m \in {n \in members : n[1] = g}}
countOnlineMembers(g) == Cardinality({item \in roomMembers(g) : item.online})
countRoomViolations(g) == CountToday(LAMBDA row : row.room = g)

ListRooms(q) ==
    LET listed == Listed(ByIdDesc({g \in Rooms :
                    /\ ~RoomRow[g].deleted
                    /\ WantedKeyword(q, g, RoomRow[g].prefixes)
                    /\ WantedId(q.type, RoomRow[g].type)
                    /\ WantedFlag(q.flag, RoomRow[g].agentEnabled)
                    /\ WantedCode(q.status, RoomRow[g].status)
                    /\ InWindow(q, RoomRow[g].created)}), q)
        ids == ToSet(listed.items)
        item(g) == [id |-> g, members |-> Lookup(countMembersByIDs(ids), g),
                    online |-> Lookup(onlineMemberCounts(ids), g),
                    violations |-> Lookup(countRoomViolationsByIDs(ids), g)]
    IN  [items |-> [i \in DOMAIN listed.items |-> item(listed.items[i])], total |-> listed.total]

GetRoomDetail(g) ==
    [id |-> g, members |-> countMembers(g), online |-> countOnlineMembers(g),
     violations |-> countRoomViolations(g)]

\* A room that is deleted is not found.
AdminRoomList(q) == ListRooms(Normalized(q))
AdminRoomDetail(g) ==
    IF g \in Rooms /\ ~RoomRow[g].deleted THEN GetRoomDetail(g) ELSE NotFound

-----------------------------------------------------------------------------
(* Files, events, audit and the logs: their filters select by columns like *)
(* those below, and the columns that are left out would only add more.     *)

FileById(id) == CHOOSE k \in DOMAIN records : records[k].id = id

\* The names of a page's uploaders and rooms; those without a row are absent, and a
\* lookup of an absent one gives the empty name.
usernames(ids) == [u \in ids \cap Users |-> UserRow[u].name]
roomNames(ids) == [g \in {h \in ids \cap Rooms : ~RoomRow[h].deleted} |-> RoomRow[g].name]
NameIn(names, id) == IF id \in DOMAIN names THEN names[id] ELSE NoText

\* The same for one file: First, and the empty name after an error.
username(u) == IF u \in Users THEN UserRow[u].name ELSE NoText
roomName(g) == IF g \in Rooms /\ ~RoomRow[g].deleted THEN RoomRow[g].name ELSE NoText

\* No record names its message.
FileListItem(id, uploaderName, nameOfRoom) ==
    [id |-> id, key |-> FileById(id), uploader |-> uploaderName, room |-> nameOfRoom,
     exists |-> objectExists(FileById(id)), hasMessage |-> FALSE]

ListFiles(q) ==
    LET listed == Listed(ByIdDesc({rec.id : rec \in {records[k] : k \in {j \in DOMAIN records :
                    /\ WantedId(q.user, records[j].uploader)
                    /\ WantedId(q.room, records[j].room)
                    /\ WantedText(q.fileStatus, records[j].status)}}}), q)
        rows == {records[FileById(id)] : id \in ToSet(listed.items)}
        usernameMap == usernames({rec.uploader : rec \in rows})
        roomNameMap == roomNames({rec.room : rec \in rows} \ {0})
        item(id) == LET rec == records[FileById(id)]
                    IN  FileListItem(id, NameIn(usernameMap, rec.uploader), NameIn(roomNameMap, rec.room))
    IN  [listed EXCEPT !.items = [i \in DOMAIN listed.items |-> item(listed.items[i])]]

GetFile(id) ==
    IF \E k \in DOMAIN records : records[k].id = id
    THEN LET rec == records[FileById(id)]
         IN  FileListItem(id, username(rec.uploader), roomName(rec.room))
    ELSE NotFound

\* The link is signed whether or not the object is there.
AdminFileList(q) == ListFiles(Normalized(q))
AdminFileDetail(id) == GetFile(id)
AdminFileDownload(id) == IF GetFile(id) = NotFound THEN "not_found" ELSE "url"

\* One of the orders that the query leaves open.
ListEvents(q, rows) == Listed(rows, q)
AdminModerationList(q, rows) == ListEvents(Normalized(q), rows)
AdminModerationDetail(e) == IF e \in DOMAIN events THEN GetEvent(e) ELSE NotFound

EventRows(q) ==
    ByTimeDesc(EventsWith(LAMBDA row :
                    /\ WantedId(q.user, row.user)
                    /\ WantedId(q.room, row.room)
                    /\ WantedText(q.category, row.category)
                    /\ WantedText(q.penalty, row.penalty)
                    /\ InWindow(q, row.created)),
               LAMBDA e : events[e].created)

AuditList(q) ==
    Listed(ByIdDesc({i \in 1..Len(audit) :
        /\ WantedText(q.action, audit[i].action)
        /\ WantedText(q.target, audit[i].type)}), q)
AdminAuditList(q) == AuditList(Normalized(q))

\* AgentConfigService.History
ConfigHistoryList(q) == Listed(ByIdDesc(1..Len(history)), q)
AdminAgentConfigHistory(q) == ConfigHistoryList(Normalized(q))

ToolCallList(q) ==
    Listed(ByIdDesc({i \in DOMAIN ToolCallRow :
        /\ WantedText(q.category, ToolCallRow[i].tool)
        /\ WantedId(q.user, ToolCallRow[i].user)
        /\ WantedId(q.room, ToolCallRow[i].room)
        /\ WantedFlag(q.flag, ToolCallRow[i].success)
        /\ InWindow(q, ToolCallRow[i].started)}), q)
AdminToolCallList(q) == ToolCallList(Normalized(q))

\* No handler serves this list yet; it is asked here as the other lists are.
ErrorList(q) ==
    Listed(ByIdDesc({i \in DOMAIN ErrorRow :
        /\ WantedText(q.category, ErrorRow[i].module)
        /\ WantedFlag(q.flag, ErrorRow[i].resolved)
        /\ InWindow(q, ErrorRow[i].timestamp)}), q)

ErrorSummary == Cardinality({i \in DOMAIN ErrorRow : ~ErrorRow[i].resolved})

RAGRows(q) == ByTimeDesc({i \in DOMAIN RAGRow : WantedId(q.room, RAGRow[i].room)},
                         LAMBDA i : RAGRow[i].time)
ListQueries(q, rows) == Listed(rows, q)
AdminRAGQueries(q, rows) == ListQueries(Normalized(q), rows)
=============================================================================
