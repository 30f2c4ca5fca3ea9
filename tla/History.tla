------------------------------- MODULE History -------------------------------
(***************************************************************************)
(* Chat history: what becomes of a message between the producer and a      *)
(* reader who pages through a room.  The producer stamps created_at and    *)
(* writes to Kafka, the archiver gives IDs in the order of the partition   *)
(* and its tasks store and cache the messages in any order, and            *)
(* GetChatHistory serves the first page from the Redis list or the store   *)
(* and the following ones from the store.  The reader is a member of the   *)
(* room: others are refused.                                               *)
(*                                                                         *)
(* A task stores one message: batches, faults of the store and restarts    *)
(* are the subject of Archiver.  The clock and nextID are IdGenerator's.   *)
(***************************************************************************)
EXTENDS IdGenerator, MessageStats

CONSTANTS
    Messages,       \* the messages that may be sent, numbers
    MsgRoom, MsgSender, MsgType, MsgText,  \* what each message is
    RoomTypes,      \* the type of each room
    Stores,         \* the values of MESSAGE_STORE considered
    Keywords,       \* what a search may look for
    DefaultLimit,   \* the page of a request without a limit (50)
    RoomLatestMax,  \* messages kept per room in Redis (100)
    MaxLag,         \* bound: messages of the partition the archiver has not read
    MaxWalks,       \* bound: walks through the history
    MaxEvents       \* bound: deletions, failing calls of Redis and expiries together

Rooms == DOMAIN RoomTypes
Users == {MsgSender[m] : m \in Messages}

ASSUME HistoryAssumption ==
    /\ Messages \subseteq Nat
    /\ \A m \in Messages : MsgRoom[m] \in Rooms /\ MsgSender[m] \in Nat \ {0}
    /\ \A room \in Rooms : RoomTypes[room] \in {1, 2}  \* models.Room: private, group
    /\ Stores \subseteq {"mysql", "mongo"}
    /\ DefaultLimit \in 1..MaxLimit /\ RoomLatestMax \in Nat \ {0}
    /\ MaxLag \in Nat \ {0} /\ MaxWalks \in Nat /\ MaxEvents \in Nat

VARIABLES
    store,      \* MESSAGE_STORE
    unsent,     \* messages nobody has sent yet
    stamped,    \* messages with a created_at, on their way to Kafka
    partition,  \* written to Kafka, not yet read by the archiver
    tasks,      \* flush tasks: [row, step]
    table,      \* the message store
    latest,     \* im:room:latest:<room>: IDs, the one pushed last first
    backfills,  \* goroutines that run BackfillRoomCache: [room, ids]
    walk,       \* the reader's walk through a room
    budget,     \* what is left of the bounds
    mixed       \* history: rooms whose list was written out of the store's order

hvars == <<store, unsent, stamped, partition, tasks, table, latest, backfills, walk,
           budget, mixed>>

NoWalk == [on |-> FALSE]

\* IDs are unique in the store and a room's list keeps its length.
HistoryTypeOK ==
    /\ TypeOK
    /\ store \in Stores
    /\ \A r, s \in table : r.id = s.id => r = s
    /\ \A room \in Rooms : Len(latest[room]) <= RoomLatestMax

HistoryInit ==
    /\ Init
    /\ store \in Stores
    /\ unsent = Messages
    /\ stamped = {} /\ partition = <<>> /\ tasks = {} /\ table = {}
    /\ latest = [room \in Rooms |-> <<>>]
    /\ backfills = <<>>
    /\ walk = NoWalk
    /\ budget = [walks |-> MaxWalks, events |-> MaxEvents]
    /\ mixed = {}

Row(s, id) ==
    [id |-> id, room |-> MsgRoom[s.msg], sender |-> MsgSender[s.msg], type |-> MsgType[s.msg],
     text |-> MsgText[s.msg], at |-> s.at, deleted |-> FALSE]

\* One more failing call, if the bound allows it; fails says whether it does.
Faulty(fails) ==
    /\ fails => budget.events > 0
    /\ budget' = [budget EXCEPT !.events = @ - IF fails THEN 1 ELSE 0]

-----------------------------------------------------------------------------
(* Producer and archiver                                                   *)

\* HandleIncomingMessage: CreatedAt = now, before the write to Kafka.  Messages are
\* numbered in this order.  The epoch of the IDs lies in the past, so that no ID is 0.
Stamp(m) ==
    /\ m \in unsent /\ \A n \in unsent : m <= n
    /\ clock > IdEpoch
    /\ unsent' = unsent \ {m}
    /\ stamped' = stamped \cup {[msg |-> m, at |-> clock]}
    /\ UNCHANGED <<vars, store, partition, tasks, table, latest, backfills, walk, budget, mixed>>

WriteMessages(s) ==
    /\ s \in stamped
    /\ Len(partition) < MaxLag
    /\ stamped' = stamped \ {s}
    /\ partition' = Append(partition, s)
    /\ UNCHANGED <<vars, store, unsent, tasks, table, latest, backfills, walk, budget, mixed>>

\* The archiver reads the next message and gives it an ID, and its flush starts.
Assign ==
    /\ partition # <<>>
    /\ nextID \/ NextMillisecond
    /\ IF Returns
       THEN /\ tasks' = tasks \cup {[row |-> Row(Head(partition), last'), step |-> "save"]}
            /\ partition' = Tail(partition)
       ELSE UNCHANGED <<tasks, partition>>
    /\ UNCHANGED <<store, unsent, stamped, table, latest, backfills, walk, budget, mixed>>

SaveMessage(t) ==
    /\ t \in tasks /\ t.step = "save"
    /\ table' = table \cup {t.row}
    /\ tasks' = (tasks \ {t}) \cup {[t EXCEPT !.step = "push"]}
    /\ UNCHANGED <<vars, store, unsent, stamped, partition, latest, backfills, walk, budget, mixed>>

\* A faulty cache that pushes at the wrong end.
PushedBehind(list, ids) == Limit(list \o ids, RoomLatestMax)

\* LPUSH of each ID and LTRIM; the commands of a pipeline are assumed to run together.
Pushed(list, ids) == Limit(Reverse(ids) \o list, RoomLatestMax)

LiveIds(room) == {r.id : r \in InRoom(mysqlLive(table), room)}

Pending(room) == {t.row.id : t \in {x \in tasks : x.step # "save" /\ x.row.room = room}}

\* A newer message of the room has been through its own push already.
Overtaken(row) ==
    \E r \in table : r.room = row.room /\ Before(row, r) /\ r.id \notin Pending(row.room)

pushLatestToRedis(t, fails) ==
    /\ t \in tasks /\ t.step = "push"
    /\ Faulty(fails)
    /\ latest' = IF fails THEN latest ELSE [latest EXCEPT ![t.row.room] = Pushed(@, <<t.row.id>>)]
    /\ mixed' = IF fails \/ Overtaken(t.row) \/ t.row.id \notin LiveIds(t.row.room)
                THEN mixed \cup {t.row.room} ELSE mixed
    /\ tasks' = tasks \ {t}
    /\ UNCHANGED <<vars, store, unsent, stamped, partition, table, backfills, walk>>

\* The repository operation SoftDeleteUserMessagesInRoom.
SoftDelete(room, user) ==
    /\ budget.events > 0
    /\ \E r \in table : r.room = room /\ r.sender = user /\ ~r.deleted
    /\ budget' = [budget EXCEPT !.events = @ - 1]
    /\ table' = IF store = "mysql" THEN mysqlSoftDeleteUserMessagesInRoom(table, room, user)
                                   ELSE mongoSoftDeleteUserMessagesInRoom(table, room, user)
    /\ mixed' = mixed \cup {room}
    /\ UNCHANGED <<vars, store, unsent, stamped, partition, tasks, latest, backfills, walk>>

-----------------------------------------------------------------------------
(* The reader                                                              *)

\* limit: at most MaxLimit, DefaultLimit when it is not positive.
Normalized(limit) == IF limit > MaxLimit THEN MaxLimit ELSE IF limit <= 0 THEN DefaultLimit ELSE limit

GetHistoryByCursor(room, cursor, limit) ==
    IF store = "mysql" THEN mysqlGetHistoryByCursor(table, room, cursor, limit)
                       ELSE mongoGetHistoryByCursor(table, room, cursor, limit)

Ids(rows) == [i \in DOMAIN rows |-> rows[i].id]
RowOf(id) == CHOOSE r \in table : r.id = id

\* LRANGE 0 limit-1, reversed: oldest first.
GetLatestMessages(room, limit) == Reverse(Limit(latest[room], limit))

\* A walk that starts now: the page it gets, from where, and whether the list it
\* comes from followed the store.
Started(room, limit, page, source) ==
    [on |-> TRUE, room |-> room, limit |-> limit, got |-> page, source |-> source,
     more |-> Len(page) = limit,
     cursor |-> IF page = <<>> THEN 0 ELSE page[1].id,
     want |-> IF source = "store" THEN LiveIds(room) ELSE LiveIds(room) \ Pending(room),
     clean |-> source = "store" \/ room \notin mixed]

\* First page, served from Redis: only when the list fills the page.
FirstPageCached(room, asked) ==
    LET limit == Normalized(asked)
        cached == GetLatestMessages(room, limit)
    IN  /\ store # "mongo"
        /\ budget.walks > 0
        /\ Len(cached) = limit
        /\ walk' = Started(room, limit, [i \in DOMAIN cached |-> RowOf(cached[i])], "redis")
        /\ budget' = [budget EXCEPT !.walks = @ - 1]
        /\ UNCHANGED <<vars, store, unsent, stamped, partition, tasks, table, latest,
                       backfills, mixed>>

\* First page from the store; a page that is not empty goes to Redis in a goroutine.
\* fails: Redis could not be read, so that a full list is not seen.
FirstPageStored(room, asked, fails) ==
    LET limit == Normalized(asked)
        page == GetHistoryByCursor(room, 0, limit)
    IN  /\ budget.walks > 0
        /\ store = "mongo" \/ fails \/ Len(GetLatestMessages(room, limit)) # limit
        /\ fails => store # "mongo" /\ budget.events > 0
        /\ walk' = Started(room, limit, page, "store")
        /\ backfills' = IF page = <<>> THEN backfills
                        ELSE Append(backfills, [room |-> room, ids |-> Ids(page)])
        /\ budget' = [budget EXCEPT !.walks = @ - 1, !.events = @ - IF fails THEN 1 ELSE 0]
        /\ UNCHANGED <<vars, store, unsent, stamped, partition, tasks, table, latest, mixed>>

\* The reader asks for the page behind next_cursor.
NextPage ==
    LET page == GetHistoryByCursor(walk.room, walk.cursor, walk.limit)
    IN  /\ walk.on /\ walk.more
        /\ walk' = [walk EXCEPT
                !.got = page \o @,
                !.more = Len(page) = walk.limit,
                !.cursor = IF page = <<>> THEN 0 ELSE page[1].id,
                !.clean = @ /\ (store = "mysql" => walk.cursor \in LiveIds(walk.room))]
        /\ UNCHANGED <<vars, store, unsent, stamped, partition, tasks, table, latest,
                       backfills, budget, mixed>>

\* The goroutine of a first page; the request's context may be cancelled before.
BackfillRoomCache(i, fails) ==
    LET b == backfills[i]
    IN  /\ i \in DOMAIN backfills
        /\ backfills' = RemoveAt(backfills, i)
        /\ latest' = IF fails THEN latest ELSE [latest EXCEPT ![b.room] = Pushed(@, b.ids)]
        /\ mixed' = IF ~fails /\ (\/ latest[b.room] # <<>> \/ Pending(b.room) # {}
                                \/ ~(ToSet(b.ids) \subseteq LiveIds(b.room)))
                    THEN mixed \cup {b.room} ELSE mixed
        /\ UNCHANGED <<vars, store, unsent, stamped, partition, tasks, table, walk, budget>>

\* roomLatestTTL without a push: far longer than a request takes.
Expire(room) ==
    /\ latest[room] # <<>>
    /\ budget.events > 0
    /\ budget' = [budget EXCEPT !.events = @ - 1]
    /\ \A i \in DOMAIN backfills : backfills[i].room # room
    /\ latest' = [latest EXCEPT ![room] = <<>>]
    /\ mixed' = mixed \ {room}
    /\ UNCHANGED <<vars, store, unsent, stamped, partition, tasks, table, backfills, walk>>

Passes == Tick /\ UNCHANGED hvars

HistoryNext ==
    \/ \E m \in Messages : Stamp(m)
    \/ \E s \in stamped : WriteMessages(s)
    \/ Assign
    \/ \E t \in tasks : SaveMessage(t)
    \/ \E t \in tasks, fails \in BOOLEAN : pushLatestToRedis(t, fails)
    \/ \E room \in Rooms, user \in Users : SoftDelete(room, user)
    \/ \E room \in Rooms, asked \in 0..(MaxLimit + 1) : FirstPageCached(room, asked)
    \/ \E room \in Rooms, asked \in 0..(MaxLimit + 1), fails \in BOOLEAN :
            FirstPageStored(room, asked, fails)
    \/ NextPage
    \/ \E i \in DOMAIN backfills, fails \in BOOLEAN : BackfillRoomCache(i, fails)
    \/ \E room \in Rooms : Expire(room)
    \/ Passes

HistorySpec == HistoryInit /\ [][HistoryNext]_<<vars, hvars>>

-----------------------------------------------------------------------------
(* Properties                                                              *)

\* Paging with next_cursor until has_more is false shows every message that was
\* stored (and, for a first page from Redis, cached) when the walk began and has
\* not been deleted since, once and in order: although messages are stored in
\* between, also older ones than the cursor, although several have the same
\* created_at, and although IDs and created_at disagree.  The exceptions are a
\* cursor whose MySQL row was deleted, and a first page from a mixed list.
WalkComplete ==
    (walk.on /\ walk.clean) =>
        /\ \A i \in 1..(Len(walk.got) - 1) : Before(walk.got[i], walk.got[i + 1])
        /\ ~walk.more => (walk.want \cap LiveIds(walk.room)) \subseteq ToSet(Ids(walk.got))

\* Unless a push failed or was overtaken, a backfill met a list in use, or a message
\* was deleted, the list of a room is the newest messages of the store in their
\* order, once the tasks that still have to push are done.
LatestFollowsStore ==
    \A room \in Rooms \ mixed :
        Pending(room) = {} =>
            latest[room] = Limit(Ids(Descending(InRoom(mysqlLive(table), room))), Len(latest[room]))

\* Nobody reads and no message is on its way: every table that the tasks can leave
\* is the table of such a state.
AtRest == clock = MaxClock /\ ~walk.on /\ stamped = {} /\ partition = <<>> /\ tasks = {}

\* The tables with these messages, in whichever rooms they were sent.
Tables == {{[r EXCEPT !.room = f[r]] : r \in table} : f \in [table -> Rooms]}

\* The two implementations of a query or a statistic agree on the table t.
HistoryAgrees(t, room, id, limit) ==
    mysqlGetHistoryByCursor(t, room, id, limit) = mongoGetHistoryByCursor(t, room, id, limit)

RangesAgree(t, room, id, limit) ==
    /\ mysqlGetMessagesAfterID(t, room, id, limit) = mongoGetMessagesAfterID(t, room, id, limit)
    /\ mysqlCountMessagesAfterID(t, room, id) = mongoCountMessagesAfterID(t, room, id)

\* The agent fetches the same messages from either store, none outside [start, end).
FetchAgrees(t, room, start, end, limit) ==
    LET fetched == FetchMessages("mysql", t, room, start, end, limit)
    IN  /\ fetched = FetchMessages("mongo", t, room, start, end, limit)
        /\ mysqlGetMessagesByTimeRange(t, room, start, end, limit)
            = mongoGetMessagesByTimeRange(t, room, start, end, limit)
        /\ \A i \in DOMAIN fetched : start <= fetched[i].at /\ fetched[i].at < end

\* Whatever part of the messages Elasticsearch has, a search finds what the store has.
SearchAgrees(t, room, p) ==
    LET want == mysqlSearchMessages(t, room, Requested(p))
    IN  /\ want = mongoSearchMessages(t, room, Requested(p))
        /\ \A index \in SUBSET InRoom(mysqlLive(t), room) :
              LET found == SearchMessages("mysql", t, index, TRUE, room, p)
              IN  (found.total = 0) = (want.total = 0) /\ found.total <= want.total

\* MySQL and MongoDB answer the queries of the repository alike whatever has been
\* stored and deleted, but for a history cursor whose message is deleted.
RepositoriesAgree ==
    AtRest =>
        \A room \in Rooms, limit \in 0..(MaxLimit + 1) :
            /\ \A id \in {0} \cup {r.id : r \in table} :
                  /\ (\A r \in table : r.id = id => ~r.deleted) => HistoryAgrees(table, room, id, limit)
                  /\ RangesAgree(table, room, id, limit)
            /\ \A start, end \in {0} \cup (IdEpoch + 1)..MaxClock :
                  /\ FetchAgrees(table, room, start, end, limit)
                  /\ \A k \in Keywords, user \in {0, Max(Users)} :
                        SearchAgrees(table, room, [keyword |-> k, sender |-> user, start |-> start,
                                                   end |-> end, from |-> limit - 1, size |-> limit])

\* What a lookup in the map of a grouped query gives.
Counted(counts, key) == IF key \in DOMAIN counts THEN counts[key] ELSE 0

\* MySQL and MongoDB count alike whatever has been stored and deleted, except that
\* MongoDB counts the mentions in deleted messages too.  The grouped counts of the lists
\* and of the rankings are the single counts with MongoDB; MySQL refuses them, and the
\* lists then show 0.
StatisticsAgree ==
    AtRest =>
        \A t \in Tables, start, end \in (IdEpoch + 1)..(MaxClock + 1) :
            /\ mysqlCountMessages(t, start, end) = mongoCountMessages(t, start, end)
            /\ mysqlCountMessagesByType(t, start, end) = mongoCountMessagesByType(t, start, end)
            /\ mysqlHourlyCounts(t, start, end) = mongoHourlyCounts(t, start, end)
            /\ mysqlDailyCounts(t, start, end) = mongoDailyCounts(t, start, end)
            /\ mysqlActiveSenders(t, start) = mongoActiveSenders(t, start)
            /\ \A top \in mongoTopRooms(t, start, end, 1), room \in Rooms :
                Len(top) = 1 =>
                    mongoCountByRoom(t, room, start, end) <= mongoCountByRoom(t, top[1], start, end)
            /\ mysqlCountAgentMentions(t, start, end)
                <= mongoCountAgentMentions(t, start, end)
            /\ \A rooms \in SUBSET Rooms :
                /\ mysqlCountPrivateGroupMessages(t, Restrict(RoomTypes, rooms), start, end)
                    = mongoCountPrivateGroupMessages(t, Restrict(RoomTypes, rooms), start, end)
                /\ \A room \in rooms :
                    /\ Counted(mongoCountsByRoomIDs(t, rooms, start, end), room)
                        = mongoCountByRoom(t, room, start, end)
                    /\ Counted(mongoCountsByRoomTotalIDs(t, rooms), room) = mongoCountByRoomTotal(t, room)
                    /\ Counted(mysqlCountsByRoomTotalIDs(t, rooms), room) = 0
            /\ \A room \in Rooms :
                /\ mysqlCountByRoom(t, room, start, end) = mongoCountByRoom(t, room, start, end)
                /\ mysqlCountByRoomTotal(t, room) = mongoCountByRoomTotal(t, room)
            /\ \A user \in Users :
                /\ Counted(mongoCountsBySenderIDs(t, Users), user) = mongoCountBySender(t, user)
                /\ mysqlCountBySender(t, user) = mongoCountBySender(t, user)

\* The two implementations of the message store agree: histories, ranges and searches,
\* with whatever part of the messages in Elasticsearch, and the statistics.
StoresAgree == RepositoriesAgree /\ StatisticsAgree
=============================================================================
