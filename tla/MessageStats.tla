---------------------------- MODULE MessageStats ----------------------------
(***************************************************************************)
(* The message statistics of the admin service, message_stats.go: the same *)
(* interface over MySQL and over MongoDB.  Counts are operators on the     *)
(* table of MessageStore; GROUP BY is a function from keys to counts.      *)
(* roomType is the table of the rooms that are not deleted: it maps a room *)
(* to its type.                                                            *)
(***************************************************************************)
EXTENDS MessageStore, Functions

CONSTANTS
    Mentions,        \* the keywords that address an agent (@agent, @AI...)
    HourLen, DayLen  \* milliseconds of an hour and of a day

ASSUME MessageStatsAssumption ==
    /\ HourLen \in Nat \ {0}
    /\ DayLen \in Nat \ {0}

\* created_at >= start AND created_at < end
Within(rows, start, end) == {r \in rows : start <= r.at /\ r.at < end}

GroupBy(rows, key(_)) ==
    [k \in {key(r) : r \in rows} |-> Cardinality({r \in rows : key(r) = k})]

\* GROUP BY a column, and by the hour or the day of created_at.
GroupByField(rows, field) == GroupBy(rows, LAMBDA r : r[field])
GroupByTime(rows, unit) == GroupBy(rows, LAMBDA r : r.at \div unit)

\* ORDER BY count DESC LIMIT n: equal counts come in any order.
Tops(count, n) ==
    LET m == IF n < Cardinality(DOMAIN count) THEN n ELSE Cardinality(DOMAIN count)
    IN  {s \in [1..m -> DOMAIN count] :
            /\ IsInjective(s)
            /\ \A i \in 1..(m - 1) : count[s[i]] >= count[s[i + 1]]
            /\ \A k \in DOMAIN count \ Range(s) : m > 0 => count[s[m]] >= count[k]}

-----------------------------------------------------------------------------
(* MySQL                                                                   *)

mysqlNotDeleted(t) == {r \in t : ~r.deleted}

mysqlCountMessages(t, start, end) == Cardinality(Within(mysqlNotDeleted(t), start, end))

mysqlCountMessagesByType(t, start, end) == GroupByField(Within(mysqlNotDeleted(t), start, end), "type")

\* An inner join with the rooms; every type but 1 counts as a group.
mysqlCountPrivateGroupMessages(t, roomType, start, end) ==
    LET rows == {r \in Within(mysqlNotDeleted(t), start, end) : r.room \in DOMAIN roomType}
    IN  [private |-> Cardinality({r \in rows : roomType[r.room] = 1}),
         group |-> Cardinality({r \in rows : roomType[r.room] # 1})]

mysqlCountAgentMentions(t, start, end) ==
    Cardinality({r \in Within(mysqlNotDeleted(t), start, end) : r.text \cap Mentions # {}})

mysqlActiveSenders(t, since) ==
    Cardinality({r.sender : r \in {x \in mysqlNotDeleted(t) : x.at >= since}})

mysqlHourlyCounts(t, start, end) == GroupByTime(Within(mysqlNotDeleted(t), start, end), HourLen)
mysqlDailyCounts(t, start, end) == GroupByTime(Within(mysqlNotDeleted(t), start, end), DayLen)

\* The alias "key" of these queries is a reserved word: MySQL refuses them, and the
\* callers, who ignore the error, go on with the nil map.
NilMap == <<>>
mysqlTopRooms(t, start, end, n) == NilMap
mysqlTopSenders(t, start, end, n) == NilMap
mysqlCountsBySenderIDs(t, senders) == NilMap
mysqlCountsByRoomIDs(t, rooms, start, end) == NilMap
mysqlCountsByRoomTotalIDs(t, rooms) == NilMap

mysqlCountBySender(t, sender) == Cardinality({r \in mysqlNotDeleted(t) : r.sender = sender})
mysqlCountByRoom(t, room, start, end) ==
    Cardinality(InRoom(Within(mysqlNotDeleted(t), start, end), room))
mysqlCountByRoomTotal(t, room) == Cardinality(InRoom(mysqlNotDeleted(t), room))

-----------------------------------------------------------------------------
(* MongoDB                                                                 *)

baseFilter(t, start, end) == {r \in notDeletedFilter(t) : r.at \in start..(end - 1)}

mongoCountMessages(t, start, end) == Cardinality(baseFilter(t, start, end))

mongoCountMessagesByType(t, start, end) == GroupByField(baseFilter(t, start, end), "type")

roomIDsByType(roomType, type) == {room \in DOMAIN roomType : roomType[room] = type}

countByRoomIDs(t, rooms, start, end) ==
    Cardinality({r \in baseFilter(t, start, end) : r.room \in rooms})

\* Two queries: the rooms of the type, then their messages.
mongoCountPrivateGroupMessages(t, roomType, start, end) ==
    [private |-> countByRoomIDs(t, roomIDsByType(roomType, 1), start, end),
     group |-> countByRoomIDs(t, roomIDsByType(roomType, 2), start, end)]

\* The alternatives of the mention replace the $or of notDeletedFilter, so that
\* deleted messages count.
mongoCountAgentMentions(t, start, end) ==
    Cardinality({r \in t : r.at \in start..(end - 1) /\ r.text \cap Mentions # {}})

mongoActiveSenders(t, since) ==
    Cardinality({r.sender : r \in {x \in notDeletedFilter(t) : x.at >= since}})

mongoCountBySender(t, sender) == Cardinality({r \in notDeletedFilter(t) : r.sender = sender})
mongoCountByRoom(t, room, start, end) == Cardinality(InRoom(baseFilter(t, start, end), room))
mongoCountByRoomTotal(t, room) == Cardinality(InRoom(notDeletedFilter(t), room))

\* $match on the keys, $group by the field; a key without messages is not in the map.
groupCountByKeys(rows, keys, field) == GroupByField({r \in rows : r[field] \in keys}, field)

mongoCountsBySenderIDs(t, senders) == groupCountByKeys(notDeletedFilter(t), senders, "sender")

mongoCountsByRoomIDs(t, rooms, start, end) == groupCountByKeys(baseFilter(t, start, end), rooms, "room")
mongoCountsByRoomTotalIDs(t, rooms) == groupCountByKeys(notDeletedFilter(t), rooms, "room")

timeCounts(t, start, end, unit) == GroupByTime(baseFilter(t, start, end), unit)
mongoHourlyCounts(t, start, end) == timeCounts(t, start, end, HourLen)
mongoDailyCounts(t, start, end) == timeCounts(t, start, end, DayLen)

topKey(t, start, end, field, n) == Tops(GroupByField(baseFilter(t, start, end), field), n)
mongoTopRooms(t, start, end, n) == topKey(t, start, end, "room", n)
mongoTopSenders(t, start, end, n) == topKey(t, start, end, "sender", n)
=============================================================================
