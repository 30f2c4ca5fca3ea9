---------------------------- MODULE MessageStore ----------------------------
(***************************************************************************)
(* The queries of the two message stores, services/messages/api            *)
(* (mysql_repository.go, mongo_repository.go), and of the search index     *)
(* (search/elasticsearch.go), as operators on a table: a set of rows with  *)
(* unique IDs.  Both repositories implement the same interface, and        *)
(* MESSAGE_STORE selects one of them.                                      *)
(*                                                                         *)
(* A row is [id, room, sender, type, text, at, deleted]: at is created_at  *)
(* in milliseconds, deleted says that deleted_at is not 0 (in a document:  *)
(* present and not 0), and text is the set of the keywords that content    *)
(* contains.  The time 0 stands for Go's zero time, "no bound".            *)
(***************************************************************************)
EXTENDS Integers, Sequences, FiniteSets, SequencesExt

CONSTANTS
    Tokens,        \* the keywords that are whole tokens for the index's analyzer
    MaxLimit,      \* the largest page (100)
    SearchDefault, \* the page of a search that asks for none or too much (20)
    FetchMax,      \* the most messages that the agent may fetch (500)
    FetchDefault   \* what it gets when it asks for none or for more (200)

ASSUME MessageStoreAssumption ==
    /\ MaxLimit \in Nat \ {0}
    /\ SearchDefault \in 1..MaxLimit
    /\ FetchDefault \in 1..FetchMax

\* created_at, then id: the order of every list of messages.
Before(a, b) == a.at < b.at \/ (a.at = b.at /\ a.id < b.id)

Ascending(rows) ==
    CHOOSE s \in SetToSeqs(rows) : \A i, j \in DOMAIN s : i < j => Before(s[i], s[j])
AscendingIDs(rows) ==
    CHOOSE s \in SetToSeqs(rows) : \A i, j \in DOMAIN s : i < j => s[i].id < s[j].id
Descending(rows) == Reverse(Ascending(rows))

\* Offset(from).Limit(n) of a sorted result.
Slice(s, from, n) == SubSeq(s, from + 1, from + n)
Limit(s, n) == SubSeq(s, 1, IF n < Len(s) THEN n ELSE Len(s))
Page(s, from, n) == Limit(Slice(s, from, Len(s) - from), n)

\* ORDER BY created_at DESC, id DESC LIMIT n, reversed: oldest first.
Newest(rows, n) == Reverse(Limit(Descending(rows), n))

(* Soft deletion: gorm adds deleted_at = 0 to every query of the model.    *)
mysqlLive(t) == {r \in t : ~r.deleted}
(* notDeletedFilter: deleted_at is absent or 0.                            *)
notDeletedFilter(t) == {r \in t : ~r.deleted}

InRoom(rows, room) == {r \in rows : r.room = room}
AfterID(rows, since) == {r \in rows : since > 0 => r.id > since}
Between(rows, start, end) ==
    {r \in rows : (start # 0 => r.at >= start) /\ (end # 0 => r.at < end)}

-----------------------------------------------------------------------------
(* GetHistoryByCursor                                                      *)

\* A faulty cursor that forgets the messages of the cursor's millisecond.
mysqlBelowTimeOnly(t, rows, cursor) ==
    LET found == {r \in mysqlLive(t) : r.id = cursor}
    IN  {r \in rows : cursor > 0 => \E c \in found : r.at < c.at}

\* The rows behind the cursor.  The cursor's own row is looked up among the
\* rows that are not deleted; without it the cursor compares IDs alone.
mysqlBelow(t, rows, cursor) ==
    LET found == {r \in mysqlLive(t) : r.id = cursor}
    IN  {r \in rows :
            cursor > 0 => IF found # {} THEN \A c \in found : Before(r, c)
                                        ELSE r.id < cursor}

mysqlGetHistoryByCursor(t, room, cursor, limit) ==
    Newest(mysqlBelow(t, InRoom(mysqlLive(t), room), cursor), limit)

\* The document of the cursor is found although it is deleted.
mongoBelow(t, rows, cursor) ==
    LET found == {r \in t : r.id = cursor}
    IN  {r \in rows :
            cursor > 0 => IF found # {} THEN \A c \in found : Before(r, c)
                                        ELSE r.id < cursor}

mongoGetHistoryByCursor(t, room, cursor, limit) ==
    Newest(mongoBelow(t, InRoom(notDeletedFilter(t), room), cursor), limit)

-----------------------------------------------------------------------------
(* Ranges                                                                  *)

mysqlGetMessagesByTimeRange(t, room, start, end, limit) ==
    Limit(Ascending({r \in InRoom(mysqlLive(t), room) : start <= r.at /\ r.at < end}), limit)

mongoGetMessagesByTimeRange(t, room, start, end, limit) ==
    Limit(Ascending({r \in InRoom(notDeletedFilter(t), room) : r.at \in start..(end - 1)}), limit)

\* FetchMessages of the IMService: GetMessagesByTimeRange of the selected store with the
\* limit put right.
FetchMessages(store, t, room, start, end, asked) ==
    LET limit == IF asked <= 0 \/ asked > FetchMax THEN FetchDefault ELSE asked
    IN  IF end < start THEN <<>>
        ELSE IF store = "mysql" THEN mysqlGetMessagesByTimeRange(t, room, start, end, limit)
        ELSE mongoGetMessagesByTimeRange(t, room, start, end, limit)

mysqlGetMessagesAfterID(t, room, since, limit) ==
    Limit(AscendingIDs(AfterID(InRoom(mysqlLive(t), room), since)), limit)

\* A faulty filter: the cursor itself is returned again.
mongoGetMessagesFromID(t, room, since, limit) ==
    Limit(AscendingIDs({r \in InRoom(notDeletedFilter(t), room) : r.id >= since}), limit)

mongoGetMessagesAfterID(t, room, since, limit) ==
    Limit(AscendingIDs(AfterID(InRoom(notDeletedFilter(t), room), since)), limit)

mysqlCountMessagesAfterID(t, room, since) ==
    Cardinality(AfterID(InRoom(mysqlLive(t), room), since))

mongoCountMessagesAfterID(t, room, since) ==
    Cardinality(AfterID(InRoom(notDeletedFilter(t), room), since))

-----------------------------------------------------------------------------
(* Search.  Parameters are [keyword, sender, start, end, from, size]; the  *)
(* keyword "" and the sender 0 select everything.                          *)

StoreLimit(n) == IF n <= 0 \/ n > MaxLimit THEN SearchDefault ELSE n
StoreOffset(n) == IF n < 0 THEN 0 ELSE n

\* LOCATE(keyword, content) > 0
mysqlSearchMessages(t, room, p) ==
    LET rows == {r \in Between(InRoom(mysqlLive(t), room), p.start, p.end) :
                    /\ p.keyword # "" => p.keyword \in r.text
                    /\ p.sender > 0 => r.sender = p.sender}
    IN  [total |-> Cardinality(rows),
         hits |-> Page(Descending(rows), StoreOffset(p.from), StoreLimit(p.size))]

\* A regular expression of the quoted keyword.
mongoSearchMessages(t, room, p) ==
    LET rows == {r \in Between(InRoom(notDeletedFilter(t), room), p.start, p.end) :
                    /\ p.keyword # "" => p.keyword \in r.text
                    /\ p.sender > 0 => r.sender = p.sender}
    IN  [total |-> Cardinality(rows),
         hits |-> Page(Descending(rows), StoreOffset(p.from), StoreLimit(p.size))]

\* The index matches tokens, and a size that is too large is cut to the maximum.
IndexLimit(n) == IF n <= 0 THEN SearchDefault ELSE IF n > MaxLimit THEN MaxLimit ELSE n

esSearchMessages(index, room, p) ==
    LET rows == {r \in Between(InRoom(index, room), p.start, p.end) :
                    /\ ~r.deleted
                    /\ p.keyword # "" => p.keyword \in r.text \cap Tokens
                    /\ p.sender > 0 => r.sender = p.sender}
    IN  [total |-> Cardinality(rows),
         hits |-> Page(Descending(rows), p.from, IndexLimit(p.size))]

\* The handler's own limits of a request.
Requested(p) ==
    [p EXCEPT !.from = StoreOffset(@), !.size = IF @ > MaxLimit THEN MaxLimit ELSE IF @ <= 0 THEN SearchDefault ELSE @]

\* The search handler: the index answers when it is enabled, does not fail and has a
\* hit (answers says whether it is asked at all); otherwise the selected store does.
SearchMessages(store, t, index, answers, room, p) ==
    LET indexed == esSearchMessages(index, room, Requested(p))
    IN  IF answers /\ indexed.total > 0 THEN indexed
        ELSE IF store = "mysql" THEN mysqlSearchMessages(t, room, Requested(p))
        ELSE mongoSearchMessages(t, room, Requested(p))

-----------------------------------------------------------------------------
(* Writes                                                                  *)

mysqlSoftDeleteUserMessagesInRoom(t, room, user) ==
    {IF r.room = room /\ r.sender = user THEN [r EXCEPT !.deleted = TRUE] ELSE r : r \in t}

mongoSoftDeleteUserMessagesInRoom(t, room, user) ==
    {IF r \in InRoom(notDeletedFilter(t), room) /\ r.sender = user
     THEN [r EXCEPT !.deleted = TRUE] ELSE r : r \in t}
=============================================================================
