----------------------------- MODULE Archiver ------------------------------
(***************************************************************************)
(* The Kafka archiver (services/messages/archiver/worker-kafka.go): it     *)
(* reads one partition, collects a batch, and hands each batch to a task   *)
(* of the process-wide pool that stores, indexes and caches it and then    *)
(* saves the offset in Redis.  Tasks of successive batches run             *)
(* concurrently.  A restarted process resumes behind the saved offset, if  *)
(* it can be read.                                                         *)
(*                                                                         *)
(* The message store is MySQL (services/messages/api/mysql_repository.go,  *)
(* unique index on client_msg_id, one transaction per batch) or MongoDB    *)
(* (mongo_repository.go, an unordered bulk of upserts).                    *)
(***************************************************************************)
EXTENDS Naturals, Sequences, FiniteSets, SequencesExt

CONSTANTS
    ClientMsgIDs, \* the ClientMsgIDs that clients use; a resend repeats one
    Garbage,      \* a Kafka value that protocol.Unmarshal rejects
    StoreKinds,   \* the message stores main may choose: "mysql", "mongo"
    BatchSize,    \* batchSize (1000)
    CacheMax,     \* roomLatestMax (100)
    MayFail,      \* whether the store, the index and Redis may return errors
    MaxLog,       \* bound: messages in the Kafka partition
    MaxCrashes    \* bound: crashes of the process

ASSUME ArchiverAssumption ==
    /\ Garbage \notin ClientMsgIDs
    /\ StoreKinds \subseteq {"mysql", "mongo"}
    /\ BatchSize \in Nat \ {0}
    /\ CacheMax \in Nat \ {0}
    /\ MayFail \in BOOLEAN
    /\ MaxLog \in Nat
    /\ MaxCrashes \in Nat

VARIABLES
    storeKind,  \* the store that main chose; it does not change
    log,        \* the Kafka partition; offsets start at 1
    pos,        \* the offset that ReadMessage returns next
    msgBatch,   \* the batch being collected
    lastOffset, \* the offset of its last message
    tasks,      \* flush tasks: [pc, batch, offset]
    lastID,     \* nextID: IDs are handed out in increasing order
    store,      \* the message store: a set of messages
    index,      \* Elasticsearch: ClientMsgID -> ID, a set of messages
    latest,     \* Redis im:room:latest (one room): newest first
    offset,     \* Redis: the saved offset, 0 when there is none
    up,         \* the process runs
    crashes

vars == <<storeKind, log, pos, msgBatch, lastOffset, tasks, lastID, store, index, latest,
          offset, up, crashes>>
memory == <<pos, msgBatch, lastOffset, tasks, up>>
stored == <<store, index, latest, offset>>

\* A models.Message: what tells messages apart, and the Kafka offset it came from.
Message(cid, id, o) == [cid |-> cid, id |-> id, offset |-> o]
MessageSet == [cid : ClientMsgIDs, id : Nat, offset : 1..MaxLog]

Task(pc, batch, o) == [pc |-> pc, batch |-> batch, offset |-> o]

ids(S) == {m.cid : m \in S}

TypeOK ==
    /\ storeKind \in StoreKinds
    /\ log \in Seq(ClientMsgIDs \cup {Garbage})
    /\ pos \in 1..(MaxLog + 1)
    /\ msgBatch \in Seq(MessageSet) /\ Len(msgBatch) < BatchSize
    /\ lastOffset \in 0..MaxLog
    /\ tasks \in SUBSET [pc : {"save", "index", "push", "offset"},
                         batch : Seq(MessageSet), offset : 1..MaxLog]
    /\ lastID \in Nat
    /\ store \in SUBSET MessageSet
    /\ index \in SUBSET MessageSet
    /\ latest \in Seq(MessageSet) /\ Len(latest) <= CacheMax
    /\ offset \in 0..MaxLog
    /\ up \in BOOLEAN
    /\ crashes \in 0..MaxCrashes

Init ==
    /\ storeKind \in StoreKinds
    /\ log = <<>>
    /\ pos = 1
    /\ msgBatch = <<>>
    /\ lastOffset = 0
    /\ tasks = {}
    /\ lastID = 0
    /\ store = {}
    /\ index = {}
    /\ latest = <<>>
    /\ offset = 0
    /\ up = TRUE
    /\ crashes = 0

----------------------------------------------------------------------------
\* The producer appends a message to the partition.
Produce(v) ==
    /\ Len(log) < MaxLog
    /\ log' = Append(log, v)
    /\ UNCHANGED <<storeKind, memory, lastID, stored, crashes>>

\* NewWorker: resume behind the saved offset, or at the first one when Redis does
\* not answer with an offset.
NewWorker ==
    /\ ~up
    /\ up' = TRUE
    /\ pos' \in {offset + 1, 1}
    /\ UNCHANGED <<storeKind, log, msgBatch, lastOffset, tasks, lastID, stored, crashes>>

\* A faulty flush that starts the task at its second step.
FlushUnsaved(batch, o) ==
    /\ tasks' = tasks \cup {Task("index", batch, o)}
    /\ msgBatch' = <<>>

\* flush copies the batch and the offset it reaches, and starts a task for it.
Flush(batch, o) ==
    /\ tasks' = tasks \cup {Task("save", batch, o)}
    /\ msgBatch' = <<>>

\* One round of Start's loop: read a message, skip it when it cannot be parsed,
\* add it to the batch, flush a full batch.
Read ==
    LET b == Append(msgBatch, Message(log[pos], lastID + 1, pos))
    IN  /\ up
        /\ pos <= Len(log)
        /\ pos' = pos + 1
        /\ \/ /\ log[pos] = Garbage
              /\ UNCHANGED <<msgBatch, lastOffset, lastID, tasks>>
           \/ /\ log[pos] # Garbage
              /\ lastID' = lastID + 1
              /\ lastOffset' = pos
              /\ IF Len(b) >= BatchSize THEN Flush(b, pos)
                 ELSE msgBatch' = b /\ UNCHANGED tasks
        /\ UNCHANGED <<storeKind, log, stored, up, crashes>>

\* The ticker, or the end of the context, flushes what there is.
Tick ==
    /\ up
    /\ msgBatch # <<>>
    /\ Flush(msgBatch, lastOffset)
    /\ UNCHANGED <<storeKind, log, pos, lastOffset, lastID, stored, up, crashes>>

----------------------------------------------------------------------------
(***************************************************************************)
(* A flush task.                                                           *)
(***************************************************************************)
Advance(t, pc) == tasks' = (tasks \ {t}) \cup {Task(pc, t.batch, t.offset)}

Ends(t) == tasks' = tasks \ {t}

\* The transaction fails when a ClientMsgID is already stored or occurs twice.
mysqlRejects(batch) ==
    \/ ids(ToSet(batch)) \cap ids(store) # {}
    \/ Cardinality(ids(ToSet(batch))) < Len(batch)

\* Plain inserts instead of upserts, into a collection without the unique index.
mongoInsertsAll(S) == {S}

\* What an unordered bulk of upserts with $setOnInsert may insert for the messages
\* S: one message for each ClientMsgID that is not stored yet.
mongoInserts(S) ==
    {W \in SUBSET S : /\ ids(W) = ids(S) \ ids(store)
                      /\ Cardinality(W) = Cardinality(ids(W))}

\* SaveMessageBatch succeeds, and the task goes on.
SaveMessageBatch(t) ==
    /\ t.pc = "save"
    /\ \/ /\ storeKind = "mysql"
          /\ ~mysqlRejects(t.batch)
          /\ store' = store \cup ToSet(t.batch)
       \/ /\ storeKind = "mongo"
          /\ \E W \in mongoInserts(ToSet(t.batch)) : store' = store \cup W
    /\ Advance(t, "index")
    /\ UNCHANGED <<storeKind, log, pos, msgBatch, lastOffset, lastID, index, latest, offset,
                   up, crashes>>

\* SaveMessageBatch returns an error: the batch is logged and given up.  The MySQL
\* transaction is rolled back; MongoDB may have executed a part of the bulk.
SaveFails(t) ==
    /\ t.pc = "save"
    /\ \/ /\ storeKind = "mysql"
          /\ MayFail \/ mysqlRejects(t.batch)
          /\ UNCHANGED store
       \/ /\ storeKind = "mongo"
          /\ MayFail
          /\ \E S \in SUBSET ToSet(t.batch) : \E W \in mongoInserts(S) :
                store' = store \cup W
    /\ Ends(t)
    /\ UNCHANGED <<storeKind, log, pos, msgBatch, lastOffset, lastID, index, latest, offset,
                   up, crashes>>

\* IndexMessages: documents are overwritten by ClientMsgID; an error is logged.
IndexMessages(t) ==
    /\ t.pc = "index"
    /\ \/ index' = {m \in index : m.cid \notin ids(ToSet(t.batch))} \cup
                   {m \in ToSet(t.batch) :
                       \A n \in ToSet(t.batch) : n.cid = m.cid => n.id <= m.id}
       \/ MayFail /\ UNCHANGED index
    /\ Advance(t, "push")
    /\ UNCHANGED <<storeKind, log, pos, msgBatch, lastOffset, lastID, store, latest, offset,
                   up, crashes>>

\* pushLatestToRedis: LPUSH and LTRIM for each message; an error is logged.
pushLatestToRedis(t) ==
    LET pushed == Reverse(t.batch) \o latest
    IN  /\ t.pc = "push"
        /\ \/ latest' = SubSeq(pushed, 1, IF Len(pushed) < CacheMax
                                          THEN Len(pushed) ELSE CacheMax)
           \/ MayFail /\ UNCHANGED latest
        /\ Advance(t, "offset")
        /\ UNCHANGED <<storeKind, log, pos, msgBatch, lastOffset, lastID, store, index, offset,
                       up, crashes>>

\* A faulty task that reads lastOffset when it ends, not when it was started.
saveLastOffset(t) ==
    /\ t.pc = "offset"
    /\ offset' = lastOffset
    /\ Ends(t)
    /\ UNCHANGED <<storeKind, log, pos, msgBatch, lastOffset, lastID, store, index, latest,
                   up, crashes>>

saveOffset(t) ==
    /\ t.pc = "offset"
    /\ \/ offset' = t.offset
       \/ MayFail /\ UNCHANGED offset
    /\ Ends(t)
    /\ UNCHANGED <<storeKind, log, pos, msgBatch, lastOffset, lastID, store, index, latest,
                   up, crashes>>

----------------------------------------------------------------------------
\* The process stops: by a crash, or because main returns without waiting for
\* the tasks.  nextID continues from the clock.
Crash ==
    /\ up
    /\ crashes < MaxCrashes
    /\ crashes' = crashes + 1
    /\ up' = FALSE
    /\ pos' = 1
    /\ msgBatch' = <<>>
    /\ lastOffset' = 0
    /\ tasks' = {}
    /\ UNCHANGED <<storeKind, log, lastID, stored>>

TaskStep(t) ==
    \/ SaveMessageBatch(t) \/ SaveFails(t) \/ IndexMessages(t)
    \/ pushLatestToRedis(t) \/ saveOffset(t)

Next ==
    \/ \E v \in ClientMsgIDs \cup {Garbage} : Produce(v)
    \/ NewWorker
    \/ Read
    \/ Tick
    \/ \E t \in tasks : TaskStep(t)
    \/ Crash

Spec == Init /\ [][Next]_vars

(***************************************************************************)
(* The loop runs, its ticker ticks, tasks run and a stopped process is     *)
(* restarted.  Nothing is assumed about producers.                         *)
(***************************************************************************)
Fairness ==
    /\ WF_vars(Read) /\ WF_vars(Tick) /\ WF_vars(NewWorker)
    /\ WF_vars(\E t \in tasks : TaskStep(t))

FairSpec == Spec /\ Fairness

----------------------------------------------------------------------------
(***************************************************************************)
(* Properties.                                                             *)
(***************************************************************************)
\* What search and the recent-message cache show has been stored: a crash or an
\* error between the steps of a task never leaves them ahead of the store.
ShownIsStored ==
    ids(index) \cup ids(ToSet(latest)) \subseteq ids(store)

\* A ClientMsgID is stored at most once, however often its message is sent,
\* read again after a restart, or flushed by concurrent tasks.
StoredOnce ==
    \A m, n \in store : m.cid = n.cid => m = n

\* A task never saves an offset that covers a message the loop is still
\* collecting, so that a restart reads that message again.
OffsetBehindBatch ==
    [][offset' # offset =>
          \A i \in 1..Len(msgBatch) : offset' < msgBatch[i].offset]_vars

\* ClientMsgIDs make resending safe: every message of the partition is
\* eventually in the store, also when some of them are resends.
EveryMessageStored ==
    \A v \in ClientMsgIDs : v \in ToSet(log) ~> v \in ids(store)
=============================================================================
