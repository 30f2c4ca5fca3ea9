---------------------------- MODULE AgentPipeline ----------------------------
(***************************************************************************)
(* The agent workers of services/agent/runtime.  A worker is one process   *)
(* with two coroutines: InboxConsumer copies the records of the topic into *)
(* the table agent_message_inbox, and AgentPipeline claims batches of its  *)
(* rows, has them moderated, answers the approved ones and files them as   *)
(* chunks in Qdrant and in the table agent_chunks.  Every database         *)
(* transaction and every call of another service is one step; what the     *)
(* language model says is any answer.                                      *)
(*                                                                         *)
(* A record has a room, a sender, a message_id (its client_msg_id) and     *)
(* whether its content has a trigger word.  A row is known by the offset   *)
(* of its record, which is unique (event_id).  row.old says that the time  *)
(* that matters for its status has passed: the batch window of a pending   *)
(* row, the five minutes of a processing one, the 30 seconds of an         *)
(* approved one.                                                           *)
(***************************************************************************)
EXTENDS Naturals, Sequences, FiniteSets, FiniteSetsExt

CONSTANTS
    Workers,          \* the worker processes
    Starts,           \* what the partition may get, and the configurations at the beginning
    Garbage,          \* a record that decode_message rejects
    Bindings,         \* room_agent_bindings, in the order of their priority
    RoomOf, BotOf,    \* the room and the legacy_bot_user_id (0: none) of a binding
    FirstBindings,    \* those that exist at the beginning
    Configs, NoConfig,\* the configurations of a binding, and none
    BatchSize,        \* kafka.batch_size
    Decisions,        \* what moderate_messages may say of a message: "approved", "rejected",
                      \* "removal" (rejected, with request_removal) or "needs_review", which
                      \* also stands for its failure and for a message that it leaves out
    MaxChunks,        \* bound: chunks that the chunk agent returns at once
    MaxEvents         \* bound: crashes, failing database calls and calls of the management API

ASSUME PipelineAssumption ==
    /\ Bindings \subseteq Nat /\ FirstBindings \subseteq Bindings
    /\ Decisions \subseteq {"approved", "rejected", "removal", "needs_review"}

None == "none"

Rooms == {RoomOf[b] : b \in Bindings}
Offsets == UNION {DOMAIN start.topic : start \in Starts}
BotsOf(bound) == {BotOf[b] : b \in bound} \ {0}

VARIABLES
    topic, produced,  \* the partition, and how much of it has been written
    committed,        \* the committed offset of the group, 0 for none
    owner, reader,    \* the worker that has the partition, and each consumer
    bindings, config, \* the active bindings and their configurations
    inbox, records,   \* agent_message_inbox and moderation_records
    removals,         \* removal_requests: the rows they are about
    points, chunks,   \* Qdrant's points and agent_chunks, as <<binding, message_ids>>
    worker,           \* each pipeline
    answers,          \* how often a row was answered for a binding
    skipped,          \* offsets that auto_offset_reset has passed over
    events            \* how many of them there were

kafkaVars == <<topic, produced, committed, owner, skipped>>
tableVars == <<inbox, records, removals, points, chunks, answers>>
apiVars == <<bindings, config>>
vars == <<kafkaVars, reader, apiVars, tableVars, worker, events>>

Row(status, old) == [status |-> status, old |-> old]
Rec(o) == topic[o]
RowsOf(room) == {o \in DOMAIN inbox : Rec(o).room = room}
WithStatus(room, status) == {o \in RowsOf(room) : inbox[o].status = status}
IdsOf(rows) == {Rec(o).id : o \in rows}
BoundTo(room) == {b \in bindings : RoomOf[b] = room}

\* ORDER BY message_time, id LIMIT batch_size.
FirstOf(rows) == {o \in rows : Cardinality({p \in rows : p <= o}) <= BatchSize}

\* AgentPipeline.run before an iteration, and a worker whose process is not running.
Sleeping == [pc |-> "requeue", retry |-> FALSE, rooms |-> {}, batch |-> {}, bound |-> {},
             asks |-> {}, left |-> {}, filing |-> {}, hand |-> {}]
Stopped == [Sleeping EXCEPT !.pc = "down"]
Unassigned == [pc |-> "off", at |-> 0]

Init ==
    /\ \E start \in Starts : topic = start.topic /\ config = start.config
    /\ produced = 0 /\ committed = 0 /\ skipped = {}
    /\ owner = None /\ reader = [w \in Workers |-> Unassigned]
    /\ bindings = FirstBindings
    /\ inbox = <<>> /\ records = <<>> /\ removals = {} /\ points = {} /\ chunks = {}
    /\ answers = [p \in Bindings \X (1..Len(topic)) |-> 0]
    /\ worker = [w \in Workers |-> Sleeping]
    /\ events = 0

Up(w) == worker[w].pc # "down"
At(w, pc) == worker[w].pc = pc
Becomes(w, state) == worker' = [worker EXCEPT ![w] = state]
Goes(w, pc) == Becomes(w, [worker[w] EXCEPT !.pc = pc])

-----------------------------------------------------------------------------
(* The topic, the processes and the management API                         *)

Produce ==
    /\ produced < Len(topic)
    /\ produced' = produced + 1
    /\ UNCHANGED <<topic, committed, owner, skipped, reader, apiVars, tableVars, worker, events>>

\* The process of w ends, with both coroutines: an exception in one ends asyncio.gather.
Ends(w) ==
    /\ Becomes(w, Stopped)
    /\ reader' = [reader EXCEPT ![w] = Unassigned]
    /\ owner' = IF owner = w THEN None ELSE owner

\* Also what an error of the database or of Kafka in InboxConsumer.run comes to.
Crash(w) ==
    /\ Up(w) /\ events < MaxEvents
    /\ events' = events + 1
    /\ Ends(w)
    /\ UNCHANGED <<topic, produced, committed, skipped, apiVars, tableVars>>

Restart(w) ==
    /\ ~Up(w)
    /\ Becomes(w, Sleeping)
    /\ UNCHANGED <<kafkaVars, reader, apiVars, tableVars, events>>

\* Time passes for a row.
Ages(o) ==
    /\ o \in DOMAIN inbox /\ ~inbox[o].old
    /\ inbox[o].status \in {"pending", "processing", "approved"}
    /\ inbox' = [inbox EXCEPT ![o].old = TRUE]
    /\ UNCHANGED <<kafkaVars, reader, apiVars, records, removals, points, chunks, answers,
                   worker, events>>

\* create_binding, put_config and delete_config.
create_binding(b) ==
    /\ b \notin bindings
    /\ bindings' = bindings \cup {b}
    /\ UNCHANGED config

put_config(b, c) ==
    /\ b \in bindings
    /\ config' = [config EXCEPT ![b] = c]
    /\ UNCHANGED bindings

delete_config(b) ==
    /\ config[b] # NoConfig
    /\ config' = [config EXCEPT ![b] = NoConfig]
    /\ UNCHANGED bindings

Manage ==
    /\ events < MaxEvents
    /\ events' = events + 1
    /\ \E b \in Bindings :
        \/ create_binding(b)
        \/ \E c \in Configs : put_config(b, c)
        \/ delete_config(b)
    /\ UNCHANGED <<kafkaVars, reader, tableVars, worker>>

-----------------------------------------------------------------------------
(* InboxConsumer.run                                                       *)

\* The group gives the partition to w, which reads on behind the committed offset, or
\* at the end of the topic when there is none (auto_offset_reset: latest).
Assign(w) ==
    /\ owner = None /\ Up(w)
    /\ owner' = w
    /\ reader' = [reader EXCEPT ![w] =
          [pc |-> "poll", at |-> (IF committed = 0 THEN produced ELSE committed) + 1]]
    /\ skipped' = IF committed = 0 THEN skipped \cup 1..produced ELSE skipped
    /\ UNCHANGED <<topic, produced, committed, apiVars, tableVars, worker, events>>

Reads(w, pc) == reader' = [reader EXCEPT ![w].pc = pc]

\* The next record: one that cannot be decoded ends the process; one of a room without
\* a binding or from the room's bot is only committed.
Poll(w) ==
    LET o == reader[w].at
    IN  /\ reader[w].pc = "poll" /\ o <= produced
        /\ IF Rec(o) = Garbage
           THEN Ends(w)
           ELSE /\ LET bound == BoundTo(Rec(o).room)
                   IN  Reads(w, IF bound = {} \/ Rec(o).sender \in BotsOf(bound)
                                THEN "commit" ELSE "insert")
                /\ UNCHANGED <<worker, owner>>
        /\ UNCHANGED <<topic, produced, committed, skipped, apiVars, tableVars, events>>

\* The row of the record; its IntegrityError when the row is there already is ignored.
AddToInbox(w) ==
    LET o == reader[w].at
    IN  /\ reader[w].pc = "insert"
        /\ inbox' = IF o \in DOMAIN inbox THEN inbox
                    ELSE [p \in DOMAIN inbox \cup {o} |->
                            IF p = o THEN Row("pending", FALSE) ELSE inbox[p]]
        /\ Reads(w, "commit")
        /\ UNCHANGED <<kafkaVars, apiVars, records, removals, points, chunks, answers, worker, events>>

\* A faulty consumer that commits the offset before it has stored the row.
CommitFirst(w) ==
    /\ reader[w].pc = "commit" \/ (reader[w].pc = "insert" /\ committed < reader[w].at)
    /\ committed' = reader[w].at
    /\ reader' = [reader EXCEPT ![w] =
          IF @.pc = "insert" THEN @ ELSE [pc |-> "poll", at |-> @.at + 1]]
    /\ UNCHANGED <<topic, produced, owner, skipped, apiVars, tableVars, worker, events>>

Commit(w) ==
    /\ reader[w].pc = "commit"
    /\ committed' = reader[w].at
    /\ reader' = [reader EXCEPT ![w] = [pc |-> "poll", at |-> @.at + 1]]
    /\ UNCHANGED <<topic, produced, owner, skipped, apiVars, tableVars, worker, events>>

ConsumerStep(w) == Restart(w) \/ Assign(w) \/ Poll(w) \/ AddToInbox(w) \/ Commit(w)

-----------------------------------------------------------------------------
(* AgentPipeline.run                                                       *)

\* The loops over rooms: the next room, or the end of the iteration after the last one
\* of _retry_approved_chunks.
Visiting(rooms, retry) ==
    IF retry /\ rooms = {} THEN Sleeping
    ELSE [Sleeping EXCEPT !.pc = IF retry THEN "retry" ELSE "claim", !.retry = retry, !.rooms = rooms]
NextRoom(w) == Visiting(worker[w].rooms \ {Min(worker[w].rooms)}, worker[w].retry)

_requeue_stale(w) ==
    /\ At(w, "requeue")
    /\ inbox' = [o \in DOMAIN inbox |->
          IF inbox[o] = Row("processing", TRUE) THEN Row("pending", TRUE) ELSE inbox[o]]
    /\ Goes(w, "ready")
    /\ UNCHANGED <<kafkaVars, reader, apiVars, records, removals, points, chunks, answers, events>>

_room_has_trigger(room) ==
    /\ \E b \in BoundTo(room) : config[b] # NoConfig /\ config[b].words
    /\ \E o \in WithStatus(room, "pending") : Rec(o).trigger

_ready_rooms(w) ==
    /\ At(w, "ready")
    /\ LET ready(room) ==
              LET pending == WithStatus(room, "pending")
              IN  /\ pending # {}
                  /\ \/ Cardinality(pending) >= BatchSize
                     \/ \E o \in pending : inbox[o].old
                     \/ _room_has_trigger(room)
       IN  Becomes(w, Visiting({room \in Rooms : ready(room)}, FALSE))
    /\ UNCHANGED <<kafkaVars, reader, apiVars, tableVars, events>>

\* The transaction with which _process_room claims a batch (FOR UPDATE SKIP LOCKED):
\* messages of the room's bots are ignored, the others are processing.
Claim(w) ==
    LET room == Min(worker[w].rooms)
        rows == FirstOf(WithStatus(room, "pending"))
        bound == BoundTo(room)
        bots == {o \in rows : Rec(o).sender \in BotsOf(bound)}
    IN  /\ At(w, "claim") /\ worker[w].rooms # {}
        /\ inbox' = [o \in DOMAIN inbox |->
              IF o \in bots THEN Row("ignored", FALSE)
              ELSE IF o \in rows THEN Row("processing", FALSE) ELSE inbox[o]]
        /\ Becomes(w, IF rows = bots THEN NextRoom(w)
                      ELSE [worker[w] EXCEPT !.pc = "moderate", !.batch = rows \ bots, !.bound = bound])
        /\ UNCHANGED <<kafkaVars, reader, apiVars, records, removals, points, chunks, answers, events>>

StatusOf(decision) == IF decision = "removal" THEN "rejected" ELSE decision

\* _run_conversations goes on with the bindings that are left, or has no more.
Conversing(w, asks) ==
    [worker[w] EXCEPT !.pc = IF asks = {} THEN "chunk" ELSE "converse", !.asks = asks, !.left = {}]

\* The records of a batch and the new status of its rows, and what follows.
Moderated(w) ==
    LET batch == worker[w].batch
    IN  \E decision \in [IdsOf(batch) -> Decisions] :
            LET said(o) == decision[Rec(o).id]
                approved == {o \in batch : said(o) = "approved"}
            IN  /\ records' = [o \in DOMAIN records \cup batch |->
                      IF o \in batch THEN StatusOf(said(o)) ELSE records[o]]
                /\ inbox' = [o \in DOMAIN inbox |->
                      IF o \in batch THEN Row(StatusOf(said(o)), FALSE) ELSE inbox[o]]
                /\ removals' = removals \cup {o \in batch : said(o) = "removal"}
                /\ Becomes(w, IF approved = {} THEN NextRoom(w)
                              ELSE [Conversing(w, worker[w].bound) EXCEPT !.batch = approved])

\* A faulty transaction that replaces the record which a row already has.
_save_moderationAgain(w) ==
    /\ At(w, "moderate")
    /\ Moderated(w)
    /\ UNCHANGED <<kafkaVars, reader, apiVars, points, chunks, answers, events>>

\* _moderate and the transaction of _save_moderation.  When a row has a record already
\* (uk_moderation_inbox) the transaction fails, and with it the iteration.
_save_moderation(w) ==
    /\ At(w, "moderate")
    /\ IF worker[w].batch \cap DOMAIN records # {}
       THEN Becomes(w, Sleeping) /\ UNCHANGED <<inbox, records, removals>>
       ELSE Moderated(w)
    /\ UNCHANGED <<kafkaVars, reader, apiVars, points, chunks, answers, events>>

\* The configuration of the next binding, whose bot answers the messages with a trigger
\* word.
_load_config(w) ==
    LET b == Min(worker[w].asks)
        talks == config[b] # NoConfig /\ BotOf[b] # 0 /\ config[b].words
        asked == {o \in worker[w].batch : talks /\ Rec(o).trigger}
    IN  /\ At(w, "converse")
        /\ Becomes(w, IF asked = {} THEN Conversing(w, worker[w].asks \ {b})
                      ELSE [worker[w] EXCEPT !.pc = "answer", !.left = asked])
        /\ UNCHANGED <<kafkaVars, reader, apiVars, tableVars, events>>

\* answer_question and send_reply for one message.  An empty reply is not sent; an
\* exception, before or after the gateway has taken the reply, ends the conversations.
Answer(w) ==
    LET b == Min(worker[w].asks)
        o == Min(worker[w].left)
    IN  /\ At(w, "answer")
        /\ \E sent, fails \in BOOLEAN :
            /\ answers' = IF sent THEN [answers EXCEPT ![<<b, o>>] = @ + 1] ELSE answers
            /\ Becomes(w, IF fails THEN Conversing(w, {})
                          ELSE IF worker[w].left = {o} THEN Conversing(w, worker[w].asks \ {b})
                          ELSE [worker[w] EXCEPT !.left = @ \ {o}])
        /\ UNCHANGED <<kafkaVars, reader, apiVars, inbox, records, removals, points, chunks, events>>

\* _run_chunking up to the answer of the chunk agent: without a binding that has
\* retrieval switched on the rows are only marked.  Chunks with foreign or without any
\* message_ids are dropped.
ChunkAgent(w) ==
    LET rag == {b \in worker[w].bound : config[b] # NoConfig /\ config[b].rag}
    IN  /\ At(w, "chunk")
        /\ IF rag = {} THEN Goes(w, "mark")
           ELSE \E said \in SUBSET (SUBSET IdsOf(worker[w].batch) \ {{}}) :
                  /\ said # {} /\ Cardinality(said) <= MaxChunks
                  /\ Becomes(w, [worker[w] EXCEPT !.pc = "upsert", !.filing = rag \X said])
        /\ UNCHANGED <<kafkaVars, reader, apiVars, tableVars, events>>

\* The exception handler of _run_chunking: error_message is written (an old row stays
\* old when the text is the same, which Ages covers) and the rows keep their status.
ChunkingFailed(w) ==
    /\ inbox' = [o \in DOMAIN inbox |->
          IF o \in worker[w].batch THEN Row(inbox[o].status, FALSE) ELSE inbox[o]]
    /\ Becomes(w, NextRoom(w))

\* The embedding of a chunk and its point, whose id is made of the binding and the
\* message_ids.
upsert_chunk(w) ==
    /\ At(w, "upsert")
    /\ \E c \in worker[w].filing :
        /\ points' = points \cup {c}
        /\ Becomes(w, [worker[w] EXCEPT !.pc = "file", !.hand = {c}])
    /\ UNCHANGED <<kafkaVars, reader, apiVars, inbox, records, removals, chunks, answers, events>>

\* The row of the chunk; qdrant_point_id is unique.
AddChunk(w) ==
    /\ At(w, "file")
    /\ IF worker[w].hand \subseteq chunks
       THEN ChunkingFailed(w) /\ UNCHANGED chunks
       ELSE /\ chunks' = chunks \cup worker[w].hand
            /\ LET left == worker[w].filing \ worker[w].hand
               IN  Becomes(w, [worker[w] EXCEPT !.pc = IF left = {} THEN "mark" ELSE "upsert",
                                                !.filing = left])
            /\ UNCHANGED inbox
    /\ UNCHANGED <<kafkaVars, reader, apiVars, records, removals, points, answers, events>>

_mark_chunked(w) ==
    /\ At(w, "mark")
    /\ inbox' = [o \in DOMAIN inbox |->
          IF o \in worker[w].batch THEN Row("chunked", FALSE) ELSE inbox[o]]
    /\ Becomes(w, NextRoom(w))
    /\ UNCHANGED <<kafkaVars, reader, apiVars, records, removals, points, chunks, answers, events>>

\* _retry_approved_chunks: the rooms in which approved rows have waited, then for each
\* room all of its approved rows.
StaleRooms(w) ==
    /\ At(w, "claim") /\ worker[w].rooms = {}
    /\ Becomes(w, Visiting({room \in Rooms : \E o \in WithStatus(room, "approved") : inbox[o].old}, TRUE))
    /\ UNCHANGED <<kafkaVars, reader, apiVars, tableVars, events>>

\* A faulty retry that also takes the rows which still wait for a review.
_retry_any_chunks(w) ==
    LET room == Min(worker[w].rooms)
        rows == FirstOf(WithStatus(room, "approved") \cup WithStatus(room, "needs_review"))
    IN  /\ At(w, "retry")
        /\ Becomes(w, IF rows = {} THEN NextRoom(w)
                      ELSE [worker[w] EXCEPT !.pc = "chunk", !.batch = rows, !.bound = BoundTo(room)])
        /\ UNCHANGED <<kafkaVars, reader, apiVars, tableVars, events>>

_retry_approved_chunks(w) ==
    LET room == Min(worker[w].rooms)
        rows == FirstOf(WithStatus(room, "approved"))
    IN  /\ At(w, "retry")
        /\ Becomes(w, IF rows = {} THEN NextRoom(w)
                      ELSE [worker[w] EXCEPT !.pc = "chunk", !.batch = rows, !.bound = BoundTo(room)])
        /\ UNCHANGED <<kafkaVars, reader, apiVars, tableVars, events>>

\* The chunk agent, the embedding or Qdrant fails, before or after Qdrant has taken the
\* point, or has no valid chunk to offer.
ChunkingFails(w) ==
    /\ \/ At(w, "chunk") /\ \E b \in worker[w].bound : config[b] # NoConfig /\ config[b].rag
       \/ worker[w].pc \in {"upsert", "file"}
    /\ ChunkingFailed(w)
    /\ UNCHANGED <<kafkaVars, reader, apiVars, records, removals, points, chunks, answers, events>>

\* A failing database call ends the iteration, or only the conversations or the
\* chunking when it happens in one of these, of which the final update is part when
\* something was filed.
DatabaseFails(w) ==
    /\ Up(w) /\ events < MaxEvents
    /\ events' = events + 1
    /\ \/ /\ \/ worker[w].pc \in {"requeue", "ready", "claim", "moderate", "chunk", "retry"}
             \/ At(w, "mark") /\ worker[w].hand = {}
          /\ Becomes(w, Sleeping) /\ UNCHANGED inbox
       \/ /\ At(w, "converse")
          /\ Becomes(w, Conversing(w, {})) /\ UNCHANGED inbox
       \/ /\ At(w, "file") \/ (At(w, "mark") /\ worker[w].hand # {})
          /\ ChunkingFailed(w)
    /\ UNCHANGED <<kafkaVars, reader, apiVars, records, removals, points, chunks, answers>>

PipelineStep(w) ==
    \/ _requeue_stale(w) \/ _ready_rooms(w) \/ Claim(w) \/ _save_moderation(w)
    \/ _load_config(w) \/ Answer(w) \/ ChunkAgent(w) \/ upsert_chunk(w) \/ AddChunk(w)
    \/ _mark_chunked(w) \/ StaleRooms(w) \/ _retry_approved_chunks(w) \/ ChunkingFails(w)

Next ==
    \/ Produce \/ Manage
    \/ \E o \in DOMAIN inbox : Ages(o)
    \/ \E w \in Workers :
        \/ Crash(w) \/ ConsumerStep(w) \/ PipelineStep(w) \/ DatabaseFails(w)

\* The coroutines run and their calls end, time passes, a stopped container is
\* restarted and the group gives the partition to someone.
Fairness ==
    /\ \A w \in Workers : WF_vars(ConsumerStep(w)) /\ WF_vars(PipelineStep(w))
    /\ \A o \in Offsets : WF_vars(Ages(o))

Spec == Init /\ [][Next]_vars /\ Fairness

-----------------------------------------------------------------------------
(* Properties                                                              *)

\* However slow workers are overtaken by requeued batches, and wherever a process
\* stops: a row is answered at most once for a binding, only when it was approved, and
\* only a row that was rejected has a removal request.
AnsweredOnce ==
    /\ \A b \in Bindings, o \in 1..Len(topic) :
        /\ answers[<<b, o>>] <= 1
        /\ answers[<<b, o>>] > 0 => o \in DOMAIN records /\ records[o] = "approved"
    /\ \A o \in removals : records[o] = "rejected"

\* What is rejected or waits for a review never gets into the vector store: every point
\* and every chunk consists of approved messages of the binding's room, also when
\* chunking is retried, by two workers at once or after a crash.  A chunk has its point,
\* and a row that is chunked was approved.
IndexedIsApproved ==
    /\ \A c \in points : \A id \in c[2] :
        \E o \in DOMAIN records :
            Rec(o).id = id /\ Rec(o).room = RoomOf[c[1]] /\ records[o] = "approved"
    /\ chunks \subseteq points
    /\ \A o \in DOMAIN inbox :
        inbox[o].status = "chunked" => o \in DOMAIN records /\ records[o] = "approved"

Wanted(o) ==
    /\ topic[o] # Garbage
    /\ \E b \in FirstBindings : RoomOf[b] = topic[o].room
    /\ topic[o].sender \notin BotsOf(Bindings)

Settled(o) ==
    /\ committed >= o
    /\ Wanted(o) =>
        o \in DOMAIN inbox /\ inbox[o].status \notin {"pending", "processing"}

\* Every message of a room with an agent is eventually moderated, whichever steps fail
\* and wherever a worker stops, except those that auto_offset_reset passes over because
\* nothing was committed yet, and those of a topic with a record that cannot be decoded.
RecordsSettle ==
    \A o \in Offsets :
        (o <= produced /\ \A i \in DOMAIN topic : topic[i] # Garbage)
            ~> (Settled(o) \/ o \in skipped)
=============================================================================
