------------------------ MODULE AgentPipelineProofs ------------------------
(***************************************************************************)
(* The two promises about moderation hold for any number of workers,       *)
(* messages, bindings and failures: a row is answered at most once for a   *)
(* binding and only after its approval, and only approved messages get     *)
(* into the vector store.                                                  *)
(***************************************************************************)
EXTENDS AgentPipeline, WellFoundedInduction, TLAPS

Approved(o) == o \in DOMAIN records /\ records[o] = "approved"

----------------------------------------------------------------------------
(***************************************************************************)
(* The inductive invariant.                                                *)
(***************************************************************************)

\* A row of the inbox that says it is approved or chunked has an approving record.
SoundRow(o, row) ==
    /\ row = Row(row.status, row.old)
    /\ row.status \in {"approved", "chunked"} => Approved(o)

InboxInv ==
    /\ produced \in Nat /\ committed \in Nat
    /\ reader \in [Workers -> [pc : {"off", "poll", "insert", "commit"}, at : Nat]]
    /\ bindings \subseteq Bindings
    /\ DOMAIN inbox \subseteq Nat
    /\ \A o \in DOMAIN inbox : SoundRow(o, inbox[o])

\* A chunk whose messages are approved messages of the binding's room.
Backed(c) ==
    \A id \in c[2] : \E o \in DOMAIN records :
        Rec(o).id = id /\ Rec(o).room = RoomOf[c[1]] /\ records[o] = "approved"

IndexInv ==
    /\ \A c \in points : Backed(c)
    /\ chunks \subseteq points

\* What a worker holds: once they are moderated, the rows of its batch are approved;
\* the chunks that it files are backed, and the one in its hand has its point.
Holds(q) ==
    /\ q = [pc |-> q.pc, retry |-> q.retry, rooms |-> q.rooms, batch |-> q.batch,
            bound |-> q.bound, asks |-> q.asks, left |-> q.left, filing |-> q.filing,
            hand |-> q.hand]
    /\ q.batch \subseteq Nat /\ q.bound \subseteq Bindings /\ q.asks \subseteq Bindings
    /\ \A b \in q.bound, o \in q.batch : RoomOf[b] = Rec(o).room
    /\ q.pc # "moderate" => \A o \in q.batch : Approved(o)
    /\ q.pc \in {"converse", "answer"} => q.asks # {}
    /\ q.pc = "answer" => q.left # {} /\ q.left \subseteq q.batch
    /\ \A c \in q.filing \cup q.hand : Backed(c)
    /\ q.pc = "file" => q.hand \subseteq points

WorkersInv ==
    /\ worker = [w \in Workers |-> worker[w]]
    /\ \A w \in Workers : Holds(worker[w])

Talks(q) == q.pc \in {"converse", "answer"}

\* The worker may yet answer row o for binding b.
Owes(q, b, o) ==
    \/ q.pc = "converse" /\ b \in q.asks /\ o \in q.batch
    \/ q.pc = "answer" /\ \/ b = Min(q.asks) /\ o \in q.left
                          \/ b \in q.asks \ {Min(q.asks)} /\ o \in q.batch

\* An answer that is owed has not been given, and no two workers owe the same one.
AnswersInv ==
    /\ answers \in [Bindings \X (1..Len(topic)) -> Nat]
    /\ removals \subseteq DOMAIN records
    /\ AnsweredOnce
    /\ \A w \in Workers, b \in Bindings, o \in 1..Len(topic) :
        Owes(worker[w], b, o) => answers[<<b, o>>] = 0
    /\ \A v, w \in Workers :
        v # w /\ Talks(worker[v]) /\ Talks(worker[w]) => worker[v].batch \cap worker[w].batch = {}

PipelineInv == InboxInv /\ IndexInv /\ WorkersInv /\ AnswersInv

----------------------------------------------------------------------------
(***************************************************************************)
(* Lemmas.                                                                 *)
(***************************************************************************)

\* The least element of a set of numbers.
LEMMA MinIsMember ==
    ASSUME NEW S \in SUBSET Nat, S # {}
    PROVE  Min(S) \in S
<1>1. \E x \in S : \A y \in S : x <= y
  <2>1. PICK x \in S : \A y \in S : <<y, x>> \notin OpToRel(<, Nat)
    BY NatLessThanWellFounded, WFMin
  <2>2. \A y \in S : ~(y < x)
    BY <2>1 DEF OpToRel
  <2>3. QED
    BY <2>2
<1>2. QED
  BY <1>1 DEF Min

\* A worker without a batch holds nothing.
LEMMA Resting ==
    ASSUME NEW q, \/ q = Sleeping \/ q = Stopped
                  \/ \E rooms, retry : q = Visiting(rooms, retry)
    PROVE  Holds(q) /\ Holds(q)' /\ ~Talks(q) /\ \A b, o : ~Owes(q, b, o)
<1>1. \E pc, rooms, retry :
         /\ pc \in {"requeue", "down", "retry", "claim"}
         /\ q = [pc |-> pc, retry |-> retry, rooms |-> rooms, batch |-> {}, bound |-> {},
                 asks |-> {}, left |-> {}, filing |-> {}, hand |-> {}]
  <2> DEFINE Rests(pc, rooms, retry) ==
               [pc |-> pc, retry |-> retry, rooms |-> rooms, batch |-> {}, bound |-> {},
                asks |-> {}, left |-> {}, filing |-> {}, hand |-> {}]
  <2>0. PICK no : no = FALSE /\ Sleeping = Rests("requeue", {}, no)
    BY DEF Sleeping
  <2>1. Stopped = Rests("down", {}, no)
    BY <2>0 DEF Stopped
  <2>2. \A rooms, retry : \/ Visiting(rooms, retry) = Sleeping
                          \/ Visiting(rooms, retry) = Rests("retry", rooms, retry)
                          \/ Visiting(rooms, retry) = Rests("claim", rooms, retry)
    BY DEF Visiting, Sleeping
  <2>3. QED
    BY <2>0, <2>1, <2>2
<1>2. QED
  BY <1>1 DEF Holds, Talks, Owes

\* There is nothing at first.
LEMMA PipelineInit == Init => PipelineInv
<1> SUFFICES ASSUME Init PROVE PipelineInv
  OBVIOUS
<1>1. /\ inbox = <<>> /\ records = <<>> /\ removals = {} /\ points = {} /\ chunks = {}
      /\ produced = 0 /\ committed = 0 /\ bindings = FirstBindings
      /\ reader = [w \in Workers |-> Unassigned] /\ worker = [w \in Workers |-> Sleeping]
      /\ answers = [p \in Bindings \X (1..Len(topic)) |-> 0]
  BY DEF Init
<1>2. InboxInv
  BY <1>1, PipelineAssumption DEF InboxInv, Unassigned
<1>3. IndexInv
  BY <1>1 DEF IndexInv
<1>4. Holds(Sleeping) /\ ~Talks(Sleeping) /\ \A b, o : ~Owes(Sleeping, b, o)
  BY Resting
<1>5. WorkersInv
  BY <1>1, <1>4 DEF WorkersInv
<1>6. AnswersInv
  BY <1>1, <1>4 DEF AnswersInv, AnsweredOnce
<1>7. QED
  BY <1>2, <1>3, <1>5, <1>6 DEF PipelineInv

\* What a worker holds, it still holds when records and points have been added.
LEMMA StillHolds ==
    ASSUME NEW q, Holds(q), UNCHANGED topic, points \subseteq points',
           \A o : Approved(o) => Approved(o)'
    PROVE  Holds(q)'
<1>1. ASSUME NEW c, Backed(c) PROVE Backed(c)'
  BY <1>1 DEF Backed, Approved, Rec
<1>2. QED
  BY <1>1 DEF Holds, Rec

\* A worker goes on without answering, and records stay as they are.
LEMMA WorkerMoves ==
    ASSUME PipelineInv, InboxInv', NEW w \in Workers, NEW q, Holds(q)',
           worker' = [worker EXCEPT ![w] = q],
           UNCHANGED <<topic, records, removals, answers>>,
           points \subseteq points', \A c \in points' : Backed(c), chunks' \subseteq points',
           Talks(q) => Talks(worker[w]) /\ q.batch \subseteq worker[w].batch,
           \A b \in Bindings, o \in 1..Len(topic) : Owes(q, b, o) => Owes(worker[w], b, o)
    PROVE  PipelineInv'
<1>1. /\ worker = [v \in Workers |-> worker[v]] /\ \A v \in Workers : Holds(worker[v])
  BY DEF PipelineInv, WorkersInv
<1>2. \A v \in Workers : worker'[v] = IF v = w THEN q ELSE worker[v]
  BY <1>1
<1>3. \A o : Approved(o) => Approved(o)'
  BY DEF Approved
<1>4. ASSUME NEW v \in Workers PROVE Holds(worker[v])'
  <2>1. PICK p : p = worker'[v]
    OBVIOUS
  <2>2. Holds(p)'
    <3>1. CASE v = w
      BY <1>2, <2>1, <3>1
    <3>2. CASE v # w
      BY <1>1, <1>2, <1>3, <2>1, <3>2, StillHolds
    <3>3. QED
      BY <3>1, <3>2
  <2>3. QED
    BY <2>1, <2>2 DEF Holds
<1>5. worker' = [v \in Workers |-> worker'[v]]
  BY <1>1
<1>6. WorkersInv'
  BY <1>4, <1>5 DEF WorkersInv
<1>7. IndexInv'
  BY DEF IndexInv, Backed, Rec
<1>8. AnswersInv'
  <2>1. \A v \in Workers, b \in Bindings, o \in 1..Len(topic) :
           Owes(worker'[v], b, o) => Owes(worker[v], b, o)
    BY <1>2
  <2>2. \A v \in Workers : Talks(worker'[v]) =>
           Talks(worker[v]) /\ worker'[v].batch \subseteq worker[v].batch
    BY <1>2
  <2>3. \A v \in Workers, b \in Bindings, o \in 1..Len(topic) :
           Owes(worker[v], b, o)' => answers'[<<b, o>>] = 0
    <3>1. \A v, b, o : Owes(worker[v], b, o)' <=> Owes(worker'[v], b, o)
      BY DEF Owes
    <3>2. QED
      BY <2>1, <3>1 DEF PipelineInv, AnswersInv
  <2>4. \A u, v \in Workers : u # v /\ Talks(worker[u])' /\ Talks(worker[v])'
           => worker'[u].batch \cap worker'[v].batch = {}
    <3>1. \A v : Talks(worker[v])' <=> Talks(worker'[v])
      BY DEF Talks
    <3>2. \A u, v \in Workers :
             u # v /\ Talks(worker[u]) /\ Talks(worker[v]) => worker[u].batch \cap worker[v].batch = {}
      BY DEF PipelineInv, AnswersInv
    <3>3. QED
      BY <2>2, <3>1, <3>2
  <2>5. QED
    BY <2>3, <2>4 DEF PipelineInv, AnswersInv, AnsweredOnce
<1>9. QED
  BY <1>6, <1>7, <1>8 DEF PipelineInv

\* The rows are written again: a new status "approved" or "chunked" needs its record.
LEMMA InboxRewritten ==
    ASSUME InboxInv, UNCHANGED <<produced, committed, bindings>>,
           UNCHANGED reader \/ reader' \in [Workers -> [pc : {"off", "poll", "insert", "commit"}, at : Nat]],
           DOMAIN inbox' \subseteq Nat, \A o \in DOMAIN inbox' : SoundRow(o, inbox[o])'
    PROVE  InboxInv'
BY DEF InboxInv

\* Nothing but the inbox or the consumers moves.
LEMMA OnlyInboxMoves ==
    ASSUME PipelineInv, InboxInv',
           UNCHANGED <<topic, records, removals, points, chunks, answers, worker>>
    PROVE  PipelineInv'
<1>1. \A q : Holds(q)' <=> Holds(q)
  BY DEF Holds, Backed, Approved, Rec
<1>2. WorkersInv'
  BY <1>1 DEF PipelineInv, WorkersInv, Holds, Backed, Approved, Rec
<1>3. IndexInv'
  BY DEF PipelineInv, IndexInv, Backed, Rec
<1>4. AnswersInv'
  BY DEF PipelineInv, AnswersInv, AnsweredOnce, Owes, Talks
<1>5. QED
  BY <1>2, <1>3, <1>4 DEF PipelineInv

\* A worker comes to rest.
LEMMA WorkerRests ==
    ASSUME PipelineInv, InboxInv', NEW w \in Workers, NEW q,
           \/ q = Sleeping \/ q = Stopped \/ \E rooms, retry : q = Visiting(rooms, retry),
           worker' = [worker EXCEPT ![w] = q],
           UNCHANGED <<topic, records, removals, answers, points, chunks>>
    PROVE  PipelineInv'
<1>1. Holds(q)' /\ ~Talks(q) /\ \A b, o : ~Owes(q, b, o)
  BY Resting
<1>2. \A c \in points' : Backed(c)
  BY DEF PipelineInv, IndexInv
<1>3. points \subseteq points' /\ chunks' \subseteq points'
  BY DEF PipelineInv, IndexInv
<1>4. QED
  BY <1>1, <1>2, <1>3, WorkerMoves

----------------------------------------------------------------------------
(***************************************************************************)
(* The topic, the management API and the consumers.                        *)
(***************************************************************************)
Readers == [Workers -> [pc : {"off", "poll", "insert", "commit"}, at : Nat]]

\* New messages, the management API and the clock touch neither answers nor the index.
LEMMA OthersKeep ==
    ASSUME PipelineInv, Produce \/ Manage \/ \E o \in DOMAIN inbox : Ages(o)
    PROVE  PipelineInv'
<1>1. InboxInv
  BY DEF PipelineInv
<1>2. UNCHANGED <<topic, records, removals, points, chunks, answers, worker, reader, committed>>
  BY DEF Produce, Manage, Ages, apiVars, tableVars, kafkaVars
<1>3. CASE Produce
  <2>1. produced' = produced + 1 /\ UNCHANGED <<inbox, bindings>>
    BY <1>3 DEF Produce, apiVars, tableVars
  <2>2. InboxInv'
    BY <1>1, <1>2, <2>1 DEF InboxInv, SoundRow, Approved
  <2>3. QED
    BY <1>2, <2>2, OnlyInboxMoves
<1>4. CASE Manage
  <2>1. UNCHANGED <<inbox, produced>> /\ bindings' \subseteq bindings \cup Bindings
    BY <1>4 DEF Manage, create_binding, put_config, delete_config, tableVars, kafkaVars
  <2>2. InboxInv'
    BY <1>1, <1>2, <2>1 DEF InboxInv, SoundRow, Approved
  <2>3. QED
    BY <1>2, <2>2, OnlyInboxMoves
<1>5. ASSUME NEW o \in DOMAIN inbox, Ages(o) PROVE PipelineInv'
  <2>1. inbox' = [inbox EXCEPT ![o].old = TRUE] /\ UNCHANGED <<produced, bindings>>
    BY <1>5 DEF Ages, kafkaVars, apiVars
  <2>2. \A p \in DOMAIN inbox : SoundRow(p, inbox[p])
    BY <1>1 DEF InboxInv
  <2>3. DOMAIN inbox' = DOMAIN inbox /\ \A p \in DOMAIN inbox : SoundRow(p, inbox[p])'
    <3>1. PICK yes : inbox' = [inbox EXCEPT ![o].old = yes]
      BY <2>1
    <3>2. DOMAIN inbox' = DOMAIN inbox /\ \A p \in DOMAIN inbox \ {o} : inbox'[p] = inbox[p]
      BY <3>1
    <3>3. inbox[o] = [status |-> inbox[o].status, old |-> inbox[o].old]
      BY <2>2 DEF SoundRow, Row
    <3>4. inbox'[o] = [status |-> inbox[o].status, old |-> yes]
      BY <3>1, <3>3
    <3>5. SoundRow(o, inbox[o])'
      BY <1>2, <2>2, <3>4 DEF SoundRow, Row, Approved
    <3>6. \A p \in DOMAIN inbox \ {o} : SoundRow(p, inbox[p])'
      BY <1>2, <2>2, <3>2 DEF SoundRow, Row, Approved
    <3>7. QED
      BY <3>2, <3>5, <3>6
  <2>4. InboxInv'
    BY <1>1, <1>2, <2>1, <2>3, InboxRewritten DEF InboxInv
  <2>5. QED
    BY <1>2, <2>4, OnlyInboxMoves
<1>6. QED
  BY <1>3, <1>4, <1>5

\* A process ends or begins.
LEMMA ProcessKeeps ==
    ASSUME PipelineInv, NEW w \in Workers, Crash(w) \/ Restart(w)
    PROVE  PipelineInv'
<1>1. InboxInv
  BY DEF PipelineInv
<1>2. /\ UNCHANGED <<topic, produced, committed, inbox, bindings, records, removals, points, chunks, answers>>
      /\ \/ reader' = [reader EXCEPT ![w] = Unassigned] /\ worker' = [worker EXCEPT ![w] = Stopped]
         \/ UNCHANGED reader /\ worker' = [worker EXCEPT ![w] = Sleeping]
  BY DEF Crash, Restart, Ends, Becomes, apiVars, tableVars, kafkaVars
<1>3. InboxInv'
  BY <1>1, <1>2 DEF InboxInv, SoundRow, Approved, Unassigned
<1>4. QED
  BY <1>2, <1>3, WorkerRests

\* The consumer of a worker.
LEMMA ConsumerKeeps ==
    ASSUME PipelineInv, NEW w \in Workers, ConsumerStep(w)
    PROVE  PipelineInv'
<1>1. InboxInv
  BY DEF PipelineInv
<1>2. reader \in Readers /\ produced \in Nat /\ committed \in Nat
  BY <1>1 DEF InboxInv, Readers
<1>3. CASE Assign(w) \/ Commit(w)
  <2>1. /\ UNCHANGED <<topic, records, removals, points, chunks, answers, worker, inbox, produced, bindings>>
    BY <1>3 DEF Assign, Commit, apiVars, tableVars
  <2>2. committed' \in Nat /\ reader' \in Readers
    <3>1. CASE Assign(w)
      BY <1>2, <3>1 DEF Assign, Readers
    <3>2. CASE Commit(w)
      BY <1>2, <3>2 DEF Commit, Readers
    <3>3. QED
      BY <1>3, <3>1, <3>2
  <2>3. InboxInv'
    BY <1>1, <2>1, <2>2 DEF InboxInv, Readers, SoundRow, Approved
  <2>4. QED
    BY <2>1, <2>3, OnlyInboxMoves
<1>4. CASE Poll(w)
  <2>1. /\ UNCHANGED <<topic, produced, committed, inbox, bindings, records, removals, points, chunks, answers>>
        /\ \/ reader' = [reader EXCEPT ![w] = Unassigned] /\ worker' = [worker EXCEPT ![w] = Stopped]
           \/ /\ \E pc \in {"insert", "commit"} : reader' = [reader EXCEPT ![w].pc = pc]
              /\ UNCHANGED worker
    BY <1>4 DEF Poll, Ends, Becomes, Reads, apiVars, tableVars
  <2>2. reader' \in Readers
    BY <1>2, <2>1 DEF Readers, Unassigned
  <2>3. InboxInv'
    BY <1>1, <2>1, <2>2 DEF InboxInv, Readers, SoundRow, Approved
  <2>4. QED
    BY <2>1, <2>3, WorkerRests, OnlyInboxMoves
<1>5. CASE AddToInbox(w)
  <2> DEFINE o == reader[w].at
  <2>1. /\ UNCHANGED <<topic, produced, committed, bindings, records, removals, points, chunks, answers, worker>>
        /\ reader' = [reader EXCEPT ![w].pc = "commit"]
        /\ inbox' = IF o \in DOMAIN inbox THEN inbox
                    ELSE [p \in DOMAIN inbox \cup {o} |->
                            IF p = o THEN Row("pending", FALSE) ELSE inbox[p]]
    BY <1>5 DEF AddToInbox, Reads, kafkaVars, apiVars
  <2>2. o \in Nat /\ reader' \in Readers
    BY <1>2, <2>1 DEF Readers
  <2> HIDE DEF o
  <2>3. DOMAIN inbox' \subseteq Nat
    BY <1>1, <2>1, <2>2 DEF InboxInv
  <2>4. \A p \in DOMAIN inbox' : \/ p \in DOMAIN inbox /\ inbox'[p] = inbox[p]
                                 \/ inbox'[p] = Row("pending", FALSE)
    BY <2>1
  <2>5. PICK no : no = FALSE
    OBVIOUS
  <2>6. \A p \in DOMAIN inbox' : SoundRow(p, inbox[p])'
    <3>1. \A x : x = Row("pending", no) =>
             x = Row(x.status, x.old) /\ x.status = "pending"
      BY DEF Row
    <3>2. QED
      BY <1>1, <2>1, <2>4, <2>5, <3>1 DEF InboxInv, SoundRow, Approved
  <2>7. InboxInv'
    BY <1>1, <2>1, <2>2, <2>3, <2>6, InboxRewritten DEF Readers
  <2>8. QED
    BY <2>1, <2>7, OnlyInboxMoves
<1>6. QED
  BY <1>3, <1>4, <1>5, ProcessKeeps DEF ConsumerStep

----------------------------------------------------------------------------
(***************************************************************************)
(* The pipeline.                                                           *)
(***************************************************************************)

\* Rows are written again with another status or time.
LEMMA RowsRewritten ==
    ASSUME InboxInv, UNCHANGED <<produced, committed, bindings, reader>>,
           \A o : Approved(o) => Approved(o)', DOMAIN inbox' = DOMAIN inbox,
           \A o \in DOMAIN inbox : \/ inbox'[o] = inbox[o]
                                   \/ \E s, d : /\ inbox'[o] = Row(s, d)
                                                /\ s \in {"approved", "chunked"} => Approved(o)'
    PROVE  InboxInv'
<1>1. \A o \in DOMAIN inbox : SoundRow(o, inbox[o])
  BY DEF InboxInv
<1>2. ASSUME NEW o \in DOMAIN inbox PROVE SoundRow(o, inbox[o])'
  <2>1. CASE inbox'[o] = inbox[o]
    BY <1>1, <2>1 DEF SoundRow, Row
  <2>2. ASSUME NEW s, NEW d, inbox'[o] = Row(s, d), s \in {"approved", "chunked"} => Approved(o)'
        PROVE  SoundRow(o, inbox[o])'
    BY <2>2 DEF SoundRow, Row
  <2>3. QED
    BY <2>1, <2>2
<1>3. QED
  BY <1>2, InboxRewritten DEF InboxInv

\* What a worker holds does not depend on the inbox, on the bindings or on the answers.
LEMMA HoldsStays ==
    ASSUME NEW q, Holds(q), UNCHANGED <<topic, records>>, points \subseteq points'
    PROVE  Holds(q)'
<1>1. \A o : Approved(o) => Approved(o)'
  BY DEF Approved
<1>2. QED
  BY <1>1, StillHolds

\* A step of the pipeline that neither moderates nor answers.
LEMMA Advances ==
    ASSUME PipelineInv, InboxInv', NEW w \in Workers, NEW q, Holds(q),
           worker' = [worker EXCEPT ![w] = q],
           UNCHANGED <<topic, records, removals, answers, points, chunks>>,
           Talks(q) => Talks(worker[w]) /\ q.batch \subseteq worker[w].batch,
           \A b \in Bindings, o \in 1..Len(topic) : Owes(q, b, o) => Owes(worker[w], b, o)
    PROVE  PipelineInv'
<1>1. points \subseteq points' /\ chunks' \subseteq points' /\ \A c \in points' : Backed(c)
  BY DEF PipelineInv, IndexInv
<1>2. Holds(q)'
  BY <1>1, HoldsStays
<1>3. QED
  BY <1>1, <1>2, WorkerMoves

\* The inbox stays.
LEMMA InboxStays ==
    ASSUME InboxInv, UNCHANGED <<produced, committed, bindings, reader, inbox, records>>
    PROVE  InboxInv'
BY DEF InboxInv, SoundRow, Approved

\* The exception handler of _run_chunking.
LEMMA FailedChunkingKeeps ==
    ASSUME PipelineInv, NEW w \in Workers, ChunkingFailed(w),
           UNCHANGED <<topic, produced, committed, bindings, reader,
                       records, removals, answers, points, chunks>>
    PROVE  PipelineInv'
<1>1. InboxInv
  BY DEF PipelineInv
<1>2. DOMAIN inbox' = DOMAIN inbox /\ \A o \in DOMAIN inbox :
         inbox'[o] = inbox[o] \/ inbox'[o] = Row(inbox[o].status, FALSE)
  BY DEF ChunkingFailed
<1>3. \A o : Approved(o) => Approved(o)'
  BY DEF Approved
<1>4. \A o \in DOMAIN inbox : inbox[o].status \in {"approved", "chunked"} => Approved(o)'
  BY <1>1, <1>3 DEF InboxInv, SoundRow
<1>5. \A o \in DOMAIN inbox : \/ inbox'[o] = inbox[o]
                              \/ \E s, d : /\ inbox'[o] = Row(s, d)
                                           /\ s \in {"approved", "chunked"} => Approved(o)'
  BY <1>2, <1>4
<1>6. InboxInv'
  BY <1>1, <1>2, <1>3, <1>5, RowsRewritten
<1>7. PICK q : q = NextRoom(w)
  OBVIOUS
<1>8. worker' = [worker EXCEPT ![w] = q] /\ \E rooms, retry : q = Visiting(rooms, retry)
  BY <1>7 DEF ChunkingFailed, Becomes, NextRoom
<1>9. QED
  BY <1>6, <1>8, WorkerRests

\* An iteration begins: stale rows are requeued, and rooms are chosen.
LEMMA IterationBegins ==
    ASSUME PipelineInv, NEW w \in Workers, _requeue_stale(w) \/ _ready_rooms(w) \/ StaleRooms(w)
    PROVE  PipelineInv'
<1>1. InboxInv /\ Holds(worker[w])
  BY DEF PipelineInv, WorkersInv
<1>2. UNCHANGED <<topic, produced, committed, bindings, reader, records, removals, answers, points, chunks>>
  BY DEF _requeue_stale, _ready_rooms, StaleRooms, kafkaVars, apiVars, tableVars
<1>3. CASE _requeue_stale(w)
  <2>1. /\ DOMAIN inbox' = DOMAIN inbox
        /\ \A o \in DOMAIN inbox : inbox'[o] = inbox[o] \/ \E d : inbox'[o] = Row("pending", d)
    BY <1>3 DEF _requeue_stale
  <2>2. \A o : Approved(o) => Approved(o)'
    BY <1>2 DEF Approved
  <2>3. InboxInv'
    <3>1. \A o \in DOMAIN inbox : \/ inbox'[o] = inbox[o]
                                  \/ \E s, d : /\ inbox'[o] = Row(s, d)
                                               /\ s \in {"approved", "chunked"} => Approved(o)'
      BY <2>1
    <3>2. QED
      BY <1>1, <1>2, <2>1, <2>2, <3>1, RowsRewritten
  <2>4. PICK q : q = [worker[w] EXCEPT !.pc = "ready"]
    OBVIOUS
  <2>5. worker' = [worker EXCEPT ![w] = q] /\ worker[w].pc = "requeue"
    BY <1>3, <2>4 DEF _requeue_stale, Goes, Becomes, At
  <2>6. Holds(q) /\ q.pc = "ready"
    BY <1>1, <2>4, <2>5 DEF Holds
  <2>7. ~Talks(q) /\ \A b, o : ~Owes(q, b, o)
    BY <2>6 DEF Talks, Owes
  <2>8. QED
    BY <1>2, <2>3, <2>5, <2>6, <2>7, Advances
<1>4. CASE _ready_rooms(w) \/ StaleRooms(w)
  <2>1. UNCHANGED inbox /\ \E rooms, retry : worker' = [worker EXCEPT ![w] = Visiting(rooms, retry)]
    BY <1>4 DEF _ready_rooms, StaleRooms, Becomes, tableVars
  <2>2. InboxInv'
    BY <1>1, <1>2, <2>1, InboxStays
  <2>3. QED
    BY <1>2, <2>1, <2>2, WorkerRests
<1>5. QED
  BY <1>3, <1>4

\* A batch is claimed, or an approved one is taken up again.
LEMMA BatchTaken ==
    ASSUME PipelineInv, NEW w \in Workers, Claim(w) \/ _retry_approved_chunks(w)
    PROVE  PipelineInv'
<1> DEFINE room == Min(worker[w].rooms)
           bound == BoundTo(room)
<1>1. InboxInv /\ Holds(worker[w])
  BY DEF PipelineInv, WorkersInv
<1>2. UNCHANGED <<topic, produced, committed, bindings, reader, records, removals, answers, points, chunks>>
  BY DEF Claim, _retry_approved_chunks, kafkaVars, apiVars, tableVars
<1>3. bound \subseteq Bindings /\ \A b \in bound : RoomOf[b] = room
  BY <1>1 DEF InboxInv, BoundTo
<1>4. \A status : WithStatus(room, status) \subseteq Nat
                  /\ \A o \in WithStatus(room, status) :
                        o \in DOMAIN inbox /\ inbox[o].status = status /\ Rec(o).room = room
  BY <1>1 DEF InboxInv, WithStatus, RowsOf
<1>5. \A rows : FirstOf(rows) \subseteq rows
  BY DEF FirstOf
<1>6. ASSUME worker' = [worker EXCEPT ![w] = NextRoom(w)], InboxInv' PROVE PipelineInv'
  <2>1. PICK q : q = NextRoom(w)
    OBVIOUS
  <2>2. \E rooms, retry : q = Visiting(rooms, retry)
    BY <2>1 DEF NextRoom
  <2>3. QED
    BY <1>2, <1>6, <2>1, <2>2, WorkerRests
<1>7. ASSUME NEW pc \in {"moderate", "chunk"}, NEW batch \in SUBSET Nat,
             \A o \in batch : Rec(o).room = room, pc # "moderate" => \A o \in batch : Approved(o),
             worker' = [worker EXCEPT ![w] =
                           [worker[w] EXCEPT !.pc = pc, !.batch = batch, !.bound = bound]],
             InboxInv'
      PROVE  PipelineInv'
  <2> HIDE DEF room, bound
  <2>1. PICK q : q = [worker[w] EXCEPT !.pc = pc, !.batch = batch, !.bound = bound]
    OBVIOUS
  <2>2. q = [pc |-> pc, retry |-> worker[w].retry, rooms |-> worker[w].rooms, batch |-> batch,
             bound |-> bound, asks |-> worker[w].asks, left |-> worker[w].left,
             filing |-> worker[w].filing, hand |-> worker[w].hand]
    BY <1>1, <2>1 DEF Holds
  <2>3. Holds(q)
    BY <1>1, <1>3, <1>7, <2>2 DEF Holds
  <2>4. ~Talks(q) /\ \A b, o : ~Owes(q, b, o)
    BY <2>2 DEF Talks, Owes
  <2>5. worker' = [worker EXCEPT ![w] = q]
    BY <1>7, <2>1
  <2>6. QED
    BY <1>2, <1>7, <2>3, <2>4, <2>5, Advances
<1>8. CASE Claim(w)
  <2> DEFINE rows == FirstOf(WithStatus(room, "pending"))
             bots == {o \in rows : Rec(o).sender \in BotsOf(bound)}
  <2>1. /\ DOMAIN inbox' = DOMAIN inbox
        /\ \A o \in DOMAIN inbox : \/ inbox'[o] = inbox[o]
                                   \/ \E s, d : /\ inbox'[o] = Row(s, d)
                                                /\ s \in {"ignored", "processing"}
    BY <1>8 DEF Claim
  <2>2. \A o : Approved(o) => Approved(o)'
    BY <1>2 DEF Approved
  <2>3. InboxInv'
    <3>1. \A o \in DOMAIN inbox : \/ inbox'[o] = inbox[o]
                                  \/ \E s, d : /\ inbox'[o] = Row(s, d)
                                               /\ s \in {"approved", "chunked"} => Approved(o)'
      BY <2>1
    <3>2. QED
      BY <1>1, <1>2, <2>1, <2>2, <3>1, RowsRewritten
  <2>4. \/ worker' = [worker EXCEPT ![w] = NextRoom(w)]
        \/ worker' = [worker EXCEPT ![w] = [worker[w] EXCEPT !.pc = "moderate",
                                               !.batch = rows \ bots, !.bound = bound]]
    BY <1>8 DEF Claim, Becomes
  <2>5. rows \ bots \in SUBSET Nat /\ \A o \in rows \ bots : Rec(o).room = room
    BY <1>4, <1>5
  <2> HIDE DEF rows, bots, room, bound
  <2>6. QED
    BY <1>6, <1>7, <2>3, <2>4, <2>5
<1>9. CASE _retry_approved_chunks(w)
  <2> DEFINE rows == FirstOf(WithStatus(room, "approved"))
  <2>1. UNCHANGED inbox
    BY <1>9 DEF _retry_approved_chunks, tableVars
  <2>2. InboxInv'
    BY <1>1, <1>2, <2>1, InboxStays
  <2>3. \/ worker' = [worker EXCEPT ![w] = NextRoom(w)]
        \/ worker' = [worker EXCEPT ![w] = [worker[w] EXCEPT !.pc = "chunk",
                                               !.batch = rows, !.bound = bound]]
    BY <1>9 DEF _retry_approved_chunks, Becomes
  <2>4. rows \in SUBSET Nat /\ \A o \in rows : Rec(o).room = room /\ Approved(o)
    BY <1>1, <1>4, <1>5 DEF InboxInv, SoundRow
  <2> HIDE DEF rows, room, bound
  <2>5. QED
    BY <1>6, <1>7, <2>2, <2>3, <2>4
<1>10. QED
  BY <1>8, <1>9

\* The conversations go on with fewer bindings, or end.
LEMMA Converses ==
    ASSUME NEW w \in Workers, NEW asks \in SUBSET worker[w].asks, NEW q, Holds(worker[w]),
           Talks(worker[w]), q = Conversing(w, asks)
    PROVE  /\ Holds(q) /\ q.batch = worker[w].batch
           /\ q.pc = IF asks = {} THEN "chunk" ELSE "converse"
           /\ \A b, o : Owes(q, b, o) <=> b \in asks /\ o \in worker[w].batch
<1>1. q = [pc |-> IF asks = {} THEN "chunk" ELSE "converse", retry |-> worker[w].retry,
           rooms |-> worker[w].rooms, batch |-> worker[w].batch, bound |-> worker[w].bound,
           asks |-> asks, left |-> {}, filing |-> worker[w].filing, hand |-> worker[w].hand]
  BY DEF Conversing, Holds
<1>2. worker[w].pc # "moderate"
  BY DEF Talks
<1>3. Holds(q)
  BY <1>1, <1>2 DEF Holds
<1>4. \A b, o : Owes(q, b, o) <=> b \in asks /\ o \in worker[w].batch
  BY <1>1 DEF Owes
<1>5. QED
  BY <1>1, <1>3, <1>4

\* The next binding: its bot has something to answer, or the one after it is looked at.
LEMMA ConfigLoaded ==
    ASSUME PipelineInv, NEW w \in Workers, _load_config(w)
    PROVE  PipelineInv'
<1> DEFINE b == Min(worker[w].asks)
<1>1. InboxInv /\ Holds(worker[w]) /\ worker[w].pc = "converse"
  BY DEF PipelineInv, WorkersInv, _load_config, At
<1>2. UNCHANGED <<topic, produced, committed, bindings, reader, inbox, records, removals, answers, points, chunks>>
  BY DEF _load_config, kafkaVars, apiVars, tableVars
<1>3. InboxInv'
  BY <1>1, <1>2, InboxStays
<1>4. worker[w].asks \in SUBSET Nat /\ worker[w].asks # {}
  BY <1>1, PipelineAssumption DEF Holds
<1>5. b \in worker[w].asks
  BY <1>4, MinIsMember
<1>6. PICK asked \in SUBSET worker[w].batch :
         worker' = [worker EXCEPT ![w] =
             IF asked = {} THEN Conversing(w, worker[w].asks \ {b})
             ELSE [worker[w] EXCEPT !.pc = "answer", !.left = asked]]
  BY DEF _load_config, Becomes
<1>7. CASE asked = {}
  <2>1. PICK q : q = Conversing(w, worker[w].asks \ {b})
    OBVIOUS
  <2>2. Talks(worker[w]) /\ worker[w].asks \ {b} \in SUBSET worker[w].asks
    BY <1>1 DEF Talks
  <2>3. /\ Holds(q) /\ q.batch = worker[w].batch
        /\ \A c, o : Owes(q, c, o) => c \in worker[w].asks /\ o \in worker[w].batch
    BY <1>1, <2>1, <2>2, Converses
  <2>4. \A c, o : Owes(q, c, o) => Owes(worker[w], c, o)
    BY <1>1, <2>3 DEF Owes
  <2>5. worker' = [worker EXCEPT ![w] = q]
    BY <1>6, <1>7, <2>1
  <2>6. QED
    BY <1>2, <1>3, <2>2, <2>3, <2>4, <2>5, Advances
<1>8. CASE asked # {}
  <2>1. PICK q : q = [worker[w] EXCEPT !.pc = "answer", !.left = asked]
    OBVIOUS
  <2>2. q = [pc |-> "answer", retry |-> worker[w].retry, rooms |-> worker[w].rooms,
             batch |-> worker[w].batch, bound |-> worker[w].bound, asks |-> worker[w].asks,
             left |-> asked, filing |-> worker[w].filing, hand |-> worker[w].hand]
    BY <1>1, <2>1 DEF Holds
  <2>3. Holds(q)
    BY <1>1, <1>8, <2>2 DEF Holds
  <2>4. Talks(worker[w]) /\ q.batch = worker[w].batch
    BY <1>1, <2>2 DEF Talks
  <2>5. \A c, o : Owes(q, c, o) => Owes(worker[w], c, o)
    BY <1>1, <1>5, <2>2 DEF Owes
  <2>6. worker' = [worker EXCEPT ![w] = q]
    BY <1>6, <1>8, <2>1
  <2>7. QED
    BY <1>2, <1>3, <2>3, <2>4, <2>5, <2>6, Advances
<1>9. QED
  BY <1>7, <1>8

\* One message is answered, or not: what is owed afterwards was owed before, and it is
\* not the answer just given.
LEMMA AnswerGiven ==
    ASSUME PipelineInv, NEW w \in Workers, Answer(w)
    PROVE  PipelineInv'
<1> DEFINE b == Min(worker[w].asks)
           o == Min(worker[w].left)
<1>1. /\ InboxInv /\ IndexInv /\ AnswersInv /\ worker = [v \in Workers |-> worker[v]]
      /\ \A v \in Workers : Holds(worker[v])
  BY DEF PipelineInv, WorkersInv
<1>2. worker[w].pc = "answer" /\ Talks(worker[w])
  BY DEF Answer, At, Talks
<1>3. UNCHANGED <<topic, produced, committed, bindings, reader, inbox, records, removals, points, chunks>>
  BY DEF Answer, kafkaVars, apiVars
<1>4. InboxInv'
  BY <1>1, <1>3, InboxStays
<1>5. /\ worker[w].asks \in SUBSET Nat /\ worker[w].asks # {} /\ worker[w].asks \subseteq Bindings
      /\ worker[w].left \in SUBSET Nat /\ worker[w].left # {} /\ worker[w].left \subseteq worker[w].batch
  BY <1>1, <1>2, PipelineAssumption DEF Holds
<1>6. b \in worker[w].asks /\ o \in worker[w].left
  BY <1>5, MinIsMember
<1>7. Approved(o)
  BY <1>1, <1>2, <1>5, <1>6 DEF Holds
<1>8. /\ answers' = answers \/ answers' = [answers EXCEPT ![<<b, o>>] = @ + 1]
      /\ \/ worker' = [worker EXCEPT ![w] = Conversing(w, {})]
         \/ worker' = [worker EXCEPT ![w] = Conversing(w, worker[w].asks \ {b})]
         \/ /\ worker[w].left # {o}
            /\ worker' = [worker EXCEPT ![w] = [worker[w] EXCEPT !.left = @ \ {o}]]
  BY DEF Answer, Becomes
<1> HIDE DEF b, o
<1>9. PICK q : /\ worker' = [worker EXCEPT ![w] = q] /\ Holds(q) /\ q.batch = worker[w].batch
               /\ \A c, p : Owes(q, c, p) => Owes(worker[w], c, p) /\ ~(c = b /\ p = o)
  <2>1. ASSUME NEW asks \in {{}, worker[w].asks \ {b}},
               worker' = [worker EXCEPT ![w] = Conversing(w, asks)]
        PROVE  \E q : /\ worker' = [worker EXCEPT ![w] = q] /\ Holds(q) /\ q.batch = worker[w].batch
                      /\ \A c, p : Owes(q, c, p) => Owes(worker[w], c, p) /\ ~(c = b /\ p = o)
    <3>1. PICK q : q = Conversing(w, asks)
      OBVIOUS
    <3>2. asks \in SUBSET worker[w].asks
      BY <2>1
    <3>3. /\ Holds(q) /\ q.batch = worker[w].batch
          /\ \A c, p : Owes(q, c, p) => c \in asks /\ p \in worker[w].batch
      BY <1>1, <1>2, <3>1, <3>2, Converses
    <3>4. \A c, p : c \in asks /\ p \in worker[w].batch => Owes(worker[w], c, p) /\ c # b
      BY <1>2, <2>1 DEF Owes, b
    <3>5. QED
      BY <2>1, <3>1, <3>3, <3>4
  <2>2. ASSUME worker[w].left # {o},
               worker' = [worker EXCEPT ![w] = [worker[w] EXCEPT !.left = @ \ {o}]]
        PROVE  \E q : /\ worker' = [worker EXCEPT ![w] = q] /\ Holds(q) /\ q.batch = worker[w].batch
                      /\ \A c, p : Owes(q, c, p) => Owes(worker[w], c, p) /\ ~(c = b /\ p = o)
    <3>1. PICK q : q = [worker[w] EXCEPT !.left = @ \ {o}]
      OBVIOUS
    <3>2. q = [pc |-> "answer", retry |-> worker[w].retry, rooms |-> worker[w].rooms,
               batch |-> worker[w].batch, bound |-> worker[w].bound, asks |-> worker[w].asks,
               left |-> worker[w].left \ {o}, filing |-> worker[w].filing, hand |-> worker[w].hand]
      <4>1. Holds(worker[w])
        BY <1>1
      <4>2. QED
        BY <1>2, <3>1, <4>1 DEF Holds
    <3>3. worker[w].left \ {o} # {}
      BY <1>5, <1>6, <2>2
    <3>4. Holds(q)
      <4>1. Holds(worker[w])
        BY <1>1
      <4>2. QED
        BY <1>2, <3>2, <3>3, <4>1 DEF Holds
    <3>5. \A c, p : Owes(q, c, p) => Owes(worker[w], c, p) /\ ~(c = b /\ p = o)
      BY <1>2, <3>2 DEF Owes, b
    <3>6. QED
      BY <2>2, <3>1, <3>2, <3>4, <3>5
  <2>3. QED
    BY <1>8, <2>1, <2>2
<1>10. \A v \in Workers : worker'[v] = IF v = w THEN q ELSE worker[v]
  BY <1>1, <1>9
<1>11. WorkersInv'
  <2>1. ASSUME NEW v \in Workers PROVE Holds(worker[v])'
    <3>1. PICK p : p = worker'[v]
      OBVIOUS
    <3>2. Holds(p)'
      BY <1>1, <1>3, <1>9, <1>10, <3>1, HoldsStays
    <3>3. QED
      BY <3>1, <3>2 DEF Holds
  <2>2. worker' = [v \in Workers |-> worker'[v]]
    BY <1>1, <1>9
  <2>3. QED
    BY <2>1, <2>2 DEF WorkersInv
<1>12. IndexInv'
  BY <1>1, <1>3 DEF IndexInv, Backed, Rec
<1>13. AnswersInv'
  <2>1. /\ answers \in [Bindings \X (1..Len(topic)) -> Nat] /\ AnsweredOnce
        /\ \A v \in Workers, c \in Bindings, p \in 1..Len(topic) :
              Owes(worker[v], c, p) => answers[<<c, p>>] = 0
    BY <1>1 DEF AnswersInv
  <2>2. Owes(worker[w], b, o) /\ b \in Bindings
    BY <1>2, <1>5, <1>6 DEF Owes, b
  <2>3. /\ answers' \in [Bindings \X (1..Len(topic)) -> Nat]
        /\ \A c \in Bindings, p \in 1..Len(topic) : ~(c = b /\ p = o) => answers'[<<c, p>>] = answers[<<c, p>>]
        /\ o \in 1..Len(topic) => answers'[<<b, o>>] <= 1
    <3> DEFINE D == Bindings \X (1..Len(topic))
    <3>1. o \in 1..Len(topic) => <<b, o>> \in D /\ answers[<<b, o>>] = 0
      BY <2>1, <2>2
    <3>2. \A c \in Bindings, p \in 1..Len(topic) :
             <<c, p>> \in D /\ (<<c, p>> = <<b, o>> => c = b /\ p = o)
      OBVIOUS
    <3>3. answers \in [D -> Nat]
      BY <2>1
    <3> HIDE DEF D
    <3>4. answers' \in [D -> Nat] /\ (<<b, o>> \in D => answers'[<<b, o>>] <= answers[<<b, o>>] + 1)
          /\ \A x \in D : x # <<b, o>> => answers'[x] = answers[x]
      BY <1>8, <3>3
    <3>5. \A c \in Bindings, p \in 1..Len(topic) : ~(c = b /\ p = o) => answers'[<<c, p>>] = answers[<<c, p>>]
      BY <3>2, <3>4
    <3>6. o \in 1..Len(topic) => answers'[<<b, o>>] <= 1
      BY <3>1, <3>4
    <3>7. QED
      BY <3>4, <3>5, <3>6 DEF D
  <2>4. AnsweredOnce'
    <3>1. ASSUME NEW c \in Bindings, NEW p \in 1..Len(topic)
          PROVE  answers'[<<c, p>>] <= 1 /\ (answers'[<<c, p>>] > 0 => Approved(p))
      <4>1. CASE c = b /\ p = o
        BY <1>7, <2>3, <4>1
      <4>2. CASE ~(c = b /\ p = o)
        BY <2>1, <2>3, <4>2 DEF AnsweredOnce, Approved
      <4>3. QED
        BY <4>1, <4>2
    <3>2. \A p \in removals : records[p] = "rejected"
      BY <2>1 DEF AnsweredOnce
    <3>3. QED
      BY <1>3, <3>1, <3>2 DEF AnsweredOnce, Approved
  <2>5. \A v \in Workers, c \in Bindings, p \in 1..Len(topic) :
           Owes(worker'[v], c, p) => Owes(worker[v], c, p) /\ ~(c = b /\ p = o)
    <3>1. ASSUME NEW v \in Workers, v # w, NEW c, NEW p, Owes(worker[v], c, p), c = b, p = o
          PROVE  FALSE
      <4>1. Talks(worker[v]) /\ p \in worker[v].batch
        <5>1. Holds(worker[v])
          BY <1>1
        <5>2. QED
          BY <3>1, <5>1 DEF Owes, Talks, Holds
      <4>2. o \in worker[w].batch
        BY <1>5, <1>6
      <4>3. QED
        BY <1>1, <1>2, <3>1, <4>1, <4>2 DEF AnswersInv
    <3>2. QED
      BY <1>9, <1>10, <3>1
  <2>6. \A v \in Workers, c \in Bindings, p \in 1..Len(topic) :
           Owes(worker[v], c, p)' => answers'[<<c, p>>] = 0
    <3>1. \A v, c, p : Owes(worker[v], c, p)' <=> Owes(worker'[v], c, p)
      BY DEF Owes
    <3>2. QED
      BY <2>1, <2>3, <2>5, <3>1
  <2>7. \A u, v \in Workers : u # v /\ Talks(worker[u])' /\ Talks(worker[v])'
           => worker'[u].batch \cap worker'[v].batch = {}
    <3>1. \A u, v \in Workers :
             u # v /\ Talks(worker[u]) /\ Talks(worker[v]) => worker[u].batch \cap worker[v].batch = {}
      BY <1>1 DEF AnswersInv
    <3>2. \A v \in Workers : worker'[v].batch = worker[v].batch /\ (Talks(worker[v])' => Talks(worker[v]))
      BY <1>2, <1>9, <1>10 DEF Talks
    <3>3. QED
      BY <3>1, <3>2
  <2>8. removals' \subseteq DOMAIN records'
    BY <1>1, <1>3 DEF AnswersInv
  <2>9. QED
    BY <1>3, <2>3, <2>4, <2>6, <2>7, <2>8 DEF AnswersInv
<1>14. QED
  BY <1>4, <1>11, <1>12, <1>13 DEF PipelineInv

\* A batch is moderated: none of its rows has had a record, so nothing about it has been
\* answered, and no other worker that talks has one of them.
LEMMA ModerationKeeps ==
    ASSUME PipelineInv, NEW w \in Workers, _save_moderation(w)
    PROVE  PipelineInv'
<1> DEFINE batch == worker[w].batch
<1>1. /\ InboxInv /\ IndexInv /\ AnswersInv /\ worker = [v \in Workers |-> worker[v]]
      /\ \A v \in Workers : Holds(worker[v])
  BY DEF PipelineInv, WorkersInv
<1>2. UNCHANGED <<topic, produced, committed, bindings, reader, answers, points, chunks>>
  BY DEF _save_moderation, kafkaVars, apiVars
<1>3. worker[w].pc = "moderate" /\ ~Talks(worker[w])
  BY DEF _save_moderation, At, Talks
<1>4. CASE worker' = [worker EXCEPT ![w] = Sleeping] /\ UNCHANGED <<inbox, records, removals>>
  <2>1. InboxInv'
    BY <1>1, <1>2, <1>4, InboxStays
  <2>2. QED
    BY <1>2, <1>4, <2>1, WorkerRests
<1>5. CASE batch \cap DOMAIN records = {} /\ Moderated(w)
  <2>1. PICK decision \in [IdsOf(batch) -> Decisions] :
          LET said(o) == decision[Rec(o).id]
              approved == {o \in batch : said(o) = "approved"}
          IN  /\ records' = [o \in DOMAIN records \cup batch |->
                    IF o \in batch THEN StatusOf(said(o)) ELSE records[o]]
              /\ inbox' = [o \in DOMAIN inbox |->
                    IF o \in batch THEN Row(StatusOf(said(o)), FALSE) ELSE inbox[o]]
              /\ removals' = removals \cup {o \in batch : said(o) = "removal"}
              /\ worker' = [worker EXCEPT ![w] =
                    IF approved = {} THEN NextRoom(w)
                    ELSE [Conversing(w, worker[w].bound) EXCEPT !.batch = approved]]
    BY <1>5 DEF Moderated, Becomes
  <2> DEFINE said(o) == decision[Rec(o).id]
             approved == {o \in batch : said(o) = "approved"}
  <2>2. \A o \in batch : /\ said(o) \in {"approved", "rejected", "removal", "needs_review"}
                         /\ StatusOf(said(o)) # "chunked"
                         /\ StatusOf(said(o)) = "approved" <=> said(o) = "approved"
                         /\ said(o) = "removal" => StatusOf(said(o)) = "rejected"
    <3>1. ASSUME NEW o \in batch PROVE said(o) \in Decisions
      <4>1. Rec(o).id \in IdsOf(batch)
        BY DEF IdsOf
      <4>2. QED
        BY <2>1, <4>1
    <3>2. \A d \in {"approved", "rejected", "removal", "needs_review"} :
             /\ StatusOf(d) # "chunked" /\ (StatusOf(d) = "approved" <=> d = "approved")
             /\ d = "removal" => StatusOf(d) = "rejected"
      BY DEF StatusOf
    <3>3. QED
      BY <3>1, <3>2, PipelineAssumption
  <2>3. /\ records' = [o \in DOMAIN records \cup batch |->
              IF o \in batch THEN StatusOf(said(o)) ELSE records[o]]
        /\ inbox' = [o \in DOMAIN inbox |->
              IF o \in batch THEN Row(StatusOf(said(o)), FALSE) ELSE inbox[o]]
        /\ removals' = removals \cup {o \in batch : said(o) = "removal"}
    BY <2>1
  <2>4. \/ worker' = [worker EXCEPT ![w] = NextRoom(w)]
        \/ worker' = [worker EXCEPT ![w] = [Conversing(w, worker[w].bound) EXCEPT !.batch = approved]]
    BY <2>1
  <2> HIDE DEF said
  <2>5. /\ \A o : Approved(o) => Approved(o)'
        /\ \A o \in approved : Approved(o)' /\ o \notin DOMAIN records
        /\ \A o \in batch : StatusOf(said(o)) \in {"approved", "chunked"} => Approved(o)'
    BY <1>5, <2>2, <2>3 DEF Approved
  <2>6. InboxInv'
    <3>1. DOMAIN inbox' = DOMAIN inbox
      BY <2>3
    <3>2. \A o \in DOMAIN inbox : \/ inbox'[o] = inbox[o]
                                  \/ \E s, d : /\ inbox'[o] = Row(s, d)
                                               /\ s \in {"approved", "chunked"} => Approved(o)'
      BY <2>3, <2>5
    <3>3. QED
      BY <1>1, <1>2, <2>5, <3>1, <3>2, RowsRewritten
  <2>7. IndexInv'
    <3>1. ASSUME NEW c, Backed(c) PROVE Backed(c)'
      BY <1>2, <2>5, <3>1 DEF Backed, Approved, Rec
    <3>2. QED
      BY <1>1, <1>2, <3>1 DEF IndexInv
  <2>8. PICK q : /\ worker' = [worker EXCEPT ![w] = q] /\ Holds(q)'
                 /\ Talks(q) => q.batch \cap DOMAIN records = {}
                 /\ \A b, o : Owes(q, b, o) => o \notin DOMAIN records
    <3>1. CASE worker' = [worker EXCEPT ![w] = NextRoom(w)]
      <4>1. PICK q : q = NextRoom(w)
        OBVIOUS
      <4>2. \E rooms, retry : q = Visiting(rooms, retry)
        BY <4>1 DEF NextRoom
      <4>3. QED
        BY <3>1, <4>1, <4>2, Resting
    <3>2. CASE worker' = [worker EXCEPT ![w] =
                             [Conversing(w, worker[w].bound) EXCEPT !.batch = approved]]
      <4>1. PICK q : q = [Conversing(w, worker[w].bound) EXCEPT !.batch = approved]
        OBVIOUS
      <4>2. Holds(worker[w])
        BY <1>1
      <4>3. q = [pc |-> IF worker[w].bound = {} THEN "chunk" ELSE "converse",
                 retry |-> worker[w].retry, rooms |-> worker[w].rooms, batch |-> approved,
                 bound |-> worker[w].bound, asks |-> worker[w].bound, left |-> {},
                 filing |-> worker[w].filing, hand |-> worker[w].hand]
        BY <4>1, <4>2 DEF Conversing, Holds
      <4>4. approved \subseteq batch
        OBVIOUS
      <4> HIDE DEF approved
      <4>5. PICK p : p = [worker[w] EXCEPT !.pc = "moderate"] /\ Holds(p)'
        <5>1. worker[w] = [worker[w] EXCEPT !.pc = "moderate"]
          BY <1>3, <4>2 DEF Holds
        <5>2. PICK p : p = worker[w]
          OBVIOUS
        <5>3. Holds(p)'
          BY <1>2, <2>5, <4>2, <5>2, StillHolds
        <5>4. QED
          BY <5>1, <5>2, <5>3
      <4>6. /\ p.batch = batch /\ p.bound = worker[w].bound /\ p.asks = worker[w].asks
            /\ p.filing = worker[w].filing /\ p.hand = worker[w].hand
        BY <4>2, <4>5 DEF Holds
      <4>7. Holds(q)'
        BY <2>5, <4>3, <4>4, <4>5, <4>6 DEF Holds
      <4>8. Talks(q) => q.batch \cap DOMAIN records = {}
        BY <2>5, <4>3
      <4>9. \A b, o : Owes(q, b, o) => o \notin DOMAIN records
        BY <2>5, <4>3 DEF Owes
      <4>10. QED
        BY <3>2, <4>1, <4>7, <4>8, <4>9
    <3>3. QED
      BY <2>4, <3>1, <3>2
  <2>9. \A v \in Workers : worker'[v] = IF v = w THEN q ELSE worker[v]
    BY <1>1, <2>8
  <2>10. WorkersInv'
    <3>1. ASSUME NEW v \in Workers PROVE Holds(worker[v])'
      <4>1. PICK p : p = worker'[v]
        OBVIOUS
      <4>2. Holds(p)'
        BY <1>1, <1>2, <2>5, <2>8, <2>9, <4>1, StillHolds
      <4>3. QED
        BY <4>1, <4>2 DEF Holds
    <3>2. worker' = [v \in Workers |-> worker'[v]]
      BY <1>1, <2>8
    <3>3. QED
      BY <3>1, <3>2 DEF WorkersInv
  <2>11. AnswersInv'
    <3>1. /\ answers \in [Bindings \X (1..Len(topic)) -> Nat] /\ AnsweredOnce
          /\ removals \subseteq DOMAIN records
          /\ \A v \in Workers, b \in Bindings, o \in 1..Len(topic) :
                Owes(worker[v], b, o) => answers[<<b, o>>] = 0
          /\ \A u, v \in Workers :
                u # v /\ Talks(worker[u]) /\ Talks(worker[v]) => worker[u].batch \cap worker[v].batch = {}
      BY <1>1 DEF AnswersInv
    <3>2. \A b \in Bindings, o \in 1..Len(topic) :
             answers[<<b, o>>] <= 1 /\ (answers[<<b, o>>] > 0 => Approved(o))
      BY <3>1 DEF AnsweredOnce, Approved
    <3>3. \A b \in Bindings, o \in 1..Len(topic) : o \notin DOMAIN records => answers[<<b, o>>] = 0
      BY <3>1, <3>2 DEF Approved
    <3>4. removals' \subseteq DOMAIN records' /\ \A o \in removals' : records'[o] = "rejected"
      <4>1. \A o \in removals : o \in DOMAIN records /\ records[o] = "rejected" /\ o \notin batch
        BY <1>5, <3>1 DEF AnsweredOnce
      <4>2. QED
        BY <2>2, <2>3, <4>1
    <3>5. AnsweredOnce'
      BY <1>2, <2>5, <3>2, <3>4 DEF AnsweredOnce, Approved
    <3>6. \A v \in Workers, b \in Bindings, o \in 1..Len(topic) :
             Owes(worker[v], b, o)' => answers[<<b, o>>] = 0
      <4>1. \A v, b, o : Owes(worker[v], b, o)' <=> Owes(worker'[v], b, o)
        BY DEF Owes
      <4>2. QED
        BY <2>8, <2>9, <3>1, <3>3, <4>1
    <3>7. \A u, v \in Workers : u # v /\ Talks(worker[u])' /\ Talks(worker[v])'
             => worker'[u].batch \cap worker'[v].batch = {}
      <4>1. \A v : Talks(worker[v])' <=> Talks(worker'[v])
        BY DEF Talks
      <4>2. \A v \in Workers : Talks(worker[v]) => worker[v].batch \subseteq DOMAIN records
        BY <1>1 DEF Talks, Holds, Approved
      <4>3. QED
        BY <2>8, <2>9, <3>1, <4>1, <4>2
    <3>8. QED
      BY <1>2, <3>1, <3>4, <3>5, <3>6, <3>7 DEF AnswersInv
  <2>12. QED
    BY <2>6, <2>7, <2>10, <2>11 DEF PipelineInv
<1>6. QED
  BY <1>4, <1>5 DEF _save_moderation, Becomes

\* The chunk agent names messages of the batch, or there is nothing to file.
LEMMA ChunksChosen ==
    ASSUME PipelineInv, NEW w \in Workers, ChunkAgent(w)
    PROVE  PipelineInv'
<1>1. InboxInv /\ Holds(worker[w]) /\ worker[w].pc = "chunk"
  BY DEF PipelineInv, WorkersInv, ChunkAgent, At
<1>2. UNCHANGED <<topic, produced, committed, bindings, reader, inbox, records, removals, answers, points, chunks>>
  BY DEF ChunkAgent, kafkaVars, apiVars, tableVars
<1>3. InboxInv'
  BY <1>1, <1>2, InboxStays
<1>4. PICK filing, pc :
         /\ pc \in {"mark", "upsert"}
         /\ worker' = [worker EXCEPT ![w] = [worker[w] EXCEPT !.pc = pc, !.filing = filing]]
         /\ \A c \in filing : Backed(c)
  <2>1. CASE Goes(w, "mark")
    <3>1. [worker[w] EXCEPT !.pc = "mark"]
            = [worker[w] EXCEPT !.pc = "mark", !.filing = worker[w].filing]
      BY <1>1 DEF Holds
    <3>2. \A c \in worker[w].filing : Backed(c)
      BY <1>1 DEF Holds
    <3>3. QED
      BY <2>1, <3>1, <3>2 DEF Goes, Becomes
  <2>2. ASSUME NEW rag \in SUBSET worker[w].bound, NEW said \in SUBSET (SUBSET IdsOf(worker[w].batch)),
               Becomes(w, [worker[w] EXCEPT !.pc = "upsert", !.filing = rag \X said])
        PROVE  \E filing, pc :
                  /\ pc \in {"mark", "upsert"}
                  /\ worker' = [worker EXCEPT ![w] = [worker[w] EXCEPT !.pc = pc, !.filing = filing]]
                  /\ \A c \in filing : Backed(c)
    <3>1. ASSUME NEW c \in rag \X said PROVE Backed(c)
      <4>1. c[1] \in worker[w].bound /\ c[2] \subseteq IdsOf(worker[w].batch)
        BY <2>2
      <4>2. ASSUME NEW id \in c[2]
            PROVE  \E o \in DOMAIN records :
                      Rec(o).id = id /\ Rec(o).room = RoomOf[c[1]] /\ records[o] = "approved"
        <5>1. PICK o \in worker[w].batch : Rec(o).id = id
          BY <4>1, <4>2 DEF IdsOf
        <5>2. Approved(o) /\ Rec(o).room = RoomOf[c[1]]
          BY <1>1, <4>1, <5>1 DEF Holds
        <5>3. QED
          BY <5>1, <5>2 DEF Approved
      <4>3. QED
        BY <4>2 DEF Backed
    <3>2. QED
      BY <2>2, <3>1 DEF Becomes
  <2>3. \/ Goes(w, "mark")
        \/ \E rag \in SUBSET worker[w].bound, said \in SUBSET (SUBSET IdsOf(worker[w].batch)) :
              Becomes(w, [worker[w] EXCEPT !.pc = "upsert", !.filing = rag \X said])
    BY DEF ChunkAgent
  <2>4. QED
    BY <2>1, <2>2, <2>3
<1>5. PICK q : q = [worker[w] EXCEPT !.pc = pc, !.filing = filing]
  OBVIOUS
<1>6. q = [pc |-> pc, retry |-> worker[w].retry, rooms |-> worker[w].rooms,
           batch |-> worker[w].batch, bound |-> worker[w].bound, asks |-> worker[w].asks,
           left |-> worker[w].left, filing |-> filing, hand |-> worker[w].hand]
  BY <1>1, <1>5 DEF Holds
<1>7. Holds(q)
  BY <1>1, <1>4, <1>6 DEF Holds
<1>8. ~Talks(q) /\ \A b, o : ~Owes(q, b, o)
  BY <1>4, <1>6 DEF Talks, Owes
<1>9. QED
  BY <1>2, <1>3, <1>4, <1>5, <1>7, <1>8, Advances

\* A point is written, then the row of its chunk.
LEMMA ChunkFiled ==
    ASSUME PipelineInv, NEW w \in Workers, upsert_chunk(w) \/ AddChunk(w)
    PROVE  PipelineInv'
<1>1. InboxInv /\ IndexInv /\ Holds(worker[w])
  BY DEF PipelineInv, WorkersInv
<1>2. UNCHANGED <<topic, produced, committed, bindings, reader, records, removals, answers>>
  BY DEF upsert_chunk, AddChunk, kafkaVars, apiVars
<1>3. ASSUME UNCHANGED inbox, NEW q, worker' = [worker EXCEPT ![w] = q], Holds(q)',
             q.pc \in {"upsert", "file", "mark"}, points \subseteq points',
             \A c \in points' : Backed(c), chunks' \subseteq points'
      PROVE  PipelineInv'
  <2>1. ~Talks(q) /\ \A b, o : ~Owes(q, b, o)
    BY <1>3 DEF Talks, Owes
  <2>2. InboxInv'
    BY <1>1, <1>2, <1>3, InboxStays
  <2>3. QED
    BY <1>2, <1>3, <2>1, <2>2, WorkerMoves
<1>4. CASE upsert_chunk(w)
  <2>1. PICK c \in worker[w].filing :
          /\ points' = points \cup {c}
          /\ worker' = [worker EXCEPT ![w] = [worker[w] EXCEPT !.pc = "file", !.hand = {c}]]
    BY <1>4 DEF upsert_chunk, Becomes
  <2>2. UNCHANGED <<inbox, chunks>> /\ worker[w].pc = "upsert"
    BY <1>4 DEF upsert_chunk, At
  <2>3. PICK q : q = [worker[w] EXCEPT !.pc = "file", !.hand = {c}]
    OBVIOUS
  <2>4. PICK p : p = worker[w]
    OBVIOUS
  <2>5. Holds(p)'
    BY <1>1, <1>2, <2>1, <2>4, HoldsStays
  <2>6. q = [pc |-> "file", retry |-> p.retry, rooms |-> p.rooms, batch |-> p.batch,
             bound |-> p.bound, asks |-> p.asks, left |-> p.left, filing |-> p.filing, hand |-> {c}]
    BY <1>1, <2>3, <2>4 DEF Holds
  <2>7. Holds(q)'
    BY <2>1, <2>2, <2>4, <2>5, <2>6 DEF Holds
  <2>8. \A d \in points' : Backed(d)
    BY <1>1, <2>1 DEF IndexInv, Holds
  <2>9. points \subseteq points' /\ chunks' \subseteq points'
    BY <1>1, <2>1, <2>2 DEF IndexInv
  <2>10. q.pc \in {"upsert", "file", "mark"} /\ worker' = [worker EXCEPT ![w] = q]
    BY <2>1, <2>3, <2>6
  <2>11. QED
    BY <1>3, <2>2, <2>7, <2>8, <2>9, <2>10
<1>5. CASE AddChunk(w)
  <2>1. UNCHANGED points /\ worker[w].pc = "file"
    BY <1>5 DEF AddChunk, At
  <2>2. CASE ChunkingFailed(w) /\ UNCHANGED chunks
    BY <1>2, <2>1, <2>2, FailedChunkingKeeps
  <2>3. CASE ~(ChunkingFailed(w) /\ UNCHANGED chunks)
    <3> DEFINE left == worker[w].filing \ worker[w].hand
    <3>1. /\ chunks' = chunks \cup worker[w].hand /\ UNCHANGED inbox
          /\ worker' = [worker EXCEPT ![w] =
                [worker[w] EXCEPT !.pc = IF left = {} THEN "mark" ELSE "upsert", !.filing = left]]
      BY <1>5, <2>3 DEF AddChunk, Becomes
    <3>2. PICK pc \in {"mark", "upsert"} : pc = IF left = {} THEN "mark" ELSE "upsert"
      OBVIOUS
    <3>3. PICK q : q = [worker[w] EXCEPT !.pc = pc, !.filing = left]
      OBVIOUS
    <3>4. q = [pc |-> pc, retry |-> worker[w].retry, rooms |-> worker[w].rooms,
               batch |-> worker[w].batch, bound |-> worker[w].bound, asks |-> worker[w].asks,
               left |-> worker[w].left, filing |-> left, hand |-> worker[w].hand]
      BY <1>1, <3>3 DEF Holds
    <3>5. left \subseteq worker[w].filing
      OBVIOUS
    <3> HIDE DEF left
    <3>6. Holds(q)
      BY <1>1, <2>1, <3>4, <3>5 DEF Holds
    <3>7. Holds(q)'
      BY <1>2, <2>1, <3>6, HoldsStays
    <3>8. /\ points \subseteq points' /\ chunks' \subseteq points' /\ \A d \in points' : Backed(d)
      BY <1>1, <2>1, <3>1 DEF IndexInv, Holds
    <3>9. worker' = [worker EXCEPT ![w] = q] /\ q.pc \in {"upsert", "file", "mark"}
      BY <3>1, <3>2, <3>3, <3>4
    <3>10. QED
      BY <1>3, <3>1, <3>7, <3>8, <3>9
  <2>4. QED
    BY <2>2, <2>3
<1>6. QED
  BY <1>4, <1>5

\* The rows of the batch, which are approved, are chunked.
LEMMA BatchMarked ==
    ASSUME PipelineInv, NEW w \in Workers, _mark_chunked(w)
    PROVE  PipelineInv'
<1>1. InboxInv /\ Holds(worker[w]) /\ worker[w].pc = "mark"
  BY DEF PipelineInv, WorkersInv, _mark_chunked, At
<1>2. UNCHANGED <<topic, produced, committed, bindings, reader, records, removals, answers, points, chunks>>
  BY DEF _mark_chunked, kafkaVars, apiVars
<1>3. \A o : Approved(o) => Approved(o)'
  BY <1>2 DEF Approved
<1>4. \A o \in worker[w].batch : Approved(o)'
  BY <1>1, <1>3 DEF Holds
<1>5. DOMAIN inbox' = DOMAIN inbox /\ \A o \in DOMAIN inbox :
         \/ inbox'[o] = inbox[o]
         \/ o \in worker[w].batch /\ \E d : inbox'[o] = Row("chunked", d)
  BY DEF _mark_chunked
<1>6. \A o \in DOMAIN inbox : \/ inbox'[o] = inbox[o]
                              \/ \E s, d : /\ inbox'[o] = Row(s, d)
                                           /\ s \in {"approved", "chunked"} => Approved(o)'
  BY <1>4, <1>5
<1>7. InboxInv'
  BY <1>1, <1>2, <1>3, <1>5, <1>6, RowsRewritten
<1>8. PICK q : q = NextRoom(w)
  OBVIOUS
<1>9. worker' = [worker EXCEPT ![w] = q] /\ \E rooms, retry : q = Visiting(rooms, retry)
  BY <1>8 DEF _mark_chunked, Becomes, NextRoom
<1>10. QED
  BY <1>2, <1>7, <1>9, WorkerRests

\* A call fails: the iteration ends, or only the conversations or the chunking.
LEMMA FailuresKeep ==
    ASSUME PipelineInv, NEW w \in Workers, ChunkingFails(w) \/ DatabaseFails(w)
    PROVE  PipelineInv'
<1>1. InboxInv /\ Holds(worker[w])
  BY DEF PipelineInv, WorkersInv
<1>2. UNCHANGED <<topic, produced, committed, bindings, reader, records, removals, answers, points, chunks>>
  BY DEF ChunkingFails, DatabaseFails, kafkaVars, apiVars
<1>3. CASE ChunkingFailed(w)
  BY <1>2, <1>3, FailedChunkingKeeps
<1>4. CASE worker' = [worker EXCEPT ![w] = Sleeping] /\ UNCHANGED inbox
  <2>1. InboxInv'
    BY <1>1, <1>2, <1>4, InboxStays
  <2>2. QED
    BY <1>2, <1>4, <2>1, WorkerRests
<1>5. CASE At(w, "converse") /\ Becomes(w, Conversing(w, {})) /\ UNCHANGED inbox
  <2>1. InboxInv'
    BY <1>1, <1>2, <1>5, InboxStays
  <2>2. Talks(worker[w]) /\ {} \in SUBSET worker[w].asks
    BY <1>5 DEF At, Talks
  <2>3. PICK q : q = Conversing(w, {})
    OBVIOUS
  <2>4. Holds(q) /\ q.batch = worker[w].batch /\ \A b, o : ~Owes(q, b, o)
    BY <1>1, <2>2, <2>3, Converses
  <2>5. worker' = [worker EXCEPT ![w] = q]
    BY <1>5, <2>3 DEF Becomes
  <2>6. QED
    BY <1>2, <2>1, <2>2, <2>4, <2>5, Advances
<1>6. QED
  BY <1>3, <1>4, <1>5 DEF ChunkingFails, DatabaseFails, Becomes

----------------------------------------------------------------------------
(***************************************************************************)
(* The theorems.                                                           *)
(***************************************************************************)
LEMMA PipelineStepKeeps == PipelineInv /\ [Next]_vars => PipelineInv'
<1> SUFFICES ASSUME PipelineInv, [Next]_vars PROVE PipelineInv'
  OBVIOUS
<1>1. CASE UNCHANGED vars
  <2>1. UNCHANGED <<topic, produced, committed, bindings, reader, inbox, records, removals, answers,
                    points, chunks, worker>>
    BY <1>1 DEF vars, kafkaVars, apiVars, tableVars
  <2>2. InboxInv'
    BY <2>1, InboxStays DEF PipelineInv
  <2>3. QED
    BY <2>1, <2>2, OnlyInboxMoves
<1>2. CASE Next
  BY <1>2, OthersKeep, ProcessKeeps, ConsumerKeeps, IterationBegins, BatchTaken, ModerationKeeps,
     ConfigLoaded, AnswerGiven, ChunksChosen, ChunkFiled, BatchMarked, FailuresKeep
     DEF Next, PipelineStep
<1>3. QED
  BY <1>1, <1>2

\* The inbox, the records, the index and what every worker holds agree in every state.
THEOREM Invariance == Spec => []PipelineInv
BY PipelineInit, PipelineStepKeeps, PTL DEF Spec

\* However slow workers are overtaken by requeued batches, and wherever a process stops:
\* a row is answered at most once for a binding, and only when it was approved; only
\* what was rejected has a removal request.
THEOREM NoSecondAnswer == Spec => []AnsweredOnce
<1>1. PipelineInv => AnsweredOnce
  BY DEF PipelineInv, AnswersInv
<1>2. QED
  BY <1>1, Invariance, PTL

\* Every point and every chunk consists of approved messages of the binding's room, a
\* chunk has its point, and a row that is chunked was approved.
THEOREM OnlyApprovedIndexed == Spec => []IndexedIsApproved
<1>1. PipelineInv => IndexedIsApproved
  BY DEF PipelineInv, IndexInv, InboxInv, SoundRow, Approved, Backed, IndexedIsApproved
<1>2. QED
  BY <1>1, Invariance, PTL
=============================================================================
