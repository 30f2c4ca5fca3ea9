---------------------------- MODULE IngestProofs ---------------------------
(***************************************************************************)
(* The archiver keeps its store, its index, its cache and its offset       *)
(* consistent, for any batch size, any number of flush tasks in flight,    *)
(* crashes and resends, with either message store.  What the nodes show    *)
(* and what the archiver reads agree, for any number of senders, nodes,    *)
(* messages and faults.                                                    *)
(***************************************************************************)
EXTENDS Ingest, FiniteSetTheorems, SequenceTheorems, TLAPS

TaskSet == [pc : {"save", "index", "push", "offset"},
            batch : Seq(MessageSet), offset : 1..MaxLog]

\* The partition is bounded, so that every offset is.
LogBounded == Len(log) <= MaxLog

\* The loop has read what it collects, and a stopped process holds nothing.
Collected ==
    /\ \A i \in 1..Len(msgBatch) : msgBatch[i].offset <= lastOffset
    /\ lastOffset < pos
    /\ ~up => msgBatch = <<>> /\ lastOffset = 0 /\ tasks = {}

\* The offset of a task lies behind all that the loop is still collecting.
TasksBehind ==
    \A t \in tasks :
        /\ t.offset <= lastOffset
        /\ \A i \in 1..Len(msgBatch) : t.offset < msgBatch[i].offset

\* A task that is past its first step has stored its batch, or found it stored.
SavedFirst ==
    \A t \in tasks : t.pc # "save" => ids(ToSet(t.batch)) \subseteq ids(store)

IInv ==
    /\ TypeOK /\ LogBounded /\ Collected /\ TasksBehind /\ SavedFirst
    /\ ShownIsStored /\ StoredOnce

----------------------------------------------------------------------------
(***************************************************************************)
(* The operators on batches and on the store.                              *)
(***************************************************************************)
\* The messages of a batch are finitely many messages.
LEMMA BatchSet ==
    ASSUME NEW b \in Seq(MessageSet)
    PROVE  /\ ToSet(b) \in SUBSET MessageSet
           /\ IsFiniteSet(ToSet(b))
           /\ ToSet(b) = {b[i] : i \in 1..Len(b)}
<1>1. DOMAIN b = 1..Len(b) /\ Len(b) \in Nat /\ \A i \in 1..Len(b) : b[i] \in MessageSet
  OBVIOUS
<1>2. ToSet(b) = {b[i] : i \in 1..Len(b)}
  BY <1>1 DEF ToSet
<1>3. IsFiniteSet(ToSet(b))
  <2>1. b \in Surjection(1..Len(b), ToSet(b))
    BY <1>1, <1>2 DEF Surjection
  <2>2. IsFiniteSet(1..Len(b))
    BY <1>1, FS_Interval
  <2>3. QED
    BY <2>1, <2>2, FS_Surjection
<1>4. QED
  BY <1>1, <1>2, <1>3

\* ids distributes over unions, and grows with its set.
LEMMA IdsUnion ==
    \A S, T : /\ ids(S \cup T) = ids(S) \cup ids(T)
              /\ S \subseteq T => ids(S) \subseteq ids(T)
BY DEF ids

\* As many messages as ClientMsgIDs: no two of them share a ClientMsgID.
LEMMA OneEach ==
    ASSUME NEW W, IsFiniteSet(W), Cardinality(W) = Cardinality(ids(W)),
           NEW m \in W, NEW n \in W, m.cid = n.cid
    PROVE  m = n
<1> DEFINE f == [x \in W |-> x.cid]
<1>1. f \in Surjection(W, ids(W))
  BY DEF Surjection, ids
<1>2. f[m] = m.cid /\ f[n] = n.cid
  OBVIOUS
<1> HIDE DEF f
<1>3. f \in Injection(W, ids(W))
  BY <1>1, FS_SurjSameCardinalityImpliesInj
<1>4. QED
  BY <1>2, <1>3 DEF Injection, IsInjective

\* A batch with as many ClientMsgIDs as messages names none twice.
LEMMA NoneTwice ==
    ASSUME NEW b \in Seq(MessageSet), ~(Cardinality(ids(ToSet(b))) < Len(b)),
           NEW m \in ToSet(b), NEW n \in ToSet(b), m.cid = n.cid
    PROVE  m = n
<1> DEFINE f == [i \in 1..Len(b) |-> b[i].cid]
<1>1. Len(b) \in Nat /\ ToSet(b) = {b[i] : i \in 1..Len(b)}
  BY BatchSet
<1>2. ids(ToSet(b)) = {b[i].cid : i \in 1..Len(b)}
  BY <1>1 DEF ids
<1>3. f \in Surjection(1..Len(b), ids(ToSet(b)))
  BY <1>2 DEF Surjection
<1>4. PICK i \in 1..Len(b), j \in 1..Len(b) : m = b[i] /\ n = b[j]
  BY <1>1
<1>5. f[i] = f[j]
  BY <1>4
<1> HIDE DEF f
<1>6. IsFiniteSet(1..Len(b)) /\ Cardinality(1..Len(b)) = Len(b)
  <2>1. /\ IsFiniteSet(1..Len(b))
        /\ Cardinality(1..Len(b)) = IF 1 > Len(b) THEN 0 ELSE Len(b) - 1 + 1
    BY <1>1, FS_Interval
  <2>2. QED
    BY <1>1, <2>1
<1>7. /\ IsFiniteSet(ids(ToSet(b)))
      /\ Cardinality(ids(ToSet(b))) <= Len(b)
      /\ Cardinality(ids(ToSet(b))) = Len(b) <=> f \in Injection(1..Len(b), ids(ToSet(b)))
  BY <1>3, <1>6, FS_Surjection
<1>8. Cardinality(ids(ToSet(b))) \in Nat
  BY <1>7, FS_CardinalityType
<1>9. f \in Injection(1..Len(b), ids(ToSet(b)))
  BY <1>1, <1>7, <1>8
<1>10. i = j
  BY <1>5, <1>9 DEF Injection, IsInjective
<1>11. QED
  BY <1>4, <1>10

\* Adding messages with new ClientMsgIDs, one each, keeps the ClientMsgIDs unique.
LEMMA AddNew ==
    ASSUME StoredOnce, NEW W, ids(W) \cap ids(store) = {},
           \A m, n \in W : m.cid = n.cid => m = n, store' = store \cup W
    PROVE  StoredOnce'
<1>1. \A m \in W, n \in store : m.cid # n.cid
  BY DEF ids
<1>2. QED
  BY <1>1 DEF StoredOnce

\* What the MongoDB bulk inserts: messages of the batch, new ones, one for each
\* ClientMsgID.
LEMMA MongoInserts ==
    ASSUME NEW S, IsFiniteSet(S), NEW W \in mongoInserts(S)
    PROVE  /\ W \subseteq S
           /\ ids(W) = ids(S) \ ids(store)
           /\ \A m, n \in W : m.cid = n.cid => m = n
<1>1. W \subseteq S /\ ids(W) = ids(S) \ ids(store) /\ Cardinality(W) = Cardinality(ids(W))
  BY DEF mongoInserts
<1>2. IsFiniteSet(W)
  BY <1>1, FS_Subset
<1>3. QED
  BY <1>1, <1>2, OneEach

----------------------------------------------------------------------------
(***************************************************************************)
(* The loop.                                                               *)
(***************************************************************************)
\* An empty partition and an empty store.
LEMMA InitInvariant == Init => IInv
<1> SUFFICES ASSUME Init PROVE IInv
  OBVIOUS
<1> USE ArchiverAssumption
<1>1. TypeOK
  BY DEF Init, TypeOK
<1>2. LogBounded /\ Collected /\ TasksBehind /\ SavedFirst /\ StoredOnce
  BY DEF Init, LogBounded, Collected, TasksBehind, SavedFirst, StoredOnce
<1>3. ids({}) = {} /\ ToSet(<<>>) = {}
  BY DEF ids, ToSet
<1>4. ShownIsStored
  BY <1>3 DEF Init, ShownIsStored
<1>5. QED
  BY <1>1, <1>2, <1>4 DEF IInv

\* A step that leaves the tasks and the stores alone keeps what is said of them.
LEMMA StoresKept ==
    ASSUME IInv, UNCHANGED <<tasks, store, index, latest>>
    PROVE  SavedFirst' /\ ShownIsStored' /\ StoredOnce'
BY DEF IInv, SavedFirst, ShownIsStored, StoredOnce

\* The producer only adds to the partition.
LEMMA ProduceKeeps ==
    ASSUME IInv, NEW v \in ClientMsgIDs \cup {Garbage}, Produce(v)
    PROVE  IInv'
<1> USE ArchiverAssumption
<1>1. TypeOK /\ LogBounded /\ Collected /\ TasksBehind
  BY DEF IInv
<1>2. log' = Append(log, v) /\ Len(log) < MaxLog /\ log \in Seq(ClientMsgIDs \cup {Garbage})
  BY <1>1 DEF Produce, TypeOK
<1>3. log' \in Seq(ClientMsgIDs \cup {Garbage}) /\ Len(log') = Len(log) + 1 /\ Len(log) \in Nat
  BY <1>2
<1>4. UNCHANGED <<storeKind, pos, msgBatch, lastOffset, tasks, up, lastID, store, index,
                  latest, offset, crashes>>
  BY DEF Produce, memory, stored
<1>5. TypeOK' /\ LogBounded'
  BY <1>1, <1>2, <1>3, <1>4 DEF TypeOK, LogBounded
<1>6. Collected' /\ TasksBehind'
  BY <1>1, <1>4 DEF Collected, TasksBehind
<1>7. QED
  BY <1>4, <1>5, <1>6, StoresKept DEF IInv

\* A restarted worker has nothing collected, wherever it resumes.
LEMMA NewWorkerKeeps ==
    ASSUME IInv, NewWorker
    PROVE  IInv'
<1> USE ArchiverAssumption
<1>1. TypeOK /\ LogBounded /\ Collected /\ TasksBehind
  BY DEF IInv
<1>2. /\ UNCHANGED <<storeKind, log, msgBatch, lastOffset, tasks, lastID, store, index,
                     latest, offset, crashes>>
      /\ ~up /\ up' = TRUE /\ pos' \in {offset + 1, 1}
  BY DEF NewWorker, stored
<1>3. offset \in 0..MaxLog /\ MaxLog \in Nat
  BY <1>1 DEF TypeOK
<1>4. pos' \in 1..(MaxLog + 1)
  BY <1>2, <1>3
<1>5. TypeOK' /\ LogBounded'
  BY <1>1, <1>2, <1>4 DEF TypeOK, LogBounded
<1>6. msgBatch = <<>> /\ lastOffset = 0 /\ tasks = {}
  BY <1>1, <1>2 DEF Collected
<1>7. Collected' /\ TasksBehind'
  BY <1>2, <1>4, <1>6 DEF Collected, TasksBehind
<1>8. QED
  BY <1>2, <1>5, <1>7, StoresKept DEF IInv

\* A crash forgets the loop and the tasks, and leaves the stores as they are.
LEMMA CrashKeeps ==
    ASSUME IInv, Crash
    PROVE  IInv'
<1> USE ArchiverAssumption
<1>1. TypeOK /\ LogBounded /\ ShownIsStored /\ StoredOnce
  BY DEF IInv
<1>2. /\ UNCHANGED <<storeKind, log, lastID, store, index, latest, offset>>
      /\ pos' = 1 /\ msgBatch' = <<>> /\ lastOffset' = 0 /\ tasks' = {}
      /\ up' = FALSE /\ crashes < MaxCrashes /\ crashes' = crashes + 1
  BY DEF Crash, stored
<1>3. TypeOK'
  <2>1. crashes' \in 0..MaxCrashes
    BY <1>1, <1>2 DEF TypeOK
  <2>2. pos' \in 1..(MaxLog + 1) /\ lastOffset' \in 0..MaxLog
    BY <1>2
  <2>3. msgBatch' \in Seq(MessageSet) /\ Len(msgBatch') < BatchSize
    BY <1>2
  <2>4. QED
    BY <1>1, <1>2, <2>1, <2>2, <2>3 DEF TypeOK
<1>4. LogBounded' /\ Collected' /\ TasksBehind' /\ SavedFirst'
  BY <1>1, <1>2 DEF LogBounded, Collected, TasksBehind, SavedFirst
<1>5. ShownIsStored' /\ StoredOnce'
  BY <1>1, <1>2 DEF ShownIsStored, StoredOnce
<1>6. QED
  BY <1>3, <1>4, <1>5 DEF IInv

\* flush hands over a batch whose messages the loop has read: the offset of the task
\* is the one reached, and the loop collects from there.
LEMMA FlushKeeps ==
    ASSUME IInv, NEW b \in Seq(MessageSet), NEW o \in 1..MaxLog, Flush(b, o),
           lastOffset <= o, o = lastOffset', lastOffset' < pos', up, up' = up,
           pos' \in 1..(MaxLog + 1), lastID' \in Nat,
           UNCHANGED <<storeKind, log, store, index, latest, offset, crashes>>
    PROVE  IInv'
<1> USE ArchiverAssumption
<1>1. TypeOK /\ LogBounded /\ Collected /\ TasksBehind /\ SavedFirst
      /\ ShownIsStored /\ StoredOnce
  BY DEF IInv
<1>2. tasks' = tasks \cup {Task("save", b, o)} /\ msgBatch' = <<>>
  BY DEF Flush
<1>3. /\ Task("save", b, o) \in TaskSet
      /\ Task("save", b, o).pc = "save" /\ Task("save", b, o).offset = o
  BY DEF Task, TaskSet
<1>4. TypeOK'
  <2>1. tasks' \in SUBSET TaskSet
    BY <1>1, <1>2, <1>3 DEF TypeOK, TaskSet
  <2>2. msgBatch' \in Seq(MessageSet) /\ Len(msgBatch') < BatchSize
    BY <1>2
  <2>3. lastOffset' \in 0..MaxLog
    OBVIOUS
  <2>4. QED
    BY <1>1, <2>1, <2>2, <2>3 DEF TypeOK, TaskSet
<1>5. Collected'
  BY <1>2 DEF Collected
<1>6. TasksBehind'
  <2>1. \A t \in tasks : t.offset <= o
    <3>1. \A t \in tasks : t.offset <= lastOffset /\ t.offset \in 1..MaxLog
      BY <1>1 DEF TasksBehind, TypeOK
    <3>2. lastOffset \in 0..MaxLog
      BY <1>1 DEF TypeOK
    <3>3. QED
      BY <3>1, <3>2
  <2>2. QED
    BY <1>2, <1>3, <2>1 DEF TasksBehind
<1>7. SavedFirst'
  BY <1>1, <1>2, <1>3 DEF SavedFirst
<1>8. LogBounded' /\ ShownIsStored' /\ StoredOnce'
  BY <1>1 DEF LogBounded, ShownIsStored, StoredOnce
<1>9. QED
  BY <1>4, <1>5, <1>6, <1>7, <1>8 DEF IInv

\* The ticker flushes what there is; a batch that is not empty has an offset.
LEMMA TickKeeps ==
    ASSUME IInv, Tick
    PROVE  IInv'
<1> USE ArchiverAssumption
<1>1. TypeOK /\ Collected
  BY DEF IInv
<1>2. /\ msgBatch \in Seq(MessageSet) /\ msgBatch # <<>> /\ lastOffset \in 0..MaxLog
      /\ pos \in 1..(MaxLog + 1) /\ lastID \in Nat
  BY <1>1 DEF TypeOK, Tick
<1>3. 1 \in 1..Len(msgBatch) /\ msgBatch[1] \in MessageSet
  BY <1>2
<1>4. msgBatch[1].offset \in 1..MaxLog /\ msgBatch[1].offset <= lastOffset
  BY <1>1, <1>3 DEF MessageSet, Collected
<1>5. lastOffset \in 1..MaxLog /\ lastOffset < pos /\ lastOffset <= lastOffset
  BY <1>1, <1>2, <1>4 DEF Collected
<1>6. /\ Flush(msgBatch, lastOffset) /\ up
      /\ UNCHANGED <<storeKind, log, pos, lastOffset, lastID, store, index, latest,
                     offset, up, crashes>>
  BY DEF Tick, stored
<1>7. QED
  BY <1>2, <1>5, <1>6, FlushKeeps

\* The loop reads on: what it adds to its batch lies behind no offset of a task.
LEMMA ReadKeeps ==
    ASSUME IInv, Read
    PROVE  IInv'
<1> USE ArchiverAssumption
<1>1. TypeOK /\ LogBounded /\ Collected /\ TasksBehind
  BY DEF IInv
<1>2. /\ up /\ pos' = pos + 1 /\ pos <= Len(log)
      /\ UNCHANGED <<storeKind, log, store, index, latest, offset, up, crashes>>
  BY DEF Read, stored
<1>3. /\ pos \in 1..MaxLog /\ pos \in 1..Len(log) /\ pos' \in 1..(MaxLog + 1)
      /\ lastID \in Nat /\ lastOffset \in 0..MaxLog /\ lastOffset < pos
      /\ msgBatch \in Seq(MessageSet) /\ Len(msgBatch) \in Nat /\ Len(msgBatch) < BatchSize
  <2>1. log \in Seq(ClientMsgIDs \cup {Garbage}) /\ Len(log) \in Nat
    BY <1>1 DEF TypeOK
  <2>2. QED
    BY <1>1, <1>2, <2>1 DEF TypeOK, LogBounded, Collected
<1>4. CASE UNCHANGED <<msgBatch, lastOffset, lastID, tasks>>
  <2>1. TypeOK' /\ LogBounded'
    BY <1>1, <1>2, <1>3, <1>4 DEF TypeOK, LogBounded
  <2>2. Collected' /\ TasksBehind'
    BY <1>1, <1>2, <1>3, <1>4 DEF Collected, TasksBehind
  <2>3. QED
    BY <1>2, <1>4, <2>1, <2>2, StoresKept DEF IInv
<1>5. CASE log[pos] # Garbage /\ lastID' = lastID + 1 /\ lastOffset' = pos
  <2> DEFINE x == Message(log[pos], lastID + 1, pos)
             b == Append(msgBatch, x)
  <2>1. x \in MessageSet /\ x.offset = pos
    <3>1. log[pos] \in ClientMsgIDs
      BY <1>1, <1>3, <1>5 DEF TypeOK
    <3>2. QED
      BY <1>3, <3>1 DEF Message, MessageSet
  <2>2. IF Len(b) >= BatchSize THEN Flush(b, pos)
        ELSE msgBatch' = b /\ UNCHANGED tasks
    BY <1>2, <1>5 DEF Read
  <2> HIDE DEF x
  <2>3. /\ b \in Seq(MessageSet) /\ Len(b) = Len(msgBatch) + 1
        /\ \A i \in 1..Len(msgBatch) : b[i] = msgBatch[i]
        /\ b[Len(msgBatch) + 1] = x
    BY <1>3, <2>1
  <2> HIDE DEF b
  <2>4. CASE Len(b) >= BatchSize
    <3>1. Flush(b, pos) /\ lastOffset <= pos /\ pos = lastOffset' /\ lastOffset' < pos'
          /\ lastID' \in Nat
      BY <1>2, <1>3, <1>5, <2>2, <2>4
    <3>2. QED
      BY <1>2, <1>3, <2>3, <3>1, FlushKeeps
  <2>5. CASE ~(Len(b) >= BatchSize)
    <3>1. msgBatch' = b /\ tasks' = tasks
      BY <2>2, <2>5
    <3>2. TypeOK' /\ LogBounded'
      <4>1. msgBatch' \in Seq(MessageSet) /\ Len(msgBatch') < BatchSize
        BY <1>3, <2>3, <2>5, <3>1
      <4>2. lastID' \in Nat /\ lastOffset' \in 0..MaxLog
        BY <1>3, <1>5
      <4>3. QED
        BY <1>1, <1>2, <1>3, <3>1, <4>1, <4>2 DEF TypeOK, LogBounded
    <3>3. \A i \in 1..Len(b) : \/ i \in 1..Len(msgBatch) /\ b[i] = msgBatch[i]
                               \/ b[i] = x
      BY <1>3, <2>3
    <3>4. \A i \in 1..Len(msgBatch) : /\ msgBatch[i].offset <= lastOffset
                                      /\ msgBatch[i].offset \in 1..MaxLog
      <4>1. \A i \in 1..Len(msgBatch) : msgBatch[i] \in MessageSet
        BY <1>3
      <4>2. QED
        BY <1>1, <4>1 DEF Collected, MessageSet
    <3>5. Collected'
      <4>1. \A i \in 1..Len(b) : b[i].offset <= pos
        BY <1>3, <2>1, <3>3, <3>4
      <4>2. lastOffset' < pos'
        BY <1>2, <1>3, <1>5
      <4>3. QED
        BY <1>2, <1>5, <3>1, <4>1, <4>2 DEF Collected
    <3>6. TasksBehind'
      <4>1. \A t \in tasks : t.offset \in 1..MaxLog
        BY <1>1 DEF TypeOK
      <4>2. \A t \in tasks : t.offset < pos
        BY <1>1, <1>3, <4>1 DEF TasksBehind
      <4>3. \A t \in tasks : \A i \in 1..Len(b) : t.offset < b[i].offset
        BY <1>1, <2>1, <3>3, <4>2 DEF TasksBehind
      <4>4. \A t \in tasks : t.offset <= pos
        BY <1>3, <4>1, <4>2
      <4>5. QED
        BY <1>5, <3>1, <4>3, <4>4 DEF TasksBehind
    <3>7. QED
      BY <1>2, <3>1, <3>2, <3>5, <3>6, StoresKept DEF IInv
  <2>6. QED
    BY <2>4, <2>5
<1>6. QED
  BY <1>4, <1>5 DEF Read

----------------------------------------------------------------------------
(***************************************************************************)
(* The tasks.                                                              *)
(***************************************************************************)
\* A task that goes on to its next step carries its batch and its offset along.
LEMMA AdvanceTask ==
    ASSUME IInv, NEW t \in tasks, NEW p \in {"index", "push", "offset"}, Advance(t, p)
    PROVE  /\ tasks' \in SUBSET TaskSet
           /\ \A u \in tasks' : \/ u \in tasks
                                \/ u.batch = t.batch /\ u.offset = t.offset /\ u.pc = p
<1>1. tasks \in SUBSET TaskSet
  BY DEF IInv, TypeOK, TaskSet
<1>2. t \in TaskSet
  BY <1>1
<1> DEFINE n == Task(p, t.batch, t.offset)
<1>3. n \in TaskSet /\ n.batch = t.batch /\ n.offset = t.offset /\ n.pc = p
  BY <1>2 DEF Task, TaskSet
<1>4. tasks' = (tasks \ {t}) \cup {n}
  BY DEF Advance
<1> HIDE DEF n
<1>5. QED
  BY <1>1, <1>3, <1>4

\* What a step of a task keeps of the loop's invariants, whatever it stores.
LEMMA TaskStepFrame ==
    ASSUME IInv, NEW t \in tasks, tasks' \in SUBSET TaskSet,
           \A u \in tasks' : u \in tasks \/ u.offset = t.offset,
           UNCHANGED <<storeKind, log, pos, msgBatch, lastOffset, lastID, up, crashes>>,
           store' \in SUBSET MessageSet, index' \in SUBSET MessageSet,
           latest' \in Seq(MessageSet), Len(latest') <= CacheMax, offset' \in 0..MaxLog
    PROVE  TypeOK' /\ LogBounded' /\ Collected' /\ TasksBehind'
<1>1. TypeOK /\ LogBounded /\ Collected /\ TasksBehind
  BY DEF IInv
<1>2. TypeOK'
  BY <1>1 DEF TypeOK, TaskSet
<1>3. LogBounded' /\ TasksBehind'
  BY <1>1 DEF LogBounded, TasksBehind
<1>4. up
  BY <1>1 DEF Collected
<1>5. Collected'
  BY <1>1, <1>4 DEF Collected
<1>6. QED
  BY <1>2, <1>3, <1>5

\* What the store gained, it gained for good.
LEMMA StoreGrows ==
    ASSUME IInv, NEW W, store' = store \cup W
    PROVE  /\ \A T : ids(T) \subseteq ids(store) => ids(T) \subseteq ids(store')
           /\ index' = index /\ latest' = latest => ShownIsStored'
<1>1. ids(store') = ids(store) \cup ids(W)
  BY IdsUnion
<1>2. ShownIsStored
  BY DEF IInv
<1>3. QED
  BY <1>1, <1>2 DEF ShownIsStored

\* What is known of a batch, of the types of the stores and of the batch's messages.
LEMMA TaskTypes ==
    ASSUME IInv, NEW t \in tasks
    PROVE  /\ t \in TaskSet /\ t.batch \in Seq(MessageSet) /\ t.offset \in 1..MaxLog
           /\ ToSet(t.batch) \in SUBSET MessageSet /\ IsFiniteSet(ToSet(t.batch))
           /\ store \in SUBSET MessageSet /\ index \in SUBSET MessageSet
           /\ latest \in Seq(MessageSet) /\ Len(latest) <= CacheMax /\ offset \in 0..MaxLog
<1>1. TypeOK
  BY DEF IInv
<1>2. t \in TaskSet
  BY <1>1 DEF TypeOK, TaskSet
<1>3. t.batch \in Seq(MessageSet) /\ t.offset \in 1..MaxLog
  BY <1>2 DEF TaskSet
<1>4. QED
  BY <1>1, <1>2, <1>3, BatchSet DEF TypeOK

\* The batch is stored: MySQL takes it as a whole when it names no ClientMsgID twice
\* and none that is stored, MongoDB one message for each new ClientMsgID.
LEMMA SaveKeeps ==
    ASSUME IInv, NEW t \in tasks, SaveMessageBatch(t)
    PROVE  IInv'
<1>1. SavedFirst /\ ShownIsStored /\ StoredOnce
  BY DEF IInv
<1>2. /\ Advance(t, "index")
      /\ UNCHANGED <<storeKind, log, pos, msgBatch, lastOffset, lastID, index, latest,
                     offset, up, crashes>>
  BY DEF SaveMessageBatch
<1>3. /\ tasks' \in SUBSET TaskSet
      /\ \A u \in tasks' : u \in tasks \/ (u.batch = t.batch /\ u.offset = t.offset)
  BY <1>2, AdvanceTask
<1>4. PICK W : /\ store' = store \cup W /\ W \subseteq ToSet(t.batch)
               /\ ids(W) \cap ids(store) = {}
               /\ \A m, n \in W : m.cid = n.cid => m = n
               /\ ids(ToSet(t.batch)) \subseteq ids(store) \cup ids(W)
  <2>1. CASE ~mysqlRejects(t.batch) /\ store' = store \cup ToSet(t.batch)
    <3>1. /\ ids(ToSet(t.batch)) \cap ids(store) = {}
          /\ ~(Cardinality(ids(ToSet(t.batch))) < Len(t.batch))
      BY <2>1 DEF mysqlRejects
    <3>2. \A m, n \in ToSet(t.batch) : m.cid = n.cid => m = n
      BY <3>1, TaskTypes, NoneTwice
    <3>3. QED
      BY <2>1, <3>1, <3>2
  <2>2. CASE \E W \in mongoInserts(ToSet(t.batch)) : store' = store \cup W
    <3>1. PICK W \in mongoInserts(ToSet(t.batch)) : store' = store \cup W
      BY <2>2
    <3>2. /\ W \subseteq ToSet(t.batch)
          /\ ids(W) = ids(ToSet(t.batch)) \ ids(store)
          /\ \A m, n \in W : m.cid = n.cid => m = n
      BY TaskTypes, MongoInserts
    <3>3. QED
      BY <3>1, <3>2
  <2>3. QED
    BY <2>1, <2>2 DEF SaveMessageBatch
<1>5. StoredOnce'
  BY <1>1, <1>4, AddNew
<1>6. store' \in SUBSET MessageSet
  BY <1>4, TaskTypes
<1>7. TypeOK' /\ LogBounded' /\ Collected' /\ TasksBehind'
  BY <1>2, <1>3, <1>6, TaskTypes, TaskStepFrame
<1>8. ShownIsStored'
  BY <1>2, <1>4, StoreGrows
<1>9. SavedFirst'
  <2>1. ids(ToSet(t.batch)) \subseteq ids(store')
    BY <1>4, IdsUnion
  <2>2. \A T : ids(T) \subseteq ids(store) => ids(T) \subseteq ids(store')
    BY <1>4, StoreGrows
  <2>3. QED
    BY <1>1, <1>3, <2>1, <2>2 DEF SavedFirst
<1>10. QED
  BY <1>5, <1>7, <1>8, <1>9 DEF IInv

\* The batch is given up; MongoDB may have stored a part of it, and what it stored has
\* new ClientMsgIDs.
LEMMA SaveFailsKeeps ==
    ASSUME IInv, NEW t \in tasks, SaveFails(t)
    PROVE  IInv'
<1>1. SavedFirst /\ ShownIsStored /\ StoredOnce
  BY DEF IInv
<1>2. /\ tasks' = tasks \ {t}
      /\ UNCHANGED <<storeKind, log, pos, msgBatch, lastOffset, lastID, index, latest,
                     offset, up, crashes>>
  BY DEF SaveFails, Ends
<1>3. tasks' \in SUBSET TaskSet /\ \A u \in tasks' : u \in tasks
  BY <1>2, TaskTypes
<1>4. PICK W : /\ store' = store \cup W /\ W \subseteq ToSet(t.batch)
               /\ ids(W) \cap ids(store) = {}
               /\ \A m, n \in W : m.cid = n.cid => m = n
  <2>1. CASE UNCHANGED store
    <3>1. store' = store \cup {} /\ ids({}) \cap ids(store) = {}
      BY <2>1 DEF ids
    <3>2. QED
      BY <3>1
  <2>2. CASE \E S \in SUBSET ToSet(t.batch) : \E W \in mongoInserts(S) :
                 store' = store \cup W
    <3>0. PICK S \in SUBSET ToSet(t.batch) :
                 \E W \in mongoInserts(S) : store' = store \cup W
      BY <2>2
    <3>1. PICK W \in mongoInserts(S) : store' = store \cup W
      BY <3>0
    <3>2. IsFiniteSet(S)
      BY TaskTypes, FS_Subset
    <3>3. /\ W \subseteq S
          /\ ids(W) = ids(S) \ ids(store)
          /\ \A m, n \in W : m.cid = n.cid => m = n
      BY <3>2, MongoInserts
    <3>4. QED
      BY <3>1, <3>3
  <2>3. QED
    BY <2>1, <2>2 DEF SaveFails
<1>5. StoredOnce'
  BY <1>1, <1>4, AddNew
<1>6. store' \in SUBSET MessageSet
  BY <1>4, TaskTypes
<1>7. TypeOK' /\ LogBounded' /\ Collected' /\ TasksBehind'
  BY <1>2, <1>3, <1>6, TaskTypes, TaskStepFrame
<1>8. ShownIsStored'
  BY <1>2, <1>4, StoreGrows
<1>9. SavedFirst'
  <2>1. \A T : ids(T) \subseteq ids(store) => ids(T) \subseteq ids(store')
    BY <1>4, StoreGrows
  <2>2. QED
    BY <1>1, <1>3, <2>1 DEF SavedFirst
<1>10. QED
  BY <1>5, <1>7, <1>8, <1>9 DEF IInv

\* The index shows messages of batches whose ClientMsgIDs are stored.
LEMMA IndexKeeps ==
    ASSUME IInv, NEW t \in tasks, IndexMessages(t)
    PROVE  IInv'
<1>1. SavedFirst /\ ShownIsStored /\ StoredOnce
  BY DEF IInv
<1>2. /\ Advance(t, "push") /\ t.pc = "index"
      /\ UNCHANGED <<storeKind, log, pos, msgBatch, lastOffset, lastID, store, latest,
                     offset, up, crashes>>
  BY DEF IndexMessages
<1>3. /\ tasks' \in SUBSET TaskSet
      /\ \A u \in tasks' : u \in tasks \/ (u.batch = t.batch /\ u.offset = t.offset)
  BY <1>2, AdvanceTask
<1>4. index' \subseteq index \cup ToSet(t.batch)
  BY DEF IndexMessages
<1>5. ids(ToSet(t.batch)) \subseteq ids(store)
  BY <1>1, <1>2 DEF SavedFirst
<1>6. index' \in SUBSET MessageSet
  BY <1>4, TaskTypes
<1>7. TypeOK' /\ LogBounded' /\ Collected' /\ TasksBehind'
  BY <1>2, <1>3, <1>6, TaskTypes, TaskStepFrame
<1>8. ShownIsStored'
  <2>1. ids(index') \subseteq ids(index) \cup ids(ToSet(t.batch))
    BY <1>4 DEF ids
  <2>2. QED
    BY <1>1, <1>2, <1>5, <2>1 DEF ShownIsStored
<1>9. SavedFirst' /\ StoredOnce'
  BY <1>1, <1>2, <1>3, <1>5 DEF SavedFirst, StoredOnce
<1>10. QED
  BY <1>7, <1>8, <1>9 DEF IInv

\* LPUSH and LTRIM: what the cache then shows is of the batch or was shown before.
LEMMA Pushed ==
    ASSUME NEW b \in Seq(MessageSet), NEW l \in Seq(MessageSet), NEW k \in Nat,
           k <= Len(Reverse(b) \o l)
    PROVE  /\ SubSeq(Reverse(b) \o l, 1, k) \in Seq(MessageSet)
           /\ Len(SubSeq(Reverse(b) \o l, 1, k)) = k
           /\ ToSet(SubSeq(Reverse(b) \o l, 1, k)) \subseteq ToSet(b) \cup ToSet(l)
<1> DEFINE r == Reverse(b)
           s == r \o l
           c == SubSeq(s, 1, k)
<1>1. /\ r \in Seq(MessageSet) /\ Len(r) = Len(b)
      /\ \A i \in 1..Len(b) : r[i] = b[(Len(b) - i) + 1]
  BY DEF Reverse
<1> HIDE DEF r
<1>2. /\ s \in Seq(MessageSet) /\ Len(s) = Len(r) + Len(l)
      /\ \A i \in 1..Len(s) : s[i] = IF i <= Len(r) THEN r[i] ELSE l[i - Len(r)]
  <2>1. s \in Seq(MessageSet) /\ Len(s) = Len(r) + Len(l)
    BY <1>1, ConcatProperties
  <2>2. \A i \in 1..(Len(r) + Len(l)) : s[i] = IF i <= Len(r) THEN r[i] ELSE l[i - Len(r)]
    BY <1>1, ConcatProperties
  <2>3. QED
    BY <2>1, <2>2
<1> HIDE DEF s
<1>3. c \in Seq(MessageSet) /\ Len(c) = k /\ \A i \in 1..k : c[i] = s[i]
  BY <1>2 DEF r, s
<1> HIDE DEF c
<1>4. \A i \in 1..k : c[i] \in ToSet(b) \cup ToSet(l)
  <2> SUFFICES ASSUME NEW i \in 1..k PROVE c[i] \in ToSet(b) \cup ToSet(l)
    OBVIOUS
  <2>1. i \in 1..Len(s) /\ c[i] = s[i] /\ Len(r) \in Nat /\ Len(l) \in Nat
    BY <1>1, <1>2, <1>3 DEF r, s
  <2>2. CASE i <= Len(r)
    <3>1. c[i] = b[(Len(b) - i) + 1] /\ (Len(b) - i) + 1 \in 1..Len(b)
      BY <1>1, <1>2, <2>1, <2>2
    <3>2. QED
      BY <3>1, BatchSet
  <2>3. CASE ~(i <= Len(r))
    <3>1. c[i] = l[i - Len(r)] /\ i - Len(r) \in 1..Len(l)
      BY <1>2, <2>1, <2>3
    <3>2. QED
      BY <3>1, BatchSet
  <2>4. QED
    BY <2>2, <2>3
<1>5. ToSet(c) = {c[i] : i \in 1..k}
  BY <1>3, BatchSet
<1>6. QED
  BY <1>3, <1>4, <1>5 DEF c, s, r

\* The cache shows messages of batches whose ClientMsgIDs are stored.
LEMMA PushKeeps ==
    ASSUME IInv, NEW t \in tasks, pushLatestToRedis(t)
    PROVE  IInv'
<1>1. SavedFirst /\ ShownIsStored /\ StoredOnce
  BY DEF IInv
<1>2. /\ Advance(t, "offset") /\ t.pc = "push"
      /\ UNCHANGED <<storeKind, log, pos, msgBatch, lastOffset, lastID, store, index,
                     offset, up, crashes>>
  BY DEF pushLatestToRedis
<1>3. /\ tasks' \in SUBSET TaskSet
      /\ \A u \in tasks' : u \in tasks \/ (u.batch = t.batch /\ u.offset = t.offset)
  BY <1>2, AdvanceTask
<1>4. /\ latest' \in Seq(MessageSet) /\ Len(latest') <= CacheMax
      /\ ToSet(latest') \subseteq ToSet(t.batch) \cup ToSet(latest)
  <2>1. CASE UNCHANGED latest
    BY <2>1, TaskTypes
  <2>2. CASE ~UNCHANGED latest
    <3> DEFINE s == Reverse(t.batch) \o latest
               k == IF Len(s) < CacheMax THEN Len(s) ELSE CacheMax
    <3>1. latest' = SubSeq(s, 1, k)
      BY <2>2 DEF pushLatestToRedis
    <3>2. s \in Seq(MessageSet)
      BY TaskTypes DEF Reverse
    <3>3. Len(s) \in Nat
      BY <3>2
    <3>4. k \in Nat /\ k <= Len(s) /\ k <= CacheMax
      BY <3>3, ArchiverAssumption
    <3> HIDE DEF k
    <3>5. QED
      BY <3>1, <3>4, TaskTypes, Pushed
  <2>3. QED
    BY <2>1, <2>2
<1>5. ids(ToSet(t.batch)) \subseteq ids(store)
  BY <1>1, <1>2 DEF SavedFirst
<1>6. TypeOK' /\ LogBounded' /\ Collected' /\ TasksBehind'
  BY <1>2, <1>3, <1>4, TaskTypes, TaskStepFrame
<1>7. ShownIsStored'
  <2>1. ids(ToSet(latest')) \subseteq ids(ToSet(t.batch)) \cup ids(ToSet(latest))
    BY <1>4 DEF ids
  <2>2. QED
    BY <1>1, <1>2, <1>5, <2>1 DEF ShownIsStored
<1>8. SavedFirst' /\ StoredOnce'
  BY <1>1, <1>2, <1>3, <1>5 DEF SavedFirst, StoredOnce
<1>9. QED
  BY <1>6, <1>7, <1>8 DEF IInv

\* The task ends with the offset it was given.
LEMMA OffsetKeeps ==
    ASSUME IInv, NEW t \in tasks, saveOffset(t)
    PROVE  IInv'
<1>1. SavedFirst /\ ShownIsStored /\ StoredOnce
  BY DEF IInv
<1>2. /\ tasks' = tasks \ {t}
      /\ UNCHANGED <<storeKind, log, pos, msgBatch, lastOffset, lastID, store, index,
                     latest, up, crashes>>
      /\ offset' = t.offset \/ offset' = offset
  BY DEF saveOffset, Ends
<1>3. tasks' \in SUBSET TaskSet /\ \A u \in tasks' : u \in tasks
  BY <1>2, TaskTypes
<1>4. offset' \in 0..MaxLog
  BY <1>2, TaskTypes
<1>5. TypeOK' /\ LogBounded' /\ Collected' /\ TasksBehind'
  BY <1>2, <1>3, <1>4, TaskTypes, TaskStepFrame
<1>6. SavedFirst' /\ ShownIsStored' /\ StoredOnce'
  BY <1>1, <1>2 DEF SavedFirst, ShownIsStored, StoredOnce
<1>7. QED
  BY <1>5, <1>6 DEF IInv

\* The inductive invariant: the loop is ahead of its tasks, the tasks store first.
THEOREM Invariance == Spec => []IInv
<1>1. ASSUME IInv, [Next]_vars PROVE IInv'
  <2>1. ASSUME NEW t \in tasks, TaskStep(t) PROVE IInv'
    BY <1>1, <2>1, SaveKeeps, SaveFailsKeeps, IndexKeeps, PushKeeps, OffsetKeeps
       DEF TaskStep
  <2>2. CASE UNCHANGED vars
    BY <1>1, <2>2 DEF vars, IInv, TypeOK, LogBounded, Collected, TasksBehind,
       SavedFirst, ShownIsStored, StoredOnce
  <2>3. QED
    BY <1>1, <2>1, <2>2, ProduceKeeps, NewWorkerKeeps, ReadKeeps, TickKeeps, CrashKeeps
       DEF Next
<1>2. QED
  BY <1>1, InitInvariant, PTL DEF Spec

\* Every variable keeps its type; the batch and the cache keep within their limits.
THEOREM TypeCorrect == Spec => []TypeOK
<1>1. IInv => TypeOK
  BY DEF IInv
<1>2. QED
  BY <1>1, Invariance, PTL

\* Search and the recent-message cache never show what the store does not hold.
THEOREM StoreComesFirst == Spec => []ShownIsStored
<1>1. IInv => ShownIsStored
  BY DEF IInv
<1>2. QED
  BY <1>1, Invariance, PTL

\* No ClientMsgID is ever stored twice, in MySQL or in MongoDB.
THEOREM NeverStoredTwice == Spec => []StoredOnce
<1>1. IInv => StoredOnce
  BY DEF IInv
<1>2. QED
  BY <1>1, Invariance, PTL

\* No task saves an offset that covers a message the loop is still collecting.
THEOREM OffsetsStayBehind == Spec => OffsetBehindBatch
<1>1. ASSUME IInv, [Next]_vars
      PROVE  [offset' # offset =>
                 \A i \in 1..Len(msgBatch) : offset' < msgBatch[i].offset]_vars
  <2>1. CASE UNCHANGED vars
    BY <2>1
  <2>2. ASSUME NEW t \in tasks, TaskStep(t), offset' # offset
        PROVE  offset' = t.offset
    BY <2>2 DEF TaskStep, SaveMessageBatch, SaveFails, IndexMessages,
       pushLatestToRedis, saveOffset
  <2>3. ASSUME Next, offset' # offset PROVE \E t \in tasks : offset' = t.offset
    BY <2>2, <2>3 DEF Next, Produce, NewWorker, Read, Tick, Crash, stored
  <2>4. TasksBehind
    BY <1>1 DEF IInv
  <2>5. CASE Next
    BY <2>3, <2>4, <2>5 DEF TasksBehind
  <2>6. QED
    BY <1>1, <2>1, <2>5
<1>2. QED
  BY <1>1, Invariance, PTL DEF Spec, OffsetBehindBatch

----------------------------------------------------------------------------
(***************************************************************************)
(* Ingest: from the senders to the nodes and to the archiver.              *)
(***************************************************************************)

\* What HandleIncomingMessage marshals, and what the parser makes of it.
Sent == [format : {"proto"}, room : {1}, sender : Senders, cid : ClientMsgIDs,
         content : Nat, type : {1}, ns : Nat]
Shown == [room : {1}, sender : Senders, cid : ClientMsgIDs, content : Nat, type : {1}, at : Nat]
ShownOf(data) == [room |-> data.room, sender |-> data.sender, cid |-> data.cid,
                  content |-> data.content, type |-> data.type, at |-> data.ns]
Call == [step : {"wait", "publish"}, payload : Sent]

IngestTypes ==
    /\ sends \in 0..MaxSends
    /\ calls = [s \in Senders |-> calls[s]]
    /\ \A s \in Senders : calls[s] = Idle \/ (calls[s] \in Call /\ calls[s].payload.sender = s)
    /\ writer \in Seq(Sent) /\ wire \in Seq(Sent \cup Foreign)
    /\ log \in Seq(ClientMsgIDs \cup {Garbage}) /\ Len(log) = Len(wire) /\ pos \in Nat \ {0}
    /\ bus \in [Nodes -> Seq(Sent)] /\ live \in [Nodes -> Seq(Shown)]
    /\ archived = [o \in 1..MaxLog |-> archived[o]]

\* f[c]: the data of the message with content c.
Original(f, data) ==
    data.content \in 1..sends /\ data.ns = data.content /\ data = f[data.content]

\* Wherever a message is, it is the one that was sent.
Origins(f) ==
    /\ \A s \in Senders : calls[s] # Idle => Original(f, calls[s].payload)
    /\ \A i \in 1..Len(writer) : Original(f, writer[i])
    /\ \A i \in 1..Len(wire) : wire[i].format = "proto" => Original(f, wire[i])
    /\ \A n \in Nodes : \A i \in 1..Len(bus[n]) : Original(f, bus[n][i])
    /\ \A n \in Nodes : \A i \in 1..Len(live[n]) :
        live[n][i].content \in 1..sends /\ live[n][i] = ShownOf(f[live[n][i].content])
    /\ \A o \in 1..MaxLog :
        \/ archived[o] = Invalid \/ archived[o].content \notin 1..MaxSends
        \/ archived[o].content \in 1..sends /\ archived[o] = ShownOf(f[archived[o].content])

\* What is still in the queue of the writer was sent later than what is in the topic.
TopicInOrder ==
    /\ \A i, j \in 1..Len(writer) : i < j => writer[i].content <= writer[j].content
    /\ \A i \in 1..Len(wire), j \in 1..Len(writer) :
        wire[i].format = "proto" => wire[i].content <= writer[j].content
    /\ \A i, j \in 1..Len(wire) :
        i < j /\ wire[i].format = "proto" /\ wire[j].format = "proto"
            => wire[i].content <= wire[j].content

\* What a sender has not published yet was sent later than what a listener has not
\* taken yet, and this later than what its node has shown.
NodesInOrder ==
    \A n \in Nodes :
        /\ InOrder(bus[n]) /\ InOrder(live[n])
        /\ \A i \in 1..Len(live[n]), j \in 1..Len(bus[n]) :
            live[n][i].sender = bus[n][j].sender => live[n][i].content <= bus[n][j].content
        /\ \A s \in Senders : calls[s] # Idle =>
            /\ \A i \in 1..Len(bus[n]) :
                bus[n][i].sender = s => bus[n][i].content <= calls[s].payload.content
            /\ \A i \in 1..Len(live[n]) :
                live[n][i].sender = s => live[n][i].content <= calls[s].payload.content

IngestInv == IngestTypes /\ (\E f : Origins(f)) /\ TopicInOrder /\ NodesInOrder

----------------------------------------------------------------------------
\* The parser, on what was sent and on what others wrote.
LEMMA SentIsShown ==
    ASSUME NEW data \in Sent, data.ns > 0, NEW t
    PROVE  Unmarshal(data, t) = ShownOf(data) /\ ShownOf(data) # Invalid /\ ShownOf(data) \in Shown
<1>1. Int8(1) = 1
  BY DEF Int8
<1>2. ShownOf(data) \in Shown
  BY DEF Sent, Shown, ShownOf
<1>3. ShownOf(data) # Invalid
  <2> SUFFICES ASSUME ShownOf(data) = Invalid PROVE FALSE
    OBVIOUS
  <2>1. "room" \in DOMAIN ShownOf(data)
    BY DEF ShownOf
  <2>2. "room" \notin DOMAIN Invalid
    BY DEF Invalid
  <2>3. QED
    BY <2>1, <2>2
<1>4. UnmarshalProto(data, t) = ShownOf(data)
  BY <1>1 DEF UnmarshalProto, Sent, ShownOf
<1>5. data.format = "proto"
  BY DEF Sent
<1>6. QED
  BY <1>2, <1>3, <1>4, <1>5 DEF Unmarshal

\* What others write to the topic is never taken for a message that was sent through the
\* producer.
LEMMA ForeignIsOther ==
    ASSUME NEW data \in Foreign, NEW t
    PROVE  /\ Unmarshal(data, t) = Invalid \/ Unmarshal(data, t).content \notin 1..MaxSends
           /\ Unmarshal(data, t) = Invalid \/ Unmarshal(data, t).cid \in ClientMsgIDs
<1>1. data.format # "proto" /\ (data.format = "json" => data.cid \in ClientMsgIDs /\ data.content \notin 1..MaxSends)
  BY IngestAssumption
<1>2. UnmarshalProto(data, t) = Invalid
  BY <1>1 DEF UnmarshalProto
<1>3. \/ UnmarshalLegacyJSON(data, t) = Invalid
      \/ /\ data.format = "json" /\ UnmarshalLegacyJSON(data, t).content = data.content
         /\ UnmarshalLegacyJSON(data, t).cid = data.cid
  BY DEF UnmarshalLegacyJSON
<1>4. Unmarshal(data, t) = Invalid \/ Unmarshal(data, t) = UnmarshalLegacyJSON(data, t)
  BY <1>2 DEF Unmarshal
<1>5. QED
  BY <1>1, <1>3, <1>4

\* Nothing has been sent at first.
LEMMA IngestInit0 == IngestInit => IngestInv
<1> SUFFICES ASSUME IngestInit PROVE IngestInv
  OBVIOUS
<1>1. /\ log = <<>> /\ pos = 1 /\ sends = 0 /\ calls = [s \in Senders |-> Idle]
      /\ writer = <<>> /\ wire = <<>> /\ bus = [n \in Nodes |-> <<>>] /\ live = [n \in Nodes |-> <<>>]
      /\ archived = [o \in 1..MaxLog |-> Invalid]
  BY DEF IngestInit, Init
<1>2. IngestTypes
  BY <1>1, IngestAssumption DEF IngestTypes
<1>3. \A f : Origins(f)
  BY <1>1 DEF Origins
<1>4. TopicInOrder /\ NodesInOrder
  BY <1>1 DEF TopicInOrder, NodesInOrder, InOrder
<1>5. QED
  BY <1>2, <1>3, <1>4 DEF IngestInv

\* LiveAgrees follows.
LEMMA AgreementFollows == IngestInv => LiveAgrees
<1> SUFFICES ASSUME IngestInv PROVE LiveAgrees
  OBVIOUS
<1>1. /\ sends \in 0..MaxSends /\ MaxSends \in Nat /\ wire \in Seq(Sent \cup Foreign)
      /\ live \in [Nodes -> Seq(Shown)] /\ DOMAIN archived = 1..MaxLog
  BY IngestAssumption DEF IngestInv, IngestTypes
<1>2. DOMAIN wire = 1..Len(wire)
  BY <1>1
<1>3. PICK f : Origins(f)
  BY DEF IngestInv
<1>4. \A i, j \in DOMAIN wire :
        (i < j /\ {wire[i].format, wire[j].format} = {"proto"} /\ wire[i].sender = wire[j].sender)
            => wire[i].content <= wire[j].content
  BY <1>2 DEF IngestInv, TopicInOrder
<1>5. ASSUME NEW n \in Nodes, NEW i \in DOMAIN live[n], NEW o \in DOMAIN archived,
             archived[o] # Invalid, archived[o].content = live[n][i].content
      PROVE  archived[o] = live[n][i]
  <2>1. i \in 1..Len(live[n])
    BY <1>1
  <2>2. live[n][i].content \in 1..sends /\ live[n][i] = ShownOf(f[live[n][i].content])
    BY <1>3, <2>1 DEF Origins
  <2>3. live[n][i].content \in 1..MaxSends
    BY <1>1, <2>2
  <2>4. archived[o] = ShownOf(f[archived[o].content])
    BY <1>1, <1>3, <1>5, <2>3 DEF Origins
  <2>5. QED
    BY <1>5, <2>2, <2>4
<1>6. \A n \in Nodes : InOrder(live[n])
  BY DEF IngestInv, NodesInOrder
<1>7. QED
  BY <1>4, <1>5, <1>6 DEF LiveAgrees

----------------------------------------------------------------------------
\* Sequences that grow at the end and shrink at the front.
LEMMA Appended ==
    ASSUME NEW S, NEW q \in Seq(S), NEW e \in S
    PROVE  /\ Append(q, e) \in Seq(S) /\ Len(q) \in Nat
           /\ \A i \in 1..Len(q) : i \in 1..Len(Append(q, e)) /\ Append(q, e)[i] = q[i]
           /\ \A i \in 1..Len(Append(q, e)) :
                 (i \in 1..Len(q) /\ Append(q, e)[i] = q[i]) \/ (i = Len(q) + 1 /\ Append(q, e)[i] = e)
OBVIOUS

\* What is left of a sequence without its first element.
LEMMA Shortened ==
    ASSUME NEW S, NEW q \in Seq(S), q # <<>>
    PROVE  /\ Head(q) \in S /\ Tail(q) \in Seq(S) /\ Len(q) \in Nat
           /\ 1 \in 1..Len(q) /\ Head(q) = q[1]
           /\ \A i \in 1..Len(Tail(q)) : i + 1 \in 1..Len(q) /\ i \in Nat /\ Tail(q)[i] = q[i + 1] /\ 1 < i + 1
OBVIOUS

\* A sequence with an element added several times.
LEMMA Repeated ==
    ASSUME NEW S, NEW q \in Seq(S), NEW e \in S, NEW k \in Nat, NEW r, r = q \o [i \in 1..k |-> e]
    PROVE  /\ r \in Seq(S) /\ Len(q) \in Nat /\ Len(r) = Len(q) + k
           /\ \A i \in 1..Len(r) : \/ i \in 1..Len(q) /\ r[i] = q[i]
                                   \/ i \notin 1..Len(q) /\ i > Len(q) /\ r[i] = e
<1>1. [i \in 1..k |-> e] \in Seq(S) /\ Len([i \in 1..k |-> e]) = k
  OBVIOUS
<1>2. PICK t \in Seq(S) : t = [i \in 1..k |-> e] /\ Len(t) = k
  BY <1>1
<1>3. \A i \in 1..k : t[i] = e
  BY <1>2
<1>4. r = q \o t
  BY <1>2
<1>5. r \in Seq(S) /\ Len(r) = Len(q) + k
  BY <1>2, <1>4
<1>6. ASSUME NEW i \in 1..Len(r)
      PROVE  \/ i \in 1..Len(q) /\ r[i] = q[i]
             \/ i \notin 1..Len(q) /\ i > Len(q) /\ r[i] = e
  <2>1. CASE i <= Len(q)
    BY <1>4, <1>5, <2>1
  <2>2. CASE i > Len(q)
    <3>1. i - Len(q) \in 1..k /\ r[i] = t[i - Len(q)]
      BY <1>2, <1>4, <1>5, <2>2
    <3>2. QED
      BY <1>3, <2>2, <3>1
  <2>3. QED
    BY <1>5, <2>1, <2>2
<1>7. QED
  BY <1>5, <1>6

\* Time passes, or a sender's call ends: nothing that counts is added.
LEMMA NothingAdded ==
    ASSUME IngestInv, sends' \in 0..MaxSends, sends' >= sends,
           UNCHANGED <<writer, wire, log, bus, live, archived>>, pos' \in Nat \ {0},
           calls' = [s \in Senders |-> calls'[s]],
           \A s \in Senders : \/ calls'[s] = calls[s] \/ calls'[s] = Idle
                              \/ /\ calls[s] # Idle /\ calls'[s] \in Call
                                 /\ calls'[s].payload = calls[s].payload
    PROVE  IngestInv'
<1>1. IngestTypes /\ TopicInOrder /\ NodesInOrder
  BY DEF IngestInv
<1>2. \A s \in Senders : calls'[s] # Idle => calls[s] # Idle /\ calls'[s].payload = calls[s].payload
  OBVIOUS
<1>3. PICK f : Origins(f)
  BY DEF IngestInv
<1>4. sends \in Nat /\ sends' \in Nat /\ 1..sends \subseteq 1..sends'
  BY <1>1, IngestAssumption DEF IngestTypes
<1>5. \A data : Original(f, data) => Original(f, data)'
  BY <1>4 DEF Original
<1>6. Origins(f)'
  BY <1>2, <1>3, <1>4, <1>5 DEF Origins, Original
<1>7. IngestTypes'
  BY <1>1, <1>2 DEF IngestTypes, Call
<1>8. TopicInOrder'
  BY <1>1 DEF TopicInOrder
<1>9. NodesInOrder'
  BY <1>1, <1>2 DEF NodesInOrder, InOrder
<1>10. QED
  BY <1>6, <1>7, <1>8, <1>9 DEF IngestInv

\* A message is sent: it is later than all the others.
LEMMA MessageSent ==
    ASSUME IngestInv, NEW s \in Senders, NEW cid \in ClientMsgIDs, calls[s] = Idle,
           sends < MaxSends, sends' = sends + 1, HandleIncomingMessage(s, cid),
           UNCHANGED <<wire, log, pos, bus, live, archived>>
    PROVE  IngestInv'
<1>1. IngestTypes /\ TopicInOrder /\ NodesInOrder
  BY DEF IngestInv
<1>2. /\ sends \in Nat /\ writer \in Seq(Sent) /\ MaxSends \in Nat
      /\ bus \in [Nodes -> Seq(Sent)] /\ live \in [Nodes -> Seq(Shown)]
      /\ wire \in Seq(Sent \cup Foreign) /\ calls = [x \in Senders |-> calls[x]]
      /\ \A x \in Senders : calls[x] = Idle \/ (calls[x] \in Call /\ calls[x].payload.sender = x)
  BY <1>1, IngestAssumption DEF IngestTypes
<1>3. PICK p : /\ p = Marshal([room |-> 1, sender |-> s, cid |-> cid, content |-> sends + 1,
                               type |-> 1, at |-> now])
               /\ calls' = [calls EXCEPT ![s] =
                              [step |-> IF async THEN "publish" ELSE "wait", payload |-> p]]
               /\ writer' = Append(writer, p)
  BY DEF HandleIncomingMessage
<1>4. /\ p \in Sent /\ p.sender = s /\ p.content = sends + 1 /\ p.ns = sends + 1
      /\ p.format = "proto"
  BY <1>2, <1>3 DEF Marshal, Sent, now
<1>5. PICK call : call = [step |-> IF async THEN "publish" ELSE "wait", payload |-> p]
  OBVIOUS
<1>6. call \in Call /\ call.payload = p
  BY <1>4, <1>5 DEF Call
<1>7. \A x \in Senders : calls'[x] = IF x = s THEN call ELSE calls[x]
  BY <1>2, <1>3, <1>5
<1>8. PICK f : Origins(f)
  BY DEF IngestInv
<1>9. PICK g : /\ g[sends + 1] = p
               /\ \A c \in 1..sends : g[c] = f[c]
  <2>1. PICK g : g = [c \in Nat |-> IF c = sends + 1 THEN p ELSE f[c]]
    OBVIOUS
  <2>2. g[sends + 1] = p /\ \A c \in 1..sends : g[c] = f[c]
    BY <1>2, <2>1
  <2>3. QED
    BY <2>2
<1>10. 1..sends \subseteq 1..sends' /\ sends + 1 \in 1..sends'
  BY <1>2
<1>11. \A data : Original(f, data) => Original(g, data)'
  BY <1>9, <1>10 DEF Original
<1>12. Original(g, p)'
  BY <1>4, <1>9, <1>10 DEF Original
<1>13. /\ writer' \in Seq(Sent)
       /\ \A i \in 1..Len(writer') : \/ i \in 1..Len(writer) /\ writer'[i] = writer[i]
                                     \/ i = Len(writer) + 1 /\ writer'[i] = p
       /\ Len(writer) \in Nat
  BY <1>2, <1>3, <1>4, Appended
<1>14. Origins(g)'
  <2>1. \A x \in Senders : calls'[x] # Idle => Original(g, calls[x].payload)'
    <3>1. \A x \in Senders : calls'[x] # Idle =>
             calls'[x].payload = p \/ (calls[x] # Idle /\ calls'[x].payload = calls[x].payload)
      BY <1>6, <1>7
    <3>2. \A x \in Senders : calls[x] # Idle => Original(f, calls[x].payload)
      BY <1>8 DEF Origins
    <3>3. QED
      BY <1>11, <1>12, <3>1, <3>2 DEF Original
  <2>2. \A i \in 1..Len(writer') : Original(g, writer[i])'
    <3>1. \A i \in 1..Len(writer) : Original(f, writer[i])
      BY <1>8 DEF Origins
    <3>2. QED
      BY <1>11, <1>12, <1>13, <3>1 DEF Original
  <2>3. /\ \A i \in 1..Len(wire') : wire'[i].format = "proto" => Original(g, wire[i])'
        /\ \A n \in Nodes : \A i \in 1..Len(bus'[n]) : Original(g, bus[n][i])'
    BY <1>8, <1>11 DEF Origins, Original
  <2>4. \A n \in Nodes : \A i \in 1..Len(live'[n]) :
           live'[n][i].content \in 1..sends' /\ live'[n][i] = ShownOf(g[live'[n][i].content])
    <3>1. \A n \in Nodes : \A i \in 1..Len(live[n]) :
             live[n][i].content \in 1..sends /\ live[n][i] = ShownOf(f[live[n][i].content])
      BY <1>8 DEF Origins
    <3>2. QED
      BY <1>9, <1>10, <3>1
  <2>5. \A o \in 1..MaxLog :
           \/ archived'[o] = Invalid \/ archived'[o].content \notin 1..MaxSends
           \/ archived'[o].content \in 1..sends' /\ archived'[o] = ShownOf(g[archived'[o].content])
    <3>1. \A o \in 1..MaxLog :
             \/ archived[o] = Invalid \/ archived[o].content \notin 1..MaxSends
             \/ archived[o].content \in 1..sends /\ archived[o] = ShownOf(f[archived[o].content])
      BY <1>8 DEF Origins
    <3>2. QED
      BY <1>9, <1>10, <3>1
  <2>6. QED
    BY <2>1, <2>2, <2>3, <2>4, <2>5 DEF Origins
<1>15. IngestTypes'
  <2>1. calls' = [x \in Senders |-> calls'[x]]
    BY <1>2, <1>3
  <2>2. \A x \in Senders : calls'[x] = Idle \/ (calls'[x] \in Call /\ calls'[x].payload.sender = x)
    BY <1>2, <1>4, <1>6, <1>7
  <2>3. sends' \in 0..MaxSends
    BY <1>2
  <2>4. QED
    BY <1>1, <1>13, <2>1, <2>2, <2>3 DEF IngestTypes
<1>16. /\ \A i \in 1..Len(writer) : writer[i] \in Sent /\ writer[i].content <= sends /\ writer[i].content \in Nat
       /\ \A i \in 1..Len(wire) : wire[i].format = "proto" => wire[i].content \in Nat /\ wire[i].content <= sends
  BY <1>2, <1>8 DEF Origins, Original
<1>17. TopicInOrder'
  <2>0. /\ \A i \in 1..Len(writer) : writer[i].content <= p.content
        /\ \A i \in 1..Len(wire) : wire[i].format = "proto" => wire[i].content <= p.content
    BY <1>2, <1>4, <1>16
  <2>1. ASSUME NEW i \in 1..Len(writer'), NEW j \in 1..Len(writer'), i < j
        PROVE  writer'[i].content <= writer'[j].content
    <3>1. i \in 1..Len(writer) /\ writer'[i] = writer[i]
      <4>1. i \in Nat /\ j \in Nat /\ j <= Len(writer) + 1
        BY <1>13
      <4>2. i # Len(writer) + 1
        BY <1>13, <2>1, <4>1
      <4>3. QED
        BY <1>13, <4>2
    <3>2. CASE j \in 1..Len(writer) /\ writer'[j] = writer[j]
      BY <1>1, <2>1, <3>1, <3>2 DEF TopicInOrder
    <3>3. CASE writer'[j] = p
      BY <2>0, <3>1, <3>3
    <3>4. QED
      BY <1>13, <3>2, <3>3
  <2>2. ASSUME NEW i \in 1..Len(wire), NEW j \in 1..Len(writer'), wire[i].format = "proto"
        PROVE  wire[i].content <= writer'[j].content
    <3>1. CASE j \in 1..Len(writer) /\ writer'[j] = writer[j]
      BY <1>1, <2>2, <3>1 DEF TopicInOrder
    <3>2. CASE writer'[j] = p
      BY <2>0, <2>2, <3>2
    <3>3. QED
      BY <1>13, <3>1, <3>2
  <2>3. QED
    BY <1>1, <2>1, <2>2 DEF TopicInOrder
<1>18. NodesInOrder'
  <2>1. \A n \in Nodes : /\ \A i \in 1..Len(bus[n]) : bus[n][i].content <= p.content
                         /\ \A i \in 1..Len(live[n]) : live[n][i].content <= p.content
    BY <1>2, <1>4, <1>8 DEF Origins, Original
  <2>2. \A n \in Nodes, x \in Senders : calls'[x] # Idle =>
          /\ \A i \in 1..Len(bus[n]) :
              bus[n][i].sender = x => bus[n][i].content <= calls'[x].payload.content
          /\ \A i \in 1..Len(live[n]) :
              live[n][i].sender = x => live[n][i].content <= calls'[x].payload.content
    <3>1. \A x \in Senders : \/ calls'[x].payload = p
                             \/ calls'[x] = calls[x]
      BY <1>6, <1>7
    <3>2. QED
      BY <1>1, <2>1, <3>1 DEF NodesInOrder
  <2>3. QED
    BY <1>1, <2>2 DEF NodesInOrder, InOrder
<1>19. QED
  BY <1>14, <1>15, <1>17, <1>18 DEF IngestInv

\* What the topic makes of a value is a ClientMsgID or garbage.
LEMMA IdIsKnown ==
    ASSUME NEW data \in Sent \cup Foreign, data \in Sent => data.ns > 0
    PROVE  IdOf(data) \in ClientMsgIDs \cup {Garbage}
<1>1. CASE data \in Sent
  <2>1. Unmarshal(data, now) = ShownOf(data) /\ ShownOf(data) \in Shown
    BY <1>1, SentIsShown
  <2>2. QED
    BY <2>1 DEF IdOf, Shown
<1>2. CASE data \in Foreign
  BY <1>2, ForeignIsOther DEF IdOf
<1>3. QED
  BY <1>1, <1>2

\* The topic gets the first message of the writer's queue, or a foreign value.
LEMMA ValueWritten ==
    ASSUME IngestInv, NEW copies \in 0..2, NEW data, Written(data, copies),
           \/ writer # <<>> /\ data = Head(writer) /\ writer' = Tail(writer)
           \/ data \in Foreign /\ writer' = writer,
           sends' \in 0..MaxSends, sends' >= sends, UNCHANGED <<bus, live, archived>>,
           calls' = [s \in Senders |-> calls'[s]],
           \A s \in Senders : \/ calls'[s] = calls[s] \/ calls'[s] = Idle
                              \/ /\ calls[s] # Idle /\ calls'[s] \in Call
                                 /\ calls'[s].payload = calls[s].payload
    PROVE  IngestInv'
<1>1. IngestTypes /\ TopicInOrder /\ NodesInOrder
  BY DEF IngestInv
<1>2. /\ sends \in Nat /\ writer \in Seq(Sent) /\ wire \in Seq(Sent \cup Foreign)
      /\ log \in Seq(ClientMsgIDs \cup {Garbage}) /\ Len(log) = Len(wire)
  BY <1>1, IngestAssumption DEF IngestTypes
<1>3. PICK f : Origins(f)
  BY DEF IngestInv
<1>4. /\ writer' \in Seq(Sent)
      /\ \E d \in {0, 1} : /\ \A i \in 1..Len(writer') : i + d \in 1..Len(writer) /\ writer'[i] = writer[i + d]
                           /\ d = 0 => data \in Foreign
                           /\ d = 1 => data \in Sent /\ 1 \in 1..Len(writer) /\ data = writer[1]
                                       /\ \A i \in 1..Len(writer') : 1 < i + 1
  <2>1. CASE writer # <<>> /\ data = Head(writer) /\ writer' = Tail(writer)
    BY <1>2, <2>1, Shortened
  <2>2. CASE data \in Foreign /\ writer' = writer
    <3>1. \A i \in 1..Len(writer') : i + 0 = i
      BY <1>2, <2>2
    <3>2. QED
      BY <1>2, <2>2, <3>1
  <2>3. QED
    BY <2>1, <2>2
<1>5. PICK d \in {0, 1} : /\ \A i \in 1..Len(writer') : i + d \in 1..Len(writer) /\ writer'[i] = writer[i + d]
                          /\ d = 0 => data \in Foreign
                          /\ d = 1 => data \in Sent /\ 1 \in 1..Len(writer) /\ data = writer[1]
                                      /\ \A i \in 1..Len(writer') : 1 < i + 1
  BY <1>4
<1>6. data \in Sent \cup Foreign /\ (data \in Foreign => data.format # "proto")
  BY <1>5, IngestAssumption
<1>7. data.format = "proto" => Original(f, data) /\ d = 1
  BY <1>3, <1>5, <1>6 DEF Origins
<1>8. data \in Sent => data.ns > 0
  BY <1>2, <1>7 DEF Original, Sent
<1>9. IdOf(data) \in ClientMsgIDs \cup {Garbage}
  BY <1>6, <1>8, IdIsKnown
<1>10. /\ wire' = wire \o [i \in 1..copies |-> data]
       /\ log' = log \o [i \in 1..copies |-> IdOf(data)]
       /\ pos' = pos /\ copies \in Nat
  BY DEF Written, memory
<1>11. /\ wire' \in Seq(Sent \cup Foreign) /\ Len(wire') = Len(wire) + copies /\ Len(wire) \in Nat
       /\ \A i \in 1..Len(wire') : \/ i \in 1..Len(wire) /\ wire'[i] = wire[i]
                                   \/ i \notin 1..Len(wire) /\ i > Len(wire) /\ wire'[i] = data
  <2>1. PICK r : r = wire'
    OBVIOUS
  <2>2. PICK S : S = Sent \cup Foreign
    OBVIOUS
  <2>3. wire \in Seq(S) /\ data \in S /\ copies \in Nat /\ r = wire \o [i \in 1..copies |-> data]
    BY <1>2, <1>6, <1>10, <2>1, <2>2
  <2>4. /\ r \in Seq(S) /\ Len(wire) \in Nat /\ Len(r) = Len(wire) + copies
        /\ \A i \in 1..Len(r) : \/ i \in 1..Len(wire) /\ r[i] = wire[i]
                                \/ i \notin 1..Len(wire) /\ i > Len(wire) /\ r[i] = data
    BY ONLY <2>3, Repeated
  <2>5. QED
    BY <2>1, <2>2, <2>4
<1>12. log' \in Seq(ClientMsgIDs \cup {Garbage}) /\ Len(log') = Len(log) + copies
  <2>1. PICK r : r = log'
    OBVIOUS
  <2>2. PICK S : S = ClientMsgIDs \cup {Garbage}
    OBVIOUS
  <2>3. PICK e : e = IdOf(data)
    OBVIOUS
  <2>4. log \in Seq(S) /\ e \in S /\ copies \in Nat /\ r = log \o [i \in 1..copies |-> e]
    BY <1>2, <1>9, <1>10, <2>1, <2>2, <2>3
  <2>5. r \in Seq(S) /\ Len(r) = Len(log) + copies
    BY ONLY <2>4, Repeated
  <2>6. QED
    BY <2>1, <2>2, <2>5
<1>13. \A s \in Senders : calls'[s] # Idle => calls[s] # Idle /\ calls'[s].payload = calls[s].payload
  OBVIOUS
<1>14. IngestTypes'
  BY <1>1, <1>2, <1>4, <1>10, <1>11, <1>12, <1>13 DEF IngestTypes, Call
<1>15. sends' \in Nat /\ 1..sends \subseteq 1..sends'
  BY <1>2, IngestAssumption
<1>16. \A x : Original(f, x) => Original(f, x)'
  BY <1>15 DEF Original
<1>17. Origins(f)'
  <2>1. \A i \in 1..Len(writer') : Original(f, writer[i])'
    BY <1>3, <1>5, <1>15 DEF Origins, Original
  <2>2. \A i \in 1..Len(wire') : wire'[i].format = "proto" => Original(f, wire[i])'
    BY <1>3, <1>7, <1>11, <1>15 DEF Origins, Original
  <2>3. /\ \A s \in Senders : calls'[s] # Idle => Original(f, calls[s].payload)'
        /\ \A n \in Nodes : \A i \in 1..Len(bus'[n]) : Original(f, bus[n][i])'
    BY <1>3, <1>13, <1>15 DEF Origins, Original
  <2>4. QED
    BY <1>3, <1>15, <2>1, <2>2, <2>3 DEF Origins
<1>18. NodesInOrder'
  BY <1>1, <1>13 DEF NodesInOrder, InOrder
<1>19. TopicInOrder'
  <2>1. ASSUME NEW i \in 1..Len(writer'), NEW j \in 1..Len(writer'), i < j
        PROVE  writer'[i].content <= writer'[j].content
    <3>1. i + d < j + d
      BY <1>4, <2>1
    <3>2. QED
      BY <1>1, <1>5, <2>1, <3>1 DEF TopicInOrder
  <2>2. \A j \in 1..Len(writer') : data.format = "proto" => data.content <= writer'[j].content
    BY <1>1, <1>5, <1>7 DEF TopicInOrder
  <2>3. \A i \in 1..Len(wire) : wire[i].format = "proto" /\ data.format = "proto" => wire[i].content <= data.content
    BY <1>1, <1>5, <1>7 DEF TopicInOrder
  <2>4. ASSUME NEW i \in 1..Len(wire'), NEW j \in 1..Len(writer'), wire'[i].format = "proto"
        PROVE  wire'[i].content <= writer'[j].content
    <3>1. CASE i \in 1..Len(wire) /\ wire'[i] = wire[i]
      <4>1. j + d \in 1..Len(writer) /\ writer'[j] = writer[j + d]
        BY <1>5
      <4>2. \A k \in 1..Len(writer) : wire[i].content <= writer[k].content
        BY <1>1, <2>4, <3>1 DEF TopicInOrder
      <4>3. QED
        BY <3>1, <4>1, <4>2
    <3>2. CASE wire'[i] = data
      BY <2>2, <2>4, <3>2
    <3>3. QED
      BY <1>11, <3>1, <3>2
  <2>5. data.format = "proto" => data.content <= data.content
    BY <1>2, <1>7 DEF Original
  <2>6. ASSUME NEW i \in 1..Len(wire'), NEW j \in 1..Len(wire'), i < j,
               wire'[i].format = "proto", wire'[j].format = "proto"
        PROVE  wire'[i].content <= wire'[j].content
    <3>1. CASE i \in 1..Len(wire) /\ wire'[i] = wire[i]
      <4>1. CASE j \in 1..Len(wire) /\ wire'[j] = wire[j]
        BY <1>1, <2>6, <3>1, <4>1 DEF TopicInOrder
      <4>2. CASE wire'[j] = data
        BY <2>3, <2>6, <3>1, <4>2
      <4>3. QED
        BY <1>11, <4>1, <4>2
    <3>2. CASE i > Len(wire) /\ wire'[i] = data
      <4>1. j \notin 1..Len(wire)
        BY <1>11, <2>6, <3>2
      <4>2. wire'[j] = data
        BY <1>11, <4>1
      <4>3. QED
        BY <2>5, <2>6, <3>2, <4>2
    <3>3. QED
      BY <1>11, <3>1, <3>2
  <2>7. QED
    BY <2>1, <2>4, <2>6 DEF TopicInOrder
<1>20. QED
  BY <1>14, <1>17, <1>18, <1>19 DEF IngestInv

\* A sender publishes: its message is the latest of its messages on every bus.
LEMMA Published ==
    ASSUME IngestInv, NEW s \in Senders, Publish(s)
    PROVE  IngestInv'
<1>1. IngestTypes /\ TopicInOrder /\ NodesInOrder
  BY DEF IngestInv
<1>2. /\ calls = [x \in Senders |-> calls[x]]
      /\ \A x \in Senders : calls[x] = Idle \/ (calls[x] \in Call /\ calls[x].payload.sender = x)
      /\ bus \in [Nodes -> Seq(Sent)] /\ live \in [Nodes -> Seq(Shown)]
      /\ sends \in 0..MaxSends /\ pos \in Nat \ {0}
  BY <1>1 DEF IngestTypes
<1>3. /\ calls[s].step = "publish" /\ calls' = [calls EXCEPT ![s] = Idle]
      /\ UNCHANGED <<writer, wire, log, pos, live, archived, sends>>
  BY DEF Publish, vars
<1>4. /\ calls' = [x \in Senders |-> calls'[x]]
      /\ \A x \in Senders : calls'[x] = IF x = s THEN Idle ELSE calls[x]
  BY <1>2, <1>3
<1>5. CASE bus' = bus
  <2>1. /\ \A x \in Senders : calls'[x] = calls[x] \/ calls'[x] = Idle
        /\ sends' \in 0..MaxSends /\ sends' >= sends /\ pos' \in Nat \ {0}
    BY <1>2, <1>3, <1>4, IngestAssumption
  <2>2. UNCHANGED <<writer, wire, log, bus, live, archived>>
    BY <1>3, <1>5
  <2>3. QED
    BY <1>4, <2>1, <2>2, NothingAdded
<1>6. CASE bus' = [n \in Nodes |-> Append(bus[n], calls[s].payload)]
  <2>1. calls[s] # Idle
    BY <1>3 DEF Idle
  <2>2. PICK p : p = calls[s].payload
    OBVIOUS
  <2>3. p \in Sent /\ p.sender = s
    BY <1>2, <2>1, <2>2 DEF Call
  <2>4. PICK f : Origins(f)
    BY DEF IngestInv
  <2>5. Original(f, p)
    BY <2>1, <2>2, <2>4 DEF Origins
  <2>6. \A data : Original(f, data) => Original(f, data)'
    BY <1>3 DEF Original
  <2>7. \A n \in Nodes : bus'[n] = Append(bus[n], p)
    BY <1>6, <2>2
  <2>8. ASSUME NEW n \in Nodes
        PROVE  /\ bus'[n] \in Seq(Sent) /\ Len(bus[n]) \in Nat
               /\ \A i \in 1..Len(bus'[n]) : \/ i \in 1..Len(bus[n]) /\ bus'[n][i] = bus[n][i]
                                             \/ i = Len(bus[n]) + 1 /\ bus'[n][i] = p
    <3>1. bus[n] \in Seq(Sent)
      BY <1>2
    <3>2. PICK q \in Seq(Sent) : q = bus[n]
      BY <3>1
    <3>3. PICK r : r = bus'[n]
      OBVIOUS
    <3>4. r = Append(q, p)
      BY <2>7, <3>2, <3>3
    <3>5. /\ r \in Seq(Sent) /\ Len(q) \in Nat
          /\ \A i \in 1..Len(r) : (i \in 1..Len(q) /\ r[i] = q[i]) \/ (i = Len(q) + 1 /\ r[i] = p)
      BY <2>3, <3>4, Appended
    <3>6. QED
      BY <3>2, <3>3, <3>5
  <2>9. bus' \in [Nodes -> Seq(Sent)]
    BY <1>6, <2>8
  <2>10. IngestTypes'
    BY <1>1, <1>3, <1>4, <2>9 DEF IngestTypes
  <2>11. TopicInOrder'
    BY <1>1, <1>3 DEF TopicInOrder
  <2>12. \A x \in Senders : calls'[x] # Idle => calls'[x] = calls[x] /\ calls[x] # Idle
    BY <1>4
  <2>13. Origins(f)'
    <3>1. \A n \in Nodes : \A i \in 1..Len(bus'[n]) : Original(f, bus[n][i])'
      <4>1. \A n \in Nodes : \A i \in 1..Len(bus[n]) : Original(f, bus[n][i])
        BY <2>4 DEF Origins
      <4>2. QED
        BY <1>3, <2>5, <2>8, <4>1 DEF Original
    <3>2. \A x \in Senders : calls'[x] # Idle => Original(f, calls[x].payload)'
      BY <1>3, <2>4, <2>12 DEF Origins, Original
    <3>3. QED
      BY <1>3, <2>4, <3>1, <3>2 DEF Origins, Original
  <2>14. NodesInOrder'
    <3> SUFFICES ASSUME NEW n \in Nodes
                 PROVE  /\ InOrder(bus'[n]) /\ InOrder(live'[n])
                        /\ \A i \in 1..Len(live'[n]), j \in 1..Len(bus'[n]) :
                            live'[n][i].sender = bus'[n][j].sender => live'[n][i].content <= bus'[n][j].content
                        /\ \A x \in Senders : calls'[x] # Idle =>
                            /\ \A i \in 1..Len(bus'[n]) :
                                bus'[n][i].sender = x => bus'[n][i].content <= calls'[x].payload.content
                            /\ \A i \in 1..Len(live'[n]) :
                                live'[n][i].sender = x => live'[n][i].content <= calls'[x].payload.content
      BY DEF NodesInOrder
    <3>1. /\ InOrder(bus[n]) /\ InOrder(live[n])
          /\ \A i \in 1..Len(live[n]), j \in 1..Len(bus[n]) :
              live[n][i].sender = bus[n][j].sender => live[n][i].content <= bus[n][j].content
          /\ \A x \in Senders : calls[x] # Idle =>
              /\ \A i \in 1..Len(bus[n]) :
                  bus[n][i].sender = x => bus[n][i].content <= calls[x].payload.content
              /\ \A i \in 1..Len(live[n]) :
                  live[n][i].sender = x => live[n][i].content <= calls[x].payload.content
      BY <1>1 DEF NodesInOrder
    <3>2. /\ \A i \in 1..Len(bus[n]) : bus[n][i].sender = s => bus[n][i].content <= p.content
          /\ \A i \in 1..Len(live[n]) : live[n][i].sender = s => live[n][i].content <= p.content
      BY <2>1, <2>2, <3>1
    <3>3. live'[n] = live[n]
      BY <1>3
    <3>4. DOMAIN bus[n] = 1..Len(bus[n]) /\ DOMAIN bus'[n] = 1..Len(bus'[n])
      BY <1>2, <2>9
    <3>5. ASSUME NEW i \in 1..Len(bus'[n]), NEW j \in 1..Len(bus'[n]), i < j,
                 bus'[n][i].sender = bus'[n][j].sender
          PROVE  bus'[n][i].content <= bus'[n][j].content
      <4>1. i \in 1..Len(bus[n]) /\ bus'[n][i] = bus[n][i]
        <5>1. i \in Nat /\ j \in Nat /\ j <= Len(bus[n]) + 1
          BY <2>8
        <5>2. i # Len(bus[n]) + 1
          BY <2>8, <3>5, <5>1
        <5>3. QED
          BY <2>8, <5>2
      <4>2. CASE j \in 1..Len(bus[n]) /\ bus'[n][j] = bus[n][j]
        BY <3>1, <3>4, <3>5, <4>1, <4>2 DEF InOrder
      <4>3. CASE bus'[n][j] = p
        BY <2>3, <3>2, <3>5, <4>1, <4>3
      <4>4. QED
        BY <2>8, <4>2, <4>3
    <3>6. InOrder(bus'[n])
      BY <3>4, <3>5 DEF InOrder
    <3>7. ASSUME NEW i \in 1..Len(live[n]), NEW j \in 1..Len(bus'[n]),
                 live[n][i].sender = bus'[n][j].sender
          PROVE  live[n][i].content <= bus'[n][j].content
      <4>1. CASE j \in 1..Len(bus[n]) /\ bus'[n][j] = bus[n][j]
        BY <3>1, <3>7, <4>1
      <4>2. CASE bus'[n][j] = p
        BY <2>3, <3>2, <3>7, <4>2
      <4>3. QED
        BY <2>8, <4>1, <4>2
    <3>8. ASSUME NEW x \in Senders, calls'[x] # Idle
          PROVE  /\ \A i \in 1..Len(bus'[n]) :
                     bus'[n][i].sender = x => bus'[n][i].content <= calls'[x].payload.content
                 /\ \A i \in 1..Len(live[n]) :
                     live[n][i].sender = x => live[n][i].content <= calls'[x].payload.content
      <4>1. calls'[x] = calls[x] /\ calls[x] # Idle /\ x # s
        BY <1>4, <3>8
      <4>2. \A i \in 1..Len(bus'[n]) : bus'[n][i].sender = x =>
               i \in 1..Len(bus[n]) /\ bus'[n][i] = bus[n][i]
        BY <2>3, <2>8, <4>1
      <4>3. QED
        BY <3>1, <4>1, <4>2
    <3>9. QED
      BY <3>1, <3>3, <3>6, <3>7, <3>8
  <2>15. QED
    BY <2>10, <2>11, <2>13, <2>14 DEF IngestInv
<1>7. QED
  BY <1>5, <1>6 DEF Publish

\* A listener takes the oldest message of its bus and shows it.
LEMMA ListenerShows ==
    ASSUME IngestInv, NEW n \in Nodes, StartGlobalListener(n)
    PROVE  IngestInv'
<1>1. IngestTypes /\ TopicInOrder /\ NodesInOrder
  BY DEF IngestInv
<1>2. /\ bus \in [Nodes -> Seq(Sent)] /\ live \in [Nodes -> Seq(Shown)] /\ sends \in Nat
  BY <1>1, IngestAssumption DEF IngestTypes
<1>3. PICK f : Origins(f)
  BY DEF IngestInv
<1>4. /\ bus[n] # <<>> /\ bus' = [bus EXCEPT ![n] = Tail(bus[n])]
      /\ UNCHANGED <<log, pos, sends, calls, writer, wire, archived>>
      /\ live' = IF Unmarshal(Head(bus[n]), now) = Invalid THEN live
                 ELSE [live EXCEPT ![n] = Append(live[n], Unmarshal(Head(bus[n]), now))]
  BY DEF StartGlobalListener, vars
<1>5. bus[n] \in Seq(Sent) /\ live[n] \in Seq(Shown)
  BY <1>2
<1>6. PICK data : data = Head(bus[n])
  OBVIOUS
<1>7. /\ data \in Sent /\ Tail(bus[n]) \in Seq(Sent) /\ 1 \in 1..Len(bus[n]) /\ data = bus[n][1]
      /\ \A i \in 1..Len(Tail(bus[n])) :
            i + 1 \in 1..Len(bus[n]) /\ i \in Nat /\ Tail(bus[n])[i] = bus[n][i + 1] /\ 1 < i + 1
  BY <1>4, <1>5, <1>6, Shortened
<1>8. Original(f, data)
  BY <1>3, <1>7 DEF Origins
<1>9. data.ns > 0 /\ data.content \in 1..sends /\ data = f[data.content]
  BY <1>2, <1>8 DEF Original
<1>10. PICK msg : msg = ShownOf(data)
  OBVIOUS
<1>11. /\ Unmarshal(data, now) = msg /\ msg # Invalid /\ msg \in Shown
       /\ msg.content = data.content /\ msg.sender = data.sender
  <2>1. Unmarshal(data, now) = msg /\ msg # Invalid /\ msg \in Shown
    BY <1>7, <1>9, <1>10, SentIsShown
  <2>2. QED
    BY <1>10, <2>1 DEF ShownOf
<1>12. live' = [live EXCEPT ![n] = Append(live[n], msg)]
  BY <1>4, <1>6, <1>11
<1>13. PICK q : q = bus'[n]
  OBVIOUS
<1>14. PICK l : l = live'[n]
  OBVIOUS
<1>15. /\ q \in Seq(Sent) /\ Len(q) \in Nat
       /\ \A i \in 1..Len(q) : i + 1 \in 1..Len(bus[n]) /\ i \in Nat /\ q[i] = bus[n][i + 1] /\ 1 < i + 1
  <2>1. q = Tail(bus[n])
    BY <1>2, <1>4, <1>13
  <2>2. QED
    BY <1>7, <2>1
<1>16. /\ l \in Seq(Shown) /\ Len(live[n]) \in Nat
       /\ \A i \in 1..Len(l) : \/ i \in 1..Len(live[n]) /\ l[i] = live[n][i]
                               \/ i = Len(live[n]) + 1 /\ l[i] = msg
  <2>1. l = Append(live[n], msg)
    BY <1>2, <1>12, <1>14
  <2>2. QED
    BY <1>5, <1>11, <2>1, Appended
<1>17. /\ \A m \in Nodes : bus'[m] = IF m = n THEN q ELSE bus[m]
       /\ \A m \in Nodes : live'[m] = IF m = n THEN l ELSE live[m]
       /\ bus' \in [Nodes -> Seq(Sent)] /\ live' \in [Nodes -> Seq(Shown)]
  <2>1. q = Tail(bus[n]) /\ l = Append(live[n], msg)
    BY <1>2, <1>4, <1>12, <1>13, <1>14
  <2>2. QED
    BY <1>2, <1>4, <1>12, <1>15, <1>16, <2>1
<1>18. IngestTypes'
  BY <1>1, <1>4, <1>17 DEF IngestTypes
<1>19. TopicInOrder'
  BY <1>1, <1>4 DEF TopicInOrder
<1>20. Origins(f)'
  <2>1. \A m \in Nodes : \A i \in 1..Len(bus'[m]) : Original(f, bus[m][i])'
    <3>1. \A m \in Nodes : \A i \in 1..Len(bus[m]) : Original(f, bus[m][i])
      BY <1>3 DEF Origins
    <3>2. \A m \in Nodes : \A i \in 1..Len(bus'[m]) : \E k \in 1..Len(bus[m]) : bus'[m][i] = bus[m][k]
      BY <1>15, <1>17
    <3>3. QED
      BY <1>4, <3>1, <3>2 DEF Original
  <2>2. \A m \in Nodes : \A i \in 1..Len(live'[m]) :
          live'[m][i].content \in 1..sends' /\ live'[m][i] = ShownOf(f[live'[m][i].content])
    <3>1. \A m \in Nodes : \A i \in 1..Len(live[m]) :
            live[m][i].content \in 1..sends /\ live[m][i] = ShownOf(f[live[m][i].content])
      BY <1>3 DEF Origins
    <3>2. msg.content \in 1..sends /\ msg = ShownOf(f[msg.content])
      BY <1>9, <1>10, <1>11
    <3>3. \A i \in 1..Len(l) : l[i].content \in 1..sends /\ l[i] = ShownOf(f[l[i].content])
      BY <1>16, <3>1, <3>2
    <3>4. ASSUME NEW m \in Nodes, NEW i \in 1..Len(live'[m])
          PROVE  live'[m][i].content \in 1..sends /\ live'[m][i] = ShownOf(f[live'[m][i].content])
      <4>1. CASE m = n
        <5>1. live'[m] = l
          BY <1>17, <4>1
        <5>2. QED
          BY <3>3, <3>4, <5>1
      <4>2. CASE m # n
        <5>1. live'[m] = live[m]
          BY <1>17, <4>2
        <5>2. QED
          BY <3>1, <3>4, <5>1
      <4>3. QED
        BY <4>1, <4>2
    <3>5. QED
      BY <1>4, <3>4
  <2>3. /\ \A s \in Senders : calls'[s] # Idle => Original(f, calls[s].payload)'
        /\ \A i \in 1..Len(writer') : Original(f, writer[i])'
        /\ \A i \in 1..Len(wire') : wire'[i].format = "proto" => Original(f, wire[i])'
    BY <1>3, <1>4 DEF Origins, Original
  <2>4. QED
    BY <1>3, <1>4, <2>1, <2>2, <2>3 DEF Origins
<1>21. NodesInOrder'
  <2> SUFFICES ASSUME NEW m \in Nodes
               PROVE  /\ InOrder(bus'[m]) /\ InOrder(live'[m])
                      /\ \A i \in 1..Len(live'[m]), j \in 1..Len(bus'[m]) :
                          live'[m][i].sender = bus'[m][j].sender => live'[m][i].content <= bus'[m][j].content
                      /\ \A x \in Senders : calls'[x] # Idle =>
                          /\ \A i \in 1..Len(bus'[m]) :
                              bus'[m][i].sender = x => bus'[m][i].content <= calls'[x].payload.content
                          /\ \A i \in 1..Len(live'[m]) :
                              live'[m][i].sender = x => live'[m][i].content <= calls'[x].payload.content
    BY DEF NodesInOrder
  <2>1. CASE m # n
    <3>1. bus'[m] = bus[m] /\ live'[m] = live[m]
      BY <1>17, <2>1
    <3>2. calls' = calls
      BY <1>4
    <3>3. /\ InOrder(bus[m]) /\ InOrder(live[m])
          /\ \A i \in 1..Len(live[m]), j \in 1..Len(bus[m]) :
              live[m][i].sender = bus[m][j].sender => live[m][i].content <= bus[m][j].content
          /\ \A x \in Senders : calls[x] # Idle =>
              /\ \A i \in 1..Len(bus[m]) :
                  bus[m][i].sender = x => bus[m][i].content <= calls[x].payload.content
              /\ \A i \in 1..Len(live[m]) :
                  live[m][i].sender = x => live[m][i].content <= calls[x].payload.content
      BY <1>1 DEF NodesInOrder
    <3>4. QED
      BY ONLY <3>1, <3>2, <3>3
  <2>2. CASE m = n
    <3>1. bus'[m] = q /\ live'[m] = l
      BY <1>17, <2>2
    <3>2. /\ InOrder(bus[n]) /\ InOrder(live[n])
          /\ \A i \in 1..Len(live[n]), j \in 1..Len(bus[n]) :
              live[n][i].sender = bus[n][j].sender => live[n][i].content <= bus[n][j].content
          /\ \A x \in Senders : calls[x] # Idle =>
              /\ \A i \in 1..Len(bus[n]) :
                  bus[n][i].sender = x => bus[n][i].content <= calls[x].payload.content
              /\ \A i \in 1..Len(live[n]) :
                  live[n][i].sender = x => live[n][i].content <= calls[x].payload.content
      BY <1>1 DEF NodesInOrder
    <3>3. /\ DOMAIN bus[n] = 1..Len(bus[n]) /\ DOMAIN live[n] = 1..Len(live[n])
          /\ DOMAIN q = 1..Len(q) /\ DOMAIN l = 1..Len(l)
      BY <1>5, <1>15, <1>16
    <3>4. ASSUME NEW i \in 1..Len(q), NEW j \in 1..Len(q), i < j, q[i].sender = q[j].sender
          PROVE  q[i].content <= q[j].content
      <4>1. i + 1 \in 1..Len(bus[n]) /\ j + 1 \in 1..Len(bus[n]) /\ i + 1 < j + 1
        BY <1>15, <3>4
      <4>2. q[i] = bus[n][i + 1] /\ q[j] = bus[n][j + 1]
        BY <1>15
      <4>3. QED
        BY <3>2, <3>3, <3>4, <4>1, <4>2 DEF InOrder
    <3>5. InOrder(q)
      BY <3>3, <3>4 DEF InOrder
    <3>6. \A j \in 1..Len(q) : msg.sender = q[j].sender => msg.content <= q[j].content
      <4> SUFFICES ASSUME NEW j \in 1..Len(q), msg.sender = q[j].sender
                   PROVE  msg.content <= q[j].content
        OBVIOUS
      <4>1. j + 1 \in 1..Len(bus[n]) /\ q[j] = bus[n][j + 1] /\ 1 < j + 1
        BY <1>15
      <4>2. QED
        BY <1>7, <1>11, <3>2, <3>3, <4>1 DEF InOrder
    <3>7. \A i \in 1..Len(live[n]) : live[n][i].sender = msg.sender => live[n][i].content <= msg.content
      BY <1>7, <1>11, <3>2
    <3>8. ASSUME NEW i \in 1..Len(l), NEW j \in 1..Len(l), i < j, l[i].sender = l[j].sender
          PROVE  l[i].content <= l[j].content
      <4>1. i \in 1..Len(live[n]) /\ l[i] = live[n][i]
        <5>1. i \in Nat /\ j \in Nat /\ j <= Len(live[n]) + 1
          BY <1>16
        <5>2. i # Len(live[n]) + 1
          BY <1>16, <3>8, <5>1
        <5>3. QED
          BY <1>16, <5>2
      <4>2. CASE j \in 1..Len(live[n]) /\ l[j] = live[n][j]
        BY <3>2, <3>3, <3>8, <4>1, <4>2 DEF InOrder
      <4>3. CASE l[j] = msg
        BY <3>7, <3>8, <4>1, <4>3
      <4>4. QED
        BY <1>16, <4>2, <4>3
    <3>9. InOrder(l)
      BY <3>3, <3>8 DEF InOrder
    <3>10. ASSUME NEW i \in 1..Len(l), NEW j \in 1..Len(q), l[i].sender = q[j].sender
           PROVE  l[i].content <= q[j].content
      <4>1. CASE i \in 1..Len(live[n]) /\ l[i] = live[n][i]
        <5>1. j + 1 \in 1..Len(bus[n]) /\ q[j] = bus[n][j + 1]
          BY <1>15
        <5>2. QED
          BY <3>2, <3>10, <4>1, <5>1
      <4>2. CASE l[i] = msg
        BY <3>6, <3>10, <4>2
      <4>3. QED
        BY <1>16, <4>1, <4>2
    <3>11. ASSUME NEW x \in Senders, calls'[x] # Idle
           PROVE  /\ \A i \in 1..Len(q) : q[i].sender = x => q[i].content <= calls'[x].payload.content
                  /\ \A i \in 1..Len(l) : l[i].sender = x => l[i].content <= calls'[x].payload.content
      <4>1. calls'[x] = calls[x] /\ calls[x] # Idle
        BY <1>4, <3>11
      <4>2. \A i \in 1..Len(q) : i + 1 \in 1..Len(bus[n]) /\ q[i] = bus[n][i + 1]
        BY <1>15
      <4>3. \A i \in 1..Len(bus[n]) : bus[n][i].sender = x => bus[n][i].content <= calls[x].payload.content
        BY <3>2, <4>1
      <4>4. \A i \in 1..Len(q) : q[i].sender = x => q[i].content <= calls[x].payload.content
        BY <4>2, <4>3
      <4>5. msg.sender = x => msg.content <= calls[x].payload.content
        BY <1>7, <1>11, <4>3
      <4>6. \A i \in 1..Len(live[n]) : live[n][i].sender = x => live[n][i].content <= calls[x].payload.content
        BY <3>2, <4>1
      <4>7. \A i \in 1..Len(l) : l[i].sender = x => l[i].content <= calls[x].payload.content
        BY <1>16, <4>5, <4>6
      <4>8. QED
        BY <4>1, <4>4, <4>7
    <3>12. QED
      BY <3>1, <3>5, <3>9, <3>10, <3>11
  <2>3. QED
    BY <2>1, <2>2
<1>22. QED
  BY <1>18, <1>19, <1>20, <1>21 DEF IngestInv

\* The archiver reads a value of the topic.
LEMMA ArchiverReads ==
    ASSUME IngestInv, ReadMessage
    PROVE  IngestInv'
<1>1. IngestTypes /\ TopicInOrder /\ NodesInOrder
  BY DEF IngestInv
<1>2. /\ sends \in 0..MaxSends /\ MaxSends \in Nat /\ wire \in Seq(Sent \cup Foreign)
      /\ pos \in Nat \ {0} /\ Len(log) = Len(wire)
      /\ archived = [o \in 1..MaxLog |-> archived[o]]
  BY <1>1, IngestAssumption DEF IngestTypes
<1>3. PICK f : Origins(f)
  BY DEF IngestInv
<1>4. /\ pos <= Len(log) /\ pos' = pos + 1
      /\ UNCHANGED <<log, sends, calls, writer, wire, bus, live>>
      /\ archived' = [archived EXCEPT ![pos] = Unmarshal(wire[pos], now)]
  BY DEF ReadMessage, Read
<1>5. pos \in 1..Len(wire)
  BY <1>2, <1>4
<1>6. PICK data : data = wire[pos]
  OBVIOUS
<1>7. data \in Sent \cup Foreign
  BY <1>2, <1>5, <1>6
<1>8. PICK msg : msg = Unmarshal(data, now)
  OBVIOUS
<1>9. \/ msg = Invalid \/ msg.content \notin 1..MaxSends
      \/ msg.content \in 1..sends /\ msg = ShownOf(f[msg.content])
  <2>1. CASE data \in Foreign
    BY <1>8, <2>1, ForeignIsOther
  <2>2. CASE data \in Sent
    <3>1. data.format = "proto"
      BY <2>2 DEF Sent
    <3>2. Original(f, data)
      BY <1>3, <1>5, <1>6, <3>1 DEF Origins
    <3>3. data.ns > 0 /\ data.content \in 1..sends /\ data = f[data.content]
      BY <1>2, <3>2 DEF Original
    <3>4. msg = ShownOf(data)
      BY <1>8, <2>2, <3>3, SentIsShown
    <3>5. msg.content = data.content
      BY <3>4 DEF ShownOf
    <3>6. QED
      BY <3>3, <3>4, <3>5
  <2>3. QED
    BY <1>7, <2>1, <2>2
<1>10. /\ archived' = [o \in 1..MaxLog |-> archived'[o]]
       /\ \A o \in 1..MaxLog : archived'[o] = IF o = pos THEN msg ELSE archived[o]
  BY <1>2, <1>4, <1>6, <1>8
<1>11. IngestTypes'
  BY <1>1, <1>2, <1>4, <1>10 DEF IngestTypes
<1>12. Origins(f)'
  <2>1. \A o \in 1..MaxLog :
          \/ archived'[o] = Invalid \/ archived'[o].content \notin 1..MaxSends
          \/ archived'[o].content \in 1..sends' /\ archived'[o] = ShownOf(f[archived'[o].content])
    <3>1. \A o \in 1..MaxLog :
            \/ archived[o] = Invalid \/ archived[o].content \notin 1..MaxSends
            \/ archived[o].content \in 1..sends /\ archived[o] = ShownOf(f[archived[o].content])
      BY <1>3 DEF Origins
    <3>2. QED
      BY <1>4, <1>9, <1>10, <3>1
  <2>2. QED
    BY <1>3, <1>4, <2>1 DEF Origins, Original
<1>13. TopicInOrder' /\ NodesInOrder'
  BY <1>1, <1>4 DEF TopicInOrder, NodesInOrder, InOrder
<1>14. QED
  BY <1>11, <1>12, <1>13 DEF IngestInv

----------------------------------------------------------------------------
\* Every step keeps the invariant.
LEMMA IngestStep ==
    ASSUME IngestInv, [IngestNext]_<<vars, ingestVars>>
    PROVE  IngestInv'
<1>1. IngestTypes
  BY DEF IngestInv
<1>2. /\ sends \in 0..MaxSends /\ MaxSends \in Nat /\ pos \in Nat \ {0}
      /\ calls = [s \in Senders |-> calls[s]]
      /\ \A s \in Senders : calls[s] = Idle \/ (calls[s] \in Call /\ calls[s].payload.sender = s)
  BY <1>1, IngestAssumption DEF IngestTypes
<1>3. ASSUME sends' = sends, calls' = calls, UNCHANGED <<log, pos, writer, wire, bus, live, archived>>
      PROVE  IngestInv'
  <2>1. sends' \in 0..MaxSends /\ sends' >= sends /\ pos' \in Nat \ {0} /\ calls' = [s \in Senders |-> calls'[s]]
    BY <1>2, <1>3
  <2>2. UNCHANGED <<writer, wire, log, bus, live, archived>> /\ \A s \in Senders : calls'[s] = calls[s]
    BY <1>3
  <2>3. QED
    BY <2>1, <2>2, NothingAdded
<1>4. ASSUME NEW s \in Connections, NEW json \in BOOLEAN, NEW cid \in IdsOf[s] \cup {NoId}, ReadPump(s, json, cid)
      PROVE  IngestInv'
  <2>1. s \in Senders /\ IdsOf[s] \subseteq ClientMsgIDs
    BY IngestAssumption DEF Senders
  <2>2. /\ calls[s] = Idle /\ sends < MaxSends /\ sends' = sends + 1
        /\ UNCHANGED <<wire, log, pos, bus, live, archived>>
    BY <1>4 DEF ReadPump, vars
  <2>3. CASE json /\ cid # NoId
    <3>1. cid \in ClientMsgIDs /\ HandleIncomingMessage(s, cid)
      BY <1>4, <2>1, <2>3 DEF ReadPump
    <3>2. QED
      BY <2>1, <2>2, <3>1, MessageSent
  <2>4. CASE ~(json /\ cid # NoId)
    <3>1. calls' = calls /\ writer' = writer
      BY <1>4, <2>4 DEF ReadPump
    <3>2. sends' \in 0..MaxSends /\ sends' >= sends /\ pos' \in Nat \ {0} /\ calls' = [x \in Senders |-> calls'[x]]
      BY <1>2, <2>2, <3>1
    <3>3. UNCHANGED <<writer, wire, log, bus, live, archived>> /\ \A x \in Senders : calls'[x] = calls[x]
      BY <2>2, <3>1
    <3>4. QED
      BY <3>2, <3>3, NothingAdded
  <2>5. QED
    BY <2>3, <2>4
<1>5. ASSUME NEW given \in IdsOf[Agent] \cup {NoId}, NEW generated \in IdsOf[Agent], SendReply(given, generated)
      PROVE  IngestInv'
  <2>1. Agent \in Senders /\ IdsOf[Agent] \subseteq ClientMsgIDs
    BY IngestAssumption DEF Senders
  <2>2. /\ calls[Agent] = Idle /\ sends < MaxSends /\ sends' = sends + 1
        /\ UNCHANGED <<wire, log, pos, bus, live, archived>>
    BY <1>5 DEF SendReply, vars
  <2>3. PICK cid : cid = IF given = NoId THEN generated ELSE given
    OBVIOUS
  <2>4. cid \in ClientMsgIDs /\ HandleIncomingMessage(Agent, cid)
    BY <1>5, <2>1, <2>3 DEF SendReply
  <2>5. QED
    BY <2>1, <2>2, <2>4, MessageSent
<1>6. ASSUME NEW copies \in 0..2, NEW ok \in BOOLEAN, WriterDone(copies, ok)
      PROVE  IngestInv'
  <2>1. PICK data : data = Head(writer)
    OBVIOUS
  <2>2. writer \in Seq(Sent)
    BY <1>1 DEF IngestTypes
  <2>3. /\ writer # <<>> /\ Written(data, copies) /\ writer' = Tail(writer)
        /\ UNCHANGED <<bus, live, archived>> /\ sends' = sends
    BY <1>6, <2>1 DEF WriterDone
  <2>4. data \in Sent
    BY <2>1, <2>2, <2>3, Shortened
  <2>5. PICK s : s = data.sender
    OBVIOUS
  <2>6. s \in Senders
    BY <2>4, <2>5 DEF Sent
  <2>7. \/ calls' = calls
        \/ calls[s].step = "wait" /\ calls' = [calls EXCEPT ![s] = Answered(calls[s], ok)]
    BY <1>6, <2>1, <2>5 DEF WriterDone
  <2>8. /\ calls' = [x \in Senders |-> calls'[x]]
        /\ \A x \in Senders : \/ calls'[x] = calls[x] \/ calls'[x] = Idle
                              \/ calls[x] # Idle /\ calls'[x] \in Call /\ calls'[x].payload = calls[x].payload
    <3>1. CASE calls' = calls
      BY <1>2, <3>1
    <3>2. CASE calls[s].step = "wait" /\ calls' = [calls EXCEPT ![s] = Answered(calls[s], ok)]
      <4>1. calls[s] # Idle
        BY <3>2 DEF Idle
      <4>2. calls[s] \in Call
        BY <1>2, <2>6, <4>1
      <4>3. Answered(calls[s], ok) = Idle \/ Answered(calls[s], ok) = [calls[s] EXCEPT !.step = "publish"]
        BY DEF Answered
      <4>4. /\ [calls[s] EXCEPT !.step = "publish"] \in Call
            /\ [calls[s] EXCEPT !.step = "publish"].payload = calls[s].payload
        BY <4>2 DEF Call
      <4>5. calls' = [x \in Senders |-> calls'[x]] /\ \A x \in Senders :
               calls'[x] = IF x = s THEN Answered(calls[s], ok) ELSE calls[x]
        BY <1>2, <3>2
      <4>6. QED
        BY <4>1, <4>3, <4>4, <4>5
    <3>3. QED
      BY <2>7, <3>1, <3>2
  <2>9. sends' \in 0..MaxSends /\ sends' >= sends
    BY <1>2, <2>3
  <2>10. QED
    BY <2>1, <2>3, <2>8, <2>9, ValueWritten
<1>7. ASSUME NEW s \in Senders, WriteTimesOut(s)
      PROVE  IngestInv'
  <2>1. /\ calls' = [calls EXCEPT ![s] = Answered(calls[s], FALSE)] /\ sends' = sends
        /\ UNCHANGED <<log, pos, writer, wire, bus, live, archived>>
    BY <1>7 DEF WriteTimesOut, vars
  <2>2. Answered(calls[s], FALSE) = Idle
    BY DEF Answered
  <2>3. /\ calls' = [x \in Senders |-> calls'[x]]
        /\ \A x \in Senders : calls'[x] = calls[x] \/ calls'[x] = Idle
    BY <1>2, <2>1, <2>2
  <2>4. /\ sends' \in 0..MaxSends /\ sends' >= sends /\ pos' \in Nat \ {0}
        /\ UNCHANGED <<writer, wire, log, bus, live, archived>>
    BY <1>2, <2>1
  <2>5. QED
    BY <2>3, <2>4, NothingAdded
<1>8. ASSUME NEW data \in Foreign, ForeignWrite(data)
      PROVE  IngestInv'
  <2>1. /\ sends < MaxSends /\ sends' = sends + 1 /\ Written(data, 1)
        /\ UNCHANGED <<calls, writer, bus, live, archived>>
    BY <1>8 DEF ForeignWrite
  <2>2. /\ sends' \in 0..MaxSends /\ sends' >= sends /\ 1 \in 0..2
        /\ calls' = [x \in Senders |-> calls'[x]] /\ \A x \in Senders : calls'[x] = calls[x]
    BY <1>2, <2>1
  <2>3. UNCHANGED <<bus, live, archived>> /\ writer' = writer
    BY <2>1
  <2>4. QED
    BY <2>1, <2>2, <2>3, ValueWritten
<1>9. ASSUME ArchiverStep
      PROVE  IngestInv'
  <2>1. UNCHANGED ingestVars
    BY <1>9 DEF ArchiverStep
  <2>2. UNCHANGED <<log, pos>>
    BY <1>9 DEF ArchiverStep, Tick, TaskStep,
       SaveMessageBatch, SaveFails, IndexMessages, pushLatestToRedis, saveOffset
  <2>3. QED
    BY <1>3, <2>1, <2>2 DEF ingestVars
<1>10. CASE UNCHANGED <<vars, ingestVars>>
  BY <1>3, <1>10 DEF vars, ingestVars
<1>11. CASE IngestNext
  BY <1>4, <1>5, <1>6, <1>7, <1>8, <1>9, <1>11, Published, ListenerShows, ArchiverReads DEF IngestNext
<1>12. QED
  BY <1>10, <1>11

(***************************************************************************)
(* Every node shows a sender's messages in the order in which              *)
(* HandleIncomingMessage took them, the topic has them in that order, and  *)
(* what a node has shown and the archiver has read is the same message,    *)
(* for any number of senders, nodes, messages, faults and foreign values.  *)
(***************************************************************************)
THEOREM NodesAndTopicAgree == IngestSpec => []LiveAgrees
<1>1. IngestInit => IngestInv
  BY IngestInit0
<1>2. IngestInv /\ [IngestNext]_<<vars, ingestVars>> => IngestInv'
  BY IngestStep
<1>3. IngestInv => LiveAgrees
  BY AgreementFollows
<1>4. QED
  BY <1>1, <1>2, <1>3, PTL DEF IngestSpec
=============================================================================
