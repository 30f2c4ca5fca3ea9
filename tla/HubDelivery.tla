---------------------------- MODULE HubDelivery ----------------------------
(***************************************************************************)
(* The delivery path of the gateway's Hub                                  *)
(* (services/gateway/websocket/hub.go: Run, run, Publish, dispatchMessage, *)
(* requestEvict), with the Send queue of each client (client.go: TrySend,  *)
(* closeSend, WritePump) and the fan-out pool the shards share             *)
(* (shared/concurrency/taskpool/pool.go).                                  *)
(*                                                                         *)
(* The registry is here only what dispatchMessage sees of it, the client   *)
(* set of each room, and its calls are single steps: module Hub has their  *)
(* interleavings.                                                          *)
(*                                                                         *)
(* The Send queue of c is the part of got[c] after taken[c]: got keeps     *)
(* every message that was ever put on it.                                  *)
(***************************************************************************)
EXTENDS Naturals, Sequences, FiniteSets, SequencesExt

CONSTANTS
    Clients, Rooms, Shards,
    RoomShard,        \* shardForRoom: room -> shard
    UserShard,        \* shardForUser of the client's user: client -> shard
    ForwardCap,       \* capacity of hubShard.forward (1024)
    KillCap,          \* capacity of hubShard.killClient (64)
    SendCap,          \* capacity of Client.Send
    PoolSize,         \* workers of the fan-out pool
    FanoutThreshold, FanoutBatchSize,
    MaxMsgs           \* bound: messages published to a room

ASSUME HubDeliveryAssumption ==
    /\ RoomShard \in [Rooms -> Shards]
    /\ UserShard \in [Clients -> Shards]
    /\ {ForwardCap, KillCap, SendCap, PoolSize,
        FanoutThreshold, FanoutBatchSize} \subseteq Nat \ {0}
    /\ MaxMsgs \in Nat
    /\ IsFiniteSet(Clients)

Messages == Rooms \X (1..MaxMsgs)

VARIABLES
    state,      \* per client: "new", "active" (Client.active), "detached", or
                \* "leaving": detached by its own endpoint, Send not closed yet
    sendClosed, \* Client.sendClosed
    conn,       \* Client.Conn: "open" or "closed"
    rooms,      \* hubShard.rooms: room -> set of clients
    forward,    \* hubShard.forward
    killClient, \* hubShard.killClient
    loop,       \* where each shard loop is
    tasks,      \* fan-out tasks that occupy a worker
    got, taken, \* see above
    cancelled,  \* ctx is cancelled
    released,   \* the fan-out pool is released
    \* History, read by no guard of the code:
    published,  \* per room: messages Publish was called with
    accepted,   \* per room: the numbers of those that fitted into forward
    served,     \* per room: how many of them a shard loop has taken
    owed,       \* per client: messages dispatched while it was in the room
    missed      \* per client: messages whose TrySend failed

clientVars == <<state, sendClosed, conn>>
history == <<published, accepted, served, owed, missed>>
vars == <<clientVars, rooms, forward, killClient, loop, tasks, got, taken,
          cancelled, released, history>>

NoMessage == <<>>

\* A shard loop at pc, with the message it dispatches, the clients of its
\* snapshot not handed out yet, and the size of a batch.
Loop(pc, m, rest, size) == [pc |-> pc, msg |-> m, rest |-> rest, size |-> size]

Selecting == Loop("select", NoMessage, {}, 0)

\* A fan-out task: its shard's WaitGroup, the message, the clients to go.
Task(s, m, todo) == [shard |-> s, msg |-> m, todo |-> todo]

TypeOK ==
    /\ state \in [Clients -> {"new", "active", "leaving", "detached"}]
    /\ sendClosed \in [Clients -> BOOLEAN]
    /\ conn \in [Clients -> {"open", "closed"}]
    /\ rooms \in [Rooms -> SUBSET Clients]
    /\ forward \in [Shards -> Seq(Messages)]
    /\ \A s \in Shards : Len(forward[s]) <= ForwardCap
    /\ killClient \in [Shards -> Seq(Clients)]
    /\ \A s \in Shards : Len(killClient[s]) <= KillCap
    /\ loop \in [Shards -> [pc : {"select", "sync", "submit", "wait", "close", "exited"},
                            msg : Messages \cup {NoMessage},
                            rest : SUBSET Clients, size : Nat]]
    /\ tasks \in SUBSET [shard : Shards, msg : Messages, todo : SUBSET Clients]
    /\ Cardinality(tasks) <= PoolSize
    /\ got \in [Clients -> Seq(Messages)]
    /\ taken \in [Clients -> Nat]
    /\ \A c \in Clients : taken[c] <= Len(got[c]) /\ Len(got[c]) <= taken[c] + SendCap
    /\ cancelled \in BOOLEAN
    /\ released \in BOOLEAN
    /\ published \in [Rooms -> 0..MaxMsgs]
    /\ accepted \in [Rooms -> Seq(1..MaxMsgs)]
    /\ served \in [Rooms -> Nat]
    /\ owed \in [Clients -> SUBSET Messages]
    /\ missed \in [Clients -> SUBSET Messages]

Init ==
    /\ state = [c \in Clients |-> "new"]
    /\ sendClosed = [c \in Clients |-> FALSE]
    /\ conn = [c \in Clients |-> "open"]
    /\ rooms = [r \in Rooms |-> {}]
    /\ forward = [s \in Shards |-> <<>>]
    /\ killClient = [s \in Shards |-> <<>>]
    /\ loop = [s \in Shards |-> Selecting]
    /\ tasks = {}
    /\ got = [c \in Clients |-> <<>>]
    /\ taken = [c \in Clients |-> 0]
    /\ cancelled = FALSE
    /\ released = FALSE
    /\ published = [r \in Rooms |-> 0]
    /\ accepted = [r \in Rooms |-> <<>>]
    /\ served = [r \in Rooms |-> 0]
    /\ owed = [c \in Clients |-> {}]
    /\ missed = [c \in Clients |-> {}]

----------------------------------------------------------------------------
(***************************************************************************)
(* The registry, as dispatchMessage sees it.                               *)
(***************************************************************************)
Register(c, R) ==
    /\ state[c] = "new"
    /\ state' = [state EXCEPT ![c] = "active"]
    /\ rooms' = [r \in Rooms |-> IF r \in R THEN rooms[r] \cup {c} ELSE rooms[r]]
    /\ UNCHANGED <<sendClosed, conn, forward, killClient, loop, tasks, got, taken,
                   cancelled, released, history>>

JoinRoom(c, r) ==
    /\ state[c] = "active"
    /\ c \notin rooms[r]
    /\ rooms' = [rooms EXCEPT ![r] = @ \cup {c}]
    /\ UNCHANGED <<clientVars, forward, killClient, loop, tasks, got, taken,
                   cancelled, released, history>>

LeaveRoom(c, r) ==
    /\ state[c] = "active"
    /\ c \in rooms[r]
    /\ rooms' = [rooms EXCEPT ![r] = @ \ {c}]
    /\ UNCHANGED <<clientVars, forward, killClient, loop, tasks, got, taken,
                   cancelled, released, history>>

\* Unregister up to c.mu.Unlock(): the caller that finds the client active
\* takes it out of the registry.
Detach(c, next) ==
    /\ state' = [state EXCEPT ![c] = next]
    /\ rooms' = [r \in Rooms |-> rooms[r] \ {c}]

\* The deferred Unregister of ReadPump, once the connection is closed.
EndpointUnregister(c) ==
    /\ conn[c] = "closed"
    /\ state[c] = "active"
    /\ Detach(c, "leaving")
    /\ UNCHANGED <<sendClosed, conn, forward, killClient, loop, tasks, got, taken,
                   cancelled, released, history>>

EndpointCloseSend(c) ==
    /\ state[c] = "leaving"
    /\ state' = [state EXCEPT ![c] = "detached"]
    /\ sendClosed' = [sendClosed EXCEPT ![c] = TRUE]
    /\ UNCHANGED <<conn, rooms, forward, killClient, loop, tasks, got, taken,
                   cancelled, released, history>>

----------------------------------------------------------------------------
\* A faulty Publish that makes room by dropping the oldest queued message.
PublishDropOldest(r) ==
    LET s == RoomShard[r]
        n == published[r] + 1
        fits == Len(forward[s]) < ForwardCap
    IN  /\ ~cancelled
        /\ published[r] < MaxMsgs
        /\ published' = [published EXCEPT ![r] = n]
        /\ forward' = [forward EXCEPT ![s] =
                          Append(IF fits THEN @ ELSE Tail(@), <<r, n>>)]
        /\ accepted' = [accepted EXCEPT ![r] = Append(@, n)]
        /\ UNCHANGED <<clientVars, rooms, killClient, loop, tasks, got, taken,
                       cancelled, released, served, owed, missed>>

(***************************************************************************)
(* Publish: StartGlobalListener hands on what Redis delivers.              *)
(***************************************************************************)
Publish(r) ==
    LET s == RoomShard[r]
        n == published[r] + 1
        fits == Len(forward[s]) < ForwardCap
    IN  /\ ~cancelled
        /\ published[r] < MaxMsgs
        /\ published' = [published EXCEPT ![r] = n]
        /\ forward' = [forward EXCEPT ![s] = IF fits THEN Append(@, <<r, n>>) ELSE @]
        /\ accepted' = [accepted EXCEPT ![r] = IF fits THEN Append(@, n) ELSE @]
        /\ UNCHANGED <<clientVars, rooms, killClient, loop, tasks, got, taken,
                       cancelled, released, served, owed, missed>>

\* A faulty dispatch without requestEvict.
TrySendNoEvict(c, m) ==
    /\ IF ~sendClosed[c] /\ Len(got[c]) < taken[c] + SendCap
       THEN got' = [got EXCEPT ![c] = Append(@, m)] /\ UNCHANGED missed
       ELSE missed' = [missed EXCEPT ![c] = @ \cup {m}] /\ UNCHANGED got
    /\ UNCHANGED killClient

(***************************************************************************)
(* TrySend to c and, when it fails, requestEvict: both without blocking.   *)
(***************************************************************************)
TrySend(c, m) ==
    IF ~sendClosed[c] /\ Len(got[c]) < taken[c] + SendCap
    THEN /\ got' = [got EXCEPT ![c] = Append(@, m)]
         /\ UNCHANGED <<killClient, missed>>
    ELSE /\ missed' = [missed EXCEPT ![c] = @ \cup {m}]
         /\ killClient' = [killClient EXCEPT ![UserShard[c]] =
                              IF Len(@) < KillCap THEN Append(@, c) ELSE @]
         /\ UNCHANGED got

(***************************************************************************)
(* The shard loops.                                                        *)
(***************************************************************************)
CeilDiv(n, d) == (n + d - 1) \div d

TaskCount(n) == LET t == CeilDiv(n, FanoutBatchSize) IN IF t < 2 THEN 2 ELSE t

BalancedBatchSize(n) == CeilDiv(n, TaskCount(n))

\* The loop takes a message and dispatchMessage takes the snapshot of its room.
Dispatch(s) ==
    LET m == Head(forward[s])
        C == rooms[m[1]]
        n == Cardinality(C)
    IN  /\ loop[s].pc = "select"
        /\ forward[s] # <<>>
        /\ forward' = [forward EXCEPT ![s] = Tail(@)]
        /\ served' = [served EXCEPT ![m[1]] = @ + 1]
        /\ owed' = [c \in Clients |-> IF c \in C THEN owed[c] \cup {m} ELSE owed[c]]
        /\ loop' = [loop EXCEPT ![s] =
              IF C = {} THEN Selecting
              ELSE IF n < FanoutThreshold THEN Loop("sync", m, C, 0)
              ELSE Loop("submit", m, C, BalancedBatchSize(n))]
        /\ UNCHANGED <<clientVars, rooms, killClient, tasks, got, taken,
                       cancelled, released, published, accepted, missed>>

\* A small room: the loop sends to the clients of the snapshot itself, in the
\* order of the map iteration.
SyncSend(s, c) ==
    LET l == loop[s]
    IN  /\ l.pc = "sync"
        /\ c \in l.rest
        /\ TrySend(c, l.msg)
        /\ loop' = [loop EXCEPT ![s] = IF l.rest = {c} THEN Selecting
                                       ELSE Loop("sync", l.msg, l.rest \ {c}, 0)]
        /\ UNCHANGED <<clientVars, rooms, forward, tasks, taken,
                       cancelled, released, published, accepted, served, owed>>

\* A faulty loop over the batches that stops before the last one.
SubmitAllButLast(s, batch) ==
    LET l == loop[s]
    IN  /\ l.pc = "submit"
        /\ batch \subseteq l.rest
        /\ \/ Cardinality(batch) = l.size
           \/ batch = l.rest /\ Cardinality(batch) < l.size
        /\ Cardinality(tasks) < PoolSize
        /\ tasks' = IF batch = l.rest THEN tasks
                    ELSE tasks \cup {Task(s, l.msg, batch)}
        /\ loop' = [loop EXCEPT ![s] =
                      Loop(IF batch = l.rest THEN "wait" ELSE "submit",
                           l.msg, l.rest \ batch, l.size)]
        /\ UNCHANGED <<clientVars, rooms, forward, killClient, got, taken,
                       cancelled, released, history>>

\* A large room: Submit waits for a free worker and hands it the next batch.
Submit(s, batch) ==
    LET l == loop[s]
    IN  /\ l.pc = "submit"
        /\ batch \subseteq l.rest
        /\ \/ Cardinality(batch) = l.size
           \/ batch = l.rest /\ Cardinality(batch) < l.size
        /\ ~released
        /\ Cardinality(tasks) < PoolSize
        /\ tasks' = tasks \cup {Task(s, l.msg, batch)}
        /\ loop' = [loop EXCEPT ![s] =
                      Loop(IF batch = l.rest THEN "wait" ELSE "submit",
                           l.msg, l.rest \ batch, l.size)]
        /\ UNCHANGED <<clientVars, rooms, forward, killClient, got, taken,
                       cancelled, released, history>>

\* A faulty task that forgets batches.Done() and keeps its worker.
TaskSendNoDone(t, c) ==
    /\ t \in tasks
    /\ c \in t.todo
    /\ TrySend(c, t.msg)
    /\ tasks' = (tasks \ {t}) \cup {Task(t.shard, t.msg, t.todo \ {c})}
    /\ UNCHANGED <<clientVars, rooms, forward, loop, taken,
                   cancelled, released, published, accepted, served, owed>>

\* A worker sends to the next client of its batch; after the last one it calls
\* batches.Done() and is free.
TaskSend(t, c) ==
    /\ t \in tasks
    /\ c \in t.todo
    /\ TrySend(c, t.msg)
    /\ tasks' = (tasks \ {t}) \cup
                (IF t.todo = {c} THEN {} ELSE {Task(t.shard, t.msg, t.todo \ {c})})
    /\ UNCHANGED <<clientVars, rooms, forward, loop, taken,
                   cancelled, released, published, accepted, served, owed>>

\* A faulty dispatchMessage without batches.Wait().
BatchesNoWait(s) ==
    /\ loop[s].pc = "wait"
    /\ loop' = [loop EXCEPT ![s] = Selecting]
    /\ UNCHANGED <<clientVars, rooms, forward, killClient, tasks, got, taken,
                   cancelled, released, history>>

\* batches.Wait() returns.
BatchesDone(s) ==
    /\ loop[s].pc = "wait"
    /\ \A t \in tasks : t.shard # s
    /\ loop' = [loop EXCEPT ![s] = Selecting]
    /\ UNCHANGED <<clientVars, rooms, forward, killClient, tasks, got, taken,
                   cancelled, released, history>>

\* The loop takes a client to evict.  The Unregister of a client that is not
\* active any more returns at once.
Evict(s) ==
    LET c == Head(killClient[s])
    IN  /\ loop[s].pc = "select"
        /\ killClient[s] # <<>>
        /\ killClient' = [killClient EXCEPT ![s] = Tail(@)]
        /\ IF state[c] = "active"
           THEN /\ Detach(c, "detached")
                /\ loop' = [loop EXCEPT ![s] = Loop("close", NoMessage, {c}, 0)]
           ELSE UNCHANGED <<state, rooms, loop>>
        /\ UNCHANGED <<sendClosed, conn, forward, tasks, got, taken,
                       cancelled, released, history>>

EvictCloseSend(s) ==
    /\ loop[s].pc = "close"
    /\ sendClosed' = [c \in Clients |-> sendClosed[c] \/ c \in loop[s].rest]
    /\ loop' = [loop EXCEPT ![s] = Selecting]
    /\ UNCHANGED <<state, conn, rooms, forward, killClient, tasks, got, taken,
                   cancelled, released, history>>

LoopExit(s) ==
    /\ loop[s].pc = "select"
    /\ cancelled
    /\ loop' = [loop EXCEPT ![s] = Loop("exited", NoMessage, {}, 0)]
    /\ UNCHANGED <<clientVars, rooms, forward, killClient, tasks, got, taken,
                   cancelled, released, history>>

\* Run: wg.Wait() returns and the deferred Release runs.
Release ==
    /\ ~released
    /\ \A s \in Shards : loop[s].pc = "exited"
    /\ released' = TRUE
    /\ UNCHANGED <<clientVars, rooms, forward, killClient, loop, tasks, got, taken,
                   cancelled, history>>

Cancel ==
    /\ ~cancelled
    /\ cancelled' = TRUE
    /\ UNCHANGED <<clientVars, rooms, forward, killClient, loop, tasks, got, taken,
                   released, history>>

----------------------------------------------------------------------------
(***************************************************************************)
(* The connection.                                                         *)
(***************************************************************************)
\* WritePump receives one message from Send and writes it.
WritePump(c) ==
    /\ conn[c] = "open"
    /\ taken[c] < Len(got[c])
    /\ taken' = [taken EXCEPT ![c] = @ + 1]
    /\ UNCHANGED <<clientVars, rooms, forward, killClient, loop, tasks, got,
                   cancelled, released, history>>

\* WritePump ends and closes the connection: a write fails, or Send is closed
\* and drained.  The peer closes it, too.
CloseConn(c) ==
    /\ state[c] # "new"
    /\ conn[c] = "open"
    /\ conn' = [conn EXCEPT ![c] = "closed"]
    /\ UNCHANGED <<state, sendClosed, rooms, forward, killClient, loop, tasks, got,
                   taken, cancelled, released, history>>

LoopStep(s) ==
    \/ Dispatch(s)
    \/ \E c \in Clients : SyncSend(s, c)
    \/ \E batch \in SUBSET loop[s].rest : Submit(s, batch)
    \/ BatchesDone(s)
    \/ Evict(s)
    \/ EvictCloseSend(s)
    \/ LoopExit(s)

Worker == \E t \in tasks : \E c \in t.todo : TaskSend(t, c)

Client(c) ==
    \/ \E R \in SUBSET Rooms : Register(c, R)
    \/ \E r \in Rooms : JoinRoom(c, r)
    \/ \E r \in Rooms : LeaveRoom(c, r)
    \/ EndpointUnregister(c)
    \/ EndpointCloseSend(c)
    \/ WritePump(c)
    \/ CloseConn(c)

Next ==
    \/ \E r \in Rooms : Publish(r)
    \/ \E s \in Shards : LoopStep(s)
    \/ Worker
    \/ \E c \in Clients : Client(c)
    \/ Cancel
    \/ Release

Spec == Init /\ [][Next]_vars

(***************************************************************************)
(* Goroutines that can run do run, and WritePump ends once Send is closed  *)
(* and drained.  That a peer closes its connection, that clients read, or  *)
(* that anything is published or cancelled is not assumed.                 *)
(***************************************************************************)
Fairness ==
    /\ \A s \in Shards : WF_vars(LoopStep(s))
    /\ WF_vars(Worker)
    /\ \A c \in Clients : WF_vars(EndpointUnregister(c) \/ EndpointCloseSend(c))

FairSpec == Spec /\ Fairness

----------------------------------------------------------------------------
(***************************************************************************)
(* Properties.                                                             *)
(***************************************************************************)
\* The messages of a room reach a client's Send queue in the order in which they
\* were published, and none of them twice, although batches of one message run
\* on several workers and the client may leave and join again.
RoomOrder ==
    \A c \in Clients : \A i, j \in 1..Len(got[c]) :
        i < j /\ got[c][i][1] = got[c][j][1] => got[c][i][2] < got[c][j][2]

\* The Hub implements RoomFeed: accepted messages of a room are served in order,
\* none is skipped, and nobody gets a message after the next one has begun.
Feed == INSTANCE RoomFeed WITH Numbers <- 1..MaxMsgs
ServesRoomFeed == Feed!Spec

\* The work of dispatchMessage on message m that is still to be done for c.
Pending(c, m) ==
    \/ \E s \in Shards : loop[s].msg = m /\ c \in loop[s].rest
    \/ \E t \in tasks : t.msg = m /\ c \in t.todo

\* Every client that was in the room when the message was dispatched gets it or
\* is counted as slow: no batch loses a client, also when batches wait for a
\* worker and when the system is shutting down.  The fan-out pool is released only
\* when it is idle, so that it never refuses or cuts off a batch.
NobodyForgotten ==
    /\ \A c \in Clients : \A m \in owed[c] :
        m \in ToSet(got[c]) \cup missed[c] \/ Pending(c, m)
    /\ released => tasks = {} /\ \A s \in Shards : loop[s].pc = "exited"

\* A slow client - one whose Send queue refused a message - is removed from the
\* registry, unless the gateway shuts down first.
SlowClientEvicted ==
    \A c \in Clients : missed[c] # {} ~> state[c] # "active" \/ cancelled

\* Every accepted message is dispatched, unless the gateway shuts down first: although
\* shards wait for workers of one shared pool, dispatching never gets stuck.
AcceptedIsServed ==
    \A r \in Rooms, n \in 1..MaxMsgs :
        Len(accepted[r]) >= n ~> served[r] >= n \/ cancelled
=============================================================================
