-------------------------- MODULE WebSocketProofs --------------------------
(***************************************************************************)
(* The gateway's WebSocket package.                                        *)
(*                                                                         *)
(* HubDelivery: the delivery path keeps the order of every room and        *)
(* forgets nobody, for any number of shards, rooms, clients and workers    *)
(* and for queues of any capacity; and it implements RoomFeed.             *)
(*                                                                         *)
(* ClientSend: the Send channel of a client is used safely, for any number *)
(* of goroutines that call TrySend and closeSend and any capacity.         *)
(***************************************************************************)
EXTENDS HubDelivery, ClientSend, FiniteSetTheorems, SequenceTheorems, TLAPS

LoopSet == [pc : {"select", "sync", "submit", "wait", "close", "exited"},
            msg : Messages \cup {NoMessage}, rest : SUBSET Clients, size : Nat]
TaskSet == [shard : Shards, msg : Messages, todo : SUBSET Clients]

\* The shard loop is in dispatchMessage.
Busy(s) == loop[s].pc \in {"sync", "submit", "wait"}

Types == TypeOK /\ IsFiniteSet(tasks)

\* The accepted messages of a room are numbered upwards, and those that a loop has
\* taken come first.
AcceptedInOrder ==
    \A r \in Rooms :
        /\ served[r] <= Len(accepted[r])
        /\ \A i \in 1..Len(accepted[r]) : accepted[r][i] <= published[r]
        /\ \A i, j \in 1..Len(accepted[r]) : i < j => accepted[r][i] < accepted[r][j]

\* forward holds, of each room of its shard, exactly the accepted messages that are
\* not served yet, in their order.
QueuedHere ==
    \A s \in Shards : \A i \in 1..Len(forward[s]) :
        \E r \in Rooms : \E k \in 1..Len(accepted[r]) :
            RoomShard[r] = s /\ k > served[r] /\ forward[s][i] = <<r, accepted[r][k]>>

QueuedInOrder ==
    \A s \in Shards : \A i, j \in 1..Len(forward[s]) :
        i < j /\ forward[s][i][1] = forward[s][j][1] => forward[s][i][2] < forward[s][j][2]

QueuedAll ==
    \A r \in Rooms : \A k \in 1..Len(accepted[r]) :
        k > served[r] =>
            \E i \in 1..Len(forward[RoomShard[r]]) :
                forward[RoomShard[r]][i] = <<r, accepted[r][k]>>

\* A busy loop dispatches the last message it took of one of its rooms, and the tasks
\* in the pool are those of the message their loop waits for.
Serving ==
    /\ \A s \in Shards : Busy(s) =>
          \E r \in Rooms : /\ RoomShard[r] = s /\ served[r] >= 1
                           /\ loop[s].msg = <<r, accepted[r][served[r]]>>
    /\ \A s \in Shards : ~Busy(s) => loop[s].msg = NoMessage
    /\ \A s \in Shards : loop[s].pc \in {"select", "wait", "exited"} => loop[s].rest = {}
    /\ \A t \in tasks : /\ loop[t.shard].pc \in {"submit", "wait"}
                        /\ t.msg = loop[t.shard].msg

\* The snapshot is split: no client is in two batches.
Disjoint ==
    /\ \A t \in tasks : t.todo \cap loop[t.shard].rest = {}
    /\ \A t, u \in tasks : t.shard = u.shard /\ t # u => t.todo \cap u.todo = {}

\* Who is still to get a message has not got it.
NotYet ==
    \A c \in Clients, m \in Messages :
        Pending(c, m) => \A i \in 1..Len(got[c]) : got[c][i] # m

\* Nobody is ahead of the message that is being served.
NobodyAhead ==
    \A c \in Clients : \A i \in 1..Len(got[c]) :
        LET r == got[c][i][1]
        IN  served[r] >= 1 /\ got[c][i][2] <= accepted[r][served[r]]

IInv ==
    /\ Types
    /\ AcceptedInOrder /\ QueuedHere /\ QueuedInOrder /\ QueuedAll
    /\ Serving /\ Disjoint /\ NotYet /\ NobodyAhead
    /\ RoomOrder /\ NobodyForgotten

----------------------------------------------------------------------------
\* A published message is not the absence of one.
LEMMA NoMessageIsNone == NoMessage \notin Messages
BY DEF NoMessage, Messages

\* Nothing is published, queued or dispatched at first.
LEMMA InitInvariant == Init => IInv
<1> SUFFICES ASSUME Init PROVE IInv
  OBVIOUS
<1> USE HubDeliveryAssumption DEF Init
<1>1. Types
  <2>1. Selecting \in LoopSet
    BY DEF Selecting, Loop, LoopSet
  <2>2. IsFiniteSet(tasks) /\ Cardinality(tasks) = 0
    BY FS_EmptySet
  <2>3. loop \in [Shards -> LoopSet]
    BY <2>1
  <2>4. got \in [Clients -> Seq(Messages)] /\ taken \in [Clients -> Nat]
        /\ \A c \in Clients : taken[c] <= Len(got[c]) /\ Len(got[c]) <= taken[c] + SendCap
    OBVIOUS
  <2>5. forward \in [Shards -> Seq(Messages)] /\ \A s \in Shards : Len(forward[s]) <= ForwardCap
    OBVIOUS
  <2>6. killClient \in [Shards -> Seq(Clients)] /\ \A s \in Shards : Len(killClient[s]) <= KillCap
    OBVIOUS
  <2>7. /\ state \in [Clients -> {"new", "active", "leaving", "detached"}]
        /\ conn \in [Clients -> {"open", "closed"}]
        /\ rooms \in [Rooms -> SUBSET Clients]
        /\ published \in [Rooms -> 0..MaxMsgs]
        /\ accepted \in [Rooms -> Seq(1..MaxMsgs)]
        /\ served \in [Rooms -> Nat]
        /\ owed \in [Clients -> SUBSET Messages]
        /\ missed \in [Clients -> SUBSET Messages]
        /\ PoolSize \in Nat
    OBVIOUS
  <2>8. sendClosed \in [Clients -> BOOLEAN] /\ cancelled \in BOOLEAN /\ released \in BOOLEAN
    OBVIOUS
  <2>9. QED
    BY <2>2, <2>3, <2>4, <2>5, <2>6, <2>7, <2>8 DEF Types, TypeOK, LoopSet
<1>2. AcceptedInOrder /\ QueuedHere /\ QueuedInOrder /\ QueuedAll
  BY DEF AcceptedInOrder, QueuedHere, QueuedInOrder, QueuedAll
<1>3. \A s \in Shards : loop[s].pc = "select" /\ loop[s].msg = NoMessage /\ loop[s].rest = {}
  BY DEF Selecting, Loop
<1>4. Serving /\ Disjoint
  BY <1>3 DEF Serving, Disjoint, Busy
<1>5. NotYet /\ NobodyAhead /\ RoomOrder /\ NobodyForgotten
  BY DEF NotYet, NobodyAhead, RoomOrder, NobodyForgotten
<1>6. QED
  BY <1>1, <1>2, <1>4, <1>5 DEF IInv

\* What is said of the messages, apart from the types.
Delivery ==
    /\ AcceptedInOrder /\ QueuedHere /\ QueuedInOrder /\ QueuedAll
    /\ Serving /\ Disjoint /\ NotYet /\ NobodyAhead
    /\ RoomOrder /\ NobodyForgotten

\* A step of the registry or of a connection moves no message.
LEMMA QuietKeeps ==
    ASSUME IInv, UNCHANGED <<forward, loop, tasks, got, released, history>>
    PROVE  Delivery'
<1>1. UNCHANGED <<forward, loop, tasks, got, released, published, accepted, served,
                  owed, missed>>
  BY DEF history
<1>2. Delivery
  BY DEF IInv, Delivery
<1>3. AcceptedInOrder' /\ QueuedHere' /\ QueuedInOrder' /\ QueuedAll'
  <2>1. AcceptedInOrder'
    BY <1>1, <1>2 DEF Delivery, AcceptedInOrder
  <2>2. QueuedHere'
    BY <1>1, <1>2 DEF Delivery, QueuedHere
  <2>3. QueuedInOrder' /\ QueuedAll'
    BY <1>1, <1>2 DEF Delivery, QueuedInOrder, QueuedAll
  <2>4. QED
    BY <2>1, <2>2, <2>3
<1>4. Serving' /\ Disjoint' /\ RoomOrder' /\ NobodyAhead'
  BY <1>1, <1>2 DEF Delivery, Serving, Disjoint, RoomOrder, NobodyAhead, Busy
<1>5. \A c, m : Pending(c, m)' <=> Pending(c, m)
  BY <1>1 DEF Pending
<1>6. NotYet' /\ NobodyForgotten'
  BY <1>1, <1>2, <1>5 DEF Delivery, NotYet, NobodyForgotten
<1>7. QED
  BY <1>3, <1>4, <1>6 DEF Delivery

\* The registry, the endpoints and the write pumps.
LEMMA ClientKeeps ==
    ASSUME IInv, NEW c \in Clients, Client(c)
    PROVE  IInv'
<1> USE HubDeliveryAssumption
<1>1. Types
  BY DEF IInv
<1>2. UNCHANGED <<forward, killClient, loop, tasks, got, cancelled, released, history>>
  BY DEF Client, Register, JoinRoom, LeaveRoom, EndpointUnregister, EndpointCloseSend,
         WritePump, CloseConn, clientVars
<1>3. Delivery'
  BY <1>2, QuietKeeps
<1>4. /\ state' \in [Clients -> {"new", "active", "leaving", "detached"}]
      /\ conn' \in [Clients -> {"open", "closed"}]
      /\ rooms' \in [Rooms -> SUBSET Clients]
  <2>1. /\ state \in [Clients -> {"new", "active", "leaving", "detached"}]
        /\ conn \in [Clients -> {"open", "closed"}]
        /\ rooms \in [Rooms -> SUBSET Clients]
    BY <1>1 DEF Types, TypeOK
  <2>2. CASE \E R \in SUBSET Rooms : Register(c, R)
    BY <2>1, <2>2 DEF Register
  <2>3. CASE \E r \in Rooms : JoinRoom(c, r) \/ LeaveRoom(c, r)
    <3>1. \E r \in Rooms, S \in SUBSET Clients : rooms' = [rooms EXCEPT ![r] = S]
      BY <2>1, <2>3 DEF JoinRoom, LeaveRoom
    <3>2. UNCHANGED <<state, conn>>
      BY <2>3 DEF JoinRoom, LeaveRoom, clientVars
    <3>3. QED
      BY <2>1, <3>1, <3>2
  <2>4. CASE EndpointUnregister(c)
    BY <2>1, <2>4 DEF EndpointUnregister, Detach
  <2>5. CASE EndpointCloseSend(c)
    BY <2>1, <2>5 DEF EndpointCloseSend
  <2>6. CASE WritePump(c) \/ CloseConn(c)
    BY <2>1, <2>6 DEF WritePump, CloseConn, clientVars
  <2>7. QED
    BY <2>2, <2>3, <2>4, <2>5, <2>6 DEF Client
<1>5. sendClosed' \in [Clients -> BOOLEAN]
  BY <1>1 DEF Types, TypeOK, Client, Register, JoinRoom, LeaveRoom, EndpointUnregister,
     EndpointCloseSend, WritePump, CloseConn, clientVars
<1>6. /\ taken' \in [Clients -> Nat]
      /\ \A d \in Clients : taken'[d] <= Len(got[d]) /\ Len(got[d]) <= taken'[d] + SendCap
  <2>1. CASE WritePump(c)
    <3>1. /\ taken' = [taken EXCEPT ![c] = @ + 1] /\ taken[c] < Len(got[c])
          /\ taken \in [Clients -> Nat] /\ got \in [Clients -> Seq(Messages)]
          /\ \A d \in Clients : taken[d] <= Len(got[d]) /\ Len(got[d]) <= taken[d] + SendCap
      BY <1>1, <2>1 DEF WritePump, Types, TypeOK
    <3>2. \A d \in Clients : Len(got[d]) \in Nat /\ taken[d] \in Nat
      BY <3>1
    <3>3. taken'[c] = taken[c] + 1 /\ \A d \in Clients : d # c => taken'[d] = taken[d]
      BY <3>1
    <3>4. QED
      BY <3>1, <3>2, <3>3
  <2>2. CASE taken' = taken
    BY <1>1, <2>2 DEF Types, TypeOK
  <2>3. QED
    BY <2>1, <2>2 DEF Client, Register, JoinRoom, LeaveRoom, EndpointUnregister,
       EndpointCloseSend, CloseConn, clientVars
<1>7. Types'
  BY <1>1, <1>2, <1>4, <1>5, <1>6 DEF Types, TypeOK, history
<1>8. QED
  BY <1>3, <1>7 DEF IInv, Delivery

\* Cancelling the context moves no message either.
LEMMA CancelKeeps ==
    ASSUME IInv, Cancel
    PROVE  IInv'
<1>1. UNCHANGED <<state, sendClosed, conn, rooms, forward, killClient, loop, tasks, got,
                  taken, released, history>> /\ cancelled' = TRUE
  BY DEF Cancel, clientVars
<1>2. Types'
  <2>1. cancelled' \in BOOLEAN
    BY <1>1
  <2>2. QED
    BY <1>1, <2>1 DEF IInv, Types, TypeOK, history
<1>3. QED
  BY <1>1, <1>2, QuietKeeps DEF IInv, Delivery

\* The pool is released when all loops have left, and then no task is left.
LEMMA ReleaseKeeps ==
    ASSUME IInv, Release
    PROVE  IInv'
<1>1. /\ UNCHANGED <<state, sendClosed, conn, rooms, forward, killClient, loop, tasks, got,
                     taken, cancelled, published, accepted, served, owed, missed>>
      /\ released' = TRUE /\ \A s \in Shards : loop[s].pc = "exited"
  BY DEF Release, clientVars, history
<1>2. Types'
  <2>1. released' \in BOOLEAN
    BY <1>1
  <2>2. QED
    BY <1>1, <2>1 DEF IInv, Types, TypeOK
<1>3. Delivery
  BY DEF IInv, Delivery
<1>4. AcceptedInOrder' /\ QueuedInOrder' /\ QueuedAll'
  BY <1>1, <1>3 DEF Delivery, AcceptedInOrder, QueuedInOrder, QueuedAll
<1>5. QueuedHere'
  BY <1>1, <1>3 DEF Delivery, QueuedHere
<1>6. Serving' /\ Disjoint' /\ RoomOrder' /\ NobodyAhead'
  BY <1>1, <1>3 DEF Delivery, Serving, Disjoint, RoomOrder, NobodyAhead, Busy
<1>7. \A c, m : Pending(c, m)' <=> Pending(c, m)
  BY <1>1 DEF Pending
<1>8. tasks = {}
  <2>1. \A t \in tasks : t.shard \in Shards
    BY DEF IInv, Types, TypeOK
  <2>2. \A t \in tasks : loop[t.shard].pc \in {"submit", "wait"}
    BY <1>3 DEF Delivery, Serving
  <2>3. QED
    BY <1>1, <2>1, <2>2
<1>9. NotYet' /\ NobodyForgotten'
  BY <1>1, <1>3, <1>7, <1>8 DEF Delivery, NotYet, NobodyForgotten
<1>10. QED
  BY <1>2, <1>4, <1>5, <1>6, <1>9 DEF IInv, Delivery

\* The loop of s moves between its select, an eviction and its end, while no work on
\* a message is open there.
LEMMA IdleMove ==
    ASSUME IInv, NEW s \in Shards, NEW l \in LoopSet,
           loop' = [loop EXCEPT ![s] = l],
           l.pc \in {"select", "close", "exited"}, l.msg = NoMessage,
           l.pc # "close" => l.rest = {},
           loop[s].pc # "exited", \A t \in tasks : t.shard # s,
           loop[s].rest = {} \/ loop[s].msg = NoMessage,
           UNCHANGED <<forward, tasks, got, released, history>>
    PROVE  loop' \in [Shards -> LoopSet] /\ Delivery'
<1>1. Delivery /\ loop \in [Shards -> LoopSet] /\ tasks \in SUBSET TaskSet
  BY DEF IInv, Delivery, Types, TypeOK, LoopSet, TaskSet
<1>2. loop'[s] = l /\ \A z \in Shards : z # s => loop'[z] = loop[z]
  BY <1>1
<1>3. UNCHANGED <<forward, tasks, got, released, published, accepted, served, owed, missed>>
  BY DEF history
<1>4. AcceptedInOrder' /\ QueuedInOrder' /\ QueuedAll'
  BY <1>1, <1>3 DEF Delivery, AcceptedInOrder, QueuedInOrder, QueuedAll
<1>5. QueuedHere'
  BY <1>1, <1>3 DEF Delivery, QueuedHere
<1>6. RoomOrder' /\ NobodyAhead'
  BY <1>1, <1>3 DEF Delivery, RoomOrder, NobodyAhead
<1>7. \A t \in tasks : t.shard \in Shards /\ loop'[t.shard] = loop[t.shard]
  BY <1>1, <1>2 DEF TaskSet
<1>8. Serving'
  <2>1. Serving
    BY <1>1 DEF Delivery
  <2>2. \A z \in Shards : z # s => (Busy(z)' <=> Busy(z))
    BY <1>2 DEF Busy
  <2>3. ~Busy(s)'
    BY <1>2 DEF Busy
  <2>4. \A t \in tasks' : loop'[t.shard].pc \in {"submit", "wait"} /\ t.msg = loop'[t.shard].msg
    BY <1>3, <1>7, <2>1 DEF Serving
  <2>5. \A z \in Shards : Busy(z)' =>
            \E r \in Rooms : /\ RoomShard[r] = z /\ served'[r] >= 1
                             /\ loop'[z].msg = <<r, accepted'[r][served'[r]]>>
    BY <1>2, <1>3, <2>1, <2>2, <2>3 DEF Serving
  <2>6. \A z \in Shards : ~Busy(z)' => loop'[z].msg = NoMessage
    BY <1>2, <2>1, <2>2 DEF Serving
  <2>7. \A z \in Shards : loop'[z].pc \in {"select", "wait", "exited"} => loop'[z].rest = {}
    BY <1>2, <2>1 DEF Serving
  <2>8. QED
    BY <2>4, <2>5, <2>6, <2>7 DEF Serving
<1>9. Disjoint'
  BY <1>1, <1>3, <1>7 DEF Delivery, Disjoint
<1>10. \A c \in Clients, m \in Messages : Pending(c, m)' <=> Pending(c, m)
  BY <1>2, <1>3, NoMessageIsNone DEF Pending
<1>11. NotYet'
  BY <1>1, <1>3, <1>10 DEF Delivery, NotYet
<1>12. NobodyForgotten'
  <2>1. \A c \in Clients : owed[c] \subseteq Messages
    BY DEF IInv, Types, TypeOK
  <2>2. ~released
    BY <1>1 DEF Delivery, NobodyForgotten
  <2>3. QED
    BY <1>1, <1>3, <1>10, <2>1, <2>2 DEF Delivery, NobodyForgotten
<1>13. QED
  BY <1>1, <1>2, <1>4, <1>5, <1>6, <1>8, <1>9, <1>11, <1>12 DEF Delivery

\* batches.Wait() returns, the loop exits, or it closes the queue of a client.
LEMMA LoopIdleKeeps ==
    ASSUME IInv, NEW s \in Shards, BatchesDone(s) \/ LoopExit(s) \/ EvictCloseSend(s)
    PROVE  IInv'
<1>1. Types /\ Serving
  BY DEF IInv
<1>2. /\ Selecting \in LoopSet /\ Selecting.pc = "select"
      /\ Selecting.msg = NoMessage /\ Selecting.rest = {}
  BY DEF Selecting, Loop, LoopSet
<1>3. /\ Loop("exited", NoMessage, {}, 0) \in LoopSet
      /\ Loop("exited", NoMessage, {}, 0).pc = "exited"
      /\ Loop("exited", NoMessage, {}, 0).msg = NoMessage
      /\ Loop("exited", NoMessage, {}, 0).rest = {}
  BY DEF Loop, LoopSet
<1>4. /\ UNCHANGED <<state, conn, rooms, forward, killClient, tasks, got, taken, cancelled,
                     released, history>>
      /\ sendClosed' \in [Clients -> BOOLEAN]
  <2>1. CASE BatchesDone(s) \/ LoopExit(s)
    BY <1>1, <2>1 DEF BatchesDone, LoopExit, clientVars, Types, TypeOK
  <2>2. CASE EvictCloseSend(s)
    BY <1>1, <2>2 DEF EvictCloseSend, Types, TypeOK
  <2>3. QED
    BY <2>1, <2>2
<1>5. loop[s].pc \in {"select", "wait", "close"}
  BY DEF BatchesDone, LoopExit, EvictCloseSend
<1>6. \A t \in tasks : t.shard # s
  <2>1. \A t \in tasks : loop[t.shard].pc \in {"submit", "wait"}
    BY <1>1 DEF Serving
  <2>2. QED
    BY <2>1 DEF BatchesDone, LoopExit, EvictCloseSend
<1>7. loop[s].rest = {} \/ loop[s].msg = NoMessage
  BY <1>1, <1>5 DEF Serving, Busy
<1>8. loop' \in [Shards -> LoopSet] /\ Delivery'
  <2>1. CASE loop' = [loop EXCEPT ![s] = Selecting]
    BY <1>2, <1>4, <1>5, <1>6, <1>7, <2>1, IdleMove
  <2>2. CASE loop' = [loop EXCEPT ![s] = Loop("exited", NoMessage, {}, 0)]
    BY <1>3, <1>4, <1>5, <1>6, <1>7, <2>2, IdleMove
  <2>3. QED
    BY <2>1, <2>2 DEF BatchesDone, LoopExit, EvictCloseSend
<1>9. Types'
  BY <1>1, <1>4, <1>8 DEF Types, TypeOK, LoopSet, history
<1>10. QED
  BY <1>8, <1>9 DEF IInv, Delivery

\* The loop takes a client to evict.
LEMMA EvictKeeps ==
    ASSUME IInv, NEW s \in Shards, Evict(s)
    PROVE  IInv'
<1> DEFINE c == Head(killClient[s])
           l == Loop("close", NoMessage, {c}, 0)
<1>1. Types /\ Serving
  BY DEF IInv
<1>2. /\ loop[s].pc = "select" /\ killClient[s] # <<>>
      /\ killClient' = [killClient EXCEPT ![s] = Tail(@)]
      /\ UNCHANGED <<sendClosed, conn, forward, tasks, got, taken, cancelled, released, history>>
  BY DEF Evict
<1>3. /\ killClient \in [Shards -> Seq(Clients)] /\ killClient[s] \in Seq(Clients)
      /\ \A z \in Shards : Len(killClient[z]) <= KillCap
      /\ state \in [Clients -> {"new", "active", "leaving", "detached"}]
      /\ rooms \in [Rooms -> SUBSET Clients]
  BY <1>1 DEF Types, TypeOK
<1>4. /\ killClient' \in [Shards -> Seq(Clients)]
      /\ \A z \in Shards : Len(killClient'[z]) <= KillCap
  <2>1. Tail(killClient[s]) \in Seq(Clients) /\ Len(Tail(killClient[s])) = Len(killClient[s]) - 1
        /\ Len(killClient[s]) \in Nat
    BY <1>2, <1>3
  <2>2. Len(Tail(killClient[s])) <= KillCap
    BY <1>3, <2>1, HubDeliveryAssumption
  <2>3. killClient'[s] = Tail(killClient[s]) /\ \A z \in Shards : z # s => killClient'[z] = killClient[z]
    BY <1>2, <1>3
  <2>4. killClient' \in [Shards -> Seq(Clients)]
    BY <1>2, <1>3, <2>1
  <2>5. QED
    BY <1>3, <2>2, <2>3, <2>4
<1>5. c \in Clients
  BY <1>2, <1>3
<1>6. CASE state[c] = "active"
  <2>1. Detach(c, "detached") /\ loop' = [loop EXCEPT ![s] = l]
    BY <1>6 DEF Evict
  <2>2. l \in LoopSet /\ l.pc = "close" /\ l.msg = NoMessage
    BY <1>5 DEF Loop, LoopSet
  <2>3. /\ state' \in [Clients -> {"new", "active", "leaving", "detached"}]
        /\ rooms' \in [Rooms -> SUBSET Clients]
    BY <1>3, <2>1 DEF Detach
  <2>4. \A t \in tasks : t.shard # s
    BY <1>1, <1>2 DEF Serving
  <2>5. loop[s].rest = {}
    BY <1>1, <1>2 DEF Serving
  <2> HIDE DEF l
  <2>6. loop' \in [Shards -> LoopSet] /\ Delivery'
    BY <1>2, <2>1, <2>2, <2>4, <2>5, IdleMove
  <2>7. Types'
    BY <1>1, <1>2, <1>4, <2>3, <2>6 DEF Types, TypeOK, LoopSet, history
  <2>8. QED
    BY <2>6, <2>7 DEF IInv, Delivery
<1>7. CASE state[c] # "active"
  <2>1. UNCHANGED <<state, rooms, loop>>
    BY <1>7 DEF Evict
  <2>2. Delivery'
    BY <1>2, <2>1, QuietKeeps
  <2>3. Types'
    BY <1>1, <1>2, <1>4, <2>1 DEF Types, TypeOK, history
  <2>4. QED
    BY <2>2, <2>3 DEF IInv, Delivery
<1>8. QED
  BY <1>6, <1>7

----------------------------------------------------------------------------
(***************************************************************************)
(* Publish.                                                                *)
(***************************************************************************)
\* The elements of a sequence over S are in S.
LEMMA ElementsOf ==
    ASSUME NEW S, NEW q \in Seq(S)
    PROVE  Len(q) \in Nat /\ \A i \in 1..Len(q) : q[i] \in S
OBVIOUS

\* What appending an element to a sequence does.
LEMMA AppendFacts ==
    ASSUME NEW S, NEW q \in Seq(S), NEW e \in S
    PROVE  /\ Append(q, e) \in Seq(S) /\ Len(q) \in Nat /\ Len(Append(q, e)) = Len(q) + 1
           /\ Append(q, e)[Len(q) + 1] = e
           /\ \A i \in 1..Len(q) : Append(q, e)[i] = q[i] /\ q[i] \in S
           /\ \A i \in 1..Len(Append(q, e)) : i \in 1..Len(q) \/ i = Len(q) + 1
OBVIOUS

\* QueuedHere after a step that serves no room.
LEMMA QueuedHereNext ==
    ASSUME served' = served,
           \A z \in Shards : \A i \in 1..Len(forward'[z]) :
               \E q \in Rooms : \E k \in 1..Len(accepted'[q]) :
                   RoomShard[q] = z /\ k > served[q] /\ forward'[z][i] = <<q, accepted'[q][k]>>
    PROVE  QueuedHere'
BY DEF QueuedHere

\* A message joins the end of its room's numbers and the end of its shard's queue.
LEMMA AcceptKeeps ==
    ASSUME IInv, NEW r \in Rooms, NEW n \in 1..MaxMsgs, n = published[r] + 1,
           published' = [published EXCEPT ![r] = n],
           forward' = [forward EXCEPT ![RoomShard[r]] = Append(@, <<r, n>>)],
           accepted' = [accepted EXCEPT ![r] = Append(@, n)],
           UNCHANGED <<loop, tasks, got, released, served, owed, missed>>
    PROVE  Delivery'
<1> DEFINE s == RoomShard[r]
           m == <<r, n>>
<1>1. /\ Delivery /\ s \in Shards
      /\ accepted \in [Rooms -> Seq(1..MaxMsgs)] /\ forward \in [Shards -> Seq(Messages)]
      /\ published \in [Rooms -> 0..MaxMsgs] /\ served \in [Rooms -> Nat]
      /\ got \in [Clients -> Seq(Messages)] /\ m \in Messages
  BY HubDeliveryAssumption DEF IInv, Delivery, Types, TypeOK, Messages
<1>2. AcceptedInOrder /\ QueuedHere /\ QueuedInOrder /\ QueuedAll /\ Serving
      /\ Disjoint /\ NotYet /\ NobodyAhead /\ RoomOrder /\ NobodyForgotten
  BY <1>1 DEF Delivery
<1> DEFINE a == accepted[r]
           f == forward[s]
<1>3. /\ a \in Seq(1..MaxMsgs) /\ Len(a) \in Nat /\ f \in Seq(Messages) /\ Len(f) \in Nat
  BY <1>1
<1>4. /\ accepted'[r] = Append(a, n) /\ forward'[s] = Append(f, m)
      /\ published'[r] = n
      /\ \A q \in Rooms : q # r => accepted'[q] = accepted[q] /\ published'[q] = published[q]
      /\ \A z \in Shards : z # s => forward'[z] = forward[z]
  BY <1>1
<1> HIDE DEF m
<1>5. /\ Len(Append(a, n)) = Len(a) + 1 /\ Append(a, n)[Len(a) + 1] = n
      /\ \A i \in 1..Len(a) : Append(a, n)[i] = a[i] /\ a[i] \in 1..MaxMsgs
      /\ \A i \in 1..Len(Append(a, n)) : i \in 1..Len(a) \/ i = Len(a) + 1
  <2> DEFINE N == 1..MaxMsgs
  <2>1. a \in Seq(N) /\ n \in N
    BY <1>3
  <2> HIDE DEF a, N
  <2>2. /\ Len(Append(a, n)) = Len(a) + 1 /\ Append(a, n)[Len(a) + 1] = n
        /\ \A i \in 1..Len(a) : Append(a, n)[i] = a[i] /\ a[i] \in N
        /\ \A i \in 1..Len(Append(a, n)) : i \in 1..Len(a) \/ i = Len(a) + 1
    BY <2>1, AppendFacts
  <2>3. QED
    BY <2>2 DEF N
<1>6. /\ Len(Append(f, m)) = Len(f) + 1 /\ Append(f, m)[Len(f) + 1] = m
      /\ \A i \in 1..Len(f) : Append(f, m)[i] = f[i]
      /\ \A i \in 1..Len(Append(f, m)) : i \in 1..Len(f) \/ i = Len(f) + 1
  BY <1>1, <1>3, AppendFacts
<1>7. \A q \in Rooms : /\ Len(accepted[q]) \in Nat /\ served[q] \in Nat
                       /\ Len(accepted'[q]) \in Nat
                       /\ Len(accepted[q]) <= Len(accepted'[q])
                       /\ \A i \in 1..Len(accepted[q]) : /\ accepted'[q][i] = accepted[q][i]
                                                         /\ accepted[q][i] \in 1..MaxMsgs
  <2> SUFFICES ASSUME NEW q \in Rooms
               PROVE  /\ Len(accepted[q]) \in Nat /\ served[q] \in Nat
                      /\ Len(accepted'[q]) \in Nat
                      /\ Len(accepted[q]) <= Len(accepted'[q])
                      /\ \A i \in 1..Len(accepted[q]) : /\ accepted'[q][i] = accepted[q][i]
                                                        /\ accepted[q][i] \in 1..MaxMsgs
    OBVIOUS
  <2>1. accepted[q] \in Seq(1..MaxMsgs) /\ served[q] \in Nat
    BY <1>1
  <2>2. Len(accepted[q]) \in Nat /\ \A i \in 1..Len(accepted[q]) : accepted[q][i] \in 1..MaxMsgs
    BY <2>1, ElementsOf
  <2>3. CASE q = r
    BY <1>4, <1>5, <2>1, <2>2, <2>3
  <2>4. CASE q # r
    BY <1>4, <2>1, <2>2, <2>4
  <2>5. QED
    BY <2>3, <2>4
<1>8. \A i \in 1..Len(a) : a[i] < n
  <2>1. \A i \in 1..Len(a) : a[i] <= published[r] /\ published[r] \in 0..MaxMsgs
    BY <1>1, <1>2 DEF AcceptedInOrder
  <2>2. QED
    BY <1>5, <2>1
<1>9. AcceptedInOrder'
  <2> SUFFICES ASSUME NEW q \in Rooms
               PROVE  /\ served[q] <= Len(accepted'[q])
                      /\ \A i \in 1..Len(accepted'[q]) : accepted'[q][i] <= published'[q]
                      /\ \A i, j \in 1..Len(accepted'[q]) :
                            i < j => accepted'[q][i] < accepted'[q][j]
    BY DEF AcceptedInOrder
  <2>1. CASE q # r
    BY <1>2, <1>4, <2>1 DEF AcceptedInOrder
  <2>2. CASE q = r
    <3>1. /\ served[r] <= Len(a) /\ served[r] \in Nat
          /\ \A i, j \in 1..Len(a) : i < j => a[i] < a[j]
      BY <1>1, <1>2 DEF AcceptedInOrder
    <3> HIDE DEF a
    <3>2. \A i \in 1..(Len(a) + 1) : Append(a, n)[i] <= n
      BY <1>3, <1>5, <1>8
    <3>3. \A i, j \in 1..(Len(a) + 1) : i < j => Append(a, n)[i] < Append(a, n)[j]
      BY <1>3, <1>5, <1>8, <3>1
    <3>4. accepted'[q] = Append(a, n) /\ Len(accepted'[q]) = Len(a) + 1 /\ published'[q] = n
      BY <1>4, <1>5, <2>2
    <3>5. served[q] <= Len(accepted'[q])
      BY <1>3, <2>2, <3>1, <3>4
    <3>6. QED
      BY <3>2, <3>3, <3>4, <3>5
  <2>3. QED
    BY <2>1, <2>2
<1>10. QueuedHere'
  <2> SUFFICES ASSUME NEW z \in Shards, NEW i \in 1..Len(forward'[z])
               PROVE  \E q \in Rooms : \E k \in 1..Len(accepted'[q]) :
                          /\ RoomShard[q] = z /\ k > served[q]
                          /\ forward'[z][i] = <<q, accepted'[q][k]>>
    BY QueuedHereNext
  <2>1. CASE i \in 1..Len(forward[z]) /\ forward'[z][i] = forward[z][i]
    <3>1. PICK q \in Rooms : \E k \in 1..Len(accepted[q]) :
                 RoomShard[q] = z /\ k > served[q] /\ forward[z][i] = <<q, accepted[q][k]>>
      BY <1>2, <2>1 DEF QueuedHere
    <3>2. PICK k \in 1..Len(accepted[q]) :
                 RoomShard[q] = z /\ k > served[q] /\ forward[z][i] = <<q, accepted[q][k]>>
      BY <3>1
    <3>3. k \in 1..Len(accepted'[q]) /\ accepted'[q][k] = accepted[q][k]
      BY <1>7, <3>1
    <3>4. QED
      BY <2>1, <3>2, <3>3
  <2>2. CASE z = s /\ forward'[z][i] = m
    <3>1. Len(a) + 1 \in 1..Len(accepted'[r]) /\ accepted'[r][Len(a) + 1] = n
      BY <1>3, <1>4, <1>5
    <3>2. Len(a) + 1 > served[r]
      BY <1>1, <1>2, <1>3 DEF AcceptedInOrder
    <3>3. QED
      BY <2>2, <3>1, <3>2 DEF m
  <2>3. QED
    <3>1. CASE z # s
      BY <1>4, <2>1, <3>1
    <3>2. CASE z = s
      <4>1. forward'[z] = Append(f, m)
        BY <1>4, <3>2
      <4>2. i \in 1..Len(f) \/ i = Len(f) + 1
        BY <1>6, <4>1
      <4>3. CASE i \in 1..Len(f)
        BY <1>6, <2>1, <3>2, <4>1, <4>3
      <4>4. CASE i = Len(f) + 1
        BY <1>6, <2>2, <3>2, <4>1, <4>4
      <4>5. QED
        BY <4>2, <4>3, <4>4
    <3>3. QED
      BY <3>1, <3>2
<1>11. QueuedInOrder'
  <2> SUFFICES ASSUME NEW z \in Shards, NEW i \in 1..Len(forward'[z]),
                      NEW j \in 1..Len(forward'[z]), i < j,
                      forward'[z][i][1] = forward'[z][j][1]
               PROVE  forward'[z][i][2] < forward'[z][j][2]
    BY DEF QueuedInOrder
  <2>1. CASE z # s
    BY <1>2, <1>4, <2>1 DEF QueuedInOrder
  <2>2. CASE z = s /\ j \in 1..Len(f)
    <3>1. i \in 1..Len(f)
      BY <1>3, <1>4, <1>6, <2>2
    <3>2. forward'[z][i] = f[i] /\ forward'[z][j] = f[j]
      BY <1>4, <1>6, <2>2, <3>1
    <3>3. QED
      BY <1>2, <2>2, <3>1, <3>2 DEF QueuedInOrder
  <2>3. CASE z = s /\ j \notin 1..Len(f)
    <3>1. j = Len(f) + 1 /\ i \in 1..Len(f)
      BY <1>3, <1>4, <1>6, <2>3
    <3>2. forward'[z][i] = f[i] /\ forward'[z][j] = m
      BY <1>4, <1>6, <2>3, <3>1
    <3>3. f[i][1] = r /\ m[2] = n
      BY <3>2 DEF m
    <3>4. PICK k \in 1..Len(accepted[r]) : f[i][2] = accepted[r][k]
      <4>1. \E q \in Rooms : \E k \in 1..Len(accepted[q]) : f[i] = <<q, accepted[q][k]>>
        BY <1>1, <1>2, <3>1 DEF QueuedHere
      <4>2. QED
        BY <3>3, <4>1
    <3>5. f[i][2] < n
      BY <1>8, <3>4
    <3>6. QED
      BY <3>2, <3>3, <3>5
  <2>4. QED
    BY <2>1, <2>2, <2>3
<1>12. QueuedAll'
  <2> SUFFICES ASSUME NEW q \in Rooms, NEW k \in 1..Len(accepted'[q]), k > served[q]
               PROVE  \E i \in 1..Len(forward'[RoomShard[q]]) :
                          forward'[RoomShard[q]][i] = <<q, accepted'[q][k]>>
    BY DEF QueuedAll
  <2>0. RoomShard[q] \in Shards
    BY HubDeliveryAssumption
  <2>1. CASE k \in 1..Len(accepted[q])
    <3>1. accepted'[q][k] = accepted[q][k]
      BY <1>7, <2>1
    <3>2. PICK i \in 1..Len(forward[RoomShard[q]]) :
                   forward[RoomShard[q]][i] = <<q, accepted[q][k]>>
      BY <1>2, <2>1 DEF QueuedAll
    <3>3. /\ i \in 1..Len(forward'[RoomShard[q]])
          /\ forward'[RoomShard[q]][i] = forward[RoomShard[q]][i]
      <4>1. CASE RoomShard[q] # s
        BY <1>4, <2>0, <4>1
      <4>2. CASE RoomShard[q] = s
        BY <1>3, <1>4, <1>6, <4>2
      <4>3. QED
        BY <4>1, <4>2
    <3>4. QED
      BY <3>1, <3>2, <3>3
  <2>2. CASE k \notin 1..Len(accepted[q])
    <3>1. q = r /\ k = Len(a) + 1
      BY <1>3, <1>4, <1>5, <2>2
    <3>2. accepted'[q][k] = n /\ forward'[s][Len(f) + 1] = m /\ Len(f) + 1 \in 1..Len(forward'[s])
      BY <1>3, <1>4, <1>5, <1>6, <3>1
    <3>3. QED
      BY <3>1, <3>2 DEF m
  <2>3. QED
    BY <2>1, <2>2
<1>13. \A q \in Rooms : served[q] >= 1 => accepted'[q][served[q]] = accepted[q][served[q]]
  BY <1>2, <1>7 DEF AcceptedInOrder
<1>14. Serving'
  <2>1. \A z \in Shards : Busy(z)' <=> Busy(z)
    BY DEF Busy
  <2>2. \A z \in Shards : Busy(z)' =>
            \E q \in Rooms : /\ RoomShard[q] = z /\ served'[q] >= 1
                             /\ loop'[z].msg = <<q, accepted'[q][served'[q]]>>
    <3> SUFFICES ASSUME NEW z \in Shards, Busy(z)
                 PROVE  \E q \in Rooms : /\ RoomShard[q] = z /\ served'[q] >= 1
                                         /\ loop'[z].msg = <<q, accepted'[q][served'[q]]>>
      BY <2>1
    <3>1. PICK q \in Rooms : /\ RoomShard[q] = z /\ served[q] >= 1
                             /\ loop[z].msg = <<q, accepted[q][served[q]]>>
      BY <1>2 DEF Serving
    <3>2. QED
      BY <1>13, <3>1
  <2>3. QED
    BY <1>2, <2>1, <2>2 DEF Serving
<1>15. \A c, x : Pending(c, x)' <=> Pending(c, x)
  BY DEF Pending
<1>16. NotYet' /\ NobodyForgotten' /\ Disjoint' /\ RoomOrder'
  BY <1>2, <1>15 DEF NotYet, NobodyForgotten, Disjoint, RoomOrder
<1>17. NobodyAhead'
  <2> SUFFICES ASSUME NEW c \in Clients, NEW i \in 1..Len(got[c])
               PROVE  LET q == got[c][i][1]
                      IN  served[q] >= 1 /\ got[c][i][2] <= accepted'[q][served[q]]
    BY DEF NobodyAhead
  <2>1. got[c][i][1] \in Rooms
    <3>1. got[c][i] \in Messages
      BY <1>1
    <3>2. QED
      BY <3>1 DEF Messages
  <2>2. QED
    BY <1>2, <1>13, <2>1 DEF NobodyAhead
<1>18. QED
  BY <1>9, <1>10, <1>11, <1>12, <1>14, <1>16, <1>17 DEF Delivery

\* Publish: the message is queued when it fits, and only counted when it does not.
LEMMA PublishKeeps ==
    ASSUME IInv, NEW r \in Rooms, Publish(r)
    PROVE  IInv'
<1> USE HubDeliveryAssumption
<1> DEFINE s == RoomShard[r]
           n == published[r] + 1
<1>1. /\ Types /\ Delivery /\ s \in Shards
      /\ accepted \in [Rooms -> Seq(1..MaxMsgs)] /\ forward \in [Shards -> Seq(Messages)]
      /\ published \in [Rooms -> 0..MaxMsgs]
      /\ \A z \in Shards : Len(forward[z]) <= ForwardCap
  BY DEF IInv, Delivery, Types, TypeOK
<1>2. /\ published[r] < MaxMsgs /\ published' = [published EXCEPT ![r] = n]
      /\ forward' = [forward EXCEPT ![s] =
                        IF Len(forward[s]) < ForwardCap THEN Append(@, <<r, n>>) ELSE @]
      /\ accepted' = [accepted EXCEPT ![r] =
                         IF Len(forward[s]) < ForwardCap THEN Append(@, n) ELSE @]
      /\ UNCHANGED <<state, sendClosed, conn, rooms, killClient, loop, tasks, got, taken,
                     cancelled, released, served, owed, missed>>
  BY DEF Publish, clientVars
<1>3. n \in 1..MaxMsgs /\ <<r, n>> \in Messages
  BY <1>1, <1>2 DEF Messages
<1>4. published' \in [Rooms -> 0..MaxMsgs]
  BY <1>1, <1>2, <1>3
<1>5. CASE Len(forward[s]) < ForwardCap
  <2>1. /\ forward' = [forward EXCEPT ![s] = Append(@, <<r, n>>)]
        /\ accepted' = [accepted EXCEPT ![r] = Append(@, n)]
    BY <1>2, <1>5
  <2> HIDE DEF n
  <2>2. Delivery'
    BY <1>2, <1>3, <2>1, AcceptKeeps DEF n
  <2>3. accepted' \in [Rooms -> Seq(1..MaxMsgs)]
    <3>1. Append(accepted[r], n) \in Seq(1..MaxMsgs)
      BY <1>1, <1>3, AppendFacts
    <3>2. QED
      BY <1>1, <2>1, <3>1
  <2>4. forward' \in [Shards -> Seq(Messages)] /\ \A z \in Shards : Len(forward'[z]) <= ForwardCap
    <3> DEFINE f == Append(forward[s], <<r, n>>)
    <3>1. forward[s] \in Seq(Messages)
      BY <1>1
    <3>2. f \in Seq(Messages) /\ Len(f) = Len(forward[s]) + 1 /\ Len(forward[s]) \in Nat
      BY <1>3, <3>1, AppendFacts
    <3>3. forward'[s] = f /\ \A z \in Shards : z # s => forward'[z] = forward[z]
      BY <1>1, <2>1
    <3>4. forward' = [forward EXCEPT ![s] = f]
      BY <2>1
    <3> HIDE DEF f
    <3>5. Len(f) <= ForwardCap
      BY <1>5, <3>2
    <3>6. QED
      BY <1>1, <3>2, <3>3, <3>4, <3>5
  <2>5. Types'
    BY <1>1, <1>2, <1>4, <2>3, <2>4 DEF Types, TypeOK
  <2>6. QED
    BY <2>2, <2>5 DEF IInv, Delivery
<1>6. CASE ~(Len(forward[s]) < ForwardCap)
  <2>1. forward' = forward /\ accepted' = accepted
    BY <1>1, <1>2, <1>6
  <2>2. Types'
    BY <1>1, <1>2, <1>4, <2>1 DEF Types, TypeOK
  <2>3. AcceptedInOrder'
    <3>1. /\ published'[r] = n /\ published[r] \in Nat
          /\ \A q \in Rooms : q # r => published'[q] = published[q]
      BY <1>1, <1>2
    <3>2. AcceptedInOrder
      BY <1>1 DEF Delivery
    <3>3. \A q \in Rooms : \A i \in 1..Len(accepted[q]) : accepted[q][i] \in 1..MaxMsgs
      BY <1>1, ElementsOf
    <3>4. \A q \in Rooms : \A i \in 1..Len(accepted[q]) : accepted[q][i] <= published'[q]
      <4>1. \A i \in 1..Len(accepted[r]) : accepted[r][i] <= n
        BY <3>1, <3>2, <3>3 DEF AcceptedInOrder
      <4> HIDE DEF n
      <4>2. QED
        BY <3>1, <3>2, <4>1 DEF AcceptedInOrder
    <3>5. QED
      BY <1>2, <2>1, <3>2, <3>4 DEF AcceptedInOrder
  <2>4. UNCHANGED <<forward, accepted, loop, tasks, got, released, served, owed, missed>>
    BY <1>2, <2>1
  <2>5. QueuedHere' /\ QueuedInOrder' /\ QueuedAll'
    <3>1. QueuedHere /\ QueuedInOrder /\ QueuedAll
      BY <1>1 DEF Delivery
    <3>2. QueuedHere'
      BY ONLY <2>4, <3>1 DEF QueuedHere
    <3>3. QueuedInOrder' /\ QueuedAll'
      BY <2>4, <3>1 DEF QueuedInOrder, QueuedAll
    <3>4. QED
      BY <3>2, <3>3
  <2>6. Serving' /\ Disjoint' /\ RoomOrder' /\ NobodyAhead'
    <3>1. Serving /\ Disjoint /\ RoomOrder /\ NobodyAhead
      BY <1>1 DEF Delivery
    <3>2. QED
      BY <2>4, <3>1 DEF Serving, Disjoint, RoomOrder, NobodyAhead, Busy
  <2>7. \A c, m : Pending(c, m)' <=> Pending(c, m)
    BY <1>2 DEF Pending
  <2>8. NotYet' /\ NobodyForgotten'
    BY <1>1, <1>2, <2>7 DEF Delivery, NotYet, NobodyForgotten
  <2>9. QED
    BY <2>2, <2>3, <2>5, <2>6, <2>8 DEF IInv, Delivery
<1>7. QED
  BY <1>5, <1>6

----------------------------------------------------------------------------
(***************************************************************************)
(* dispatchMessage.                                                        *)
(***************************************************************************)
\* The number and the size of the batches are natural numbers, and no batch is empty.
LEMMA BatchSizes ==
    ASSUME NEW n \in Nat \ {0}
    PROVE  BalancedBatchSize(n) \in Nat \ {0}
<1> USE HubDeliveryAssumption
<1>1. ASSUME NEW a \in Nat \ {0}, NEW d \in Nat \ {0}
      PROVE  CeilDiv(a, d) \in Nat \ {0}
  <2>1. a + d - 1 \in Nat /\ a + d - 1 >= d
    OBVIOUS
  <2>2. \A b \in Nat : b >= d => b \div d \in Nat \ {0}
    BY Z3
  <2>3. QED
    BY <2>1, <2>2 DEF CeilDiv
<1>2. TaskCount(n) \in Nat \ {0}
  BY <1>1 DEF TaskCount
<1>3. QED
  BY <1>1, <1>2 DEF BalancedBatchSize

\* The head of a queue is the next message of its room: the first accepted one that
\* is not served.
LEMMA HeadIsNext ==
    ASSUME IInv, NEW s \in Shards, forward[s] # <<>>
    PROVE  \E r \in Rooms : /\ RoomShard[r] = s /\ served[r] + 1 \in 1..Len(accepted[r])
                            /\ forward[s][1] = <<r, accepted[r][served[r] + 1]>>
                            /\ Head(forward[s]) = <<r, accepted[r][served[r] + 1]>>
<1>1. QueuedHere /\ QueuedInOrder /\ QueuedAll /\ AcceptedInOrder
  BY DEF IInv
<1>2. /\ forward[s] \in Seq(Messages) /\ accepted \in [Rooms -> Seq(1..MaxMsgs)]
      /\ served \in [Rooms -> Nat]
  BY DEF IInv, Types, TypeOK
<1>3. 1 \in 1..Len(forward[s]) /\ Head(forward[s]) = forward[s][1] /\ Len(forward[s]) \in Nat
  BY <1>2
<1>4. PICK r \in Rooms : \E k \in 1..Len(accepted[r]) :
             RoomShard[r] = s /\ k > served[r] /\ forward[s][1] = <<r, accepted[r][k]>>
  BY <1>1, <1>3 DEF QueuedHere
<1>5. PICK k \in 1..Len(accepted[r]) :
             RoomShard[r] = s /\ k > served[r] /\ forward[s][1] = <<r, accepted[r][k]>>
  BY <1>4
<1>6. /\ served[r] \in Nat /\ Len(accepted[r]) \in Nat
      /\ \A i \in 1..Len(accepted[r]) : accepted[r][i] \in Nat
  <2>1. \A i \in 1..Len(accepted[r]) : accepted[r][i] \in 1..MaxMsgs
    BY <1>2, ElementsOf
  <2>2. QED
    BY <1>2, <2>1, HubDeliveryAssumption
<1>7. served[r] + 1 \in 1..Len(accepted[r])
  BY <1>5, <1>6
<1>8. k = served[r] + 1
  <2> SUFFICES ASSUME k > served[r] + 1 PROVE FALSE
    BY <1>5, <1>6
  <2>1. accepted[r][served[r] + 1] < accepted[r][k]
    BY <1>1, <1>7 DEF AcceptedInOrder
  <2>2. PICK i \in 1..Len(forward[s]) : forward[s][i] = <<r, accepted[r][served[r] + 1]>>
    <3>1. served[r] + 1 > served[r]
      BY <1>6
    <3>2. \E i \in 1..Len(forward[RoomShard[r]]) :
              forward[RoomShard[r]][i] = <<r, accepted[r][served[r] + 1]>>
      BY <1>1, <1>7, <3>1 DEF QueuedAll
    <3>3. QED
      BY <1>5, <3>2
  <2>3. i # 1
    BY <1>5, <1>6, <1>7, <2>1, <2>2
  <2>4. forward[s][1][2] < forward[s][i][2]
    BY <1>1, <1>3, <1>5, <2>2, <2>3 DEF QueuedInOrder
  <2>5. QED
    BY <1>5, <1>6, <1>7, <2>1, <2>2, <2>4
<1>9. QED
  BY <1>3, <1>5, <1>7, <1>8

\* The loop of s takes the next message of one of its rooms: the queue loses its head,
\* and the room is one message further.
LEMMA ServeNextQueue ==
    ASSUME IInv, NEW s \in Shards, NEW r \in Rooms, RoomShard[r] = s,
           forward[s] # <<>>, served[r] + 1 \in 1..Len(accepted[r]),
           forward[s][1] = <<r, accepted[r][served[r] + 1]>>,
           forward' = [forward EXCEPT ![s] = Tail(@)],
           served' = [served EXCEPT ![r] = @ + 1],
           accepted' = accepted, published' = published
    PROVE  AcceptedInOrder' /\ QueuedHere' /\ QueuedInOrder' /\ QueuedAll'
<1> DEFINE f == forward[s]
           k0 == served[r] + 1
<1>1. AcceptedInOrder /\ QueuedHere /\ QueuedInOrder /\ QueuedAll
  BY DEF IInv
<1>2. /\ forward \in [Shards -> Seq(Messages)] /\ accepted \in [Rooms -> Seq(1..MaxMsgs)]
      /\ served \in [Rooms -> Nat]
  BY DEF IInv, Types, TypeOK
<1>3. f \in Seq(Messages) /\ Len(f) \in Nat /\ 1 \in 1..Len(f)
  BY <1>2
<1>4. /\ forward'[s] = Tail(f) /\ served'[r] = k0
      /\ \A z \in Shards : z # s => forward'[z] = forward[z]
      /\ \A q \in Rooms : q # r => served'[q] = served[q]
  BY <1>2
<1>5. /\ Tail(f) \in Seq(Messages) /\ Len(Tail(f)) = Len(f) - 1
      /\ \A i \in 1..Len(Tail(f)) : Tail(f)[i] = f[i + 1] /\ i + 1 \in 1..Len(f)
  BY <1>3
<1>6. \A q \in Rooms : /\ Len(accepted[q]) \in Nat /\ served[q] \in Nat
                       /\ \A i \in 1..Len(accepted[q]) : accepted[q][i] \in 1..MaxMsgs
  BY <1>2, ElementsOf
<1>7. served[r] \in Nat /\ k0 \in 1..Len(accepted[r]) /\ k0 \in Nat
  BY <1>6
<1> DEFINE n0 == accepted[r][k0]
<1>8. f[1] = <<r, n0>> /\ n0 \in 1..MaxMsgs
  BY <1>6, <1>7
<1> HIDE DEF k0, n0, f
<1>9. AcceptedInOrder'
  <2>1. \A q \in Rooms : served'[q] <= Len(accepted[q])
    BY <1>1, <1>4, <1>6, <1>7 DEF AcceptedInOrder
  <2>2. QED
    BY <1>1, <2>1 DEF AcceptedInOrder
<1>10. QueuedHere'
  <2> SUFFICES ASSUME NEW z \in Shards, NEW i \in 1..Len(forward'[z])
               PROVE  \E q \in Rooms : \E k \in 1..Len(accepted'[q]) :
                          /\ RoomShard[q] = z /\ k > served'[q]
                          /\ forward'[z][i] = <<q, accepted'[q][k]>>
    BY DEF QueuedHere
  <2>1. CASE z # s
    <3>1. forward'[z] = forward[z]
      BY <1>4, <2>1
    <3>2. PICK q \in Rooms : \E k \in 1..Len(accepted[q]) :
                 RoomShard[q] = z /\ k > served[q] /\ forward[z][i] = <<q, accepted[q][k]>>
      BY <1>1, <3>1 DEF QueuedHere
    <3>3. served'[q] = served[q]
      BY <1>4, <2>1, <3>2
    <3>4. QED
      BY <3>1, <3>2, <3>3
  <2>2. CASE z = s
    <3>0. forward'[z] = Tail(f) /\ i \in 1..Len(Tail(f))
      BY <1>4, <2>2
    <3>1. forward'[z][i] = f[i + 1] /\ i + 1 \in 1..Len(f) /\ 1 < i + 1
      <4>1. Tail(f)[i] = f[i + 1] /\ i + 1 \in 1..Len(f)
        BY <1>5, <3>0
      <4>2. 1 < i + 1
        BY <1>3, <1>5, <3>0
      <4>3. QED
        BY <3>0, <4>1, <4>2
    <3>2. PICK q \in Rooms : \E k \in 1..Len(accepted[q]) :
                 RoomShard[q] = s /\ k > served[q] /\ f[i + 1] = <<q, accepted[q][k]>>
      BY <1>1, <3>1 DEF QueuedHere, f
    <3>3. PICK k \in 1..Len(accepted[q]) :
                 RoomShard[q] = s /\ k > served[q] /\ f[i + 1] = <<q, accepted[q][k]>>
      BY <3>2
    <3>4. CASE q # r
      BY <1>4, <2>2, <3>1, <3>3, <3>4
    <3>5. CASE q = r
      <4>1. n0 < accepted[r][k]
        <5>1. f[1][1] = f[i + 1][1]
          BY <1>8, <3>3, <3>5
        <5>2. f[1][2] < f[i + 1][2]
          BY <1>1, <1>3, <3>1, <5>1 DEF QueuedInOrder, f
        <5>3. QED
          BY <1>8, <3>3, <3>5, <5>2
      <4>2. k # k0
        BY <1>8, <4>1 DEF n0
      <4>3. k > k0
        BY <1>6, <3>3, <3>5, <4>2 DEF k0
      <4>4. QED
        BY <1>4, <2>2, <3>1, <3>3, <3>5, <4>3
    <3>6. QED
      BY <3>4, <3>5
  <2>3. QED
    BY <2>1, <2>2
<1>11. QueuedInOrder'
  <2> SUFFICES ASSUME NEW z \in Shards, NEW i \in 1..Len(forward'[z]),
                      NEW j \in 1..Len(forward'[z]), i < j,
                      forward'[z][i][1] = forward'[z][j][1]
               PROVE  forward'[z][i][2] < forward'[z][j][2]
    BY DEF QueuedInOrder
  <2>1. CASE z # s
    BY <1>1, <1>4, <2>1 DEF QueuedInOrder
  <2>2. CASE z = s
    <3>1. /\ forward'[z][i] = f[i + 1] /\ i + 1 \in 1..Len(f)
          /\ forward'[z][j] = f[j + 1] /\ j + 1 \in 1..Len(f) /\ i + 1 < j + 1
      <4>1. forward'[z] = Tail(f) /\ i \in 1..Len(Tail(f)) /\ j \in 1..Len(Tail(f))
        BY <1>4, <2>2
      <4>2. /\ Tail(f)[i] = f[i + 1] /\ i + 1 \in 1..Len(f)
            /\ Tail(f)[j] = f[j + 1] /\ j + 1 \in 1..Len(f)
        BY <1>5, <4>1
      <4>3. i + 1 < j + 1
        BY <1>3, <1>5, <4>1
      <4>4. QED
        BY <4>1, <4>2, <4>3
    <3>2. QED
      BY <1>1, <3>1 DEF QueuedInOrder, f
  <2>3. QED
    BY <2>1, <2>2
<1>12. QueuedAll'
  <2> SUFFICES ASSUME NEW q \in Rooms, NEW k \in 1..Len(accepted[q]), k > served'[q]
               PROVE  \E i \in 1..Len(forward'[RoomShard[q]]) :
                          forward'[RoomShard[q]][i] = <<q, accepted[q][k]>>
    BY DEF QueuedAll
  <2>0. RoomShard[q] \in Shards
    BY HubDeliveryAssumption
  <2>1. k > served[q]
    BY <1>4, <1>6, <1>7 DEF k0
  <2>2. PICK i \in 1..Len(forward[RoomShard[q]]) :
                 forward[RoomShard[q]][i] = <<q, accepted[q][k]>>
    BY <1>1, <2>1 DEF QueuedAll
  <2>3. CASE RoomShard[q] # s
    BY <1>4, <2>0, <2>2, <2>3
  <2>4. CASE RoomShard[q] = s
    <3>1. i \in 1..Len(f) /\ f[i] = <<q, accepted[q][k]>>
      BY <2>2, <2>4 DEF f
    <3>2. i # 1
      <4>1. CASE q # r
        BY <1>8, <3>1, <4>1
      <4>2. CASE q = r
        <5>1. k0 < k
          BY <1>4, <4>2
        <5>2. n0 < accepted[r][k]
          BY <1>1, <1>7, <4>2, <5>1 DEF AcceptedInOrder, n0
        <5>3. n0 # accepted[r][k]
          BY <1>6, <1>8, <4>2, <5>2
        <5>4. QED
          BY <1>8, <3>1, <4>2, <5>3
      <4>3. QED
        BY <4>1, <4>2
    <3>3. i - 1 \in 1..Len(Tail(f)) /\ i = (i - 1) + 1
      BY <1>3, <1>5, <3>1, <3>2
    <3>4. Tail(f)[i - 1] = f[i]
      BY <1>5, <3>3
    <3>5. forward'[RoomShard[q]] = Tail(f)
      BY <1>4, <2>4
    <3>6. QED
      BY <3>1, <3>3, <3>4, <3>5
  <2>5. QED
    BY <2>3, <2>4
<1>13. QED
  BY <1>9, <1>10, <1>11, <1>12

\* The loop dispatches the message to the clients C of its room: the message is new to
\* all of them, and it is open for exactly these.
LEMMA ServeNextWork ==
    ASSUME IInv, NEW s \in Shards, NEW r \in Rooms, RoomShard[r] = s,
           served[r] + 1 \in 1..Len(accepted[r]),
           NEW m \in Messages, m = <<r, accepted[r][served[r] + 1]>>,
           NEW C \in SUBSET Clients, NEW l \in LoopSet,
           loop[s].pc = "select", loop' = [loop EXCEPT ![s] = l],
           \/ C = {} /\ l.pc = "select" /\ l.msg = NoMessage /\ l.rest = {}
           \/ C # {} /\ l.pc \in {"sync", "submit"} /\ l.msg = m /\ l.rest = C,
           served' = [served EXCEPT ![r] = @ + 1],
           owed' = [c \in Clients |-> IF c \in C THEN owed[c] \cup {m} ELSE owed[c]],
           UNCHANGED <<tasks, got, released, accepted, missed>>
    PROVE  Serving' /\ Disjoint' /\ NotYet' /\ NobodyAhead' /\ RoomOrder' /\ NobodyForgotten'
<1>1. /\ AcceptedInOrder /\ Serving /\ Disjoint /\ NotYet /\ NobodyAhead /\ RoomOrder
      /\ NobodyForgotten
  BY DEF IInv
<1>2. /\ accepted \in [Rooms -> Seq(1..MaxMsgs)] /\ served \in [Rooms -> Nat]
      /\ loop \in [Shards -> LoopSet] /\ tasks \in SUBSET TaskSet
      /\ got \in [Clients -> Seq(Messages)] /\ owed \in [Clients -> SUBSET Messages]
  BY DEF IInv, Types, TypeOK, LoopSet, TaskSet
<1>3. /\ loop'[s] = l /\ \A z \in Shards : z # s => loop'[z] = loop[z]
      /\ served'[r] = served[r] + 1 /\ \A q \in Rooms : q # r => served'[q] = served[q]
  BY <1>2
<1>4. \A q \in Rooms : /\ Len(accepted[q]) \in Nat /\ served[q] \in Nat
                       /\ \A i \in 1..Len(accepted[q]) : accepted[q][i] \in 1..MaxMsgs
  BY <1>2, ElementsOf
<1>5. \A t \in tasks : t.shard \in Shards /\ t.shard # s /\ loop'[t.shard] = loop[t.shard]
  <2>1. \A t \in tasks : t.shard \in Shards /\ t.shard # s
    BY <1>1, <1>2 DEF Serving, TaskSet
  <2>2. QED
    BY <1>3, <2>1
<1>6. loop[s].rest = {}
  BY <1>1 DEF Serving
<1>7. Serving'
  <2>1. \A z \in Shards : z # s => (Busy(z)' <=> Busy(z))
    BY <1>3 DEF Busy
  <2>2. Busy(s)' => l.msg = m
    BY <1>3 DEF Busy
  <2>3. ASSUME NEW z \in Shards, Busy(z)'
        PROVE  \E q \in Rooms : /\ RoomShard[q] = z /\ served'[q] >= 1
                                /\ loop'[z].msg = <<q, accepted'[q][served'[q]]>>
    <3>1. CASE z = s
      <4>1. loop'[z].msg = m
        BY <1>3, <2>2, <2>3, <3>1
      <4>2. m = <<r, accepted'[r][served'[r]]>> /\ served'[r] >= 1
        BY <1>3, <1>4
      <4>3. QED
        BY <3>1, <4>1, <4>2
    <3>2. CASE z # s
      <4>1. PICK q \in Rooms : /\ RoomShard[q] = z /\ served[q] >= 1
                               /\ loop[z].msg = <<q, accepted[q][served[q]]>>
        BY <1>1, <2>1, <2>3, <3>2 DEF Serving
      <4>2. served'[q] = served[q]
        BY <1>3, <3>2, <4>1
      <4>3. QED
        BY <1>3, <3>2, <4>1, <4>2
    <3>3. QED
      BY <3>1, <3>2
  <2>4. \A z \in Shards : ~Busy(z)' => loop'[z].msg = NoMessage
    BY <1>1, <1>3, <2>1 DEF Serving, Busy
  <2>5. \A z \in Shards : loop'[z].pc \in {"select", "wait", "exited"} => loop'[z].rest = {}
    BY <1>1, <1>3 DEF Serving
  <2>6. \A t \in tasks' : loop'[t.shard].pc \in {"submit", "wait"} /\ t.msg = loop'[t.shard].msg
    BY <1>1, <1>5 DEF Serving
  <2>7. QED
    BY <2>3, <2>4, <2>5, <2>6 DEF Serving
<1>8. Disjoint'
  BY <1>1, <1>5 DEF Disjoint
<1>9. \A c \in Clients, x \in Messages : Pending(c, x)' <=> Pending(c, x) \/ (x = m /\ c \in C)
  <2> SUFFICES ASSUME NEW c \in Clients, NEW x \in Messages
               PROVE  Pending(c, x)' <=> Pending(c, x) \/ (x = m /\ c \in C)
    OBVIOUS
  <2>1. (loop'[s].msg = x /\ c \in loop'[s].rest) <=> (x = m /\ c \in C)
    BY <1>3, NoMessageIsNone
  <2>2. \A z \in Shards : (loop'[z].msg = x /\ c \in loop'[z].rest)
                             <=> (loop[z].msg = x /\ c \in loop[z].rest) \/ (z = s /\ x = m /\ c \in C)
    BY <1>3, <1>6, <2>1
  <2>3. QED
    BY <2>2 DEF Pending
<1>10. \A c \in Clients : \A i \in 1..Len(got[c]) : got[c][i] \in Messages
  BY <1>2, ElementsOf
<1>11. \A c \in Clients : \A i \in 1..Len(got[c]) : got[c][i] # m
  <2> SUFFICES ASSUME NEW c \in Clients, NEW i \in 1..Len(got[c]), got[c][i] = m PROVE FALSE
    OBVIOUS
  <2>1. got[c][i][1] = r /\ got[c][i][2] = accepted[r][served[r] + 1]
    OBVIOUS
  <2>2. served[r] >= 1 /\ accepted[r][served[r] + 1] <= accepted[r][served[r]]
    BY <1>1, <2>1 DEF NobodyAhead
  <2>3. served[r] \in 1..Len(accepted[r]) /\ served[r] < served[r] + 1
    BY <1>4, <2>2
  <2>4. accepted[r][served[r]] < accepted[r][served[r] + 1]
    BY <1>1, <2>3 DEF AcceptedInOrder
  <2>5. accepted[r][served[r]] \in 1..MaxMsgs /\ accepted[r][served[r] + 1] \in 1..MaxMsgs
    BY <1>4, <2>3
  <2>6. QED
    BY <2>2, <2>4, <2>5
<1>12. NotYet'
  BY <1>1, <1>9, <1>11 DEF NotYet
<1>13. NobodyAhead'
  <2> SUFFICES ASSUME NEW c \in Clients, NEW i \in 1..Len(got[c])
               PROVE  /\ served'[got[c][i][1]] >= 1
                      /\ got[c][i][2] <= accepted[got[c][i][1]][served'[got[c][i][1]]]
    BY DEF NobodyAhead
  <2> DEFINE q == got[c][i][1]
             k == got[c][i][2]
  <2>1. q \in Rooms /\ k \in Nat
    BY <1>10, HubDeliveryAssumption DEF Messages
  <2>2. served[q] >= 1 /\ k <= accepted[q][served[q]]
    BY <1>1 DEF NobodyAhead
  <2> HIDE DEF q, k
  <2>3. CASE q # r
    BY <1>3, <2>1, <2>2, <2>3 DEF q, k
  <2>4. CASE q = r
    <3>1. served[r] \in 1..Len(accepted[r]) /\ served[r] < served[r] + 1
      BY <1>4, <2>2, <2>4
    <3>2. accepted[r][served[r]] < accepted[r][served[r] + 1]
      BY <1>1, <3>1 DEF AcceptedInOrder
    <3>3. accepted[r][served[r]] \in 1..MaxMsgs /\ accepted[r][served[r] + 1] \in 1..MaxMsgs
      BY <1>4, <3>1
    <3>4. k <= accepted[r][served[r] + 1]
      BY <2>1, <2>2, <2>4, <3>2, <3>3
    <3>5. served'[q] = served[r] + 1 /\ served'[q] >= 1
      BY <1>3, <1>4, <2>4
    <3>6. QED
      BY <2>4, <3>4, <3>5 DEF q, k
  <2>5. QED
    BY <2>3, <2>4
<1>14. RoomOrder'
  BY <1>1 DEF RoomOrder
<1>15. NobodyForgotten'
  <2>1. ~released
    BY <1>1 DEF NobodyForgotten
  <2>2. ASSUME NEW c \in Clients, NEW x \in owed'[c]
        PROVE  x \in ToSet(got'[c]) \cup missed'[c] \/ Pending(c, x)'
    <3>1. x \in owed[c] \/ (x = m /\ c \in C)
      BY <2>2
    <3>2. x \in Messages
      BY <1>2, <3>1
    <3>3. CASE x \in owed[c]
      BY <1>1, <1>9, <3>2, <3>3 DEF NobodyForgotten
    <3>4. CASE x = m /\ c \in C
      BY <1>9, <3>2, <3>4
    <3>5. QED
      BY <3>1, <3>3, <3>4
  <2>3. QED
    BY <2>1, <2>2 DEF NobodyForgotten
<1>16. QED
  BY <1>7, <1>8, <1>12, <1>13, <1>14, <1>15

\* dispatchMessage takes the snapshot of the room of the next message.
LEMMA DispatchKeeps ==
    ASSUME IInv, NEW s \in Shards, Dispatch(s)
    PROVE  IInv'
<1> DEFINE m == Head(forward[s])
           C == rooms[m[1]]
           n == Cardinality(C)
           l == IF C = {} THEN Selecting
                ELSE IF n < FanoutThreshold THEN Loop("sync", m, C, 0)
                ELSE Loop("submit", m, C, BalancedBatchSize(n))
<1>1. /\ loop[s].pc = "select" /\ forward[s] # <<>>
      /\ forward' = [forward EXCEPT ![s] = Tail(@)]
      /\ served' = [served EXCEPT ![m[1]] = @ + 1]
      /\ owed' = [c \in Clients |-> IF c \in C THEN owed[c] \cup {m} ELSE owed[c]]
      /\ loop' = [loop EXCEPT ![s] = l]
      /\ UNCHANGED <<state, sendClosed, conn, rooms, killClient, tasks, got, taken,
                     cancelled, released, published, accepted, missed>>
  BY DEF Dispatch, clientVars
<1>2. PICK r \in Rooms : /\ RoomShard[r] = s /\ served[r] + 1 \in 1..Len(accepted[r])
                         /\ forward[s][1] = <<r, accepted[r][served[r] + 1]>>
                         /\ Head(forward[s]) = <<r, accepted[r][served[r] + 1]>>
  BY <1>1, HeadIsNext
<1>3. Types
  BY DEF IInv
<1>4. m[1] = r /\ m \in Messages
  <2>1. forward[s] \in Seq(Messages)
    BY <1>3 DEF Types, TypeOK
  <2>2. QED
    BY <1>1, <1>2, <2>1
<1>5. C = rooms[r] /\ C \in SUBSET Clients
  BY <1>3, <1>4 DEF Types, TypeOK
<1>6. /\ l \in LoopSet
      /\ \/ C = {} /\ l.pc = "select" /\ l.msg = NoMessage /\ l.rest = {}
         \/ C # {} /\ l.pc \in {"sync", "submit"} /\ l.msg = m /\ l.rest = C
  <2> HIDE DEF m, C
  <2>1. CASE C = {}
    BY <2>1 DEF Selecting, Loop, LoopSet
  <2>2. CASE C # {}
    <3>1. IsFiniteSet(C)
      BY <1>5, FS_Subset, HubDeliveryAssumption
    <3>2. n \in Nat \ {0}
      BY <2>2, <3>1, FS_CardinalityType, FS_EmptySet
    <3> HIDE DEF n
    <3>3. BalancedBatchSize(n) \in Nat
      BY <3>2, BatchSizes
    <3>4. QED
      BY <1>4, <1>5, <2>2, <3>3 DEF Loop, LoopSet
  <2>3. QED
    BY <2>1, <2>2
<1> HIDE DEF l, n
<1>7. served' = [served EXCEPT ![r] = @ + 1]
  BY <1>1, <1>4
<1>8. AcceptedInOrder' /\ QueuedHere' /\ QueuedInOrder' /\ QueuedAll'
  BY <1>1, <1>2, <1>7, ServeNextQueue
<1>9. Serving' /\ Disjoint' /\ NotYet' /\ NobodyAhead' /\ RoomOrder' /\ NobodyForgotten'
  <2> HIDE DEF C
  <2>1. m = <<r, accepted[r][served[r] + 1]>>
    BY <1>2
  <2> HIDE DEF m
  <2>2. /\ loop[s].pc = "select" /\ loop' = [loop EXCEPT ![s] = l]
        /\ owed' = [c \in Clients |-> IF c \in C THEN owed[c] \cup {m} ELSE owed[c]]
        /\ UNCHANGED <<tasks, got, released, accepted, missed>>
    BY <1>1
  <2>3. RoomShard[r] = s /\ served[r] + 1 \in 1..Len(accepted[r])
    BY <1>2
  <2>4. m \in Messages /\ C \in SUBSET Clients
    BY <1>4, <1>5
  <2>5. QED
    BY <1>6, <1>7, <2>1, <2>2, <2>3, <2>4, ServeNextWork
<1>10. Types'
  <2>1. /\ forward \in [Shards -> Seq(Messages)] /\ served \in [Rooms -> Nat]
        /\ \A z \in Shards : Len(forward[z]) <= ForwardCap
        /\ owed \in [Clients -> SUBSET Messages]
        /\ loop \in [Shards -> LoopSet]
    BY <1>3 DEF Types, TypeOK, LoopSet
  <2>2. loop' \in [Shards -> LoopSet]
    BY <1>1, <1>6, <2>1
  <2>3. served' \in [Rooms -> Nat]
    BY <1>7, <2>1
  <2>4. owed' \in [Clients -> SUBSET Messages]
    <3> HIDE DEF m, C
    <3>1. QED
      BY <1>1, <1>4, <2>1
  <2>5. forward' \in [Shards -> Seq(Messages)] /\ \A z \in Shards : Len(forward'[z]) <= ForwardCap
    <3> DEFINE f == Tail(forward[s])
    <3>1. f \in Seq(Messages) /\ Len(f) = Len(forward[s]) - 1 /\ Len(forward[s]) \in Nat
      BY <1>1, <2>1
    <3>2. forward'[s] = f /\ \A z \in Shards : z # s => forward'[z] = forward[z]
      BY <1>1, <2>1
    <3>3. forward' = [forward EXCEPT ![s] = f]
      BY <1>1
    <3> HIDE DEF f
    <3>4. Len(f) <= ForwardCap
      BY <2>1, <3>1, HubDeliveryAssumption
    <3>5. QED
      BY <2>1, <3>1, <3>2, <3>3, <3>4
  <2>6. QED
    BY <1>1, <1>3, <2>2, <2>3, <2>4, <2>5 DEF Types, TypeOK, LoopSet
<1>11. QED
  BY <1>8, <1>9, <1>10 DEF IInv

----------------------------------------------------------------------------
(***************************************************************************)
(* The sends.                                                              *)
(***************************************************************************)
\* Two busy loops dispatch messages of different rooms.
LEMMA OtherMessage ==
    ASSUME IInv, NEW s \in Shards, NEW z \in Shards, Busy(s), Busy(z), s # z
    PROVE  loop[s].msg # loop[z].msg
<1>1. Serving
  BY DEF IInv
<1>2. PICK r \in Rooms : RoomShard[r] = s /\ loop[s].msg = <<r, accepted[r][served[r]]>>
  BY <1>1 DEF Serving
<1>3. PICK q \in Rooms : RoomShard[q] = z /\ loop[z].msg = <<q, accepted[q][served[q]]>>
  BY <1>1 DEF Serving
<1>4. QED
  BY <1>2, <1>3

\* A message that is open for a client in the loop of s or in one of its tasks is the
\* one that this loop dispatches.
LEMMA TaskMessage ==
    ASSUME IInv, NEW t \in tasks
    PROVE  /\ t \in TaskSet /\ t.shard \in Shards /\ Busy(t.shard)
           /\ t.msg = loop[t.shard].msg /\ t.msg \in Messages /\ t.todo \in SUBSET Clients
<1>1. t \in TaskSet
  BY DEF IInv, Types, TypeOK, TaskSet
<1>2. loop[t.shard].pc \in {"submit", "wait"} /\ t.msg = loop[t.shard].msg
  BY DEF IInv, Serving
<1>3. QED
  BY <1>1, <1>2 DEF TaskSet, Busy

\* TrySend gives the message to the client or counts it as missed; requestEvict keeps
\* within the capacity of its channel.
LEMMA TrySendEffect ==
    ASSUME IInv, NEW c \in Clients, NEW m \in Messages, TrySend(c, m)
    PROVE  /\ got' \in [Clients -> Seq(Messages)]
           /\ \A d \in Clients : taken[d] <= Len(got'[d]) /\ Len(got'[d]) <= taken[d] + SendCap
           /\ killClient' \in [Shards -> Seq(Clients)]
           /\ \A z \in Shards : Len(killClient'[z]) <= KillCap
           /\ missed' \in [Clients -> SUBSET Messages]
           /\ \A d \in Clients : missed[d] \subseteq missed'[d]
           /\ \/ got' = got /\ m \in missed'[c]
              \/ /\ got' = [got EXCEPT ![c] = Append(@, m)]
                 /\ m \in ToSet(got'[c])
           /\ \A d \in Clients : ToSet(got[d]) \subseteq ToSet(got'[d])
<1> USE HubDeliveryAssumption
<1>1. /\ got \in [Clients -> Seq(Messages)] /\ taken \in [Clients -> Nat]
      /\ \A d \in Clients : taken[d] <= Len(got[d]) /\ Len(got[d]) <= taken[d] + SendCap
      /\ killClient \in [Shards -> Seq(Clients)]
      /\ \A z \in Shards : Len(killClient[z]) <= KillCap
      /\ missed \in [Clients -> SUBSET Messages]
  BY DEF IInv, Types, TypeOK
<1>2. CASE ~sendClosed[c] /\ Len(got[c]) < taken[c] + SendCap
  <2>1. got' = [got EXCEPT ![c] = Append(@, m)] /\ UNCHANGED <<killClient, missed>>
    BY <1>2 DEF TrySend
  <2> DEFINE g == Append(got[c], m)
  <2>2. got[c] \in Seq(Messages)
    BY <1>1
  <2>3. /\ g \in Seq(Messages) /\ Len(got[c]) \in Nat /\ Len(g) = Len(got[c]) + 1
        /\ g[Len(got[c]) + 1] = m /\ \A i \in 1..Len(got[c]) : g[i] = got[c][i]
    BY <2>2, AppendFacts
  <2>4. got'[c] = g /\ \A d \in Clients : d # c => got'[d] = got[d]
    BY <1>1, <2>1
  <2>5. got' = [got EXCEPT ![c] = g]
    BY <2>1
  <2> HIDE DEF g
  <2>6. got' \in [Clients -> Seq(Messages)]
    BY <1>1, <2>3, <2>5
  <2>7. taken[c] <= Len(g) /\ Len(g) <= taken[c] + SendCap
    <3>1. taken[c] \in Nat /\ taken[c] <= Len(got[c])
      BY <1>1
    <3>2. QED
      BY <1>2, <2>3, <3>1
  <2>8. ToSet(got[c]) \subseteq ToSet(g) /\ m \in ToSet(g)
    <3>1. DOMAIN got[c] = 1..Len(got[c]) /\ DOMAIN g = 1..(Len(got[c]) + 1)
      BY <2>2, <2>3
    <3>2. PICK n \in Nat, s \in Seq(Messages) : n = Len(got[c]) /\ s = got[c]
      BY <2>2, <2>3
    <3>3. DOMAIN s = 1..n /\ DOMAIN g = 1..(n + 1) /\ \A i \in 1..n : g[i] = s[i]
      BY <2>3, <3>1, <3>2
    <3>4. m \in ToSet(g)
      <4>1. n + 1 \in DOMAIN g /\ g[n + 1] = m
        BY <2>3, <3>2, <3>3
      <4>2. QED
        BY <4>1 DEF ToSet
    <3>5. ASSUME NEW i \in DOMAIN s PROVE s[i] \in ToSet(g)
      <4>1. i \in DOMAIN g /\ g[i] = s[i]
        BY <3>3
      <4>2. QED
        BY <4>1 DEF ToSet
    <3>6. ToSet(s) \subseteq ToSet(g)
      BY <3>5 DEF ToSet
    <3>7. QED
      BY <3>2, <3>4, <3>6
  <2>9. \A d \in Clients : ToSet(got[d]) \subseteq ToSet(got'[d])
    BY <2>4, <2>8
  <2>10. \A d \in Clients : taken[d] <= Len(got'[d]) /\ Len(got'[d]) <= taken[d] + SendCap
    BY <1>1, <2>4, <2>7
  <2>11. QED
    BY <1>1, <2>1, <2>4, <2>6, <2>8, <2>9, <2>10
<1>3. CASE ~(~sendClosed[c] /\ Len(got[c]) < taken[c] + SendCap)
  <2> DEFINE u == UserShard[c]
             k == IF Len(killClient[u]) < KillCap THEN Append(killClient[u], c)
                  ELSE killClient[u]
  <2>1. /\ missed' = [missed EXCEPT ![c] = @ \cup {m}] /\ got' = got
        /\ killClient' = [killClient EXCEPT ![u] = k]
    BY <1>3 DEF TrySend
  <2>2. u \in Shards /\ killClient[u] \in Seq(Clients) /\ Len(killClient[u]) <= KillCap
    BY <1>1
  <2>3. k \in Seq(Clients) /\ Len(k) <= KillCap
    <3>1. /\ Append(killClient[u], c) \in Seq(Clients) /\ Len(killClient[u]) \in Nat
          /\ Len(Append(killClient[u], c)) = Len(killClient[u]) + 1
      BY <2>2, AppendFacts
    <3> HIDE DEF u
    <3>2. QED
      BY <2>2, <3>1
  <2> HIDE DEF k, u
  <2>4. /\ killClient' \in [Shards -> Seq(Clients)]
        /\ \A z \in Shards : Len(killClient'[z]) <= KillCap
    BY <1>1, <2>1, <2>2, <2>3
  <2>5. /\ missed' \in [Clients -> SUBSET Messages] /\ m \in missed'[c]
        /\ \A d \in Clients : missed[d] \subseteq missed'[d]
    BY <1>1, <2>1
  <2>6. QED
    BY <1>1, <2>1, <2>4, <2>5
<1>4. QED
  BY <1>2, <1>3

\* Who gets the message that is being served gets it after all earlier ones, and the
\* work that is left is the work there was without this send.
LEMMA SendKeeps ==
    ASSUME IInv, NEW c \in Clients, NEW s \in Shards, Busy(s),
           NEW m \in Messages, m = loop[s].msg, Pending(c, m), TrySend(c, m),
           \A d \in Clients, x \in Messages :
               Pending(d, x)' <=> Pending(d, x) /\ ~(d = c /\ x = m),
           UNCHANGED <<forward, released, published, accepted, served, owed>>
    PROVE  /\ AcceptedInOrder' /\ QueuedHere' /\ QueuedInOrder' /\ QueuedAll'
           /\ NotYet' /\ NobodyAhead' /\ RoomOrder' /\ NobodyForgotten'
<1>1. /\ AcceptedInOrder /\ QueuedHere /\ QueuedInOrder /\ QueuedAll
      /\ Serving /\ NotYet /\ NobodyAhead /\ RoomOrder /\ NobodyForgotten
  BY DEF IInv
<1>2. AcceptedInOrder' /\ QueuedInOrder' /\ QueuedAll'
  BY ONLY <1>1, UNCHANGED <<forward, released, published, accepted, served, owed>>
     DEF AcceptedInOrder, QueuedInOrder, QueuedAll
<1>3. QueuedHere'
  BY ONLY <1>1, UNCHANGED <<forward, released, published, accepted, served, owed>>
     DEF QueuedHere
<1>4. PICK r \in Rooms : served[r] >= 1 /\ m = <<r, accepted[r][served[r]]>>
  BY <1>1 DEF Serving
<1>5. got \in [Clients -> Seq(Messages)] /\ owed \in [Clients -> SUBSET Messages]
  BY DEF IInv, Types, TypeOK
<1>6. /\ \A i \in 1..Len(got[c]) : got[c][i] # m
      /\ \A i \in 1..Len(got[c]) : got[c][i] \in Messages
      /\ Len(got[c]) \in Nat
  BY <1>1, <1>5, ElementsOf DEF NotYet
<1>7. \/ got' = got
      \/ /\ got'[c] = Append(got[c], m)
         /\ \A d \in Clients : d # c => got'[d] = got[d]
  BY <1>5, TrySendEffect
<1>8. \A d \in Clients : \A i \in 1..Len(got'[d]) :
          \/ i \in 1..Len(got[d]) /\ got'[d][i] = got[d][i]
          \/ d = c /\ got'[d][i] = m /\ i = Len(got[c]) + 1
  <2> SUFFICES ASSUME NEW d \in Clients, NEW i \in 1..Len(got'[d])
               PROVE  \/ i \in 1..Len(got[d]) /\ got'[d][i] = got[d][i]
                      \/ d = c /\ got'[d][i] = m /\ i = Len(got[c]) + 1
    OBVIOUS
  <2>1. CASE got'[d] = got[d]
    BY <2>1
  <2>2. CASE d = c /\ got'[d] = Append(got[c], m)
    <3>1. got[c] \in Seq(Messages)
      BY <1>5
    <3>2. /\ Append(got[c], m)[Len(got[c]) + 1] = m
          /\ \A j \in 1..Len(got[c]) : Append(got[c], m)[j] = got[c][j]
          /\ \A j \in 1..Len(Append(got[c], m)) : j \in 1..Len(got[c]) \/ j = Len(got[c]) + 1
      BY <3>1, AppendFacts
    <3>3. QED
      BY <2>2, <3>2
  <2>3. QED
    BY <1>7, <2>1, <2>2
<1>9. NotYet'
  <2> SUFFICES ASSUME NEW d \in Clients, NEW x \in Messages, Pending(d, x)',
                      NEW i \in 1..Len(got'[d])
               PROVE  got'[d][i] # x
    BY DEF NotYet
  <2>1. Pending(d, x) /\ ~(d = c /\ x = m)
    OBVIOUS
  <2>2. QED
    BY <1>1, <1>8, <2>1 DEF NotYet
<1>10. NobodyAhead'
  <2> SUFFICES ASSUME NEW d \in Clients, NEW i \in 1..Len(got'[d])
               PROVE  /\ served[got'[d][i][1]] >= 1
                      /\ got'[d][i][2] <= accepted[got'[d][i][1]][served[got'[d][i][1]]]
    BY DEF NobodyAhead
  <2>1. CASE i \in 1..Len(got[d]) /\ got'[d][i] = got[d][i]
    BY <1>1, <2>1 DEF NobodyAhead
  <2>2. CASE got'[d][i] = m
    <3>1. m[1] = r /\ m[2] = accepted[r][served[r]]
      BY <1>4
    <3>2. m[2] \in Nat
      BY HubDeliveryAssumption DEF Messages
    <3>3. QED
      BY <1>4, <2>2, <3>1, <3>2
  <2>3. QED
    BY <1>8, <2>1, <2>2
<1>11. RoomOrder'
  <2> SUFFICES ASSUME NEW d \in Clients, NEW i \in 1..Len(got'[d]), NEW j \in 1..Len(got'[d]),
                      i < j, got'[d][i][1] = got'[d][j][1]
               PROVE  got'[d][i][2] < got'[d][j][2]
    BY DEF RoomOrder
  <2>1. CASE j \in 1..Len(got[d]) /\ got'[d][j] = got[d][j]
    <3>1. i \in 1..Len(got[d]) /\ got'[d][i] = got[d][i]
      BY <1>6, <1>8, <2>1
    <3>2. QED
      BY <1>1, <2>1, <3>1 DEF RoomOrder
  <2>2. CASE d = c /\ got'[d][j] = m /\ j = Len(got[c]) + 1
    <3>1. i \in 1..Len(got[c]) /\ got'[d][i] = got[c][i]
      BY <1>6, <1>8, <2>2
    <3> DEFINE g == got[c][i]
    <3>2. g \in Messages /\ g # m /\ g[1] = m[1]
      BY <1>6, <2>2, <3>1
    <3>3. g[1] = r /\ m[2] = accepted[r][served[r]] /\ m[1] = r
      BY <1>4, <3>2
    <3>4. g[2] <= accepted[r][served[r]]
      BY <1>1, <3>1, <3>3 DEF NobodyAhead
    <3> HIDE DEF g
    <3>5. g = <<g[1], g[2]>> /\ m = <<m[1], m[2]>> /\ g[2] \in Nat /\ m[2] \in Nat
      BY <3>2, HubDeliveryAssumption DEF Messages
    <3>6. g[2] # m[2]
      BY <3>2, <3>5
    <3>7. g[2] < m[2]
      BY <3>3, <3>4, <3>5, <3>6
    <3>8. QED
      BY <2>2, <3>1, <3>7 DEF g
  <2>3. QED
    BY <1>8, <2>1, <2>2
<1>12. NobodyForgotten'
  <2>1. ~released
    <3>1. loop[s].pc # "exited"
      BY DEF Busy
    <3>2. QED
      BY <1>1, <3>1 DEF NobodyForgotten
  <2>2. ASSUME NEW d \in Clients, NEW x \in owed[d]
        PROVE  x \in ToSet(got'[d]) \cup missed'[d] \/ Pending(d, x)'
    <3>1. x \in Messages
      BY <1>5
    <3>2. x \in ToSet(got[d]) \cup missed[d] \/ Pending(d, x)
      BY <1>1 DEF NobodyForgotten
    <3>3. ToSet(got[d]) \subseteq ToSet(got'[d]) /\ missed[d] \subseteq missed'[d]
      BY TrySendEffect
    <3>4. m \in ToSet(got'[c]) \cup missed'[c]
      BY TrySendEffect
    <3>5. QED
      BY <3>1, <3>2, <3>3, <3>4
  <2>3. QED
    BY <2>1, <2>2 DEF NobodyForgotten
<1>13. QED
  BY <1>2, <1>3, <1>9, <1>10, <1>11, <1>12

\* A small room: the loop sends to the next client itself.
LEMMA SyncSendKeeps ==
    ASSUME IInv, NEW s \in Shards, NEW c \in Clients, SyncSend(s, c)
    PROVE  IInv'
<1> DEFINE l == loop[s]
           m == l.msg
           n == IF l.rest = {c} THEN Selecting ELSE Loop("sync", m, l.rest \ {c}, 0)
<1>1. /\ l.pc = "sync" /\ c \in l.rest /\ TrySend(c, m)
      /\ loop' = [loop EXCEPT ![s] = n]
      /\ UNCHANGED <<state, sendClosed, conn, rooms, forward, tasks, taken, cancelled,
                     released, published, accepted, served, owed>>
  BY DEF SyncSend, clientVars
<1>2. Types /\ Serving /\ Disjoint
  BY DEF IInv
<1>3. loop \in [Shards -> LoopSet] /\ tasks \in SUBSET TaskSet
  BY <1>2 DEF Types, TypeOK, LoopSet, TaskSet
<1>4. Busy(s)
  BY <1>1 DEF Busy
<1>5. m \in Messages
  <2>1. \E r \in Rooms : loop[s].msg = <<r, accepted[r][served[r]]>>
    BY <1>2, <1>4 DEF Serving
  <2>2. loop[s].msg # NoMessage
    BY <2>1 DEF NoMessage
  <2>3. QED
    BY <1>3, <2>2 DEF LoopSet
<1>6. /\ n \in LoopSet
      /\ \/ l.rest = {c} /\ n.pc = "select" /\ n.msg = NoMessage /\ n.rest = {}
         \/ n.pc = "sync" /\ n.msg = m /\ n.rest = l.rest \ {c}
  <2>1. l.rest \in SUBSET Clients
    BY <1>3 DEF LoopSet
  <2> HIDE DEF m, l
  <2>2. QED
    BY <1>5, <2>1 DEF Selecting, Loop, LoopSet
<1> HIDE DEF n
<1>7. loop'[s] = n /\ \A z \in Shards : z # s => loop'[z] = loop[z]
  BY <1>1, <1>3
<1>8. \A t \in tasks : t.shard \in Shards /\ t.shard # s /\ t.msg # m
  <2>1. \A t \in tasks : t.shard \in Shards /\ Busy(t.shard) /\ t.msg = loop[t.shard].msg
    BY TaskMessage
  <2>2. \A t \in tasks : t.shard # s
    BY <1>1, <1>2 DEF Serving
  <2>3. QED
    BY <1>4, <2>1, <2>2, OtherMessage
<1>9. \A z \in Shards : z # s => loop[z].msg # m
  <2>1. \A z \in Shards : ~Busy(z) => loop[z].msg = NoMessage
    BY <1>2 DEF Serving
  <2>2. QED
    BY <1>4, <1>5, <2>1, OtherMessage, NoMessageIsNone
<1>10. Pending(c, m)
  BY <1>1 DEF Pending
<1>11. \A d \in Clients, x \in Messages :
           Pending(d, x)' <=> Pending(d, x) /\ ~(d = c /\ x = m)
  <2> SUFFICES ASSUME NEW d \in Clients, NEW x \in Messages
               PROVE  Pending(d, x)' <=> Pending(d, x) /\ ~(d = c /\ x = m)
    OBVIOUS
  <2> DEFINE At0(z) == loop[z].msg = x /\ d \in loop[z].rest
             At1(z) == loop'[z].msg = x /\ d \in loop'[z].rest
             In(t) == t.msg = x /\ d \in t.todo
  <2>1. At1(s) <=> At0(s) /\ ~(d = c /\ x = m)
    BY <1>6, <1>7, NoMessageIsNone
  <2>2. \A z \in Shards : z # s => (At1(z) <=> At0(z) /\ ~(d = c /\ x = m))
    BY <1>7, <1>9
  <2>3. \A t \in tasks : In(t) <=> In(t) /\ ~(d = c /\ x = m)
    BY <1>8
  <2>4. Pending(d, x)' <=> (\E z \in Shards : At1(z)) \/ (\E t \in tasks : In(t))
    BY <1>1 DEF Pending
  <2>5. Pending(d, x) <=> (\E z \in Shards : At0(z)) \/ (\E t \in tasks : In(t))
    BY DEF Pending
  <2> HIDE DEF At0, At1, In
  <2>6. QED
    BY <2>1, <2>2, <2>3, <2>4, <2>5
<1>12. /\ AcceptedInOrder' /\ QueuedHere' /\ QueuedInOrder' /\ QueuedAll'
       /\ NotYet' /\ NobodyAhead' /\ RoomOrder' /\ NobodyForgotten'
  BY <1>1, <1>4, <1>5, <1>10, <1>11, SendKeeps
<1>13. Serving'
  <2>1. \A z \in Shards : z # s => (Busy(z)' <=> Busy(z))
    BY <1>7 DEF Busy
  <2>2. ASSUME NEW z \in Shards, Busy(z)'
        PROVE  \E q \in Rooms : /\ RoomShard[q] = z /\ served'[q] >= 1
                                /\ loop'[z].msg = <<q, accepted'[q][served'[q]]>>
    <3>1. Busy(z) /\ loop'[z].msg = loop[z].msg
      BY <1>4, <1>6, <1>7, <2>1, <2>2 DEF Busy
    <3>2. QED
      BY <1>1, <1>2, <3>1 DEF Serving
  <2>3. \A z \in Shards : ~Busy(z)' => loop'[z].msg = NoMessage
    BY <1>2, <1>6, <1>7, <2>1 DEF Serving, Busy
  <2>4. \A z \in Shards : loop'[z].pc \in {"select", "wait", "exited"} => loop'[z].rest = {}
    BY <1>2, <1>6, <1>7 DEF Serving
  <2>5. \A t \in tasks' : loop'[t.shard].pc \in {"submit", "wait"} /\ t.msg = loop'[t.shard].msg
    BY <1>1, <1>2, <1>7, <1>8 DEF Serving
  <2>6. QED
    BY <2>2, <2>3, <2>4, <2>5 DEF Serving
<1>14. Disjoint'
  BY <1>1, <1>2, <1>7, <1>8 DEF Disjoint
<1>15. Types'
  <2>1. loop' \in [Shards -> LoopSet]
    BY <1>1, <1>3, <1>6
  <2>2. /\ got' \in [Clients -> Seq(Messages)]
        /\ \A d \in Clients : taken[d] <= Len(got'[d]) /\ Len(got'[d]) <= taken[d] + SendCap
        /\ killClient' \in [Shards -> Seq(Clients)]
        /\ \A z \in Shards : Len(killClient'[z]) <= KillCap
        /\ missed' \in [Clients -> SUBSET Messages]
    BY <1>1, <1>5, TrySendEffect
  <2>3. QED
    BY <1>1, <1>2, <2>1, <2>2 DEF Types, TypeOK, LoopSet
<1>16. QED
  BY <1>12, <1>13, <1>14, <1>15 DEF IInv

\* A large room: a worker takes over a part of the clients that are left.
LEMMA SubmitKeeps ==
    ASSUME IInv, NEW s \in Shards, NEW batch \in SUBSET loop[s].rest, Submit(s, batch)
    PROVE  IInv'
<1> DEFINE l == loop[s]
           m == l.msg
           u == Task(s, m, batch)
           n == Loop(IF batch = l.rest THEN "wait" ELSE "submit", m, l.rest \ batch, l.size)
<1>1. /\ l.pc = "submit" /\ Cardinality(tasks) < PoolSize
      /\ tasks' = tasks \cup {u}
      /\ loop' = [loop EXCEPT ![s] = n]
      /\ UNCHANGED <<state, sendClosed, conn, rooms, forward, killClient, got, taken,
                     cancelled, released, published, accepted, served, owed, missed>>
  BY DEF Submit, clientVars, history
<1>2. Types /\ Delivery
  BY DEF IInv, Delivery
<1>3. Serving /\ Disjoint /\ AcceptedInOrder /\ QueuedHere /\ QueuedInOrder /\ QueuedAll
      /\ NotYet /\ NobodyAhead /\ RoomOrder /\ NobodyForgotten
  BY <1>2 DEF Delivery
<1>4. loop \in [Shards -> LoopSet] /\ tasks \in SUBSET TaskSet /\ IsFiniteSet(tasks)
  BY <1>2 DEF Types, TypeOK, LoopSet, TaskSet
<1>5. Busy(s)
  BY <1>1 DEF Busy
<1>6. m \in Messages /\ l.rest \in SUBSET Clients /\ l.size \in Nat
  BY <1>3, <1>4, <1>5 DEF Serving, LoopSet, NoMessage
<1>7. u \in TaskSet /\ u.shard = s /\ u.msg = m /\ u.todo = batch
  <2> HIDE DEF m
  <2>1. QED
    BY <1>6 DEF Task, TaskSet
<1>8. /\ n \in LoopSet /\ n.msg = m /\ n.rest = l.rest \ batch
      /\ n.pc \in {"submit", "wait"} /\ (n.pc = "wait" => n.rest = {})
  <2> HIDE DEF l, m
  <2>1. QED
    BY <1>6 DEF Loop, LoopSet
<1> HIDE DEF n, u
<1>9. loop'[s] = n /\ \A z \in Shards : z # s => loop'[z] = loop[z]
  BY <1>1, <1>4
<1>10. \A z \in Shards : Busy(z)' <=> Busy(z)
  BY <1>5, <1>8, <1>9 DEF Busy
<1>11. \A z \in Shards : loop'[z].msg = loop[z].msg /\ loop'[z].rest \subseteq loop[z].rest
  BY <1>8, <1>9
<1>12. Serving'
  <2>1. \A z \in Shards : Busy(z)' =>
            \E q \in Rooms : /\ RoomShard[q] = z /\ served'[q] >= 1
                             /\ loop'[z].msg = <<q, accepted'[q][served'[q]]>>
    BY <1>1, <1>3, <1>10, <1>11 DEF Serving
  <2>2. \A z \in Shards : ~Busy(z)' => loop'[z].msg = NoMessage
    BY <1>3, <1>10, <1>11 DEF Serving
  <2>3. \A z \in Shards : loop'[z].pc \in {"select", "wait", "exited"} => loop'[z].rest = {}
    BY <1>3, <1>8, <1>9 DEF Serving
  <2>4. ASSUME NEW t \in tasks'
        PROVE  loop'[t.shard].pc \in {"submit", "wait"} /\ t.msg = loop'[t.shard].msg
    <3>1. CASE t = u
      BY <1>7, <1>8, <1>9, <3>1
    <3>2. CASE t \in tasks
      <4>1. t.shard \in Shards
        BY <1>4, <3>2 DEF TaskSet
      <4>2. loop[t.shard].pc \in {"submit", "wait"} /\ t.msg = loop[t.shard].msg
        BY <1>3, <3>2 DEF Serving
      <4>3. loop'[t.shard].pc \in {"submit", "wait"}
        BY <1>8, <1>9, <4>1, <4>2
      <4>4. QED
        BY <1>11, <4>1, <4>2, <4>3
    <3>3. QED
      BY <1>1, <3>1, <3>2
  <2>5. QED
    BY <2>1, <2>2, <2>3, <2>4 DEF Serving
<1>13. Disjoint'
  <2>1. \A t \in tasks : t.shard \in Shards /\ t.todo \cap loop[t.shard].rest = {}
    BY <1>3, <1>4 DEF Disjoint, TaskSet
  <2>2. \A t \in tasks : t.todo \cap loop'[t.shard].rest = {}
    BY <1>11, <2>1
  <2>3. u.todo \cap loop'[u.shard].rest = {}
    BY <1>7, <1>8, <1>9
  <2>4. \A t \in tasks : t.shard = u.shard => t.todo \cap u.todo = {}
    BY <1>7, <2>1
  <2>5. \A t, v \in tasks' : t.shard = v.shard /\ t # v => t.todo \cap v.todo = {}
    BY <1>1, <1>3, <2>4 DEF Disjoint
  <2>6. QED
    BY <1>1, <2>2, <2>3, <2>5 DEF Disjoint
<1>14. \A d \in Clients, x \in Messages : Pending(d, x)' <=> Pending(d, x)
  <2> SUFFICES ASSUME NEW d \in Clients, NEW x \in Messages
               PROVE  Pending(d, x)' <=> Pending(d, x)
    OBVIOUS
  <2> DEFINE At0(z) == loop[z].msg = x /\ d \in loop[z].rest
             At1(z) == loop'[z].msg = x /\ d \in loop'[z].rest
             In(t) == t.msg = x /\ d \in t.todo
  <2>1. At0(s) <=> At1(s) \/ In(u)
    BY <1>7, <1>8, <1>9
  <2>2. \A z \in Shards : z # s => (At1(z) <=> At0(z))
    BY <1>9
  <2>3. Pending(d, x)' <=> (\E z \in Shards : At1(z)) \/ (\E t \in tasks \cup {u} : In(t))
    BY <1>1 DEF Pending
  <2>4. Pending(d, x) <=> (\E z \in Shards : At0(z)) \/ (\E t \in tasks : In(t))
    BY DEF Pending
  <2> HIDE DEF At0, At1, In
  <2>5. QED
    BY <2>1, <2>2, <2>3, <2>4
<1>15. NotYet' /\ NobodyAhead' /\ RoomOrder'
  BY <1>1, <1>3, <1>14 DEF NotYet, NobodyAhead, RoomOrder
<1>16. NobodyForgotten'
  <2>1. \A c \in Clients : owed[c] \subseteq Messages
    BY <1>2 DEF Types, TypeOK
  <2>2. ~released
    BY <1>1, <1>3 DEF NobodyForgotten
  <2>3. QED
    BY <1>1, <1>3, <1>14, <2>1, <2>2 DEF NobodyForgotten
<1>17. AcceptedInOrder' /\ QueuedHere' /\ QueuedInOrder' /\ QueuedAll'
  <2>1. UNCHANGED <<forward, published, accepted, served>>
    BY <1>1
  <2>2. QueuedHere'
    BY ONLY <1>3, <2>1 DEF QueuedHere
  <2>3. AcceptedInOrder' /\ QueuedInOrder' /\ QueuedAll'
    BY ONLY <1>3, <2>1 DEF AcceptedInOrder, QueuedInOrder, QueuedAll
  <2>4. QED
    BY <2>2, <2>3
<1>18. Types'
  <2>1. loop' \in [Shards -> LoopSet]
    BY <1>1, <1>4, <1>8
  <2>2. tasks' \in SUBSET TaskSet
    BY <1>1, <1>4, <1>7
  <2>3. IsFiniteSet(tasks') /\ Cardinality(tasks') <= PoolSize
    <3>1. /\ IsFiniteSet(tasks \cup {u})
          /\ Cardinality(tasks \cup {u})
                = IF u \in tasks THEN Cardinality(tasks) ELSE Cardinality(tasks) + 1
      BY <1>4, FS_AddElement
    <3>2. Cardinality(tasks) \in Nat
      BY <1>4, FS_CardinalityType
    <3>3. QED
      BY <1>1, <3>1, <3>2, HubDeliveryAssumption
  <2>4. QED
    BY <1>1, <1>2, <2>1, <2>2, <2>3 DEF Types, TypeOK, LoopSet, TaskSet
<1>19. QED
  BY <1>12, <1>13, <1>15, <1>16, <1>17, <1>18 DEF IInv

\* A worker sends to the next client of its batch; the other batches of the message
\* have other clients, the other messages in the pool are of other rooms.
LEMMA TaskSendKeeps ==
    ASSUME IInv, NEW t \in tasks, NEW c \in t.todo, TaskSend(t, c)
    PROVE  IInv'
<1> DEFINE s == t.shard
           m == t.msg
           v == Task(s, m, t.todo \ {c})
           N == IF t.todo = {c} THEN {} ELSE {v}
<1>1. /\ TrySend(c, m) /\ tasks' = (tasks \ {t}) \cup N
      /\ UNCHANGED <<state, sendClosed, conn, rooms, forward, loop, taken, cancelled,
                     released, published, accepted, served, owed>>
  BY DEF TaskSend, clientVars
<1>2. Types /\ Serving /\ Disjoint
  BY DEF IInv
<1>3. /\ t \in TaskSet /\ s \in Shards /\ Busy(s) /\ m = loop[s].msg /\ m \in Messages
      /\ t.todo \in SUBSET Clients
  BY TaskMessage
<1>4. c \in Clients
  BY <1>3
<1>5. v \in TaskSet /\ v.shard = s /\ v.msg = m /\ v.todo = t.todo \ {c}
  <2> HIDE DEF s, m
  <2>1. QED
    BY <1>3 DEF Task, TaskSet
<1>6. \A w \in tasks' : w \in tasks \ {t} \/ w = v
  BY <1>1
<1> HIDE DEF v
<1>7. \A w \in tasks : /\ w.shard \in Shards /\ Busy(w.shard) /\ w.msg = loop[w.shard].msg
                       /\ w \in TaskSet
  BY TaskMessage
<1>8. \A w \in tasks : w # t /\ w.msg = m => c \notin w.todo
  <2> SUFFICES ASSUME NEW w \in tasks, w # t, w.msg = m PROVE c \notin w.todo
    OBVIOUS
  <2>1. w.shard = s
    BY <1>3, <1>7, OtherMessage
  <2>2. w.todo \cap t.todo = {}
    BY <1>2, <2>1 DEF Disjoint
  <2>3. QED
    BY <2>2
<1>9. \A z \in Shards : loop[z].msg = m => c \notin loop[z].rest
  <2> SUFFICES ASSUME NEW z \in Shards, loop[z].msg = m PROVE c \notin loop[z].rest
    OBVIOUS
  <2>1. Busy(z)
    <3>1. ~Busy(z) => loop[z].msg = NoMessage
      BY <1>2 DEF Serving
    <3>2. QED
      BY <1>3, <3>1, NoMessageIsNone
  <2>2. z = s
    BY <1>3, <2>1, OtherMessage
  <2>3. t.todo \cap loop[s].rest = {}
    BY <1>2 DEF Disjoint
  <2>4. QED
    BY <2>2, <2>3
<1>10. Pending(c, m)
  BY DEF Pending
<1>11. \A d \in Clients, x \in Messages :
           Pending(d, x)' <=> Pending(d, x) /\ ~(d = c /\ x = m)
  <2> SUFFICES ASSUME NEW d \in Clients, NEW x \in Messages
               PROVE  Pending(d, x)' <=> Pending(d, x) /\ ~(d = c /\ x = m)
    OBVIOUS
  <2> DEFINE On(z) == loop[z].msg = x /\ d \in loop[z].rest
             In(w) == w.msg = x /\ d \in w.todo
             Rest == ~(d = c /\ x = m)
  <2>1. \A z \in Shards : On(z) => Rest
    BY <1>9
  <2>2. \A w \in tasks \ {t} : In(w) => Rest
    BY <1>8
  <2>3. (\E w \in N : In(w)) <=> In(t) /\ Rest
    BY <1>5
  <2>4. Pending(d, x)' <=> \/ \E z \in Shards : On(z)
                           \/ \E w \in (tasks \ {t}) \cup N : In(w)
    BY <1>1 DEF Pending
  <2>5. Pending(d, x) <=> (\E z \in Shards : On(z)) \/ (\E w \in tasks : In(w))
    BY DEF Pending
  <2> HIDE DEF On, In, N, Rest
  <2>6. Pending(d, x)' <=> Pending(d, x) /\ Rest
    BY <2>1, <2>2, <2>3, <2>4, <2>5
  <2>7. QED
    BY <2>6 DEF Rest
<1>12. /\ AcceptedInOrder' /\ QueuedHere' /\ QueuedInOrder' /\ QueuedAll'
       /\ NotYet' /\ NobodyAhead' /\ RoomOrder' /\ NobodyForgotten'
  <2> HIDE DEF s, m
  <2>1. QED
    BY <1>1, <1>3, <1>4, <1>10, <1>11, SendKeeps
<1>13. Serving'
  <2>1. \A z \in Shards : Busy(z)' <=> Busy(z)
    BY <1>1 DEF Busy
  <2>2. \A w \in tasks' : loop[w.shard].pc \in {"submit", "wait"} /\ w.msg = loop[w.shard].msg
    BY <1>2, <1>5, <1>6 DEF Serving
  <2>3. QED
    BY <1>1, <1>2, <2>1, <2>2 DEF Serving
<1>14. Disjoint'
  <2>1. /\ \A w \in tasks : w.todo \cap loop[w.shard].rest = {}
        /\ \A w, y \in tasks : w.shard = y.shard /\ w # y => w.todo \cap y.todo = {}
    BY <1>2 DEF Disjoint
  <2>2. v.todo \subseteq t.todo /\ v.shard = t.shard
    BY <1>5
  <2>3. \A w \in tasks' : w.todo \cap loop[w.shard].rest = {}
    BY <1>6, <2>1, <2>2
  <2>4. \A w \in tasks \ {t} : w.shard = v.shard => w.todo \cap v.todo = {}
    BY <2>1, <2>2
  <2>5. \A w, y \in tasks' : w.shard = y.shard /\ w # y => w.todo \cap y.todo = {}
    BY <1>6, <2>1, <2>4
  <2>6. QED
    BY <1>1, <2>3, <2>5 DEF Disjoint
<1>15. Types'
  <2>1. tasks \in SUBSET TaskSet /\ IsFiniteSet(tasks) /\ Cardinality(tasks) <= PoolSize
    BY <1>2 DEF Types, TypeOK, TaskSet
  <2>2. tasks' \in SUBSET TaskSet
    BY <1>5, <1>6, <2>1
  <2>3. IsFiniteSet(tasks') /\ Cardinality(tasks') <= PoolSize
    <3>1. /\ IsFiniteSet(tasks \ {t})
          /\ Cardinality(tasks \ {t}) = Cardinality(tasks) - 1
      BY <2>1, FS_RemoveElement
    <3>2. Cardinality(tasks) \in Nat /\ Cardinality(tasks \ {t}) \in Nat
      BY <2>1, <3>1, FS_CardinalityType
    <3>3. /\ IsFiniteSet((tasks \ {t}) \cup {v})
          /\ Cardinality((tasks \ {t}) \cup {v})
                = IF v \in tasks \ {t} THEN Cardinality(tasks \ {t})
                  ELSE Cardinality(tasks \ {t}) + 1
      BY <3>1, FS_AddElement
    <3>4. tasks' = tasks \ {t} \/ tasks' = (tasks \ {t}) \cup {v}
      BY <1>1
    <3>5. PoolSize \in Nat
      BY HubDeliveryAssumption
    <3>6. Cardinality((tasks \ {t}) \cup {v}) <= Cardinality(tasks)
      <4> DEFINE a == Cardinality(tasks)
                 b == Cardinality(tasks \ {t})
                 e == Cardinality((tasks \ {t}) \cup {v})
      <4>1. a \in Nat /\ b = a - 1 /\ (e = b \/ e = b + 1)
        BY <3>1, <3>2, <3>3
      <4> HIDE DEF a, b, e
      <4>2. e <= a
        BY <4>1
      <4>3. QED
        BY <4>2 DEF a, e
    <3>7. Cardinality((tasks \ {t}) \cup {v}) \in Nat
      BY <3>3, FS_CardinalityType
    <3>8. CASE tasks' = tasks \ {t}
      BY <2>1, <3>1, <3>2, <3>5, <3>8
    <3>9. CASE tasks' = (tasks \ {t}) \cup {v}
      BY <2>1, <3>2, <3>3, <3>5, <3>6, <3>7, <3>9
    <3>10. QED
      BY <3>4, <3>8, <3>9
  <2>4. /\ got' \in [Clients -> Seq(Messages)]
        /\ \A d \in Clients : taken[d] <= Len(got'[d]) /\ Len(got'[d]) <= taken[d] + SendCap
        /\ killClient' \in [Shards -> Seq(Clients)]
        /\ \A z \in Shards : Len(killClient'[z]) <= KillCap
        /\ missed' \in [Clients -> SUBSET Messages]
    BY <1>1, <1>3, <1>4, TrySendEffect
  <2>5. QED
    BY <1>1, <1>2, <2>2, <2>3, <2>4 DEF Types, TypeOK, TaskSet
<1>16. QED
  BY <1>12, <1>13, <1>14, <1>15 DEF IInv

----------------------------------------------------------------------------
(***************************************************************************)
(* The theorems.                                                           *)
(***************************************************************************)
\* Every step keeps the invariant.
LEMMA StepKeeps ==
    ASSUME IInv, [Next]_vars
    PROVE  IInv'
<1>1. ASSUME NEW s \in Shards, LoopStep(s) PROVE IInv'
  <2>1. CASE Dispatch(s)
    BY <2>1, DispatchKeeps
  <2>2. CASE \E c \in Clients : SyncSend(s, c)
    BY <2>2, SyncSendKeeps
  <2>3. CASE \E batch \in SUBSET loop[s].rest : Submit(s, batch)
    BY <2>3, SubmitKeeps
  <2>4. CASE BatchesDone(s) \/ LoopExit(s) \/ EvictCloseSend(s)
    BY <2>4, LoopIdleKeeps
  <2>5. CASE Evict(s)
    BY <2>5, EvictKeeps
  <2>6. QED
    BY <1>1, <2>1, <2>2, <2>3, <2>4, <2>5 DEF LoopStep
<1>2. CASE Worker
  BY <1>2, TaskSendKeeps DEF Worker
<1>3. CASE UNCHANGED vars
  <2>1. UNCHANGED <<forward, loop, tasks, got, released, history>>
    BY <1>3 DEF vars
  <2>2. Types'
    BY <1>3 DEF IInv, Types, TypeOK, vars, clientVars, history
  <2>3. QED
    BY <2>1, <2>2, QuietKeeps DEF IInv, Delivery
<1>4. QED
  BY <1>1, <1>2, <1>3, PublishKeeps, ClientKeeps, CancelKeeps, ReleaseKeeps DEF Next

\* The inductive invariant: queues, loops and tasks together hold every accepted
\* message, in order, and each open send exactly once.
THEOREM Invariance == Spec => []IInv
BY InitInvariant, StepKeeps, PTL DEF Spec

\* Every variable keeps its type: no queue and no pool exceeds its capacity.
THEOREM TypeCorrect == Spec => []TypeOK
<1>1. IInv => TypeOK
  BY DEF IInv, Types
<1>2. QED
  BY <1>1, Invariance, PTL

\* The messages of a room reach each client's queue in the order of publication and
\* none of them twice, whatever the interleaving of loops, workers and clients.
THEOREM OrderKept == Spec => []RoomOrder
<1>1. IInv => RoomOrder
  BY DEF IInv
<1>2. QED
  BY <1>1, Invariance, PTL

\* No batch loses a client, and the pool is released only when it is idle.
THEOREM EverybodyServed == Spec => []NobodyForgotten
<1>1. IInv => NobodyForgotten
  BY DEF IInv
<1>2. QED
  BY <1>1, Invariance, PTL

----------------------------------------------------------------------------
(***************************************************************************)
(* The Hub implements RoomFeed.                                            *)
(***************************************************************************)
\* What becomes visible of a step: nothing, or a step of RoomFeed.
FeedStep == [Feed!Next]_(Feed!feedVars)

\* A step that changes neither what is accepted, nor what is served, nor what the
\* clients got is invisible.
LEMMA InvisibleStep ==
    ASSUME UNCHANGED <<accepted, served, got>>
    PROVE  FeedStep
BY DEF FeedStep, Feed!feedVars

\* Publish accepts a message whose number is above those of all accepted before it, or
\* refuses it without a trace.
LEMMA PublishAccepts ==
    ASSUME IInv, NEW r \in Rooms, Publish(r)
    PROVE  FeedStep
<1> DEFINE s == RoomShard[r]
           n == published[r] + 1
<1>1. /\ published[r] < MaxMsgs
      /\ accepted' = [accepted EXCEPT ![r] =
                         IF Len(forward[s]) < ForwardCap THEN Append(@, n) ELSE @]
      /\ UNCHANGED <<served, got>>
  BY DEF Publish
<1>2. /\ accepted \in [Rooms -> Seq(1..MaxMsgs)] /\ published[r] \in 0..MaxMsgs
  BY DEF IInv, Types, TypeOK
<1>3. \A i \in 1..Len(accepted[r]) : accepted[r][i] <= published[r]
  BY DEF IInv, AcceptedInOrder
<1>4. n \in 1..MaxMsgs /\ \A i \in 1..Len(accepted[r]) : accepted[r][i] < n
  <2>1. MaxMsgs \in Nat
    BY HubDeliveryAssumption
  <2>2. n \in 1..MaxMsgs
    BY <1>1, <1>2, <2>1
  <2>3. ASSUME NEW i \in 1..Len(accepted[r]) PROVE accepted[r][i] < n
    <3>1. accepted[r] \in Seq(1..MaxMsgs)
      BY <1>2
    <3>2. accepted[r][i] \in 1..MaxMsgs
      BY <3>1, ElementsOf
    <3>3. accepted[r][i] <= published[r] /\ published[r] \in Nat
      BY <1>2, <1>3, <2>1
    <3>4. QED
      BY <2>1, <3>2, <3>3
  <2>4. QED
    BY <2>2, <2>3
<1>5. CASE Len(forward[s]) < ForwardCap
  <2>1. Feed!Accept(r, n)
    BY <1>1, <1>4, <1>5 DEF Feed!Accept
  <2>2. QED
    BY <1>4, <2>1 DEF FeedStep, Feed!Next
<1>6. CASE ~(Len(forward[s]) < ForwardCap)
  BY <1>1, <1>2, <1>6, InvisibleStep
<1>7. QED
  BY <1>5, <1>6

\* A loop that takes a message begins the next accepted message of its room.
LEMMA DispatchBegins ==
    ASSUME IInv, NEW s \in Shards, Dispatch(s)
    PROVE  FeedStep
<1> DEFINE m == Head(forward[s])
<1>1. /\ forward[s] # <<>>
      /\ served' = [served EXCEPT ![m[1]] = @ + 1]
      /\ UNCHANGED <<accepted, got>>
  BY DEF Dispatch
<1>2. PICK r \in Rooms : /\ served[r] + 1 \in 1..Len(accepted[r])
                         /\ m = <<r, accepted[r][served[r] + 1]>>
  BY <1>1, HeadIsNext
<1>3. served[r] \in Nat /\ Len(accepted[r]) \in Nat
  BY DEF IInv, Types, TypeOK
<1>4. served[r] < Len(accepted[r])
  BY <1>2, <1>3
<1>5. m[1] = r
  BY <1>2
<1>6. Feed!Begin(r)
  BY <1>1, <1>4, <1>5 DEF Feed!Begin
<1>7. QED
  BY <1>6 DEF FeedStep, Feed!Next

\* Whoever sends the message that a loop dispatches gives the current message of a room
\* to a client that does not have it, or counts the client as slow.
LEMMA SendGives ==
    ASSUME IInv, NEW s \in Shards, Busy(s), NEW c \in Clients, Pending(c, loop[s].msg),
           TrySend(c, loop[s].msg), UNCHANGED <<accepted, served>>
    PROVE  FeedStep
<1> DEFINE m == loop[s].msg
<1>1. PICK r \in Rooms : served[r] >= 1 /\ m = <<r, accepted[r][served[r]]>>
  BY DEF IInv, Serving
<1>2. m \in Messages
  <2>1. m \in Messages \cup {NoMessage}
    BY DEF IInv, Types, TypeOK
  <2>2. QED
    BY <1>1, <2>1 DEF NoMessage
<1>3. got' = got \/ got' = [got EXCEPT ![c] = Append(@, m)]
  BY <1>2, TrySendEffect
<1>4. \A i \in 1..Len(got[c]) : got[c][i] # m
  BY <1>2 DEF IInv, NotYet
<1>5. served[r] > 0
  <2>1. served[r] \in Nat
    BY DEF IInv, Types, TypeOK
  <2>2. QED
    BY <1>1, <2>1
<1>6. CASE got' = got
  BY <1>6, InvisibleStep
<1>7. CASE got' = [got EXCEPT ![c] = Append(@, m)]
  <2>1. Feed!Give(c, r)
    BY <1>1, <1>4, <1>5, <1>7 DEF Feed!Give
  <2>2. QED
    BY <2>1 DEF FeedStep, Feed!Next
<1>8. QED
  BY <1>3, <1>6, <1>7

\* Every step of the Hub is a step of RoomFeed or invisible to it.
LEMMA StepRefines ==
    ASSUME IInv, [Next]_vars
    PROVE  FeedStep
<1>1. ASSUME NEW s \in Shards, LoopStep(s) PROVE FeedStep
  <2>1. CASE Dispatch(s)
    BY <2>1, DispatchBegins
  <2>2. ASSUME NEW c \in Clients, SyncSend(s, c) PROVE FeedStep
    <3>1. /\ Busy(s) /\ c \in loop[s].rest /\ TrySend(c, loop[s].msg)
          /\ UNCHANGED <<accepted, served>>
      BY <2>2 DEF SyncSend, Busy
    <3>2. Pending(c, loop[s].msg)
      BY <3>1 DEF Pending
    <3>3. QED
      BY <3>1, <3>2, SendGives
  <2>3. CASE \/ \E batch \in SUBSET loop[s].rest : Submit(s, batch)
             \/ BatchesDone(s) \/ Evict(s) \/ EvictCloseSend(s) \/ LoopExit(s)
    <3>1. UNCHANGED <<accepted, served, got>>
      BY <2>3 DEF Submit, BatchesDone, Evict, EvictCloseSend, LoopExit, history
    <3>2. QED
      BY <3>1, InvisibleStep
  <2>4. QED
    BY <1>1, <2>1, <2>2, <2>3 DEF LoopStep
<1>2. ASSUME NEW t \in tasks, NEW c \in t.todo, TaskSend(t, c) PROVE FeedStep
  <2>1. /\ t.shard \in Shards /\ Busy(t.shard) /\ t.msg = loop[t.shard].msg
        /\ c \in Clients
    BY TaskMessage
  <2>2. TrySend(c, loop[t.shard].msg) /\ UNCHANGED <<accepted, served>>
    BY <1>2, <2>1 DEF TaskSend
  <2>3. Pending(c, loop[t.shard].msg)
    BY <2>1 DEF Pending
  <2>4. QED
    BY <2>1, <2>2, <2>3, SendGives
<1>3. CASE (\E c \in Clients : Client(c)) \/ Cancel \/ Release \/ UNCHANGED vars
  <2>1. UNCHANGED <<accepted, served, got>>
    BY <1>3 DEF Client, Register, JoinRoom, LeaveRoom, EndpointUnregister,
                EndpointCloseSend, WritePump, CloseConn, Cancel, Release, vars, history
  <2>2. QED
    BY <2>1, InvisibleStep
<1>4. QED
  BY <1>1, <1>2, <1>3, PublishAccepts DEF Next, Worker

\* The Hub implements RoomFeed: the accepted messages of a room are served in the order
\* of acceptance, none is skipped, no client gets one twice, and nobody gets a message
\* after the next one of its room has begun.
THEOREM ImplementsRoomFeed == Spec => ServesRoomFeed
<1>1. Init => Feed!Init
  BY DEF Init, Feed!Init
<1>2. IInv /\ [Next]_vars => [Feed!Next]_(Feed!feedVars)
  BY StepRefines DEF FeedStep
<1>3. QED
  BY <1>1, <1>2, Invariance, PTL DEF Spec, ServesRoomFeed, Feed!Spec

----------------------------------------------------------------------------
(***************************************************************************)
(* ClientSend.                                                             *)
(***************************************************************************)
\* sendMu excludes: while a goroutine is in the body of closeSend no other one is
\* in the body of closeSend or TrySend.
Exclusion ==
    /\ \A q \in Closers, p \in Senders : HoldsWrite(q) => ~HoldsRead(p)
    /\ \A q, g \in Closers : HoldsWrite(q) /\ HoldsWrite(g) => q = g

\* What the two flags say to a goroutine inside its critical section.
Flags ==
    /\ chanClosed => closedFlag
    /\ \A p \in Senders : pc[p] = "send" => ~closedFlag
    /\ \A q \in Closers : pc[q] = "close" => closedFlag /\ ~chanClosed

\* A goroutine in the body of TrySend has counted its call.
Counted == \A p \in Senders : HoldsRead(p) => calls[p] >= 1

SendInv == SendTypeOK /\ Counted /\ Exclusion /\ Flags /\ DrainFindsPayloads

\* The invariant holds before the first call.
LEMMA SendInvInit == SendInit => SendInv
<1> SUFFICES ASSUME SendInit PROVE SendInv
  OBVIOUS
<1> USE ClientSendAssumption
<1>1. SendTypeOK
  <2>1. /\ pc \in [Senders \cup Closers -> SenderPCs \cup CloserPCs]
        /\ \A p \in Senders : pc[p] \in SenderPCs
        /\ \A q \in Closers : pc[q] \in CloserPCs
    BY DEF SendInit, SenderPCs, CloserPCs
  <2>2. calls \in [Senders -> 0..MaxSends]
    BY DEF SendInit
  <2>3. closedFlag \in BOOLEAN /\ chanClosed \in BOOLEAN
    BY DEF SendInit
  <2>4. chan \in Seq(Payloads) /\ Len(chan) <= ChanCap
    BY DEF SendInit
  <2>5. pump \in [pc : PumpPCs, left : Nat, frame : Seq(Payloads)]
    BY DEF SendInit, Pump, PumpPCs
  <2>6. wire \in Seq(Payloads) /\ sent \in Seq(Payloads)
    BY DEF SendInit
  <2>7. QED
    BY <2>1, <2>2, <2>3, <2>4, <2>5, <2>6 DEF SendTypeOK
<1>2. Counted /\ Exclusion
  BY DEF SendInit, Counted, Exclusion, HoldsWrite, HoldsRead
<1>3. Flags
  BY DEF SendInit, Flags
<1>4. DrainFindsPayloads
  BY DEF SendInit, DrainFindsPayloads, Pump
<1>5. QED
  BY <1>1, <1>2, <1>3, <1>4 DEF SendInv

\* A step of a goroutine moves its own program counter only.
LEMMA AtEffect ==
    ASSUME SendTypeOK, NEW g \in Senders \cup Closers, NEW from, NEW to,
           At(g, from, to)
    PROVE  /\ pc[g] = from
           /\ pc'[g] = to
           /\ \A h \in Senders \cup Closers : h # g => pc'[h] = pc[h]
           /\ pc' = [pc EXCEPT ![g] = to]
BY DEF At, SendTypeOK

\* ... and keeps the types of all program counters.
LEMMA AtTypes ==
    ASSUME SendTypeOK, NEW g \in Senders \cup Closers, NEW from, NEW to,
           At(g, from, to),
           g \in Senders => to \in SenderPCs, g \in Closers => to \in CloserPCs
    PROVE  /\ pc' \in [Senders \cup Closers -> SenderPCs \cup CloserPCs]
           /\ \A s \in Senders : pc'[s] \in SenderPCs
           /\ \A t \in Closers : pc'[t] \in CloserPCs
<1>1. pc' = [pc EXCEPT ![g] = to]
  BY AtEffect
<1>2. QED
  BY <1>1 DEF SendTypeOK

\* TrySend takes the read lock only while nobody holds the write lock.
LEMMA RLockKeeps ==
    ASSUME SendInv, NEW p \in Senders, RLock(p)
    PROVE  SendInv'
<1> USE ClientSendAssumption
<1>1. At(p, "idle", "check")
  BY DEF RLock
<1>2. SendTypeOK /\ Counted /\ Exclusion /\ Flags /\ DrainFindsPayloads
  BY DEF SendInv
<1>3. /\ pc[p] = "idle" /\ pc'[p] = "check"
      /\ \A h \in Senders \cup Closers : h # p => pc'[h] = pc[h]
  BY <1>1, <1>2, AtEffect
<1>4. /\ pc' \in [Senders \cup Closers -> SenderPCs \cup CloserPCs]
      /\ \A s \in Senders : pc'[s] \in SenderPCs
      /\ \A t \in Closers : pc'[t] \in CloserPCs
  <2>1. "check" \in SenderPCs
    BY DEF SenderPCs
  <2>2. QED
    BY <1>1, <1>2, <2>1, AtTypes
<1>5. SendTypeOK'
  <2>1. calls' \in [Senders -> 0..MaxSends]
    BY <1>2 DEF RLock, SendTypeOK
  <2>2. QED
    BY <1>2, <1>4, <2>1 DEF RLock, SendTypeOK
<1>6. Counted'
  <2>1. calls'[p] = calls[p] + 1 /\ calls[p] \in Nat
    BY <1>2 DEF RLock, SendTypeOK
  <2>2. \A h \in Senders : h # p => calls'[h] = calls[h] /\ pc'[h] = pc[h]
    BY <1>2, <1>3 DEF RLock, SendTypeOK
  <2>3. QED
    BY <1>2, <2>1, <2>2 DEF Counted, HoldsRead
<1>7. Exclusion'
  <2>1. \A q \in Closers : ~HoldsWrite(q) /\ pc'[q] = pc[q]
    BY <1>3 DEF RLock
  <2>2. QED
    BY <1>2, <1>3, <2>1 DEF Exclusion, HoldsRead, HoldsWrite
<1>8. Flags'
  BY <1>2, <1>3 DEF RLock, Flags
<1>9. DrainFindsPayloads'
  BY <1>2 DEF RLock, DrainFindsPayloads
<1>10. QED
  BY <1>5, <1>6, <1>7, <1>8, <1>9 DEF SendInv

\* TrySend goes on to the send only when sendClosed is false.
LEMMA CheckSendKeeps ==
    ASSUME SendInv, NEW p \in Senders, CheckSend(p)
    PROVE  SendInv'
<1> USE ClientSendAssumption
<1>1. At(p, "check", (IF closedFlag THEN "runlock" ELSE "send"))
  BY DEF CheckSend
<1>2. SendTypeOK /\ Counted /\ Exclusion /\ Flags /\ DrainFindsPayloads
  BY DEF SendInv
<1>3. /\ pc[p] = "check" /\ pc'[p] = (IF closedFlag THEN "runlock" ELSE "send")
      /\ \A h \in Senders \cup Closers : h # p => pc'[h] = pc[h]
  BY <1>1, <1>2, AtEffect
<1>4. /\ pc' \in [Senders \cup Closers -> SenderPCs \cup CloserPCs]
      /\ \A s \in Senders : pc'[s] \in SenderPCs
      /\ \A t \in Closers : pc'[t] \in CloserPCs
  <2>1. (IF closedFlag THEN "runlock" ELSE "send") \in SenderPCs
    BY DEF SenderPCs
  <2>2. QED
    BY <1>1, <1>2, <2>1, AtTypes
<1>5. SendTypeOK'
  BY <1>2, <1>4 DEF CheckSend, SendTypeOK
<1>6. Counted'
  BY <1>2, <1>3 DEF CheckSend, Counted, HoldsRead
<1>7. Exclusion'
  BY <1>2, <1>3 DEF Exclusion, HoldsRead, HoldsWrite
<1>8. Flags'
  BY <1>2, <1>3 DEF CheckSend, Flags
<1>9. DrainFindsPayloads'
  BY <1>2 DEF CheckSend, DrainFindsPayloads
<1>10. QED
  BY <1>5, <1>6, <1>7, <1>8, <1>9 DEF SendInv

\* TrySend returns.
LEMMA RUnlockKeeps ==
    ASSUME SendInv, NEW p \in Senders, RUnlock(p)
    PROVE  SendInv'
<1> USE ClientSendAssumption
<1>1. At(p, "runlock", "idle")
  BY DEF RUnlock
<1>2. SendTypeOK /\ Counted /\ Exclusion /\ Flags /\ DrainFindsPayloads
  BY DEF SendInv
<1>3. /\ pc[p] = "runlock" /\ pc'[p] = "idle"
      /\ \A h \in Senders \cup Closers : h # p => pc'[h] = pc[h]
  BY <1>1, <1>2, AtEffect
<1>4. /\ pc' \in [Senders \cup Closers -> SenderPCs \cup CloserPCs]
      /\ \A s \in Senders : pc'[s] \in SenderPCs
      /\ \A t \in Closers : pc'[t] \in CloserPCs
  <2>1. "idle" \in SenderPCs
    BY DEF SenderPCs
  <2>2. QED
    BY <1>1, <1>2, <2>1, AtTypes
<1>5. SendTypeOK'
  BY <1>2, <1>4 DEF RUnlock, SendTypeOK
<1>6. Counted'
  BY <1>2, <1>3 DEF RUnlock, Counted, HoldsRead
<1>7. Exclusion'
  BY <1>2, <1>3 DEF Exclusion, HoldsRead, HoldsWrite
<1>8. Flags'
  BY <1>2, <1>3 DEF RUnlock, Flags
<1>9. DrainFindsPayloads'
  BY <1>2 DEF RUnlock, DrainFindsPayloads
<1>10. QED
  BY <1>5, <1>6, <1>7, <1>8, <1>9 DEF SendInv

\* closeSend is called.
LEMMA CallKeeps ==
    ASSUME SendInv, NEW q \in Closers, CallCloseSend(q)
    PROVE  SendInv'
<1> USE ClientSendAssumption
<1>1. At(q, "idle", "waiting")
  BY DEF CallCloseSend
<1>2. SendTypeOK /\ Counted /\ Exclusion /\ Flags /\ DrainFindsPayloads
  BY DEF SendInv
<1>3. /\ pc[q] = "idle" /\ pc'[q] = "waiting"
      /\ \A h \in Senders \cup Closers : h # q => pc'[h] = pc[h]
  BY <1>1, <1>2, AtEffect
<1>4. /\ pc' \in [Senders \cup Closers -> SenderPCs \cup CloserPCs]
      /\ \A s \in Senders : pc'[s] \in SenderPCs
      /\ \A t \in Closers : pc'[t] \in CloserPCs
  <2>1. "waiting" \in CloserPCs
    BY DEF CloserPCs
  <2>2. QED
    BY <1>1, <1>2, <2>1, AtTypes
<1>5. SendTypeOK'
  BY <1>2, <1>4 DEF CallCloseSend, SendTypeOK
<1>6. Counted'
  BY <1>2, <1>3 DEF CallCloseSend, Counted, HoldsRead
<1>7. Exclusion'
  BY <1>2, <1>3 DEF Exclusion, HoldsRead, HoldsWrite
<1>8. Flags'
  BY <1>2, <1>3 DEF CallCloseSend, Flags
<1>9. DrainFindsPayloads'
  BY <1>2 DEF CallCloseSend, DrainFindsPayloads
<1>10. QED
  BY <1>5, <1>6, <1>7, <1>8, <1>9 DEF SendInv

\* closeSend takes the write lock only while nobody holds sendMu.
LEMMA LockKeeps ==
    ASSUME SendInv, NEW q \in Closers, Lock(q)
    PROVE  SendInv'
<1> USE ClientSendAssumption
<1>1. At(q, "waiting", "check")
  BY DEF Lock
<1>2. SendTypeOK /\ Counted /\ Exclusion /\ Flags /\ DrainFindsPayloads
  BY DEF SendInv
<1>3. /\ pc[q] = "waiting" /\ pc'[q] = "check"
      /\ \A h \in Senders \cup Closers : h # q => pc'[h] = pc[h]
  BY <1>1, <1>2, AtEffect
<1>4. /\ pc' \in [Senders \cup Closers -> SenderPCs \cup CloserPCs]
      /\ \A s \in Senders : pc'[s] \in SenderPCs
      /\ \A t \in Closers : pc'[t] \in CloserPCs
  <2>1. "check" \in CloserPCs
    BY DEF CloserPCs
  <2>2. QED
    BY <1>1, <1>2, <2>1, AtTypes
<1>5. SendTypeOK'
  BY <1>2, <1>4 DEF Lock, SendTypeOK
<1>6. Counted'
  BY <1>2, <1>3 DEF Lock, Counted, HoldsRead
<1>7. Exclusion'
  <2>1. /\ \A p \in Senders : ~HoldsRead(p) /\ pc'[p] = pc[p]
        /\ \A g \in Closers : ~HoldsWrite(g)
    BY <1>3 DEF Lock
  <2>2. QED
    BY <1>2, <1>3, <2>1 DEF Exclusion, HoldsRead, HoldsWrite
<1>8. Flags'
  BY <1>2, <1>3 DEF Lock, Flags
<1>9. DrainFindsPayloads'
  BY <1>2 DEF Lock, DrainFindsPayloads
<1>10. QED
  BY <1>5, <1>6, <1>7, <1>8, <1>9 DEF SendInv

\* closeSend sets sendClosed while no TrySend is between its test and its send.
LEMMA CheckCloseKeeps ==
    ASSUME SendInv, NEW q \in Closers, CheckClose(q)
    PROVE  SendInv'
<1> USE ClientSendAssumption
<1>1. At(q, "check", (IF closedFlag THEN "unlock" ELSE "close"))
  BY DEF CheckClose
<1>2. SendTypeOK /\ Counted /\ Exclusion /\ Flags /\ DrainFindsPayloads
  BY DEF SendInv
<1>3. /\ pc[q] = "check" /\ pc'[q] = (IF closedFlag THEN "unlock" ELSE "close")
      /\ \A h \in Senders \cup Closers : h # q => pc'[h] = pc[h]
  BY <1>1, <1>2, AtEffect
<1>4. /\ pc' \in [Senders \cup Closers -> SenderPCs \cup CloserPCs]
      /\ \A s \in Senders : pc'[s] \in SenderPCs
      /\ \A t \in Closers : pc'[t] \in CloserPCs
  <2>1. (IF closedFlag THEN "unlock" ELSE "close") \in CloserPCs
    BY DEF CloserPCs
  <2>2. QED
    BY <1>1, <1>2, <2>1, AtTypes
<1>5. SendTypeOK'
  BY <1>2, <1>4 DEF CheckClose, SendTypeOK
<1>6. Counted'
  BY <1>2, <1>3 DEF CheckClose, Counted, HoldsRead
<1>7. Exclusion'
  BY <1>2, <1>3 DEF Exclusion, HoldsRead, HoldsWrite
<1>8. Flags'
  <2>1. \A p \in Senders : pc'[p] # "send"
    BY <1>2, <1>3 DEF Exclusion, HoldsRead, HoldsWrite
  <2>2. closedFlag' = TRUE /\ chanClosed' = chanClosed
    BY DEF CheckClose
  <2>3. QED
    BY <1>2, <1>3, <2>1, <2>2 DEF Flags
<1>9. DrainFindsPayloads'
  BY <1>2 DEF CheckClose, DrainFindsPayloads
<1>10. QED
  BY <1>5, <1>6, <1>7, <1>8, <1>9 DEF SendInv

\* closeSend closes the channel while no other closeSend is about to.
LEMMA CloseChanKeeps ==
    ASSUME SendInv, NEW q \in Closers, CloseChan(q)
    PROVE  SendInv'
<1> USE ClientSendAssumption
<1>1. At(q, "close", "unlock")
  BY DEF CloseChan
<1>2. SendTypeOK /\ Counted /\ Exclusion /\ Flags /\ DrainFindsPayloads
  BY DEF SendInv
<1>3. /\ pc[q] = "close" /\ pc'[q] = "unlock"
      /\ \A h \in Senders \cup Closers : h # q => pc'[h] = pc[h]
  BY <1>1, <1>2, AtEffect
<1>4. /\ pc' \in [Senders \cup Closers -> SenderPCs \cup CloserPCs]
      /\ \A s \in Senders : pc'[s] \in SenderPCs
      /\ \A t \in Closers : pc'[t] \in CloserPCs
  <2>1. "unlock" \in CloserPCs
    BY DEF CloserPCs
  <2>2. QED
    BY <1>1, <1>2, <2>1, AtTypes
<1>5. SendTypeOK'
  BY <1>2, <1>4 DEF CloseChan, SendTypeOK
<1>6. Counted'
  BY <1>2, <1>3 DEF CloseChan, Counted, HoldsRead
<1>7. Exclusion'
  BY <1>2, <1>3 DEF Exclusion, HoldsRead, HoldsWrite
<1>8. Flags'
  <2>1. closedFlag
    BY <1>2, <1>3 DEF Flags
  <2>2. \A g \in Closers : pc'[g] # "close"
    BY <1>2, <1>3 DEF Exclusion, HoldsWrite
  <2>3. QED
    BY <1>2, <1>3, <2>1, <2>2 DEF CloseChan, Flags
<1>9. DrainFindsPayloads'
  BY <1>2 DEF CloseChan, DrainFindsPayloads
<1>10. QED
  BY <1>5, <1>6, <1>7, <1>8, <1>9 DEF SendInv

\* closeSend returns.
LEMMA UnlockKeeps ==
    ASSUME SendInv, NEW q \in Closers, Unlock(q)
    PROVE  SendInv'
<1> USE ClientSendAssumption
<1>1. At(q, "unlock", "done")
  BY DEF Unlock
<1>2. SendTypeOK /\ Counted /\ Exclusion /\ Flags /\ DrainFindsPayloads
  BY DEF SendInv
<1>3. /\ pc[q] = "unlock" /\ pc'[q] = "done"
      /\ \A h \in Senders \cup Closers : h # q => pc'[h] = pc[h]
  BY <1>1, <1>2, AtEffect
<1>4. /\ pc' \in [Senders \cup Closers -> SenderPCs \cup CloserPCs]
      /\ \A s \in Senders : pc'[s] \in SenderPCs
      /\ \A t \in Closers : pc'[t] \in CloserPCs
  <2>1. "done" \in CloserPCs
    BY DEF CloserPCs
  <2>2. QED
    BY <1>1, <1>2, <2>1, AtTypes
<1>5. SendTypeOK'
  BY <1>2, <1>4 DEF Unlock, SendTypeOK
<1>6. Counted'
  BY <1>2, <1>3 DEF Unlock, Counted, HoldsRead
<1>7. Exclusion'
  BY <1>2, <1>3 DEF Exclusion, HoldsRead, HoldsWrite
<1>8. Flags'
  BY <1>2, <1>3 DEF Unlock, Flags
<1>9. DrainFindsPayloads'
  BY <1>2 DEF Unlock, DrainFindsPayloads
<1>10. QED
  BY <1>5, <1>6, <1>7, <1>8, <1>9 DEF SendInv

\* TrySend puts its payload on the channel when there is room for it.
LEMMA SelectSendKeeps ==
    ASSUME SendInv, NEW p \in Senders, SelectSend(p)
    PROVE  SendInv'
<1> USE ClientSendAssumption
<1>1. At(p, "send", "runlock")
  BY DEF SelectSend
<1>2. SendTypeOK /\ Counted /\ Exclusion /\ Flags /\ DrainFindsPayloads
  BY DEF SendInv
<1>3. /\ pc[p] = "send" /\ pc'[p] = "runlock"
      /\ \A h \in Senders \cup Closers : h # p => pc'[h] = pc[h]
  BY <1>1, <1>2, AtEffect
<1>4. /\ pc' \in [Senders \cup Closers -> SenderPCs \cup CloserPCs]
      /\ \A s \in Senders : pc'[s] \in SenderPCs
      /\ \A t \in Closers : pc'[t] \in CloserPCs
  <2>1. "runlock" \in SenderPCs
    BY DEF SenderPCs
  <2>2. QED
    BY <1>1, <1>2, <2>1, AtTypes
<1>5. SendTypeOK'
  <2>1. <<p, calls[p]>> \in Payloads
    <3>1. calls[p] \in 0..MaxSends /\ calls[p] >= 1
      BY <1>2, <1>3 DEF SendTypeOK, Counted, HoldsRead
    <3>2. calls[p] \in 1..MaxSends
      BY <3>1
    <3>3. QED
      BY <3>2 DEF Payloads
  <2>2. /\ chan' \in Seq(Payloads) /\ Len(chan') <= ChanCap
        /\ sent' \in Seq(Payloads)
    <3> DEFINE m == <<p, calls[p]>>
    <3>1. chan \in Seq(Payloads) /\ sent \in Seq(Payloads) /\ Len(chan) <= ChanCap
      BY <1>2 DEF SendTypeOK
    <3>2. \/ Len(chan) < ChanCap /\ chan' = Append(chan, m) /\ sent' = Append(sent, m)
          \/ chan' = chan /\ sent' = sent
      BY DEF SelectSend
    <3>3. m \in Payloads
      BY <2>1
    <3> HIDE DEF m
    <3>4. Append(chan, m) \in Seq(Payloads) /\ Len(Append(chan, m)) = Len(chan) + 1
      BY <3>1, <3>3
    <3>5. Append(sent, m) \in Seq(Payloads)
      BY <3>1, <3>3
    <3>6. Len(chan) \in Nat /\ ChanCap \in Nat
      BY <3>1
    <3>7. CASE Len(chan) < ChanCap /\ chan' = Append(chan, m) /\ sent' = Append(sent, m)
      BY <3>4, <3>5, <3>6, <3>7
    <3>8. CASE chan' = chan /\ sent' = sent
      BY <3>1, <3>8
    <3>9. QED
      BY <3>2, <3>7, <3>8
  <2>3. QED
    BY <1>2, <1>4, <2>2 DEF SelectSend, SendTypeOK
<1>6. Counted'
  BY <1>2, <1>3 DEF SelectSend, Counted, HoldsRead
<1>7. Exclusion'
  BY <1>2, <1>3 DEF Exclusion, HoldsRead, HoldsWrite
<1>8. Flags'
  BY <1>2, <1>3 DEF SelectSend, Flags
<1>9. DrainFindsPayloads'
  <2>1. Len(chan') >= Len(chan) /\ Len(chan) \in Nat /\ Len(chan') \in Nat
    <3>1. chan \in Seq(Payloads)
      BY <1>2 DEF SendTypeOK
    <3>2. QED
      BY <3>1 DEF SelectSend
  <2>2. pump' = pump /\ pump.left \in Nat
    BY <1>2 DEF SelectSend, SendTypeOK
  <2>3. QED
    BY <1>2, <2>1, <2>2 DEF DrainFindsPayloads
<1>10. QED
  BY <1>5, <1>6, <1>7, <1>8, <1>9 DEF SendInv

\* WritePump only receives: the goroutines and the flags are not its business, and
\* each of its receives takes one payload of the number it has counted.
LEMMA PumpKeeps ==
    ASSUME SendInv, PumpLoop \/ WriteError
    PROVE  SendInv'
<1> USE ClientSendAssumption
<1>1. SendTypeOK /\ Counted /\ Exclusion /\ Flags /\ DrainFindsPayloads
  BY DEF SendInv
<1>2. pc' = pc /\ calls' = calls /\ closedFlag' = closedFlag /\ chanClosed' = chanClosed
      /\ sent' = sent
  BY DEF PumpLoop, WriteError, Receive, ReceiveClosed, NextWriter, LenSend, Drain,
         WriteFrame
<1>3. Counted' /\ Exclusion' /\ Flags'
  BY <1>1, <1>2 DEF Counted, Exclusion, Flags, HoldsRead, HoldsWrite
<1>4. /\ chan \in Seq(Payloads) /\ Len(chan) <= ChanCap /\ Len(chan) \in Nat
      /\ pump \in [pc : PumpPCs, left : Nat, frame : Seq(Payloads)]
      /\ wire \in Seq(Payloads)
  BY <1>1 DEF SendTypeOK
<1>5. /\ chan' \in Seq(Payloads) /\ Len(chan') <= ChanCap
      /\ pump' \in [pc : PumpPCs, left : Nat, frame : Seq(Payloads)]
      /\ wire' \in Seq(Payloads)
      /\ DrainFindsPayloads'
  <2>1. CASE Receive
    <3>1. Head(chan) \in Payloads /\ Tail(chan) \in Seq(Payloads)
          /\ Len(Tail(chan)) = Len(chan) - 1
      BY <1>4, <2>1 DEF Receive
    <3>2. QED
      BY <1>4, <2>1, <3>1 DEF Receive, Pump, PumpPCs, DrainFindsPayloads
  <2>2. CASE ReceiveClosed
    BY <1>4, <2>2 DEF ReceiveClosed, Pump, PumpPCs, DrainFindsPayloads
  <2>3. CASE NextWriter
    BY <1>4, <2>3 DEF NextWriter, Pump, PumpPCs, DrainFindsPayloads
  <2>4. CASE LenSend
    BY <1>4, <2>4 DEF LenSend, Pump, PumpPCs, DrainFindsPayloads
  <2>5. CASE Drain
    <3>1. Head(chan) \in Payloads /\ Tail(chan) \in Seq(Payloads)
          /\ Len(Tail(chan)) = Len(chan) - 1
      BY <1>4, <2>5 DEF Drain
    <3>2. pump.left <= Len(chan) /\ pump.left \in Nat \ {0}
      BY <1>1, <1>4, <2>5 DEF Drain, DrainFindsPayloads
    <3>3. Append(pump.frame, Head(chan)) \in Seq(Payloads)
      BY <1>4, <3>1
    <3>4. /\ pump' = Pump("drain", pump.left - 1, Append(pump.frame, Head(chan)))
          /\ chan' = Tail(chan) /\ wire' = wire
      BY <2>5 DEF Drain
    <3>5. QED
      BY <1>4, <3>1, <3>2, <3>3, <3>4 DEF Pump, PumpPCs, DrainFindsPayloads
  <2>6. CASE WriteFrame
    <3>1. wire \o pump.frame \in Seq(Payloads)
      BY <1>4
    <3>2. QED
      BY <1>4, <2>6, <3>1 DEF WriteFrame, Pump, PumpPCs, DrainFindsPayloads
  <2>7. CASE WriteError
    BY <1>4, <2>7 DEF WriteError, Pump, PumpPCs, DrainFindsPayloads
  <2>8. QED
    BY <2>1, <2>2, <2>3, <2>4, <2>5, <2>6, <2>7 DEF PumpLoop
<1>6. SendTypeOK'
  BY <1>1, <1>2, <1>5 DEF SendTypeOK
<1>7. QED
  BY <1>3, <1>5, <1>6 DEF SendInv

\* A step that changes nothing keeps the invariant.
LEMMA StutterKeeps ==
    ASSUME SendInv, UNCHANGED sendVars
    PROVE  SendInv'
BY DEF SendInv, sendVars, SendTypeOK, Counted, Exclusion, Flags, DrainFindsPayloads,
       HoldsRead, HoldsWrite

\* The inductive invariant: mutual exclusion by sendMu and the meaning of the flags.
THEOREM SendInvariance == SendSpec => []SendInv
<1>1. ASSUME SendInv, [SendNext]_sendVars PROVE SendInv'
  <2>1. ASSUME NEW p \in Senders, Sender(p) PROVE SendInv'
    BY <1>1, <2>1, RLockKeeps, CheckSendKeeps, SelectSendKeeps, RUnlockKeeps
       DEF Sender
  <2>2. ASSUME NEW q \in Closers, Closer(q) PROVE SendInv'
    BY <1>1, <2>2, CallKeeps, LockKeeps, CheckCloseKeeps, CloseChanKeeps,
       UnlockKeeps DEF Closer
  <2>3. QED
    BY <1>1, <2>1, <2>2, PumpKeeps, StutterKeeps DEF SendNext
<1>2. QED
  BY <1>1, SendInvInit, PTL DEF SendSpec

\* Every variable keeps its type, and Send never holds more than its capacity.
THEOREM SendTypeCorrect == SendSpec => []SendTypeOK
<1>1. SendInv => SendTypeOK
  BY DEF SendInv
<1>2. QED
  BY <1>1, SendInvariance, PTL

\* No goroutine ever sends on the closed Send channel or closes it twice.
THEOREM NeverPanics == SendSpec => []NoPanic
<1>1. SendInv => NoPanic
  BY DEF SendInv, Flags, NoPanic
<1>2. QED
  BY <1>1, SendInvariance, PTL

\* The receives that WritePump makes for one frame never block.
THEOREM DrainNeverBlocks == SendSpec => []DrainFindsPayloads
<1>1. SendInv => DrainFindsPayloads
  BY DEF SendInv
<1>2. QED
  BY <1>1, SendInvariance, PTL

----------------------------------------------------------------------------
(***************************************************************************)
(* The payloads in flight.  WritePump holds no frame while it waits, and   *)
(* it has returned for a closed channel only when the buffer was empty.    *)
(***************************************************************************)
NoFrame == pump.pc \in {"select", "closed"} => pump.frame = <<>>
ClosedEmpty == pump.pc = "closed" => chanClosed /\ chan = <<>>

StreamInv == StreamIntact /\ NoFrame /\ ClosedEmpty

\* The first payload of the buffer may as well be the last one of the frame.
LEMMA ShiftHead ==
    ASSUME NEW S, NEW a \in Seq(S), NEW b \in Seq(S), NEW c \in Seq(S), c # <<>>
    PROVE  a \o b \o c = a \o Append(b, Head(c)) \o Tail(c)
OBVIOUS

\* An empty frame contributes nothing.
LEMMA EmptyFrame ==
    ASSUME NEW S, NEW a \in Seq(S), NEW b \in Seq(S), NEW c \in Seq(S)
    PROVE  /\ a \o <<>> \o c = a \o c
           /\ (a \o b) \o <<>> \o c = a \o b \o c
           /\ a \o b \o <<>> = a \o b
OBVIOUS

\* A single payload in the frame.
LEMMA FirstOfFrame ==
    ASSUME NEW S, NEW m \in S
    PROVE  Append(<<>>, m) = <<m>>
OBVIOUS

\* Nothing is in flight before the first call.
LEMMA StreamInit == SendInit => StreamInv
<1> SUFFICES ASSUME SendInit PROVE StreamInv
  OBVIOUS
<1>1. sent = <<>> /\ wire = <<>> /\ chan = <<>> /\ pump = Pump("select", 0, <<>>)
  BY DEF SendInit
<1>2. pump.pc = "select" /\ pump.frame = <<>>
  BY <1>1 DEF Pump
<1>3. <<>> \o <<>> \o <<>> = <<>>
  OBVIOUS
<1>4. QED
  BY <1>1, <1>2, <1>3 DEF StreamInv, StreamIntact, NoFrame, ClosedEmpty

\* TrySend and closeSend touch the stream only where TrySend sends, and there the
\* channel is open: WritePump has not returned for a closed one.
LEMMA CallersKeepStream ==
    ASSUME SendInv, StreamInv,
           \/ \E p \in Senders : Sender(p)
           \/ \E q \in Closers : Closer(q)
    PROVE  StreamInv'
<1>1. SendTypeOK /\ Counted /\ Flags
  BY DEF SendInv
<1>2. StreamIntact /\ NoFrame /\ ClosedEmpty
  BY DEF StreamInv
<1>3. ASSUME UNCHANGED <<chan, pump, wire, sent>>, chanClosed => chanClosed'
      PROVE  StreamInv'
  BY <1>2, <1>3 DEF StreamInv, StreamIntact, NoFrame, ClosedEmpty
<1>4. ASSUME NEW p \in Senders, SelectSend(p) PROVE StreamInv'
  <2> DEFINE m == <<p, calls[p]>>
  <2>1. pump' = pump /\ wire' = wire /\ chanClosed' = chanClosed
    BY <1>4 DEF SelectSend
  <2>2. pc[p] = "send"
    BY <1>4 DEF SelectSend, At
  <2>3. ~chanClosed
    BY <1>1, <2>2 DEF Flags
  <2>4. NoFrame' /\ ClosedEmpty'
    BY <1>2, <2>1, <2>3 DEF NoFrame, ClosedEmpty
  <2>5. CASE chan' = chan /\ sent' = sent
    BY <1>2, <2>1, <2>4, <2>5 DEF StreamInv, StreamIntact
  <2>6. CASE chan' = Append(chan, m) /\ sent' = Append(sent, m)
    <3>1. m \in Payloads
      <4>1. calls[p] \in 0..MaxSends /\ calls[p] >= 1
        BY <1>1, <2>2 DEF SendTypeOK, Counted, HoldsRead
      <4>2. calls[p] \in 1..MaxSends
        BY <4>1, ClientSendAssumption
      <4>3. QED
        BY <4>2 DEF Payloads
    <3>2. wire \in Seq(Payloads) /\ pump.frame \in Seq(Payloads)
          /\ chan \in Seq(Payloads)
      BY <1>1 DEF SendTypeOK
    <3> HIDE DEF m
    <3>3. Append(wire \o pump.frame \o chan, m)
            = wire \o pump.frame \o Append(chan, m)
      <4> DEFINE s == wire \o pump.frame
      <4>1. s \in Seq(Payloads) /\ s \o chan \in Seq(Payloads) /\ <<m>> \in Seq(Payloads)
        BY <3>1, <3>2
      <4> HIDE DEF s
      <4>2. Append(s \o chan, m) = (s \o chan) \o <<m>>
        BY <3>1, <4>1, AppendIsConcat
      <4>3. (s \o chan) \o <<m>> = s \o (chan \o <<m>>)
        BY <3>2, <4>1, ConcatAssociative
      <4>4. chan \o <<m>> = Append(chan, m)
        BY <3>1, <3>2, AppendIsConcat
      <4>5. Append(s \o chan, m) = s \o Append(chan, m)
        BY <4>2, <4>3, <4>4
      <4>6. QED
        BY <4>5 DEF s
    <3>4. StreamIntact'
      BY <1>2, <2>1, <2>6, <3>3 DEF StreamIntact
    <3>5. QED
      BY <2>4, <3>4 DEF StreamInv
  <2>7. QED
    BY <1>4, <2>5, <2>6 DEF SelectSend
<1>5. ASSUME NEW p \in Senders, Sender(p) PROVE StreamInv'
  <2>1. SelectSend(p) \/ (UNCHANGED <<chan, pump, wire, sent>> /\ chanClosed' = chanClosed)
    BY <1>5 DEF Sender, RLock, CheckSend, RUnlock
  <2>2. QED
    BY <1>3, <1>4, <2>1
<1>6. ASSUME NEW q \in Closers, Closer(q) PROVE StreamInv'
  <2>1. UNCHANGED <<chan, pump, wire, sent>> /\ (chanClosed => chanClosed')
    BY <1>6 DEF Closer, CallCloseSend, Lock, CheckClose, CloseChan, Unlock
  <2>2. QED
    BY <1>3, <2>1
<1>7. QED
  BY <1>5, <1>6

\* WritePump moves payloads from the buffer to its frame and from the frame to the
\* wire, always the oldest first.
LEMMA PumpKeepsStream ==
    ASSUME SendInv, StreamInv, PumpLoop \/ WriteError
    PROVE  StreamInv'
<1>1. /\ wire \in Seq(Payloads) /\ chan \in Seq(Payloads)
      /\ pump.frame \in Seq(Payloads)
  BY DEF SendInv, SendTypeOK
<1>2. StreamIntact /\ NoFrame /\ ClosedEmpty
  BY DEF StreamInv
<1>3. CASE Receive
  <2>1. /\ pump.pc = "select" /\ chan # <<>> /\ pump' = Pump("open", 0, <<Head(chan)>>)
        /\ chan' = Tail(chan) /\ wire' = wire /\ sent' = sent
    BY <1>3 DEF Receive
  <2>2. pump'.pc = "open" /\ pump'.frame = <<Head(chan)>>
    BY <2>1 DEF Pump
  <2>3. pump.frame = <<>> /\ sent = wire \o pump.frame \o chan
    BY <1>2, <2>1 DEF NoFrame, StreamIntact
  <2>4. Append(<<>>, Head(chan)) = <<Head(chan)>>
    BY <1>1, <2>1, FirstOfFrame, HeadTailProperties
  <2>5. wire \o pump.frame \o chan = wire \o Append(pump.frame, Head(chan)) \o Tail(chan)
    <3>1. \A a, b, c \in Seq(Payloads) :
              c # <<>> => a \o b \o c = a \o Append(b, Head(c)) \o Tail(c)
      BY ShiftHead
    <3>2. QED
      BY <1>1, <2>1, <3>1, Zenon
  <2>6. QED
    BY <2>1, <2>2, <2>3, <2>4, <2>5 DEF StreamInv, StreamIntact, NoFrame, ClosedEmpty
<1>4. CASE ReceiveClosed
  <2>1. /\ pump.pc = "select" /\ chanClosed /\ chan = <<>>
        /\ pump' = Pump("closed", 0, <<>>)
        /\ UNCHANGED <<chan, chanClosed, wire, sent>>
    BY <1>4 DEF ReceiveClosed
  <2>2. pump'.pc = "closed" /\ pump'.frame = <<>>
    BY <2>1 DEF Pump
  <2>3. pump.frame = <<>>
    BY <1>2, <2>1 DEF NoFrame
  <2>4. QED
    BY <1>2, <2>1, <2>2, <2>3 DEF StreamInv, StreamIntact, NoFrame, ClosedEmpty
<1>5. CASE NextWriter \/ LenSend
  <2>1. /\ pump.pc \in {"open", "len"} /\ pump'.pc \in {"len", "drain"}
        /\ pump'.frame = pump.frame /\ UNCHANGED <<chan, wire, sent>>
    BY <1>5 DEF NextWriter, LenSend, Pump
  <2>2. QED
    BY <1>2, <2>1 DEF StreamInv, StreamIntact, NoFrame, ClosedEmpty
<1>6. CASE Drain
  <2>1. /\ pump.pc = "drain" /\ chan # <<>>
        /\ pump' = Pump("drain", pump.left - 1, Append(pump.frame, Head(chan)))
        /\ chan' = Tail(chan) /\ wire' = wire /\ sent' = sent
    BY <1>6 DEF Drain
  <2>2. pump'.pc = "drain" /\ pump'.frame = Append(pump.frame, Head(chan))
    BY <2>1 DEF Pump
  <2>3. wire \o pump.frame \o chan = wire \o Append(pump.frame, Head(chan)) \o Tail(chan)
    <3>1. \A a, b, c \in Seq(Payloads) :
              c # <<>> => a \o b \o c = a \o Append(b, Head(c)) \o Tail(c)
      BY ShiftHead
    <3>2. QED
      BY <1>1, <2>1, <3>1, Zenon
  <2>4. QED
    BY <1>2, <2>1, <2>2, <2>3 DEF StreamInv, StreamIntact, NoFrame, ClosedEmpty
<1>7. CASE WriteFrame
  <2>1. /\ pump.pc = "drain" /\ wire' = wire \o pump.frame
        /\ pump' = Pump("select", 0, <<>>) /\ chan' = chan /\ sent' = sent
    BY <1>7 DEF WriteFrame
  <2>2. pump'.pc = "select" /\ pump'.frame = <<>>
    BY <2>1 DEF Pump
  <2>3. (wire \o pump.frame) \o <<>> \o chan = wire \o pump.frame \o chan
    BY <1>1, EmptyFrame
  <2>4. QED
    BY <1>2, <2>1, <2>2, <2>3 DEF StreamInv, StreamIntact, NoFrame, ClosedEmpty
<1>8. CASE WriteError
  <2>1. pump'.pc = "failed"
    BY <1>8 DEF WriteError, Pump
  <2>2. QED
    BY <2>1 DEF StreamInv, StreamIntact, NoFrame, ClosedEmpty
<1>9. QED
  BY <1>3, <1>4, <1>5, <1>6, <1>7, <1>8 DEF PumpLoop

\* The stream invariant holds together with the one about sendMu.
THEOREM StreamInvariance == SendSpec => [](SendInv /\ StreamInv)
<1>1. ASSUME SendInv, StreamInv, [SendNext]_sendVars PROVE StreamInv'
  <2>1. CASE UNCHANGED sendVars
    BY <1>1, <2>1 DEF sendVars, StreamInv, StreamIntact, NoFrame, ClosedEmpty
  <2>2. QED
    BY <1>1, <2>1, CallersKeepStream, PumpKeepsStream DEF SendNext
<1>2. QED
  BY <1>1, SendInvariance, StreamInit, PTL DEF SendSpec

\* What TrySend accepted is on the wire, in the frame or in the buffer, in that
\* order: nothing is lost, duplicated or reordered while no write fails.
THEOREM NothingLost == SendSpec => []StreamIntact
<1>1. StreamInv => StreamIntact
  BY DEF StreamInv
<1>2. QED
  BY <1>1, StreamInvariance, PTL

\* When WritePump returns because Send is closed the peer has been sent everything
\* that TrySend ever accepted, and no TrySend is about to send.
THEOREM CloseComesLast == SendSpec => []ClosedAfterLast
<1>1. ASSUME SendInv, StreamInv PROVE ClosedAfterLast
  <2> SUFFICES ASSUME pump.pc = "closed"
               PROVE  wire = sent /\ \A p \in Senders : pc[p] # "send"
    BY DEF ClosedAfterLast
  <2>1. chanClosed /\ chan = <<>> /\ pump.frame = <<>> /\ sent = wire \o pump.frame \o chan
    BY <1>1 DEF StreamInv, StreamIntact, NoFrame, ClosedEmpty
  <2>2. wire \in Seq(Payloads)
    BY <1>1 DEF SendInv, SendTypeOK
  <2>3. wire \o <<>> \o <<>> = wire
    BY <2>2
  <2>4. \A p \in Senders : pc[p] # "send"
    BY <1>1, <2>1 DEF SendInv, Flags
  <2>5. QED
    BY <2>1, <2>3, <2>4
<1>2. QED
  BY <1>1, StreamInvariance, PTL
=============================================================================
