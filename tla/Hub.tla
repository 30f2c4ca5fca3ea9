-------------------------------- MODULE Hub --------------------------------
(***************************************************************************)
(* The connection registry of the gateway:                                 *)
(* services/gateway/websocket/hub.go (Register ... removeClientFromRoom),  *)
(* the per-client state of client.go it maintains, and the goroutines that *)
(* call it: one WsEndpoint goroutine per connection                        *)
(* (services/gateway/handlers/ws_handler.go) and the controllers - shard   *)
(* loops, the room event listener, gRPC and admin handlers.                *)
(*                                                                         *)
(* Two kinds of lock protect the registry.  A client's c.mu is held over   *)
(* several steps and is the variable mu.  A shard's RWMutex only protects  *)
(* one map access at a time and nothing blocks while it is held, so every  *)
(* access to users or rooms under it is one atomic step.  The interleaving *)
(* of those accesses between calls is the subject of this module.          *)
(*                                                                         *)
(* A call writes c.active and c.roomIDs somewhere between c.mu.Lock() and  *)
(* c.mu.Unlock(); they are only read under c.mu, so the model writes them  *)
(* in the step that takes the lock.  A missing key of rooms and an empty   *)
(* map are the same to every reader (removeClientFromRoom deletes empty    *)
(* maps), as are a nil and an empty c.roomIDs.                             *)
(***************************************************************************)
EXTENDS Naturals

CONSTANTS
    Clients,      \* connections (*Client values); a connection is used once
    Users,        \* user IDs
    Rooms,        \* room IDs
    Controllers,  \* goroutines that call the Hub other than WsEndpoint
    UserOf,       \* Client.UserID
    None,         \* nil
    Ops           \* the Hub methods that the controllers call

ControllerOps == {"Unregister", "UpdateRooms", "JoinRoom", "LeaveRoom",
                  "DisbandRoom", "KickUser", "CloseConnection"}

ASSUME HubAssumption ==
    /\ UserOf \in [Clients -> Users]
    /\ None \notin Clients \cup Users \cup Controllers
    /\ Clients \cap Controllers = {}
    /\ Ops \subseteq ControllerOps

\* The WsEndpoint goroutine of connection c is named by c itself.
Procs == Clients \cup Controllers

VARIABLES
    active,      \* Client.active
    roomIDs,     \* Client.roomIDs
    sendClosed,  \* Client.sendClosed: closeSend has closed the Send channel
    mu,          \* Client.mu: the goroutine that holds it, or None
    users,       \* hubShard.users of all shards: user -> client or None
    rooms,       \* hubShard.rooms of all shards: room -> set of clients
    conn,        \* Client.Conn: "open" or "closed"
    life,        \* where the WsEndpoint goroutine of a client is
    call         \* the Hub call each goroutine is executing

vars == <<active, roomIDs, sendClosed, mu, users, rooms, conn, life, call>>

clientVars == <<active, roomIDs, sendClosed>>

\* A call at program point pc of method op, with its arguments.
Call(pc, op, c, u, R, remove, insert, T) ==
    [pc |-> pc, op |-> op, client |-> c, user |-> u, rooms |-> R,
     rem |-> remove, add |-> insert, targets |-> T]

Idle == Call("idle", "none", None, None, {}, {}, {}, {})

CallPCs == {"idle", "lock", "setUser", "delUser", "edit", "closeSend",
            "disband", "kick", "kickClose"}

Calls == [pc : CallPCs, op : ControllerOps \cup {"none", "Register"},
          client : Clients \cup {None}, user : Users \cup {None},
          rooms : SUBSET Rooms,    \* the roomID / roomIDs argument
          rem : SUBSET Rooms,      \* rooms still to remove the client from
          add : SUBSET Rooms,      \* rooms still to add the client to
          targets : SUBSET Clients] \* DisbandRoom's snapshot, not yet visited

TypeOK ==
    /\ active \in [Clients -> BOOLEAN]
    /\ roomIDs \in [Clients -> SUBSET Rooms]
    /\ sendClosed \in [Clients -> BOOLEAN]
    /\ mu \in [Clients -> Procs \cup {None}]
    /\ users \in [Users -> Clients \cup {None}]
    /\ rooms \in [Rooms -> SUBSET Clients]
    /\ conn \in [Clients -> {"open", "closed"}]
    /\ life \in [Clients -> {"new", "serving", "closing", "gone"}]
    /\ call \in [Procs -> Calls]

Init ==
    /\ active = [c \in Clients |-> FALSE]
    /\ roomIDs = [c \in Clients |-> {}]
    /\ sendClosed = [c \in Clients |-> FALSE]
    /\ mu = [c \in Clients |-> None]
    /\ users = [u \in Users |-> None]
    /\ rooms = [r \in Rooms |-> {}]
    /\ conn = [c \in Clients |-> "open"]
    /\ life = [c \in Clients |-> "new"]
    /\ call = [p \in Procs |-> Idle]

----------------------------------------------------------------------------
(***************************************************************************)
(* Starting a call.  JoinRoom and LeaveRoom look the client up first; a    *)
(* call that finds nobody changes nothing and is a stuttering step.        *)
(***************************************************************************)
clientByUser(u) == users[u]

Enter(p, o, c, u, R) ==
    /\ call[p].pc = "idle"
    /\ call' = [call EXCEPT ![p] = Call("lock", o, c, u, R, {}, {}, {})]

\* WsEndpoint registers its client with the rooms it has loaded.
EndpointRegister(c, R) ==
    /\ life[c] = "new"
    /\ life' = [life EXCEPT ![c] = "serving"]
    /\ Enter(c, "Register", c, None, R)
    /\ UNCHANGED <<clientVars, mu, users, rooms, conn>>

\* ReadPump's read fails once the connection is closed; its deferred function
\* calls Unregister, and so does that of WsEndpoint after it.
EndpointUnregister(c) ==
    /\ life[c] \in {"serving", "closing"}
    /\ conn[c] = "closed"
    /\ life' = [life EXCEPT ![c] = IF @ = "serving" THEN "closing" ELSE "gone"]
    /\ Enter(c, "Unregister", c, None, {})
    /\ UNCHANGED <<clientVars, mu, users, rooms, conn>>

\* Other goroutines see a client once its Register has taken the lock.
Known(c) ==
    /\ life[c] # "new"
    /\ ~(call[c].op = "Register" /\ call[c].pc = "lock")

\* A shard loop takes a client from killClient; dispatchMessage found it in a
\* room some time ago.
StartUnregister(p, c) ==
    /\ "Unregister" \in Ops
    /\ Known(c)
    /\ Enter(p, "Unregister", c, None, {})
    /\ UNCHANGED <<clientVars, mu, users, rooms, conn, life>>

StartUpdateRooms(p, c, R) ==
    /\ "UpdateRooms" \in Ops
    /\ Known(c)
    /\ Enter(p, "UpdateRooms", c, None, R)
    /\ UNCHANGED <<clientVars, mu, users, rooms, conn, life>>

StartJoinRoom(p, u, r) ==
    /\ "JoinRoom" \in Ops
    /\ clientByUser(u) # None
    /\ Enter(p, "JoinRoom", clientByUser(u), u, {r})
    /\ UNCHANGED <<clientVars, mu, users, rooms, conn, life>>

StartLeaveRoom(p, u, r) ==
    /\ "LeaveRoom" \in Ops
    /\ clientByUser(u) # None
    /\ Enter(p, "LeaveRoom", clientByUser(u), u, {r})
    /\ UNCHANGED <<clientVars, mu, users, rooms, conn, life>>

\* The gRPC method KickUser: Hub.LeaveRoom(user, room), then Hub.Kick(user).
StartKickUser(p, u, r) ==
    /\ "KickUser" \in Ops
    /\ call[p].pc = "idle"
    /\ call' = [call EXCEPT ![p] =
                   Call(IF clientByUser(u) = None THEN "kick" ELSE "lock",
                        "KickUser", clientByUser(u), u, {r}, {}, {}, {})]
    /\ UNCHANGED <<clientVars, mu, users, rooms, conn, life>>

\* CloseConnection scans the users maps for the connection ID.
CloseConnection(p, c) ==
    /\ "CloseConnection" \in Ops
    /\ call[p].pc = "idle"
    /\ users[UserOf[c]] = c
    /\ call' = [call EXCEPT ![p] =
                   Call("kickClose", "CloseConnection", c, None, {}, {}, {}, {})]
    /\ UNCHANGED <<clientVars, mu, users, rooms, conn, life>>

\* A faulty DisbandRoom that forgets to collect the room's clients.
DisbandRoomNoSnapshot(p, r) ==
    /\ "DisbandRoom" \in Ops
    /\ call[p].pc = "idle"
    /\ rooms' = [rooms EXCEPT ![r] = {}]
    /\ call' = [call EXCEPT ![p] =
                   Call("disband", "DisbandRoom", None, None, {r}, {}, {}, {})]
    /\ UNCHANGED <<clientVars, mu, users, conn, life>>

\* DisbandRoom under the room shard's lock: snapshot the clients, delete the
\* room.
DisbandRoom(p, r) ==
    /\ "DisbandRoom" \in Ops
    /\ call[p].pc = "idle"
    /\ rooms' = [rooms EXCEPT ![r] = {}]
    /\ call' = [call EXCEPT ![p] =
                   Call("disband", "DisbandRoom", None, None, {r}, {}, {}, rooms[r])]
    /\ UNCHANGED <<clientVars, mu, users, conn, life>>

----------------------------------------------------------------------------
(***************************************************************************)
(* c.mu.Lock() and the part of each method that only touches the client.   *)
(***************************************************************************)
\* What a method does next when it gives up after taking the lock, or when it
\* is done: KickUser goes on to Hub.Kick, every other method returns.
AfterCall(p) ==
    IF call[p].op = "KickUser"
    THEN Call("kick", "KickUser", None, call[p].user, {}, {}, {}, {})
    ELSE Idle

\* The call goes on at program point pc, with these rooms still to be edited.
GoOn(p, pc, remove, insert) ==
    Call(pc, call[p].op, call[p].client, call[p].user, {}, remove, insert, {})

Locking(p, o) ==
    /\ call[p].pc = "lock"
    /\ call[p].op \in o
    /\ mu[call[p].client] = None

\* Take the lock, write the client's fields, go on with the shard maps.
Locked(p, isActive, ids, next, remove, insert) ==
    LET c == call[p].client
    IN  /\ mu' = [mu EXCEPT ![c] = p]
        /\ active' = [active EXCEPT ![c] = isActive]
        /\ roomIDs' = [roomIDs EXCEPT ![c] = ids]
        /\ call' = [call EXCEPT ![p] = GoOn(p, next, remove, insert)]
        /\ UNCHANGED <<sendClosed, users, rooms, conn, life>>

Register(p) ==
    /\ Locking(p, {"Register"})
    /\ Locked(p, TRUE, call[p].rooms, "setUser", {}, call[p].rooms)

Unregister(p) ==
    /\ Locking(p, {"Unregister"})
    /\ active[call[p].client]
    /\ Locked(p, FALSE, {}, "delUser", roomIDs[call[p].client], {})

\* A faulty UpdateRooms that does not test c.active.
UpdateRoomsInactive(p) ==
    LET ids == roomIDs[call[p].client]
    IN  /\ Locking(p, {"UpdateRooms"})
        /\ Locked(p, active[call[p].client], call[p].rooms, "edit",
                  ids \ call[p].rooms, call[p].rooms \ ids)

UpdateRooms(p) ==
    LET ids == roomIDs[call[p].client]
    IN  /\ Locking(p, {"UpdateRooms"})
        /\ active[call[p].client]
        /\ Locked(p, TRUE, call[p].rooms, "edit",
                  ids \ call[p].rooms, call[p].rooms \ ids)

JoinRoom(p) ==
    LET ids == roomIDs[call[p].client]
    IN  /\ Locking(p, {"JoinRoom"})
        /\ active[call[p].client]
        /\ ~(call[p].rooms \subseteq ids)
        /\ Locked(p, TRUE, ids \cup call[p].rooms, "edit", {}, call[p].rooms)

LeaveRoom(p) ==
    LET ids == roomIDs[call[p].client]
    IN  /\ Locking(p, {"LeaveRoom", "KickUser"})
        /\ active[call[p].client]
        /\ call[p].rooms \subseteq ids
        /\ Locked(p, TRUE, ids \ call[p].rooms, "edit", call[p].rooms, {})

\* A faulty early return that forgets c.mu.Unlock().
EarlyReturnLocked(p) ==
    /\ Locking(p, ControllerOps)
    /\ ~active[call[p].client]
    /\ mu' = [mu EXCEPT ![call[p].client] = p]
    /\ call' = [call EXCEPT ![p] = AfterCall(p)]
    /\ UNCHANGED <<clientVars, users, rooms, conn, life>>

\* The early returns after c.mu.Lock(): the client is no longer active, is
\* already in the room (JoinRoom) or not in it (LeaveRoom).
EarlyReturn(p) ==
    LET c == call[p].client
    IN  /\ Locking(p, ControllerOps)
        /\ \/ ~active[c]
           \/ call[p].op = "JoinRoom" /\ call[p].rooms \subseteq roomIDs[c]
           \/ /\ call[p].op \in {"LeaveRoom", "KickUser"}
              /\ ~(call[p].rooms \subseteq roomIDs[c])
        /\ call' = [call EXCEPT ![p] = AfterCall(p)]
        /\ UNCHANGED <<clientVars, mu, users, rooms, conn, life>>

----------------------------------------------------------------------------
(***************************************************************************)
(* The accesses to the shard maps, made one at a time while c.mu is held.  *)
(***************************************************************************)
SetUser(p) ==
    /\ call[p].pc = "setUser"
    /\ users' = [users EXCEPT ![UserOf[call[p].client]] = call[p].client]
    /\ call' = [call EXCEPT ![p] = GoOn(p, "edit", @.rem, @.add)]
    /\ UNCHANGED <<clientVars, mu, rooms, conn, life>>

\* A faulty Unregister that keeps the entry, and one that deletes whatever
\* entry the user has.
DeleteUserNever(p) ==
    /\ call[p].pc = "delUser"
    /\ call' = [call EXCEPT ![p] = GoOn(p, "edit", @.rem, @.add)]
    /\ UNCHANGED <<clientVars, mu, users, rooms, conn, life>>

DeleteUserAlways(p) ==
    /\ call[p].pc = "delUser"
    /\ users' = [users EXCEPT ![UserOf[call[p].client]] = None]
    /\ call' = [call EXCEPT ![p] = GoOn(p, "edit", @.rem, @.add)]
    /\ UNCHANGED <<clientVars, mu, rooms, conn, life>>

\* The entry is only deleted while it is this client's: a newer connection of
\* the same user may have replaced it.
DeleteUser(p) ==
    LET c == call[p].client
    IN  /\ call[p].pc = "delUser"
        /\ users' = [users EXCEPT ![UserOf[c]] = IF @ = c THEN None ELSE @]
        /\ call' = [call EXCEPT ![p] = GoOn(p, "edit", @.rem, @.add)]
        /\ UNCHANGED <<clientVars, mu, rooms, conn, life>>

removeClientFromRoom(p, r) ==
    /\ call[p].pc = "edit"
    /\ r \in call[p].rem
    /\ rooms' = [rooms EXCEPT ![r] = @ \ {call[p].client}]
    /\ call' = [call EXCEPT ![p] = GoOn(p, "edit", @.rem \ {r}, @.add)]
    /\ UNCHANGED <<clientVars, mu, users, conn, life>>

addClientToRoom(p, r) ==
    /\ call[p].pc = "edit"
    /\ call[p].rem = {}
    /\ r \in call[p].add
    /\ rooms' = [rooms EXCEPT ![r] = @ \cup {call[p].client}]
    /\ call' = [call EXCEPT ![p] = GoOn(p, "edit", {}, @.add \ {r})]
    /\ UNCHANGED <<clientVars, mu, users, conn, life>>

\* c.mu.Unlock(); Unregister goes on to closeSend.
Unlock(p) ==
    /\ call[p].pc = "edit"
    /\ call[p].rem = {} /\ call[p].add = {}
    /\ mu' = [mu EXCEPT ![call[p].client] = None]
    /\ call' = [call EXCEPT ![p] = IF @.op = "Unregister"
                                     THEN GoOn(p, "closeSend", {}, {})
                                     ELSE AfterCall(p)]
    /\ UNCHANGED <<clientVars, users, rooms, conn, life>>

closeSend(p) ==
    /\ call[p].pc = "closeSend"
    /\ sendClosed' = [sendClosed EXCEPT ![call[p].client] = TRUE]
    /\ call' = [call EXCEPT ![p] = Idle]
    /\ UNCHANGED <<active, roomIDs, mu, users, rooms, conn, life>>

\* DisbandRoom visits the clients of its snapshot: lock, delete, unlock.
DisbandVisit(p, c) ==
    /\ call[p].pc = "disband"
    /\ c \in call[p].targets
    /\ mu[c] = None
    /\ roomIDs' = [roomIDs EXCEPT ![c] = @ \ call[p].rooms]
    /\ call' = [call EXCEPT ![p] = Call("disband", "DisbandRoom", None, None,
                                        @.rooms, {}, {}, @.targets \ {c})]
    /\ UNCHANGED <<active, sendClosed, mu, users, rooms, conn, life>>

DisbandReturn(p) ==
    /\ call[p].pc = "disband"
    /\ call[p].targets = {}
    /\ call' = [call EXCEPT ![p] = Idle]
    /\ UNCHANGED <<clientVars, mu, users, rooms, conn, life>>

\* Kick looks the user up again, and then closes that connection.
Kick(p) ==
    LET c == clientByUser(call[p].user)
    IN  /\ call[p].pc = "kick"
        /\ call' = [call EXCEPT ![p] = IF c = None THEN Idle
                                       ELSE Call("kickClose", @.op, c, @.user, {}, {}, {}, {})]
        /\ UNCHANGED <<clientVars, mu, users, rooms, conn, life>>

KickClose(p) ==
    /\ call[p].pc = "kickClose"
    /\ conn' = [conn EXCEPT ![call[p].client] = "closed"]
    /\ call' = [call EXCEPT ![p] = Idle]
    /\ UNCHANGED <<clientVars, mu, users, rooms, life>>

----------------------------------------------------------------------------
\* The peer disconnects, or the read deadline (pongWait) passes.
PeerClose(c) ==
    /\ life[c] = "serving"
    /\ conn[c] = "open"
    /\ conn' = [conn EXCEPT ![c] = "closed"]
    /\ UNCHANGED <<clientVars, mu, users, rooms, life, call>>

\* WritePump reads the closed Send channel and closes the connection.
WritePumpExit(c) ==
    /\ sendClosed[c]
    /\ conn[c] = "open"
    /\ conn' = [conn EXCEPT ![c] = "closed"]
    /\ UNCHANGED <<clientVars, mu, users, rooms, life, call>>

\* The steps of a call, once it has begun.
Step(p) ==
    \/ Register(p) \/ Unregister(p) \/ UpdateRooms(p) \/ JoinRoom(p)
    \/ LeaveRoom(p) \/ EarlyReturn(p)
    \/ SetUser(p) \/ DeleteUser(p)
    \/ \E r \in Rooms : removeClientFromRoom(p, r)
    \/ \E r \in Rooms : addClientToRoom(p, r)
    \/ Unlock(p) \/ closeSend(p)
    \/ \E c \in Clients : DisbandVisit(p, c)
    \/ DisbandReturn(p) \/ Kick(p) \/ KickClose(p)

\* The calls a controller may make.
Controller(p) ==
    \/ \E c \in Clients : StartUnregister(p, c)
    \/ \E c \in Clients, R \in SUBSET Rooms : StartUpdateRooms(p, c, R)
    \/ \E u \in Users, r \in Rooms : StartJoinRoom(p, u, r)
    \/ \E u \in Users, r \in Rooms : StartLeaveRoom(p, u, r)
    \/ \E u \in Users, r \in Rooms : StartKickUser(p, u, r)
    \/ \E c \in Clients : CloseConnection(p, c)
    \/ \E r \in Rooms : DisbandRoom(p, r)

Endpoint(c) ==
    \/ \E R \in SUBSET Rooms : EndpointRegister(c, R)
    \/ EndpointUnregister(c)
    \/ PeerClose(c)
    \/ WritePumpExit(c)

Next ==
    \/ \E p \in Procs : Step(p)
    \/ \E p \in Controllers : Controller(p)
    \/ \E c \in Clients : Endpoint(c)

Spec == Init /\ [][Next]_vars

(***************************************************************************)
(* A goroutine that can run does run.  A goroutine that waits for c.mu is  *)
(* served although others take the mutex again and again: Go's mutexes     *)
(* hand over to a waiter that has waited for a millisecond.  Hence strong  *)
(* fairness, which only matters for the steps that take a mutex.           *)
(***************************************************************************)
Fairness ==
    /\ \A p \in Procs : SF_vars(Step(p))
    /\ \A c \in Clients : WF_vars(EndpointUnregister(c)) /\ WF_vars(WritePumpExit(c))

FairSpec == Spec /\ Fairness

----------------------------------------------------------------------------
(***************************************************************************)
(* Properties.                                                             *)
(***************************************************************************)
\* A DisbandRoom(r) has taken c into its snapshot and not visited it yet.
PendingDisband(c, r) ==
    \E p \in Procs : r \in call[p].rooms /\ c \in call[p].targets

\* No subscription is lost: while no call holds c.mu, a room in c.roomIDs has c
\* among its clients, so that dispatchMessage delivers to it - unless a
\* DisbandRoom is about to delete the room from c.roomIDs.  Interleaved
\* JoinRoom, LeaveRoom, UpdateRooms, DisbandRoom and evictions must not break it.
NoLostSubscription ==
    \A c \in Clients, r \in Rooms :
        mu[c] = None /\ r \in roomIDs[c] => c \in rooms[r] \/ PendingDisband(c, r)

\* The users map leads to live connections: an entry names an active client of
\* that user, except while Unregister or Register still holds that client's
\* lock.  JoinRoom, LeaveRoom and Kick find clients only through it.
OnlineEntryIsLive ==
    \A u \in Users :
        users[u] # None =>
            /\ UserOf[users[u]] = u
            /\ active[users[u]] \/ mu[users[u]] # None

\* The Send channel is closed only after the client has been deactivated and
\* its user entry and room list are gone, and nothing brings them back later.
ClosedIsDetached ==
    \A c \in Clients :
        sendClosed[c] => ~active[c] /\ roomIDs[c] = {} /\ users[UserOf[c]] # c

\* A user's entry only disappears when its own connection is going away: the
\* late Unregister of an older connection leaves the newer one's entry alone.
EntryRemovedByOwner ==
    [][\A u \in Users :
          users[u] # None /\ users'[u] = None => ~active[users[u]]]_vars

\* Without DisbandRoom the two views agree exactly: while c.mu is free, c is in
\* the client set of precisely the rooms in c.roomIDs.
RegistryExact ==
    \A c \in Clients, r \in Rooms :
        mu[c] = None => (c \in rooms[r] <=> r \in roomIDs[c])

\* Unregister removes the client from all room shards before it closes Send:
\* a client whose Send is closed is in no room.
UnregisterRemovesFromAllRooms ==
    \A c \in Clients, r \in Rooms : sendClosed[c] => c \notin rooms[r]

\* Every Hub call returns: no goroutine waits for c.mu forever.
CallsReturn ==
    \A p \in Procs : call[p].pc # "idle" ~> call[p].pc = "idle"

\* A closed connection is cleaned up: its WsEndpoint goroutine ends, the client
\* is no longer active and no user entry leads to it.
ClosedConnectionEnds ==
    \A c \in Clients :
        life[c] = "serving" /\ conn[c] = "closed"
            ~> life[c] = "gone" /\ ~active[c] /\ users[UserOf[c]] # c
=============================================================================
