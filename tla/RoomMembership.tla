--------------------------- MODULE RoomMembership ---------------------------
(***************************************************************************)
(* Room membership in the database and the room subscriptions of the Hub   *)
(* that follow it: the room service (services/rooms/application), the      *)
(* gRPC call KickUser, the admin's room actions, the notifier and the      *)
(* listener of room events, and WsEndpoint, which loads a user's rooms and *)
(* then registers the connection.                                          *)
(*                                                                         *)
(* A handler executes one request; every database access and every call of *)
(* the Hub is a step. Hub calls are atomic here and a user has at most one *)
(* connection: module Hub looks into them.                                 *)
(***************************************************************************)
EXTENDS Naturals, Sequences

CONSTANTS
    Users, Rooms, Handlers, None,
    Runtimes,     \* RuntimeNotifiers of the service: "hub" (main), "redis" (rooms/cmd)
    MayFail,      \* database, Redis and gRPC calls may fail
    MaxRequests   \* bound: how many requests are made

ASSUME RoomMembershipAssumption ==
    /\ None \notin Users
    /\ Runtimes \subseteq {"hub", "redis"}
    /\ MayFail \in BOOLEAN
    /\ MaxRequests \in Nat

VARIABLES
    runtime,   \* which RuntimeNotifier the room service has; it does not change
    room,      \* table rooms: has it been created, deleted, and its CreatorID
    role,      \* table room_members: the Role of an undeleted row, 0 without one
    req,       \* the request that a handler executes
    requests,  \* how many there have been
    channel,   \* Redis im:room:events: events on their way to the gateway
    sock,      \* a user's connection
    subs,      \* the roomIDs that WsEndpoint has loaded, then those of the client
    unsure     \* history: the subscriptions that nothing keeps right, see Mark

vars == <<runtime, room, role, req, requests, channel, sock, subs, unsure>>
tables == <<room, role>>
hub == <<sock, subs>>

ServiceOps == {"CreateRoom", "JoinRoom", "RemoveMember", "DisbandRoom"}
AdminOps == {"disband", "remove_member", "set_admin", "transfer_owner", "freeze"}
Ops == ServiceOps \cup AdminOps \cup {"KickUser"}
Removals == {"RemoveMember", "KickUser", "remove_member"}
Disbands == {"DisbandRoom", "disband"}

\* global: the operator's globalRole is 1; creator: room.CreatorID as it was read.
Request(pc, op, r, operator, target, global, creator) ==
    [pc |-> pc, op |-> op, room |-> r, operator |-> operator, target |-> target,
     global |-> global, creator |-> creator]

Requests ==
    [pc : {"idle", "room", "role", "write", "owner", "notify", "kick"},
     op : Ops \cup {None}, room : Rooms \cup {None}, operator : Users \cup {None},
     target : Users \cup {None}, global : BOOLEAN, creator : Users \cup {None}]

Idle == Request("idle", None, None, None, None, FALSE, None)

\* events.Event
Event(type, r, u) == [type |-> type, room |-> r, user |-> u]
Events == [type : {"member_joined", "member_left", "room_disbanded"},
           room : Rooms, user : Users]

TypeOK ==
    /\ runtime \in Runtimes
    /\ room \in [Rooms -> [state : {"none", "live", "deleted"}, creator : Users \cup {None}]]
    /\ role \in [Rooms -> [Users -> 0..3]]
    /\ req \in [Handlers -> Requests]
    /\ \A p \in Handlers : req[p].pc # "idle" =>
          /\ req[p].op \in Ops
          /\ req[p].room \in Rooms
          /\ req[p].operator \in Users
          /\ req[p].target \in Users
    /\ requests \in 0..MaxRequests
    /\ channel \in Seq(Events)
    /\ sock \in [Users -> {"off", "loaded", "on", "closing"}]
    /\ subs \in [Users -> SUBSET Rooms]
    /\ unsure \in SUBSET (Users \X Rooms)

Init ==
    /\ runtime \in Runtimes
    /\ room = [r \in Rooms |-> [state |-> "none", creator |-> None]]
    /\ role = [r \in Rooms |-> [u \in Users |-> 0]]
    /\ req = [p \in Handlers |-> Idle]
    /\ requests = 0
    /\ channel = <<>>
    /\ sock = [u \in Users |-> "off"]
    /\ subs = [u \in Users |-> {}]
    /\ unsure = {}

Live(r) == room[r].state = "live"

----------------------------------------------------------------------------
(***************************************************************************)
(* Notifications.                                                          *)
(***************************************************************************)

\* What the request of p tells the RuntimeNotifier or the Hub.
Notice(p) ==
    Event(IF req[p].op \in Removals THEN "member_left"
          ELSE IF req[p].op \in Disbands THEN "room_disbanded" ELSE "member_joined",
          req[p].room, req[p].target)

Affects(e, u, r) ==
    /\ e.room = r
    /\ e.type = "room_disbanded" \/ e.user = u

\* A notification about u and r has not reached the Hub yet.
Pending(u, r) ==
    \/ \E p \in Handlers : req[p].pc = "notify" /\ Affects(Notice(p), u, r)
    \/ \E i \in 1..Len(channel) : Affects(channel[i], u, r)

\* A change of u's membership in r while an earlier notification is on its way,
\* or between WsEndpoint's query and its Register, may leave the Hub wrong.
Mark(u, r) == IF Pending(u, r) \/ sock[u] = "loaded" THEN {<<u, r>>} ELSE {}

\* A notification that got lost may leave the Hub wrong too.
Lost(e) == {x \in Users \X Rooms : Affects(e, x[1], x[2])}

\* hub.JoinRoom, LeaveRoom, DisbandRoom; a user without a client is ignored.
Apply(e) ==
    subs' = [u \in Users |->
        IF sock[u] \in {"on", "closing"} /\ Affects(e, u, e.room)
        THEN IF e.type = "member_joined" THEN subs[u] \cup {e.room} ELSE subs[u] \ {e.room}
        ELSE subs[u]]

\* The service's notifier is the Hub or Redis; other callers hold the Hub itself.
Direct(p) == req[p].op \notin ServiceOps \/ runtime = "hub"

\* A faulty RemoveMember that does not notify the runtime.
NotifySkipsLeave(p) ==
    /\ req[p].pc = "notify"
    /\ IF Direct(p) /\ req[p].op \notin Removals THEN Apply(Notice(p)) ELSE UNCHANGED subs
    /\ channel' = IF Direct(p) \/ req[p].op \in Removals
                  THEN channel ELSE Append(channel, Notice(p))
    /\ req' = [req EXCEPT ![p] = IF @.op = "KickUser" THEN [@ EXCEPT !.pc = "kick"] ELSE Idle]
    /\ UNCHANGED <<runtime, tables, requests, sock, unsure>>

Notify(p) ==
    /\ req[p].pc = "notify"
    /\ IF Direct(p) THEN Apply(Notice(p)) ELSE UNCHANGED subs
    /\ channel' = IF Direct(p) THEN channel ELSE Append(channel, Notice(p))
    /\ req' = [req EXCEPT ![p] = IF @.op = "KickUser" THEN [@ EXCEPT !.pc = "kick"] ELSE Idle]
    /\ UNCHANGED <<runtime, tables, requests, sock, unsure>>

\* disconnectUser: the connection is closed, the endpoint will unregister it.
Kick(p) ==
    /\ req[p].pc = "kick"
    /\ sock' = [sock EXCEPT ![req[p].target] = IF @ = "on" THEN "closing" ELSE @]
    /\ req' = [req EXCEPT ![p] = Idle]
    /\ UNCHANGED <<runtime, tables, requests, channel, subs, unsure>>

StartRoomEventListener ==
    /\ channel # <<>>
    /\ Apply(Head(channel))
    /\ channel' = Tail(channel)
    /\ UNCHANGED <<runtime, tables, req, requests, sock, unsure>>

\* Redis Pub/Sub keeps nothing for a subscriber that is not connected.
Lose ==
    /\ MayFail
    /\ channel # <<>>
    /\ channel' = Tail(channel)
    /\ unsure' = unsure \cup Lost(Head(channel))
    /\ UNCHANGED <<runtime, tables, req, requests, hub>>

----------------------------------------------------------------------------
(***************************************************************************)
(* Requests.                                                               *)
(***************************************************************************)

Goes(p, pc) == req' = [req EXCEPT ![p] = IF pc = "idle" THEN Idle ELSE [@ EXCEPT !.pc = pc]]

\* A request other than CreateRoom arrives.
Call(p) ==
    /\ req[p].pc = "idle"
    /\ requests < MaxRequests
    /\ requests' = requests + 1
    /\ \E op \in Ops \ {"CreateRoom"}, r \in Rooms, operator, target \in Users,
          global \in BOOLEAN :
          /\ op # "RemoveMember" => ~global /\ operator = target
          /\ req' = [req EXCEPT ![p] = Request(IF op = "KickUser" THEN "write" ELSE "room",
                                               op, r, operator, target, global, None)]
    /\ UNCHANGED <<runtime, tables, channel, hub, unsure>>

\* One transaction inserts the room and its creator with Role 2.
CreateRoom(p) ==
    /\ req[p].pc = "idle"
    /\ requests < MaxRequests
    /\ requests' = requests + 1
    /\ \E u \in Users, r \in Rooms :
          /\ room[r].state = "none"
          /\ room' = [room EXCEPT ![r] = [state |-> "live", creator |-> u]]
          /\ role' = [role EXCEPT ![r][u] = 2]
          /\ req' = [req EXCEPT ![p] = Request("notify", "CreateRoom", r, u, u, FALSE, u)]
          /\ unsure' = unsure \cup Mark(u, r)
    /\ UNCHANGED <<runtime, channel, hub>>

\* canRemove without and with the operator's role, and the protection of the owner.
CanRemove(q, creator) == q.global \/ q.operator = q.target \/ creator = q.operator
MayRemove(q, creator, r) ==
    /\ CanRemove(q, creator) \/ r >= 2
    /\ ~(q.target = creator /\ q.operator # q.target /\ ~q.global)

\* A request for a room that is not there ends. RemoveMember and DisbandRoom may
\* need the operator's role; a refused RemoveMember ends as well.
GetRoomByID(p) ==
    LET q == req[p]
        creator == room[q.room].creator
        needsRole == \/ q.op = "DisbandRoom"
                     \/ q.op = "RemoveMember" /\ ~CanRemove(q, creator)
        refused == \/ ~Live(q.room)
                   \/ q.op = "RemoveMember" /\ CanRemove(q, creator) /\ ~MayRemove(q, creator, 0)
    IN  /\ q.pc = "room"
        /\ req' = [req EXCEPT ![p] =
              IF refused THEN Idle
              ELSE Request(IF needsRole THEN "role" ELSE "write", q.op, q.room, q.operator,
                           q.target, q.global, creator)]
        /\ UNCHANGED <<runtime, tables, requests, channel, hub, unsure>>

GetMemberRole(p) ==
    LET q == req[p]
        r == role[q.room][q.operator]
    IN  /\ q.pc = "role"
        /\ \/ /\ q.op = "RemoveMember"
              /\ Goes(p, IF MayRemove(q, q.creator, r) THEN "write" ELSE "idle")
           \/ /\ q.op = "DisbandRoom"
              /\ Goes(p, IF r > 0 /\ (q.creator = q.operator \/ r = 3) THEN "write" ELSE "idle")
        /\ UNCHANGED <<runtime, tables, requests, channel, hub, unsure>>

\* INSERT, ignored when the user has a row.
AddMember(p) ==
    LET r == req[p].room  u == req[p].target
    IN  /\ req[p].pc = "write" /\ req[p].op = "JoinRoom"
        /\ role' = [role EXCEPT ![r][u] = IF @ = 0 THEN 1 ELSE @]
        /\ unsure' = IF role[r][u] = 0 THEN unsure \cup Mark(u, r) ELSE unsure
        /\ Goes(p, "notify")
        /\ UNCHANGED <<runtime, room, requests, channel, hub>>

\* The row is deleted; the admin's remove_member does not ask whether there was one.
RemoveMember(p) ==
    LET r == req[p].room  u == req[p].target
    IN  /\ req[p].pc = "write" /\ req[p].op \in Removals
        /\ role' = [role EXCEPT ![r][u] = 0]
        /\ unsure' = IF role[r][u] > 0 THEN unsure \cup Mark(u, r) ELSE unsure
        /\ Goes(p, IF role[r][u] > 0 \/ req[p].op = "remove_member" THEN "notify" ELSE "idle")
        /\ UNCHANGED <<runtime, room, requests, channel, hub>>

\* The members keep their rows.
SoftDeleteRoom(p) ==
    /\ req[p].pc = "write" /\ req[p].op \in Disbands
    /\ room' = [room EXCEPT ![req[p].room].state = "deleted"]
    /\ Goes(p, "notify")
    /\ UNCHANGED <<runtime, role, requests, channel, hub, unsure>>

\* gorm's Save writes every column of the room as it was read, and inserts it
\* again, undeleted, when no undeleted row was there to update.
SaveRoom(p) ==
    LET q == req[p]
    IN  /\ q.pc = "write" /\ q.op \in {"freeze", "transfer_owner"}
        /\ room' = [room EXCEPT ![q.room] =
              [state |-> "live", creator |-> IF q.op = "freeze" THEN q.creator ELSE q.target]]
        /\ unsure' = IF Live(q.room) THEN unsure ELSE unsure \cup (Users \X {q.room})
        /\ Goes(p, IF q.op = "freeze" THEN "idle" ELSE "owner")
        /\ UNCHANGED <<runtime, role, requests, channel, hub>>

\* The admin's set_admin and the last step of transfer_owner.
updateMemberRole(p) ==
    LET q == req[p]
    IN  /\ \/ q.pc = "write" /\ q.op = "set_admin"
           \/ q.pc = "owner"
        /\ role' = [role EXCEPT ![q.room][q.target] =
              IF @ = 0 THEN 0 ELSE IF q.pc = "owner" THEN 3 ELSE 2]
        /\ Goes(p, "idle")
        /\ UNCHANGED <<runtime, room, requests, channel, hub, unsure>>

\* A failed call ends the request. Calls of the local Hub do not fail; the admin
\* service reaches it through gRPC.
Fails(p) ==
    /\ MayFail
    /\ req[p].pc \notin {"idle", "kick"}
    /\ req[p].pc = "notify" => ~Direct(p) \/ req[p].op \in AdminOps
    /\ unsure' = IF req[p].pc = "notify" THEN unsure \cup Lost(Notice(p)) ELSE unsure
    /\ Goes(p, "idle")
    /\ UNCHANGED <<runtime, tables, requests, channel, hub>>

----------------------------------------------------------------------------
(***************************************************************************)
(* WsEndpoint.                                                             *)
(***************************************************************************)

\* The query does not look at the table rooms.
GetUserRoomIDs(u) ==
    /\ sock[u] = "off"
    /\ sock' = [sock EXCEPT ![u] = "loaded"]
    /\ subs' = [subs EXCEPT ![u] = {r \in Rooms : role[r][u] > 0}]
    /\ unsure' = {x \in unsure : x[1] = u => Pending(u, x[2])}
    /\ UNCHANGED <<runtime, tables, req, requests, channel>>

Register(u) ==
    /\ sock[u] = "loaded"
    /\ sock' = [sock EXCEPT ![u] = "on"]
    /\ UNCHANGED <<runtime, tables, req, requests, channel, subs, unsure>>

PeerClose(u) ==
    /\ sock[u] = "on"
    /\ sock' = [sock EXCEPT ![u] = "closing"]
    /\ UNCHANGED <<runtime, tables, req, requests, channel, subs, unsure>>

\* The endpoint's cleanup, or its return when the upgrade fails.
Unregister(u) ==
    /\ sock[u] \in {"loaded", "closing"}
    /\ sock' = [sock EXCEPT ![u] = "off"]
    /\ subs' = [subs EXCEPT ![u] = {}]
    /\ UNCHANGED <<runtime, tables, req, requests, channel, unsure>>

----------------------------------------------------------------------------
Step(p) ==
    \/ GetRoomByID(p) \/ GetMemberRole(p)
    \/ AddMember(p) \/ RemoveMember(p) \/ SoftDeleteRoom(p)
    \/ SaveRoom(p) \/ updateMemberRole(p)
    \/ Notify(p) \/ Kick(p) \/ Fails(p)

Endpoint(u) == GetUserRoomIDs(u) \/ Register(u) \/ PeerClose(u) \/ Unregister(u)

Next ==
    \/ \E p \in Handlers : Call(p) \/ CreateRoom(p) \/ Step(p)
    \/ StartRoomEventListener
    \/ Lose
    \/ \E u \in Users : Endpoint(u)

Spec == Init /\ [][Next]_vars

----------------------------------------------------------------------------
\* The Hub delivers a room to exactly its members, as soon as no notification is
\* on its way, unless one was lost, two changes overlapped, the membership changed
\* while the connection was being set up, or the room was saved over a disband.
SubscriptionsFollow ==
    \A u \in Users, r \in Rooms :
        sock[u] = "on" /\ Live(r) /\ <<u, r>> \notin unsure /\ ~Pending(u, r)
            => (r \in subs[u] <=> role[r][u] > 0)
=============================================================================
