------------------------ MODULE RoomMembershipProofs ------------------------
(***************************************************************************)
(* SubscriptionsFollow holds for any users, rooms and handlers, with either *)
(* notifier and with any failures.                                         *)
(***************************************************************************)
EXTENDS RoomMembership, TLAPS

\* e tells the Hub what the tables say now.
Right(e, u, r) ==
    /\ e.type # "room_disbanded"
    /\ e.type = "member_joined" <=> role[r][u] > 0

Sure(u, r) == Live(r) /\ <<u, r>> \notin unsure

\* What is on its way about a sure subscription is right, however much it is.
NoticesRight ==
    \A u \in Users, r \in Rooms : Sure(u, r) =>
        \A p \in Handlers :
            req[p].pc = "notify" /\ Affects(Notice(p), u, r) => Right(Notice(p), u, r)

EventsRight ==
    \A u \in Users, r \in Rooms : Sure(u, r) =>
        \A i \in 1..Len(channel) : Affects(channel[i], u, r) => Right(channel[i], u, r)

\* The list that WsEndpoint has loaded is right until it is used ...
LoadedRight ==
    \A u \in Users, r \in Rooms :
        Sure(u, r) /\ sock[u] = "loaded" => (r \in subs[u] <=> role[r][u] > 0)

\* ... and a room that has not been created is unknown everywhere.
Untouched ==
    \A r \in Rooms : room[r].state = "none" =>
        /\ \A u \in Users : role[r][u] = 0 /\ r \notin subs[u]
        /\ \A p \in Handlers : req[p].room = r =>
              \/ req[p].pc \in {"idle", "room", "kick"}
              \/ req[p].pc = "write" /\ req[p].op = "KickUser"
        /\ \A i \in 1..Len(channel) : channel[i].room # r

IInv ==
    TypeOK /\ NoticesRight /\ EventsRight /\ LoadedRight /\ Untouched /\ SubscriptionsFollow

----------------------------------------------------------------------------
\* A request that moves on keeps what it was called with.
LEMMA GoesEffect ==
    ASSUME TypeOK, NEW p \in Handlers, NEW pc, Goes(p, pc), req[p].pc # "idle",
           pc \in {"idle", "write", "owner", "notify"}
    PROVE  /\ req' \in [Handlers -> Requests]
           /\ req'[p].pc = pc
           /\ pc # "idle" => /\ req'[p].op = req[p].op
                             /\ req'[p].room = req[p].room
                             /\ req'[p].operator = req[p].operator
                             /\ req'[p].target = req[p].target
           /\ \A q \in Handlers : q # p => req'[q] = req[q]
<1>1. req[p] \in Requests /\ Idle \in Requests
  BY DEF TypeOK, Idle, Request, Requests
<1>2. pc # "idle" => [req[p] EXCEPT !.pc = pc] \in Requests
  BY <1>1 DEF Requests
<1>3. QED
  BY <1>1, <1>2 DEF Goes, TypeOK, Requests, Idle, Request

\* ... and so does the notification it will send.
LEMMA NoticeKept ==
    ASSUME NEW p, req'[p].op = req[p].op, req'[p].room = req[p].room,
           req'[p].target = req[p].target
    PROVE  Notice(p)' = Notice(p)
BY DEF Notice

\* Nor does the notification of a handler change while others work.
LEMMA OthersNotice ==
    ASSUME NEW p, req'[p] = req[p]
    PROVE  Notice(p)' = Notice(p)
BY DEF Notice

\* What a step has to respect when it sends nothing new: it may only make
\* subscriptions unsure, lose a notification whose subscriptions it makes unsure,
\* close connections, and change roles within membership.
LEMMA NothingNew ==
    ASSUME IInv, NEW p \in Handlers,
           \A q \in Handlers : q # p => req'[q] = req[q],
           req'[p].pc # "notify",
           req[p].pc = "notify" => Lost(Notice(p)) \subseteq unsure',
           unsure \subseteq unsure',
           \A u \in Users, r \in Rooms : role'[r][u] > 0 <=> role[r][u] > 0,
           \A r \in Rooms : Live(r)' => Live(r) \/ Users \X {r} \subseteq unsure',
           \A u \in Users : sock'[u] = sock[u] \/ sock'[u] \notin {"loaded", "on"},
           channel' = channel, subs' = subs
    PROVE  NoticesRight' /\ EventsRight' /\ LoadedRight' /\ SubscriptionsFollow'
<1>1. \A u \in Users, r \in Rooms : Sure(u, r)' => Sure(u, r)
  <2> SUFFICES ASSUME NEW u \in Users, NEW r \in Rooms, Sure(u, r)'
               PROVE  Sure(u, r)
    OBVIOUS
  <2>1. <<u, r>> \notin unsure' /\ <<u, r>> \in Users \X {r} /\ Live(r)'
    BY DEF Sure
  <2>2. Live(r) /\ <<u, r>> \notin unsure
    BY <2>1
  <2>3. QED
    BY <2>2 DEF Sure
<1>2. \A q \in Handlers : req'[q].pc = "notify" => req[q].pc = "notify" /\ Notice(q)' = Notice(q)
  BY OthersNotice
<1>5. NoticesRight'
  <2> SUFFICES ASSUME NEW u \in Users, NEW r \in Rooms, Sure(u, r)', NEW q \in Handlers,
                      req'[q].pc = "notify", Affects(Notice(q)', u, r)
               PROVE  Right(Notice(q), u, r)'
    BY DEF NoticesRight, Affects
  <2>1. Right(Notice(q), u, r)
    BY <1>1, <1>2 DEF IInv, NoticesRight
  <2>2. Notice(q)' = Notice(q)
    BY <1>2
  <2>3. QED
    BY <2>1, <2>2 DEF Right
<1>6. EventsRight'
  <2> SUFFICES ASSUME NEW u \in Users, NEW r \in Rooms, Sure(u, r)',
                      NEW i \in 1..Len(channel), Affects(channel[i], u, r)
               PROVE  Right(channel[i], u, r)'
    BY DEF EventsRight, Affects
  <2>1. Right(channel[i], u, r)
    BY <1>1 DEF IInv, EventsRight
  <2>2. QED
    BY <2>1 DEF Right
<1>7. LoadedRight'
  BY <1>1 DEF IInv, LoadedRight
<1>8. SubscriptionsFollow'
  <2> SUFFICES ASSUME NEW u \in Users, NEW r \in Rooms, sock'[u] = "on", Live(r)',
                      <<u, r>> \notin unsure', ~Pending(u, r)'
               PROVE  r \in subs'[u] <=> role'[r][u] > 0
    BY DEF SubscriptionsFollow
  <2>1. Sure(u, r)
    BY <1>1 DEF Sure
  <2>2. ~\E i \in 1..Len(channel) : Affects(channel[i], u, r)
    BY DEF Pending, Affects
  <2>3. ASSUME NEW q \in Handlers, req[q].pc = "notify", Affects(Notice(q), u, r)
        PROVE  FALSE
    <3>1. CASE q = p
      <4>1. <<u, r>> \in Lost(Notice(p))
        BY <2>3, <3>1 DEF Lost
      <4>2. QED
        BY <3>1, <4>1, <2>3
    <3>2. CASE q # p
      <4>1. req'[q] = req[q] /\ Notice(q)' = Notice(q)
        BY <3>2, OthersNotice
      <4>2. Affects(Notice(q), u, r)'
        BY <4>1, <2>3 DEF Affects
      <4>3. QED
        BY <4>1, <4>2, <2>3 DEF Pending
    <3>3. QED
      BY <3>1, <3>2
  <2>4. ~Pending(u, r)
    BY <2>2, <2>3 DEF Pending
  <2>5. sock[u] = "on" /\ Live(r) /\ <<u, r>> \notin unsure
    BY <2>1 DEF Sure
  <2>6. r \in subs[u] <=> role[r][u] > 0
    BY <2>4, <2>5 DEF IInv, SubscriptionsFollow
  <2>7. QED
    BY <2>6
<1>9. QED
  BY <1>5, <1>6, <1>7, <1>8

\* A request that changes one membership, or none, and will notify the Hub of it.
LEMMA MembershipWrite ==
    ASSUME IInv, NEW p \in Handlers, NEW v \in Users, NEW w \in Rooms,
           \A q \in Handlers : q # p => req'[q] = req[q],
           req[p].pc # "notify", req'[p].pc = "notify",
           \A u, r : Affects(Notice(p)', u, r) <=> u = v /\ r = w,
           Right(Notice(p), v, w)',
           \A u \in Users, r \in Rooms : <<u, r>> # <<v, w>> => role'[r][u] = role[r][u],
           \/ role'[w][v] > 0 <=> role[w][v] > 0
           \/ Mark(v, w) \subseteq unsure',
           unsure \subseteq unsure',
           room' = room, channel' = channel, sock' = sock, subs' = subs
    PROVE  NoticesRight' /\ EventsRight' /\ LoadedRight' /\ SubscriptionsFollow'
<1>1. \A u \in Users, r \in Rooms : Sure(u, r)' => Sure(u, r)
  BY DEF Sure, Live
<1>2. \A q \in Handlers : q # p => Notice(q)' = Notice(q)
  BY OthersNotice
<1>3. ASSUME NEW u \in Users, NEW r \in Rooms, NEW e, Right(e, u, r), Sure(u, r)',
             Affects(e, u, r),
             \/ \E q \in Handlers : req[q].pc = "notify" /\ e = Notice(q)
             \/ \E i \in 1..Len(channel) : e = channel[i]
      PROVE  Right(e, u, r)'
  <2>1. Pending(u, r)
    BY <1>3 DEF Pending
  <2>2. CASE <<u, r>> = <<v, w>>
    <3>1. <<v, w>> \in Mark(v, w) /\ <<v, w>> \notin unsure'
      BY <2>1, <2>2, <1>3 DEF Mark, Sure
    <3>2. role'[w][v] > 0 <=> role[w][v] > 0
      BY <3>1
    <3>3. QED
      BY <3>2, <2>2, <1>3 DEF Right
  <2>3. CASE <<u, r>> # <<v, w>>
    <3>1. role'[r][u] = role[r][u]
      BY <2>3
    <3>2. QED
      BY <3>1, <1>3 DEF Right
  <2>4. QED
    BY <2>2, <2>3
<1>4. NoticesRight'
  <2> SUFFICES ASSUME NEW u \in Users, NEW r \in Rooms, Sure(u, r)', NEW q \in Handlers,
                      req'[q].pc = "notify", Affects(Notice(q)', u, r)
               PROVE  Right(Notice(q), u, r)'
    BY DEF NoticesRight, Affects
  <2>1. CASE q = p
    BY <2>1
  <2>2. CASE q # p
    <3>1. req[q].pc = "notify" /\ Notice(q)' = Notice(q) /\ Affects(Notice(q), u, r)
      BY <2>2, <1>2
    <3>2. Right(Notice(q), u, r)
      BY <3>1, <1>1 DEF IInv, NoticesRight
    <3>3. QED
      BY <3>1, <3>2, <1>3 DEF Right
  <2>3. QED
    BY <2>1, <2>2
<1>5. EventsRight'
  <2> SUFFICES ASSUME NEW u \in Users, NEW r \in Rooms, Sure(u, r)',
                      NEW i \in 1..Len(channel), Affects(channel[i], u, r)
               PROVE  Right(channel[i], u, r)'
    BY DEF EventsRight, Affects
  <2>1. Right(channel[i], u, r)
    BY <1>1 DEF IInv, EventsRight
  <2>2. QED
    BY <2>1, <1>3 DEF Right
<1>6. LoadedRight'
  <2> SUFFICES ASSUME NEW u \in Users, NEW r \in Rooms, Sure(u, r)', sock[u] = "loaded"
               PROVE  r \in subs[u] <=> role'[r][u] > 0
    BY DEF LoadedRight
  <2>1. r \in subs[u] <=> role[r][u] > 0
    BY <1>1 DEF IInv, LoadedRight
  <2>2. CASE <<u, r>> = <<v, w>>
    <3>1. <<v, w>> \in Mark(v, w) /\ <<v, w>> \notin unsure'
      BY <2>2 DEF Mark, Sure
    <3>2. QED
      BY <2>1, <2>2, <3>1
  <2>3. CASE <<u, r>> # <<v, w>>
    BY <2>1, <2>3
  <2>4. QED
    BY <2>2, <2>3
<1>7. SubscriptionsFollow'
  <2> SUFFICES ASSUME NEW u \in Users, NEW r \in Rooms, sock[u] = "on", Live(r)',
                      <<u, r>> \notin unsure', ~Pending(u, r)'
               PROVE  r \in subs[u] <=> role'[r][u] > 0
    BY DEF SubscriptionsFollow
  <2>1. <<u, r>> # <<v, w>>
    BY DEF Pending, Affects
  <2>2. ~\E i \in 1..Len(channel) : Affects(channel[i], u, r)
    BY DEF Pending, Affects
  <2>3. ASSUME NEW q \in Handlers, req[q].pc = "notify", Affects(Notice(q), u, r)
        PROVE  FALSE
    <3>1. req'[q] = req[q] /\ Notice(q)' = Notice(q)
      BY <2>3, <1>2
    <3>2. Affects(Notice(q), u, r)'
      BY <3>1, <2>3 DEF Affects
    <3>3. QED
      BY <3>1, <3>2, <2>3 DEF Pending
  <2>4. ~Pending(u, r)
    BY <2>2, <2>3 DEF Pending
  <2>5. Live(r) /\ <<u, r>> \notin unsure
    BY DEF Live
  <2>6. r \in subs[u] <=> role[r][u] > 0
    BY <2>4, <2>5 DEF IInv, SubscriptionsFollow
  <2>7. QED
    BY <2>1, <2>6
<1>8. QED
  BY <1>4, <1>5, <1>6, <1>7

----------------------------------------------------------------------------
(***************************************************************************)
(* Every action keeps the invariant.                                       *)
(***************************************************************************)

\* A request that neither changes a table nor notifies: what is left to show.
LEMMA ReadOnly ==
    ASSUME IInv, NEW p \in Handlers,
           req' \in [Handlers -> Requests],
           \A q \in Handlers : q # p => req'[q] = req[q],
           req[p].pc # "notify", req'[p].pc # "notify",
           req'[p].pc # "idle" => /\ req'[p].op \in Ops /\ req'[p].room \in Rooms
                                  /\ req'[p].operator \in Users /\ req'[p].target \in Users,
           req'[p].pc \in {"idle", "room", "kick"} \/ (req'[p].pc = "write" /\ req'[p].op = "KickUser")
               \/ room[req'[p].room].state # "none",
           requests' \in 0..MaxRequests,
           UNCHANGED <<runtime, room, role, channel, sock, subs, unsure>>
    PROVE  IInv'
<1>1. TypeOK'
  BY DEF IInv, TypeOK
<1>2. NoticesRight' /\ EventsRight' /\ LoadedRight' /\ SubscriptionsFollow'
  BY NothingNew DEF Live
<1>3. Untouched'
  BY DEF IInv, Untouched
<1>4. QED
  BY <1>1, <1>2, <1>3 DEF IInv

\* A request about a room that exists does not touch the others.
LEMMA UntouchedStays ==
    ASSUME Untouched, NEW p \in Handlers, NEW w \in Rooms,
           \A q \in Handlers : q # p => req'[q] = req[q],
           req'[p].room = w \/ req'[p].pc = "idle",
           room'[w].state # "none",
           \A r \in Rooms : r # w => room'[r] = room[r] /\ role'[r] = role[r],
           channel' = channel, subs' = subs
    PROVE  Untouched'
<1> SUFFICES ASSUME NEW r \in Rooms, room'[r].state = "none"
             PROVE  /\ \A u \in Users : role'[r][u] = 0 /\ r \notin subs'[u]
                    /\ \A q \in Handlers : req'[q].room = r =>
                          \/ req'[q].pc \in {"idle", "room", "kick"}
                          \/ req'[q].pc = "write" /\ req'[q].op = "KickUser"
                    /\ \A i \in 1..Len(channel') : channel'[i].room # r
  BY DEF Untouched
<1>1. r # w /\ room[r].state = "none" /\ role'[r] = role[r]
  OBVIOUS
<1>2. \A u \in Users : role'[r][u] = 0 /\ r \notin subs'[u]
  BY <1>1 DEF Untouched
<1>3. \A q \in Handlers : req'[q].room = r =>
                          \/ req'[q].pc \in {"idle", "room", "kick"}
                          \/ req'[q].pc = "write" /\ req'[q].op = "KickUser"
  BY <1>1 DEF Untouched
<1>4. \A i \in 1..Len(channel') : channel'[i].room # r
  BY <1>1 DEF Untouched
<1>5. QED
  BY <1>2, <1>3, <1>4

\* A request begins.
LEMMA CallKeeps ==
    ASSUME IInv, NEW p \in Handlers, Call(p)
    PROVE  IInv'
<1>1. PICK op \in Ops \ {"CreateRoom"}, r \in Rooms, operator \in Users, target \in Users,
           global \in BOOLEAN :
           req' = [req EXCEPT ![p] = Request(IF op = "KickUser" THEN "write" ELSE "room",
                                             op, r, operator, target, global, None)]
  BY DEF Call
<1>2. Request(IF op = "KickUser" THEN "write" ELSE "room",
              op, r, operator, target, global, None) \in Requests
  BY DEF Request, Requests
<1>3. req \in [Handlers -> Requests] /\ requests \in 0..MaxRequests
  BY DEF IInv, TypeOK
<1>4. /\ req' \in [Handlers -> Requests]
      /\ req'[p] = Request(IF op = "KickUser" THEN "write" ELSE "room",
                           op, r, operator, target, global, None)
      /\ \A q \in Handlers : q # p => req'[q] = req[q]
  BY <1>1, <1>2, <1>3
<1>5. /\ req'[p].pc = IF op = "KickUser" THEN "write" ELSE "room"
      /\ req'[p].op = op /\ req'[p].room = r /\ req'[p].operator = operator
      /\ req'[p].target = target
  BY <1>4 DEF Request
<1>6. requests' \in 0..MaxRequests
  BY <1>3, RoomMembershipAssumption DEF Call
<1>7. req[p].pc = "idle" /\ UNCHANGED <<runtime, room, role, channel, sock, subs, unsure>>
  BY DEF Call, tables, hub
<1>8. op \in Ops
  OBVIOUS
<1>9. QED
  BY <1>4, <1>5, <1>6, <1>7, <1>8, ReadOnly

\* A handler reads the room.
LEMMA GetRoomByIDKeeps ==
    ASSUME IInv, NEW p \in Handlers, GetRoomByID(p)
    PROVE  IInv'
<1>1. req \in [Handlers -> Requests] /\ requests \in 0..MaxRequests
  BY DEF IInv, TypeOK
<1>2. /\ req[p].pc = "room" /\ req[p].op \in Ops /\ req[p].room \in Rooms
      /\ req[p].operator \in Users /\ req[p].target \in Users /\ req[p].global \in BOOLEAN
  BY <1>1 DEF GetRoomByID, IInv, TypeOK, Requests
<1>3. UNCHANGED <<runtime, room, role, channel, sock, subs, unsure>> /\ requests' = requests
  BY DEF GetRoomByID, tables, hub
<1>4. room[req[p].room].creator \in Users \cup {None}
  BY <1>2 DEF IInv, TypeOK
<1>5. CASE req' = [req EXCEPT ![p] = Idle]
  <2>1. Idle \in Requests /\ Idle.pc = "idle"
    BY DEF Idle, Request, Requests
  <2>2. req' \in [Handlers -> Requests] /\ req'[p] = Idle
        /\ \A q \in Handlers : q # p => req'[q] = req[q]
    BY <1>1, <1>5, <2>1
  <2>3. QED
    BY <1>1, <1>2, <1>3, <2>1, <2>2, ReadOnly
<1>6. ASSUME NEW pc \in {"role", "write"}, Live(req[p].room),
             req' = [req EXCEPT ![p] =
               Request(pc, req[p].op, req[p].room, req[p].operator, req[p].target,
                       req[p].global, room[req[p].room].creator)]
      PROVE  IInv'
  <2> DEFINE next == Request(pc, req[p].op, req[p].room, req[p].operator, req[p].target,
                             req[p].global, room[req[p].room].creator)
  <2>1. next \in Requests
    BY <1>2, <1>4 DEF Request, Requests
  <2>2. /\ next.pc = pc /\ next.op = req[p].op /\ next.room = req[p].room
        /\ next.operator = req[p].operator /\ next.target = req[p].target
    BY DEF Request
  <2>3. req' \in [Handlers -> Requests] /\ req'[p] = next
        /\ \A q \in Handlers : q # p => req'[q] = req[q]
    BY <1>1, <1>6, <2>1
  <2> HIDE DEF next
  <2>4. room[req[p].room].state # "none"
    BY <1>6 DEF Live
  <2>5. QED
    BY <1>1, <1>2, <1>3, <2>2, <2>3, <2>4, ReadOnly
<1>7. QED
  <2>1. \/ req' = [req EXCEPT ![p] = Idle]
        \/ /\ Live(req[p].room)
           /\ \E pc \in {"role", "write"} : req' = [req EXCEPT ![p] =
               Request(pc, req[p].op, req[p].room, req[p].operator, req[p].target,
                       req[p].global, room[req[p].room].creator)]
    BY DEF GetRoomByID
  <2>2. QED
    BY <2>1, <1>5, <1>6

\* A handler reads the operator's role.
LEMMA GetMemberRoleKeeps ==
    ASSUME IInv, NEW p \in Handlers, GetMemberRole(p)
    PROVE  IInv'
<1>1. req[p].pc = "role" /\ TypeOK
  BY DEF GetMemberRole, IInv
<1>2. UNCHANGED <<runtime, room, role, channel, sock, subs, unsure>> /\ requests' = requests
  BY DEF GetMemberRole, tables, hub
<1>3. /\ req[p].op \in Ops /\ req[p].room \in Rooms /\ req[p].operator \in Users
      /\ req[p].target \in Users /\ requests \in 0..MaxRequests
      /\ room[req[p].room].state # "none"
  BY <1>1 DEF IInv, TypeOK, Untouched
<1>4. PICK pc \in {"idle", "write"} : Goes(p, pc)
  BY DEF GetMemberRole
<1>5. /\ req' \in [Handlers -> Requests]
      /\ req'[p].pc = pc
      /\ pc # "idle" => /\ req'[p].op = req[p].op
                        /\ req'[p].room = req[p].room
                        /\ req'[p].operator = req[p].operator
                        /\ req'[p].target = req[p].target
      /\ \A q \in Handlers : q # p => req'[q] = req[q]
  BY <1>1, <1>4, GoesEffect
<1>6. QED
  BY <1>1, <1>2, <1>3, <1>5, ReadOnly

\* A member is added: the pair is unsure from then on if another change of it is under
\* way.
LEMMA AddMemberKeeps ==
    ASSUME IInv, NEW p \in Handlers, AddMember(p)
    PROVE  IInv'
<1>0. PICK r \in Rooms, u \in Users : req[p].room = r /\ req[p].target = u
  BY DEF AddMember, IInv, TypeOK
<1>1. TypeOK /\ req[p].pc = "write" /\ req[p].op = "JoinRoom" /\ r \in Rooms /\ u \in Users
  BY <1>0 DEF AddMember, IInv, TypeOK
<1>2. /\ req' \in [Handlers -> Requests]
      /\ req'[p].pc = "notify"
      /\ req'[p].op = req[p].op /\ req'[p].room = r
      /\ req'[p].operator = req[p].operator /\ req'[p].target = u
      /\ \A q \in Handlers : q # p => req'[q] = req[q]
  <2>1. Goes(p, "notify")
    BY DEF AddMember
  <2>2. QED
    BY <1>0, <1>1, <2>1, GoesEffect
<1>3. UNCHANGED <<runtime, room, requests, channel, sock, subs>>
  BY DEF AddMember, hub
<1>4. /\ role' = [role EXCEPT ![r][u] = IF role[r][u] = 0 THEN 1 ELSE role[r][u]]
      /\ unsure' = IF role[r][u] = 0 THEN unsure \cup Mark(u, r) ELSE unsure
  BY <1>0 DEF AddMember
<1>5. /\ role' \in [Rooms -> [Users -> 0..3]]
      /\ role'[r][u] > 0
      /\ \A s \in Rooms, v \in Users : <<v, s>> # <<u, r>> => role'[s][v] = role[s][v]
      /\ role[r][u] # 0 => role[r][u] > 0
  BY <1>1, <1>4 DEF TypeOK
<1>6. unsure \subseteq unsure' /\ unsure' \in SUBSET (Users \X Rooms)
      /\ (role[r][u] > 0 \/ Mark(u, r) \subseteq unsure')
  BY <1>1, <1>4, <1>5 DEF TypeOK, Mark
<1>7. TypeOK'
  <2>1. req[p].operator \in Users
    BY <1>1 DEF TypeOK
  <2>2. QED
    BY <1>1, <1>2, <1>3, <1>5, <1>6, <2>1 DEF TypeOK, Ops, ServiceOps
<1>8. Notice(p)' = Event("member_joined", r, u)
  BY <1>1, <1>2 DEF Notice, Removals, Disbands
<1>9. NoticesRight' /\ EventsRight' /\ LoadedRight' /\ SubscriptionsFollow'
  <2>1. \A v, s : Affects(Notice(p)', v, s) <=> v = u /\ s = r
    BY <1>8 DEF Affects, Event
  <2>2. Right(Notice(p), u, r)'
    BY <1>5, <1>8 DEF Right, Event
  <2>3. \/ role'[r][u] > 0 <=> role[r][u] > 0
        \/ Mark(u, r) \subseteq unsure'
    BY <1>5, <1>6
  <2>4. QED
    BY <1>1, <1>2, <1>3, <1>5, <1>6, <2>1, <2>2, <2>3, MembershipWrite
<1>10. Untouched'
  <2>1. room[r].state # "none"
    BY <1>0, <1>1 DEF IInv, Untouched
  <2>2. QED
    BY <1>2, <1>3, <1>5, <2>1 DEF IInv, Untouched
<1>11. QED
  BY <1>7, <1>9, <1>10 DEF IInv

\* A member is removed, and the notification about it is right.
LEMMA RemoveMemberKeeps ==
    ASSUME IInv, NEW p \in Handlers, RemoveMember(p)
    PROVE  IInv'
<1>0. PICK r \in Rooms, u \in Users : req[p].room = r /\ req[p].target = u
  BY DEF RemoveMember, IInv, TypeOK
<1>1. /\ TypeOK /\ req[p].pc = "write" /\ req[p].op \in Removals /\ r \in Rooms /\ u \in Users
      /\ req[p].op \in Ops /\ req[p].operator \in Users
  BY <1>0 DEF RemoveMember, IInv, TypeOK
<1>2. UNCHANGED <<runtime, room, requests, channel, sock, subs>>
  BY DEF RemoveMember, hub
<1>3. /\ role' = [role EXCEPT ![r][u] = 0]
      /\ unsure' = IF role[r][u] > 0 THEN unsure \cup Mark(u, r) ELSE unsure
  BY <1>0 DEF RemoveMember
<1>4. /\ role' \in [Rooms -> [Users -> 0..3]]
      /\ role'[r][u] = 0
      /\ \A s \in Rooms, v \in Users : <<v, s>> # <<u, r>> => role'[s][v] = role[s][v]
      /\ role[r][u] \in 0..3
  BY <1>1, <1>3 DEF TypeOK
<1>5. unsure \subseteq unsure' /\ unsure' \in SUBSET (Users \X Rooms)
      /\ (~(role[r][u] > 0) \/ Mark(u, r) \subseteq unsure')
  BY <1>1, <1>3, <1>4 DEF TypeOK, Mark
<1>6. CASE role[r][u] > 0 \/ req[p].op = "remove_member"
  <2>1. /\ req' \in [Handlers -> Requests]
        /\ req'[p].pc = "notify"
        /\ req'[p].op = req[p].op /\ req'[p].room = r
        /\ req'[p].operator = req[p].operator /\ req'[p].target = u
        /\ \A q \in Handlers : q # p => req'[q] = req[q]
    <3>1. Goes(p, "notify")
      BY <1>0, <1>6 DEF RemoveMember
    <3>2. QED
      BY <1>0, <1>1, <3>1, GoesEffect
  <2>2. TypeOK'
    BY <1>1, <1>2, <1>4, <1>5, <2>1 DEF TypeOK
  <2>3. Notice(p)' = Event("member_left", r, u)
    BY <1>1, <2>1 DEF Notice
  <2>4. NoticesRight' /\ EventsRight' /\ LoadedRight' /\ SubscriptionsFollow'
    <3>1. \A v, s : Affects(Notice(p)', v, s) <=> v = u /\ s = r
      BY <2>3 DEF Affects, Event
    <3>2. Right(Notice(p), u, r)'
      BY <1>4, <2>3 DEF Right, Event
    <3>3. \/ role'[r][u] > 0 <=> role[r][u] > 0
          \/ Mark(u, r) \subseteq unsure'
      BY <1>4, <1>5
    <3>4. QED
      BY <1>1, <1>2, <1>4, <1>5, <2>1, <3>1, <3>2, <3>3, MembershipWrite
  <2>5. Untouched'
    <3>1. room[r].state # "none"
      BY <1>0, <1>1, <1>4, <1>6 DEF IInv, Untouched
    <3>2. \A s \in Rooms : s # r => role'[s] = role[s]
      BY <1>1, <1>3 DEF TypeOK
    <3>3. QED
      BY <1>2, <2>1, <3>1, <3>2, UntouchedStays DEF IInv
  <2>6. QED
    BY <2>2, <2>4, <2>5 DEF IInv
<1>7. CASE ~(role[r][u] > 0 \/ req[p].op = "remove_member")
  <2>1. /\ req' \in [Handlers -> Requests]
        /\ req'[p].pc = "idle"
        /\ \A q \in Handlers : q # p => req'[q] = req[q]
    <3>1. Goes(p, "idle")
      BY <1>0, <1>7 DEF RemoveMember
    <3>2. QED
      BY <1>0, <1>1, <3>1, GoesEffect
  <2>2. role' = role /\ unsure' = unsure
    BY <1>1, <1>3, <1>4, <1>7 DEF TypeOK
  <2>3. requests \in 0..MaxRequests
    BY <1>1 DEF TypeOK
  <2>4. QED
    BY <1>1, <1>2, <2>1, <2>2, <2>3, ReadOnly
<1>8. QED
  BY <1>6, <1>7

\* A room is disbanded.
LEMMA SoftDeleteRoomKeeps ==
    ASSUME IInv, NEW p \in Handlers, SoftDeleteRoom(p)
    PROVE  IInv'
<1> DEFINE w == req[p].room
<1>1. /\ TypeOK /\ req[p].pc = "write" /\ req[p].op \in Disbands /\ w \in Rooms
      /\ req[p].op \in Ops /\ req[p].operator \in Users /\ req[p].target \in Users
      /\ room[w].state # "none"
  BY DEF SoftDeleteRoom, IInv, TypeOK, Untouched, Disbands
<1>2. UNCHANGED <<runtime, role, requests, channel, sock, subs, unsure>>
  BY DEF SoftDeleteRoom, hub
<1>3. /\ req' \in [Handlers -> Requests]
      /\ req'[p].pc = "notify"
      /\ req'[p].op = req[p].op /\ req'[p].room = w
      /\ req'[p].operator = req[p].operator /\ req'[p].target = req[p].target
      /\ \A q \in Handlers : q # p => req'[q] = req[q]
  <2>1. Goes(p, "notify")
    BY DEF SoftDeleteRoom
  <2>2. QED
    BY <1>1, <2>1, GoesEffect
<1>4. /\ room' \in [Rooms -> [state : {"none", "live", "deleted"}, creator : Users \cup {None}]]
      /\ room'[w].state = "deleted"
      /\ \A s \in Rooms : s # w => room'[s] = room[s]
  BY <1>1 DEF SoftDeleteRoom, TypeOK
<1>5. TypeOK'
  BY <1>1, <1>2, <1>3, <1>4 DEF TypeOK
<1>6. \A u \in Users, r \in Rooms : Sure(u, r)' => Sure(u, r) /\ r # w
  BY <1>2, <1>4 DEF Sure, Live
<1>7. ASSUME NEW u \in Users, NEW r \in Rooms, Sure(u, r)', NEW q \in Handlers
      PROVE  (req'[q].pc = "notify" /\ Affects(Notice(q), u, r)')
                 <=> (req[q].pc = "notify" /\ Affects(Notice(q), u, r))
  <2>1. CASE q = p
    <3>1. Notice(p)'.room = w
      BY <1>3 DEF Notice, Event
    <3>2. QED
      BY <1>1, <1>6, <1>7, <2>1, <3>1 DEF Affects
  <2>2. CASE q # p
    <3>1. req'[q] = req[q] /\ Notice(q)' = Notice(q)
      BY <1>3, <2>2, OthersNotice
    <3>2. QED
      BY <3>1 DEF Affects
  <2>3. QED
    BY <2>1, <2>2
<1>8. NoticesRight'
  <2> SUFFICES ASSUME NEW u \in Users, NEW r \in Rooms, Sure(u, r)', NEW q \in Handlers,
                      req'[q].pc = "notify", Affects(Notice(q), u, r)'
               PROVE  Right(Notice(q), u, r)'
    BY DEF NoticesRight
  <2>1. Right(Notice(q), u, r) /\ q # p
    BY <1>1, <1>6, <1>7 DEF IInv, NoticesRight
  <2>2. Notice(q)' = Notice(q)
    BY <1>3, <2>1, OthersNotice
  <2>3. QED
    BY <1>2, <2>1, <2>2 DEF Right
<1>9. EventsRight' /\ LoadedRight'
  BY <1>2, <1>6 DEF IInv, EventsRight, LoadedRight, Affects, Right
<1>10. SubscriptionsFollow'
  <2> SUFFICES ASSUME NEW u \in Users, NEW r \in Rooms, sock[u] = "on", Sure(u, r)',
                      ~Pending(u, r)'
               PROVE  r \in subs[u] <=> role[r][u] > 0
    BY <1>2 DEF SubscriptionsFollow, Sure
  <2>1. ~Pending(u, r)
    BY <1>2, <1>7 DEF Pending, Affects
  <2>2. QED
    BY <1>6, <2>1 DEF IInv, SubscriptionsFollow, Sure
<1>11. Untouched'
  BY <1>2, <1>3, <1>4 DEF IInv, Untouched
<1>12. QED
  BY <1>5, <1>8, <1>9, <1>10, <1>11 DEF IInv

\* An admin action saves the room as it was read.
LEMMA SaveRoomKeeps ==
    ASSUME IInv, NEW p \in Handlers, SaveRoom(p)
    PROVE  IInv'
<1>1. PICK w \in Rooms : req[p].room = w
  BY DEF SaveRoom, IInv, TypeOK
<1>2. /\ TypeOK /\ req[p].pc = "write" /\ req[p].op \in {"freeze", "transfer_owner"}
      /\ req[p].op \in Ops /\ req[p].operator \in Users /\ req[p].target \in Users
      /\ req[p].creator \in Users \cup {None}
  BY DEF SaveRoom, IInv, TypeOK, Requests
<1>3. UNCHANGED <<runtime, role, requests, channel, sock, subs>>
  BY DEF SaveRoom, hub
<1>4. PICK pc \in {"idle", "owner"} : Goes(p, pc)
  BY DEF SaveRoom
<1>5. /\ req' \in [Handlers -> Requests]
      /\ req'[p].pc = pc
      /\ pc # "idle" => /\ req'[p].op = req[p].op
                        /\ req'[p].room = req[p].room
                        /\ req'[p].operator = req[p].operator
                        /\ req'[p].target = req[p].target
      /\ \A q \in Handlers : q # p => req'[q] = req[q]
  BY <1>2, <1>4, GoesEffect
<1>6. PICK c \in Users \cup {None} :
           room' = [room EXCEPT ![w] = [state |-> "live", creator |-> c]]
  BY <1>1, <1>2 DEF SaveRoom
<1>7. /\ room' \in [Rooms -> [state : {"none", "live", "deleted"}, creator : Users \cup {None}]]
      /\ room'[w].state = "live"
      /\ \A r \in Rooms : r # w => room'[r] = room[r]
  BY <1>2, <1>6 DEF TypeOK
<1>8. /\ unsure \subseteq unsure' /\ unsure' \in SUBSET (Users \X Rooms)
      /\ Live(w) \/ Users \X {w} \subseteq unsure'
  BY <1>1, <1>2 DEF SaveRoom, TypeOK
<1>9. TypeOK'
  BY <1>2, <1>3, <1>5, <1>7, <1>8 DEF TypeOK
<1>10. NoticesRight' /\ EventsRight' /\ LoadedRight' /\ SubscriptionsFollow'
  <2>1. \A r \in Rooms : Live(r)' => Live(r) \/ Users \X {r} \subseteq unsure'
    BY <1>7, <1>8 DEF Live
  <2>2. QED
    BY <1>2, <1>3, <1>5, <1>8, <2>1, NothingNew
<1>11. Untouched'
  BY <1>1, <1>3, <1>5, <1>7, UntouchedStays DEF IInv
<1>12. QED
  BY <1>9, <1>10, <1>11 DEF IInv

\* A transfer of the ownership changes roles within membership.
LEMMA updateMemberRoleKeeps ==
    ASSUME IInv, NEW p \in Handlers, updateMemberRole(p)
    PROVE  IInv'
<1>1. /\ TypeOK /\ req[p].pc \in {"write", "owner"} /\ Goes(p, "idle")
      /\ req[p].room \in Rooms /\ req[p].target \in Users
      /\ req[p].pc = "write" => req[p].op = "set_admin"
  BY DEF updateMemberRole, IInv, TypeOK
<1>2. UNCHANGED <<runtime, room, requests, channel, sock, subs, unsure>>
  BY DEF updateMemberRole, hub
<1>3. /\ req' \in [Handlers -> Requests] /\ req'[p].pc = "idle"
      /\ \A q \in Handlers : q # p => req'[q] = req[q]
  BY <1>1, GoesEffect
<1>4. PICK n \in {2, 3} : role' = [role EXCEPT ![req[p].room][req[p].target] =
                                    IF @ = 0 THEN 0 ELSE n]
  BY DEF updateMemberRole
<1>5. /\ role' \in [Rooms -> [Users -> 0..3]]
      /\ \A u \in Users, r \in Rooms : role'[r][u] > 0 <=> role[r][u] > 0
      /\ \A r \in Rooms : r # req[p].room => role'[r] = role[r]
  <2> DEFINE m == IF role[req[p].room][req[p].target] = 0 THEN 0 ELSE n
  <2>1. role' = [role EXCEPT ![req[p].room][req[p].target] = m]
    BY <1>1, <1>4 DEF TypeOK
  <2>2. m \in 0..3 /\ (m > 0 <=> role[req[p].room][req[p].target] > 0)
    <3>1. role[req[p].room][req[p].target] \in 0..3
      BY <1>1 DEF TypeOK
    <3>2. QED
      BY <3>1
  <2> HIDE DEF m
  <2>3. QED
    BY <1>1, <2>1, <2>2 DEF TypeOK
<1>6. TypeOK'
  BY <1>1, <1>2, <1>3, <1>5 DEF TypeOK
<1>7. NoticesRight' /\ EventsRight' /\ LoadedRight' /\ SubscriptionsFollow'
  BY <1>1, <1>2, <1>3, <1>5, NothingNew DEF Live
<1>8. Untouched'
  <2>1. room[req[p].room].state # "none"
    BY <1>1 DEF IInv, Untouched
  <2>2. PICK w \in Rooms : w = req[p].room
    BY <1>1
  <2>3. QED
    BY <1>2, <1>3, <1>5, <2>1, <2>2, UntouchedStays DEF IInv
<1>9. QED
  BY <1>6, <1>7, <1>8 DEF IInv

\* A call fails and ends the request: what it leaves unnoticed is unsure.
LEMMA FailsKeeps ==
    ASSUME IInv, NEW p \in Handlers, Fails(p)
    PROVE  IInv'
<1>1. TypeOK /\ req[p].pc # "idle" /\ Goes(p, "idle")
  BY DEF Fails, IInv
<1>2. UNCHANGED <<runtime, room, role, requests, channel, sock, subs>>
  BY DEF Fails, hub, tables
<1>3. /\ req' \in [Handlers -> Requests] /\ req'[p].pc = "idle"
      /\ \A q \in Handlers : q # p => req'[q] = req[q]
  BY <1>1, GoesEffect
<1>4. /\ unsure \subseteq unsure' /\ unsure' \in SUBSET (Users \X Rooms)
      /\ req[p].pc = "notify" => Lost(Notice(p)) \subseteq unsure'
  BY <1>1 DEF Fails, TypeOK, Lost
<1>5. TypeOK'
  BY <1>1, <1>2, <1>3, <1>4 DEF TypeOK
<1>6. NoticesRight' /\ EventsRight' /\ LoadedRight' /\ SubscriptionsFollow'
  BY <1>2, <1>3, <1>4, NothingNew DEF Live
<1>7. Untouched'
  BY <1>2, <1>3 DEF IInv, Untouched
<1>8. QED
  BY <1>5, <1>6, <1>7 DEF IInv

\* A kick reaches the connection.
LEMMA KickKeeps ==
    ASSUME IInv, NEW p \in Handlers, Kick(p)
    PROVE  IInv'
<1>1. /\ TypeOK /\ req[p].pc = "kick" /\ req' = [req EXCEPT ![p] = Idle]
      /\ sock' = [sock EXCEPT ![req[p].target] = IF @ = "on" THEN "closing" ELSE @]
  BY DEF Kick, IInv
<1>2. UNCHANGED <<runtime, room, role, requests, channel, subs, unsure>>
  BY DEF Kick, tables
<1>3. Idle \in Requests /\ Idle.pc = "idle"
  BY DEF Idle, Request, Requests
<1>4. /\ req' \in [Handlers -> Requests] /\ req'[p].pc = "idle"
      /\ \A q \in Handlers : q # p => req'[q] = req[q]
  BY <1>1, <1>3 DEF TypeOK
<1>5. /\ sock' \in [Users -> {"off", "loaded", "on", "closing"}]
      /\ \A u \in Users : sock'[u] = sock[u] \/ sock'[u] \notin {"loaded", "on"}
  BY <1>1 DEF TypeOK
<1>6. TypeOK'
  BY <1>1, <1>2, <1>4, <1>5 DEF TypeOK
<1>7. NoticesRight' /\ EventsRight' /\ LoadedRight' /\ SubscriptionsFollow'
  BY <1>1, <1>2, <1>4, <1>5, NothingNew DEF Live
<1>8. Untouched'
  BY <1>2, <1>4 DEF IInv, Untouched
<1>9. QED
  BY <1>6, <1>7, <1>8 DEF IInv

\* A notification that reaches the Hub changes the subscriptions it is about, and
\* no others.
LEMMA ApplyEffect ==
    ASSUME TypeOK, NEW e, e.room \in Rooms, Apply(e)
    PROVE  /\ subs' \in [Users -> SUBSET Rooms]
           /\ \A u \in Users, r \in Rooms : r \in subs'[u] <=>
                 IF sock[u] \in {"on", "closing"} /\ Affects(e, u, r)
                 THEN e.type = "member_joined" ELSE r \in subs[u]
BY DEF TypeOK, Apply, Affects

\* It makes them right.
LEMMA Arrives ==
    ASSUME IInv, NEW e, e.room \in Rooms, room[e.room].state # "none", Apply(e),
           \A u \in Users, r \in Rooms : Sure(u, r) /\ Affects(e, u, r) => Right(e, u, r),
           \A u \in Users, r \in Rooms : Pending(u, r) => Pending(u, r)' \/ Affects(e, u, r),
           UNCHANGED <<room, role, sock, unsure>>
    PROVE  /\ LoadedRight' /\ SubscriptionsFollow'
           /\ \A r \in Rooms : room[r].state = "none" => \A u \in Users : r \notin subs'[u]
<1>1. \A u \in Users, r \in Rooms : r \in subs'[u] <=>
          IF sock[u] \in {"on", "closing"} /\ Affects(e, u, r)
          THEN e.type = "member_joined" ELSE r \in subs[u]
  BY ApplyEffect DEF IInv
<1>2. LoadedRight'
  <2> SUFFICES ASSUME NEW u \in Users, NEW r \in Rooms, Sure(u, r), sock[u] = "loaded"
               PROVE  r \in subs'[u] <=> role[r][u] > 0
    BY DEF LoadedRight, Sure, Live
  <2>1. r \in subs'[u] <=> r \in subs[u]
    BY <1>1
  <2>2. QED
    BY <2>1 DEF IInv, LoadedRight
<1>3. SubscriptionsFollow'
  <2> SUFFICES ASSUME NEW u \in Users, NEW r \in Rooms, sock[u] = "on", Sure(u, r),
                      ~Pending(u, r)'
               PROVE  r \in subs'[u] <=> role[r][u] > 0
    BY DEF SubscriptionsFollow, Sure, Live
  <2>1. CASE Affects(e, u, r)
    BY <1>1, <2>1 DEF Right
  <2>2. CASE ~Affects(e, u, r)
    <3>1. ~Pending(u, r) /\ Live(r) /\ <<u, r>> \notin unsure
      BY <2>2 DEF Sure
    <3>2. r \in subs[u] <=> role[r][u] > 0
      BY <3>1 DEF IInv, SubscriptionsFollow
    <3>3. QED
      BY <1>1, <2>2, <3>2
  <2>3. QED
    BY <2>1, <2>2
<1>4. \A r \in Rooms : room[r].state = "none" => \A u \in Users : r \notin subs'[u]
  <2>1. \A r \in Rooms, u \in Users : room[r].state = "none" => ~Affects(e, u, r)
    BY DEF Affects
  <2>2. QED
    BY <1>1, <2>1 DEF IInv, Untouched
<1>5. QED
  BY <1>2, <1>3, <1>4

\* A handler notifies the Hub or publishes an event.
LEMMA NotifyKeeps ==
    ASSUME IInv, NEW p \in Handlers, Notify(p)
    PROVE  IInv'
<1> DEFINE e == Notice(p)
<1>1. /\ TypeOK /\ req[p].pc = "notify" /\ req[p].op \in Ops /\ req[p].room \in Rooms
      /\ req[p].operator \in Users /\ req[p].target \in Users
      /\ room[req[p].room].state # "none"
  BY DEF Notify, IInv, TypeOK, Untouched
<1>2. UNCHANGED <<runtime, room, role, requests, sock, unsure>>
  BY DEF Notify, tables
<1>3. e \in Events /\ e.room = req[p].room
  BY <1>1 DEF Notice, Event, Events
<1>4. /\ req' \in [Handlers -> Requests]
      /\ req'[p].pc \in {"idle", "kick"}
      /\ req'[p].pc # "idle" => /\ req'[p].op = req[p].op
                                /\ req'[p].room = req[p].room
                                /\ req'[p].operator = req[p].operator
                                /\ req'[p].target = req[p].target
      /\ \A q \in Handlers : q # p => req'[q] = req[q]
  <2>1. req' = [req EXCEPT ![p] = IF @.op = "KickUser" THEN [@ EXCEPT !.pc = "kick"] ELSE Idle]
    BY DEF Notify
  <2>2. req[p] \in Requests /\ Idle \in Requests /\ Idle.pc = "idle"
    BY <1>1 DEF TypeOK, Idle, Request, Requests
  <2>3. [req[p] EXCEPT !.pc = "kick"] \in Requests
    BY <2>2 DEF Requests
  <2>4. QED
    BY <1>1, <2>1, <2>2, <2>3 DEF TypeOK, Requests
<1>5. \A u \in Users, r \in Rooms : Sure(u, r)' <=> Sure(u, r)
  BY <1>2 DEF Sure, Live
<1>6. \A u \in Users, r \in Rooms : Sure(u, r) /\ Affects(e, u, r) => Right(e, u, r)
  BY <1>1 DEF IInv, NoticesRight
<1>7. NoticesRight'
  <2> SUFFICES ASSUME NEW u \in Users, NEW r \in Rooms, Sure(u, r)', NEW q \in Handlers,
                      req'[q].pc = "notify", Affects(Notice(q), u, r)'
               PROVE  Right(Notice(q), u, r)'
    BY DEF NoticesRight
  <2>1. q # p /\ req[q].pc = "notify" /\ Notice(q)' = Notice(q)
    BY <1>4, OthersNotice
  <2>2. Right(Notice(q), u, r)
    BY <1>5, <2>1 DEF IInv, NoticesRight, Affects
  <2>3. QED
    BY <1>2, <2>1, <2>2 DEF Right
<1>8. \A q \in Handlers, u \in Users, r \in Rooms :
          q # p /\ req[q].pc = "notify" /\ Affects(Notice(q), u, r) => req'[q].pc = "notify" /\ Affects(Notice(q), u, r)'
  BY <1>4, OthersNotice DEF Affects
<1>9. CASE Direct(p)
  <2>1. Apply(e) /\ channel' = channel
    BY <1>9 DEF Notify
  <2>2. \A u \in Users, r \in Rooms : Pending(u, r) => Pending(u, r)' \/ Affects(e, u, r)
    BY <1>8, <2>1 DEF Pending, Affects
  <2>3. /\ LoadedRight' /\ SubscriptionsFollow'
        /\ \A r \in Rooms : room[r].state = "none" => \A u \in Users : r \notin subs'[u]
    <3> HIDE DEF e
    <3>1. QED
      BY <1>1, <1>2, <1>3, <1>6, <2>1, <2>2, Arrives
  <2>4. TypeOK'
    <3>1. subs' \in [Users -> SUBSET Rooms]
      BY <1>1, <1>3, <2>1, ApplyEffect
    <3>2. QED
      BY <1>1, <1>2, <1>4, <2>1, <3>1 DEF TypeOK
  <2>5. EventsRight'
    BY <1>2, <1>5, <2>1 DEF IInv, EventsRight, Affects, Right
  <2>6. Untouched'
    BY <1>1, <1>2, <1>4, <2>1, <2>3 DEF IInv, Untouched
  <2>7. QED
    BY <1>7, <2>3, <2>4, <2>5, <2>6 DEF IInv
<1>10. CASE ~Direct(p)
  <2>1. channel' = Append(channel, e) /\ subs' = subs /\ channel \in Seq(Events)
    BY <1>1, <1>10 DEF Notify, TypeOK
  <2>2. /\ channel' \in Seq(Events) /\ Len(channel) \in Nat
        /\ Len(channel') = Len(channel) + 1
        /\ \A i \in 1..Len(channel) : channel'[i] = channel[i]
        /\ channel'[Len(channel) + 1] = e
    <3> HIDE DEF e
    <3>1. QED
      BY <1>3, <2>1
  <2>3. TypeOK'
    BY <1>1, <1>2, <1>4, <2>1, <2>2 DEF TypeOK
  <2>4. EventsRight'
    <3> SUFFICES ASSUME NEW u \in Users, NEW r \in Rooms, Sure(u, r)',
                        NEW i \in 1..Len(channel'), Affects(channel'[i], u, r)
                 PROVE  Right(channel[i], u, r)'
      BY DEF EventsRight, Affects
    <3>1. Right(channel'[i], u, r)
      <4>1. CASE i = Len(channel) + 1
        BY <1>5, <1>6, <2>2, <4>1
      <4>2. CASE i \in 1..Len(channel)
        BY <1>5, <2>2, <4>2 DEF IInv, EventsRight
      <4>3. QED
        BY <2>2, <4>1, <4>2
    <3>2. QED
      BY <1>2, <3>1 DEF Right
  <2>5. LoadedRight'
    BY <1>2, <1>5, <2>1 DEF IInv, LoadedRight
  <2>6. SubscriptionsFollow'
    <3> SUFFICES ASSUME NEW u \in Users, NEW r \in Rooms, sock[u] = "on", Sure(u, r),
                        ~Pending(u, r)'
                 PROVE  r \in subs[u] <=> role[r][u] > 0
      BY <1>2, <2>1 DEF SubscriptionsFollow, Sure, Live
    <3>1. \A i \in 1..Len(channel') : ~Affects(channel'[i], u, r)
      BY DEF Pending, Affects
    <3>2. ~Affects(e, u, r) /\ \A i \in 1..Len(channel) : ~Affects(channel[i], u, r)
      BY <2>2, <3>1
    <3>3. \A q \in Handlers : ~(req[q].pc = "notify" /\ Affects(Notice(q), u, r))
      BY <1>8, <3>2 DEF Pending
    <3>4. ~Pending(u, r) /\ Live(r) /\ <<u, r>> \notin unsure
      BY <3>2, <3>3 DEF Pending, Sure
    <3>5. QED
      BY <3>4 DEF IInv, SubscriptionsFollow
  <2>7. Untouched'
    <3>1. \A r \in Rooms : room[r].state = "none" =>
              \A i \in 1..Len(channel') : channel'[i].room # r
      <4> HIDE DEF e
      <4>1. QED
        BY <1>1, <1>3, <2>2 DEF IInv, Untouched
    <3>2. QED
      BY <1>1, <1>2, <1>4, <2>1, <3>1 DEF IInv, Untouched
  <2>8. QED
    BY <1>7, <2>3, <2>4, <2>5, <2>6, <2>7 DEF IInv
<1>11. QED
  BY <1>9, <1>10

\* An event arrives at the listener.
LEMMA StartRoomEventListenerKeeps ==
    ASSUME IInv, StartRoomEventListener
    PROVE  IInv'
<1>1. /\ TypeOK /\ channel \in Seq(Events) /\ channel # <<>>
      /\ channel' = Tail(channel) /\ Apply(Head(channel))
  BY DEF StartRoomEventListener, IInv, TypeOK
<1>2. UNCHANGED <<runtime, room, role, req, requests, sock, unsure>>
  BY DEF StartRoomEventListener, tables
<1>3. PICK e \in Events : e = channel[1] /\ Apply(e) /\ e.room \in Rooms
  <2>1. PICK e \in Events : e = channel[1] /\ e = Head(channel)
    BY <1>1
  <2>2. Apply(e)
    BY <1>1, <2>1 DEF Apply
  <2>3. QED
    BY <2>1, <2>2 DEF Events
<1>4. /\ channel' \in Seq(Events) /\ Len(channel) \in Nat \ {0}
      /\ Len(channel') = Len(channel) - 1
      /\ \A i \in 1..Len(channel') : channel'[i] = channel[i + 1] /\ i + 1 \in 1..Len(channel)
  BY <1>1
<1>5. \A i \in 1..Len(channel) : i = 1 \/ (i - 1 \in 1..Len(channel') /\ channel[i] = channel'[i - 1])
  BY <1>4
<1>6. \A u \in Users, r \in Rooms : Sure(u, r)' <=> Sure(u, r)
  BY <1>2 DEF Sure, Live
<1>7. \A u \in Users, r \in Rooms : Sure(u, r) /\ Affects(e, u, r) => Right(e, u, r)
  BY <1>3, <1>4 DEF IInv, EventsRight
<1>8. room[e.room].state # "none"
  BY <1>3, <1>4 DEF IInv, Untouched
<1>9. \A u \in Users, r \in Rooms : Pending(u, r) => Pending(u, r)' \/ Affects(e, u, r)
  <2> SUFFICES ASSUME NEW u \in Users, NEW r \in Rooms, Pending(u, r), ~Affects(e, u, r)
               PROVE  Pending(u, r)'
    OBVIOUS
  <2>1. CASE \E q \in Handlers : req[q].pc = "notify" /\ Affects(Notice(q), u, r)
    BY <1>2, <2>1 DEF Pending, Affects, Notice
  <2>2. ASSUME NEW i \in 1..Len(channel), Affects(channel[i], u, r)
        PROVE  Pending(u, r)'
    <3>1. i # 1
      BY <1>3, <2>2
    <3>2. i - 1 \in 1..Len(channel') /\ Affects(channel'[i - 1], u, r)
      BY <1>5, <2>2, <3>1
    <3>3. QED
      BY <3>2 DEF Pending, Affects
  <2>3. QED
    BY <2>1, <2>2 DEF Pending
<1>10. /\ LoadedRight' /\ SubscriptionsFollow'
       /\ \A r \in Rooms : room[r].state = "none" => \A u \in Users : r \notin subs'[u]
  BY <1>2, <1>3, <1>7, <1>8, <1>9, Arrives
<1>11. TypeOK'
  <2>1. subs' \in [Users -> SUBSET Rooms]
    BY <1>1, <1>3, ApplyEffect
  <2>2. QED
    BY <1>1, <1>2, <1>4, <2>1 DEF TypeOK
<1>12. NoticesRight'
  BY <1>2, <1>6 DEF IInv, NoticesRight, Affects, Right, Notice
<1>13. EventsRight'
  <2> SUFFICES ASSUME NEW u \in Users, NEW r \in Rooms, Sure(u, r)',
                      NEW i \in 1..Len(channel'), Affects(channel'[i], u, r)
               PROVE  Right(channel[i], u, r)'
    BY DEF EventsRight, Affects
  <2>1. Right(channel'[i], u, r)
    BY <1>4, <1>6 DEF IInv, EventsRight
  <2>2. QED
    BY <1>2, <2>1 DEF Right
<1>14. Untouched'
  <2>1. \A r \in Rooms : room[r].state = "none" =>
            \A i \in 1..Len(channel') : channel'[i].room # r
    BY <1>4 DEF IInv, Untouched
  <2>2. QED
    BY <1>2, <1>10, <2>1 DEF IInv, Untouched
<1>15. QED
  BY <1>10, <1>11, <1>12, <1>13, <1>14 DEF IInv

\* Redis loses an event: its subscriptions are unsure.
LEMMA LoseKeeps ==
    ASSUME IInv, Lose
    PROVE  IInv'
<1>1. /\ TypeOK /\ channel \in Seq(Events) /\ channel # <<>> /\ channel' = Tail(channel)
      /\ unsure' = unsure \cup Lost(Head(channel))
  BY DEF Lose, IInv, TypeOK
<1>2. UNCHANGED <<runtime, room, role, req, requests, sock, subs>>
  BY DEF Lose, tables, hub
<1>3. /\ channel' \in Seq(Events) /\ Len(channel) \in Nat \ {0}
      /\ Len(channel') = Len(channel) - 1
      /\ \A i \in 1..Len(channel') : channel'[i] = channel[i + 1] /\ i + 1 \in 1..Len(channel)
      /\ Head(channel) = channel[1]
  BY <1>1
<1>4. \A i \in 1..Len(channel) : i = 1 \/ (i - 1 \in 1..Len(channel') /\ channel[i] = channel'[i - 1])
  BY <1>3
<1>5. \A u \in Users, r \in Rooms : Sure(u, r)' => Sure(u, r) /\ ~Affects(channel[1], u, r)
  BY <1>1, <1>2, <1>3 DEF Sure, Live, Lost
<1>6. TypeOK'
  <2>1. unsure' \in SUBSET (Users \X Rooms)
    BY <1>1 DEF TypeOK, Lost
  <2>2. QED
    BY <1>1, <1>2, <1>3, <2>1 DEF TypeOK
<1>7. NoticesRight' /\ LoadedRight'
  BY <1>2, <1>5 DEF IInv, NoticesRight, LoadedRight, Affects, Right, Notice
<1>8. EventsRight'
  <2> SUFFICES ASSUME NEW u \in Users, NEW r \in Rooms, Sure(u, r)',
                      NEW i \in 1..Len(channel'), Affects(channel'[i], u, r)
               PROVE  Right(channel[i], u, r)'
    BY DEF EventsRight, Affects
  <2>1. Right(channel'[i], u, r)
    BY <1>3, <1>5 DEF IInv, EventsRight
  <2>2. QED
    BY <1>2, <2>1 DEF Right
<1>9. SubscriptionsFollow'
  <2> SUFFICES ASSUME NEW u \in Users, NEW r \in Rooms, sock[u] = "on", Sure(u, r)',
                      ~Pending(u, r)'
               PROVE  r \in subs[u] <=> role[r][u] > 0
    BY <1>2 DEF SubscriptionsFollow, Sure, Live
  <2>1. \A q \in Handlers : ~(req[q].pc = "notify" /\ Affects(Notice(q), u, r))
    BY <1>2 DEF Pending, Affects, Notice
  <2>2. \A i \in 1..Len(channel') : ~Affects(channel'[i], u, r)
    BY DEF Pending, Affects
  <2>3. \A i \in 1..Len(channel) : ~Affects(channel[i], u, r)
    BY <1>4, <1>5, <2>2
  <2>4. ~Pending(u, r) /\ Live(r) /\ <<u, r>> \notin unsure
    BY <1>5, <2>1, <2>3 DEF Pending, Sure
  <2>5. QED
    BY <2>4 DEF IInv, SubscriptionsFollow
<1>10. Untouched'
  <2>1. \A r \in Rooms : room[r].state = "none" =>
            \A i \in 1..Len(channel') : channel'[i].room # r
    BY <1>3 DEF IInv, Untouched
  <2>2. QED
    BY <1>2, <2>1 DEF IInv, Untouched
<1>11. QED
  BY <1>6, <1>7, <1>8, <1>9, <1>10 DEF IInv

\* A room is created with its owner.
LEMMA CreateRoomKeeps ==
    ASSUME IInv, NEW p \in Handlers, CreateRoom(p)
    PROVE  IInv'
<1>1. PICK v \in Users, w \in Rooms :
        /\ room[w].state = "none"
        /\ room' = [room EXCEPT ![w] = [state |-> "live", creator |-> v]]
        /\ role' = [role EXCEPT ![w][v] = 2]
        /\ req' = [req EXCEPT ![p] = Request("notify", "CreateRoom", w, v, v, FALSE, v)]
        /\ unsure' = unsure \cup Mark(v, w)
  BY DEF CreateRoom
<1>2. UNCHANGED <<runtime, channel, sock, subs>>
  BY DEF CreateRoom, hub
<1>3. TypeOK /\ req[p].pc = "idle" /\ requests' \in 0..MaxRequests
  BY RoomMembershipAssumption DEF CreateRoom, IInv, TypeOK
<1>4. /\ req' \in [Handlers -> Requests]
      /\ req'[p].pc = "notify" /\ req'[p].op = "CreateRoom" /\ req'[p].room = w
      /\ req'[p].operator = v /\ req'[p].target = v
      /\ \A q \in Handlers : q # p => req'[q] = req[q]
  <2>1. Request("notify", "CreateRoom", w, v, v, FALSE, v) \in Requests
    BY DEF Request, Requests, Ops, ServiceOps
  <2>2. QED
    BY <1>1, <1>3, <2>1 DEF TypeOK, Request
<1>5. /\ room' \in [Rooms -> [state : {"none", "live", "deleted"}, creator : Users \cup {None}]]
      /\ room'[w].state = "live"
      /\ \A r \in Rooms : r # w => room'[r] = room[r]
  BY <1>1, <1>3 DEF TypeOK
<1>6. /\ role' \in [Rooms -> [Users -> 0..3]]
      /\ role'[w][v] = 2
      /\ \A u \in Users : u # v => role'[w][u] = role[w][u]
      /\ \A r \in Rooms : r # w => role'[r] = role[r]
  BY <1>1, <1>3 DEF TypeOK
<1>7. TypeOK'
  <2>1. unsure' \in SUBSET (Users \X Rooms)
    BY <1>1, <1>3 DEF TypeOK, Mark
  <2>2. QED
    <3>1. "CreateRoom" \in Ops
      BY DEF Ops, ServiceOps
    <3>2. \A q \in Handlers : req'[q].pc # "idle" =>
              /\ req'[q].op \in Ops /\ req'[q].room \in Rooms
              /\ req'[q].operator \in Users /\ req'[q].target \in Users
      BY <1>3, <1>4, <3>1 DEF TypeOK
    <3>3. QED
      BY <1>2, <1>3, <1>4, <1>5, <1>6, <2>1, <3>2 DEF TypeOK
<1>8. \A u \in Users, r \in Rooms : Sure(u, r)' /\ r # w => Sure(u, r)
  BY <1>1, <1>5 DEF Sure, Live
<1>9. /\ \A u \in Users : role[w][u] = 0 /\ w \notin subs[u]
      /\ \A q \in Handlers : req[q].pc = "notify" => req[q].room # w
      /\ \A i \in 1..Len(channel) : channel[i].room # w
  BY <1>1 DEF IInv, Untouched
<1>10. Notice(p)' = Event("member_joined", w, v)
  BY <1>4 DEF Notice, Removals, Disbands
<1>11. \A q \in Handlers : q # p => Notice(q)' = Notice(q) /\ Notice(q).room = req[q].room
  BY <1>4, OthersNotice DEF Notice, Event
<1>12. NoticesRight'
  <2> SUFFICES ASSUME NEW u \in Users, NEW r \in Rooms, Sure(u, r)', NEW q \in Handlers,
                      req'[q].pc = "notify", Affects(Notice(q)', u, r)
               PROVE  Right(Notice(q), u, r)'
    BY DEF NoticesRight, Affects
  <2>1. CASE q = p
    <3>1. u = v /\ r = w
      BY <1>10, <2>1 DEF Affects, Event
    <3>2. QED
      BY <1>6, <1>10, <2>1, <3>1 DEF Right, Event
  <2>2. CASE q # p
    <3>1. /\ req[q].pc = "notify" /\ Notice(q)' = Notice(q) /\ Affects(Notice(q), u, r)
          /\ Notice(q).room = req[q].room
      BY <1>4, <1>11, <2>2
    <3>2. r # w
      BY <1>9, <3>1 DEF Affects
    <3>3. Right(Notice(q), u, r)
      BY <1>8, <3>1, <3>2 DEF IInv, NoticesRight
    <3>4. QED
      BY <1>6, <3>1, <3>2, <3>3 DEF Right
  <2>3. QED
    BY <2>1, <2>2
<1>13. EventsRight'
  <2> SUFFICES ASSUME NEW u \in Users, NEW r \in Rooms, Sure(u, r)',
                      NEW i \in 1..Len(channel), Affects(channel[i], u, r)
               PROVE  Right(channel[i], u, r)'
    BY <1>2 DEF EventsRight, Affects
  <2>1. r # w
    BY <1>9 DEF Affects
  <2>2. Right(channel[i], u, r)
    BY <1>8, <2>1 DEF IInv, EventsRight
  <2>3. QED
    BY <1>2, <1>6, <2>1, <2>2 DEF Right
<1>14. LoadedRight'
  <2> SUFFICES ASSUME NEW u \in Users, NEW r \in Rooms, Sure(u, r)', sock[u] = "loaded"
               PROVE  r \in subs[u] <=> role'[r][u] > 0
    BY <1>2 DEF LoadedRight
  <2>1. CASE r # w
    BY <1>6, <1>8, <2>1 DEF IInv, LoadedRight
  <2>2. CASE r = w
    <3>1. u # v
      BY <1>1, <2>2 DEF Sure, Mark
    <3>2. QED
      BY <1>6, <1>9, <2>2, <3>1
  <2>3. QED
    BY <2>1, <2>2
<1>15. SubscriptionsFollow'
  <2> SUFFICES ASSUME NEW u \in Users, NEW r \in Rooms, sock[u] = "on", Sure(u, r)',
                      ~Pending(u, r)'
               PROVE  r \in subs[u] <=> role'[r][u] > 0
    BY <1>2 DEF SubscriptionsFollow, Sure
  <2>1. ~\E q \in Handlers : req'[q].pc = "notify" /\ Affects(Notice(q)', u, r)
    BY DEF Pending, Affects
  <2>2. CASE r # w
    <3>1. \A i \in 1..Len(channel) : ~Affects(channel[i], u, r)
      BY <1>2 DEF Pending, Affects
    <3>2. \A q \in Handlers : ~(req[q].pc = "notify" /\ Affects(Notice(q), u, r))
      BY <1>3, <1>4, <1>11, <2>1
    <3>3. ~Pending(u, r) /\ Live(r) /\ <<u, r>> \notin unsure
      BY <1>8, <2>2, <3>1, <3>2 DEF Pending, Sure
    <3>4. QED
      BY <1>6, <2>2, <3>3 DEF IInv, SubscriptionsFollow
  <2>3. CASE r = w
    <3>1. u # v
      BY <1>4, <1>10, <2>1, <2>3 DEF Affects, Event
    <3>2. QED
      BY <1>6, <1>9, <2>3, <3>1
  <2>4. QED
    BY <2>2, <2>3
<1>16. Untouched'
  BY <1>2, <1>4, <1>5, <1>6, UntouchedStays DEF IInv
<1>17. QED
  BY <1>7, <1>12, <1>13, <1>14, <1>15, <1>16 DEF IInv

\* The endpoint reads the user's rooms.
LEMMA GetUserRoomIDsKeeps ==
    ASSUME IInv, NEW v \in Users, GetUserRoomIDs(v)
    PROVE  IInv'
<1>1. TypeOK /\ UNCHANGED <<runtime, room, role, req, requests, channel>>
  BY DEF GetUserRoomIDs, IInv, tables
<1>2. /\ sock' \in [Users -> {"off", "loaded", "on", "closing"}] /\ sock'[v] = "loaded"
      /\ \A u \in Users : u # v => sock'[u] = sock[u]
  BY <1>1 DEF GetUserRoomIDs, TypeOK
<1>3. /\ subs' \in [Users -> SUBSET Rooms]
      /\ subs'[v] = {r \in Rooms : role[r][v] > 0}
      /\ \A u \in Users : u # v => subs'[u] = subs[u]
  BY <1>1 DEF GetUserRoomIDs, TypeOK
<1>4. unsure' \subseteq unsure
      /\ \A u \in Users, r \in Rooms : <<u, r>> \in unsure /\ <<u, r>> \notin unsure'
            => u = v /\ ~Pending(v, r)
  BY DEF GetUserRoomIDs
<1>5. \A u \in Users, r \in Rooms : Sure(u, r)' =>
          Sure(u, r) \/ (u = v /\ ~Pending(v, r))
  BY <1>1, <1>4 DEF Sure, Live
<1>6. TypeOK'
  BY <1>1, <1>2, <1>3, <1>4 DEF TypeOK
<1>7. NoticesRight'
  <2> SUFFICES ASSUME NEW u \in Users, NEW r \in Rooms, Sure(u, r)', NEW q \in Handlers,
                      req[q].pc = "notify", Affects(Notice(q), u, r)
               PROVE  Right(Notice(q), u, r)'
    BY <1>1 DEF NoticesRight, Affects, Notice
  <2>1. Right(Notice(q), u, r)
    BY <1>5 DEF IInv, NoticesRight, Pending
  <2>2. QED
    BY <1>1, <2>1 DEF Right, Notice
<1>8. EventsRight'
  <2> SUFFICES ASSUME NEW u \in Users, NEW r \in Rooms, Sure(u, r)',
                      NEW i \in 1..Len(channel), Affects(channel[i], u, r)
               PROVE  Right(channel[i], u, r)'
    BY <1>1 DEF EventsRight, Affects
  <2>1. Right(channel[i], u, r)
    BY <1>5 DEF IInv, EventsRight, Pending
  <2>2. QED
    BY <1>1, <2>1 DEF Right
<1>9. LoadedRight'
  <2> SUFFICES ASSUME NEW u \in Users, NEW r \in Rooms, Sure(u, r)', sock'[u] = "loaded"
               PROVE  r \in subs'[u] <=> role[r][u] > 0
    BY <1>1 DEF LoadedRight
  <2>1. CASE u = v
    BY <1>3, <2>1
  <2>2. CASE u # v
    BY <1>2, <1>3, <1>5, <2>2 DEF IInv, LoadedRight
  <2>3. QED
    BY <2>1, <2>2
<1>10. SubscriptionsFollow'
  <2> SUFFICES ASSUME NEW u \in Users, NEW r \in Rooms, sock'[u] = "on", Sure(u, r)',
                      ~Pending(u, r)'
               PROVE  r \in subs'[u] <=> role[r][u] > 0
    BY <1>1 DEF SubscriptionsFollow, Sure
  <2>1. u # v /\ sock[u] = "on" /\ subs'[u] = subs[u]
    BY <1>2, <1>3
  <2>2. Live(r) /\ <<u, r>> \notin unsure
    BY <1>5, <2>1 DEF Sure
  <2>3. ~Pending(u, r)
    BY <1>1 DEF Pending, Affects, Notice
  <2>4. QED
    BY <2>1, <2>2, <2>3 DEF IInv, SubscriptionsFollow
<1>11. Untouched'
  <2>1. \A r \in Rooms : room[r].state = "none" => \A u \in Users : r \notin subs'[u]
    <3> SUFFICES ASSUME NEW r \in Rooms, room[r].state = "none", NEW u \in Users
                 PROVE  r \notin subs'[u]
      OBVIOUS
    <3>1. role[r][v] = 0 /\ r \notin subs[u]
      BY DEF IInv, Untouched
    <3>2. QED
      BY <1>3, <3>1
  <2>2. QED
    BY <1>1, <2>1 DEF IInv, Untouched
<1>12. QED
  BY <1>6, <1>7, <1>8, <1>9, <1>10, <1>11 DEF IInv

\* The other steps of the endpoint change one connection and nothing else.
LEMMA EndpointStep ==
    ASSUME IInv, NEW v \in Users, NEW st \in {"off", "on", "closing"},
           sock' = [sock EXCEPT ![v] = st],
           st = "on" => sock[v] = "loaded" /\ subs' = subs,
           subs' = subs \/ subs' = [subs EXCEPT ![v] = {}],
           UNCHANGED <<runtime, room, role, req, requests, channel, unsure>>
    PROVE  IInv'
<1>1. /\ sock' \in [Users -> {"off", "loaded", "on", "closing"}] /\ sock'[v] = st
      /\ \A u \in Users : u # v => sock'[u] = sock[u]
  BY DEF IInv, TypeOK
<1>2. /\ subs' \in [Users -> SUBSET Rooms]
      /\ subs'[v] \subseteq subs[v]
      /\ \A u \in Users : u # v => subs'[u] = subs[u]
  BY DEF IInv, TypeOK
<1>3. TypeOK'
  BY <1>1, <1>2 DEF IInv, TypeOK
<1>4. \A u \in Users, r \in Rooms : Sure(u, r)' <=> Sure(u, r)
  BY DEF Sure, Live
<1>5. NoticesRight' /\ EventsRight'
  BY <1>4 DEF IInv, NoticesRight, EventsRight, Affects, Right, Notice
<1>6. LoadedRight'
  <2> SUFFICES ASSUME NEW u \in Users, NEW r \in Rooms, Sure(u, r), sock'[u] = "loaded"
               PROVE  r \in subs'[u] <=> role[r][u] > 0
    BY <1>4 DEF LoadedRight
  <2>1. u # v /\ sock[u] = "loaded" /\ subs'[u] = subs[u]
    BY <1>1, <1>2
  <2>2. QED
    BY <2>1 DEF IInv, LoadedRight
<1>7. SubscriptionsFollow'
  <2> SUFFICES ASSUME NEW u \in Users, NEW r \in Rooms, sock'[u] = "on", Sure(u, r),
                      ~Pending(u, r)
               PROVE  r \in subs'[u] <=> role[r][u] > 0
    BY DEF SubscriptionsFollow, Sure, Live, Pending, Affects, Notice
  <2>1. CASE u = v
    BY <1>1, <2>1 DEF IInv, LoadedRight
  <2>2. CASE u # v
    BY <1>1, <1>2, <2>2 DEF IInv, SubscriptionsFollow, Sure
  <2>3. QED
    BY <2>1, <2>2
<1>8. Untouched'
  <2>1. \A r \in Rooms : room[r].state = "none" => \A u \in Users : r \notin subs'[u]
    BY <1>2 DEF IInv, Untouched
  <2>2. QED
    BY <2>1 DEF IInv, Untouched
<1>9. QED
  BY <1>3, <1>5, <1>6, <1>7, <1>8 DEF IInv

\* Every step of a connection keeps the invariant.
LEMMA EndpointKeeps ==
    ASSUME IInv, NEW v \in Users, Endpoint(v)
    PROVE  IInv'
<1>1. CASE GetUserRoomIDs(v)
  BY <1>1, GetUserRoomIDsKeeps
<1>2. CASE Register(v)
  BY <1>2, EndpointStep DEF Register, tables
<1>3. CASE PeerClose(v)
  BY <1>3, EndpointStep DEF PeerClose, tables
<1>4. CASE Unregister(v)
  BY <1>4, EndpointStep DEF Unregister, tables
<1>5. QED
  BY <1>1, <1>2, <1>3, <1>4 DEF Endpoint

----------------------------------------------------------------------------
\* There are no rooms, requests and connections at first.
LEMMA InitKeeps == Init => IInv
<1> SUFFICES ASSUME Init
             PROVE  IInv
  OBVIOUS
<1>1. Idle \in Requests /\ Idle.pc = "idle"
  BY DEF Idle, Request, Requests
<1>2. TypeOK
  BY <1>1, RoomMembershipAssumption DEF Init, TypeOK
<1>3. \A r \in Rooms : ~Live(r)
  BY DEF Init, Live
<1>4. Untouched
  BY <1>1 DEF Init, Untouched
<1>5. NoticesRight /\ EventsRight /\ LoadedRight /\ SubscriptionsFollow
  BY <1>3 DEF NoticesRight, EventsRight, LoadedRight, SubscriptionsFollow, Sure
<1>6. QED
  BY <1>2, <1>4, <1>5 DEF IInv

\* Nor does a step that changes nothing harm.
LEMMA StutterKeeps ==
    ASSUME IInv, UNCHANGED vars
    PROVE  IInv'
BY DEF IInv, vars, TypeOK, NoticesRight, EventsRight, LoadedRight, Untouched,
       SubscriptionsFollow, Sure, Live, Affects, Right, Notice, Pending

\* Every step keeps the invariant.
LEMMA NextKeeps == IInv /\ [Next]_vars => IInv'
<1> SUFFICES ASSUME IInv, [Next]_vars
             PROVE  IInv'
  OBVIOUS
<1>1. ASSUME NEW p \in Handlers, Step(p)
      PROVE  IInv'
  BY <1>1, GetRoomByIDKeeps, GetMemberRoleKeeps, AddMemberKeeps, RemoveMemberKeeps,
     SoftDeleteRoomKeeps, SaveRoomKeeps, updateMemberRoleKeeps, NotifyKeeps, KickKeeps,
     FailsKeeps DEF Step
<1>2. ASSUME NEW p \in Handlers, Call(p) \/ CreateRoom(p)
      PROVE  IInv'
  BY <1>2, CallKeeps, CreateRoomKeeps
<1>3. QED
  BY <1>1, <1>2, StartRoomEventListenerKeeps, LoseKeeps, EndpointKeeps, StutterKeeps DEF Next

\* The state of the tables, the requests and the subscriptions is well formed: a
\* request that is under way has its operator, target and room, and a member's role
\* is one of the four.
THEOREM TypeCorrect == Spec => []TypeOK
<1>1. IInv => TypeOK
  BY DEF IInv
<1>2. QED
  BY InitKeeps, NextKeeps, <1>1, PTL DEF Spec

\* For any users, rooms and requests, with either notifier and whatever calls fail:
\* a registered connection is subscribed to exactly the rooms of its user, except
\* for the pairs that the code has no step to put right.
THEOREM SubscriptionsKept == Spec => []SubscriptionsFollow
<1>1. IInv => SubscriptionsFollow
  BY DEF IInv
<1>2. QED
  BY InitKeeps, NextKeeps, <1>1, PTL DEF Spec
=============================================================================
