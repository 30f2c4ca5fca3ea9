----------------------------- MODULE HubProofs -----------------------------
(***************************************************************************)
(* Proofs about the connection registry, for any number of connections,    *)
(* users, rooms and controllers.                                           *)
(***************************************************************************)
EXTENDS Hub, TLAPS

----------------------------------------------------------------------------
(***************************************************************************)
(* The inductive invariant.                                                *)
(***************************************************************************)
\* The program points at which a call holds its client's lock.
Holding(p) == call[p].pc \in {"setUser", "delUser", "edit"}

\* mu names exactly the call that is between Lock and Unlock.
MutexInv ==
    \A p \in Procs, c \in Clients :
        mu[c] = p <=> Holding(p) /\ call[p].client = c

\* What the program counter says about the other fields of a call.
CallInv ==
    \A p \in Procs :
        /\ call[p].pc \notin {"idle", "disband", "kick"} => call[p].client \in Clients
        /\ call[p].pc = "kick" => call[p].op = "KickUser"
        /\ call[p].op = "Register" => /\ p \in Clients /\ call[p].client = p
                                      /\ call[p].pc \in {"lock", "setUser", "edit"}
                                      /\ life[p] # "new"
        /\ call[p].pc = "setUser" => call[p].op = "Register" /\ call[p].rem = {}
        /\ call[p].pc \in {"delUser", "closeSend"} => call[p].op = "Unregister"
        /\ call[p].op = "KickUser" => call[p].user \in Users
        /\ call[p].targets # {} => call[p].pc = "disband"

\* A client is untouched until its Register takes the lock.
FreshInv ==
    \A c \in Clients :
        ~Known(c) =>
            /\ ~active[c] /\ ~sendClosed[c] /\ users[UserOf[c]] # c
            /\ \A p \in Procs : call[p].client = c => call[p].op = "Register"

\* A client whose lock is held is active, or in its one and only Unregister.
HolderInv ==
    \A p \in Procs :
        Holding(p) =>
            IF call[p].op = "Unregister"
            THEN /\ ~active[call[p].client] /\ ~sendClosed[call[p].client]
                 /\ \A q \in Procs : call[q].pc = "closeSend" => call[q].client # call[p].client
            ELSE active[call[p].client]

\* Send is closed, or about to be, only for an inactive client.
ClosingInv ==
    /\ \A c \in Clients : sendClosed[c] => ~active[c]
    /\ \A p \in Procs : call[p].pc = "closeSend" => ~active[call[p].client]

\* An inactive client has no rooms.
InactiveInv == \A c \in Clients : ~active[c] => roomIDs[c] = {}

\* A user entry names an active client of that user, or one whose Unregister
\* is about to delete it.
UsersInv ==
    \A u \in Users :
        users[u] # None =>
            /\ UserOf[users[u]] = u
            /\ \/ active[users[u]]
               \/ \E p \in Procs : call[p].pc = "delUser" /\ call[p].client = users[u]

\* The rooms a call is about to remove its client from are not in roomIDs.
EditInv ==
    \A p \in Procs : Holding(p) => call[p].rem \cap roomIDs[call[p].client] = {}

\* A call that holds c.mu is about to add c to r (to remove c from r).
Adding(c, r) ==
    \E p \in Procs : Holding(p) /\ call[p].client = c /\ r \in call[p].add

Removing(c, r) ==
    \E p \in Procs : Holding(p) /\ call[p].client = c /\ r \in call[p].rem

\* A room in roomIDs has the client, or is about to get it, or a DisbandRoom
\* is about to take the room out of roomIDs.
SubscriptionInv ==
    \A c \in Clients, r \in Rooms :
        r \in roomIDs[c] =>
            c \in rooms[r] \/ PendingDisband(c, r) \/ Adding(c, r)

IInv ==
    /\ TypeOK /\ MutexInv /\ CallInv /\ FreshInv /\ HolderInv /\ ClosingInv
    /\ InactiveInv /\ UsersInv /\ EditInv /\ SubscriptionInv

\* Without DisbandRoom: a room has the client only if the room is in roomIDs or
\* a call is about to remove it.
MembershipInv ==
    \A c \in Clients, r \in Rooms :
        c \in rooms[r] => r \in roomIDs[c] \/ Removing(c, r)

USE HubAssumption DEF Procs

----------------------------------------------------------------------------
(***************************************************************************)
(* Pending disbands and additions survive the steps of other calls.        *)
(***************************************************************************)
\* A step of a call that has no disband snapshot keeps every pending disband.
LEMMA PendingKept ==
    ASSUME NEW p \in Procs, NEW c \in Clients, NEW r \in Rooms,
           \A q \in Procs : q # p => call'[q] = call[q],
           call[p].targets = {}, PendingDisband(c, r)
    PROVE  PendingDisband(c, r)'
<1>1. PICK q \in Procs : r \in call[q].rooms /\ c \in call[q].targets
  BY DEF PendingDisband
<1>2. call'[q] = call[q]
  BY <1>1
<1> QED
  BY <1>1, <1>2 DEF PendingDisband

\* A step of a call that does not hold c.mu keeps every pending addition to c.
LEMMA AddingKept ==
    ASSUME NEW p \in Procs, NEW c \in Clients, NEW r \in Rooms,
           \A q \in Procs : q # p => call'[q] = call[q],
           ~Holding(p) \/ call[p].client # c, Adding(c, r)
    PROVE  Adding(c, r)'
<1>1. PICK q \in Procs : Holding(q) /\ call[q].client = c /\ r \in call[q].add
  BY DEF Adding
<1>2. call'[q] = call[q]
  BY <1>1
<1> QED
  BY <1>1, <1>2 DEF Adding, Holding

\* A step of p outside every critical section, which leaves the registry and
\* the clients alone, preserves the invariant if it keeps types and freshness.
LEMMA OutsideStep ==
    ASSUME IInv, TypeOK', CallInv', FreshInv', NEW p \in Procs,
           UNCHANGED <<active, roomIDs, sendClosed, mu, users, rooms>>,
           \A q \in Procs : q # p => call'[q] = call[q],
           call[p].pc \notin {"setUser", "delUser", "edit", "closeSend"},
           call'[p].pc \notin {"setUser", "delUser", "edit", "closeSend"},
           call[p].targets = {}
    PROVE  IInv'
<1>1. MutexInv'
  BY DEF IInv, MutexInv, Holding
<1>2. HolderInv'
  BY DEF IInv, HolderInv, Holding
<1>3. ClosingInv' /\ InactiveInv'
  BY DEF IInv, ClosingInv, InactiveInv
<1>4. UsersInv'
  BY DEF IInv, UsersInv
<1>5. EditInv'
  BY DEF IInv, EditInv, Holding
<1>6. SubscriptionInv'
  <2> SUFFICES ASSUME NEW c \in Clients, NEW r \in Rooms, r \in roomIDs'[c]
               PROVE  (c \in rooms[r] \/ PendingDisband(c, r) \/ Adding(c, r))'
    BY DEF SubscriptionInv
  <2>1. c \in rooms[r] \/ PendingDisband(c, r) \/ Adding(c, r)
    BY DEF IInv, SubscriptionInv
  <2> QED
    BY <2>1, PendingKept, AddingKept DEF Holding
<1> QED
  BY <1>1, <1>2, <1>3, <1>4, <1>5, <1>6 DEF IInv

----------------------------------------------------------------------------
(***************************************************************************)
(* Steps outside the critical sections.                                    *)
(***************************************************************************)
\* A controller enters a method with a client that Register has made known.
LEMMA EnterStep ==
    ASSUME IInv, NEW p \in Controllers, NEW o \in ControllerOps, NEW c \in Clients,
           NEW u \in Users \cup {None}, NEW R \in SUBSET Rooms,
           o = "KickUser" => u \in Users, Known(c),
           Enter(p, o, c, u, R),
           UNCHANGED <<clientVars, mu, users, rooms, conn, life>>
    PROVE  IInv'
<1>0. TypeOK /\ CallInv /\ FreshInv
  BY DEF IInv
<1>1. /\ UNCHANGED <<active, roomIDs, sendClosed, mu, users, rooms, conn, life>>
      /\ call[p].pc = "idle"
      /\ call' = [call EXCEPT ![p] = Call("lock", o, c, u, R, {}, {}, {})]
  BY DEF Enter, clientVars
<1>2. /\ \A q \in Procs : q # p => call'[q] = call[q]
      /\ call'[p].pc = "lock" /\ call'[p].op = o /\ call'[p].client = c
      /\ call'[p].user = u /\ call'[p].targets = {}
  BY <1>0, <1>1 DEF Call, TypeOK
<1>3. TypeOK'
  BY <1>0, <1>1 DEF Call, Calls, CallPCs, TypeOK
<1>4. CallInv'
  BY <1>0, <1>1, <1>2 DEF CallInv, ControllerOps
<1>5. FreshInv'
  BY <1>0, <1>1, <1>2 DEF FreshInv, Known
<1>6. call[p].targets = {}
  BY <1>0, <1>1 DEF CallInv
<1> QED
  BY <1>1, <1>2, <1>3, <1>4, <1>5, <1>6, OutsideStep

\* The client found in the users map is known.
LEMMA FoundIsKnown ==
    ASSUME IInv, NEW u \in Users, users[u] # None
    PROVE  users[u] \in Clients /\ Known(users[u])
  BY DEF IInv, TypeOK, UsersInv, FreshInv

\* The calls of the controllers that begin by waiting for c.mu.
LEMMA StartStep ==
    ASSUME IInv, NEW p \in Controllers,
           \/ \E c \in Clients : StartUnregister(p, c)
           \/ \E c \in Clients, R \in SUBSET Rooms : StartUpdateRooms(p, c, R)
           \/ \E u \in Users, r \in Rooms : StartJoinRoom(p, u, r)
           \/ \E u \in Users, r \in Rooms : StartLeaveRoom(p, u, r)
    PROVE  IInv'
<1>1. ASSUME NEW c \in Clients, StartUnregister(p, c) PROVE IInv'
  BY <1>1, EnterStep DEF StartUnregister, ControllerOps
<1>2. ASSUME NEW c \in Clients, NEW R \in SUBSET Rooms, StartUpdateRooms(p, c, R) PROVE IInv'
  BY <1>2, EnterStep DEF StartUpdateRooms, ControllerOps
<1>3. ASSUME NEW u \in Users, NEW r \in Rooms, StartJoinRoom(p, u, r) PROVE IInv'
  BY <1>3, EnterStep, FoundIsKnown DEF StartJoinRoom, ControllerOps, clientByUser
<1>4. ASSUME NEW u \in Users, NEW r \in Rooms, StartLeaveRoom(p, u, r) PROVE IInv'
  BY <1>4, EnterStep, FoundIsKnown DEF StartLeaveRoom, ControllerOps, clientByUser
<1> QED
  BY <1>1, <1>2, <1>3, <1>4

\* An idle call has nothing left to do and is not a Register.
LEMMA IdleCall ==
    ASSUME IInv, NEW p \in Procs, call[p].pc = "idle"
    PROVE  call[p].targets = {} /\ call[p].op # "Register"
  BY DEF IInv, CallInv

\* p's call is over, or goes on to Kick or to closing the connection it found.
LEMMA SettleStep ==
    ASSUME IInv, NEW p \in Procs, NEW pc \in {"idle", "kick", "kickClose"},
           NEW op \in {"none", "KickUser", "CloseConnection"},
           NEW c \in Clients \cup {None}, NEW u \in Users \cup {None},
           NEW R \in SUBSET Rooms,
           op = "KickUser" => u \in Users,
           pc = "kick" => op = "KickUser",
           pc = "kickClose" => c \in Clients,
           c # None => Known(c),
           call' = [call EXCEPT ![p] = Call(pc, op, c, u, R, {}, {}, {})],
           UNCHANGED <<active, roomIDs, sendClosed, mu, users, rooms, life>>,
           conn' \in [Clients -> {"open", "closed"}],
           call[p].pc \in {"idle", "lock", "disband", "kick", "kickClose"},
           call[p].targets = {}, call[p].op # "Register"
    PROVE  IInv'
<1>0. TypeOK /\ CallInv /\ FreshInv
  BY DEF IInv
<1>1. /\ \A q \in Procs : q # p => call'[q] = call[q]
      /\ call'[p].pc = pc /\ call'[p].op = op /\ call'[p].client = c
      /\ call'[p].user = u /\ call'[p].targets = {}
  BY <1>0 DEF Call, TypeOK
<1>2. TypeOK'
  <2>1. call' \in [Procs -> Calls]
    BY <1>0 DEF Call, Calls, CallPCs, ControllerOps, TypeOK
  <2> QED
    BY <1>0, <2>1 DEF TypeOK
<1>3. CallInv'
  BY <1>0, <1>1 DEF CallInv
<1>4. FreshInv'
  BY <1>0, <1>1 DEF FreshInv, Known
<1> QED
  BY <1>1, <1>2, <1>3, <1>4, OutsideStep

\* KickUser begins as LeaveRoom does, or goes straight to Kick.
LEMMA StartKickUserStep ==
    ASSUME IInv, NEW p \in Controllers, NEW u \in Users, NEW r \in Rooms,
           StartKickUser(p, u, r)
    PROVE  IInv'
<1>1. CASE users[u] # None
  <2>1. Enter(p, "KickUser", users[u], u, {r})
    BY <1>1 DEF StartKickUser, Enter, clientByUser
  <2> QED
    BY <1>1, <2>1, EnterStep, FoundIsKnown DEF StartKickUser, ControllerOps
<1>2. CASE users[u] = None
  <2>1. /\ UNCHANGED <<active, roomIDs, sendClosed, mu, users, rooms, conn, life>>
        /\ call[p].pc = "idle"
        /\ call' = [call EXCEPT ![p] = Call("kick", "KickUser", None, u, {r}, {}, {}, {})]
    BY <1>2 DEF StartKickUser, clientVars, clientByUser
  <2>2. call[p].targets = {} /\ call[p].op # "Register"
    BY <2>1, IdleCall
  <2>3. conn' \in [Clients -> {"open", "closed"}]
    BY <2>1 DEF IInv, TypeOK
  <2>4. {r} \in SUBSET Rooms /\ "kick" \in {"idle", "kick", "kickClose"}
        /\ "KickUser" \in {"none", "KickUser", "CloseConnection"}
    OBVIOUS
  <2>5. call[p].pc \in {"idle", "lock", "disband", "kick", "kickClose"}
    BY <2>1
  <2> QED
    BY <2>1, <2>2, <2>3, <2>4, <2>5, SettleStep
<1> QED
  BY <1>1, <1>2

\* CloseConnection remembers the connection it has found.
LEMMA CloseConnectionStep ==
    ASSUME IInv, NEW p \in Controllers, NEW c \in Clients, CloseConnection(p, c)
    PROVE  IInv'
<1>1. /\ UNCHANGED <<active, roomIDs, sendClosed, mu, users, rooms, conn, life>>
      /\ call[p].pc = "idle" /\ users[UserOf[c]] = c
      /\ call' = [call EXCEPT ![p] = Call("kickClose", "CloseConnection", c, None, {}, {}, {}, {})]
  BY DEF CloseConnection, clientVars
<1>2. Known(c)
  BY <1>1 DEF IInv, FreshInv
<1> QED
  BY <1>1, <1>2, IdleCall, SettleStep DEF IInv, TypeOK

\* WsEndpoint begins its Register.
LEMMA EndpointRegisterStep ==
    ASSUME IInv, NEW c \in Clients, NEW R \in SUBSET Rooms, EndpointRegister(c, R)
    PROVE  IInv'
<1>0. TypeOK /\ CallInv /\ FreshInv
  BY DEF IInv
<1>1. /\ UNCHANGED <<active, roomIDs, sendClosed, mu, users, rooms, conn>>
      /\ call[c].pc = "idle" /\ life[c] = "new"
      /\ life' = [life EXCEPT ![c] = "serving"]
      /\ call' = [call EXCEPT ![c] = Call("lock", "Register", c, None, R, {}, {}, {})]
  BY DEF EndpointRegister, Enter, clientVars
<1>2. /\ \A q \in Procs : q # c => call'[q] = call[q]
      /\ call'[c].pc = "lock" /\ call'[c].op = "Register"
      /\ call'[c].client = c /\ call'[c].targets = {}
  BY <1>0, <1>1 DEF Call, TypeOK
<1>3. TypeOK'
  BY <1>0, <1>1 DEF Call, Calls, CallPCs, ControllerOps, TypeOK
<1>4. CallInv'
  BY <1>0, <1>1, <1>2 DEF CallInv, TypeOK
<1>5. FreshInv'
  BY <1>0, <1>1, <1>2 DEF FreshInv, Known, TypeOK
<1>6. call[c].targets = {}
  BY <1>0, <1>1 DEF CallInv
<1> QED
  BY <1>1, <1>2, <1>3, <1>4, <1>5, <1>6, OutsideStep

\* ReadPump's or WsEndpoint's deferred Unregister begins.
LEMMA EndpointUnregisterStep ==
    ASSUME IInv, NEW c \in Clients, EndpointUnregister(c)
    PROVE  IInv'
<1>0. TypeOK /\ CallInv /\ FreshInv
  BY DEF IInv
<1>1. /\ UNCHANGED <<active, roomIDs, sendClosed, mu, users, rooms, conn>>
      /\ call[c].pc = "idle" /\ life[c] # "new"
      /\ life' = [life EXCEPT ![c] = IF @ = "serving" THEN "closing" ELSE "gone"]
      /\ call' = [call EXCEPT ![c] = Call("lock", "Unregister", c, None, {}, {}, {}, {})]
  BY DEF EndpointUnregister, Enter, clientVars
<1>2. /\ \A q \in Procs : q # c => call'[q] = call[q]
      /\ call'[c].pc = "lock" /\ call'[c].op = "Unregister"
      /\ call'[c].client = c /\ call'[c].targets = {}
  BY <1>0, <1>1 DEF Call, TypeOK
<1>3. TypeOK'
  <2>1. call' \in [Procs -> Calls]
    BY <1>0, <1>1 DEF Call, Calls, CallPCs, ControllerOps, TypeOK
  <2> QED
    BY <1>0, <1>1, <2>1 DEF TypeOK
<1>4. CallInv'
  BY <1>0, <1>1, <1>2 DEF CallInv, TypeOK
<1>5. FreshInv'
  <2>1. life'[c] # "new" /\ \A d \in Clients : d # c => life'[d] = life[d]
    BY <1>0, <1>1 DEF TypeOK
  <2> QED
    BY <1>0, <1>1, <1>2, <2>1 DEF FreshInv, Known
<1>6. call[c].targets = {}
  BY <1>0, <1>1 DEF CallInv
<1> QED
  BY <1>1, <1>2, <1>3, <1>4, <1>5, <1>6, OutsideStep

\* A connection is closed: no part of the invariant mentions conn.
LEMMA ConnectionStep ==
    ASSUME IInv, NEW c \in Clients, PeerClose(c) \/ WritePumpExit(c)
    PROVE  IInv'
<1>0. TypeOK /\ CallInv /\ FreshInv
  BY DEF IInv
<1>1. /\ UNCHANGED <<active, roomIDs, sendClosed, mu, users, rooms, life, call>>
      /\ conn' = [conn EXCEPT ![c] = "closed"]
  BY DEF PeerClose, WritePumpExit, clientVars
<1>2. TypeOK'
  BY <1>0, <1>1 DEF TypeOK
<1> QED
  BY <1>1, <1>2 DEF IInv, MutexInv, Holding, CallInv, FreshInv, Known, HolderInv,
     ClosingInv, InactiveInv, UsersInv, EditInv, SubscriptionInv, PendingDisband, Adding

\* The steps at which a call that holds no lock returns or moves on.
LEMMA ReturnStep ==
    ASSUME IInv, NEW p \in Procs,
           EarlyReturn(p) \/ DisbandReturn(p) \/ Kick(p) \/ KickClose(p)
    PROVE  IInv'
<1>0. TypeOK /\ CallInv
  BY DEF IInv
<1>1. /\ UNCHANGED <<active, roomIDs, sendClosed, mu, users, rooms, life>>
      /\ conn' \in [Clients -> {"open", "closed"}]
      /\ call[p].pc \in {"lock", "disband", "kick", "kickClose"}
  BY <1>0 DEF EarlyReturn, Locking, DisbandReturn, Kick, KickClose, clientVars, TypeOK
<1>2. call[p].targets = {} /\ call[p].op # "Register"
  BY <1>0 DEF EarlyReturn, Locking, ControllerOps, DisbandReturn, Kick, KickClose, CallInv
<1>3. CASE call' = [call EXCEPT ![p] = Idle]
  BY <1>1, <1>2, <1>3, SettleStep DEF Idle
<1>4. CASE EarlyReturn(p)
  <2>1. CASE call[p].op = "KickUser"
    <3>1. call' = [call EXCEPT ![p] = Call("kick", "KickUser", None, call[p].user, {}, {}, {}, {})]
      BY <1>4, <2>1 DEF EarlyReturn, AfterCall
    <3>2. call[p].user \in Users
      BY <1>0, <2>1 DEF CallInv
    <3> QED
      BY <1>1, <1>2, <3>1, <3>2, SettleStep
  <2> QED
    BY <1>3, <1>4, <2>1 DEF EarlyReturn, AfterCall
<1>5. CASE DisbandReturn(p) \/ KickClose(p)
  BY <1>3, <1>5 DEF DisbandReturn, KickClose
<1>6. CASE Kick(p)
  <2>1. call[p].op = "KickUser" /\ call[p].user \in Users
    BY <1>0, <1>6 DEF Kick, CallInv
  <2>2. CASE users[call[p].user] # None
    <3>1. call' = [call EXCEPT ![p] = Call("kickClose", "KickUser", users[call[p].user],
                                           call[p].user, {}, {}, {}, {})]
      BY <1>6, <2>1, <2>2 DEF Kick, clientByUser
    <3>2. users[call[p].user] \in Clients /\ Known(users[call[p].user])
      BY <2>1, <2>2, FoundIsKnown
    <3> QED
      BY <1>1, <1>2, <2>1, <3>1, <3>2, SettleStep
  <2> QED
    BY <1>3, <1>6, <2>2 DEF Kick, clientByUser
<1> QED
  BY <1>4, <1>5, <1>6

----------------------------------------------------------------------------
(***************************************************************************)
(* Steps that take c.mu, work under it, or change a client.                *)
(***************************************************************************)
\* DisbandRoom takes its snapshot: every subscription it breaks becomes pending.
LEMMA DisbandRoomStep ==
    ASSUME IInv, NEW p \in Controllers, NEW r \in Rooms, DisbandRoom(p, r)
    PROVE  IInv'
<1>0. /\ TypeOK /\ MutexInv /\ CallInv /\ FreshInv /\ HolderInv /\ ClosingInv
      /\ InactiveInv /\ UsersInv /\ EditInv /\ SubscriptionInv
  BY DEF IInv
<1>1. /\ UNCHANGED <<active, roomIDs, sendClosed, mu, users, conn, life>>
      /\ call[p].pc = "idle"
      /\ rooms' = [rooms EXCEPT ![r] = {}]
  BY DEF DisbandRoom, Call, clientVars
<1>2. call' = [call EXCEPT ![p] = Call("disband", "DisbandRoom", None, None, {r},
                                       {}, {}, rooms[r])]
  BY DEF DisbandRoom, Call
<1>3. /\ \A q \in Procs : q # p => call'[q] = call[q]
      /\ call'[p].pc = "disband"
      /\ call'[p].op = "DisbandRoom"
      /\ call'[p].client = None
      /\ call'[p].rooms = {r}
      /\ call'[p].rem = {}
      /\ call'[p].add = {}
      /\ call'[p].targets = rooms[r]
  BY <1>0, <1>2 DEF Call, TypeOK
<1>4. call' \in [Procs -> Calls]
  BY <1>0, <1>1, <1>2 DEF Call, Calls, CallPCs, ControllerOps, TypeOK, CallInv
<1>5. TypeOK'
  BY <1>0, <1>1, <1>4 DEF TypeOK, CallInv, Calls
<1>6. CallInv'
  BY <1>0, <1>1, <1>3 DEF CallInv, TypeOK
<1>7. MutexInv'
  BY <1>0, <1>1, <1>3 DEF MutexInv, Holding
<1>8. FreshInv'
  BY <1>0, <1>1, <1>3 DEF FreshInv, Known
<1>9. HolderInv'
  BY <1>0, <1>1, <1>3 DEF HolderInv, Holding
<1>10. ClosingInv'
  BY <1>0, <1>1, <1>3 DEF ClosingInv
<1>11. InactiveInv'
  BY <1>0, <1>1, <1>3 DEF InactiveInv
<1>12. UsersInv'
  BY <1>0, <1>1, <1>3 DEF UsersInv
<1>13. EditInv'
  BY <1>0, <1>1, <1>3 DEF EditInv, Holding
<1>14. SubscriptionInv'
  <2> SUFFICES ASSUME NEW d \in Clients, NEW s \in Rooms, s \in roomIDs'[d]
               PROVE  (d \in rooms[s] \/ PendingDisband(d, s) \/ Adding(d, s))'
    BY DEF SubscriptionInv
  <2>1. d \in rooms[s] \/ PendingDisband(d, s) \/ Adding(d, s)
    BY <1>0, <1>1 DEF SubscriptionInv
  <2>2. call[p].targets = {} /\ ~Holding(p)
    BY <1>0, <1>1 DEF CallInv, Holding
  <2>3. d \in rooms[s] => d \in rooms'[s] \/ PendingDisband(d, s)'
    BY <1>0, <1>1, <1>3 DEF PendingDisband, TypeOK
  <2> QED
    BY <1>3, <2>1, <2>2, <2>3, PendingKept, AddingKept
<1> QED
  BY <1>5, <1>6, <1>7, <1>8, <1>9, <1>10, <1>11, <1>12, <1>13, <1>14 DEF IInv

\* Register takes the lock; the client was fresh.
LEMMA RegisterStep ==
    ASSUME IInv, NEW p \in Procs, Register(p)
    PROVE  IInv'
<1>0. /\ TypeOK /\ MutexInv /\ CallInv /\ FreshInv /\ HolderInv /\ ClosingInv
      /\ InactiveInv /\ UsersInv /\ EditInv /\ SubscriptionInv
  BY DEF IInv
<1>1. /\ UNCHANGED <<sendClosed, users, rooms, conn, life>>
      /\ call[p].pc = "lock"
      /\ call[p].op = "Register"
      /\ mu[call[p].client] = None
      /\ mu' = [mu EXCEPT ![call[p].client] = p]
      /\ active' = [active EXCEPT ![call[p].client] = TRUE]
      /\ roomIDs' = [roomIDs EXCEPT ![call[p].client] = call[p].rooms]
  BY DEF Register, Locking, Locked, GoOn, Call, clientVars
<1>2. call' = [call EXCEPT ![p] = Call("setUser", call[p].op, call[p].client, call[p].user, {},
                                       {}, call[p].rooms, {})]
  BY DEF Register, Locking, Locked, GoOn, Call
<1>3. /\ \A q \in Procs : q # p => call'[q] = call[q]
      /\ call'[p].pc = "setUser"
      /\ call'[p].op = call[p].op
      /\ call'[p].client = call[p].client
      /\ call'[p].rooms = {}
      /\ call'[p].rem = {}
      /\ call'[p].add = call[p].rooms
      /\ call'[p].targets = {}
  BY <1>0, <1>2 DEF Call, TypeOK
<1>4. call' \in [Procs -> Calls]
  BY <1>0, <1>1, <1>2 DEF Call, Calls, CallPCs, ControllerOps, TypeOK, CallInv
<1>5. TypeOK'
  <2>1. call[p].client \in Clients /\ call[p].rooms \in SUBSET Rooms
    BY <1>0, <1>1 DEF TypeOK, CallInv, Calls
  <2>2. roomIDs' \in [Clients -> SUBSET Rooms]
    BY <1>0, <1>1, <2>1 DEF TypeOK
  <2> QED
    BY <1>0, <1>1, <1>4, <2>2 DEF TypeOK
<1>6. CallInv'
  BY <1>0, <1>1, <1>3 DEF CallInv, TypeOK
<1>7. MutexInv'
  BY <1>0, <1>1, <1>3 DEF MutexInv, Holding, CallInv, TypeOK
<1>8. FreshInv'
  BY <1>0, <1>1, <1>3 DEF FreshInv, Known, CallInv, TypeOK
<1>9. HolderInv'
  <2> SUFFICES ASSUME NEW q \in Procs, Holding(q)'
               PROVE  IF call'[q].op = "Unregister"
                      THEN /\ ~active'[call'[q].client] /\ ~sendClosed'[call'[q].client]
                           /\ \A t \in Procs : call'[t].pc = "closeSend"
                                                => call'[t].client # call'[q].client
                      ELSE active'[call'[q].client]
    BY DEF HolderInv
  <2>1. call[p].client \in Clients
    BY <1>0, <1>1 DEF CallInv
  <2>2. CASE q = p
    BY <1>0, <1>1, <1>3, <2>1, <2>2 DEF ClosingInv, CallInv, TypeOK
  <2>3. CASE q # p
    <3>1. call'[q] = call[q] /\ Holding(q)
      BY <1>3, <2>3 DEF Holding
    <3>2. call[q].client \in Clients
      BY <1>0, <3>1 DEF CallInv, Holding
    <3>3. call[q].client # call[p].client
      BY <1>0, <1>1, <3>1, <3>2 DEF MutexInv
    <3> QED
      BY <1>0, <1>1, <1>3, <2>1, <3>1, <3>2, <3>3 DEF HolderInv, TypeOK
  <2> QED
    BY <2>2, <2>3
<1>10. ClosingInv'
  BY <1>0, <1>1, <1>3 DEF ClosingInv, FreshInv, Known, CallInv, TypeOK
<1>11. InactiveInv'
  BY <1>0, <1>1, <1>3 DEF InactiveInv, CallInv, TypeOK
<1>12. UsersInv'
  BY <1>0, <1>1, <1>3 DEF UsersInv, CallInv, TypeOK
<1>13. EditInv'
  BY <1>0, <1>1, <1>3 DEF EditInv, Holding, MutexInv, CallInv, TypeOK
<1>14. SubscriptionInv'
  <2> SUFFICES ASSUME NEW d \in Clients, NEW s \in Rooms, s \in roomIDs'[d]
               PROVE  (d \in rooms[s] \/ PendingDisband(d, s) \/ Adding(d, s))'
    BY DEF SubscriptionInv
  <2>1. call[p].targets = {} /\ ~Holding(p) /\ call[p].client \in Clients
    BY <1>0, <1>1 DEF CallInv, Holding
  <2>2. CASE d # call[p].client \/ s \in roomIDs[call[p].client]
    <3>1. s \in roomIDs[d]
      BY <1>0, <1>1, <2>1, <2>2 DEF TypeOK
    <3>2. d \in rooms[s] \/ PendingDisband(d, s) \/ Adding(d, s)
      BY <1>0, <3>1 DEF SubscriptionInv
    <3> QED
      BY <1>1, <1>3, <2>1, <3>2, PendingKept, AddingKept
  <2>3. CASE d = call[p].client /\ s \notin roomIDs[call[p].client]
    <3>1. s \in call'[p].add
      BY <1>0, <1>1, <1>3, <2>1, <2>3 DEF TypeOK
    <3> QED
      BY <1>3, <2>3, <3>1 DEF Adding, Holding
  <2> QED
    BY <2>2, <2>3
<1> QED
  BY <1>5, <1>6, <1>7, <1>8, <1>9, <1>10, <1>11, <1>12, <1>13, <1>14 DEF IInv

\* Unregister takes the lock of an active client.
LEMMA UnregisterStep ==
    ASSUME IInv, NEW p \in Procs, Unregister(p)
    PROVE  IInv'
<1>0. /\ TypeOK /\ MutexInv /\ CallInv /\ FreshInv /\ HolderInv /\ ClosingInv
      /\ InactiveInv /\ UsersInv /\ EditInv /\ SubscriptionInv
  BY DEF IInv
<1>1. /\ UNCHANGED <<sendClosed, users, rooms, conn, life>>
      /\ call[p].pc = "lock"
      /\ call[p].op = "Unregister"
      /\ mu[call[p].client] = None
      /\ mu' = [mu EXCEPT ![call[p].client] = p]
      /\ active' = [active EXCEPT ![call[p].client] = FALSE]
      /\ roomIDs' = [roomIDs EXCEPT ![call[p].client] = {}]
      /\ active[call[p].client]
  BY DEF Unregister, Locking, Locked, GoOn, Call, clientVars
<1>2. call' = [call EXCEPT ![p] = Call("delUser", call[p].op, call[p].client, call[p].user, {},
                                       roomIDs[call[p].client], {}, {})]
  BY DEF Unregister, Locking, Locked, GoOn, Call
<1>3. /\ \A q \in Procs : q # p => call'[q] = call[q]
      /\ call'[p].pc = "delUser"
      /\ call'[p].op = call[p].op
      /\ call'[p].client = call[p].client
      /\ call'[p].rooms = {}
      /\ call'[p].rem = roomIDs[call[p].client]
      /\ call'[p].add = {}
      /\ call'[p].targets = {}
  BY <1>0, <1>2 DEF Call, TypeOK
<1>4. call' \in [Procs -> Calls]
  BY <1>0, <1>1, <1>2 DEF Call, Calls, CallPCs, ControllerOps, TypeOK, CallInv
<1>5. TypeOK'
  <2>1. call[p].client \in Clients /\ call[p].rooms \in SUBSET Rooms
    BY <1>0, <1>1 DEF TypeOK, CallInv, Calls
  <2>2. roomIDs' \in [Clients -> SUBSET Rooms]
    BY <1>0, <1>1, <2>1 DEF TypeOK
  <2> QED
    BY <1>0, <1>1, <1>4, <2>2 DEF TypeOK
<1>6. CallInv'
  BY <1>0, <1>1, <1>3 DEF CallInv, TypeOK
<1>7. MutexInv'
  BY <1>0, <1>1, <1>3 DEF MutexInv, Holding, CallInv, TypeOK
<1>8. FreshInv'
  BY <1>0, <1>1, <1>3 DEF FreshInv, Known, CallInv, TypeOK
<1>9. HolderInv'
  <2> SUFFICES ASSUME NEW q \in Procs, Holding(q)'
               PROVE  IF call'[q].op = "Unregister"
                      THEN /\ ~active'[call'[q].client] /\ ~sendClosed'[call'[q].client]
                           /\ \A t \in Procs : call'[t].pc = "closeSend"
                                                => call'[t].client # call'[q].client
                      ELSE active'[call'[q].client]
    BY DEF HolderInv
  <2>1. call[p].client \in Clients
    BY <1>0, <1>1 DEF CallInv
  <2>2. CASE q = p
    BY <1>0, <1>1, <1>3, <2>1, <2>2 DEF ClosingInv, CallInv, TypeOK
  <2>3. CASE q # p
    <3>1. call'[q] = call[q] /\ Holding(q)
      BY <1>3, <2>3 DEF Holding
    <3>2. call[q].client \in Clients
      BY <1>0, <3>1 DEF CallInv, Holding
    <3>3. call[q].client # call[p].client
      BY <1>0, <1>1, <3>1, <3>2 DEF MutexInv
    <3> QED
      BY <1>0, <1>1, <1>3, <2>1, <3>1, <3>2, <3>3 DEF HolderInv, TypeOK
  <2> QED
    BY <2>2, <2>3
<1>10. ClosingInv'
  BY <1>0, <1>1, <1>3 DEF ClosingInv, CallInv, TypeOK
<1>11. InactiveInv'
  BY <1>0, <1>1, <1>3 DEF InactiveInv, CallInv, TypeOK
<1>12. UsersInv'
  BY <1>0, <1>1, <1>3 DEF UsersInv, CallInv, TypeOK
<1>13. EditInv'
  BY <1>0, <1>1, <1>3 DEF EditInv, Holding, MutexInv, CallInv, TypeOK
<1>14. SubscriptionInv'
  <2> SUFFICES ASSUME NEW d \in Clients, NEW s \in Rooms, s \in roomIDs'[d]
               PROVE  (d \in rooms[s] \/ PendingDisband(d, s) \/ Adding(d, s))'
    BY DEF SubscriptionInv
  <2>1. call[p].targets = {} /\ ~Holding(p) /\ call[p].client \in Clients
    BY <1>0, <1>1 DEF CallInv, Holding
  <2>2. CASE d # call[p].client \/ s \in roomIDs[call[p].client]
    <3>1. s \in roomIDs[d]
      BY <1>0, <1>1, <2>1, <2>2 DEF TypeOK
    <3>2. d \in rooms[s] \/ PendingDisband(d, s) \/ Adding(d, s)
      BY <1>0, <3>1 DEF SubscriptionInv
    <3> QED
      BY <1>1, <1>3, <2>1, <3>2, PendingKept, AddingKept
  <2>3. CASE d = call[p].client /\ s \notin roomIDs[call[p].client]
    <3>1. s \in call'[p].add
      BY <1>0, <1>1, <1>3, <2>1, <2>3 DEF TypeOK
    <3> QED
      BY <1>3, <2>3, <3>1 DEF Adding, Holding
  <2> QED
    BY <2>2, <2>3
<1> QED
  BY <1>5, <1>6, <1>7, <1>8, <1>9, <1>10, <1>11, <1>12, <1>13, <1>14 DEF IInv

\* UpdateRooms takes the lock.
LEMMA UpdateRoomsStep ==
    ASSUME IInv, NEW p \in Procs, UpdateRooms(p)
    PROVE  IInv'
<1>0. /\ TypeOK /\ MutexInv /\ CallInv /\ FreshInv /\ HolderInv /\ ClosingInv
      /\ InactiveInv /\ UsersInv /\ EditInv /\ SubscriptionInv
  BY DEF IInv
<1>1. /\ UNCHANGED <<sendClosed, users, rooms, conn, life>>
      /\ call[p].pc = "lock"
      /\ call[p].op = "UpdateRooms"
      /\ mu[call[p].client] = None
      /\ mu' = [mu EXCEPT ![call[p].client] = p]
      /\ active' = [active EXCEPT ![call[p].client] = TRUE]
      /\ roomIDs' = [roomIDs EXCEPT ![call[p].client] = call[p].rooms]
      /\ active[call[p].client]
  BY DEF UpdateRooms, Locking, Locked, GoOn, Call, clientVars
<1>2. call' = [call EXCEPT ![p] = Call("edit", call[p].op, call[p].client, call[p].user, {},
                                       roomIDs[call[p].client] \ call[p].rooms, call[p].rooms \ roomIDs[call[p].client], {})]
  BY DEF UpdateRooms, Locking, Locked, GoOn, Call
<1>3. /\ \A q \in Procs : q # p => call'[q] = call[q]
      /\ call'[p].pc = "edit"
      /\ call'[p].op = call[p].op
      /\ call'[p].client = call[p].client
      /\ call'[p].user = call[p].user
      /\ call'[p].rooms = {}
      /\ call'[p].rem = roomIDs[call[p].client] \ call[p].rooms
      /\ call'[p].add = call[p].rooms \ roomIDs[call[p].client]
      /\ call'[p].targets = {}
  BY <1>0, <1>2 DEF Call, TypeOK
<1>4. call' \in [Procs -> Calls]
  <2>1. /\ call[p].client \in Clients /\ call[p].rooms \in SUBSET Rooms
        /\ call[p].user \in Users \cup {None} /\ roomIDs[call[p].client] \in SUBSET Rooms
    BY <1>0, <1>1 DEF TypeOK, CallInv, Calls
  <2> QED
    BY <1>0, <1>1, <1>2, <2>1 DEF Call, Calls, CallPCs, ControllerOps, TypeOK
<1>5. TypeOK'
  <2>1. call[p].client \in Clients /\ call[p].rooms \in SUBSET Rooms
    BY <1>0, <1>1 DEF TypeOK, CallInv, Calls
  <2>2. roomIDs' \in [Clients -> SUBSET Rooms]
    BY <1>0, <1>1, <2>1 DEF TypeOK
  <2> QED
    BY <1>0, <1>1, <1>4, <2>2 DEF TypeOK
<1>6. CallInv'
  BY <1>0, <1>1, <1>3 DEF CallInv, TypeOK
<1>7. MutexInv'
  BY <1>0, <1>1, <1>3 DEF MutexInv, Holding, CallInv, TypeOK
<1>8. FreshInv'
  BY <1>0, <1>1, <1>3 DEF FreshInv, Known, CallInv, TypeOK
<1>9. HolderInv'
  <2> SUFFICES ASSUME NEW q \in Procs, Holding(q)'
               PROVE  IF call'[q].op = "Unregister"
                      THEN /\ ~active'[call'[q].client] /\ ~sendClosed'[call'[q].client]
                           /\ \A t \in Procs : call'[t].pc = "closeSend"
                                                => call'[t].client # call'[q].client
                      ELSE active'[call'[q].client]
    BY DEF HolderInv
  <2>1. call[p].client \in Clients
    BY <1>0, <1>1 DEF CallInv
  <2>2. CASE q = p
    BY <1>0, <1>1, <1>3, <2>1, <2>2 DEF ClosingInv, CallInv, TypeOK
  <2>3. CASE q # p
    <3>1. call'[q] = call[q] /\ Holding(q)
      BY <1>3, <2>3 DEF Holding
    <3>2. call[q].client \in Clients
      BY <1>0, <3>1 DEF CallInv, Holding
    <3>3. call[q].client # call[p].client
      BY <1>0, <1>1, <3>1, <3>2 DEF MutexInv
    <3> QED
      BY <1>0, <1>1, <1>3, <2>1, <3>1, <3>2, <3>3 DEF HolderInv, TypeOK
  <2> QED
    BY <2>2, <2>3
<1>10. ClosingInv'
  BY <1>0, <1>1, <1>3 DEF ClosingInv, CallInv, TypeOK
<1>11. InactiveInv'
  BY <1>0, <1>1, <1>3 DEF InactiveInv, CallInv, TypeOK
<1>12. UsersInv'
  BY <1>0, <1>1, <1>3 DEF UsersInv, CallInv, TypeOK
<1>13. EditInv'
  <2> SUFFICES ASSUME NEW q \in Procs, Holding(q)'
               PROVE  call'[q].rem \cap roomIDs'[call'[q].client] = {}
    BY DEF EditInv
  <2>1. call[p].client \in Clients
    BY <1>0, <1>1 DEF CallInv
  <2>2. CASE q = p
    BY <1>0, <1>1, <1>3, <2>1, <2>2 DEF TypeOK
  <2>3. CASE q # p
    <3>1. call'[q] = call[q] /\ Holding(q)
      BY <1>3, <2>3 DEF Holding
    <3>2. call[q].client \in Clients
      BY <1>0, <3>1 DEF CallInv, Holding
    <3>3. call[q].client # call[p].client
      BY <1>0, <1>1, <3>1, <3>2 DEF MutexInv
    <3> QED
      BY <1>0, <1>1, <2>1, <3>1, <3>2, <3>3 DEF EditInv, TypeOK
  <2> QED
    BY <2>2, <2>3
<1>14. SubscriptionInv'
  <2> SUFFICES ASSUME NEW d \in Clients, NEW s \in Rooms, s \in roomIDs'[d]
               PROVE  (d \in rooms[s] \/ PendingDisband(d, s) \/ Adding(d, s))'
    BY DEF SubscriptionInv
  <2>1. call[p].targets = {} /\ ~Holding(p) /\ call[p].client \in Clients
    BY <1>0, <1>1 DEF CallInv, Holding
  <2>2. CASE d # call[p].client \/ s \in roomIDs[call[p].client]
    <3>1. s \in roomIDs[d]
      BY <1>0, <1>1, <2>1, <2>2 DEF TypeOK
    <3>2. d \in rooms[s] \/ PendingDisband(d, s) \/ Adding(d, s)
      BY <1>0, <3>1 DEF SubscriptionInv
    <3> QED
      BY <1>1, <1>3, <2>1, <3>2, PendingKept, AddingKept
  <2>3. CASE d = call[p].client /\ s \notin roomIDs[call[p].client]
    <3>1. s \in call'[p].add
      BY <1>0, <1>1, <1>3, <2>1, <2>3 DEF TypeOK
    <3> QED
      BY <1>3, <2>3, <3>1 DEF Adding, Holding
  <2> QED
    BY <2>2, <2>3
<1> QED
  BY <1>5, <1>6, <1>7, <1>8, <1>9, <1>10, <1>11, <1>12, <1>13, <1>14 DEF IInv

\* JoinRoom takes the lock.
LEMMA JoinRoomStep ==
    ASSUME IInv, NEW p \in Procs, JoinRoom(p)
    PROVE  IInv'
<1>0. /\ TypeOK /\ MutexInv /\ CallInv /\ FreshInv /\ HolderInv /\ ClosingInv
      /\ InactiveInv /\ UsersInv /\ EditInv /\ SubscriptionInv
  BY DEF IInv
<1>1. /\ UNCHANGED <<sendClosed, users, rooms, conn, life>>
      /\ call[p].pc = "lock"
      /\ call[p].op = "JoinRoom"
      /\ mu[call[p].client] = None
      /\ mu' = [mu EXCEPT ![call[p].client] = p]
      /\ active' = [active EXCEPT ![call[p].client] = TRUE]
      /\ roomIDs' = [roomIDs EXCEPT ![call[p].client] = roomIDs[call[p].client] \cup call[p].rooms]
      /\ active[call[p].client]
  BY DEF JoinRoom, Locking, Locked, GoOn, Call, clientVars
<1>2. call' = [call EXCEPT ![p] = Call("edit", call[p].op, call[p].client, call[p].user, {},
                                       {}, call[p].rooms, {})]
  BY DEF JoinRoom, Locking, Locked, GoOn, Call
<1>3. /\ \A q \in Procs : q # p => call'[q] = call[q]
      /\ call'[p].pc = "edit"
      /\ call'[p].op = call[p].op
      /\ call'[p].client = call[p].client
      /\ call'[p].user = call[p].user
      /\ call'[p].rooms = {}
      /\ call'[p].rem = {}
      /\ call'[p].add = call[p].rooms
      /\ call'[p].targets = {}
  BY <1>0, <1>2 DEF Call, TypeOK
<1>4. call' \in [Procs -> Calls]
  BY <1>0, <1>1, <1>2 DEF Call, Calls, CallPCs, ControllerOps, TypeOK, CallInv
<1>5. TypeOK'
  <2>1. call[p].client \in Clients /\ call[p].rooms \in SUBSET Rooms
    BY <1>0, <1>1 DEF TypeOK, CallInv, Calls
  <2>2. roomIDs' \in [Clients -> SUBSET Rooms]
    BY <1>0, <1>1, <2>1 DEF TypeOK
  <2> QED
    BY <1>0, <1>1, <1>4, <2>2 DEF TypeOK
<1>6. CallInv'
  BY <1>0, <1>1, <1>3 DEF CallInv, TypeOK
<1>7. MutexInv'
  BY <1>0, <1>1, <1>3 DEF MutexInv, Holding, CallInv, TypeOK
<1>8. FreshInv'
  BY <1>0, <1>1, <1>3 DEF FreshInv, Known, CallInv, TypeOK
<1>9. HolderInv'
  <2> SUFFICES ASSUME NEW q \in Procs, Holding(q)'
               PROVE  IF call'[q].op = "Unregister"
                      THEN /\ ~active'[call'[q].client] /\ ~sendClosed'[call'[q].client]
                           /\ \A t \in Procs : call'[t].pc = "closeSend"
                                                => call'[t].client # call'[q].client
                      ELSE active'[call'[q].client]
    BY DEF HolderInv
  <2>1. call[p].client \in Clients
    BY <1>0, <1>1 DEF CallInv
  <2>2. CASE q = p
    BY <1>0, <1>1, <1>3, <2>1, <2>2 DEF ClosingInv, CallInv, TypeOK
  <2>3. CASE q # p
    <3>1. call'[q] = call[q] /\ Holding(q)
      BY <1>3, <2>3 DEF Holding
    <3>2. call[q].client \in Clients
      BY <1>0, <3>1 DEF CallInv, Holding
    <3>3. call[q].client # call[p].client
      BY <1>0, <1>1, <3>1, <3>2 DEF MutexInv
    <3> QED
      BY <1>0, <1>1, <1>3, <2>1, <3>1, <3>2, <3>3 DEF HolderInv, TypeOK
  <2> QED
    BY <2>2, <2>3
<1>10. ClosingInv'
  BY <1>0, <1>1, <1>3 DEF ClosingInv, CallInv, TypeOK
<1>11. InactiveInv'
  BY <1>0, <1>1, <1>3 DEF InactiveInv, CallInv, TypeOK
<1>12. UsersInv'
  BY <1>0, <1>1, <1>3 DEF UsersInv, CallInv, TypeOK
<1>13. EditInv'
  BY <1>0, <1>1, <1>3 DEF EditInv, Holding, MutexInv, CallInv, TypeOK
<1>14. SubscriptionInv'
  <2> SUFFICES ASSUME NEW d \in Clients, NEW s \in Rooms, s \in roomIDs'[d]
               PROVE  (d \in rooms[s] \/ PendingDisband(d, s) \/ Adding(d, s))'
    BY DEF SubscriptionInv
  <2>1. call[p].targets = {} /\ ~Holding(p) /\ call[p].client \in Clients
    BY <1>0, <1>1 DEF CallInv, Holding
  <2>2. CASE d # call[p].client \/ s \in roomIDs[call[p].client]
    <3>1. s \in roomIDs[d]
      BY <1>0, <1>1, <2>1, <2>2 DEF TypeOK
    <3>2. d \in rooms[s] \/ PendingDisband(d, s) \/ Adding(d, s)
      BY <1>0, <3>1 DEF SubscriptionInv
    <3> QED
      BY <1>1, <1>3, <2>1, <3>2, PendingKept, AddingKept
  <2>3. CASE d = call[p].client /\ s \notin roomIDs[call[p].client]
    <3>1. s \in call'[p].add
      BY <1>0, <1>1, <1>3, <2>1, <2>3 DEF TypeOK
    <3> QED
      BY <1>3, <2>3, <3>1 DEF Adding, Holding
  <2> QED
    BY <2>2, <2>3
<1> QED
  BY <1>5, <1>6, <1>7, <1>8, <1>9, <1>10, <1>11, <1>12, <1>13, <1>14 DEF IInv

\* LeaveRoom (also on behalf of KickUser) takes the lock.
LEMMA LeaveRoomStep ==
    ASSUME IInv, NEW p \in Procs, LeaveRoom(p)
    PROVE  IInv'
<1>0. /\ TypeOK /\ MutexInv /\ CallInv /\ FreshInv /\ HolderInv /\ ClosingInv
      /\ InactiveInv /\ UsersInv /\ EditInv /\ SubscriptionInv
  BY DEF IInv
<1>1. /\ UNCHANGED <<sendClosed, users, rooms, conn, life>>
      /\ call[p].pc = "lock"
      /\ call[p].op \in {"LeaveRoom", "KickUser"}
      /\ mu[call[p].client] = None
      /\ mu' = [mu EXCEPT ![call[p].client] = p]
      /\ active' = [active EXCEPT ![call[p].client] = TRUE]
      /\ roomIDs' = [roomIDs EXCEPT ![call[p].client] = roomIDs[call[p].client] \ call[p].rooms]
      /\ active[call[p].client]
  BY DEF LeaveRoom, Locking, Locked, GoOn, Call, clientVars
<1>2. call' = [call EXCEPT ![p] = Call("edit", call[p].op, call[p].client, call[p].user, {},
                                       call[p].rooms, {}, {})]
  BY DEF LeaveRoom, Locking, Locked, GoOn, Call
<1>3. /\ \A q \in Procs : q # p => call'[q] = call[q]
      /\ call'[p].pc = "edit"
      /\ call'[p].op = call[p].op
      /\ call'[p].client = call[p].client
      /\ call'[p].user = call[p].user
      /\ call'[p].rooms = {}
      /\ call'[p].rem = call[p].rooms
      /\ call'[p].add = {}
      /\ call'[p].targets = {}
  BY <1>0, <1>2 DEF Call, TypeOK
<1>4. call' \in [Procs -> Calls]
  BY <1>0, <1>1, <1>2 DEF Call, Calls, CallPCs, ControllerOps, TypeOK, CallInv
<1>5. TypeOK'
  <2>1. call[p].client \in Clients /\ call[p].rooms \in SUBSET Rooms
    BY <1>0, <1>1 DEF TypeOK, CallInv, Calls
  <2>2. roomIDs' \in [Clients -> SUBSET Rooms]
    BY <1>0, <1>1, <2>1 DEF TypeOK
  <2> QED
    BY <1>0, <1>1, <1>4, <2>2 DEF TypeOK
<1>6. CallInv'
  BY <1>0, <1>1, <1>3 DEF CallInv, TypeOK
<1>7. MutexInv'
  BY <1>0, <1>1, <1>3 DEF MutexInv, Holding, CallInv, TypeOK
<1>8. FreshInv'
  BY <1>0, <1>1, <1>3 DEF FreshInv, Known, CallInv, TypeOK
<1>9. HolderInv'
  <2> SUFFICES ASSUME NEW q \in Procs, Holding(q)'
               PROVE  IF call'[q].op = "Unregister"
                      THEN /\ ~active'[call'[q].client] /\ ~sendClosed'[call'[q].client]
                           /\ \A t \in Procs : call'[t].pc = "closeSend"
                                                => call'[t].client # call'[q].client
                      ELSE active'[call'[q].client]
    BY DEF HolderInv
  <2>1. call[p].client \in Clients
    BY <1>0, <1>1 DEF CallInv
  <2>2. CASE q = p
    BY <1>0, <1>1, <1>3, <2>1, <2>2 DEF ClosingInv, CallInv, TypeOK
  <2>3. CASE q # p
    <3>1. call'[q] = call[q] /\ Holding(q)
      BY <1>3, <2>3 DEF Holding
    <3>2. call[q].client \in Clients
      BY <1>0, <3>1 DEF CallInv, Holding
    <3>3. call[q].client # call[p].client
      BY <1>0, <1>1, <3>1, <3>2 DEF MutexInv
    <3> QED
      BY <1>0, <1>1, <1>3, <2>1, <3>1, <3>2, <3>3 DEF HolderInv, TypeOK
  <2> QED
    BY <2>2, <2>3
<1>10. ClosingInv'
  BY <1>0, <1>1, <1>3 DEF ClosingInv, CallInv, TypeOK
<1>11. InactiveInv'
  BY <1>0, <1>1, <1>3 DEF InactiveInv, CallInv, TypeOK
<1>12. UsersInv'
  BY <1>0, <1>1, <1>3 DEF UsersInv, CallInv, TypeOK
<1>13. EditInv'
  <2> SUFFICES ASSUME NEW q \in Procs, Holding(q)'
               PROVE  call'[q].rem \cap roomIDs'[call'[q].client] = {}
    BY DEF EditInv
  <2>1. call[p].client \in Clients
    BY <1>0, <1>1 DEF CallInv
  <2>2. CASE q = p
    BY <1>0, <1>1, <1>3, <2>1, <2>2 DEF TypeOK
  <2>3. CASE q # p
    <3>1. call'[q] = call[q] /\ Holding(q)
      BY <1>3, <2>3 DEF Holding
    <3>2. call[q].client \in Clients
      BY <1>0, <3>1 DEF CallInv, Holding
    <3>3. call[q].client # call[p].client
      BY <1>0, <1>1, <3>1, <3>2 DEF MutexInv
    <3> QED
      BY <1>0, <1>1, <2>1, <3>1, <3>2, <3>3 DEF EditInv, TypeOK
  <2> QED
    BY <2>2, <2>3
<1>14. SubscriptionInv'
  <2> SUFFICES ASSUME NEW d \in Clients, NEW s \in Rooms, s \in roomIDs'[d]
               PROVE  (d \in rooms[s] \/ PendingDisband(d, s) \/ Adding(d, s))'
    BY DEF SubscriptionInv
  <2>1. call[p].targets = {} /\ ~Holding(p) /\ call[p].client \in Clients
    BY <1>0, <1>1 DEF CallInv, Holding
  <2>2. CASE d # call[p].client \/ s \in roomIDs[call[p].client]
    <3>1. s \in roomIDs[d]
      BY <1>0, <1>1, <2>1, <2>2 DEF TypeOK
    <3>2. d \in rooms[s] \/ PendingDisband(d, s) \/ Adding(d, s)
      BY <1>0, <3>1 DEF SubscriptionInv
    <3> QED
      BY <1>1, <1>3, <2>1, <3>2, PendingKept, AddingKept
  <2>3. CASE d = call[p].client /\ s \notin roomIDs[call[p].client]
    <3>1. s \in call'[p].add
      BY <1>0, <1>1, <1>3, <2>1, <2>3 DEF TypeOK
    <3> QED
      BY <1>3, <2>3, <3>1 DEF Adding, Holding
  <2> QED
    BY <2>2, <2>3
<1> QED
  BY <1>5, <1>6, <1>7, <1>8, <1>9, <1>10, <1>11, <1>12, <1>13, <1>14 DEF IInv

\* Register writes the users map.
LEMMA SetUserStep ==
    ASSUME IInv, NEW p \in Procs, SetUser(p)
    PROVE  IInv'
<1>0. /\ TypeOK /\ MutexInv /\ CallInv /\ FreshInv /\ HolderInv /\ ClosingInv
      /\ InactiveInv /\ UsersInv /\ EditInv /\ SubscriptionInv
  BY DEF IInv
<1>1. /\ UNCHANGED <<active, roomIDs, sendClosed, mu, rooms, conn, life>>
      /\ call[p].pc = "setUser"
      /\ users' = [users EXCEPT ![UserOf[call[p].client]] = call[p].client]
  BY DEF SetUser, GoOn, Call, clientVars
<1>2. call' = [call EXCEPT ![p] = Call("edit", call[p].op, call[p].client, call[p].user, {},
                                       call[p].rem, call[p].add, {})]
  BY DEF SetUser, GoOn, Call
<1>3. /\ \A q \in Procs : q # p => call'[q] = call[q]
      /\ call'[p].pc = "edit"
      /\ call'[p].op = call[p].op
      /\ call'[p].client = call[p].client
      /\ call'[p].user = call[p].user
      /\ call'[p].rooms = {}
      /\ call'[p].rem = call[p].rem
      /\ call'[p].add = call[p].add
      /\ call'[p].targets = {}
  BY <1>0, <1>2 DEF Call, TypeOK
<1>4. call' \in [Procs -> Calls]
  BY <1>0, <1>1, <1>2 DEF Call, Calls, CallPCs, ControllerOps, TypeOK, CallInv
<1>5. TypeOK'
  BY <1>0, <1>1, <1>4 DEF TypeOK, CallInv, Calls
<1>6. CallInv'
  BY <1>0, <1>1, <1>3 DEF CallInv
<1>7. MutexInv'
  BY <1>0, <1>1, <1>3 DEF MutexInv, Holding
<1>8. FreshInv'
  <2>1. p \in Clients /\ call[p].client = p /\ life[p] # "new"
    BY <1>0, <1>1 DEF CallInv
  <2> SUFFICES ASSUME NEW d \in Clients, ~Known(d)'
               PROVE  /\ ~active[d] /\ ~sendClosed[d] /\ users'[UserOf[d]] # d
                      /\ \A q \in Procs : call'[q].client = d => call'[q].op = "Register"
    BY <1>1 DEF FreshInv
  <2>2. d # p
    BY <1>1, <1>3, <2>1 DEF Known
  <2>3. ~Known(d)
    BY <1>1, <1>3, <2>2 DEF Known
  <2>4. users'[UserOf[d]] # d
    BY <1>0, <1>1, <2>1, <2>2, <2>3 DEF FreshInv, TypeOK
  <2> QED
    BY <1>0, <1>3, <2>1, <2>2, <2>3, <2>4 DEF FreshInv
<1>9. HolderInv'
  BY <1>0, <1>1, <1>3 DEF HolderInv, Holding
<1>10. ClosingInv'
  BY <1>0, <1>1, <1>3 DEF ClosingInv
<1>11. InactiveInv'
  BY <1>0, <1>1, <1>3 DEF InactiveInv
<1>12. UsersInv'
  BY <1>0, <1>1, <1>3 DEF UsersInv, CallInv, HolderInv, Holding, TypeOK
<1>13. EditInv'
  BY <1>0, <1>1, <1>3 DEF EditInv, Holding
<1>14. SubscriptionInv'
  <2> SUFFICES ASSUME NEW d \in Clients, NEW s \in Rooms, s \in roomIDs'[d]
               PROVE  (d \in rooms[s] \/ PendingDisband(d, s) \/ Adding(d, s))'
    BY DEF SubscriptionInv
  <2>1. d \in rooms[s] \/ PendingDisband(d, s) \/ Adding(d, s)
    BY <1>0, <1>1 DEF SubscriptionInv
  <2>2. call[p].targets = {}
    BY <1>0, <1>1 DEF CallInv
  <2>3. Adding(d, s) => Adding(d, s)'
    BY <1>1, <1>3 DEF Adding, Holding
  <2> QED
    BY <1>1, <1>3, <2>1, <2>2, <2>3, PendingKept
<1> QED
  BY <1>5, <1>6, <1>7, <1>8, <1>9, <1>10, <1>11, <1>12, <1>13, <1>14 DEF IInv

\* Unregister deletes its own entry from the users map.
LEMMA DeleteUserStep ==
    ASSUME IInv, NEW p \in Procs, DeleteUser(p)
    PROVE  IInv'
<1>0. /\ TypeOK /\ MutexInv /\ CallInv /\ FreshInv /\ HolderInv /\ ClosingInv
      /\ InactiveInv /\ UsersInv /\ EditInv /\ SubscriptionInv
  BY DEF IInv
<1>1. /\ UNCHANGED <<active, roomIDs, sendClosed, mu, rooms, conn, life>>
      /\ call[p].pc = "delUser"
      /\ users' = [users EXCEPT ![UserOf[call[p].client]] = IF @ = call[p].client THEN None ELSE @]
  BY DEF DeleteUser, GoOn, Call, clientVars
<1>2. call' = [call EXCEPT ![p] = Call("edit", call[p].op, call[p].client, call[p].user, {},
                                       call[p].rem, call[p].add, {})]
  BY DEF DeleteUser, GoOn, Call
<1>3. /\ \A q \in Procs : q # p => call'[q] = call[q]
      /\ call'[p].pc = "edit"
      /\ call'[p].op = call[p].op
      /\ call'[p].client = call[p].client
      /\ call'[p].user = call[p].user
      /\ call'[p].rooms = {}
      /\ call'[p].rem = call[p].rem
      /\ call'[p].add = call[p].add
      /\ call'[p].targets = {}
  BY <1>0, <1>2 DEF Call, TypeOK
<1>4. call' \in [Procs -> Calls]
  BY <1>0, <1>1, <1>2 DEF Call, Calls, CallPCs, ControllerOps, TypeOK, CallInv
<1>5. TypeOK'
  <2>1. users' \in [Users -> Clients \cup {None}]
    BY <1>0, <1>1 DEF TypeOK
  <2> QED
    BY <1>0, <1>1, <1>4, <2>1 DEF TypeOK
<1>6. CallInv'
  BY <1>0, <1>1, <1>3 DEF CallInv
<1>7. MutexInv'
  BY <1>0, <1>1, <1>3 DEF MutexInv, Holding
<1>8. FreshInv'
  BY <1>0, <1>1, <1>3 DEF FreshInv, Known, CallInv, TypeOK
<1>9. HolderInv'
  BY <1>0, <1>1, <1>3 DEF HolderInv, Holding
<1>10. ClosingInv'
  BY <1>0, <1>1, <1>3 DEF ClosingInv
<1>11. InactiveInv'
  BY <1>0, <1>1, <1>3 DEF InactiveInv
<1>12. UsersInv'
  <2> SUFFICES ASSUME NEW u \in Users, users'[u] # None
               PROVE  /\ UserOf[users'[u]] = u
                      /\ \/ active'[users'[u]]
                         \/ \E q \in Procs : call'[q].pc = "delUser" /\ call'[q].client = users'[u]
    BY DEF UsersInv
  <2>1. call[p].client \in Clients
    BY <1>0, <1>1 DEF CallInv
  <2>2. users'[u] = users[u] /\ users[u] # call[p].client
    BY <1>0, <1>1, <2>1 DEF TypeOK, UsersInv
  <2>3. UserOf[users[u]] = u
    BY <1>0, <2>2 DEF UsersInv
  <2>4. CASE active[users[u]]
    BY <1>1, <2>2, <2>3, <2>4
  <2>5. CASE ~active[users[u]]
    <3>1. PICK q \in Procs : call[q].pc = "delUser" /\ call[q].client = users[u]
      BY <1>0, <2>2, <2>5 DEF UsersInv
    <3> QED
      BY <1>3, <2>2, <2>3, <3>1
  <2> QED
    BY <2>4, <2>5
<1>13. EditInv'
  BY <1>0, <1>1, <1>3 DEF EditInv, Holding
<1>14. SubscriptionInv'
  <2> SUFFICES ASSUME NEW d \in Clients, NEW s \in Rooms, s \in roomIDs'[d]
               PROVE  (d \in rooms[s] \/ PendingDisband(d, s) \/ Adding(d, s))'
    BY DEF SubscriptionInv
  <2>1. d \in rooms[s] \/ PendingDisband(d, s) \/ Adding(d, s)
    BY <1>0, <1>1 DEF SubscriptionInv
  <2>2. call[p].targets = {}
    BY <1>0, <1>1 DEF CallInv
  <2>3. Adding(d, s) => Adding(d, s)'
    BY <1>1, <1>3 DEF Adding, Holding
  <2> QED
    BY <1>1, <1>3, <2>1, <2>2, <2>3, PendingKept
<1> QED
  BY <1>5, <1>6, <1>7, <1>8, <1>9, <1>10, <1>11, <1>12, <1>13, <1>14 DEF IInv

\* A room shard loses the client; the room is not in roomIDs any more.
LEMMA RemoveStep ==
    ASSUME IInv, NEW p \in Procs, NEW r \in Rooms, removeClientFromRoom(p, r)
    PROVE  IInv'
<1>0. /\ TypeOK /\ MutexInv /\ CallInv /\ FreshInv /\ HolderInv /\ ClosingInv
      /\ InactiveInv /\ UsersInv /\ EditInv /\ SubscriptionInv
  BY DEF IInv
<1>1. /\ UNCHANGED <<active, roomIDs, sendClosed, mu, users, conn, life>>
      /\ call[p].pc = "edit"
      /\ r \in call[p].rem
      /\ rooms' = [rooms EXCEPT ![r] = @ \ {call[p].client}]
  BY DEF removeClientFromRoom, GoOn, Call, clientVars
<1>2. call' = [call EXCEPT ![p] = Call("edit", call[p].op, call[p].client, call[p].user, {},
                                       call[p].rem \ {r}, call[p].add, {})]
  BY DEF removeClientFromRoom, GoOn, Call
<1>3. /\ \A q \in Procs : q # p => call'[q] = call[q]
      /\ call'[p].pc = "edit"
      /\ call'[p].op = call[p].op
      /\ call'[p].client = call[p].client
      /\ call'[p].user = call[p].user
      /\ call'[p].rooms = {}
      /\ call'[p].rem = call[p].rem \ {r}
      /\ call'[p].add = call[p].add
      /\ call'[p].targets = {}
  BY <1>0, <1>2 DEF Call, TypeOK
<1>4. call' \in [Procs -> Calls]
  BY <1>0, <1>1, <1>2 DEF Call, Calls, CallPCs, ControllerOps, TypeOK, CallInv
<1>5. TypeOK'
  BY <1>0, <1>1, <1>4 DEF TypeOK, CallInv, Calls
<1>6. CallInv'
  BY <1>0, <1>1, <1>3 DEF CallInv
<1>7. MutexInv'
  BY <1>0, <1>1, <1>3 DEF MutexInv, Holding
<1>8. FreshInv'
  BY <1>0, <1>1, <1>3 DEF FreshInv, Known
<1>9. HolderInv'
  BY <1>0, <1>1, <1>3 DEF HolderInv, Holding
<1>10. ClosingInv'
  BY <1>0, <1>1, <1>3 DEF ClosingInv
<1>11. InactiveInv'
  BY <1>0, <1>1, <1>3 DEF InactiveInv
<1>12. UsersInv'
  BY <1>0, <1>1, <1>3 DEF UsersInv
<1>13. EditInv'
  BY <1>0, <1>1, <1>3 DEF EditInv, Holding
<1>14. SubscriptionInv'
  <2> SUFFICES ASSUME NEW d \in Clients, NEW s \in Rooms, s \in roomIDs'[d]
               PROVE  (d \in rooms[s] \/ PendingDisband(d, s) \/ Adding(d, s))'
    BY DEF SubscriptionInv
  <2>1. d \in rooms[s] \/ PendingDisband(d, s) \/ Adding(d, s)
    BY <1>0, <1>1 DEF SubscriptionInv
  <2>2. call[p].targets = {}
    BY <1>0, <1>1 DEF CallInv
  <2>3. Adding(d, s) => Adding(d, s)'
    BY <1>1, <1>3 DEF Adding, Holding
  <2>4. d \in rooms[s] => d \in rooms'[s]
    BY <1>0, <1>1 DEF EditInv, Holding, TypeOK
  <2> QED
    BY <1>3, <2>1, <2>2, <2>3, <2>4, PendingKept
<1> QED
  BY <1>5, <1>6, <1>7, <1>8, <1>9, <1>10, <1>11, <1>12, <1>13, <1>14 DEF IInv

\* A room shard gains the client.
LEMMA AddStep ==
    ASSUME IInv, NEW p \in Procs, NEW r \in Rooms, addClientToRoom(p, r)
    PROVE  IInv'
<1>0. /\ TypeOK /\ MutexInv /\ CallInv /\ FreshInv /\ HolderInv /\ ClosingInv
      /\ InactiveInv /\ UsersInv /\ EditInv /\ SubscriptionInv
  BY DEF IInv
<1>1. /\ UNCHANGED <<active, roomIDs, sendClosed, mu, users, conn, life>>
      /\ call[p].pc = "edit"
      /\ call[p].rem = {}
      /\ r \in call[p].add
      /\ rooms' = [rooms EXCEPT ![r] = @ \cup {call[p].client}]
  BY DEF addClientToRoom, GoOn, Call, clientVars
<1>2. call' = [call EXCEPT ![p] = Call("edit", call[p].op, call[p].client, call[p].user, {},
                                       {}, call[p].add \ {r}, {})]
  BY DEF addClientToRoom, GoOn, Call
<1>3. /\ \A q \in Procs : q # p => call'[q] = call[q]
      /\ call'[p].pc = "edit"
      /\ call'[p].op = call[p].op
      /\ call'[p].client = call[p].client
      /\ call'[p].user = call[p].user
      /\ call'[p].rooms = {}
      /\ call'[p].rem = {}
      /\ call'[p].add = call[p].add \ {r}
      /\ call'[p].targets = {}
  BY <1>0, <1>2 DEF Call, TypeOK
<1>4. call' \in [Procs -> Calls]
  BY <1>0, <1>1, <1>2 DEF Call, Calls, CallPCs, ControllerOps, TypeOK, CallInv
<1>5. TypeOK'
  BY <1>0, <1>1, <1>4 DEF TypeOK, CallInv, Calls
<1>6. CallInv'
  BY <1>0, <1>1, <1>3 DEF CallInv
<1>7. MutexInv'
  BY <1>0, <1>1, <1>3 DEF MutexInv, Holding
<1>8. FreshInv'
  BY <1>0, <1>1, <1>3 DEF FreshInv, Known
<1>9. HolderInv'
  BY <1>0, <1>1, <1>3 DEF HolderInv, Holding
<1>10. ClosingInv'
  BY <1>0, <1>1, <1>3 DEF ClosingInv
<1>11. InactiveInv'
  BY <1>0, <1>1, <1>3 DEF InactiveInv
<1>12. UsersInv'
  BY <1>0, <1>1, <1>3 DEF UsersInv
<1>13. EditInv'
  BY <1>0, <1>1, <1>3 DEF EditInv, Holding
<1>14. SubscriptionInv'
  <2> SUFFICES ASSUME NEW d \in Clients, NEW s \in Rooms, s \in roomIDs'[d]
               PROVE  (d \in rooms[s] \/ PendingDisband(d, s) \/ Adding(d, s))'
    BY DEF SubscriptionInv
  <2>1. d \in rooms[s] \/ PendingDisband(d, s) \/ Adding(d, s)
    BY <1>0, <1>1 DEF SubscriptionInv
  <2>2. call[p].targets = {}
    BY <1>0, <1>1 DEF CallInv
  <2>3. Adding(d, s) => Adding(d, s)' \/ d \in rooms'[s]
    BY <1>0, <1>1, <1>3 DEF Adding, Holding, TypeOK
  <2>4. d \in rooms[s] => d \in rooms'[s]
    BY <1>0, <1>1 DEF TypeOK
  <2> QED
    BY <1>3, <2>1, <2>2, <2>3, <2>4, PendingKept
<1> QED
  BY <1>5, <1>6, <1>7, <1>8, <1>9, <1>10, <1>11, <1>12, <1>13, <1>14 DEF IInv

\* closeSend, after the client has been detached.
LEMMA CloseSendStep ==
    ASSUME IInv, NEW p \in Procs, closeSend(p)
    PROVE  IInv'
<1>0. /\ TypeOK /\ MutexInv /\ CallInv /\ FreshInv /\ HolderInv /\ ClosingInv
      /\ InactiveInv /\ UsersInv /\ EditInv /\ SubscriptionInv
  BY DEF IInv
<1>1. /\ UNCHANGED <<active, roomIDs, mu, users, rooms, conn, life>>
      /\ call[p].pc = "closeSend"
      /\ sendClosed' = [sendClosed EXCEPT ![call[p].client] = TRUE]
  BY DEF closeSend, Idle, Call, clientVars
<1>2. call' = [call EXCEPT ![p] = Call("idle", "none", None, None, {}, {}, {}, {})]
  BY DEF closeSend, Idle, Call
<1>3. /\ \A q \in Procs : q # p => call'[q] = call[q]
      /\ call'[p].pc = "idle"
      /\ call'[p].op = "none"
      /\ call'[p].client = None
      /\ call'[p].rooms = {}
      /\ call'[p].rem = {}
      /\ call'[p].add = {}
      /\ call'[p].targets = {}
  BY <1>0, <1>2 DEF Call, TypeOK
<1>4. call' \in [Procs -> Calls]
  BY <1>0, <1>1, <1>2 DEF Call, Calls, CallPCs, ControllerOps, TypeOK, CallInv
<1>5. TypeOK'
  BY <1>0, <1>1, <1>4 DEF TypeOK, CallInv, Calls
<1>6. CallInv'
  BY <1>0, <1>1, <1>3 DEF CallInv
<1>7. MutexInv'
  BY <1>0, <1>1, <1>3 DEF MutexInv, Holding
<1>8. FreshInv'
  BY <1>0, <1>1, <1>3 DEF FreshInv, Known, CallInv, TypeOK
<1>9. HolderInv'
  BY <1>0, <1>1, <1>3 DEF HolderInv, Holding, CallInv, TypeOK
<1>10. ClosingInv'
  BY <1>0, <1>1, <1>3 DEF ClosingInv, CallInv, TypeOK
<1>11. InactiveInv'
  BY <1>0, <1>1, <1>3 DEF InactiveInv
<1>12. UsersInv'
  BY <1>0, <1>1, <1>3 DEF UsersInv
<1>13. EditInv'
  BY <1>0, <1>1, <1>3 DEF EditInv, Holding
<1>14. SubscriptionInv'
  <2> SUFFICES ASSUME NEW d \in Clients, NEW s \in Rooms, s \in roomIDs'[d]
               PROVE  (d \in rooms[s] \/ PendingDisband(d, s) \/ Adding(d, s))'
    BY DEF SubscriptionInv
  <2>1. d \in rooms[s] \/ PendingDisband(d, s) \/ Adding(d, s)
    BY <1>0, <1>1 DEF SubscriptionInv
  <2>2. call[p].targets = {}
    BY <1>0, <1>1 DEF CallInv
  <2> QED
    BY <1>1, <1>3, <2>1, <2>2, PendingKept, AddingKept DEF Holding
<1> QED
  BY <1>5, <1>6, <1>7, <1>8, <1>9, <1>10, <1>11, <1>12, <1>13, <1>14 DEF IInv

\* DisbandRoom visits a client of its snapshot.
LEMMA DisbandVisitStep ==
    ASSUME IInv, NEW p \in Procs, NEW c \in Clients, DisbandVisit(p, c)
    PROVE  IInv'
<1>0. /\ TypeOK /\ MutexInv /\ CallInv /\ FreshInv /\ HolderInv /\ ClosingInv
      /\ InactiveInv /\ UsersInv /\ EditInv /\ SubscriptionInv
  BY DEF IInv
<1>1. /\ UNCHANGED <<active, sendClosed, mu, users, rooms, conn, life>>
      /\ call[p].pc = "disband"
      /\ c \in call[p].targets
      /\ mu[c] = None
      /\ roomIDs' = [roomIDs EXCEPT ![c] = @ \ call[p].rooms]
  BY DEF DisbandVisit, Call, clientVars
<1>2. call' = [call EXCEPT ![p] = Call("disband", "DisbandRoom", None, None, call[p].rooms,
                                       {}, {}, call[p].targets \ {c})]
  BY DEF DisbandVisit, Call
<1>3. /\ \A q \in Procs : q # p => call'[q] = call[q]
      /\ call'[p].pc = "disband"
      /\ call'[p].op = "DisbandRoom"
      /\ call'[p].client = None
      /\ call'[p].rooms = call[p].rooms
      /\ call'[p].rem = {}
      /\ call'[p].add = {}
      /\ call'[p].targets = call[p].targets \ {c}
  BY <1>0, <1>2 DEF Call, TypeOK
<1>4. call' \in [Procs -> Calls]
  BY <1>0, <1>1, <1>2 DEF Call, Calls, CallPCs, ControllerOps, TypeOK, CallInv
<1>5. TypeOK'
  <2>1. roomIDs' \in [Clients -> SUBSET Rooms]
    BY <1>0, <1>1 DEF TypeOK
  <2> QED
    BY <1>0, <1>1, <1>4, <2>1 DEF TypeOK
<1>6. CallInv'
  BY <1>0, <1>1, <1>3 DEF CallInv, TypeOK
<1>7. MutexInv'
  BY <1>0, <1>1, <1>3 DEF MutexInv, Holding
<1>8. FreshInv'
  BY <1>0, <1>1, <1>3 DEF FreshInv, Known
<1>9. HolderInv'
  BY <1>0, <1>1, <1>3 DEF HolderInv, Holding
<1>10. ClosingInv'
  BY <1>0, <1>1, <1>3 DEF ClosingInv
<1>11. InactiveInv'
  BY <1>0, <1>1, <1>3 DEF InactiveInv
<1>12. UsersInv'
  BY <1>0, <1>1, <1>3 DEF UsersInv
<1>13. EditInv'
  BY <1>0, <1>1, <1>3 DEF EditInv, Holding, TypeOK
<1>14. SubscriptionInv'
  <2> SUFFICES ASSUME NEW d \in Clients, NEW s \in Rooms, s \in roomIDs'[d]
               PROVE  (d \in rooms[s] \/ PendingDisband(d, s) \/ Adding(d, s))'
    BY DEF SubscriptionInv
  <2>1. s \in roomIDs[d] /\ (d = c => s \notin call[p].rooms)
    BY <1>0, <1>1 DEF TypeOK
  <2>2. d \in rooms[s] \/ PendingDisband(d, s) \/ Adding(d, s)
    BY <1>0, <2>1 DEF SubscriptionInv
  <2>3. PendingDisband(d, s) => PendingDisband(d, s)'
    <3> SUFFICES ASSUME PendingDisband(d, s) PROVE PendingDisband(d, s)'
      OBVIOUS
    <3>1. PICK q \in Procs : s \in call[q].rooms /\ d \in call[q].targets
      BY DEF PendingDisband
    <3>2. s \in call'[q].rooms /\ d \in call'[q].targets
      BY <1>3, <2>1, <3>1
    <3> QED
      BY <3>2 DEF PendingDisband
  <2>4. Adding(d, s) => Adding(d, s)'
    BY <1>1, <1>3, AddingKept DEF Holding
  <2> QED
    BY <1>1, <2>2, <2>3, <2>4
<1> QED
  BY <1>5, <1>6, <1>7, <1>8, <1>9, <1>10, <1>11, <1>12, <1>13, <1>14 DEF IInv

\* The lock is released; Unregister goes on to closeSend, KickUser to Kick.
LEMMA UnlockStep ==
    ASSUME IInv, NEW p \in Procs, Unlock(p)
    PROVE  IInv'
<1>0. /\ TypeOK /\ MutexInv /\ CallInv /\ FreshInv /\ HolderInv /\ ClosingInv
      /\ InactiveInv /\ UsersInv /\ EditInv /\ SubscriptionInv
  BY DEF IInv
<1>1. /\ UNCHANGED <<active, roomIDs, sendClosed, users, rooms, conn, life>>
      /\ call[p].pc = "edit" /\ call[p].rem = {} /\ call[p].add = {}
      /\ mu' = [mu EXCEPT ![call[p].client] = None]
  BY DEF Unlock, clientVars
<1>2. call[p].client \in Clients /\ call[p].targets = {} /\ mu[call[p].client] = p
  BY <1>0, <1>1 DEF CallInv, MutexInv, Holding
<1>3. /\ call' \in [Procs -> Calls]
      /\ \A q \in Procs : q # p => call'[q] = call[q]
      /\ call'[p].targets = {}
      /\ \/ /\ call'[p].pc = "closeSend" /\ call'[p].op = "Unregister"
            /\ call[p].op = "Unregister" /\ call'[p].client = call[p].client
         \/ /\ call'[p].pc = "kick" /\ call'[p].op = "KickUser"
            /\ call'[p].user \in Users /\ call'[p].client = None
         \/ /\ call'[p].pc = "idle" /\ call'[p].op = "none" /\ call'[p].client = None
  <2>1. CASE call[p].op = "Unregister"
    <3>1. call' = [call EXCEPT ![p] = Call("closeSend", "Unregister", call[p].client,
                                           call[p].user, {}, {}, {}, {})]
      BY <2>1 DEF Unlock, GoOn
    <3>2. call[p].user \in Users \cup {None}
      BY <1>0 DEF TypeOK, Calls
    <3> QED
      BY <1>0, <1>2, <2>1, <3>1, <3>2 DEF Call, Calls, CallPCs, ControllerOps, TypeOK
  <2>2. CASE call[p].op = "KickUser"
    <3>1. call' = [call EXCEPT ![p] = Call("kick", "KickUser", None, call[p].user, {}, {}, {}, {})]
      BY <2>2 DEF Unlock, AfterCall
    <3>2. call[p].user \in Users
      BY <1>0, <2>2 DEF CallInv
    <3> QED
      BY <1>0, <3>1, <3>2 DEF Call, Calls, CallPCs, ControllerOps, TypeOK
  <2>3. CASE call[p].op \notin {"Unregister", "KickUser"}
    <3>1. call' = [call EXCEPT ![p] = Call("idle", "none", None, None, {}, {}, {}, {})]
      BY <2>3 DEF Unlock, AfterCall, Idle
    <3> QED
      BY <1>0, <3>1 DEF Call, Calls, CallPCs, TypeOK
  <2> QED
    BY <2>1, <2>2, <2>3
<1>4. TypeOK'
  BY <1>0, <1>1, <1>3 DEF TypeOK
<1>5. CallInv'
  BY <1>0, <1>1, <1>2, <1>3 DEF CallInv
<1>6. MutexInv'
  <2> SUFFICES ASSUME NEW q \in Procs, NEW c \in Clients
               PROVE  mu'[c] = q <=> Holding(q)' /\ call'[q].client = c
    BY DEF MutexInv
  <2>1. CASE q = p
    BY <1>0, <1>1, <1>2, <1>3, <2>1 DEF MutexInv, Holding, TypeOK
  <2>2. CASE q # p
    <3>1. call'[q] = call[q] /\ (Holding(q)' <=> Holding(q))
      BY <1>3, <2>2 DEF Holding
    <3>2. mu'[c] = q <=> mu[c] = q
      BY <1>0, <1>1, <1>2, <2>2 DEF TypeOK
    <3> QED
      BY <1>0, <3>1, <3>2 DEF MutexInv
  <2> QED
    BY <2>1, <2>2
<1>7. FreshInv'
  BY <1>0, <1>1, <1>2, <1>3 DEF FreshInv, Known, CallInv
<1>8. HolderInv'
  <2>1. ASSUME NEW q \in Procs, Holding(q)'
        PROVE  q # p /\ call'[q] = call[q] /\ Holding(q) /\ call[q].client # call[p].client
    BY <1>0, <1>1, <1>2, <1>3, <2>1 DEF Holding, MutexInv
  <2> QED
    BY <1>0, <1>1, <1>3, <2>1 DEF HolderInv
<1>9. ClosingInv'
  BY <1>0, <1>1, <1>3 DEF ClosingInv, HolderInv, Holding
<1>10. InactiveInv'
  BY <1>0, <1>1 DEF InactiveInv
<1>11. UsersInv'
  BY <1>0, <1>1, <1>3 DEF UsersInv
<1>12. EditInv'
  BY <1>0, <1>1, <1>3 DEF EditInv, Holding
<1>13. SubscriptionInv'
  <2> SUFFICES ASSUME NEW d \in Clients, NEW s \in Rooms, s \in roomIDs'[d]
               PROVE  (d \in rooms[s] \/ PendingDisband(d, s) \/ Adding(d, s))'
    BY DEF SubscriptionInv
  <2>1. d \in rooms[s] \/ PendingDisband(d, s) \/ Adding(d, s)
    BY <1>0, <1>1 DEF SubscriptionInv
  <2>2. Adding(d, s) => Adding(d, s)'
    BY <1>1, <1>3 DEF Adding, Holding
  <2> QED
    BY <1>1, <1>2, <1>3, <2>1, <2>2, PendingKept
<1> QED
  BY <1>4, <1>5, <1>6, <1>7, <1>8, <1>9, <1>10, <1>11, <1>12, <1>13 DEF IInv

----------------------------------------------------------------------------
(***************************************************************************)
(* The invariant holds in every reachable state.                           *)
(***************************************************************************)
\* The initial state, in which no connection has been registered.
LEMMA InitInv == Init => IInv
<1> SUFFICES ASSUME Init PROVE IInv
  OBVIOUS
<1>1. TypeOK
  BY DEF Init, TypeOK, Idle, Call, Calls, CallPCs
<1>2. \A p \in Procs : /\ call[p].pc = "idle" /\ call[p].op = "none"
                       /\ call[p].client = None /\ call[p].targets = {}
  BY DEF Init, Idle, Call
<1>3. MutexInv /\ CallInv /\ HolderInv /\ EditInv
  BY <1>2 DEF Init, MutexInv, CallInv, HolderInv, EditInv, Holding
<1>4. FreshInv /\ ClosingInv /\ InactiveInv /\ UsersInv /\ SubscriptionInv
  BY <1>2 DEF Init, FreshInv, ClosingInv, InactiveInv, UsersInv, SubscriptionInv
<1> QED
  BY <1>1, <1>3, <1>4 DEF IInv

\* Every step preserves the invariant.
LEMMA NextInv == IInv /\ [Next]_vars => IInv'
<1> SUFFICES ASSUME IInv, [Next]_vars PROVE IInv'
  OBVIOUS
<1>1. ASSUME NEW p \in Procs, Step(p) PROVE IInv'
  BY <1>1, RegisterStep, UnregisterStep, UpdateRoomsStep, JoinRoomStep, LeaveRoomStep,
     SetUserStep, DeleteUserStep, RemoveStep, AddStep, UnlockStep, CloseSendStep,
     DisbandVisitStep, ReturnStep DEF Step
<1>2. ASSUME NEW p \in Controllers, Controller(p) PROVE IInv'
  BY <1>2, StartStep, StartKickUserStep, CloseConnectionStep, DisbandRoomStep DEF Controller
<1>3. ASSUME NEW c \in Clients, Endpoint(c) PROVE IInv'
  BY <1>3, EndpointRegisterStep, EndpointUnregisterStep, ConnectionStep DEF Endpoint
<1>4. CASE UNCHANGED vars
  BY <1>4 DEF vars, IInv, TypeOK, MutexInv, Holding, CallInv, FreshInv, Known, HolderInv,
     ClosingInv, InactiveInv, UsersInv, EditInv, SubscriptionInv, PendingDisband, Adding
<1> QED
  BY <1>1, <1>2, <1>3, <1>4 DEF Next

\* The registry satisfies its inductive invariant throughout.
THEOREM Invariance == Spec => []IInv
<1>1. Init => IInv
  BY InitInv
<1>2. IInv /\ [Next]_vars => IInv'
  BY NextInv
<1> QED
  BY <1>1, <1>2, PTL DEF Spec

----------------------------------------------------------------------------
(***************************************************************************)
(* The properties.                                                         *)
(***************************************************************************)
\* The state of the Hub is well typed.
THEOREM TypeCorrect == Spec => []TypeOK
<1>1. IInv => TypeOK
  BY DEF IInv
<1> QED
  BY <1>1, Invariance, PTL

\* However the calls interleave, no client is dropped from a room it is
\* subscribed to, except by a DisbandRoom that is still under way.
THEOREM SubscriptionsKept == Spec => []NoLostSubscription
<1>1. IInv => NoLostSubscription
  <2> SUFFICES ASSUME IInv, NEW c \in Clients, NEW r \in Rooms,
                      mu[c] = None, r \in roomIDs[c]
               PROVE  c \in rooms[r] \/ PendingDisband(c, r)
    BY DEF NoLostSubscription
  <2>1. ~Adding(c, r)
    BY DEF IInv, MutexInv, Adding
  <2> QED
    BY <2>1 DEF IInv, SubscriptionInv
<1> QED
  BY <1>1, Invariance, PTL

\* The users map leads to live connections of the right user.
THEOREM EntriesLive == Spec => []OnlineEntryIsLive
<1>1. IInv => OnlineEntryIsLive
  <2> SUFFICES ASSUME IInv, NEW u \in Users, users[u] # None
               PROVE  UserOf[users[u]] = u /\ (active[users[u]] \/ mu[users[u]] # None)
    BY DEF OnlineEntryIsLive
  <2>1. users[u] \in Clients
    BY DEF IInv, TypeOK
  <2>2. ASSUME NEW p \in Procs, call[p].pc = "delUser", call[p].client = users[u]
        PROVE  mu[users[u]] # None
    BY <2>1, <2>2 DEF IInv, MutexInv, Holding
  <2> QED
    BY <2>2 DEF IInv, UsersInv
<1> QED
  BY <1>1, Invariance, PTL

\* Send is closed only for a client that has left the registry for good.
THEOREM ClosedAfterDetach == Spec => []ClosedIsDetached
<1>1. IInv => ClosedIsDetached
  <2> SUFFICES ASSUME IInv, NEW c \in Clients, sendClosed[c]
               PROVE  ~active[c] /\ roomIDs[c] = {} /\ users[UserOf[c]] # c
    BY DEF ClosedIsDetached
  <2>1. ~active[c] /\ roomIDs[c] = {}
    BY DEF IInv, ClosingInv, InactiveInv
  <2>2. ASSUME NEW p \in Procs, call[p].pc = "delUser" PROVE call[p].client # c
    BY <2>2 DEF IInv, CallInv, HolderInv, Holding
  <2> QED
    BY <2>1, <2>2 DEF IInv, UsersInv
<1> QED
  BY <1>1, Invariance, PTL

\* Only a connection that is going away loses its user entry.
THEOREM EntryOwner == Spec => EntryRemovedByOwner
<1>1. ASSUME IInv, [Next]_vars, NEW u \in Users, users[u] # None, users'[u] = None
      PROVE  ~active[users[u]]
  <2>1. users' # users
    BY <1>1
  <2>2. PICK p \in Procs : SetUser(p) \/ DeleteUser(p)
    BY <1>1, <2>1 DEF Next, vars, Step, Controller, Endpoint, clientVars, Register, Unregister,
       UpdateRooms, JoinRoom, LeaveRoom, Locked, EarlyReturn, removeClientFromRoom,
       addClientToRoom, Unlock, closeSend, DisbandVisit, DisbandReturn, Kick, KickClose,
       StartUnregister, StartUpdateRooms, StartJoinRoom, StartLeaveRoom, StartKickUser,
       CloseConnection, DisbandRoom, EndpointRegister, EndpointUnregister, PeerClose,
       WritePumpExit
  <2>3. call[p].client \in Clients
    BY <1>1, <2>2 DEF IInv, CallInv, SetUser, DeleteUser
  <2>4. DeleteUser(p) /\ users[u] = call[p].client
    BY <1>1, <2>2, <2>3 DEF IInv, TypeOK, SetUser, DeleteUser
  <2> QED
    BY <1>1, <2>4 DEF IInv, DeleteUser, CallInv, HolderInv, Holding
<1>2. IInv /\ [Next]_vars =>
        [\A u \in Users : users[u] # None /\ users'[u] = None => ~active[users[u]]]_vars
  BY <1>1
<1> QED
  BY <1>2, Invariance, PTL DEF Spec, EntryRemovedByOwner

----------------------------------------------------------------------------
(***************************************************************************)
(* Where nobody disbands rooms the two views of a subscription agree.      *)
(***************************************************************************)
\* A call adds its client only to rooms in roomIDs, and none is a DisbandRoom.
ExactInv ==
    /\ \A p \in Procs : call[p].pc # "disband"
    /\ \A p \in Procs : Holding(p) => call[p].add \subseteq roomIDs[call[p].client]
    /\ MembershipInv

\* A step of a call that does not hold c.mu keeps every pending removal of c.
LEMMA RemovingKept ==
    ASSUME NEW p \in Procs, NEW c \in Clients, NEW r \in Rooms,
           \A q \in Procs : q # p => call'[q] = call[q],
           ~Holding(p) \/ call[p].client # c, Removing(c, r)
    PROVE  Removing(c, r)'
<1>1. PICK q \in Procs : Holding(q) /\ call[q].client = c /\ r \in call[q].rem
  BY DEF Removing
<1>2. call'[q] = call[q]
  BY <1>1
<1> QED
  BY <1>1, <1>2 DEF Removing, Holding

\* Steps outside the critical sections.
LEMMA OutsideExact ==
    ASSUME ExactInv, NEW p \in Procs, UNCHANGED <<roomIDs, rooms>>,
           \A q \in Procs : q # p => call'[q] = call[q],
           ~Holding(p), call'[p].pc \in {"idle", "lock", "kick", "kickClose"}
    PROVE  ExactInv'
<1>1. \A q \in Procs : call'[q].pc # "disband"
  BY DEF ExactInv
<1>2. \A q \in Procs : Holding(q)' => call'[q].add \subseteq roomIDs'[call'[q].client]
  BY DEF ExactInv, Holding
<1>3. MembershipInv'
  BY RemovingKept DEF ExactInv, MembershipInv
<1> QED
  BY <1>1, <1>2, <1>3 DEF ExactInv

\* Taking the lock: the rooms that leave roomIDs are those to be removed, the
\* rooms to be added are in roomIDs.
LEMMA LockedExact ==
    ASSUME IInv, ExactInv, NEW p \in Procs, NEW a, NEW ids \in SUBSET Rooms,
           NEW next \in {"setUser", "delUser", "edit"},
           NEW remove \in SUBSET Rooms, NEW insert \in SUBSET Rooms,
           call[p].pc = "lock", mu[call[p].client] = None,
           roomIDs[call[p].client] \subseteq ids \cup remove, insert \subseteq ids,
           Locked(p, a, ids, next, remove, insert)
    PROVE  ExactInv'
<1>0. TypeOK /\ MutexInv /\ CallInv
  BY DEF IInv
<1>1. call[p].client \in Clients /\ ~Holding(p)
  BY <1>0 DEF CallInv, Holding
<1>2. /\ rooms' = rooms
      /\ roomIDs' = [roomIDs EXCEPT ![call[p].client] = ids]
      /\ call' = [call EXCEPT ![p] = Call(next, call[p].op, call[p].client, call[p].user,
                                          {}, remove, insert, {})]
  BY DEF Locked, GoOn
<1>3. /\ \A q \in Procs : q # p => call'[q] = call[q]
      /\ call'[p].pc = next /\ call'[p].client = call[p].client
      /\ call'[p].rem = remove /\ call'[p].add = insert
  BY <1>0, <1>2 DEF Call, TypeOK
<1>4. \A q \in Procs : call'[q].pc # "disband"
  BY <1>3 DEF ExactInv
<1>5. ASSUME NEW q \in Procs, Holding(q)'
      PROVE  call'[q].add \subseteq roomIDs'[call'[q].client]
  <2>1. CASE q = p
    BY <1>0, <1>1, <1>2, <1>3, <2>1 DEF TypeOK
  <2>2. CASE q # p
    <3>1. call'[q] = call[q] /\ Holding(q)
      BY <1>3, <1>5, <2>2 DEF Holding
    <3>2. call[q].client \in Clients /\ call[q].client # call[p].client
      BY <1>0, <3>1 DEF CallInv, MutexInv, Holding
    <3> QED
      BY <1>0, <1>2, <3>1, <3>2 DEF ExactInv, TypeOK
  <2> QED
    BY <2>1, <2>2
<1>6. ASSUME NEW d \in Clients, NEW s \in Rooms, d \in rooms'[s]
      PROVE  s \in roomIDs'[d] \/ Removing(d, s)'
  <2>1. s \in roomIDs[d] \/ Removing(d, s)
    BY <1>2, <1>6 DEF ExactInv, MembershipInv
  <2>2. CASE d # call[p].client
    BY <1>0, <1>1, <1>2, <1>3, <2>1, <2>2, RemovingKept DEF TypeOK
  <2>3. CASE d = call[p].client
    <3>1. ~Removing(d, s)
      BY <1>0, <2>3 DEF Removing, MutexInv
    <3>2. s \in ids \/ s \in remove
      BY <2>1, <2>3, <3>1
    <3>3. s \in remove => Removing(d, s)'
      BY <1>3, <2>3 DEF Removing, Holding
    <3> QED
      BY <1>0, <1>1, <1>2, <2>3, <3>2, <3>3 DEF TypeOK
  <2> QED
    BY <2>2, <2>3
<1> QED
  BY <1>4, <1>5, <1>6 DEF ExactInv, MembershipInv

\* The steps of a call.
LEMMA StepExact ==
    ASSUME IInv, ExactInv, NEW p \in Procs, Step(p)
    PROVE  ExactInv'
<1>0. TypeOK /\ MutexInv /\ CallInv /\ EditInv
  BY DEF IInv
<1>1. call[p].pc # "disband"
  BY DEF ExactInv
<1>2. call[p].rooms \in SUBSET Rooms
      /\ (call[p].client \in Clients => roomIDs[call[p].client] \in SUBSET Rooms)
  BY <1>0 DEF TypeOK, Calls
<1>3. call[p].pc = "lock" => call[p].client \in Clients
  BY <1>0 DEF CallInv
<1>4. CASE Register(p)
  <2>1. roomIDs[call[p].client] = {}
    BY <1>0, <1>4 DEF Register, Locking, IInv, CallInv, FreshInv, Known, InactiveInv
  <2> QED
    BY <1>2, <1>4, <2>1, LockedExact DEF Register, Locking
<1>5. CASE Unregister(p)
  BY <1>2, <1>3, <1>5, LockedExact DEF Unregister, Locking
<1>6. CASE UpdateRooms(p)
  <2> DEFINE old == roomIDs[call[p].client]
             drop == old \ call[p].rooms
             fresh == call[p].rooms \ old
  <2>1. /\ call[p].pc = "lock" /\ mu[call[p].client] = None
        /\ Locked(p, TRUE, call[p].rooms, "edit", drop, fresh)
    BY <1>6 DEF UpdateRooms, Locking
  <2>2. /\ drop \in SUBSET Rooms /\ fresh \in SUBSET Rooms
        /\ roomIDs[call[p].client] \subseteq call[p].rooms \cup drop
        /\ fresh \subseteq call[p].rooms
    BY <1>2, <1>3, <2>1
  <2> HIDE DEF drop, fresh
  <2> QED
    BY <1>2, <2>1, <2>2, LockedExact
<1>7. CASE JoinRoom(p)
  <2>1. /\ call[p].pc = "lock" /\ mu[call[p].client] = None
        /\ Locked(p, TRUE, roomIDs[call[p].client] \cup call[p].rooms, "edit",
                  {}, call[p].rooms)
    BY <1>7 DEF JoinRoom, Locking
  <2>2. /\ roomIDs[call[p].client] \cup call[p].rooms \in SUBSET Rooms
        /\ {} \in SUBSET Rooms /\ call[p].rooms \in SUBSET Rooms
        /\ roomIDs[call[p].client] \subseteq (roomIDs[call[p].client] \cup call[p].rooms) \cup ({})
        /\ call[p].rooms \subseteq roomIDs[call[p].client] \cup call[p].rooms
    BY <1>2, <1>3, <2>1
  <2> QED
    BY <1>2, <1>3, <2>1, <2>2, LockedExact
<1>8. CASE LeaveRoom(p)
  <2>1. /\ call[p].pc = "lock" /\ mu[call[p].client] = None
        /\ Locked(p, TRUE, roomIDs[call[p].client] \ call[p].rooms, "edit",
                  call[p].rooms, {})
    BY <1>8 DEF LeaveRoom, Locking
  <2>2. /\ roomIDs[call[p].client] \ call[p].rooms \in SUBSET Rooms
        /\ call[p].rooms \in SUBSET Rooms /\ {} \in SUBSET Rooms
        /\ roomIDs[call[p].client] \subseteq (roomIDs[call[p].client] \ call[p].rooms) \cup (call[p].rooms)
        /\ {} \subseteq roomIDs[call[p].client] \ call[p].rooms
    BY <1>2, <1>3, <2>1
  <2> QED
    BY <1>2, <1>3, <2>1, <2>2, LockedExact
<1>9. CASE SetUser(p) \/ DeleteUser(p)
  <2>1. /\ UNCHANGED <<roomIDs, rooms>> /\ Holding(p)
        /\ call' = [call EXCEPT ![p] = Call("edit", call[p].op, call[p].client, call[p].user,
                                            {}, call[p].rem, call[p].add, {})]
    BY <1>9 DEF SetUser, DeleteUser, clientVars, Holding, GoOn
  <2>2. /\ \A q \in Procs : q # p => call'[q] = call[q]
        /\ call'[p].pc = "edit" /\ call'[p].client = call[p].client
        /\ call'[p].rem = call[p].rem /\ call'[p].add = call[p].add
    BY <1>0, <2>1 DEF Call, TypeOK
  <2>3. \A q \in Procs : call'[q].pc # "disband"
    BY <2>2 DEF ExactInv
  <2>4. \A q \in Procs : Holding(q)' => call'[q].add \subseteq roomIDs'[call'[q].client]
    BY <2>1, <2>2 DEF ExactInv, Holding
  <2>5. MembershipInv'
    BY <2>1, <2>2 DEF ExactInv, MembershipInv, Removing, Holding
  <2> QED
    BY <2>3, <2>4, <2>5 DEF ExactInv
<1>10. ASSUME NEW r \in Rooms, removeClientFromRoom(p, r) PROVE ExactInv'
  <2>1. /\ roomIDs' = roomIDs /\ call[p].pc = "edit"
        /\ rooms' = [rooms EXCEPT ![r] = @ \ {call[p].client}]
        /\ call' = [call EXCEPT ![p] = Call("edit", call[p].op, call[p].client, call[p].user,
                                            {}, call[p].rem \ {r}, call[p].add, {})]
    BY <1>10 DEF removeClientFromRoom, clientVars, GoOn
  <2>2. /\ \A q \in Procs : q # p => call'[q] = call[q]
        /\ call'[p].pc = "edit" /\ call'[p].client = call[p].client
        /\ call'[p].rem = call[p].rem \ {r} /\ call'[p].add = call[p].add
    BY <1>0, <2>1 DEF Call, TypeOK
  <2>3. \A q \in Procs : call'[q].pc # "disband"
    BY <2>2 DEF ExactInv
  <2>4. \A q \in Procs : Holding(q)' => call'[q].add \subseteq roomIDs'[call'[q].client]
    BY <2>1, <2>2 DEF ExactInv, Holding
  <2>5. ASSUME NEW d \in Clients, NEW s \in Rooms, d \in rooms'[s]
        PROVE  s \in roomIDs'[d] \/ Removing(d, s)'
    <3>1. d \in rooms[s] /\ (d = call[p].client => s # r)
      BY <1>0, <2>1, <2>5 DEF TypeOK
    <3>2. s \in roomIDs[d] \/ Removing(d, s)
      BY <3>1 DEF ExactInv, MembershipInv
    <3>3. Removing(d, s) => Removing(d, s)'
      BY <2>1, <2>2, <3>1 DEF Removing, Holding
    <3> QED
      BY <2>1, <3>2, <3>3
  <2> QED
    BY <2>3, <2>4, <2>5 DEF ExactInv, MembershipInv
<1>11. ASSUME NEW r \in Rooms, addClientToRoom(p, r) PROVE ExactInv'
  <2>1. /\ roomIDs' = roomIDs /\ call[p].pc = "edit" /\ call[p].rem = {} /\ r \in call[p].add
        /\ rooms' = [rooms EXCEPT ![r] = @ \cup {call[p].client}]
        /\ call' = [call EXCEPT ![p] = Call("edit", call[p].op, call[p].client, call[p].user,
                                            {}, {}, call[p].add \ {r}, {})]
    BY <1>11 DEF addClientToRoom, clientVars, GoOn
  <2>2. /\ \A q \in Procs : q # p => call'[q] = call[q]
        /\ call'[p].pc = "edit" /\ call'[p].client = call[p].client
        /\ call'[p].rem = {} /\ call'[p].add = call[p].add \ {r}
    BY <1>0, <2>1 DEF Call, TypeOK
  <2>3. \A q \in Procs : call'[q].pc # "disband"
    BY <2>2 DEF ExactInv
  <2>4. \A q \in Procs : Holding(q)' => call'[q].add \subseteq roomIDs'[call'[q].client]
    BY <2>1, <2>2 DEF ExactInv, Holding
  <2>5. r \in roomIDs[call[p].client]
    BY <2>1 DEF ExactInv, Holding
  <2>6. ASSUME NEW d \in Clients, NEW s \in Rooms, d \in rooms'[s]
        PROVE  s \in roomIDs'[d] \/ Removing(d, s)'
    <3>1. d \in rooms[s] \/ (d = call[p].client /\ s = r)
      BY <1>0, <2>1, <2>6 DEF TypeOK
    <3>2. s \in roomIDs[d] \/ Removing(d, s)
      BY <2>5, <3>1 DEF ExactInv, MembershipInv
    <3>3. Removing(d, s) => Removing(d, s)'
      BY <2>1, <2>2 DEF Removing, Holding
    <3> QED
      BY <2>1, <3>2, <3>3
  <2> QED
    BY <2>3, <2>4, <2>6 DEF ExactInv, MembershipInv
<1>12. CASE Unlock(p)
  <2>1. UNCHANGED <<roomIDs, rooms>> /\ call[p].rem = {} /\ call[p].pc = "edit"
    BY <1>12 DEF Unlock, clientVars
  <2>2. /\ \A q \in Procs : q # p => call'[q] = call[q]
        /\ call'[p].pc \in {"closeSend", "kick", "idle"}
    <3>1. CASE call[p].op = "Unregister"
      BY <1>0, <1>12, <3>1 DEF Unlock, GoOn, Call, TypeOK
    <3>2. CASE call[p].op # "Unregister" /\ call[p].op = "KickUser"
      BY <1>0, <1>12, <3>2 DEF Unlock, AfterCall, Call, TypeOK
    <3>3. CASE call[p].op # "Unregister" /\ call[p].op # "KickUser"
      BY <1>0, <1>12, <3>3 DEF Unlock, AfterCall, Idle, Call, TypeOK
    <3> QED
      BY <3>1, <3>2, <3>3
  <2>3. \A q \in Procs : call'[q].pc # "disband"
    BY <2>2 DEF ExactInv
  <2>4. \A q \in Procs : Holding(q)' => call'[q].add \subseteq roomIDs'[call'[q].client]
    BY <2>1, <2>2 DEF ExactInv, Holding
  <2>5. MembershipInv'
    BY <2>1, <2>2 DEF ExactInv, MembershipInv, Removing, Holding
  <2> QED
    BY <2>3, <2>4, <2>5 DEF ExactInv
<1>13. CASE EarlyReturn(p)
  <2>1. UNCHANGED <<roomIDs, rooms>> /\ ~Holding(p)
    BY <1>13 DEF EarlyReturn, Locking, clientVars, Holding
  <2>2. /\ \A q \in Procs : q # p => call'[q] = call[q]
        /\ call'[p].pc \in {"kick", "idle"}
    <3>1. CASE call[p].op = "KickUser"
      BY <1>0, <1>13, <3>1 DEF EarlyReturn, AfterCall, Call, TypeOK
    <3>2. CASE call[p].op # "KickUser"
      BY <1>0, <1>13, <3>2 DEF EarlyReturn, AfterCall, Idle, Call, TypeOK
    <3> QED
      BY <3>1, <3>2
  <2> QED
    BY <2>1, <2>2, OutsideExact
<1>14. CASE closeSend(p) \/ KickClose(p)
  <2>1. UNCHANGED <<roomIDs, rooms>> /\ ~Holding(p)
    BY <1>14 DEF closeSend, KickClose, clientVars, Holding
  <2>2. /\ \A q \in Procs : q # p => call'[q] = call[q]
        /\ call'[p].pc = "idle"
    BY <1>0, <1>14 DEF closeSend, KickClose, Idle, Call, TypeOK
  <2> QED
    BY <2>1, <2>2, OutsideExact
<1>15. CASE Kick(p)
  <2>1. UNCHANGED <<roomIDs, rooms>> /\ ~Holding(p)
    BY <1>15 DEF Kick, clientVars, Holding
  <2>2. /\ \A q \in Procs : q # p => call'[q] = call[q]
        /\ call'[p].pc \in {"kickClose", "idle"}
    <3>1. CASE clientByUser(call[p].user) = None
      BY <1>0, <1>15, <3>1 DEF Kick, Idle, Call, TypeOK
    <3>2. CASE clientByUser(call[p].user) # None
      BY <1>0, <1>15, <3>2 DEF Kick, Call, TypeOK
    <3> QED
      BY <3>1, <3>2
  <2> QED
    BY <2>1, <2>2, OutsideExact
<1>16. ~(DisbandReturn(p) \/ \E c \in Clients : DisbandVisit(p, c))
  BY <1>1 DEF DisbandReturn, DisbandVisit
<1> QED
  BY <1>4, <1>5, <1>6, <1>7, <1>8, <1>9, <1>10, <1>11, <1>12, <1>13, <1>14, <1>15, <1>16
     DEF Step

\* The start of a call.
LEMMA EnterExact ==
    ASSUME TypeOK, ExactInv, NEW p \in Procs, NEW o, NEW c, NEW u, NEW R,
           Enter(p, o, c, u, R), UNCHANGED <<roomIDs, rooms>>
    PROVE  ExactInv'
<1>1. /\ \A q \in Procs : q # p => call'[q] = call[q]
      /\ call'[p].pc = "lock" /\ ~Holding(p)
  BY DEF Enter, Call, TypeOK, Holding
<1> QED
  BY <1>1, OutsideExact

\* Without DisbandRoom every step keeps the two views together.
LEMMA NextExact ==
    ASSUME "DisbandRoom" \notin Ops
    PROVE  IInv /\ ExactInv /\ [Next]_vars => ExactInv'
<1> SUFFICES ASSUME IInv, ExactInv, [Next]_vars PROVE ExactInv'
  OBVIOUS
<1>0. TypeOK
  BY DEF IInv
<1>1. ASSUME NEW p \in Procs, Step(p) PROVE ExactInv'
  BY <1>1, StepExact
<1>2. ASSUME NEW p \in Controllers, Controller(p) PROVE ExactInv'
  <2>1. ASSUME NEW c \in Clients, StartUnregister(p, c) PROVE ExactInv'
    BY <1>0, <2>1, EnterExact DEF StartUnregister, clientVars
  <2>2. ASSUME NEW c \in Clients, NEW R \in SUBSET Rooms, StartUpdateRooms(p, c, R)
        PROVE ExactInv'
    BY <1>0, <2>2, EnterExact DEF StartUpdateRooms, clientVars
  <2>3. ASSUME NEW u \in Users, NEW r \in Rooms, StartJoinRoom(p, u, r) PROVE ExactInv'
    BY <1>0, <2>3, EnterExact DEF StartJoinRoom, clientVars
  <2>4. ASSUME NEW u \in Users, NEW r \in Rooms, StartLeaveRoom(p, u, r) PROVE ExactInv'
    BY <1>0, <2>4, EnterExact DEF StartLeaveRoom, clientVars
  <2>5. ASSUME NEW u \in Users, NEW r \in Rooms, StartKickUser(p, u, r) PROVE ExactInv'
    <3>1. /\ \A q \in Procs : q # p => call'[q] = call[q]
          /\ call'[p].pc \in {"kick", "lock"} /\ ~Holding(p)
      BY <1>0, <2>5 DEF StartKickUser, Call, TypeOK, Holding
    <3> QED
      BY <2>5, <3>1, OutsideExact DEF StartKickUser, clientVars
  <2>6. ASSUME NEW c \in Clients, CloseConnection(p, c) PROVE ExactInv'
    <3>1. /\ \A q \in Procs : q # p => call'[q] = call[q]
          /\ call'[p].pc = "kickClose" /\ ~Holding(p)
      BY <1>0, <2>6 DEF CloseConnection, Call, TypeOK, Holding
    <3> QED
      BY <2>6, <3>1, OutsideExact DEF CloseConnection, clientVars
  <2> QED
    BY <1>2, <2>1, <2>2, <2>3, <2>4, <2>5, <2>6 DEF Controller, DisbandRoom
<1>3. ASSUME NEW c \in Clients, Endpoint(c) PROVE ExactInv'
  <2>1. ASSUME NEW R \in SUBSET Rooms, EndpointRegister(c, R) PROVE ExactInv'
    BY <1>0, <2>1, EnterExact DEF EndpointRegister, clientVars
  <2>2. CASE EndpointUnregister(c)
    BY <1>0, <2>2, EnterExact DEF EndpointUnregister, clientVars
  <2>3. CASE PeerClose(c) \/ WritePumpExit(c)
    BY <2>3 DEF PeerClose, WritePumpExit, clientVars, ExactInv, MembershipInv, Removing, Holding
  <2> QED
    BY <1>3, <2>1, <2>2, <2>3 DEF Endpoint
<1>4. CASE UNCHANGED vars
  BY <1>4 DEF vars, ExactInv, MembershipInv, Removing, Holding
<1> QED
  BY <1>1, <1>2, <1>3, <1>4 DEF Next

\* If no controller calls DisbandRoom, a client whose lock is free is in the
\* client set of exactly the rooms in its roomIDs.
THEOREM ExactWithoutDisband ==
    ASSUME "DisbandRoom" \notin Ops
    PROVE  Spec => []RegistryExact
<1>1. Init => ExactInv
  BY DEF Init, Idle, Call, ExactInv, MembershipInv, Holding
<1>2. IInv /\ ExactInv /\ [Next]_vars => ExactInv'
  BY NextExact
<1>3. IInv /\ ExactInv => RegistryExact
  <2> SUFFICES ASSUME IInv, ExactInv, NEW c \in Clients, NEW r \in Rooms, mu[c] = None
               PROVE  c \in rooms[r] <=> r \in roomIDs[c]
    BY DEF RegistryExact
  <2>1. ~Removing(c, r) /\ ~Adding(c, r)
    BY DEF IInv, MutexInv, Removing, Adding
  <2>2. ~PendingDisband(c, r)
    BY DEF IInv, CallInv, ExactInv, PendingDisband
  <2> QED
    BY <2>1, <2>2 DEF IInv, SubscriptionInv, ExactInv, MembershipInv
<1> QED
  BY <1>1, <1>2, <1>3, Invariance, PTL DEF Spec

\* If no controller calls DisbandRoom, a client whose Send is closed is in no
\* room shard any more: the order ARCHITECTURE.md gives for Unregister.
THEOREM DetachedWithoutDisband ==
    ASSUME "DisbandRoom" \notin Ops
    PROVE  Spec => []UnregisterRemovesFromAllRooms
<1>1. Init => ExactInv
  BY DEF Init, Idle, Call, ExactInv, MembershipInv, Holding
<1>2. IInv /\ ExactInv /\ [Next]_vars => ExactInv'
  BY NextExact
<1>3. IInv /\ ExactInv => UnregisterRemovesFromAllRooms
  <2> SUFFICES ASSUME IInv, ExactInv, NEW c \in Clients, NEW r \in Rooms, sendClosed[c]
               PROVE  c \notin rooms[r]
    BY DEF UnregisterRemovesFromAllRooms
  <2>1. ~active[c] /\ roomIDs[c] = {}
    BY DEF IInv, ClosingInv, InactiveInv
  <2>2. ~Removing(c, r)
    BY <2>1 DEF IInv, HolderInv, Removing
  <2> QED
    BY <2>1, <2>2 DEF ExactInv, MembershipInv
<1> QED
  BY <1>1, <1>2, <1>3, Invariance, PTL DEF Spec
=============================================================================
