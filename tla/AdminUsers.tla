----------------------------- MODULE AdminUsers -----------------------------
(***************************************************************************)
(* UserService.ApplyAction (admin/application/user_service.go) with its    *)
(* handler (admin/api/admin_user.go), and the online keys in Redis         *)
(* (cache/redisconfig.go) that it clears and that the WebSocket endpoint   *)
(* (gateway/handlers/ws_handler.go) and the heartbeats                     *)
(* (gateway/websocket/client.go) maintain.                                 *)
(***************************************************************************)
EXTENDS AdminRequests

CONSTANTS
    Users,
    ManagedUsers,    \* the users whom requests name
    UserActions,     \* the actions that are requested
    Connections,     \* every connection is opened at most once
    ConnUser,        \* ConnUser[c]: the user who opens c
    None

ASSUME UsersAssumption ==
    /\ DOMAIN ConnUser = Connections
    /\ \A c \in Connections : ConnUser[c] \in Users
    /\ None \notin Connections /\ ManagedUsers \subseteq Users

VARIABLES
    users,      \* the users table
    conn,       \* connections: "new", "registered", "kicked", "open", "closed", "gone"
    entry,      \* the Hub's client of each user
    online,     \* the online key of each user: the connection that owns it, or None
    newest,     \* history: the connection whose SET was the last to succeed
    lapsed,     \* history: connections that lost a key by failed renewals or a ban
    disturbed   \* history: users with overlapping requests or with a failed one

userVars == <<users, conn, entry, online, newest, lapsed, disturbed>>
keyVars == <<online, newest, lapsed>>

\* The defaults of models.User.
NewUser == [role |-> RoleUser, status |-> 0]

UsersInit ==
    /\ users = [u \in Users |-> NewUser]
    /\ conn = [c \in Connections |-> "new"]
    /\ entry = [u \in Users |-> None]
    /\ online = [u \in Users |-> None]
    /\ newest = [u \in Users |-> None]
    /\ lapsed = {} /\ disturbed = {}

-----------------------------------------------------------------------------
(* The online key                                                          *)

\* Register: a later connection of the user replaces the entry.
Register(c) ==
    /\ conn[c] = "new"
    /\ conn' = [conn EXCEPT ![c] = "registered"]
    /\ entry' = [entry EXCEPT ![ConnUser[c]] = c]
    /\ UNCHANGED <<users, keyVars, disturbed, requestVars>>

\* SET with a TTL, whoever owns the key; an error is logged.  Who was kicked before
\* finds its connection closed afterwards.
SetUserConnectionOnline(c) ==
    /\ conn[c] \in {"registered", "kicked"}
    /\ conn' = [conn EXCEPT ![c] = IF @ = "kicked" THEN "closed" ELSE "open"]
    /\ \/ /\ online' = [online EXCEPT ![ConnUser[c]] = c]
          /\ newest' = [newest EXCEPT ![ConnUser[c]] = c]
          /\ UNCHANGED faults
       \/ faults < MaxFaults /\ faults' = faults + 1 /\ UNCHANGED <<online, newest>>
    /\ UNCHANGED <<users, entry, lapsed, disturbed, req, served, audit>>

\* The peer closes the connection.
Disconnect(c) ==
    /\ conn[c] = "open"
    /\ conn' = [conn EXCEPT ![c] = "closed"]
    /\ UNCHANGED <<users, entry, keyVars, disturbed, requestVars>>

\* A faulty script that deletes the key of any connection of the user.
deleteOnline(c) == [online EXCEPT ![ConnUser[c]] = None]

\* The script deletes the key only of its owner.
deleteOwnedOnline(c) == [online EXCEPT ![ConnUser[c]] = IF @ = c THEN None ELSE @]

\* WsEndpoint's deferred function: Unregister, then the script; an error is logged.
SetUserConnectionOffline(c) ==
    /\ conn[c] = "closed"
    /\ conn' = [conn EXCEPT ![c] = "gone"]
    /\ entry' = [entry EXCEPT ![ConnUser[c]] = IF @ = c THEN None ELSE @]
    /\ \/ online' = deleteOwnedOnline(c) /\ UNCHANGED faults
       \/ faults < MaxFaults /\ faults' = faults + 1 /\ UNCHANGED online
    /\ UNCHANGED <<users, newest, lapsed, disturbed, req, served, audit>>

\* The TTL runs out: RenewUserConnectionOnline, called with every ping, keeps the key of
\* an open owner unless its calls fail, and only of the owner.
Expire(u) ==
    LET owner == online[u]
    IN  /\ owner # None
        /\ online' = [online EXCEPT ![u] = None]
        /\ \/ conn[owner] \in {"closed", "gone"} /\ UNCHANGED <<faults, lapsed>>
           \/ /\ conn[owner] = "open"
              /\ faults < MaxFaults /\ faults' = faults + 1
              /\ lapsed' = lapsed \cup {owner}
        /\ UNCHANGED <<users, conn, entry, newest, disturbed, req, served, audit>>

\* CheckUserOnline and CheckUsersOnline.
CheckUserOnline(u) == online[u] # None

-----------------------------------------------------------------------------
(* UserService.ApplyAction                                                 *)

userActionPermission(action) ==
    IF action \in {"ban", "unban"} THEN "user.ban" ELSE "user.role.update"

Applied(user, action) ==
    CASE action = "ban" -> [user EXCEPT !.status = 1]
      [] action = "unban" -> [user EXCEPT !.status = 0]
      [] action = "role_super_admin" -> [user EXCEPT !.role = RoleSuperAdmin]
      [] action = "role_moderator" -> [user EXCEPT !.role = RoleModerator]
      [] action = "role_operator" -> [user EXCEPT !.role = RoleOperator]
      [] action = "role_user" -> [user EXCEPT !.role = RoleUser]

OnUser(r, u) == r \in Busy /\ "user" \in DOMAIN req[r] /\ req[r].user = u

\* The request passes the middleware and the check of its action; the row is read.
AdminUserAction(r, role, u, action) ==
    /\ IF /\ Admits(role, {"user.ban", "user.role.update"})
          /\ HasPermission(role, userActionPermission(action))
       THEN /\ Begin(r, [pc |-> "user.save", user |-> u, action |-> action, before |-> users[u]])
            /\ disturbed' = IF \E q \in Requests : OnUser(q, u) THEN disturbed \cup {u} ELSE disturbed
       ELSE BeginAndEnd(r) /\ UNCHANGED disturbed
    /\ UNCHANGED <<users, conn, entry, keyVars>>

\* A faulty ApplyAction that goes on when Save has failed.
SaveUserUnchecked(r) ==
    LET q == req[r]
    IN  /\ At(r, "user.save")
        /\ \/ users' = [users EXCEPT ![q.user] = Applied(q.before, q.action)]
           \/ UNCHANGED users
        /\ Goto(r, IF q.action = "ban" THEN "user.kick" ELSE "user.audit")
        /\ UNCHANGED <<conn, entry, keyVars, disturbed>>

\* Save writes every column as it was read, but for the one that the action changes.
SaveUser(r) ==
    LET q == req[r]
    IN  /\ At(r, "user.save")
        /\ \/ /\ users' = [users EXCEPT ![q.user] = Applied(q.before, q.action)]
              /\ Goto(r, IF q.action = "ban" THEN "user.kick" ELSE "user.audit")
           \/ Fails(r) /\ UNCHANGED users
        /\ UNCHANGED <<conn, entry, keyVars, disturbed>>

\* Kick closes the connection of the Hub's entry, only of that; an error ends the request
\* before the audit.
KickUser(r) ==
    LET u == req[r].user
        closing == [c \in Connections |->
            IF c # entry[u] THEN conn[c]
            ELSE IF conn[c] = "registered" THEN "kicked"
            ELSE IF conn[c] = "open" THEN "closed" ELSE conn[c]]
    IN  /\ At(r, "user.kick")
        /\ \/ conn' = closing /\ Goto(r, "user.offline") /\ UNCHANGED disturbed
           \/ Fails(r) /\ disturbed' = disturbed \cup {u} /\ UNCHANGED conn
        /\ UNCHANGED <<users, entry, keyVars>>

\* DEL, whoever owns the key; an error is ignored.
SetUserOffline(r) ==
    LET u == req[r].user
    IN  /\ At(r, "user.offline")
        /\ \/ /\ online' = [online EXCEPT ![u] = None]
              /\ lapsed' = IF online[u] = None THEN lapsed ELSE lapsed \cup {online[u]}
              /\ UNCHANGED faults
           \/ faults < MaxFaults /\ faults' = faults + 1 /\ UNCHANGED <<online, lapsed>>
        /\ req' = [req EXCEPT ![r].pc = "user.audit"]
        /\ UNCHANGED <<users, conn, entry, newest, disturbed, served, audit>>

userAuditItem(user) == [role |-> user.role, status |-> user.status]

writeUserAudit(r) ==
    LET q == req[r]
    IN  /\ At(r, "user.audit")
        /\ Log(r, AuditEntry("user", q.user, q.action, userAuditItem(q.before),
                             userAuditItem(Applied(q.before, q.action))))
        /\ disturbed' = IF faults' # faults THEN disturbed \cup {q.user} ELSE disturbed
        /\ UNCHANGED <<users, conn, entry, keyVars>>

UsersNext ==
    \/ \E c \in Connections :
        Register(c) \/ SetUserConnectionOnline(c) \/ Disconnect(c) \/ SetUserConnectionOffline(c)
    \/ \E u \in Users : Expire(u)
    \/ \E r \in Requests :
        \/ \E role \in Roles, u \in ManagedUsers, action \in UserActions : AdminUserAction(r, role, u, action)
        \/ SaveUser(r) \/ KickUser(r) \/ SetUserOffline(r) \/ writeUserAudit(r)

-----------------------------------------------------------------------------
(* Properties                                                              *)

Undisturbed(u) == u \notin disturbed /\ \A r \in Requests : ~OnUser(r, u)

\* The entries of the log about a user.
UserTrail(u) == Trail("user", u)

\* row is what the last of the entries before position i left, or a user's first row.
LeftBefore(u, i, row) ==
    LET earlier == {j \in UserTrail(u) : j < i}
    IN  \/ earlier = {} /\ row = NewUser
        \/ \E j \in earlier : row = audit[j].after /\ \A k \in earlier : k <= j

\* As long as no two requests for a user overlap and no call has failed, the audit
\* trail of the user is a chain of changes that starts at the row a user is created
\* with and ends at the present row.
AuditReplays ==
    \A u \in Users : Undisturbed(u) =>
        /\ \A i \in UserTrail(u) : LeftBefore(u, i, audit[i].before)
        /\ LeftBefore(u, Len(audit) + 1, userAuditItem(users[u]))

\* The key of a user stays with the connection that has set it last for as long as that
\* connection is open and its renewals succeed, whatever older connections do when they
\* end; and no key names a connection that has cleaned up, unless a call has failed.
OnlineFollowsOwner ==
    \A u \in Users :
        /\ newest[u] # None /\ conn[newest[u]] = "open" /\ newest[u] \notin lapsed
            => online[u] = newest[u]
        /\ online[u] # None /\ faults = 0 => conn[online[u]] # "gone"
=============================================================================
