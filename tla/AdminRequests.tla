--------------------------- MODULE AdminRequests ---------------------------
(***************************************************************************)
(* What the requests of the admin API have in common: the middleware that  *)
(* admits them (shared/http/middleware, models/admin.go,                   *)
(* admin/api/router.go), their steps, and the audit log                    *)
(* (admin/application/audit.go).                                           *)
(*                                                                         *)
(* A step of a request is one call to MySQL, Redis or the object storage;  *)
(* requests interleave between their steps.  A fault is a call that        *)
(* returns an error.                                                       *)
(***************************************************************************)
EXTENDS Integers, Sequences, FiniteSets

CONSTANTS
    Requests,      \* requests that may be in progress at the same time
    MaxRequests,   \* bound on all requests
    MaxFaults      \* bound on failing calls

ASSUME RequestsAssumption == MaxRequests \in Nat /\ MaxFaults \in Nat

VARIABLES
    req,       \* the state of each request
    served,    \* how many requests have arrived
    faults,    \* how many calls have failed
    audit      \* admin_audit_logs

requestVars == <<req, served, faults, audit>>

Idle == [pc |-> "idle"]

RequestsInit ==
    /\ req = [r \in Requests |-> Idle]
    /\ served = 0 /\ faults = 0
    /\ audit = <<>>

-----------------------------------------------------------------------------
(* Roles and permissions                                                   *)

RoleUser == 0
RoleSuperAdmin == 1
RoleModerator == 2
RoleOperator == 3
Roles == {RoleUser, RoleSuperAdmin, RoleModerator, RoleOperator}

\* Only the permissions that some route asks for.
rolePermissionMap ==
    [role \in {RoleModerator, RoleOperator} |->
        {"user.read", "room.read", "moderation.read", "agent.read", "file.read"} \cup
        (IF role = RoleModerator
         THEN {"user.ban", "room.freeze", "room.delete", "moderation.review"}
         ELSE {"audit.read"})]

HasPermission(role, permission) ==
    \/ role = RoleSuperAdmin
    \/ role \in DOMAIN rolePermissionMap /\ permission \in rolePermissionMap[role]

IsAdminRole(role) == role \in {RoleSuperAdmin, RoleModerator, RoleOperator}

\* JWTAuth has taken the role from the token.  RequireAdmin, RequirePermission and
\* RequireAnyPermission stop a request that lacks what its route asks for.
RequireAdmin(role) == IsAdminRole(role)
RequireAnyPermission(role, permissions) == \E p \in permissions : HasPermission(role, p)

Admits(role, permissions) == RequireAdmin(role) /\ RequireAnyPermission(role, permissions)

-----------------------------------------------------------------------------
(* Steps of a request                                                      *)

At(r, pc) == req[r].pc = pc
Busy == {r \in Requests : req[r] # Idle}

Begin(r, rec) ==
    /\ req[r] = Idle /\ served < MaxRequests
    /\ req' = [req EXCEPT ![r] = rec]
    /\ served' = served + 1
    /\ UNCHANGED <<faults, audit>>

\* A request that is served by one query, or refused at once.
BeginAndEnd(r) ==
    /\ req[r] = Idle /\ served < MaxRequests
    /\ served' = served + 1
    /\ UNCHANGED <<req, faults, audit>>

Goto(r, pc) ==
    /\ req' = [req EXCEPT ![r].pc = pc]
    /\ UNCHANGED <<served, faults, audit>>

End(r) ==
    /\ req' = [req EXCEPT ![r] = Idle]
    /\ UNCHANGED <<served, faults, audit>>

\* A call fails, and the handler answers with an error.
Fails(r) ==
    /\ faults < MaxFaults
    /\ faults' = faults + 1
    /\ req' = [req EXCEPT ![r] = Idle]
    /\ UNCHANGED <<served, audit>>

\* AuditService.Log, the last call of a handler; the callers ignore its error or
\* return it, but undo nothing.
Log(r, entry) ==
    /\ \/ audit' = Append(audit, entry) /\ UNCHANGED faults
       \/ faults < MaxFaults /\ faults' = faults + 1 /\ UNCHANGED audit
    /\ req' = [req EXCEPT ![r] = Idle]
    /\ UNCHANGED served

\* BeforeData and AfterData: a string, or the JSON of a record.
AuditEntry(type, target, action, before, after) ==
    [type |-> type, target |-> target, action |-> action, before |-> before, after |-> after]

\* The entries of the log about one target.
Trail(type, target) == {i \in DOMAIN audit : audit[i].type = type /\ audit[i].target = target}
=============================================================================
