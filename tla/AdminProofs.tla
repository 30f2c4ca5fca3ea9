---------------------------- MODULE AdminProofs ----------------------------
(***************************************************************************)
(* Eight promises of the admin API hold for any number of requests,        *)
(* faults, users, connections, files, events and configuration fields: the *)
(* online keys follow their owners, the history of the configuration is a  *)
(* chain, what is registered is kept, files are handed out only to those   *)
(* they are meant for, the audit log tells how each user's row came about, *)
(* whoever pages through it misses nothing, penalty and review of an event *)
(* belong together, and the lists and the details agree.                   *)
(***************************************************************************)
EXTENDS Admin, FiniteSetTheorems, WellFoundedInduction, TLAPS

----------------------------------------------------------------------------
(***************************************************************************)
(* The requests.                                                           *)
(***************************************************************************)
RequestsOK ==
    /\ faults \in Nat
    /\ req = [r \in Requests |-> req[r]]

\* Every step moves at most one request, and calls that fail are only ever counted.
LEMMA RequestsKept ==
    ASSUME RequestsOK, [AdminNext]_vars
    PROVE  RequestsOK' /\ (faults' = 0 => faults = 0)
<1> DEFINE Grows == /\ faults' = faults \/ faults' = faults + 1
                    /\ req' = [x \in Requests |-> req'[x]]
<1>0. faults \in Nat /\ req = [x \in Requests |-> req[x]]
  BY DEF RequestsOK
<1>1. CASE UsersNext
  <2> USE DEF Begin, BeginAndEnd, Goto, End, Fails, Log, requestVars
  <2>1. ASSUME NEW c \in Connections,
               \/ Register(c) \/ SetUserConnectionOnline(c) \/ Disconnect(c)
               \/ SetUserConnectionOffline(c)
        PROVE  Grows
    BY <1>0, <2>1 DEF Register, SetUserConnectionOnline, Disconnect, SetUserConnectionOffline
  <2>2. ASSUME NEW u \in Users, Expire(u) PROVE Grows
    BY <1>0, <2>2 DEF Expire
  <2>3. ASSUME NEW r \in Requests, NEW role \in Roles, NEW u \in ManagedUsers,
               NEW action \in UserActions, AdminUserAction(r, role, u, action)
        PROVE  Grows
    BY <1>0, <2>3 DEF AdminUserAction
  <2>4. ASSUME NEW r \in Requests,
               SaveUser(r) \/ KickUser(r) \/ SetUserOffline(r) \/ writeUserAudit(r)
        PROVE  Grows
    BY <1>0, <2>4 DEF SaveUser, KickUser, SetUserOffline, writeUserAudit
  <2>5. Grows
    BY <1>1, <2>1, <2>2, <2>3, <2>4 DEF UsersNext
  <2>6. QED
    BY <1>0, <2>5 DEF RequestsOK
<1>2. CASE ConfigNext
  <2> USE DEF Begin, BeginAndEnd, Goto, End, Fails, Log
  <2>1. ASSUME NEW r \in Requests, NEW role \in Roles,
               \/ AdminAgentConfigGet(r, role) \/ AdminAgentConfigRollback(r, role)
               \/ \E input \in Inputs : AdminAgentConfigUpdate(r, role, input)
        PROVE  Grows
    BY <1>0, <2>1 DEF AdminAgentConfigGet, AdminAgentConfigUpdate, AdminAgentConfigRollback
  <2>2. ASSUME NEW r \in Requests,
               ReadForRollback(r) \/ CreateConfig(r) \/ SaveConfig(r) \/ auditConfig(r)
        PROVE  Grows
    BY <1>0, <2>2 DEF ReadForRollback, CreateConfig, SaveConfig, auditConfig
  <2>3. Grows
    BY <1>2, <2>1, <2>2 DEF ConfigNext
  <2>4. QED
    BY <1>0, <2>3 DEF RequestsOK
<1>3. CASE ModerationNext
  <2> USE DEF Begin, BeginAndEnd, Goto, End, Fails, Log, requestVars
  <2>1. Grows
    BY <1>0, <1>3 DEF ModerationNext, CreateEvent, AdminModerationAction, SaveEvent, auditEvent
  <2>2. QED
    BY <1>0, <2>1 DEF RequestsOK
<1>4. CASE FilesNext
  <2> USE DEF Begin, BeginAndEnd, Goto, End, Fails, Log, requestVars
  <2>1. ASSUME NEW k \in Keys,
               PutObject(k) \/ \E u \in FileUsers : PreSignUpload(u, k)
        PROVE  Grows
    BY <1>0, <2>1 DEF PutObject, PreSignUpload
  <2>2. ASSUME NEW r \in Requests,
               \E u \in FileUsers, k \in Keys, room \in FileRooms \cup {0} :
                  CompleteUpload(r, u, k, room)
        PROVE  Grows
    BY <1>0, <2>2 DEF CompleteUpload
  <2>3. ASSUME NEW r \in Requests, NEW role \in Roles,
               \/ \E k \in Keys : AdminFileDelete(r, role, k)
               \/ AdminFileScan(r, role) \/ AdminFileCleanup(r, role)
        PROVE  Grows
    BY <1>0, <2>3 DEF AdminFileDelete, AdminFileScan, AdminFileCleanup, ScanAnomalies
  <2>4. ASSUME NEW r \in Requests, RegisterFile(r) \/ DeleteRecord(r) \/ RemoveObject(r)
        PROVE  Grows
    BY <1>0, <2>4 DEF RegisterFile, DeleteRecord, RemoveObject
  <2>5. ASSUME NEW r \in Requests,
               ListObjects(r) \/ CleanupOrphan(r) \/ CleanupDone(r) \/ auditFile(r)
        PROVE  Grows
    BY <1>0, <2>5 DEF ListObjects, CleanupOrphan, CleanupDone, auditFile
  <2>6. Grows
    BY <1>4, <2>1, <2>2, <2>3, <2>4, <2>5 DEF FilesNext
  <2>7. QED
    BY <1>0, <2>6 DEF RequestsOK
<1>5. CASE StartWalk \/ NextPage \/ UNCHANGED vars
  BY <1>0, <1>5 DEF RequestsOK, StartWalk, NextPage, vars, requestVars
<1>6. QED
  BY <1>1, <1>2, <1>3, <1>4, <1>5 DEF AdminNext

----------------------------------------------------------------------------
(***************************************************************************)
(* The online keys.                                                        *)
(***************************************************************************)
ConnStates == {"new", "registered", "kicked", "open", "closed", "gone"}

\* A key names a connection of its user that has called SET.
OwnKey(key) ==
    /\ key \in [Users -> Connections \cup {None}]
    /\ \A u \in Users : key[u] # None =>
          ConnUser[key[u]] = u /\ conn[key[u]] \in {"open", "closed", "gone"}

OnlineInv ==
    /\ RequestsOK
    /\ conn \in [Connections -> ConnStates]
    /\ OwnKey(online) /\ OwnKey(newest)
    /\ OnlineFollowsOwner

\* Nobody is connected at first.
LEMMA OnlineInit == AdminInit => OnlineInv
BY DEF AdminInit, RequestsInit, UsersInit, RequestsOK, OnlineInv, ConnStates, OwnKey, OnlineFollowsOwner

\* A step that leaves the connections and the keys alone.
LEMMA KeysUntouched ==
    ASSUME OnlineInv, RequestsOK', faults' = 0 => faults = 0,
           UNCHANGED <<conn, online, newest, lapsed>>
    PROVE  OnlineInv'
BY DEF OnlineInv, OwnKey, OnlineFollowsOwner

\* A connection registers, sets its key, is closed and cleans up.
LEMMA ConnectionKeeps ==
    ASSUME OnlineInv, RequestsOK', NEW c \in Connections,
           Register(c) \/ SetUserConnectionOnline(c) \/ Disconnect(c) \/ SetUserConnectionOffline(c)
    PROVE  OnlineInv'
<1> USE UsersAssumption
<1>1. /\ faults \in Nat /\ conn \in [Connections -> ConnStates]
      /\ OwnKey(online) /\ OwnKey(newest) /\ OnlineFollowsOwner
  BY DEF OnlineInv, RequestsOK
<1>2. ConnUser[c] \in Users /\ c # None
  OBVIOUS
<1>3. CASE Register(c) \/ Disconnect(c)
  <2>1. UNCHANGED <<online, newest, lapsed, faults>>
    BY <1>3 DEF Register, Disconnect, keyVars, requestVars
  <2>2. \/ conn[c] = "new" /\ conn' = [conn EXCEPT ![c] = "registered"]
        \/ conn[c] = "open" /\ conn' = [conn EXCEPT ![c] = "closed"]
    BY <1>3 DEF Register, Disconnect
  <2>3. QED
    BY <1>1, <2>1, <2>2 DEF OnlineInv, OwnKey, OnlineFollowsOwner, ConnStates
<1>4. CASE SetUserConnectionOnline(c)
  <2>1. /\ conn[c] \in {"registered", "kicked"} /\ UNCHANGED lapsed
        /\ \E d \in {"open", "closed"} : conn' = [conn EXCEPT ![c] = d]
        /\ \/ /\ online' = [online EXCEPT ![ConnUser[c]] = c]
              /\ newest' = [newest EXCEPT ![ConnUser[c]] = c]
              /\ UNCHANGED faults
           \/ faults' = faults + 1 /\ UNCHANGED <<online, newest>>
    BY <1>4 DEF SetUserConnectionOnline
  <2>2. conn' \in [Connections -> ConnStates] /\ faults' \in Nat
    BY <1>1, <2>1 DEF ConnStates
  <2>3. OwnKey(online)' /\ OwnKey(newest)'
    BY <1>1, <1>2, <2>1 DEF OwnKey
  <2>4. OnlineFollowsOwner'
    BY <1>1, <1>2, <2>1 DEF OnlineFollowsOwner, OwnKey
  <2>5. QED
    BY <2>2, <2>3, <2>4 DEF OnlineInv
<1>5. CASE SetUserConnectionOffline(c)
  <2>1. /\ conn[c] = "closed" /\ conn' = [conn EXCEPT ![c] = "gone"] /\ UNCHANGED <<newest, lapsed>>
        /\ \/ /\ online' = [online EXCEPT ![ConnUser[c]] =
                               IF online[ConnUser[c]] = c THEN None ELSE online[ConnUser[c]]]
              /\ UNCHANGED faults
           \/ faults' = faults + 1 /\ UNCHANGED online
    BY <1>5 DEF SetUserConnectionOffline, deleteOwnedOnline
  <2>2. conn' \in [Connections -> ConnStates] /\ faults' \in Nat
    BY <1>1, <2>1 DEF ConnStates
  <2>3. OwnKey(online)' /\ OwnKey(newest)'
    BY <1>1, <1>2, <2>1 DEF OwnKey
  <2>4. OnlineFollowsOwner'
    BY <1>1, <1>2, <2>1 DEF OnlineFollowsOwner, OwnKey
  <2>5. QED
    BY <2>2, <2>3, <2>4 DEF OnlineInv
<1>6. QED
  BY <1>3, <1>4, <1>5

\* A key expires, and a ban closes the user's connection and deletes the key.
LEMMA ExpireAndBanKeep ==
    ASSUME OnlineInv, RequestsOK',
           \/ \E u \in Users : Expire(u)
           \/ \E r \in Requests : KickUser(r) \/ SetUserOffline(r)
    PROVE  OnlineInv'
<1> USE UsersAssumption
<1>1. /\ faults \in Nat /\ conn \in [Connections -> ConnStates]
      /\ OwnKey(online) /\ OwnKey(newest) /\ OnlineFollowsOwner
  BY DEF OnlineInv, RequestsOK
<1>2. ASSUME NEW u \in Users, Expire(u) PROVE OnlineInv'
  <2>1. /\ online[u] # None /\ online' = [online EXCEPT ![u] = None] /\ UNCHANGED <<conn, newest>>
        /\ \/ conn[online[u]] \in {"closed", "gone"} /\ UNCHANGED <<faults, lapsed>>
           \/ faults' = faults + 1 /\ lapsed' = lapsed \cup {online[u]}
    BY <1>2 DEF Expire
  <2>2. OwnKey(online)' /\ OwnKey(newest)' /\ faults' \in Nat
    BY <1>1, <2>1 DEF OwnKey
  <2>3. OnlineFollowsOwner'
    BY <1>1, <2>1 DEF OnlineFollowsOwner, OwnKey
  <2>4. QED
    BY <1>1, <2>1, <2>2, <2>3 DEF OnlineInv
<1>3. ASSUME NEW r \in Requests, KickUser(r) PROVE OnlineInv'
  <2>1. /\ UNCHANGED <<online, newest, lapsed>>
        /\ faults' \in Nat /\ (faults' = 0 => faults = 0)
    BY <1>1, <1>3 DEF KickUser, keyVars, Goto, Fails
  <2>2. /\ conn' \in [Connections -> ConnStates]
        /\ \A c \in Connections : \/ conn'[c] = conn[c]
                                  \/ conn[c] = "registered" /\ conn'[c] = "kicked"
                                  \/ conn[c] = "open" /\ conn'[c] = "closed"
    BY <1>1, <1>3 DEF KickUser, ConnStates
  <2>3. OwnKey(online)' /\ OwnKey(newest)'
    BY <1>1, <2>1, <2>2 DEF OwnKey
  <2>4. OnlineFollowsOwner'
    BY <1>1, <2>1, <2>2 DEF OnlineFollowsOwner, OwnKey
  <2>5. QED
    BY <2>1, <2>2, <2>3, <2>4 DEF OnlineInv
<1>4. ASSUME NEW r \in Requests, SetUserOffline(r) PROVE OnlineInv'
  <2> DEFINE u == req[r].user
  <2>1. /\ UNCHANGED <<conn, newest>>
        /\ \/ /\ online' = [online EXCEPT ![u] = None] /\ UNCHANGED faults
              /\ lapsed' = IF online[u] = None THEN lapsed ELSE lapsed \cup {online[u]}
           \/ faults' = faults + 1 /\ UNCHANGED <<online, lapsed>>
    BY <1>4 DEF SetUserOffline
  <2> HIDE DEF u
  <2>2. OwnKey(online)' /\ OwnKey(newest)' /\ faults' \in Nat
    BY <1>1, <2>1 DEF OwnKey
  <2>3. OnlineFollowsOwner'
    BY <1>1, <2>1 DEF OnlineFollowsOwner, OwnKey
  <2>4. QED
    BY <1>1, <2>1, <2>2, <2>3 DEF OnlineInv
<1>5. QED
  BY <1>2, <1>3, <1>4

\* Every step keeps the keys with their owners.
LEMMA OnlineStep ==
    ASSUME OnlineInv, [AdminNext]_vars
    PROVE  OnlineInv'
<1>1. RequestsOK' /\ (faults' = 0 => faults = 0)
  BY RequestsKept DEF OnlineInv
<1>2. CASE UsersNext
  <2>1. CASE \E r \in Requests :
               \/ \E role \in Roles, u \in ManagedUsers, action \in UserActions :
                     AdminUserAction(r, role, u, action)
               \/ SaveUser(r) \/ writeUserAudit(r)
    <3>1. UNCHANGED <<conn, online, newest, lapsed>>
      BY <2>1 DEF AdminUserAction, SaveUser, writeUserAudit, keyVars
    <3>2. QED
      BY <1>1, <3>1, KeysUntouched
  <2>2. QED
    BY <1>1, <1>2, <2>1, ConnectionKeeps, ExpireAndBanKeep DEF UsersNext
<1>3. CASE UNCHANGED userVars
  BY <1>1, <1>3, KeysUntouched DEF userVars
<1>4. UsersNext \/ UNCHANGED userVars
  BY DEF AdminNext, StartWalk, NextPage, vars
<1>5. QED
  BY <1>2, <1>3, <1>4

\* The online key stays with the connection that has set it last, whatever older
\* connections, bans of others and failing calls do, and no key outlives the cleanup of
\* its connection.
THEOREM KeysFollowOwners == AdminSpec => []OnlineFollowsOwner
<1>1. OnlineInv => OnlineFollowsOwner
  BY DEF OnlineInv
<1>2. QED
  BY <1>1, OnlineInit, OnlineStep, PTL DEF AdminSpec

----------------------------------------------------------------------------
(***************************************************************************)
(* The configuration and its history.                                      *)
(***************************************************************************)
ConfigSet == [Fields -> Int]
Changes == {"update", "rollback"}
HistoryRow == [version : Nat, before : ConfigSet, after : ConfigSet,
               change : Changes, based : Nat]

\* A request that only reads, one that has not read the row yet, one that holds it.
Creating == [pc : {"config.create"}, change : {"none"}]
Reading == [pc : {"config.read", "config.create"}, change : Changes,
            input : ConfigSet, based : Nat]
Saving == [pc : {"config.save", "config.audit"}, change : Changes,
           before : ConfigSet, after : ConfigSet, based : Nat]

\* As long as nobody has saved since its first read, a rollback has the state before
\* the last change, and a request that holds the row holds the present one.
UpToDate(q) ==
    /\ q \in {Idle} \cup Creating \cup Reading \cup Saving
    /\ q \in Reading =>
        /\ q.based <= Len(history)
        /\ q.change = "rollback" =>
            q.based > 0 /\ (q.based = Len(history) => q.input = history[q.based].before)
    /\ q \in Saving =>
        /\ q.pc = "config.save" /\ q.based = Len(history) => q.before = config
        /\ q.based <= Len(history)
        /\ q.change = "rollback" =>
            q.based > 0 /\ (q.pc = "config.save" /\ q.based = Len(history)
                                => q.after = history[q.based].before)

\* A rollback has seen the row that it undoes.
RollbacksUndo ==
    \A i \in 1..Len(history) : history[i].change = "rollback" => history[i].based > 0

ConfigInv ==
    /\ config \in ConfigSet \cup {NoConfig}
    /\ history \in Seq(HistoryRow)
    /\ RequestsOK
    /\ part = "config" => \A r \in Requests : UpToDate(req[r])
    /\ RollbacksUndo /\ HistoryIntact

\* A configuration is not the absence of one: it has fields.
LEMMA ConfigIsSome == NoConfig \notin ConfigSet
<1> SUFFICES ASSUME NoConfig \in ConfigSet PROVE FALSE
  OBVIOUS
<1>1. DOMAIN NoConfig = {}
  BY DEF NoConfig
<1>2. DOMAIN NoConfig = Fields
  BY DEF ConfigSet
<1>3. QED
  BY <1>1, <1>2, ConfigAssumption

\* There is neither a row nor a request at first.
LEMMA ConfigInit0 == AdminInit => ConfigInv
<1> SUFFICES ASSUME AdminInit PROVE ConfigInv
  OBVIOUS
<1>1. /\ config = NoConfig /\ history = <<>> /\ req = [r \in Requests |-> Idle]
  BY DEF AdminInit, RequestsInit, ConfigInit
<1>2. UpToDate(Idle)
  BY DEF UpToDate, Idle, Creating, Reading, Saving
<1>3. HistoryIntact /\ RollbacksUndo
  BY <1>1 DEF HistoryIntact, RollbacksUndo
<1>4. faults = 0
  BY DEF AdminInit, RequestsInit
<1>5. QED
  BY <1>1, <1>2, <1>3, <1>4 DEF ConfigInv, RequestsOK

\* A request that has ended holds nothing.
LEMMA IdleUpToDate == UpToDate(Idle) /\ UpToDate(Idle)'
BY DEF UpToDate, Idle, Creating, Reading, Saving

\* A request moves on while the tables stay as they are.
LEMMA RequestMoves ==
    ASSUME ConfigInv, RequestsOK', NEW r \in Requests, NEW q, UpToDate(q),
           req' = [req EXCEPT ![r] = q], UNCHANGED <<config, history, part>>
    PROVE  ConfigInv'
<1>1. /\ config \in ConfigSet \cup {NoConfig} /\ history \in Seq(HistoryRow)
      /\ req = [x \in Requests |-> req[x]]
      /\ part = "config" => \A x \in Requests : UpToDate(req[x])
      /\ HistoryIntact /\ RollbacksUndo
  BY DEF ConfigInv, RequestsOK
<1>2. HistoryIntact' /\ RollbacksUndo'
  BY <1>1 DEF HistoryIntact, RollbacksUndo
<1>3. req' = [x \in Requests |-> req'[x]]
  BY <1>1
<1>4. \A x \in Requests : req'[x] = IF x = r THEN q ELSE req[x]
  BY <1>1
<1>5. ASSUME part = "config", NEW x \in Requests PROVE UpToDate(req[x])'
  <2>1. UpToDate(req'[x])
    BY <1>1, <1>4, <1>5
  <2>2. QED
    BY <2>1 DEF UpToDate
<1>6. QED
  BY <1>1, <1>2, <1>3, <1>5 DEF ConfigInv

\* Reading the row makes a request that holds it, or one that has to create it.
LEMMA GetOrCreateUpToDate ==
    ASSUME config \in ConfigSet \cup {NoConfig}, history \in Seq(HistoryRow),
           NEW q \in Reading, UpToDate(q)
    PROVE  UpToDate(getOrCreate(q))
<1>1. /\ q.pc \in {"config.read", "config.create"} /\ q.change \in Changes
      /\ q.input \in ConfigSet /\ q.based \in Nat
      /\ q.based <= Len(history)
      /\ q.change = "rollback" =>
            q.based > 0 /\ (q.based = Len(history) => q.input = history[q.based].before)
  BY DEF UpToDate, Reading
<1>2. CASE config = NoConfig
  <2>1. getOrCreate(q) = [q EXCEPT !.pc = "config.create"]
    BY <1>2 DEF getOrCreate
  <2> DEFINE p == [q EXCEPT !.pc = "config.create"]
  <2>2. /\ p \in Reading /\ p.change = q.change /\ p.based = q.based /\ p.input = q.input
        /\ p.pc = "config.create"
    BY DEF Reading
  <2>3. p \notin Saving
    BY <2>2 DEF Saving
  <2> HIDE DEF p
  <2>4. UpToDate(p)
    BY <1>1, <2>2, <2>3 DEF UpToDate
  <2>5. QED
    BY <2>1, <2>4 DEF p
<1>3. CASE config \in ConfigSet /\ config # NoConfig
  <2> DEFINE p == Holding(q, config)
  <2>1. getOrCreate(q) = p
    BY <1>3 DEF getOrCreate
  <2>2. Merged(config, q.input) \in ConfigSet
    BY <1>1, <1>3 DEF Merged, ConfigSet
  <2>3. Changed(q, config) \in ConfigSet /\ (q.change = "rollback" => Changed(q, config) = q.input)
    BY <1>1, <2>2 DEF Changed
  <2>4. /\ p \in Saving /\ p.pc = "config.save" /\ p.change = q.change /\ p.based = q.based
        /\ p.before = config /\ p.after = Changed(q, config)
    BY <1>1, <1>3, <2>3 DEF Holding, Saving
  <2>5. p \notin Reading
    BY <2>4 DEF Reading
  <2> HIDE DEF p
  <2>6. UpToDate(p)
    BY <1>1, <2>3, <2>4, <2>5 DEF UpToDate
  <2>7. QED
    BY <2>1, <2>6
<1>4. QED
  BY <1>2, <1>3, ConfigIsSome

\* The handlers begin with a request that knows how many versions there are.
LEMMA ConfigBegins ==
    ASSUME ConfigInv, RequestsOK', part = "config", part' = part,
           NEW r \in Requests, NEW role \in Roles,
           \/ AdminAgentConfigGet(r, role) \/ AdminAgentConfigRollback(r, role)
           \/ \E input \in Inputs : AdminAgentConfigUpdate(r, role, input)
    PROVE  ConfigInv'
<1>1. /\ config \in ConfigSet \cup {NoConfig} /\ history \in Seq(HistoryRow)
      /\ req = [x \in Requests |-> req[x]] /\ UpToDate(req[r])
  BY DEF ConfigInv, RequestsOK
<1>2. UNCHANGED <<config, history, part>>
  BY DEF AdminAgentConfigGet, AdminAgentConfigRollback, AdminAgentConfigUpdate, configVars
<1>3. ASSUME BeginAndEnd(r) PROVE ConfigInv'
  <2>1. req' = [req EXCEPT ![r] = req[r]]
    BY <1>1, <1>3 DEF BeginAndEnd
  <2>2. QED
    BY <1>1, <1>2, <2>1, RequestMoves
<1>4. CASE AdminAgentConfigGet(r, role)
  <2> DEFINE q == [pc |-> "config.create", change |-> "none"]
  <2>1. BeginAndEnd(r) \/ req' = [req EXCEPT ![r] = q]
    BY <1>4 DEF AdminAgentConfigGet, Begin
  <2>2. q \in Creating /\ q \notin Reading /\ q \notin Saving
    BY DEF Creating, Reading, Saving, Changes
  <2>3. UpToDate(q)
    BY <2>2 DEF UpToDate
  <2>4. QED
    BY <1>2, <1>3, <2>1, <2>3, RequestMoves
<1>5. ASSUME NEW input \in Inputs, AdminAgentConfigUpdate(r, role, input) PROVE ConfigInv'
  <2> DEFINE q == [pc |-> "config.read", change |-> "update", input |-> input,
                   based |-> Len(history)]
  <2>1. BeginAndEnd(r) \/ req' = [req EXCEPT ![r] = getOrCreate(q)]
    BY <1>5 DEF AdminAgentConfigUpdate, Begin
  <2>2. /\ q \in Reading /\ q \notin Saving /\ q.based = Len(history) /\ q.change = "update"
        /\ Len(history) \in Nat
    BY <1>1, ConfigAssumption DEF Reading, Saving, Changes, ConfigSet
  <2> HIDE DEF q
  <2>3. UpToDate(q)
    BY <2>2 DEF UpToDate
  <2>4. UpToDate(getOrCreate(q))
    BY <1>1, <2>2, <2>3, GetOrCreateUpToDate
  <2>5. QED
    BY <1>2, <1>3, <2>1, <2>4, RequestMoves
<1>6. CASE AdminAgentConfigRollback(r, role)
  <2> DEFINE q == [pc |-> "config.read", change |-> "rollback",
                   input |-> history[Len(history)].before, based |-> Len(history)]
  <2>1. BeginAndEnd(r) \/ (history # <<>> /\ req' = [req EXCEPT ![r] = q])
    BY <1>6 DEF AdminAgentConfigRollback, Begin
  <2>2. ASSUME history # <<>> PROVE UpToDate(q)
    <3>1. Len(history) \in Nat \ {0} /\ history[Len(history)] \in HistoryRow
      BY <1>1, <2>2
    <3>2. /\ q \in Reading /\ q \notin Saving /\ q.based = Len(history)
          /\ q.input = history[Len(history)].before
      BY <3>1 DEF Reading, Saving, Changes, HistoryRow
    <3> HIDE DEF q
    <3>3. QED
      BY <3>1, <3>2 DEF UpToDate
  <2>3. QED
    BY <1>2, <1>3, <2>1, <2>2, RequestMoves
<1>7. QED
  BY <1>4, <1>5, <1>6

\* The second read of a rollback, the audit entry, and requests that end.
LEMMA ConfigGoesOn ==
    ASSUME ConfigInv, RequestsOK', part = "config", part' = part, NEW r \in Requests,
           \/ ReadForRollback(r) \/ auditConfig(r)
           \/ (CreateConfig(r) \/ SaveConfig(r)) /\ UNCHANGED <<config, history>>
              /\ (End(r) \/ Fails(r))
    PROVE  ConfigInv'
<1>1. /\ config \in ConfigSet \cup {NoConfig} /\ history \in Seq(HistoryRow)
      /\ req = [x \in Requests |-> req[x]] /\ UpToDate(req[r])
  BY DEF ConfigInv, RequestsOK
<1>2. UNCHANGED <<config, history, part>>
  BY DEF ReadForRollback, auditConfig, configVars
<1>3. ASSUME req' = [req EXCEPT ![r] = Idle] PROVE ConfigInv'
  BY <1>2, <1>3, IdleUpToDate, RequestMoves
<1>4. CASE ReadForRollback(r)
  <2>1. \/ req' = [req EXCEPT ![r] = Idle]
        \/ req' = [req EXCEPT ![r] = getOrCreate(req[r])]
    BY <1>4 DEF ReadForRollback, Fails
  <2>2. req[r].pc = "config.read"
    BY <1>4 DEF ReadForRollback, At
  <2>3. req[r] \in Reading
    BY <1>1, <2>2 DEF UpToDate, Idle, Creating, Saving
  <2>4. UpToDate(getOrCreate(req[r]))
    BY <1>1, <2>3, GetOrCreateUpToDate
  <2>5. QED
    BY <1>2, <1>3, <2>1, <2>4, RequestMoves
<1>5. CASE auditConfig(r)
  <2>1. req' = [req EXCEPT ![r] = Idle]
    BY <1>5 DEF auditConfig, Log
  <2>2. QED
    BY <1>3, <2>1
<1>6. CASE End(r) \/ Fails(r)
  <2>1. req' = [req EXCEPT ![r] = Idle]
    BY <1>6 DEF End, Fails
  <2>2. QED
    BY <1>3, <2>1
<1>7. QED
  BY <1>4, <1>5, <1>6

\* The versions are 1, 2, ..., so the next one is the number of rows and one.
LEMMA NextVersion ==
    ASSUME history \in Seq(HistoryRow), HistoryIntact, NEW q
    PROVE  nextVersion(q) = Len(history) + 1
<1> DEFINE n == Len(history)
           S == {h.version : h \in {history[i] : i \in 1..Len(history)}} \cup {0}
<1>1. n \in Nat /\ \A i \in 1..n : history[i].version = i
  BY DEF HistoryIntact
<1>2. S = {history[i].version : i \in 1..n} \cup {0}
  OBVIOUS
<1>3. S = 0..n
  BY <1>1, <1>2
<1> HIDE DEF S
<1>4. n \in S /\ \A y \in S : n >= y
  BY <1>1, <1>3
<1>5. Max(S) = n
  <2>1. \A x \in S : (\A y \in S : x >= y) => x = n
    BY <1>1, <1>3, <1>4
  <2>2. QED
    BY <1>4, <2>1 DEF Max
<1>6. nextVersion(q) = Max(S) + 1
  BY DEF nextVersion, S
<1>7. QED
  BY <1>5, <1>6

\* The defaults are inserted: nobody holds a row yet that was not there.
LEMMA ConfigCreated ==
    ASSUME ConfigInv, part = "config", part' = part, NEW r \in Requests,
           RequestsOK', At(r, "config.create"), config = NoConfig, config' = defaultGlobalAgentConfig,
           req' = [req EXCEPT ![r] = IF req[r].change = "none" THEN Idle
                                     ELSE Holding(req[r], config')],
           UNCHANGED history
    PROVE  ConfigInv'
<1>1. /\ history \in Seq(HistoryRow) /\ HistoryIntact
      /\ req = [x \in Requests |-> req[x]] /\ \A x \in Requests : UpToDate(req[x])
  BY DEF ConfigInv, RequestsOK
<1>2. config' \in ConfigSet /\ config' # NoConfig
  BY ConfigIsSome DEF defaultGlobalAgentConfig, ConfigSet
<1>3. Len(history) = 0 /\ history = <<>>
  <2>1. Len(history) \in Nat /\ \A i \in 1..Len(history) : history[i].after \in ConfigSet
    <3>1. Len(history) \in Nat /\ \A i \in 1..Len(history) : history[i] \in HistoryRow
      BY <1>1
    <3>2. \A h \in HistoryRow : h.after \in ConfigSet
      BY DEF HistoryRow
    <3>3. QED
      BY <3>1, <3>2
  <2>2. Len(history) # 0 => history[Len(history)].after \in ConfigSet
    BY <2>1
  <2>3. \/ Len(history) = 0
        \/ config = history[Len(history)].after
    BY <1>1 DEF HistoryIntact
  <2>4. Len(history) = 0
    BY <2>2, <2>3, ConfigIsSome
  <2>5. QED
    BY <1>1, <2>4
<1>4. ASSUME NEW q, UpToDate(q) PROVE UpToDate(q)'
  <2>1. q \in Saving => ~(q.pc = "config.save" /\ q.based = Len(history))
    BY <1>4, ConfigIsSome DEF UpToDate, Saving
  <2>2. QED
    BY <1>4, <2>1 DEF UpToDate
<1>5. CASE req[r].change = "none"
  <2>1. \A x \in Requests : req'[x] = IF x = r THEN Idle ELSE req[x]
    BY <1>1, <1>5
  <2>2. \A x \in Requests : UpToDate(req[x])'
    <3> SUFFICES ASSUME NEW x \in Requests PROVE UpToDate(req[x])'
      OBVIOUS
    <3>1. UpToDate(req'[x])
      BY <1>1, <2>1, IdleUpToDate
    <3>2. QED
      BY <1>4, <3>1
  <2>3. QED
    BY <1>1, <1>2, <1>3, <2>2 DEF ConfigInv, HistoryIntact, RollbacksUndo
<1>6. CASE req[r].change # "none"
  <2> DEFINE q == req[r]
             p == Holding(q, config')
  <2>1. q \in Reading
    BY <1>1, <1>6 DEF UpToDate, Idle, Creating, Saving, At
  <2>2. /\ q.change \in Changes /\ q.input \in ConfigSet /\ q.based \in Nat
        /\ q.based <= Len(history) /\ (q.change = "rollback" => q.based > 0)
    BY <1>1, <2>1 DEF UpToDate, Reading
  <2>3. q.change = "update" /\ q.based = 0
    BY <1>3, <2>2 DEF Changes
  <2>4. Merged(config', q.input) \in ConfigSet
    BY <1>2, <2>2 DEF Merged, ConfigSet
  <2>5. /\ p \in Saving /\ p \notin Reading /\ p.pc = "config.save" /\ p.based = 0
        /\ p.before = config' /\ p.change = "update"
    BY <1>2, <2>2, <2>3, <2>4 DEF Holding, Changed, Saving, Reading, Changes
  <2>6. \A x \in Requests : req'[x] = IF x = r THEN p ELSE req[x]
    BY <1>1, <1>6
  <2> HIDE DEF p
  <2>7. \A x \in Requests : UpToDate(req[x])'
    <3> SUFFICES ASSUME NEW x \in Requests PROVE UpToDate(req[x])'
      OBVIOUS
    <3>1. CASE x = r
      BY <1>3, <2>5, <2>6, <3>1 DEF UpToDate
    <3>2. CASE x # r
      <4>1. UpToDate(req'[x])
        BY <1>1, <2>6, <3>2
      <4>2. QED
        BY <1>4, <4>1
    <3>3. QED
      BY <3>1, <3>2
  <2>8. QED
    BY <1>1, <1>2, <1>3, <2>7 DEF ConfigInv, HistoryIntact, RollbacksUndo
<1>7. QED
  BY <1>5, <1>6

\* The row is saved with its history row: a request that overlapped nobody continues
\* the chain, and every other one that is under way is out of date from now on.
LEMMA ConfigSaved ==
    ASSUME ConfigInv, part = "config", part' = part, NEW r \in Requests,
           RequestsOK', At(r, "config.save"), config' = req[r].after, appendHistory(req[r]),
           req' = [req EXCEPT ![r].pc = "config.audit"]
    PROVE  ConfigInv'
<1> DEFINE q == req[r]
           n == Len(history)
           h == [version |-> n + 1, before |-> q.before, after |-> q.after,
                 change |-> q.change, based |-> q.based]
<1>1. /\ history \in Seq(HistoryRow) /\ HistoryIntact /\ RollbacksUndo
      /\ config \in ConfigSet \cup {NoConfig}
      /\ req = [x \in Requests |-> req[x]] /\ \A x \in Requests : UpToDate(req[x])
  BY DEF ConfigInv, RequestsOK
<1>2. q \in Saving /\ q.pc = "config.save"
  BY <1>1 DEF UpToDate, Idle, Creating, Reading, At
<1>3. /\ q.change \in Changes /\ q.before \in ConfigSet /\ q.after \in ConfigSet /\ q.based \in Nat
      /\ q.based <= n /\ (q.based = n => q.before = config)
      /\ q.change = "rollback" =>
            q.based > 0 /\ (q.based = n => q.after = history[q.based].before)
  BY <1>1, <1>2 DEF UpToDate, Saving
<1>4. history' = Append(history, h)
  BY <1>1, NextVersion DEF appendHistory
<1>5. n \in Nat
  BY <1>1
<1>6. h \in HistoryRow
  BY <1>3, <1>5 DEF HistoryRow
<1>7. /\ h.version = n + 1 /\ h.before = q.before /\ h.after = q.after /\ h.change = q.change
      /\ h.based = q.based
  OBVIOUS
<1> HIDE DEF h
<1>8. /\ history' \in Seq(HistoryRow) /\ Len(history') = n + 1 /\ history'[n + 1] = h
      /\ \A i \in 1..n : history'[i] = history[i]
  BY <1>1, <1>4, <1>6
<1>9. HistoryIntact'
  <2> DEFINE afterOf(i) == IF i = 0 THEN defaultGlobalAgentConfig ELSE history[i].after
             newAfterOf(i) == IF i = 0 THEN defaultGlobalAgentConfig ELSE history'[i].after
  <2>1. /\ \A i \in 1..n : history[i].version = i
        /\ config = afterOf(n) \/ (config = NoConfig /\ n = 0)
        /\ \A i \in 1..n : history[i].based = i - 1 =>
            /\ history[i].before = afterOf(i - 1)
            /\ history[i].change = "rollback" => history[i].after = history[i - 1].before
    BY <1>1 DEF HistoryIntact
  <2>2. \A i \in 0..n : newAfterOf(i) = afterOf(i)
    BY <1>5, <1>8
  <2>3. newAfterOf(n + 1) = q.after
    BY <1>5, <1>7, <1>8
  <2>4. \A i \in 1..(n + 1) : history'[i].version = i
    BY <1>5, <1>7, <1>8, <2>1
  <2>5. q.based = n => q.before = afterOf(n)
    BY <1>3, <2>1, ConfigIsSome
  <2>6. q.based = n /\ q.change = "rollback" => n \in 1..n /\ q.after = history[n].before
    BY <1>3, <1>5
  <2>7. ASSUME NEW i \in 1..(n + 1), history'[i].based = i - 1
        PROVE  /\ history'[i].before = newAfterOf(i - 1)
               /\ history'[i].change = "rollback" => history'[i].after = history'[i - 1].before
    <3>1. CASE i = n + 1
      <4>1. history'[i] = h /\ q.based = n
        BY <1>5, <1>7, <1>8, <2>7, <3>1
      <4>2. i - 1 = n
        BY <1>5, <3>1
      <4>3. newAfterOf(i - 1) = afterOf(n)
        BY <1>5, <2>2, <4>2
      <4>4. history'[i].before = newAfterOf(i - 1)
        BY <1>7, <2>5, <4>1, <4>3
      <4>5. q.change = "rollback" => h.after = history'[i - 1].before
        BY <1>7, <1>8, <2>6, <4>1, <4>2
      <4>6. QED
        BY <1>7, <4>1, <4>4, <4>5
    <3>2. CASE i # n + 1
      <4>1. i \in 1..n /\ i - 1 \in 0..n
        BY <1>5, <3>2
      <4>2. /\ history[i].before = afterOf(i - 1)
            /\ history[i].change = "rollback" => history[i].after = history[i - 1].before
        BY <1>8, <2>1, <2>7, <4>1
      <4>3. newAfterOf(i - 1) = afterOf(i - 1)
        BY <2>2, <4>1
      <4>4. i = 1 \/ i - 1 \in 1..n
        BY <1>5, <4>1
      <4>5. CASE i - 1 \in 1..n
        BY <1>8, <4>1, <4>2, <4>3, <4>5
      <4>6. CASE i = 1
        <5>1. history'[1] = history[1]
          BY <1>8, <4>1, <4>6
        <5>2. history[1].change # "rollback"
          <6>1. history[1].based = 0
            BY <2>7, <4>6, <5>1
          <6>2. QED
            BY <1>1, <4>1, <4>6, <6>1 DEF RollbacksUndo
        <5>3. QED
          BY <4>2, <4>3, <4>6, <5>1, <5>2
      <4>7. QED
        BY <4>4, <4>5, <4>6
    <3>3. QED
      BY <3>1, <3>2
  <2> HIDE DEF n
  <2>8. QED
    BY <1>8, <2>3, <2>4, <2>7 DEF HistoryIntact
<1>10. ASSUME NEW x \in Requests PROVE UpToDate(req[x])'
  <2>1. CASE x # r
    <3>1. req'[x] = req[x] /\ UpToDate(req[x])
      BY <1>1, <2>1
    <3>2. \A m \in Nat : m <= n => m <= n + 1 /\ m # n + 1
      BY <1>5
    <3>3. \A p \in Reading \cup Saving : p.based \in Nat
      BY DEF Reading, Saving
    <3> HIDE DEF n
    <3>4. QED
      BY <1>8, <3>1, <3>2, <3>3 DEF UpToDate, n
  <2>2. CASE x = r
    <3> DEFINE p == [q EXCEPT !.pc = "config.audit"]
    <3>1. req'[x] = p
      BY <1>1, <2>2
    <3>2. /\ p \in Saving /\ p \notin Reading /\ p.pc = "config.audit" /\ p.based = q.based
          /\ p.change = q.change
      BY <1>2 DEF Saving, Reading
    <3> HIDE DEF p
    <3>3. QED
      BY <1>3, <1>5, <1>8, <3>1, <3>2 DEF UpToDate
  <2>3. QED
    BY <2>1, <2>2
<1>11. RollbacksUndo'
  <2> SUFFICES ASSUME NEW i \in 1..(n + 1), history'[i].change = "rollback"
               PROVE  history'[i].based > 0
    BY <1>8 DEF RollbacksUndo
  <2>1. i \in 1..n \/ i = n + 1
    BY <1>5
  <2>2. QED
    BY <1>1, <1>3, <1>7, <1>8, <2>1 DEF RollbacksUndo
<1>12. QED
  BY <1>1, <1>3, <1>8, <1>9, <1>10, <1>11 DEF ConfigInv

\* Every step keeps the history and the requests on it together.
LEMMA ConfigStep ==
    ASSUME ConfigInv, [AdminNext]_vars
    PROVE  ConfigInv'
<1>0. RequestsOK'
  BY RequestsKept DEF ConfigInv
<1>1. CASE part = "config" /\ ConfigNext /\ part' = part
  <2>1. ASSUME NEW r \in Requests, CreateConfig(r) PROVE ConfigInv'
    <3>1. CASE /\ config = NoConfig /\ config' = defaultGlobalAgentConfig
               /\ req' = [req EXCEPT ![r] = IF req[r].change = "none" THEN Idle
                                            ELSE Holding(req[r], config')]
      BY <1>0, <1>1, <2>1, <3>1, ConfigCreated DEF CreateConfig
    <3>2. CASE UNCHANGED config /\ (End(r) \/ Fails(r))
      BY <1>0, <1>1, <2>1, <3>2, ConfigGoesOn DEF CreateConfig
    <3>3. QED
      BY <2>1, <3>1, <3>2 DEF CreateConfig
  <2>2. ASSUME NEW r \in Requests, SaveConfig(r) PROVE ConfigInv'
    <3>1. CASE config' = req[r].after /\ appendHistory(req[r]) /\ Goto(r, "config.audit")
      BY <1>0, <1>1, <2>2, <3>1, ConfigSaved DEF SaveConfig, Goto
    <3>2. CASE Fails(r) /\ UNCHANGED configVars
      BY <1>0, <1>1, <2>2, <3>2, ConfigGoesOn DEF configVars
    <3>3. QED
      BY <2>2, <3>1, <3>2 DEF SaveConfig
  <2>3. QED
    BY <1>0, <1>1, <2>1, <2>2, ConfigBegins, ConfigGoesOn DEF ConfigNext
<1>2. CASE UNCHANGED <<configVars, part>> /\ (part = "config" => UNCHANGED req)
  <2>1. /\ config \in ConfigSet \cup {NoConfig} /\ history \in Seq(HistoryRow)
        /\ part = "config" => \A x \in Requests : UpToDate(req[x])
        /\ HistoryIntact /\ RollbacksUndo
    BY DEF ConfigInv
  <2>2. UNCHANGED <<config, history, part>>
    BY <1>2 DEF configVars
  <2>3. HistoryIntact' /\ RollbacksUndo'
    BY <2>1, <2>2 DEF HistoryIntact, RollbacksUndo
  <2>4. part = "config" => \A x \in Requests : UpToDate(req[x])'
    BY <1>2, <2>1, <2>2 DEF UpToDate
  <2>5. QED
    BY <1>0, <1>2, <2>1, <2>2, <2>3, <2>4 DEF ConfigInv
<1>3. \/ part = "config" /\ ConfigNext /\ part' = part
      \/ UNCHANGED <<configVars, part>> /\ (part = "config" => UNCHANGED req)
  BY DEF AdminNext, StartWalk, NextPage, vars, requestVars
<1>4. QED
  BY <1>1, <1>2, <1>3

\* However the requests of several administrators interleave and whichever calls fail,
\* the history of the configuration has no gap and no fork that nobody could explain:
\* versions count up, the row is what the last version says, and a change that no other
\* one overlapped starts from its predecessor, which a rollback undoes.
THEOREM HistoryIsAChain == AdminSpec => []HistoryIntact
<1>1. ConfigInv => HistoryIntact
  BY DEF ConfigInv
<1>2. QED
  BY <1>1, ConfigInit0, ConfigStep, PTL DEF AdminSpec

----------------------------------------------------------------------------
(***************************************************************************)
(* Files: their records.                                                   *)
(***************************************************************************)
FileRow == [id : Nat, uploader : FileUsers, room : Nat, status : {"uploaded"}]

\* A row that can be the record of key k.
SoundRow(k, row) ==
    /\ row \in FileRow
    /\ row.id \in 1..lastFileId
    /\ row.uploader = KeyOwner[k]
    /\ row.room > 0 => KeyOwner[k] \in FileMembers[row.room]

Registering == [pc : {"file.register"}, key : Keys, user : FileUsers, room : Nat,
                existing : FileRow \cup {NoFile}]
Deleting == [pc : {"file.delete", "file.remove", "file.audit"}, key : Keys, id : Nat]
Scanning == [pc : {"file.list"}, clean : BOOLEAN, known : SUBSET Keys]
Cleaning == [pc : {"file.clean"}, orphans : SUBSET Keys, cleaned : Nat]

\* A registration that has passed its checks, with the record that it has read.
SoundRequest(q) ==
    /\ q \in {Idle} \cup Registering \cup Deleting \cup Scanning \cup Cleaning
    /\ q.pc = "file.register" =>
        /\ q.user = KeyOwner[q.key]
        /\ q.room > 0 => q.user \in FileMembers[q.room]
        /\ q.existing # NoFile => SoundRow(q.key, q.existing)

\* The rows that are there or that a registration will write back.
RowOf(k, row) ==
    \/ k \in DOMAIN records /\ row = records[k]
    \/ \E r \in Requests : req[r].pc = "file.register" /\ req[r].key = k
                           /\ req[r].existing # NoFile /\ row = req[r].existing

RecordsInv ==
    /\ RequestsOK
    /\ lastFileId \in Nat
    /\ DOMAIN records \subseteq Keys
    /\ records = [k \in DOMAIN records |-> records[k]]
    /\ \A k \in DOMAIN records : SoundRow(k, records[k])
    /\ part = "files" =>
        /\ \A r \in Requests : SoundRequest(req[r])
        /\ \A j, k \in Keys, p, q \in FileRow :
              RowOf(j, p) /\ RowOf(k, q) /\ p.id = q.id => j = k

\* A record is not the absence of one.
LEMMA FileIsSome == NoFile \notin FileRow
<1> SUFFICES ASSUME NoFile \in FileRow PROVE FALSE
  OBVIOUS
<1>1. DOMAIN NoFile = {}
  BY DEF NoFile
<1>2. "id" \in DOMAIN NoFile
  BY DEF FileRow
<1>3. QED
  BY <1>1, <1>2

\* No file is registered at first.
LEMMA RecordsInit == AdminInit => RecordsInv
<1> SUFFICES ASSUME AdminInit PROVE RecordsInv
  OBVIOUS
<1>1. /\ records = [k \in {} |-> {}] /\ lastFileId = 0 /\ faults = 0
      /\ req = [r \in Requests |-> Idle]
  BY DEF AdminInit, RequestsInit, FilesInit
<1>2. DOMAIN records = {}
  BY <1>1
<1>3. \A r \in Requests : req[r] = Idle /\ req[r].pc = "idle"
  BY <1>1 DEF Idle
<1>4. RequestsOK
  BY <1>1 DEF RequestsOK
<1>5. \A k, row : ~RowOf(k, row)
  BY <1>2, <1>3 DEF RowOf
<1>6. \A r \in Requests : SoundRequest(req[r])
  BY <1>3 DEF SoundRequest
<1>7. records = [k \in DOMAIN records |-> records[k]]
  BY <1>1
<1>8. QED
  BY <1>1, <1>2, <1>4, <1>5, <1>6, <1>7 DEF RecordsInv

\* A step after which every row belongs to the key that its number belonged to before.
LEMMA RowsStay ==
    ASSUME RecordsInv, RequestsOK', UNCHANGED <<lastFileId, part>>,
           DOMAIN records' \subseteq Keys, records' = [k \in DOMAIN records' |-> records'[k]],
           \A k \in DOMAIN records' : SoundRow(k, records'[k]),
           part = "files" => \A r \in Requests : SoundRequest(req'[r]),
           part = "files" => \A k \in Keys, row \in FileRow :
              RowOf(k, row)' => \E p \in FileRow : RowOf(k, p) /\ p.id = row.id
    PROVE  RecordsInv'
<1>1. lastFileId' \in Nat
  BY DEF RecordsInv
<1>2. \A k, row : SoundRow(k, row)' <=> SoundRow(k, row)
  BY DEF SoundRow
<1>3. \A k \in DOMAIN records' : SoundRow(k, records[k])'
  BY DEF SoundRow
<1>4. part = "files" => \A r \in Requests : SoundRequest(req[r])'
  BY DEF SoundRequest, SoundRow
<1>5. ASSUME part = "files", NEW j \in Keys, NEW k \in Keys, NEW p \in FileRow, NEW q \in FileRow,
             RowOf(j, p)', RowOf(k, q)', p.id = q.id
      PROVE  j = k
  <2>1. PICK x \in FileRow : RowOf(j, x) /\ x.id = p.id
    BY <1>5
  <2>2. PICK y \in FileRow : RowOf(k, y) /\ y.id = q.id
    BY <1>5
  <2>3. QED
    BY <1>5, <2>1, <2>2 DEF RecordsInv
<1>6. QED
  BY <1>1, <1>3, <1>4, <1>5 DEF RecordsInv

\* A request moves on; what it has read, if it registers, is the record of its key.
LEMMA RegistrationMoves ==
    ASSUME RecordsInv, RequestsOK', NEW r \in Requests, NEW q, SoundRequest(q),
           q.pc = "file.register" /\ q.existing # NoFile =>
              q.key \in DOMAIN records /\ q.existing = records[q.key],
           req' = [req EXCEPT ![r] = q], UNCHANGED <<records, lastFileId, part>>
    PROVE  RecordsInv'
<1>1. /\ DOMAIN records \subseteq Keys /\ records = [k \in DOMAIN records |-> records[k]]
      /\ \A k \in DOMAIN records : SoundRow(k, records[k])
      /\ part = "files" => \A x \in Requests : SoundRequest(req[x])
      /\ req = [x \in Requests |-> req[x]]
  BY DEF RecordsInv, RequestsOK
<1>2. \A x \in Requests : req'[x] = IF x = r THEN q ELSE req[x]
  BY <1>1
<1>3. part = "files" => \A x \in Requests : SoundRequest(req'[x])
  BY <1>1, <1>2
<1>4. \A k \in Keys, row \in FileRow : RowOf(k, row)' => RowOf(k, row)
  BY <1>2 DEF RowOf
<1>5. QED
  BY <1>1, <1>3, <1>4, RowsStay

\* A record is deleted.
LEMMA RecordDeleted ==
    ASSUME RecordsInv, RequestsOK', part = "files", part' = part,
           NEW r \in Requests, DeleteRecord(r)
    PROVE  RecordsInv'
<1>1. /\ DOMAIN records \subseteq Keys /\ records = [k \in DOMAIN records |-> records[k]]
      /\ \A k \in DOMAIN records : SoundRow(k, records[k])
      /\ \A x \in Requests : SoundRequest(req[x])
      /\ req = [x \in Requests |-> req[x]]
  BY DEF RecordsInv, RequestsOK
<1>2. lastFileId' = lastFileId
  BY DEF DeleteRecord
<1>3. req[r] \in Deleting
  BY <1>1 DEF DeleteRecord, At, SoundRequest, Idle, Registering, Scanning, Cleaning
<1>4. req'[r] \in {Idle} \cup Deleting /\ \A x \in Requests : x # r => req'[x] = req[x]
  <2>1. CASE req' = [req EXCEPT ![r] = Idle]
    BY <1>1, <2>1
  <2>2. CASE req' = [req EXCEPT ![r].pc = "file.remove"]
    <3>1. [req[r] EXCEPT !.pc = "file.remove"] \in Deleting
      BY <1>3 DEF Deleting
    <3>2. QED
      BY <1>1, <2>2, <3>1
  <2>3. QED
    BY <2>1, <2>2 DEF DeleteRecord, Goto, Fails
<1>5. req'[r].pc # "file.register"
  BY <1>4 DEF Idle, Deleting
<1>6. \A x \in Requests : SoundRequest(req'[x])
  BY <1>1, <1>4, <1>5 DEF SoundRequest
<1>7. /\ DOMAIN records' \subseteq DOMAIN records
      /\ records' = [k \in DOMAIN records' |-> records[k]]
  BY <1>1 DEF DeleteRecord, WithoutRecords
<1>8. \A k \in Keys, row \in FileRow : RowOf(k, row)' => RowOf(k, row)
  BY <1>4, <1>5, <1>7 DEF RowOf
<1>9. QED
  BY <1>1, <1>2, <1>6, <1>7, <1>8, RowsStay

\* A record is created, with a new number, or written back with the number it had.
LEMMA FileRegistered ==
    ASSUME RecordsInv, RequestsOK', part = "files", part' = part,
           NEW r \in Requests, RegisterFile(r)
    PROVE  RecordsInv'
<1> DEFINE q == req[r]
           k == q.key
<1>1. /\ DOMAIN records \subseteq Keys /\ records = [j \in DOMAIN records |-> records[j]]
      /\ \A j \in DOMAIN records : SoundRow(j, records[j])
      /\ \A x \in Requests : SoundRequest(req[x])
      /\ req = [x \in Requests |-> req[x]] /\ lastFileId \in Nat
  BY DEF RecordsInv, RequestsOK
<1>2. q.pc = "file.register"
  BY DEF RegisterFile, At
<1>3. q \in Registering
  BY <1>1, <1>2 DEF SoundRequest, Idle, Deleting, Scanning, Cleaning
<1>4. /\ k \in Keys /\ q.user \in FileUsers /\ q.room \in Nat
      /\ q.existing \in FileRow \cup {NoFile}
      /\ q.user = KeyOwner[k] /\ (q.room > 0 => KeyOwner[k] \in FileMembers[q.room])
      /\ q.existing # NoFile => SoundRow(k, q.existing)
  BY <1>1, <1>2, <1>3 DEF SoundRequest, Registering
<1>5. \A j : (recordOf(j) # NoFile <=> j \in DOMAIN records)
             /\ (j \in DOMAIN records => recordOf(j) = records[j])
  BY <1>1, FileIsSome DEF recordOf, SoundRow
<1>6. req' = [req EXCEPT ![r] = Idle]
  BY DEF RegisterFile, End, Fails
<1>7. \A x \in Requests : req'[x] = IF x = r THEN Idle ELSE req[x]
  BY <1>1, <1>6
<1>8. SoundRequest(Idle) /\ Idle.pc # "file.register"
  BY DEF SoundRequest, Idle
<1>9. \A x \in Requests : SoundRequest(req'[x])
  BY <1>1, <1>7, <1>8
<1>10. CASE UNCHANGED <<records, lastFileId>>
  BY <1>6, <1>8, <1>10, RegistrationMoves
<1>11. CASE \E row \in FileRow : /\ lastFileId' = lastFileId /\ SoundRow(k, row)
                                 /\ records' = WithRecord(k, row)
                                 /\ \E p \in FileRow : RowOf(k, p) /\ p.id = row.id
  <2>1. PICK row \in FileRow : /\ lastFileId' = lastFileId /\ SoundRow(k, row)
                               /\ records' = WithRecord(k, row)
                               /\ \E p \in FileRow : RowOf(k, p) /\ p.id = row.id
    BY <1>11
  <2>2. /\ DOMAIN records' = DOMAIN records \cup {k} /\ records'[k] = row
        /\ \A j \in DOMAIN records : j # k => records'[j] = records[j]
        /\ records' = [j \in DOMAIN records' |-> records'[j]]
    BY <2>1 DEF WithRecord
  <2> HIDE DEF k, q
  <2>3. \A j \in DOMAIN records' : SoundRow(j, records'[j])
    BY <1>1, <2>1, <2>2
  <2>4. ASSUME NEW j \in Keys, NEW w \in FileRow, RowOf(j, w)'
        PROVE  \E p \in FileRow : RowOf(j, p) /\ p.id = w.id
    <3>1. CASE j = k /\ w = row
      BY <2>1, <3>1
    <3>2. CASE ~(j = k /\ w = row)
      <4>1. RowOf(j, w)
        BY <1>7, <1>8, <2>2, <2>4, <3>2 DEF RowOf
      <4>2. QED
        BY <4>1
    <3>3. QED
      BY <3>1, <3>2
  <2>5. DOMAIN records' \subseteq Keys
    BY <1>1, <1>4, <2>2
  <2>6. QED
    BY <1>9, <2>1, <2>2, <2>3, <2>4, <2>5, RowsStay
<1>12. CASE /\ k \notin DOMAIN records /\ lastFileId' = lastFileId + 1
            /\ records' = WithRecord(k, [id |-> lastFileId + 1, uploader |-> q.user,
                                         room |-> q.room, status |-> "uploaded"])
  <2> DEFINE row == [id |-> lastFileId + 1, uploader |-> q.user, room |-> q.room,
                     status |-> "uploaded"]
  <2>1. row \in FileRow /\ row.id = lastFileId + 1
    BY <1>1, <1>4 DEF FileRow
  <2>2. row.uploader = KeyOwner[k] /\ (row.room > 0 => KeyOwner[k] \in FileMembers[row.room])
    BY <1>4
  <2>3. /\ DOMAIN records' = DOMAIN records \cup {k} /\ records'[k] = row
        /\ \A j \in DOMAIN records : records'[j] = records[j]
        /\ records' = [j \in DOMAIN records' |-> records'[j]]
    BY <1>12 DEF WithRecord
  <2> HIDE DEF row, k, q
  <2>4. lastFileId' \in Nat /\ row.id \in 1..lastFileId'
    BY <1>1, <1>12, <2>1
  <2>5. ASSUME NEW j, NEW w, SoundRow(j, w) PROVE SoundRow(j, w)' /\ w.id # row.id
    BY <1>1, <1>12, <2>1, <2>5 DEF SoundRow
  <2>6. \A j \in DOMAIN records' : SoundRow(j, records[j])'
    <3> SUFFICES ASSUME NEW j \in DOMAIN records' PROVE SoundRow(j, records[j])'
      OBVIOUS
    <3>1. CASE j \in DOMAIN records
      <4>1. records'[j] = records[j] /\ SoundRow(j, records[j])
        BY <1>1, <2>3, <3>1
      <4>2. SoundRow(j, records'[j])
        BY <4>1
      <4>3. QED
        BY <1>1, <1>12, <4>2 DEF SoundRow
    <3>2. CASE j = k
      BY <2>1, <2>2, <2>3, <2>4, <3>2 DEF SoundRow
    <3>3. QED
      BY <2>3, <3>1, <3>2
  <2>7. \A x \in Requests : SoundRequest(req[x])'
    <3> SUFFICES ASSUME NEW x \in Requests PROVE SoundRequest(req[x])'
      OBVIOUS
    <3>1. SoundRequest(req'[x])
      BY <1>9
    <3>2. req'[x].pc = "file.register" /\ req'[x].existing # NoFile =>
             SoundRow(req'[x].key, req'[x].existing)
      BY <3>1 DEF SoundRequest
    <3>3. req'[x].pc = "file.register" /\ req'[x].existing # NoFile =>
             SoundRow(req[x].key, req[x].existing)'
      BY <1>1, <1>12, <3>2 DEF SoundRow
    <3>4. QED
      BY <3>1, <3>3 DEF SoundRequest
  <2>8. \A j \in Keys, w \in FileRow : RowOf(j, w) => w.id # row.id
    BY <1>1, <2>5 DEF RowOf, SoundRequest
  <2>9. \A j \in Keys, w \in FileRow : RowOf(j, w)' => RowOf(j, w) \/ (j = k /\ w = row)
    BY <1>7, <1>8, <2>3 DEF RowOf
  <2>10. \A i, j \in Keys, v, w \in FileRow : RowOf(i, v) /\ RowOf(j, w) /\ v.id = w.id => i = j
    BY DEF RecordsInv
  <2>11. \A i, j \in Keys, v, w \in FileRow :
            RowOf(i, v)' /\ RowOf(j, w)' /\ v.id = w.id => i = j
    BY <2>8, <2>9, <2>10
  <2>12. DOMAIN records' \subseteq Keys
    BY <1>1, <1>4, <2>3
  <2>13. QED
    BY <2>3, <2>4, <2>6, <2>7, <2>11, <2>12 DEF RecordsInv
<1>13. ASSUME q.existing # NoFile, lastFileId' = lastFileId,
              records' = WithRecord(k, [(IF recordOf(k) = NoFile THEN q.existing ELSE recordOf(k))
                                        EXCEPT !.room = q.room, !.status = "uploaded"])
       PROVE  RecordsInv'
  <2> DEFINE p == IF recordOf(k) = NoFile THEN q.existing ELSE recordOf(k)
             row == [p EXCEPT !.room = q.room, !.status = "uploaded"]
  <2>1. SoundRow(k, p) /\ RowOf(k, p)
    BY <1>1, <1>2, <1>4, <1>5, <1>13 DEF RowOf
  <2>2. records' = WithRecord(k, row)
    BY <1>13
  <2> HIDE DEF p
  <2>3. p \in FileRow
    BY <2>1 DEF SoundRow
  <2>4. row \in FileRow /\ row.id = p.id /\ row.uploader = p.uploader /\ row.room = q.room
    BY <1>4, <2>3 DEF FileRow
  <2> HIDE DEF row, q, k
  <2>5. SoundRow(k, row)
    BY <1>4, <2>1, <2>4 DEF SoundRow
  <2>6. QED
    BY <1>11, <1>13, <2>1, <2>2, <2>3, <2>4, <2>5
<1>14. QED
  BY <1>5, <1>10, <1>12, <1>13 DEF RegisterFile

\* The handlers begin; a registration passes its checks and reads the record.
LEMMA FileRequestBegins ==
    ASSUME RecordsInv, RequestsOK', part = "files", part' = part, NEW r \in Requests,
           \/ \E u \in FileUsers, k \in Keys, room \in FileRooms \cup {0} :
                 CompleteUpload(r, u, k, room)
           \/ \E role \in Roles :
                 \/ \E k \in Keys : AdminFileDelete(r, role, k)
                 \/ AdminFileScan(r, role) \/ AdminFileCleanup(r, role)
    PROVE  RecordsInv'
<1>1. /\ DOMAIN records \subseteq Keys
      /\ \A j \in DOMAIN records : SoundRow(j, records[j])
      /\ SoundRequest(req[r]) /\ req = [x \in Requests |-> req[x]]
  BY DEF RecordsInv, RequestsOK
<1>2. UNCHANGED <<records, lastFileId, part>>
  BY DEF CompleteUpload, AdminFileDelete, AdminFileScan, AdminFileCleanup, ScanAnomalies, fileVars
<1>3. \A j : (recordOf(j) # NoFile <=> j \in DOMAIN records)
             /\ (j \in DOMAIN records => recordOf(j) = records[j])
  BY <1>1, FileIsSome DEF recordOf, SoundRow
<1>4. ASSUME BeginAndEnd(r) PROVE RecordsInv'
  <2>1. req' = [req EXCEPT ![r] = Idle] /\ SoundRequest(Idle) /\ Idle.pc # "file.register"
    BY <1>1, <1>4 DEF BeginAndEnd, SoundRequest, Idle
  <2>2. QED
    BY <1>2, <2>1, RegistrationMoves
<1>5. ASSUME NEW u \in FileUsers, NEW k \in Keys, NEW room \in FileRooms \cup {0},
             CompleteUpload(r, u, k, room)
      PROVE  RecordsInv'
  <2> DEFINE q == [pc |-> "file.register", key |-> k, user |-> u, room |-> room,
                   existing |-> recordOf(k)]
  <2>1. \/ BeginAndEnd(r)
        \/ /\ KeyOwner[k] = u /\ (room > 0 => u \in FileMembers[room])
           /\ req' = [req EXCEPT ![r] = q]
    BY <1>5 DEF CompleteUpload, Begin, objectKeyBelongsToUser, CheckIsMember
  <2>2. room \in Nat
    BY FilesAssumption
  <2>3. /\ recordOf(k) \in FileRow \cup {NoFile}
        /\ recordOf(k) # NoFile =>
              k \in DOMAIN records /\ recordOf(k) = records[k] /\ SoundRow(k, recordOf(k))
    BY <1>1, <1>3 DEF SoundRow
  <2>4. ASSUME KeyOwner[k] = u, room > 0 => u \in FileMembers[room] PROVE SoundRequest(q)
    BY <2>2, <2>3, <2>4 DEF SoundRequest, Registering
  <2>5. q.pc = "file.register" /\ q.key = k /\ q.existing = recordOf(k)
    OBVIOUS
  <2> HIDE DEF q
  <2>6. QED
    BY <1>2, <1>4, <2>1, <2>3, <2>4, <2>5, RegistrationMoves
<1>6. ASSUME NEW role \in Roles, NEW k \in Keys, AdminFileDelete(r, role, k) PROVE RecordsInv'
  <2> DEFINE q == [pc |-> "file.delete", key |-> k, id |-> records[k].id]
  <2>1. BeginAndEnd(r) \/ (recordOf(k) # NoFile /\ req' = [req EXCEPT ![r] = q])
    BY <1>6 DEF AdminFileDelete, Begin
  <2>2. ASSUME recordOf(k) # NoFile PROVE q \in Deleting
    <3>1. records[k] \in FileRow
      BY <1>1, <1>3, <2>2 DEF SoundRow
    <3>2. QED
      BY <3>1 DEF Deleting, FileRow
  <2>3. q.pc # "file.register"
    OBVIOUS
  <2> HIDE DEF q
  <2>4. QED
    BY <1>2, <1>4, <2>1, <2>2, <2>3, RegistrationMoves DEF SoundRequest
<1>7. ASSUME NEW role \in Roles, NEW clean \in BOOLEAN, ScanAnomalies(r, role, clean)
      PROVE  RecordsInv'
  <2> DEFINE q == [pc |-> "file.list", clean |-> clean, known |-> knownKeys]
  <2>1. BeginAndEnd(r) \/ req' = [req EXCEPT ![r] = q]
    BY <1>7 DEF ScanAnomalies, Begin
  <2>2. knownKeys \in SUBSET Keys
    BY <1>1 DEF knownKeys
  <2>3. q \in Scanning /\ q.pc # "file.register"
    BY <2>2 DEF Scanning
  <2> HIDE DEF q
  <2>4. QED
    BY <1>2, <1>4, <2>1, <2>3, RegistrationMoves DEF SoundRequest
<1>8. QED
  BY <1>5, <1>6, <1>7 DEF AdminFileScan, AdminFileCleanup

\* The objects are removed, listed and cleaned up, and the audit is written.
LEMMA FileRequestGoesOn ==
    ASSUME RecordsInv, RequestsOK', part = "files", part' = part, NEW r \in Requests,
           objects \subseteq Keys,
           \/ RemoveObject(r) \/ ListObjects(r) \/ CleanupOrphan(r) \/ CleanupDone(r)
           \/ auditFile(r)
    PROVE  RecordsInv'
<1>1. SoundRequest(req[r]) /\ req = [x \in Requests |-> req[x]]
  BY DEF RecordsInv, RequestsOK
<1>2. UNCHANGED <<records, lastFileId, part>>
  BY DEF RemoveObject, ListObjects, CleanupOrphan, CleanupDone, auditFile, fileVars
<1>3. ASSUME NEW q \in {Idle} \cup Deleting \cup Scanning \cup Cleaning,
             req' = [req EXCEPT ![r] = q]
      PROVE  RecordsInv'
  <2>1. SoundRequest(q) /\ q.pc # "file.register"
    BY <1>3 DEF SoundRequest, Idle, Deleting, Scanning, Cleaning
  <2>2. QED
    BY <1>2, <1>3, <2>1, RegistrationMoves
<1>4. CASE RemoveObject(r)
  <2>1. req[r] \in Deleting
    BY <1>1, <1>4 DEF RemoveObject, At, SoundRequest, Idle, Registering, Scanning, Cleaning
  <2>2. [req[r] EXCEPT !.pc = "file.audit"] \in Deleting
    BY <2>1 DEF Deleting
  <2>3. \/ req' = [req EXCEPT ![r] = Idle]
        \/ req' = [req EXCEPT ![r] = [req[r] EXCEPT !.pc = "file.audit"]]
    BY <1>1, <1>4 DEF RemoveObject, Goto, Fails
  <2>4. QED
    BY <1>3, <2>2, <2>3
<1>5. CASE ListObjects(r)
  <2> DEFINE q == [pc |-> "file.clean", orphans |-> orphanKeys(req[r].known), cleaned |-> 0]
  <2>1. q \in Cleaning
    BY DEF Cleaning, orphanKeys, listedKeys
  <2>2. req' = [req EXCEPT ![r] = Idle] \/ req' = [req EXCEPT ![r] = q]
    BY <1>5 DEF ListObjects, End, Fails
  <2> HIDE DEF q
  <2>3. QED
    BY <1>3, <2>1, <2>2
<1>6. CASE CleanupOrphan(r)
  <2>1. req[r] \in Cleaning
    BY <1>1, <1>6 DEF CleanupOrphan, At, SoundRequest, Idle, Registering, Scanning, Deleting
  <2>2. \E n \in {req[r].cleaned, req[r].cleaned + 1} :
           req' = [req EXCEPT ![r] = [req[r] EXCEPT !.orphans = @ \ {Min(req[r].orphans)},
                                                    !.cleaned = n]]
    BY <1>1, <1>6, <2>1 DEF CleanupOrphan, Cleaning
  <2>3. \A n \in {req[r].cleaned, req[r].cleaned + 1} :
           [req[r] EXCEPT !.orphans = @ \ {Min(req[r].orphans)}, !.cleaned = n] \in Cleaning
    <3> DEFINE k == Min(req[r].orphans)
    <3>1. req[r].cleaned \in Nat
      BY <2>1 DEF Cleaning
    <3> HIDE DEF k
    <3>2. \A n \in Nat : [req[r] EXCEPT !.orphans = @ \ {k}, !.cleaned = n] \in Cleaning
      BY <2>1 DEF Cleaning
    <3>3. \A n \in {req[r].cleaned, req[r].cleaned + 1} : n \in Nat
      BY <3>1
    <3>4. QED
      BY ONLY <3>2, <3>3 DEF k
  <2>4. QED
    BY <1>3, <2>2, <2>3
<1>7. CASE CleanupDone(r) \/ auditFile(r)
  <2>1. req' = [req EXCEPT ![r] = Idle]
    BY <1>7 DEF CleanupDone, auditFile, Log, End
  <2>2. QED
    BY <1>3, <2>1
<1>8. QED
  BY <1>4, <1>5, <1>6, <1>7

----------------------------------------------------------------------------
(***************************************************************************)
(* Files: their content.                                                   *)
(***************************************************************************)
\* What a request of the file handlers may destroy has been exposed.
Exposes(q) ==
    /\ q \in Deleting => q.key \in exposed
    /\ q \in Scanning => (q.clean => Keys \ q.known \subseteq exposed)
    /\ q \in Cleaning => q.orphans \subseteq exposed

\* What was uploaded and not exposed is there, whether it is registered or not.
ContentInv ==
    /\ objects \subseteq Keys
    /\ uploaded \ exposed \subseteq objects
    /\ part = "files" => \A r \in Requests : Exposes(req[r])

\* Only requests about files create records.
FilesInv ==
    /\ RecordsInv /\ ContentInv
    /\ part # "files" => DOMAIN records = {}

\* Nothing is stored at first.
LEMMA FilesInit0 == AdminInit => FilesInv
<1> SUFFICES ASSUME AdminInit PROVE FilesInv
  OBVIOUS
<1>1. /\ objects = {} /\ uploaded = {} /\ req = [r \in Requests |-> Idle]
      /\ records = [k \in {} |-> {}]
  BY DEF AdminInit, RequestsInit, FilesInit
<1>2. Exposes(Idle)
  BY DEF Exposes, Idle, Deleting, Scanning, Cleaning
<1>3. QED
  BY <1>1, <1>2, RecordsInit DEF FilesInv, ContentInv

\* Requests move on, and no object is lost that has not been exposed.
LEMMA ObjectsStay ==
    ASSUME ContentInv, NEW r \in Requests, NEW q, Exposes(q)',
           req = [x \in Requests |-> req[x]], req' = [req EXCEPT ![r] = q],
           exposed \subseteq exposed', objects' \subseteq objects, objects \ exposed' \subseteq objects',
           UNCHANGED <<uploaded, part>>
    PROVE  ContentInv'
<1>1. \A x \in Requests : req'[x] = IF x = r THEN q ELSE req[x]
  OBVIOUS
<1>2. part = "files" => \A x \in Requests : Exposes(req[x])'
  <2> SUFFICES ASSUME part = "files", NEW x \in Requests PROVE Exposes(req[x])'
    OBVIOUS
  <2>1. CASE x = r
    BY <1>1, <2>1 DEF Exposes
  <2>2. CASE x # r
    <3>1. req'[x] = req[x] /\ Exposes(req[x])
      BY <1>1, <2>2 DEF ContentInv
    <3>2. QED
      BY <3>1 DEF Exposes
  <2>3. QED
    BY <2>1, <2>2
<1>3. QED
  BY <1>2 DEF ContentInv

\* A set of keys has a smallest one.
LEMMA MinOfKeys ==
    ASSUME NEW S \in SUBSET Keys, S # {}
    PROVE  Min(S) \in S
<1>1. S \in SUBSET Nat
  BY FilesAssumption
<1>2. \E x \in S : \A y \in S : x <= y
  <2>1. PICK x \in S : \A y \in S : <<y, x>> \notin OpToRel(<, Nat)
    BY <1>1, NatLessThanWellFounded, WFMin
  <2>2. \A y \in S : ~(y < x)
    BY <1>1, <2>1 DEF OpToRel
  <2>3. QED
    BY <1>1, <2>2
<1>3. QED
  BY <1>2 DEF Min

\* What the requests do to the objects.
LEMMA ContentKept ==
    ASSUME FilesInv, part = "files", part' = part, FilesNext
    PROVE  ContentInv'
<1>1. /\ objects \subseteq Keys /\ ContentInv /\ req = [x \in Requests |-> req[x]]
      /\ \A r \in Requests : Exposes(req[r]) /\ SoundRequest(req[r])
  BY DEF FilesInv, ContentInv, RecordsInv, RequestsOK
<1>2. Exposes(Idle)'
  BY DEF Exposes, Idle, Deleting, Scanning, Cleaning
<1>3. ASSUME NEW k \in Keys, PutObject(k) \/ \E u \in FileUsers : PreSignUpload(u, k)
      PROVE  ContentInv'
  <2>1. /\ UNCHANGED <<exposed, req>>
        /\ \/ UNCHANGED <<objects, uploaded>>
           \/ objects' = objects \cup {k} /\ uploaded' = uploaded \cup {k}
    BY <1>3 DEF PutObject, PreSignUpload, requestVars
  <2>2. part = "files" => \A r \in Requests : Exposes(req[r])'
    BY <1>1, <2>1 DEF Exposes
  <2>3. QED
    BY <1>1, <2>1, <2>2 DEF ContentInv
<1>4. ASSUME NEW r \in Requests, UNCHANGED <<objects, uploaded, exposed>>,
             req' = [req EXCEPT ![r] = Idle] \/ req' = [req EXCEPT ![r] = req[r]]
      PROVE  ContentInv'
  <2>1. Exposes(req[r]) /\ UNCHANGED exposed
    BY <1>1, <1>4
  <2> DEFINE q == req[r]
  <2> HIDE DEF q
  <2>2. PICK p : req' = [req EXCEPT ![r] = p] /\ Exposes(p)
    <3>1. Exposes(Idle)
      BY DEF Exposes, Idle, Deleting, Scanning, Cleaning
    <3>2. QED
      BY <1>4, <2>1, <3>1
  <2>3. Exposes(p)'
    BY <2>1, <2>2 DEF Exposes
  <2>4. QED
    BY <1>1, <1>4, <2>2, <2>3, ObjectsStay
<1>5. ASSUME NEW r \in Requests, NEW u \in FileUsers, NEW k \in Keys,
             NEW room \in FileRooms \cup {0}, CompleteUpload(r, u, k, room)
      PROVE  ContentInv'
  <2> DEFINE q == [pc |-> "file.register", key |-> k, user |-> u, room |-> room,
                   existing |-> recordOf(k)]
  <2>1. UNCHANGED <<objects, uploaded, exposed>> /\ (BeginAndEnd(r) \/ req' = [req EXCEPT ![r] = q])
    BY <1>5 DEF CompleteUpload, Begin, fileVars
  <2>2. q.pc = "file.register"
    OBVIOUS
  <2> HIDE DEF q
  <2>3. \A p : p = q => p \notin Deleting /\ p \notin Scanning /\ p \notin Cleaning
    BY <2>2 DEF Deleting, Scanning, Cleaning
  <2>4. CASE BeginAndEnd(r)
    BY <1>1, <1>4, <2>1, <2>4 DEF BeginAndEnd
  <2>5. CASE req' = [req EXCEPT ![r] = q]
    <3>1. PICK p : p = q
      OBVIOUS
    <3>2. Exposes(p)'
      BY <2>3, <3>1 DEF Exposes
    <3>3. req' = [req EXCEPT ![r] = p]
      BY <2>5, <3>1
    <3>4. QED
      BY <1>1, <2>1, <3>2, <3>3, ObjectsStay
  <2>6. QED
    BY <2>1, <2>4, <2>5
<1>6. ASSUME NEW r \in Requests, NEW role \in Roles, NEW k \in Keys, AdminFileDelete(r, role, k)
      PROVE  ContentInv'
  <2>1. PICK p : p = [pc |-> "file.delete", key |-> k, id |-> records[k].id]
    OBVIOUS
  <2>2. /\ UNCHANGED <<objects, uploaded>>
        /\ \/ BeginAndEnd(r) /\ UNCHANGED exposed
           \/ req' = [req EXCEPT ![r] = p] /\ exposed' = exposed \cup {k}
    BY <1>6, <2>1 DEF AdminFileDelete, Begin
  <2>3. CASE BeginAndEnd(r) /\ UNCHANGED exposed
    BY <1>1, <1>4, <2>2, <2>3 DEF BeginAndEnd
  <2>4. CASE req' = [req EXCEPT ![r] = p] /\ exposed' = exposed \cup {k}
    <3>1. p.key \in exposed' /\ p \notin Scanning /\ p \notin Cleaning
      BY <2>1, <2>4 DEF Scanning, Cleaning
    <3>2. Exposes(p)'
      BY <3>1 DEF Exposes
    <3>3. QED
      BY <1>1, <2>2, <2>4, <3>2, ObjectsStay
  <2>5. QED
    BY <2>2, <2>3, <2>4
<1>7. ASSUME NEW r \in Requests, NEW role \in Roles, NEW clean \in BOOLEAN,
             ScanAnomalies(r, role, clean)
      PROVE  ContentInv'
  <2>1. PICK p : p = [pc |-> "file.list", clean |-> clean, known |-> knownKeys]
    OBVIOUS
  <2>2. /\ UNCHANGED <<objects, uploaded>>
        /\ \/ BeginAndEnd(r) /\ UNCHANGED exposed
           \/ /\ req' = [req EXCEPT ![r] = p]
              /\ exposed' = IF clean THEN exposed \cup (Keys \ knownKeys) ELSE exposed
    BY <1>7, <2>1 DEF ScanAnomalies, Begin
  <2>3. CASE BeginAndEnd(r) /\ UNCHANGED exposed
    BY <1>1, <1>4, <2>2, <2>3 DEF BeginAndEnd
  <2>4. CASE /\ req' = [req EXCEPT ![r] = p]
             /\ exposed' = IF clean THEN exposed \cup (Keys \ knownKeys) ELSE exposed
    <3>1. p \notin Deleting /\ p \notin Cleaning /\ (p.clean => Keys \ p.known \subseteq exposed')
      BY <2>1, <2>4 DEF Deleting, Cleaning
    <3>2. Exposes(p)'
      BY <3>1 DEF Exposes
    <3>3. exposed \subseteq exposed'
      BY <2>4
    <3>4. QED
      BY <1>1, <2>2, <2>4, <3>2, <3>3, ObjectsStay
  <2>5. QED
    BY <2>2, <2>3, <2>4
<1>8. ASSUME NEW r \in Requests, RegisterFile(r) \/ CleanupDone(r) \/ auditFile(r)
      PROVE  ContentInv'
  <2>1. UNCHANGED <<objects, uploaded, exposed>> /\ req' = [req EXCEPT ![r] = Idle]
    BY <1>8 DEF RegisterFile, CleanupDone, auditFile, fileVars, End, Fails, Log
  <2>2. QED
    BY <1>4, <2>1
<1>9. ASSUME NEW r \in Requests, DeleteRecord(r) \/ RemoveObject(r) PROVE ContentInv'
  <2>1. req[r] \in Deleting
    BY <1>1, <1>9
       DEF DeleteRecord, RemoveObject, At, SoundRequest, Idle, Registering, Scanning, Cleaning
  <2>2. req[r].key \in exposed
    BY <1>1, <2>1 DEF Exposes
  <2>3. /\ UNCHANGED <<uploaded, exposed>>
        /\ objects' \in {objects, objects \ {req[r].key}}
        /\ \/ req' = [req EXCEPT ![r] = Idle]
           \/ req' = [req EXCEPT ![r].pc = "file.remove"]
           \/ req' = [req EXCEPT ![r].pc = "file.audit"]
    BY <1>9 DEF DeleteRecord, RemoveObject, Goto, Fails
  <2>4. PICK p : req' = [req EXCEPT ![r] = p] /\ (p = Idle \/ (p \in Deleting /\ p.key = req[r].key))
    <3>1. CASE req' = [req EXCEPT ![r] = Idle]
      BY <3>1
    <3>2. ASSUME NEW pc \in {"file.remove", "file.audit"}, req' = [req EXCEPT ![r].pc = pc]
          PROVE  \E p : /\ req' = [req EXCEPT ![r] = p]
                        /\ p = Idle \/ (p \in Deleting /\ p.key = req[r].key)
      <4>1. PICK p : p = [req[r] EXCEPT !.pc = pc]
        OBVIOUS
      <4>2. p \in Deleting /\ p.key = req[r].key
        BY <2>1, <4>1 DEF Deleting
      <4>3. req' = [req EXCEPT ![r] = p]
        BY <1>1, <3>2, <4>1
      <4>4. QED
        BY <4>2, <4>3
    <3>3. QED
      BY <2>3, <3>1, <3>2
  <2>5. Exposes(p)'
    <3>1. CASE p = Idle
      BY <3>1 DEF Exposes, Idle, Deleting, Scanning, Cleaning
    <3>2. CASE p \in Deleting /\ p.key = req[r].key
      <4>1. p \notin Scanning /\ p \notin Cleaning /\ p.key \in exposed'
        BY <2>2, <2>3, <3>2 DEF Deleting, Scanning, Cleaning
      <4>2. QED
        BY <4>1 DEF Exposes
    <3>3. QED
      BY <2>4, <3>1, <3>2
  <2>6. objects' \subseteq objects /\ objects \ exposed' \subseteq objects'
    BY <2>2, <2>3
  <2>7. QED
    BY <1>1, <2>3, <2>4, <2>5, <2>6, ObjectsStay
<1>10. ASSUME NEW r \in Requests, ListObjects(r) PROVE ContentInv'
  <2>1. PICK p : p = [pc |-> "file.clean", orphans |-> orphanKeys(req[r].known), cleaned |-> 0]
    OBVIOUS
  <2>2. /\ UNCHANGED <<objects, uploaded, exposed>>
        /\ \/ req' = [req EXCEPT ![r] = Idle]
           \/ req[r].clean /\ req' = [req EXCEPT ![r] = p]
    BY <1>10, <2>1 DEF ListObjects, fileVars, End, Fails
  <2>3. CASE req' = [req EXCEPT ![r] = Idle]
    BY <1>4, <2>2, <2>3
  <2>4. CASE req[r].clean /\ req' = [req EXCEPT ![r] = p]
    <3>1. req[r] \in Scanning
      BY <1>1, <1>10 DEF ListObjects, At, SoundRequest, Idle, Registering, Deleting, Cleaning
    <3>2. Keys \ req[r].known \subseteq exposed
      BY <1>1, <2>4, <3>1 DEF Exposes
    <3>3. p.orphans \subseteq exposed /\ p \notin Deleting /\ p \notin Scanning
      BY <1>1, <2>1, <3>2 DEF orphanKeys, listedKeys, Deleting, Scanning
    <3>4. Exposes(p)'
      BY <2>2, <3>3 DEF Exposes
    <3>5. QED
      BY <1>1, <2>2, <2>4, <3>4, ObjectsStay
  <2>5. QED
    BY <2>2, <2>3, <2>4
<1>11. ASSUME NEW r \in Requests, CleanupOrphan(r) PROVE ContentInv'
  <2>1. PICK k : k = Min(req[r].orphans)
    OBVIOUS
  <2>2. req[r] \in Cleaning
    BY <1>1, <1>11 DEF CleanupOrphan, At, SoundRequest, Idle, Registering, Scanning, Deleting
  <2>3. req[r].orphans \in SUBSET Keys /\ req[r].orphans # {} /\ req[r].orphans \subseteq exposed
    BY <1>1, <1>11, <2>2 DEF CleanupOrphan, Cleaning, Exposes
  <2>4. k \in exposed
    BY <2>1, <2>3, MinOfKeys
  <2>5. /\ UNCHANGED <<uploaded, exposed>> /\ objects' \in {objects, objects \ {k}}
        /\ \E n : req' = [req EXCEPT ![r].orphans = @ \ {k}, ![r].cleaned = n]
    BY <1>11, <2>1 DEF CleanupOrphan
  <2>6. PICK n : req' = [req EXCEPT ![r].orphans = @ \ {k}, ![r].cleaned = n]
    BY <2>5
  <2>7. PICK p : p = [req[r] EXCEPT !.orphans = @ \ {k}, !.cleaned = n]
    OBVIOUS
  <2>8. req' = [req EXCEPT ![r] = p]
    BY <1>1, <2>2, <2>6, <2>7 DEF Cleaning
  <2>9. p.orphans \subseteq exposed /\ p \notin Deleting /\ p \notin Scanning
    BY <2>2, <2>3, <2>7 DEF Cleaning, Deleting, Scanning
  <2>10. Exposes(p)'
    BY <2>5, <2>9 DEF Exposes
  <2>11. objects' \subseteq objects /\ objects \ exposed' \subseteq objects'
    BY <2>4, <2>5
  <2>12. QED
    BY <1>1, <2>5, <2>8, <2>10, <2>11, ObjectsStay
<1>12. QED
  BY <1>3, <1>5, <1>6, <1>7, <1>8, <1>9, <1>10, <1>11
     DEF FilesNext, AdminFileScan, AdminFileCleanup

\* A step of another part leaves the files alone.
LEMMA OtherPartsKeepFiles ==
    ASSUME FilesInv, RequestsOK', UNCHANGED <<fileVars, part>>, part = "files" => UNCHANGED req
    PROVE  FilesInv'
<1>1. UNCHANGED <<records, lastFileId, objects, uploaded, exposed>>
  BY DEF fileVars
<1>2. /\ \A k, row : SoundRow(k, row)' <=> SoundRow(k, row)
      /\ part = "files" => \A k, row : RowOf(k, row)' <=> RowOf(k, row)
      /\ part = "files" => \A r \in Requests : SoundRequest(req[r])' <=> SoundRequest(req[r])
      /\ part = "files" => \A r \in Requests : Exposes(req[r])' <=> Exposes(req[r])
  BY <1>1 DEF SoundRow, RowOf, SoundRequest, Exposes
<1>3. RecordsInv'
  <2>1. \A k \in DOMAIN records' : SoundRow(k, records[k])'
    BY <1>1, <1>2 DEF FilesInv, RecordsInv, SoundRow
  <2>2. QED
    BY <1>1, <1>2, <2>1 DEF FilesInv, RecordsInv
<1>4. ContentInv'
  BY <1>1, <1>2 DEF FilesInv, ContentInv
<1>5. QED
  BY <1>1, <1>3, <1>4 DEF FilesInv

\* Every step keeps the files.
LEMMA FilesStep ==
    ASSUME FilesInv, [AdminNext]_vars
    PROVE  FilesInv'
<1>1. RecordsInv /\ RequestsOK /\ objects \subseteq Keys
  BY DEF FilesInv, RecordsInv, ContentInv
<1>2. RequestsOK'
  BY <1>1, RequestsKept
<1>3. CASE part = "files" /\ FilesNext /\ part' = part
  <2>1. ContentInv'
    BY <1>3, ContentKept
  <2>2. RecordsInv'
    <3>1. ASSUME NEW k \in Keys, PutObject(k) \/ \E u \in FileUsers : PreSignUpload(u, k)
          PROVE  RecordsInv'
      <4>1. UNCHANGED <<records, lastFileId, req, part>>
        BY <1>3, <3>1 DEF PutObject, PreSignUpload, requestVars
      <4>2. /\ \A j \in DOMAIN records' : SoundRow(j, records'[j])
            /\ DOMAIN records' \subseteq Keys /\ records' = [j \in DOMAIN records' |-> records'[j]]
        BY <1>1, <4>1 DEF RecordsInv
      <4>3. \A r \in Requests : SoundRequest(req'[r])
        BY <1>1, <1>3, <4>1 DEF RecordsInv
      <4>4. \A j \in Keys, row \in FileRow :
               RowOf(j, row)' => \E p \in FileRow : RowOf(j, p) /\ p.id = row.id
        BY <4>1 DEF RowOf
      <4>5. QED
        BY <1>1, <1>2, <4>1, <4>2, <4>3, <4>4, RowsStay
    <3>2. QED
      BY <1>1, <1>2, <1>3, <3>1, FileRequestBegins, FileRegistered, RecordDeleted,
         FileRequestGoesOn DEF FilesNext
  <2>3. QED
    BY <1>3, <2>1, <2>2 DEF FilesInv
<1>4. CASE UNCHANGED <<fileVars, part>> /\ (part = "files" => UNCHANGED req)
  BY <1>2, <1>4, OtherPartsKeepFiles
<1>5. QED
  BY <1>3, <1>4 DEF AdminNext, StartWalk, NextPage, vars, requestVars

\* A registered file whose content was uploaded keeps it, whatever cleanups and
\* deletions of other files run next to its registration, unless a deletion has named it
\* or a cleanup has read the records without seeing its own.
THEOREM ContentStays == AdminSpec => []RegisteredFilesKept
<1>1. FilesInv => RegisteredFilesKept
  BY DEF FilesInv, ContentInv, RegisteredFilesKept, objectExists
<1>2. QED
  BY <1>1, FilesInit0, FilesStep, PTL DEF AdminSpec

\* In every state of the records, the handlers hand out a file only to those it is
\* meant for, and give the same answer by id and by key.
LEMMA AnswersAreSound == FilesInv => DownloadsAuthorized
<1> SUFFICES ASSUME FilesInv, NEW k \in DOMAIN records, NEW u \in FileUsers
             PROVE  /\ DownloadFileByObjectKey(u, k).status = 200 =>
                         IF records[k].room = 0 THEN u = KeyOwner[k]
                         ELSE {u, KeyOwner[k]} \subseteq FileMembers[records[k].room]
                    /\ DownloadFileByID(u, records[k].id) = DownloadFileByObjectKey(u, k)
  BY DEF DownloadsAuthorized
<1> DEFINE rec == records[k]
<1>1. part = "files" /\ k \in Keys /\ SoundRow(k, rec) /\ lastFileId \in Nat
  BY DEF FilesInv, RecordsInv
<1>2. /\ rec \in FileRow /\ rec.id \in Nat /\ rec.id > 0 /\ rec.room \in Nat
      /\ rec.status = "uploaded" /\ rec.uploader = KeyOwner[k]
      /\ rec.room > 0 => KeyOwner[k] \in FileMembers[rec.room]
  BY <1>1 DEF SoundRow, FileRow
<1>3. rec # NoFile
  BY <1>2, FileIsSome
<1>4. recordOf(k) = rec
  BY DEF recordOf
<1> HIDE DEF rec
<1>5. DownloadURLByObjectKey(u, k) = authorizedDownloadURL(u, rec)
  BY <1>4 DEF DownloadURLByObjectKey
<1>6. authorizedDownloadURL(u, rec) \in {"url", "forbidden"}
  BY <1>2, <1>3 DEF authorizedDownloadURL
<1>7. authorizedDownloadURL(u, rec) = "url" =>
         IF rec.room = 0 THEN u = KeyOwner[k] ELSE {u, KeyOwner[k]} \subseteq FileMembers[rec.room]
  BY <1>2, <1>3 DEF authorizedDownloadURL, CheckIsMember
<1>8. authorizedDownloadURL(u, rec) = "forbidden" => DownloadFileByObjectKey(u, k).status = 403
  BY <1>5 DEF DownloadFileByObjectKey, Answer, writeFileError
<1>9. {j \in DOMAIN records : records[j].id = rec.id} = {k}
  <2> SUFFICES ASSUME NEW j \in DOMAIN records, records[j].id = rec.id PROVE j = k
    BY DEF rec
  <2>1. j \in Keys /\ records[j] \in FileRow
    BY DEF FilesInv, RecordsInv, SoundRow
  <2>2. RowOf(j, records[j]) /\ RowOf(k, rec)
    BY DEF RowOf, rec
  <2>3. QED
    BY <1>1, <1>2, <2>1, <2>2 DEF FilesInv, RecordsInv
<1>10. DownloadURLByID(u, rec.id) = authorizedDownloadURL(u, rec)
  <2>1. (CHOOSE j \in {k} : TRUE) = k
    OBVIOUS
  <2>2. QED
    BY <1>9, <2>1 DEF DownloadURLByID, rec
<1>11. DownloadFileByID(u, rec.id) = DownloadFileByObjectKey(u, k)
  BY <1>2, <1>5, <1>10 DEF DownloadFileByID, DownloadFileByObjectKey
<1>12. DownloadFileByObjectKey(u, k).status = 200 => authorizedDownloadURL(u, rec) = "url"
  BY <1>6, <1>8
<1>13. QED
  BY <1>7, <1>11, <1>12 DEF rec

\* A file without a room goes only to the user whose id is in its key, a file of a room
\* only to the members of that room, of whom the owner of the key was one, and asking by
\* id and asking by key get the same answer.
THEOREM HandedOutAsMeant == AdminSpec => []DownloadsAuthorized
BY FilesInit0, FilesStep, AnswersAreSound, PTL DEF AdminSpec

----------------------------------------------------------------------------
(***************************************************************************)
(* The audit log.                                                          *)
(***************************************************************************)
\* The log is a sequence.
LogOK == \E S : audit \in Seq(S)

\* The length of the log, and the numbers of its entries.
LEMMA LogLength ==
    ASSUME LogOK
    PROVE  Len(audit) \in Nat /\ DOMAIN audit = 1..Len(audit)
BY DEF LogOK

\* What an entry more leaves of the log.
LEMMA Logged ==
    ASSUME LogOK, NEW e, audit' = Append(audit, e)
    PROVE  /\ LogOK' /\ Len(audit) \in Nat /\ Len(audit') = Len(audit) + 1
           /\ DOMAIN audit = 1..Len(audit) /\ DOMAIN audit' = 1..(Len(audit) + 1)
           /\ \A i \in 1..Len(audit) : audit'[i] = audit[i]
           /\ audit'[Len(audit) + 1] = e
<1>1. PICK S : audit \in Seq(S)
  BY DEF LogOK
<1>2. PICK T : T = S \cup {e}
  OBVIOUS
<1>3. audit \in Seq(T) /\ e \in T
  BY <1>1, <1>2
<1>4. PICK l : l = Append(audit, e)
  OBVIOUS
<1>5. /\ l \in Seq(T) /\ Len(audit) \in Nat /\ Len(l) = Len(audit) + 1
      /\ DOMAIN audit = 1..Len(audit) /\ DOMAIN l = 1..(Len(audit) + 1)
      /\ \A i \in 1..Len(audit) : l[i] = audit[i]
      /\ l[Len(audit) + 1] = e
  BY <1>3, <1>4
<1>6. QED
  BY <1>4, <1>5 DEF LogOK

\* The chain of a user's entries, and the row it ends at.
Chain(u) == \A i \in UserTrail(u) : LeftBefore(u, i, audit[i].before)
Ends(u, row) == LeftBefore(u, Len(audit) + 1, row)

\* Without a new entry, the trail of a user says what it said.
LEMMA LogUnchanged ==
    ASSUME UNCHANGED audit, NEW u
    PROVE  (Chain(u) => Chain(u)') /\ \A row : Ends(u, row) => Ends(u, row)'
BY DEF Chain, Ends, LeftBefore, UserTrail, Trail

\* Nor does an entry about something else change it.
LEMMA OtherLogged ==
    ASSUME LogOK, NEW e, audit' = Append(audit, e), NEW u, ~(e.type = "user" /\ e.target = u)
    PROVE  (Chain(u) => Chain(u)') /\ \A row : Ends(u, row) => Ends(u, row)'
<1>1. /\ Len(audit) \in Nat /\ Len(audit') = Len(audit) + 1
      /\ DOMAIN audit = 1..Len(audit) /\ DOMAIN audit' = 1..(Len(audit) + 1)
      /\ \A i \in 1..Len(audit) : audit'[i] = audit[i]
      /\ audit'[Len(audit) + 1] = e
  BY Logged
<1>2. PICK T : T = UserTrail(u)
  OBVIOUS
<1>3. T = UserTrail(u)' /\ T \subseteq 1..Len(audit)
  BY <1>1, <1>2 DEF UserTrail, Trail
<1>4. \A j \in T : audit'[j] = audit[j] /\ j < Len(audit) + 1 /\ j < Len(audit) + 1 + 1
  BY <1>1, <1>3
<1>5. \A i, row : LeftBefore(u, i, row)' <=>
         \/ {j \in T : j < i} = {} /\ row = NewUser
         \/ \E j \in {k \in T : k < i} : row = audit'[j].after /\ \A k \in {m \in T : m < i} : k <= j
  BY <1>3 DEF LeftBefore
<1>6. \A i, row : LeftBefore(u, i, row) <=>
         \/ {j \in T : j < i} = {} /\ row = NewUser
         \/ \E j \in {k \in T : k < i} : row = audit[j].after /\ \A k \in {m \in T : m < i} : k <= j
  BY <1>2 DEF LeftBefore
<1>7. \A i, row : LeftBefore(u, i, row) => LeftBefore(u, i, row)'
  <2> SUFFICES ASSUME NEW i, NEW row, LeftBefore(u, i, row) PROVE LeftBefore(u, i, row)'
    OBVIOUS
  <2>1. CASE {j \in T : j < i} = {} /\ row = NewUser
    BY <1>5, <2>1
  <2>2. ASSUME NEW j \in {k \in T : k < i}, row = audit[j].after, \A k \in {m \in T : m < i} : k <= j
        PROVE  LeftBefore(u, i, row)'
    <3>1. row = audit'[j].after
      BY <1>4, <2>2
    <3>2. QED
      BY <1>5, <2>2, <3>1
  <2>3. QED
    BY <1>6, <2>1, <2>2
<1>8. ASSUME Chain(u) PROVE Chain(u)'
  <2>1. \A i \in T : LeftBefore(u, i, audit[i].before)
    BY <1>2, <1>8 DEF Chain
  <2>2. \A i \in T : LeftBefore(u, i, audit'[i].before)
    BY <1>4, <2>1
  <2>3. PICK l : l = audit'
    OBVIOUS
  <2>4. \A i \in T : LeftBefore(u, i, l[i].before)
    BY <2>2, <2>3
  <2>5. \A i \in T : LeftBefore(u, i, l[i].before)'
    BY <1>7, <2>4
  <2>6. QED
    BY <1>3, <2>3, <2>5 DEF Chain
<1>9. ASSUME NEW row, Ends(u, row) PROVE Ends(u, row)'
  <2>1. {j \in T : j < Len(audit) + 1} = T /\ {j \in T : j < Len(audit') + 1} = T
    BY <1>1, <1>4
  <2>2. LeftBefore(u, Len(audit) + 1, row)
    BY <1>9 DEF Ends
  <2>3. \/ T = {} /\ row = NewUser
        \/ \E j \in T : row = audit[j].after /\ \A k \in T : k <= j
    BY <1>6, <2>1, <2>2
  <2>4. PICK n : n = Len(audit') + 1
    OBVIOUS
  <2>5. LeftBefore(u, n, row)'
    BY <1>4, <1>5, <2>1, <2>3, <2>4
  <2>6. QED
    BY <2>4, <2>5 DEF Ends
<1>10. QED
  BY <1>8, <1>9

\* An entry that starts from the row at the end of the trail carries it on.
LEMMA OwnLogged ==
    ASSUME LogOK, NEW e, audit' = Append(audit, e), NEW u, e.type = "user", e.target = u,
           Chain(u), Ends(u, e.before)
    PROVE  Chain(u)' /\ Ends(u, e.after)'
<1>1. /\ Len(audit) \in Nat /\ Len(audit') = Len(audit) + 1
      /\ DOMAIN audit = 1..Len(audit) /\ DOMAIN audit' = 1..(Len(audit) + 1)
      /\ \A i \in 1..Len(audit) : audit'[i] = audit[i]
      /\ audit'[Len(audit) + 1] = e
  BY Logged
<1>2. PICK T : T = UserTrail(u)
  OBVIOUS
<1>3. PICK n : n = Len(audit) + 1
  OBVIOUS
<1>4. T \subseteq 1..Len(audit) /\ n \notin T /\ T \cup {n} = UserTrail(u)'
  BY <1>1, <1>2, <1>3 DEF UserTrail, Trail
<1>5. \A j \in T : audit'[j] = audit[j] /\ j < n /\ j <= n /\ ~(n < j)
  BY <1>1, <1>3, <1>4
<1>6. n <= n /\ ~(n < n) /\ n < n + 1 /\ \A j \in T : j < n + 1
  BY <1>1, <1>3, <1>5, <1>4
<1>7. \A i, row : LeftBefore(u, i, row)' <=>
         \/ {j \in T \cup {n} : j < i} = {} /\ row = NewUser
         \/ \E j \in {k \in T \cup {n} : k < i} :
               row = audit'[j].after /\ \A k \in {m \in T \cup {n} : m < i} : k <= j
  BY <1>4 DEF LeftBefore
<1>8. \A i, row : LeftBefore(u, i, row) <=>
         \/ {j \in T : j < i} = {} /\ row = NewUser
         \/ \E j \in {k \in T : k < i} : row = audit[j].after /\ \A k \in {m \in T : m < i} : k <= j
  BY <1>2 DEF LeftBefore
<1>9. \A i \in T \cup {n} : {j \in T \cup {n} : j < i} = {j \in T : j < i}
  BY <1>5, <1>6
<1>10. \A i \in T \cup {n} : \A row : LeftBefore(u, i, row) => LeftBefore(u, i, row)'
  <2> SUFFICES ASSUME NEW i \in T \cup {n}, NEW row, LeftBefore(u, i, row) PROVE LeftBefore(u, i, row)'
    OBVIOUS
  <2>1. CASE {j \in T : j < i} = {} /\ row = NewUser
    BY <1>7, <1>9, <2>1
  <2>2. ASSUME NEW j \in {k \in T : k < i}, row = audit[j].after, \A k \in {m \in T : m < i} : k <= j
        PROVE  LeftBefore(u, i, row)'
    <3>1. row = audit'[j].after
      BY <1>5, <2>2
    <3>2. QED
      BY <1>7, <1>9, <2>2, <3>1
  <2>3. QED
    BY <1>8, <2>1, <2>2
<1>11. PICK l : l = audit'
  OBVIOUS
<1>12. \A i \in T \cup {n} : LeftBefore(u, i, l[i].before)
  <2>1. \A i \in T : LeftBefore(u, i, audit[i].before)
    BY <1>2 DEF Chain
  <2>2. LeftBefore(u, n, e.before)
    BY <1>3 DEF Ends
  <2>3. l[n] = e /\ \A i \in T : l[i] = audit[i]
    BY <1>1, <1>3, <1>5, <1>11
  <2>4. QED
    BY <2>1, <2>2, <2>3
<1>13. \A i \in T \cup {n} : LeftBefore(u, i, l[i].before)'
  BY <1>10, <1>12
<1>14. Chain(u)'
  BY <1>4, <1>11, <1>13 DEF Chain
<1>15. {k \in T \cup {n} : k < n + 1} = T \cup {n}
  BY <1>6
<1>16. audit'[n].after = e.after /\ \A k \in T \cup {n} : k <= n
  BY <1>1, <1>3, <1>5, <1>6
<1>17. LeftBefore(u, n + 1, e.after)'
  BY <1>7, <1>15, <1>16
<1>18. Len(audit') + 1 = n + 1
  BY <1>1, <1>3
<1>19. QED
  BY <1>14, <1>17, <1>18 DEF Ends

----------------------------------------------------------------------------
(***************************************************************************)
(* The trail of a user.                                                    *)
(***************************************************************************)
\* A request on a user between two of its calls.
UserRequest(q) ==
    /\ q = [pc |-> q.pc, user |-> q.user, action |-> q.action, before |-> q.before]
    /\ q.pc \in {"user.save", "user.kick", "user.offline", "user.audit"}
    /\ q.user \in Users

On(r, u) == req[r] # Idle /\ req[r].user = u

\* The request has read the row at the end of the trail, and has saved it or not yet.
Working(r, u) ==
    /\ Ends(u, userAuditItem(req[r].before))
    /\ \/ req[r].pc = "user.save" /\ req[r].before = users[u]
       \/ req[r].pc # "user.save" /\ users[u] = Applied(req[r].before, req[r].action)

\* A user for whom no two requests have overlapped and no call has failed.
Replayed(u) ==
    /\ Chain(u)
    /\ \A r, q \in Requests : On(r, u) /\ On(q, u) => r = q
    /\ \A r \in Requests : On(r, u) => Working(r, u)
    /\ (\A r \in Requests : ~On(r, u)) => Ends(u, userAuditItem(users[u]))

TrailInv ==
    /\ RequestsOK /\ LogOK
    /\ users = [u \in Users |-> users[u]]
    /\ part # "users" => users = [u \in Users |-> NewUser] /\ \A i \in DOMAIN audit : audit[i].type # "user"
    /\ part = "users" => /\ \A r \in Requests : req[r] = Idle \/ UserRequest(req[r])
                         /\ \A u \in Users \ disturbed : Replayed(u)

\* Before any entry, the trail of a user ends at the row that was registered.
LEMMA NoTrail ==
    ASSUME NEW u, \A i \in DOMAIN audit : audit[i].type # "user"
    PROVE  Chain(u) /\ Ends(u, NewUser)
BY DEF Chain, Ends, LeftBefore, UserTrail, Trail

\* Nothing is logged at first.
LEMMA TrailInit == AdminInit => TrailInv
<1> SUFFICES ASSUME AdminInit PROVE TrailInv
  OBVIOUS
<1>1. /\ audit = <<>> /\ faults = 0 /\ req = [r \in Requests |-> Idle]
      /\ users = [u \in Users |-> NewUser]
  BY DEF AdminInit, RequestsInit, UsersInit
<1>2. LogOK
  <2>1. <<>> \in Seq({})
    OBVIOUS
  <2>2. QED
    BY <1>1, <2>1 DEF LogOK
<1>3. \A i \in DOMAIN audit : audit[i].type # "user"
  BY <1>1
<1>4. ASSUME NEW u \in Users PROVE Replayed(u)
  <2>1. Chain(u) /\ Ends(u, NewUser)
    BY <1>3, NoTrail
  <2>2. userAuditItem(users[u]) = NewUser
    BY <1>1, <1>4 DEF userAuditItem, NewUser
  <2>3. \A r \in Requests : ~On(r, u)
    BY <1>1 DEF On
  <2>4. QED
    BY <2>1, <2>2, <2>3 DEF Replayed
<1>5. RequestsOK
  BY <1>1 DEF RequestsOK
<1>6. QED
  BY <1>1, <1>2, <1>3, <1>4, <1>5 DEF TrailInv

\* Who replays the trail of an undisturbed user gets the row.
LEMMA ReplaysFollows == TrailInv => AuditReplays
<1> SUFFICES ASSUME TrailInv, NEW u \in Users, Undisturbed(u)
             PROVE  Chain(u) /\ Ends(u, userAuditItem(users[u]))
  BY DEF AuditReplays, Chain, Ends
<1>1. CASE part # "users"
  <2>1. Chain(u) /\ Ends(u, NewUser)
    BY <1>1, NoTrail DEF TrailInv
  <2>2. users[u] = NewUser
    BY <1>1 DEF TrailInv
  <2>3. userAuditItem(users[u]) = NewUser
    BY <2>2 DEF userAuditItem, NewUser
  <2>4. QED
    BY <2>1, <2>3
<1>2. CASE part = "users"
  <2>1. Replayed(u)
    BY <1>2 DEF TrailInv, Undisturbed
  <2>2. \A r \in Requests : ~On(r, u)
    <3> SUFFICES ASSUME NEW r \in Requests, On(r, u) PROVE FALSE
      OBVIOUS
    <3>1. UserRequest(req[r])
      BY <1>2 DEF TrailInv, On
    <3>2. "user" \in DOMAIN req[r]
      BY <3>1 DEF UserRequest
    <3>3. QED
      BY <3>2 DEF Undisturbed, OnUser, Busy, On
  <2>3. QED
    BY <2>1, <2>2 DEF Replayed
<1>3. QED
  BY <1>1, <1>2

\* A step that leaves the log, the rows and the requests alone.
LEMMA TrailUntouched ==
    ASSUME TrailInv, RequestsOK', UNCHANGED <<audit, users, req, disturbed, part>>
    PROVE  TrailInv'
<1>1. LogOK'
  BY DEF TrailInv, LogOK
<1>2. ASSUME NEW u \in Users, Replayed(u) PROVE Replayed(u)'
  BY <1>2, LogUnchanged DEF Replayed, On, Working
<1>3. QED
  BY <1>1, <1>2 DEF TrailInv, UserRequest

\* The other parts write no entry about users.
LEMMA OtherPart ==
    ASSUME TrailInv, RequestsOK', part # "users", part' = part, UNCHANGED <<users, disturbed>>,
           audit' = audit \/ \E e : audit' = Append(audit, e) /\ e.type # "user"
    PROVE  TrailInv'
<1>1. /\ LogOK /\ users = [u \in Users |-> NewUser]
      /\ \A i \in DOMAIN audit : audit[i].type # "user"
  BY DEF TrailInv
<1>2. CASE audit' = audit
  BY <1>1, <1>2 DEF TrailInv, LogOK
<1>3. ASSUME NEW e, audit' = Append(audit, e), e.type # "user" PROVE TrailInv'
  <2>1. /\ LogOK' /\ DOMAIN audit = 1..Len(audit) /\ DOMAIN audit' = 1..(Len(audit) + 1)
        /\ \A i \in 1..Len(audit) : audit'[i] = audit[i]
        /\ audit'[Len(audit) + 1] = e /\ Len(audit) \in Nat
    BY <1>1, <1>3, Logged
  <2>2. ASSUME NEW i \in DOMAIN audit' PROVE audit'[i].type # "user"
    <3>1. CASE i = Len(audit) + 1
      BY <1>3, <2>1, <3>1
    <3>2. CASE i # Len(audit) + 1
      <4>1. i \in 1..Len(audit)
        BY <2>1, <3>2
      <4>2. QED
        BY <1>1, <2>1, <4>1
    <3>3. QED
      BY <3>1, <3>2
  <2>3. QED
    BY <1>1, <2>1, <2>2 DEF TrailInv
<1>4. QED
  BY <1>2, <1>3

\* A request moves on: users whom it is not about keep their trail.
LEMMA OthersKept ==
    ASSUME TrailInv, part = "users", NEW r \in Requests, NEW u, NEW v \in Users \ disturbed, v # u,
           req[r] = Idle \/ req[r].user = u, users'[v] = users[v],
           req' = [req EXCEPT ![r] = req'[r]], req'[r] = Idle \/ req'[r].user = u,
           audit' = audit \/ \E e : audit' = Append(audit, e) /\ e.type = "user" /\ e.target = u
    PROVE  Replayed(v)'
<1>1. Replayed(v) /\ LogOK /\ req = [x \in Requests |-> req[x]]
  BY DEF TrailInv, RequestsOK
<1>2. (Chain(v) => Chain(v)') /\ \A row : Ends(v, row) => Ends(v, row)'
  BY <1>1, LogUnchanged, OtherLogged
<1>3. ~On(r, v) /\ ~On(r, v)'
  BY DEF On
<1>4. \A x \in Requests : x # r => req'[x] = req[x]
  BY <1>1
<1>5. \A x \in Requests : On(x, v)' => x # r /\ req'[x] = req[x] /\ On(x, v)
  BY <1>3, <1>4 DEF On
<1>6. \A x \in Requests : On(x, v) => On(x, v)'
  BY <1>3, <1>4 DEF On
<1>7. \A x \in Requests : On(x, v)' => Working(x, v)'
  <2> SUFFICES ASSUME NEW x \in Requests, On(x, v)' PROVE Working(x, v)'
    OBVIOUS
  <2>1. req'[x] = req[x] /\ Working(x, v)
    BY <1>1, <1>5 DEF Replayed
  <2>2. QED
    BY <1>2, <2>1 DEF Working
<1>8. (\A x \in Requests : ~On(x, v)') => Ends(v, userAuditItem(users[v]))'
  BY <1>1, <1>2, <1>6 DEF Replayed
<1>9. QED
  BY <1>1, <1>2, <1>5, <1>7, <1>8 DEF Replayed

\* A request on a user begins.
LEMMA ActionBegins ==
    ASSUME TrailInv, RequestsOK', part = "users", part' = part, NEW r \in Requests, NEW role,
           NEW u \in Users, NEW action, AdminUserAction(r, role, u, action)
    PROVE  TrailInv'
<1>1. /\ req = [x \in Requests |-> req[x]] /\ LogOK /\ users = [x \in Users |-> users[x]]
      /\ \A x \in Requests : req[x] = Idle \/ UserRequest(req[x])
      /\ \A v \in Users \ disturbed : Replayed(v)
  BY DEF TrailInv, RequestsOK
<1>2. audit' = audit /\ users' = users
  BY DEF AdminUserAction, Begin, BeginAndEnd
<1>3. CASE req' = req /\ disturbed' = disturbed
  BY <1>2, <1>3, TrailUntouched
<1>4. CASE /\ req[r] = Idle
           /\ req' = [req EXCEPT ![r] = [pc |-> "user.save", user |-> u, action |-> action, before |-> users[u]]]
           /\ disturbed' = IF \E q \in Requests : OnUser(q, u) THEN disturbed \cup {u} ELSE disturbed
  <2>1. PICK q : q = [pc |-> "user.save", user |-> u, action |-> action, before |-> users[u]]
    OBVIOUS
  <2>2. /\ q.pc = "user.save" /\ q.user = u /\ q.before = users[u] /\ q.action = action
        /\ UserRequest(q) /\ q # Idle
    BY <2>1 DEF UserRequest, Idle
  <2>3. /\ req' = [req EXCEPT ![r] = q] /\ req'[r] = q
        /\ \A x \in Requests : x # r => req'[x] = req[x]
    BY <1>1, <1>4, <2>1
  <2>4. \A x \in Requests : req'[x] = Idle \/ UserRequest(req'[x])
    BY <1>1, <2>2, <2>3
  <2>5. ASSUME NEW v \in Users \ disturbed' PROVE Replayed(v)'
    <3>1. v \in Users \ disturbed /\ Replayed(v)
      BY <1>1, <1>4
    <3>2. CASE v # u
      <4>1. /\ req[r] = Idle /\ users'[v] = users[v] /\ req'[r].user = u
            /\ req' = [req EXCEPT ![r] = req'[r]]
        BY <1>2, <1>4, <2>2, <2>3
      <4>2. QED
        BY <1>2, <3>1, <3>2, <4>1, OthersKept
    <3>3. CASE v = u
      <4>1. \A x \in Requests : ~OnUser(x, u)
        BY <1>4, <2>5, <3>3
      <4>2. \A x \in Requests : ~On(x, u)
        <5> SUFFICES ASSUME NEW x \in Requests, On(x, u) PROVE FALSE
          OBVIOUS
        <5>1. UserRequest(req[x])
          BY <1>1 DEF On
        <5>2. "user" \in DOMAIN req[x]
          BY <5>1 DEF UserRequest
        <5>3. QED
          BY <4>1, <5>2 DEF OnUser, Busy, On
      <4>3. Chain(u) /\ Ends(u, userAuditItem(users[u]))
        BY <3>1, <3>3, <4>2 DEF Replayed
      <4>4. Chain(u)' /\ Ends(u, userAuditItem(q.before))'
        BY <1>2, <2>2, <4>3, LogUnchanged
      <4>5. \A x \in Requests : On(x, u)' <=> x = r
        BY <2>2, <2>3, <4>2 DEF On
      <4>6. Working(r, u)'
        BY <1>2, <2>2, <2>3, <4>4 DEF Working
      <4>7. QED
        BY <3>3, <4>4, <4>5, <4>6 DEF Replayed
    <3>4. QED
      BY <3>2, <3>3
  <2>6. LogOK'
    BY <1>1, <1>2 DEF LogOK
  <2>7. QED
    BY <1>1, <1>2, <2>4, <2>5, <2>6 DEF TrailInv
<1>5. QED
  BY <1>3, <1>4 DEF AdminUserAction, Begin, BeginAndEnd

\* A request on a user goes on: it saves the row, kicks, deletes the key, logs or ends.
LEMMA ActionGoesOn ==
    ASSUME TrailInv, RequestsOK', part = "users", part' = part, NEW r \in Requests,
           SaveUser(r) \/ KickUser(r) \/ SetUserOffline(r) \/ writeUserAudit(r)
    PROVE  TrailInv'
<1>1. /\ req = [x \in Requests |-> req[x]] /\ LogOK /\ users = [x \in Users |-> users[x]]
      /\ \A x \in Requests : req[x] = Idle \/ UserRequest(req[x])
      /\ \A v \in Users \ disturbed : Replayed(v)
  BY DEF TrailInv, RequestsOK
<1>2. req[r].pc \in {"user.save", "user.kick", "user.offline", "user.audit"}
  BY DEF SaveUser, KickUser, SetUserOffline, writeUserAudit, At
<1>3. req[r] # Idle /\ UserRequest(req[r])
  BY <1>1, <1>2 DEF Idle
<1>4. PICK q : q = req[r]
  OBVIOUS
<1>5. PICK u : u = q.user
  OBVIOUS
<1>6. /\ q = [pc |-> q.pc, user |-> u, action |-> q.action, before |-> q.before]
      /\ u \in Users /\ On(r, u)
  BY <1>3, <1>4, <1>5 DEF UserRequest, On
<1>7. PICK done : done = AuditEntry("user", u, q.action, userAuditItem(q.before),
                                    userAuditItem(Applied(q.before, q.action)))
  OBVIOUS
<1>8. /\ done.type = "user" /\ done.target = u /\ done.before = userAuditItem(q.before)
      /\ done.after = userAuditItem(Applied(q.before, q.action))
  BY <1>7 DEF AuditEntry
<1>9. /\ disturbed' = disturbed \/ disturbed' = disturbed \cup {u}
      /\ users' = users \/ users' = [users EXCEPT ![u] = Applied(q.before, q.action)]
      /\ audit' = audit \/ audit' = Append(audit, done)
  BY <1>4, <1>5, <1>7 DEF SaveUser, KickUser, SetUserOffline, writeUserAudit, Goto, Fails, Log
<1>10. \/ req' = [req EXCEPT ![r] = Idle]
       \/ \E pc \in {"user.kick", "user.offline", "user.audit"} : req' = [req EXCEPT ![r].pc = pc]
  BY DEF SaveUser, KickUser, SetUserOffline, writeUserAudit, Goto, Fails, Log
<1>11. PICK p : p = req'[r]
  OBVIOUS
<1>12. /\ req' = [req EXCEPT ![r] = p] /\ \A x \in Requests : x # r => req'[x] = req[x]
       /\ \/ p = Idle
          \/ \E pc \in {"user.kick", "user.offline", "user.audit"} :
                p = [pc |-> pc, user |-> u, action |-> q.action, before |-> q.before]
  <2>1. CASE req' = [req EXCEPT ![r] = Idle]
    BY <1>1, <1>11, <2>1
  <2>2. ASSUME NEW pc \in {"user.kick", "user.offline", "user.audit"}, req' = [req EXCEPT ![r].pc = pc]
        PROVE  /\ req' = [req EXCEPT ![r] = p] /\ \A x \in Requests : x # r => req'[x] = req[x]
               /\ p = [pc |-> pc, user |-> u, action |-> q.action, before |-> q.before]
    <3>1. p = [q EXCEPT !.pc = pc]
      BY <1>1, <1>4, <1>11, <2>2
    <3>2. p = [pc |-> pc, user |-> u, action |-> q.action, before |-> q.before]
      BY <1>6, <3>1
    <3>3. QED
      BY <1>1, <1>4, <1>11, <2>2, <3>2, <3>1
  <2>3. QED
    BY <1>10, <2>1, <2>2
<1>13. p = Idle \/ (UserRequest(p) /\ p.user = u /\ p.before = q.before /\ p.action = q.action /\ p.pc # "user.save" /\ p # Idle)
  BY <1>6, <1>12 DEF UserRequest, Idle
<1>14. \A x \in Requests : req'[x] = Idle \/ UserRequest(req'[x])
  BY <1>1, <1>11, <1>12, <1>13
<1>15. ASSUME NEW v \in Users \ disturbed', v # u PROVE Replayed(v)'
  <2>1. v \in Users \ disturbed
    BY <1>9, <1>15
  <2>2. users'[v] = users[v]
    BY <1>1, <1>9, <1>15
  <2>3. /\ req[r].user = u /\ req' = [req EXCEPT ![r] = req'[r]] /\ (req'[r] = Idle \/ req'[r].user = u)
    BY <1>4, <1>5, <1>11, <1>12, <1>13
  <2>4. audit' = audit \/ \E e : audit' = Append(audit, e) /\ e.type = "user" /\ e.target = u
    BY <1>8, <1>9
  <2>5. QED
    BY <1>15, <2>1, <2>2, <2>3, <2>4, OthersKept
<1>16. ASSUME u \notin disturbed' PROVE Replayed(u)'
  <2>1. Replayed(u)
    BY <1>1, <1>6, <1>9, <1>16
  <2>2. Working(r, u) /\ Chain(u)
    BY <1>6, <2>1 DEF Replayed
  <2>3. \A x \in Requests : x # r => ~On(x, u) /\ ~On(x, u)'
    <3>1. \A x \in Requests : On(x, u) => x = r
      BY <1>6, <2>1 DEF Replayed
    <3>2. QED
      BY <1>12, <3>1 DEF On
  <2>4. Ends(u, userAuditItem(q.before))
    BY <1>4, <2>2 DEF Working
  <2>5. \A x \in Requests : On(x, u)' => x = r /\ p # Idle
    BY <1>11, <2>3 DEF On
  <2>6. CASE SaveUser(r)
    <3>1. audit' = audit /\ q.pc = "user.save"
      BY <1>4, <2>6 DEF SaveUser, Goto, Fails, At
    <3>2. q.before = users[u]
      BY <1>4, <2>2, <3>1 DEF Working
    <3>3. Chain(u)' /\ Ends(u, userAuditItem(q.before))'
      BY <2>2, <2>4, <3>1, LogUnchanged
    <3>4. \/ p = Idle /\ users' = users
          \/ p # Idle /\ users' = [users EXCEPT ![u] = Applied(q.before, q.action)]
      <4>1. CASE Fails(r) /\ UNCHANGED users
        <5>1. req' = [req EXCEPT ![r] = Idle]
          BY <4>1 DEF Fails
        <5>2. QED
          BY <1>1, <1>11, <4>1, <5>1
      <4>2. CASE /\ users' = [users EXCEPT ![u] = Applied(q.before, q.action)]
                 /\ Goto(r, IF q.action = "ban" THEN "user.kick" ELSE "user.audit")
        <5>1. \E pc \in {"user.kick", "user.audit"} : req' = [req EXCEPT ![r].pc = pc]
          BY <4>2 DEF Goto
        <5>2. p.pc \in {"user.kick", "user.audit"}
          BY <1>1, <1>4, <1>6, <1>11, <5>1
        <5>3. QED
          BY <4>2, <5>2 DEF Idle
      <4>3. QED
        BY <1>4, <1>5, <2>6, <4>1, <4>2 DEF SaveUser
    <3>5. CASE p = Idle /\ users' = users
      BY <2>5, <3>2, <3>3, <3>5 DEF Replayed
    <3>6. CASE p # Idle /\ users' = [users EXCEPT ![u] = Applied(q.before, q.action)]
      <4>1. users'[u] = Applied(q.before, q.action)
        BY <1>1, <1>6, <3>6
      <4>2. Working(r, u)'
        BY <1>11, <1>13, <3>3, <3>6, <4>1 DEF Working
      <4>3. On(r, u)'
        BY <1>11, <1>13, <3>6 DEF On
      <4>4. QED
        BY <2>5, <3>3, <4>2, <4>3 DEF Replayed
    <3>7. QED
      BY <3>4, <3>5, <3>6
  <2>7. CASE KickUser(r) \/ SetUserOffline(r)
    <3>1. audit' = audit /\ users' = users /\ q.pc # "user.save"
      BY <1>4, <2>7 DEF KickUser, SetUserOffline, Goto, Fails, At
    <3>2. \E pc \in {"user.offline", "user.audit"} : req' = [req EXCEPT ![r].pc = pc]
      BY <1>4, <1>5, <1>16, <2>7 DEF KickUser, SetUserOffline, Goto, Fails
    <3>3. p.pc \in {"user.offline", "user.audit"}
      BY <1>1, <1>4, <1>6, <1>11, <3>2
    <3>4. p # Idle
      BY <3>3 DEF Idle
    <3>5. users[u] = Applied(q.before, q.action)
      BY <1>4, <2>2, <3>1 DEF Working
    <3>6. Chain(u)' /\ Ends(u, userAuditItem(q.before))'
      BY <2>2, <2>4, <3>1, LogUnchanged
    <3>7. Working(r, u)' /\ On(r, u)'
      BY <1>11, <1>13, <3>1, <3>4, <3>5, <3>6 DEF Working, On
    <3>8. QED
      BY <2>5, <3>6, <3>7 DEF Replayed
  <2>8. CASE writeUserAudit(r)
    <3>1. users' = users /\ q.pc # "user.save" /\ req' = [req EXCEPT ![r] = Idle]
      BY <1>4, <2>8 DEF writeUserAudit, Log, At
    <3>2. p = Idle
      BY <1>1, <1>11, <3>1
    <3>3. users[u] = Applied(q.before, q.action)
      BY <1>4, <2>2, <3>1 DEF Working
    <3>4. audit' = Append(audit, done)
      <4>1. \/ audit' = Append(audit, done)
            \/ faults' = faults + 1
        BY <1>4, <1>5, <1>7, <2>8 DEF writeUserAudit, Log
      <4>2. faults' = faults
        BY <1>4, <1>5, <1>16, <2>8 DEF writeUserAudit
      <4>3. faults \in Nat
        BY DEF TrailInv, RequestsOK
      <4>4. QED
        BY <4>1, <4>2, <4>3
    <3>5. Chain(u)' /\ Ends(u, done.after)'
      <4>1. Ends(u, done.before)
        BY <1>8, <2>4
      <4>2. QED
        BY <1>1, <1>8, <2>2, <3>4, <4>1, OwnLogged
    <3>6. Ends(u, userAuditItem(users[u]))'
      <4>1. done.after = userAuditItem(users[u])'
        BY <1>8, <3>1, <3>3 DEF userAuditItem
      <4>2. QED
        BY <3>5, <4>1
    <3>7. QED
      BY <2>5, <3>2, <3>5, <3>6 DEF Replayed
  <2>9. QED
    BY <2>6, <2>7, <2>8
<1>17. LogOK'
  BY <1>1, <1>9, Logged DEF LogOK
<1>18. users' = [x \in Users |-> users'[x]]
  BY <1>1, <1>9
<1>19. QED
  BY <1>14, <1>15, <1>16, <1>17, <1>18 DEF TrailInv

\* A request that does not act on a user leaves no entry of type user.
LEMMA OtherEntry ==
    ASSUME NEW r, NEW type, NEW target, NEW action, NEW before, NEW after, type # "user",
           Log(r, AuditEntry(type, target, action, before, after))
    PROVE  audit' = audit \/ \E e : audit' = Append(audit, e) /\ e.type # "user"
<1>1. PICK logged : logged = AuditEntry(type, target, action, before, after)
  OBVIOUS
<1>2. logged.type = type
  BY <1>1 DEF AuditEntry
<1>3. audit' = Append(audit, logged) \/ audit' = audit
  BY <1>1 DEF Log
<1>4. QED
  BY <1>2, <1>3

\* No step changes an entry of the log, and only the requests on users write about them.
LEMMA LogOnlyGrows ==
    ASSUME [AdminNext]_vars
    PROVE  /\ audit' = audit \/ \E e : audit' = Append(audit, e)
           /\ part = "users" \/ audit' = audit \/ \E e : audit' = Append(audit, e) /\ e.type # "user"
<1>1. CASE part = "users" /\ UsersNext
  <2>1. ASSUME NEW c \in Connections,
               \/ Register(c) \/ SetUserConnectionOnline(c) \/ Disconnect(c)
               \/ SetUserConnectionOffline(c)
        PROVE  audit' = audit
    BY <2>1 DEF Register, SetUserConnectionOnline, Disconnect, SetUserConnectionOffline, requestVars
  <2>2. ASSUME NEW u \in Users, Expire(u) PROVE audit' = audit
    BY <2>2 DEF Expire
  <2>3. ASSUME NEW r \in Requests, NEW role \in Roles, NEW u \in ManagedUsers, NEW action \in UserActions,
               AdminUserAction(r, role, u, action)
        PROVE  audit' = audit
    BY <2>3 DEF AdminUserAction, Begin, BeginAndEnd
  <2>4. ASSUME NEW r \in Requests, SaveUser(r) \/ KickUser(r) \/ SetUserOffline(r) \/ writeUserAudit(r)
        PROVE  audit' = audit \/ \E e : audit' = Append(audit, e)
    BY <2>4 DEF SaveUser, KickUser, SetUserOffline, writeUserAudit, Goto, Fails, Log
  <2>5. QED
    BY <1>1, <2>1, <2>2, <2>3, <2>4 DEF UsersNext
<1>2. CASE ConfigNext
  <2>1. ASSUME NEW r \in Requests, auditConfig(r)
        PROVE  audit' = audit \/ \E e : audit' = Append(audit, e) /\ e.type # "user"
    <3>1. \/ Log(r, AuditEntry("global_agent_config", 1, "rollback", "", ""))
          \/ Log(r, AuditEntry("global_agent_config", 1, "update", req[r].before, req[r].after))
      BY <2>1 DEF auditConfig
    <3>2. QED
      BY <3>1, OtherEntry
  <2>2. ASSUME NEW r \in Requests, NEW role \in Roles,
               \/ AdminAgentConfigGet(r, role) \/ AdminAgentConfigRollback(r, role)
               \/ \E input \in Inputs : AdminAgentConfigUpdate(r, role, input)
        PROVE  audit' = audit
    BY <2>2 DEF AdminAgentConfigGet, AdminAgentConfigUpdate, AdminAgentConfigRollback, Begin, BeginAndEnd
  <2>3. ASSUME NEW r \in Requests, ReadForRollback(r) \/ CreateConfig(r) \/ SaveConfig(r)
        PROVE  audit' = audit
    BY <2>3 DEF ReadForRollback, CreateConfig, SaveConfig, Goto, End, Fails
  <2>4. QED
    BY <1>2, <2>1, <2>2, <2>3 DEF ConfigNext
<1>3. CASE ModerationNext
  <2>1. ASSUME NEW e \in EventIds, CreateEvent(e) PROVE audit' = audit
    BY <2>1 DEF CreateEvent, requestVars
  <2>2. ASSUME NEW r \in Requests,
               \E role \in Roles, e \in EventIds, action \in ModerationActions :
                  AdminModerationAction(r, role, e, action)
        PROVE  audit' = audit
    BY <2>2 DEF AdminModerationAction, Begin, BeginAndEnd
  <2>3. ASSUME NEW r \in Requests, SaveEvent(r) PROVE audit' = audit
    BY <2>3 DEF SaveEvent, Goto, Fails, End
  <2>4. ASSUME NEW r \in Requests, auditEvent(r)
        PROVE  audit' = audit \/ \E e : audit' = Append(audit, e) /\ e.type # "user"
    BY <2>4, OtherEntry DEF auditEvent
  <2>5. QED
    BY <1>3, <2>1, <2>2, <2>3, <2>4 DEF ModerationNext
<1>4. CASE FilesNext
  <2>1. ASSUME NEW k \in Keys, PutObject(k) \/ \E u \in FileUsers : PreSignUpload(u, k)
        PROVE  audit' = audit
    BY <2>1 DEF PutObject, PreSignUpload, requestVars
  <2>2. ASSUME NEW r \in Requests,
               \E u \in FileUsers, k \in Keys, room \in FileRooms \cup {0} : CompleteUpload(r, u, k, room)
        PROVE  audit' = audit
    BY <2>2 DEF CompleteUpload, Begin, BeginAndEnd
  <2>3. ASSUME NEW r \in Requests, NEW role \in Roles,
               \/ \E k \in Keys : AdminFileDelete(r, role, k)
               \/ AdminFileScan(r, role) \/ AdminFileCleanup(r, role)
        PROVE  audit' = audit
    BY <2>3 DEF AdminFileDelete, AdminFileScan, AdminFileCleanup, ScanAnomalies, Begin, BeginAndEnd
  <2>4. ASSUME NEW r \in Requests,
               \/ RegisterFile(r) \/ DeleteRecord(r) \/ RemoveObject(r) \/ ListObjects(r) \/ CleanupOrphan(r)
        PROVE  audit' = audit
    BY <2>4 DEF RegisterFile, DeleteRecord, RemoveObject, ListObjects, CleanupOrphan, Goto, End, Fails
  <2>5. ASSUME NEW r \in Requests, CleanupDone(r) \/ auditFile(r)
        PROVE  audit' = audit \/ \E e : audit' = Append(audit, e) /\ e.type # "user"
    <3>1. \/ Log(r, AuditEntry("file", req[r].cleaned, "cleanup_orphans", "", ""))
          \/ Log(r, AuditEntry("file", req[r].id, "delete", "", ""))
          \/ audit' = audit
      BY <2>5 DEF CleanupDone, auditFile, End
    <3>2. QED
      BY <3>1, OtherEntry
  <2>6. QED
    BY <1>4, <2>1, <2>2, <2>3, <2>4, <2>5 DEF FilesNext
<1>5. CASE StartWalk \/ NextPage \/ UNCHANGED vars
  BY <1>5 DEF StartWalk, NextPage, vars, requestVars
<1>6. QED
  BY <1>1, <1>2, <1>3, <1>4, <1>5 DEF AdminNext

\* Every step keeps the trails.
LEMMA TrailStep ==
    ASSUME TrailInv, [AdminNext]_vars
    PROVE  TrailInv'
<1>1. RequestsOK'
  BY RequestsKept DEF TrailInv
<1>2. CASE part = "users" /\ UsersNext /\ part' = part
  <2>1. ASSUME NEW c \in Connections,
               \/ Register(c) \/ SetUserConnectionOnline(c) \/ Disconnect(c)
               \/ SetUserConnectionOffline(c)
        PROVE  UNCHANGED <<audit, users, req, disturbed, part>>
    BY <1>2, <2>1 DEF Register, SetUserConnectionOnline, Disconnect, SetUserConnectionOffline, requestVars
  <2>2. ASSUME NEW u \in Users, Expire(u) PROVE UNCHANGED <<audit, users, req, disturbed, part>>
    BY <1>2, <2>2 DEF Expire
  <2>3. \A u \in ManagedUsers : u \in Users
    BY UsersAssumption
  <2>4. QED
    BY <1>1, <1>2, <2>1, <2>2, <2>3, TrailUntouched, ActionBegins, ActionGoesOn DEF UsersNext
<1>3. CASE part # "users" /\ part' = part /\ UNCHANGED userVars
  <2>1. audit' = audit \/ \E e : audit' = Append(audit, e) /\ e.type # "user"
    BY <1>3, LogOnlyGrows
  <2>2. QED
    BY <1>1, <1>3, <2>1, OtherPart DEF userVars
<1>4. CASE StartWalk \/ NextPage \/ UNCHANGED vars
  BY <1>1, <1>4, TrailUntouched DEF StartWalk, NextPage, vars, userVars, requestVars
<1>5. QED
  BY <1>2, <1>3, <1>4 DEF AdminNext

\* As long as no two requests on a user overlap and no call fails, the user's entries in
\* the audit log lead from the row a user is created with to the present row, each
\* from where the one before has left it.
THEOREM TrailsReplay == AdminSpec => []AuditReplays
<1>1. TrailInv /\ [AdminNext]_vars => TrailInv'
  BY TrailStep
<1>2. QED
  BY <1>1, TrailInit, ReplaysFollows, PTL DEF AdminSpec

----------------------------------------------------------------------------
(***************************************************************************)
(* Paging through the log.                                                 *)
(***************************************************************************)
\* A set of natural numbers that is not empty has a smallest one.
LEMMA Smallest ==
    ASSUME NEW S \in SUBSET Nat, S # {}
    PROVE  \E x \in S : \A y \in S : ~(y < x)
<1>1. PICK x \in S : \A y \in S : <<y, x>> \notin OpToRel(<, Nat)
  BY NatLessThanWellFounded, WFMin
<1>2. QED
  BY <1>1 DEF OpToRel

\* The ids 1 to n, the largest first: the only order there is.
LEMMA NewestFirst ==
    ASSUME NEW n \in Nat
    PROVE  ByIdDesc(1..n) = [i \in 1..n |-> n + 1 - i]
<1>1. Cardinality(1..n) = n
  BY FS_Interval
<1>2. PICK f : f = ByIdDesc(1..n)
  OBVIOUS
<1>3. f \in [1..n -> 1..n] /\ \A i, j \in 1..n : i < j => f[i] > f[j]
  <2>1. PICK g : g = [i \in 1..n |-> n + 1 - i]
    OBVIOUS
  <2>2. g \in [1..n -> 1..n] /\ \A i, j \in 1..n : i < j => g[i] > g[j]
    BY <2>1
  <2>3. \E h \in [1..n -> 1..n] : \A i, j \in DOMAIN h : i < j => h[i] > h[j]
    BY <2>2
  <2>4. f = CHOOSE h \in [1..n -> 1..n] : \A i, j \in DOMAIN h : i < j => h[i] > h[j]
    BY <1>1, <1>2 DEF ByIdDesc
  <2>5. f \in [1..n -> 1..n] /\ \A i, j \in DOMAIN f : i < j => f[i] > f[j]
    BY <2>3, <2>4
  <2>6. QED
    BY <2>5
<1>4. \A i \in 1..n : f[i] <= n + 1 - i
  <2> SUFFICES ASSUME {i \in 1..n : ~(f[i] <= n + 1 - i)} # {} PROVE FALSE
    OBVIOUS
  <2>1. PICK S : S = {i \in 1..n : ~(f[i] <= n + 1 - i)}
    OBVIOUS
  <2>2. S \in SUBSET Nat /\ S # {}
    BY <2>1
  <2>3. PICK i \in S : \A j \in S : ~(j < i)
    BY <2>2, Smallest
  <2>4. i \in 1..n /\ f[i] \in 1..n /\ ~(f[i] <= n + 1 - i)
    BY <1>3, <2>1
  <2>5. i > 1
    BY <2>4
  <2>6. i - 1 \in 1..n /\ i - 1 < i /\ f[i - 1] \in 1..n
    <3>1. i - 1 \in 1..n /\ i - 1 < i
      BY <2>4, <2>5
    <3>2. QED
      BY <1>3, <3>1
  <2>7. f[i - 1] <= n + 1 - (i - 1)
    BY <2>1, <2>3, <2>6
  <2>8. f[i - 1] > f[i]
    BY <1>3, <2>4, <2>6
  <2>9. QED
    BY <2>4, <2>6, <2>7, <2>8
<1>5. \A i \in 1..n : f[i] >= n + 1 - i
  <2> SUFFICES ASSUME {k \in 0..n : n - k \in 1..n /\ ~(f[n - k] >= k + 1)} # {} PROVE FALSE
    <3>1. \A i \in 1..n : n - i \in 0..n /\ n - (n - i) = i /\ (n - i) + 1 = n + 1 - i
      OBVIOUS
    <3>2. QED
      BY <3>1
  <2>1. PICK S : S = {k \in 0..n : n - k \in 1..n /\ ~(f[n - k] >= k + 1)}
    OBVIOUS
  <2>2. S \in SUBSET Nat /\ S # {}
    BY <2>1
  <2>3. PICK k \in S : \A j \in S : ~(j < k)
    BY <2>2, Smallest
  <2>4. k \in 0..n /\ n - k \in 1..n /\ f[n - k] \in 1..n /\ ~(f[n - k] >= k + 1)
    BY <1>3, <2>1
  <2>5. k > 0
    BY <2>4
  <2>6. k - 1 \in 0..n /\ k - 1 < k /\ n - (k - 1) \in 1..n /\ n - k < n - (k - 1)
    BY <2>4, <2>5
  <2>7. f[n - (k - 1)] >= (k - 1) + 1
    BY <2>1, <2>3, <2>6
  <2>8. f[n - k] > f[n - (k - 1)] /\ f[n - (k - 1)] \in 1..n
    BY <1>3, <2>4, <2>6
  <2>9. QED
    BY <2>4, <2>7, <2>8
<1>6. \A i \in 1..n : f[i] = n + 1 - i
  <2>1. \A i \in 1..n : f[i] \in Int
    BY <1>3
  <2>2. QED
    BY <1>4, <1>5, <2>1
<1>7. QED
  BY <1>2, <1>3, <1>6

PageSize == normalSize(WalkSize)

\* Every page has room for an entry.
LEMMA PageSizeType == PageSize \in Nat \ {0}
BY WalkAssumption, QueriesAssumption DEF PageSize, normalSize

\* The page shows the entries at its positions, counted from the newest one.
LEMMA PageShows ==
    ASSUME LogOK, NEW page \in Nat \ {0}
    PROVE  LET items == AdminAuditList(AuditQuery(page)).items
               skipped == (page - 1) * PageSize
           IN  /\ skipped \in Nat /\ page * PageSize = skipped + PageSize
               /\ items = <<>> => Len(audit) <= skipped
               /\ \A k \in 1..Len(audit) :
                     Len(audit) - k >= skipped /\ Len(audit) - k < skipped + PageSize => k \in ToSet(items)
<1>1. PICK n \in Nat : n = Len(audit)
  BY LogLength
<1>2. PICK size \in Nat \ {0} : size = PageSize
  BY PageSizeType
<1>3. PICK skipped \in Nat : skipped = (page - 1) * size /\ page * size = skipped + size
  <2>1. (page - 1) * size \in Nat /\ page * size = (page - 1) * size + size
    OBVIOUS
  <2>2. QED
    BY <2>1
<1>4. PICK rows : rows = [i \in 1..n |-> n + 1 - i]
  OBVIOUS
<1>5. rows \in Seq(Nat) /\ Len(rows) = n
  BY <1>4
<1>6. PICK last : last = IF page * size <= n THEN page * size ELSE n
  OBVIOUS
<1>7. Min({page * size, Len(rows)}) = last
  <2>1. page * size \in Nat
    BY <1>3
  <2>2. \A x \in {page * size, n} : (\A y \in {page * size, n} : x <= y) => x = last
    BY <1>6, <2>1
  <2>3. last \in {page * size, n} /\ \A y \in {page * size, n} : last <= y
    BY <1>6, <2>1
  <2>4. QED
    BY <1>5, <2>2, <2>3 DEF Min
<1>8. PICK items : items = SubSeq(rows, skipped + 1, last)
  OBVIOUS
<1>9. AdminAuditList(AuditQuery(page)).items = items
  <2>1. PICK q : q = AuditQuery(page)
    OBVIOUS
  <2>2. q = [page |-> page, size |-> WalkSize, action |-> NoText, target |-> NoText]
    BY <2>1 DEF AuditQuery
  <2>3. PICK p : p = Normalized(q)
    OBVIOUS
  <2>4. p.page = page /\ p.size = size /\ p.action = NoText /\ p.target = NoText
    <3>1. normalPage(page) = page
      BY DEF normalPage
    <3>2. normalSize(WalkSize) = size
      BY <1>2 DEF PageSize
    <3>3. q.page = page /\ q.size = WalkSize
      BY <2>2
    <3>4. p = [q EXCEPT !.page = normalPage(q.page), !.size = normalSize(q.size)]
      BY <2>3 DEF Normalized
    <3>5. p = [q EXCEPT !.page = page, !.size = size]
      BY <3>1, <3>2, <3>3, <3>4
    <3>6. QED
      BY <2>2, <3>5
  <2>5. {i \in 1..Len(audit) : /\ WantedText(p.action, audit[i].action)
                               /\ WantedText(p.target, audit[i].type)} = 1..n
    BY <1>1, <2>4 DEF WantedText
  <2>6. ByIdDesc(1..n) = rows
    BY <1>4, NewestFirst
  <2>7. AuditList(p) = Listed(rows, p)
    BY <2>5, <2>6 DEF AuditList
  <2>8. Listed(rows, p).items = Page(rows, page, size)
    BY <2>4 DEF Listed
  <2>9. Page(rows, page, size) = items
    BY <1>3, <1>7, <1>8 DEF Page
  <2>10. QED
    BY <2>1, <2>3, <2>7, <2>8, <2>9 DEF AdminAuditList
<1>10. last \in Nat /\ last <= n
  BY <1>3, <1>6
<1>11. ASSUME items = <<>> PROVE n <= skipped
  <2> SUFFICES ASSUME skipped < n PROVE FALSE
    OBVIOUS
  <2>1. skipped + 1 <= last
    BY <1>3, <1>6
  <2>2. Len(items) = last - (skipped + 1) + 1
    BY <1>5, <1>8, <1>10, <2>1
  <2>3. QED
    BY <1>10, <1>11, <2>1, <2>2
<1>12. ASSUME NEW k \in 1..n, n - k >= skipped, n - k < skipped + size
       PROVE  k \in ToSet(items)
  <2>1. PICK i : i = n + 1 - k - skipped
    OBVIOUS
  <2>2. i \in 1..(last - skipped) /\ skipped + i = n + 1 - k /\ skipped + i \in 1..n /\ skipped + 1 <= last
    BY <1>3, <1>6, <1>12, <2>1
  <2>3. Len(items) = last - skipped /\ DOMAIN items = 1..(last - skipped)
    BY <1>5, <1>8, <1>10, <2>2
  <2>4. items[i] = rows[skipped + i]
    BY <1>5, <1>8, <1>10, <2>2, <2>3
  <2>5. rows[skipped + i] = k
    BY <1>4, <2>2
  <2>6. QED
    BY <2>2, <2>3, <2>4, <2>5 DEF ToSet
<1>13. QED
  BY <1>1, <1>2, <1>3, <1>9, <1>11, <1>12

\* A walk has seen, of the entries there were at its beginning, those that the pages
\* before the next one cover now: as the log grows, they cover fewer old ones.
Walk(w) ==
    /\ w = [page |-> w.page, entries |-> w.entries, seen |-> w.seen, done |-> w.done]
    /\ w.page \in Nat \ {0} /\ w.entries \in Nat /\ w.entries <= Len(audit)
    /\ \A k \in 1..w.entries : Len(audit) - k < (w.page - 1) * PageSize => k \in w.seen
    /\ w.done => 1..w.entries \subseteq w.seen

WalkInv == LogOK /\ (walk = NoWalk \/ Walk(walk))

\* New entries push older ones to later pages, never past the reader.
LEMMA WalkStep ==
    ASSUME WalkInv, TrailInv', [AdminNext]_vars,
           audit' = audit \/ \E e : audit' = Append(audit, e)
    PROVE  WalkInv'
<1>1. LogOK /\ LogOK'
  BY DEF WalkInv, TrailInv
<1>2. Len(audit) \in Nat /\ Len(audit') \in Nat /\ Len(audit') >= Len(audit)
  <2>1. CASE audit' = audit
    BY <1>1, <2>1, LogLength
  <2>2. CASE \E e : audit' = Append(audit, e)
    <3>1. PICK e : audit' = Append(audit, e)
      BY <2>2
    <3>2. Len(audit) \in Nat /\ Len(audit') = Len(audit) + 1
      BY <1>1, <3>1, Logged
    <3>3. QED
      BY <3>2
  <2>3. QED
    BY <2>1, <2>2
<1>3. PICK size \in Nat \ {0} : size = PageSize
  BY PageSizeType
<1>4. CASE walk' = walk
  <2>1. CASE walk = NoWalk
    BY <1>1, <1>4, <2>1 DEF WalkInv
  <2>2. CASE Walk(walk)
    <3>1. PICK w : w = walk
      OBVIOUS
    <3>2. Walk(w) /\ w.page \in Nat \ {0} /\ w.entries \in Nat
      BY <2>2, <3>1 DEF Walk
    <3>3. PICK skipped \in Int : skipped = (w.page - 1) * size
      BY <3>2
    <3>4. \A k \in 1..w.entries : Len(audit') - k < skipped => Len(audit) - k < skipped
      BY <1>2, <3>2
    <3>5. w.entries <= Len(audit')
      BY <1>2, <3>2 DEF Walk
    <3>6. \A k \in 1..w.entries : Len(audit') - k < skipped => k \in w.seen
      BY <1>3, <3>2, <3>3, <3>4 DEF Walk
    <3>7. Walk(w)'
      BY <1>3, <3>2, <3>3, <3>5, <3>6 DEF Walk, PageSize, normalSize
    <3>8. walk' = w
      BY <1>4, <3>1
    <3>9. QED
      BY <1>1, <3>7, <3>8 DEF WalkInv
  <2>3. QED
    BY <2>1, <2>2 DEF WalkInv
<1>5. CASE StartWalk
  <2>1. PICK no : no = FALSE
    OBVIOUS
  <2>2. PICK w : w = [page |-> 1, entries |-> Len(audit), seen |-> {}, done |-> no]
    OBVIOUS
  <2>3. walk' = w
    BY <1>5, <2>1, <2>2 DEF StartWalk
  <2>4. audit' = audit
    BY <1>5 DEF StartWalk, requestVars
  <2>5. (w.page - 1) * size = 0 /\ w.page \in Nat \ {0} /\ w.entries = Len(audit) /\ w.done = no
    BY <2>2
  <2>6. \A k \in 1..w.entries : ~(Len(audit) - k < (w.page - 1) * size)
    BY <1>2, <2>5
  <2>7. ~w.done
    BY <2>1, <2>5
  <2>8. w = [page |-> w.page, entries |-> w.entries, seen |-> w.seen, done |-> w.done]
    BY <2>2
  <2>9. w.entries \in Nat /\ w.entries <= Len(audit)
    BY <1>2, <2>5
  <2>10. Walk(w)'
    BY <1>3, <2>4, <2>5, <2>6, <2>7, <2>8, <2>9 DEF Walk, PageSize, normalSize
  <2>11. QED
    BY <1>1, <2>3, <2>10 DEF WalkInv
<1>6. CASE NextPage
  <2>1. audit' = audit /\ walk # NoWalk
    BY <1>6 DEF NextPage, requestVars
  <2>2. PICK w : w = walk
    OBVIOUS
  <2>3. Walk(w)
    BY <2>1, <2>2 DEF WalkInv
  <2>4. PICK items : items = AdminAuditList(AuditQuery(w.page)).items
    OBVIOUS
  <2>5. PICK last : last = (items = <<>>)
    OBVIOUS
  <2>6. PICK new : new = [page |-> w.page + 1, entries |-> w.entries, seen |-> w.seen \cup ToSet(items),
                          done |-> last]
    OBVIOUS
  <2>7. walk' = new
    <3>1. walk' = [w EXCEPT !.page = w.page + 1, !.seen = w.seen \cup ToSet(items), !.done = last]
      BY <1>6, <2>2, <2>4, <2>5 DEF NextPage
    <3>2. w = [page |-> w.page, entries |-> w.entries, seen |-> w.seen, done |-> w.done]
      BY <2>3 DEF Walk
    <3>3. PICK page : page = w.page + 1
      OBVIOUS
    <3>4. PICK seen : seen = w.seen \cup ToSet(items)
      OBVIOUS
    <3>5. walk' = [w EXCEPT !.page = page, !.seen = seen, !.done = last]
      BY <3>1, <3>3, <3>4
    <3>6. new = [page |-> page, entries |-> w.entries, seen |-> seen, done |-> last]
      BY <2>6, <3>3, <3>4
    <3>7. PICK v : v = [w EXCEPT !.page = page, !.seen = seen, !.done = last]
      OBVIOUS
    <3>8. DOMAIN v = {"page", "entries", "seen", "done"} /\ v = [x \in DOMAIN v |-> v[x]]
      BY <3>2, <3>7
    <3>9. v["page"] = page /\ v["entries"] = w.entries /\ v["seen"] = seen /\ v["done"] = last
      BY <3>2, <3>7
    <3>10. DOMAIN new = {"page", "entries", "seen", "done"} /\ new = [x \in DOMAIN new |-> new[x]]
      BY <3>6
    <3>11. new["page"] = page /\ new["entries"] = w.entries /\ new["seen"] = seen /\ new["done"] = last
      BY <3>6
    <3>12. \A x \in DOMAIN v : v[x] = new[x]
      BY <3>8, <3>9, <3>11
    <3>13. v = new
      BY <3>8, <3>10, <3>12
    <3>14. QED
      BY <3>5, <3>7, <3>13
  <2>8. w.page \in Nat \ {0} /\ w.entries \in Nat /\ w.entries <= Len(audit)
    BY <2>3 DEF Walk
  <2>9. PICK skipped \in Nat :
           /\ skipped = (w.page - 1) * size /\ w.page * size = skipped + size
           /\ items = <<>> => Len(audit) <= skipped
           /\ \A k \in 1..Len(audit) :
                 Len(audit) - k >= skipped /\ Len(audit) - k < skipped + size => k \in ToSet(items)
    BY <1>1, <1>3, <2>4, <2>8, PageShows
  <2>10. \A k \in 1..w.entries : Len(audit) - k < skipped => k \in w.seen
    BY <1>3, <2>3, <2>9 DEF Walk
  <2>11. \A k \in 1..w.entries : Len(audit) - k < skipped + size => k \in w.seen \cup ToSet(items)
    <3> SUFFICES ASSUME NEW k \in 1..w.entries, Len(audit) - k < skipped + size
                 PROVE  k \in w.seen \cup ToSet(items)
      OBVIOUS
    <3>1. k \in 1..Len(audit) /\ Len(audit) - k \in Int
      BY <1>2, <2>8
    <3>2. CASE Len(audit) - k < skipped
      BY <2>10, <3>2
    <3>3. CASE Len(audit) - k >= skipped
      BY <2>9, <3>1, <3>3
    <3>4. QED
      BY <3>1, <3>2, <3>3
  <2>12. items = <<>> => 1..w.entries \subseteq w.seen
    BY <1>2, <2>8, <2>9, <2>10
  <2>13. /\ new.page = w.page + 1 /\ new.entries = w.entries /\ new.seen = w.seen \cup ToSet(items)
         /\ new = [page |-> new.page, entries |-> new.entries, seen |-> new.seen, done |-> new.done]
    BY <2>6
  <2>14. new.done => items = <<>>
    <3>1. new.done = last
      BY <2>6
    <3>2. QED
      BY <2>5, <3>1
  <2>15. (new.page - 1) * size = skipped + size /\ new.page \in Nat \ {0}
    BY <2>8, <2>9, <2>13
  <2>16. Walk(new)'
    BY <1>3, <2>1, <2>8, <2>11, <2>12, <2>13, <2>14, <2>15 DEF Walk, PageSize, normalSize
  <2>17. QED
    BY <1>1, <2>7, <2>16 DEF WalkInv
<1>7. QED
  BY <1>4, <1>5, <1>6 DEF AdminNext, vars

\* Whoever pages through the audit log to its end has seen every entry there was at the
\* beginning, for every page size, however the log grows meanwhile.
THEOREM NoEntrySkipped == AdminSpec => []AuditWalkComplete
<1>1. AdminInit => WalkInv
  BY TrailInit DEF AdminInit, WalkInv, TrailInv
<1>2. TrailInv /\ WalkInv /\ [AdminNext]_vars => TrailInv' /\ WalkInv'
  <2> SUFFICES ASSUME TrailInv, WalkInv, [AdminNext]_vars PROVE TrailInv' /\ WalkInv'
    OBVIOUS
  <2>1. TrailInv'
    BY TrailStep
  <2>2. audit' = audit \/ \E e : audit' = Append(audit, e)
    BY LogOnlyGrows
  <2>3. QED
    BY <2>1, <2>2, WalkStep
<1>3. WalkInv => AuditWalkComplete
  BY DEF WalkInv, Walk, AuditWalkComplete
<1>4. QED
  BY <1>1, <1>2, <1>3, TrailInit, PTL DEF AdminSpec

----------------------------------------------------------------------------
(***************************************************************************)
(* Sums over finite sets.                                                  *)
(***************************************************************************)
\* A sum over a finite set: a function that satisfies the equations of the recursion.
Summing(g, f, S) ==
    g = [s \in SUBSET S |-> IF s = {} THEN 0
                            ELSE f[CHOOSE x \in s : TRUE] + g[s \ {CHOOSE x \in s : TRUE}]]

\* What MapThenSumSet computes is such a function, taken at the whole set.
LEMMA SumUnfolds ==
    ASSUME NEW f
    PROVE  SumOf(f) = (CHOOSE g : Summing(g, f, DOMAIN f))[DOMAIN f]
BY DEF SumOf, MapThenSumSet, MapThenFoldSet, Summing

\* Two such functions agree on the finite sets.
LEMMA SumUnique ==
    ASSUME NEW S, IsFiniteSet(S), NEW f, NEW g, NEW h, Summing(g, f, S), Summing(h, f, S)
    PROVE  g[S] = h[S]
<1>1. ASSUME NEW s \in SUBSET S
      PROVE  /\ g[s] = IF s = {} THEN 0 ELSE f[CHOOSE x \in s : TRUE] + g[s \ {CHOOSE x \in s : TRUE}]
             /\ h[s] = IF s = {} THEN 0 ELSE f[CHOOSE x \in s : TRUE] + h[s \ {CHOOSE x \in s : TRUE}]
  <2>1. g[s] = IF s = {} THEN 0 ELSE f[CHOOSE x \in s : TRUE] + g[s \ {CHOOSE x \in s : TRUE}]
    BY DEF Summing
  <2>2. h[s] = IF s = {} THEN 0 ELSE f[CHOOSE x \in s : TRUE] + h[s \ {CHOOSE x \in s : TRUE}]
    BY DEF Summing
  <2>3. QED
    BY <2>1, <2>2
<1>2. PICK N : N = {n \in Nat : \E s \in SUBSET S : Cardinality(s) = n /\ g[s] # h[s]}
  OBVIOUS
<1>3. N = {}
  <2> SUFFICES ASSUME N # {} PROVE FALSE
    OBVIOUS
  <2>1. N \in SUBSET Nat
    BY <1>2
  <2>2. PICK n \in N : \A m \in N : ~(m < n)
    BY <2>1, Smallest
  <2>3. PICK s \in SUBSET S : Cardinality(s) = n /\ g[s] # h[s]
    BY <1>2, <2>2
  <2>4. s # {}
    BY <1>1, <2>3
  <2>5. PICK x : x = CHOOSE y \in s : TRUE
    OBVIOUS
  <2>6. x \in s
    BY <2>4, <2>5
  <2>7. PICK t : t = s \ {x}
    OBVIOUS
  <2>8. IsFiniteSet(s) /\ IsFiniteSet(t)
    BY <2>7, FS_Subset
  <2>9. Cardinality(t) = n - 1 /\ n \in Nat /\ Cardinality(t) \in Nat
    BY <2>1, <2>3, <2>6, <2>7, <2>8, FS_RemoveElement, FS_CardinalityType
  <2>10. t \in SUBSET S
    BY <2>7
  <2>11. g[t] = h[t]
    BY <1>2, <2>2, <2>9, <2>10
  <2>12. g[s] = f[x] + g[t] /\ h[s] = f[x] + h[t]
    BY <1>1, <2>4, <2>5, <2>7
  <2>13. QED
    BY <2>3, <2>11, <2>12
<1>4. Cardinality(S) \in Nat
  BY FS_CardinalityType
<1>5. QED
  BY <1>2, <1>3, <1>4

\* Two sets without a common element.
LEMMA DisjointCount ==
    ASSUME NEW A, IsFiniteSet(A), NEW B, IsFiniteSet(B), A \cap B = {}
    PROVE  IsFiniteSet(A \cup B) /\ Cardinality(A \cup B) = Cardinality(A) + Cardinality(B)
<1>1. Cardinality(A \cap B) = 0
  BY FS_EmptySet
<1>2. Cardinality(A) \in Nat /\ Cardinality(B) \in Nat
  BY FS_CardinalityType
<1>3. IsFiniteSet(A \cup B) /\ Cardinality(A \cup B) = Cardinality(A) + Cardinality(B) - Cardinality(A \cap B)
  BY FS_Union
<1>4. QED
  BY <1>1, <1>2, <1>3

WithKey(D, key, c) == {d \in D : key[d] = c}

\* The number of elements of D with their keys in a set.
LEMMA KeysSummed ==
    ASSUME NEW D, IsFiniteSet(D), NEW key, NEW S, IsFiniteSet(S), \A d \in D : key[d] \in S, NEW f,
           DOMAIN f = S, \A c \in S : f[c] = Cardinality(WithKey(D, key, c))
    PROVE  SumOf(f) = Cardinality(D)
<1> DEFINE Of(s) == {d \in D : key[d] \in s}
<1>1. PICK h : h = [s \in SUBSET S |-> Cardinality(Of(s))]
  OBVIOUS
<1>2. ASSUME NEW s \in SUBSET S, s # {}, NEW x \in s
      PROVE  Cardinality(Of(s)) = f[x] + Cardinality(Of(s \ {x}))
  <2>1. PICK A, B, C : A = Of(s) /\ B = WithKey(D, key, x) /\ C = Of(s \ {x})
    OBVIOUS
  <2>2. A = B \cup C /\ B \cap C = {} /\ B \in SUBSET D /\ C \in SUBSET D
    BY <1>2, <2>1 DEF WithKey
  <2>3. IsFiniteSet(B) /\ IsFiniteSet(C)
    BY <2>2, FS_Subset
  <2>4. Cardinality(A) = Cardinality(B) + Cardinality(C)
    BY <2>2, <2>3, DisjointCount
  <2>5. x \in S
    OBVIOUS
  <2>6. f[x] = Cardinality(B)
    BY <2>1, <2>5
  <2>7. QED
    BY <2>1, <2>4, <2>6
<1>3. ASSUME NEW s \in SUBSET S
      PROVE  Cardinality(Of(s)) = IF s = {} THEN 0
                                  ELSE f[CHOOSE x \in s : TRUE] + h[s \ {CHOOSE x \in s : TRUE}]
  <2>1. CASE s = {}
    <3>1. Of(s) = {}
      BY <2>1
    <3>2. QED
      BY <2>1, <3>1, FS_EmptySet
  <2>2. CASE s # {}
    <3>1. PICK x : x = CHOOSE y \in s : TRUE
      OBVIOUS
    <3>2. x \in s
      BY <2>2, <3>1
    <3>3. Cardinality(Of(s)) = f[x] + Cardinality(Of(s \ {x}))
      BY <1>2, <2>2, <3>2
    <3>4. s \ {x} \in SUBSET S
      OBVIOUS
    <3>5. h[s \ {x}] = Cardinality(Of(s \ {x}))
      BY <1>1, <3>4
    <3>6. QED
      BY <2>2, <3>1, <3>3, <3>5
  <2>3. QED
    BY <2>1, <2>2
<1> HIDE DEF Of
<1>4. Summing(h, f, S)
  BY <1>1, <1>3 DEF Summing
<1>5. PICK g : g = CHOOSE k : Summing(k, f, S)
  OBVIOUS
<1>6. Summing(g, f, S)
  BY <1>4, <1>5
<1>7. g[S] = h[S]
  BY <1>4, <1>6, SumUnique
<1>8. h[S] = Cardinality(Of(S))
  BY <1>1
<1>9. Of(S) = D
  BY DEF Of
<1>10. QED
  BY <1>5, <1>7, <1>8, <1>9, SumUnfolds
----------------------------------------------------------------------------
(***************************************************************************)
(* The reviews.                                                            *)
(***************************************************************************)
\* A row whose review status and penalty belong together.
EventRowOK(row) ==
    /\ "penalty" \in DOMAIN row /\ "review" \in DOMAIN row
    /\ row.review \in {"revoked", "false_positive"} => row.penalty = "none"
    /\ row.review = "reviewed" => row.penalty # "none"

\* A request on an event between two of its calls.
ReviewRequest(q) ==
    /\ q = [pc |-> q.pc, event |-> q.event, action |-> q.action, before |-> q.before]
    /\ q.pc \in {"event.save", "event.audit"}
    /\ q.event \in DOMAIN events /\ q.action \in ReviewActions /\ EventRowOK(q.before)

Reviews(r, e) == req[r] # Idle /\ req[r].event = e

\* The request has read the row at the end of the trail, or has saved its own.
Reviewing(r, e) ==
    \/ /\ req[r].pc = "event.save" /\ req[r].before = events[e]
       /\ EventLeft(e, moderationItem(events[e]))
    \/ req[r].pc = "event.audit" /\ events[e] = Reviewed(req[r].before, req[r].action)

\* An event for which no two requests have overlapped and no call has failed.
Undisputed(e) ==
    /\ \A r, q \in Requests : Reviews(r, e) /\ Reviews(q, e) => r = q
    /\ \A r \in Requests : Reviews(r, e) => Reviewing(r, e)
    /\ (\A r \in Requests : ~Reviews(r, e)) => EventLeft(e, moderationItem(events[e]))

ReviewInv ==
    /\ RequestsOK /\ LogOK
    /\ IsFiniteSet(DOMAIN events)
    /\ part # "moderation" => DOMAIN events = {}
    /\ part = "moderation" =>
        /\ \A r \in Requests : req[r] = Idle \/ ReviewRequest(req[r])
        /\ \A e \in DOMAIN events : EventRowOK(events[e])
        /\ \A e \in EventIds \ DOMAIN events : Trail("moderation_event", e) = {}
        /\ \A e \in DOMAIN events \ overlapped : Undisputed(e)

\* An action leaves penalty and status together.
LEMMA ReviewedOK ==
    ASSUME NEW row, EventRowOK(row), NEW action \in ReviewActions
    PROVE  EventRowOK(Reviewed(row, action))
<1>1. "penalty" \in DOMAIN row /\ "review" \in DOMAIN row
  BY DEF EventRowOK
<1>2. CASE action \in {"warn", "mute", "kick", "ban"}
  <2>1. PICK p : p = penaltyOf(action)
    OBVIOUS
  <2>2. p # "none"
    BY <1>2, <2>1 DEF penaltyOf
  <2>3. PICK new : new = [row EXCEPT !.penalty = p, !.review = "reviewed"]
    OBVIOUS
  <2>4. DOMAIN new = DOMAIN row /\ new.penalty = p /\ new.review = "reviewed"
    BY <1>1, <2>3
  <2>5. Reviewed(row, action) = new
    BY <1>2, <2>1, <2>3 DEF Reviewed
  <2>6. QED
    BY <1>1, <2>2, <2>4, <2>5 DEF EventRowOK
<1>3. CASE action = "revoke"
  <2>1. PICK new : new = [row EXCEPT !.penalty = "none", !.review = "revoked"]
    OBVIOUS
  <2>2. DOMAIN new = DOMAIN row /\ new.penalty = "none" /\ new.review = "revoked"
    BY <1>1, <2>1
  <2>3. Reviewed(row, action) = new
    BY <1>3, <2>1 DEF Reviewed
  <2>4. QED
    BY <1>1, <2>2, <2>3 DEF EventRowOK
<1>4. CASE action = "false_positive"
  <2>1. PICK new : new = [row EXCEPT !.penalty = "none", !.review = "false_positive"]
    OBVIOUS
  <2>2. DOMAIN new = DOMAIN row /\ new.penalty = "none" /\ new.review = "false_positive"
    BY <1>1, <2>1
  <2>3. Reviewed(row, action) = new
    BY <1>4, <2>1 DEF Reviewed
  <2>4. QED
    BY <1>1, <2>2, <2>3 DEF EventRowOK
<1>5. CASE action = "confirmed"
  <2>1. PICK new : new = [row EXCEPT !.review = "confirmed"]
    OBVIOUS
  <2>2. DOMAIN new = DOMAIN row /\ new.review = "confirmed"
    BY <1>1, <2>1
  <2>3. Reviewed(row, action) = new
    BY <1>5, <2>1 DEF Reviewed
  <2>4. QED
    BY <1>1, <2>2, <2>3 DEF EventRowOK
<1>6. QED
  BY <1>2, <1>3, <1>4, <1>5 DEF ReviewActions

\* What the Agent service writes is pending.
LEMMA NewRowOK ==
    ASSUME NEW e \in EventIds
    PROVE  EventRowOK(EventRow[e])
<1>1. PICK row : row = EventRow[e]
  OBVIOUS
<1>2. row \in [user : Nat, room : Nat, category : STRING, result : STRING,
               created : Nat, toolFailed : BOOLEAN,
               penalty : {"none", "warned", "muted", "kicked", "banned"},
               review : {"pending"}]
  BY <1>1, ModerationAssumption
<1>3. DOMAIN row = {"user", "room", "category", "result", "created", "toolFailed", "penalty", "review"}
      /\ row.review \in {"pending"}
  BY <1>2
<1>4. QED
  BY <1>1, <1>3 DEF EventRowOK

\* The log about an event.
LEMMA EventLogSame ==
    ASSUME UNCHANGED audit, NEW e
    PROVE  /\ \A item : EventLeft(e, item) => EventLeft(e, item)'
           /\ Trail("moderation_event", e)' = Trail("moderation_event", e)
BY DEF EventLeft, Trail

\* An entry about something else.
LEMMA EventLogOther ==
    ASSUME LogOK, NEW x, audit' = Append(audit, x), NEW e, ~(x.type = "moderation_event" /\ x.target = e)
    PROVE  /\ \A item : EventLeft(e, item) => EventLeft(e, item)'
           /\ Trail("moderation_event", e)' = Trail("moderation_event", e)
<1>1. /\ Len(audit) \in Nat /\ DOMAIN audit = 1..Len(audit) /\ DOMAIN audit' = 1..(Len(audit) + 1)
      /\ \A i \in 1..Len(audit) : audit'[i] = audit[i]
      /\ audit'[Len(audit) + 1] = x
  BY Logged
<1>2. PICK T : T = Trail("moderation_event", e)
  OBVIOUS
<1>3. T = Trail("moderation_event", e)' /\ T \subseteq 1..Len(audit)
  BY <1>1, <1>2 DEF Trail
<1>4. \A i \in T : audit'[i] = audit[i]
  BY <1>1, <1>3
<1>5. ASSUME NEW item, EventLeft(e, item) PROVE EventLeft(e, item)'
  <2>1. \/ T = {} /\ item = moderationItem(EventRow[e])
        \/ \E i \in T : item = audit[i].after /\ \A j \in T : j <= i
    BY <1>2, <1>5 DEF EventLeft
  <2>2. \/ T = {} /\ item = moderationItem(EventRow[e])
        \/ \E i \in T : item = audit'[i].after /\ \A j \in T : j <= i
    BY <1>4, <2>1
  <2>3. QED
    BY <1>3, <2>2 DEF EventLeft
<1>6. QED
  BY <1>2, <1>3, <1>5

\* An entry about the event.
LEMMA EventLogOwn ==
    ASSUME LogOK, NEW x, audit' = Append(audit, x), NEW e, x.type = "moderation_event", x.target = e
    PROVE  EventLeft(e, x.after)'
<1>1. /\ Len(audit) \in Nat /\ DOMAIN audit' = 1..(Len(audit) + 1)
      /\ audit'[Len(audit) + 1] = x
  BY Logged
<1>2. PICK n : n = Len(audit) + 1
  OBVIOUS
<1>3. PICK T : T = Trail("moderation_event", e)'
  OBVIOUS
<1>4. n \in T /\ \A j \in T : j <= n
  BY <1>1, <1>2, <1>3 DEF Trail
<1>5. x.after = audit'[n].after
  BY <1>1, <1>2
<1>6. \E i \in T : x.after = audit'[i].after /\ \A j \in T : j <= i
  BY <1>4, <1>5
<1>7. QED
  BY <1>3, <1>6 DEF EventLeft

\* Nothing happened yet.
LEMMA ReviewInit == AdminInit => ReviewInv
<1> SUFFICES ASSUME AdminInit PROVE ReviewInv
  OBVIOUS
<1>1. /\ audit = <<>> /\ faults = 0 /\ req = [r \in Requests |-> Idle]
      /\ events = [e \in {} |-> {}]
  BY DEF AdminInit, RequestsInit, ModerationInit
<1>2. LogOK
  <2>1. <<>> \in Seq({})
    OBVIOUS
  <2>2. QED
    BY <1>1, <2>1 DEF LogOK
<1>3. DOMAIN events = {} /\ IsFiniteSet({})
  BY <1>1, FS_EmptySet
<1>4. \A e : Trail("moderation_event", e) = {}
  BY <1>1 DEF Trail
<1>5. RequestsOK /\ \A r \in Requests : req[r] = Idle
  BY <1>1 DEF RequestsOK
<1>6. QED
  BY <1>2, <1>3, <1>4, <1>5 DEF ReviewInv

\* A step that leaves the events, their requests and the log alone.
LEMMA ReviewUntouched ==
    ASSUME ReviewInv, RequestsOK', UNCHANGED <<audit, events, overlapped, req, part>>
    PROVE  ReviewInv'
<1>1. LogOK'
  BY DEF ReviewInv, LogOK
<1>2. \A e : /\ \A item : EventLeft(e, item) => EventLeft(e, item)'
             /\ Trail("moderation_event", e)' = Trail("moderation_event", e)
  BY EventLogSame
<1>3. ASSUME NEW e, Undisputed(e) PROVE Undisputed(e)'
  <2>1. \A r \in Requests : Reviews(r, e)' <=> Reviews(r, e)
    BY DEF Reviews
  <2>2. \A r \in Requests : Reviewing(r, e) => Reviewing(r, e)'
    BY <1>2 DEF Reviewing
  <2>3. EventLeft(e, moderationItem(events[e])) => EventLeft(e, moderationItem(events[e]))'
    BY <1>2
  <2>4. QED
    BY <1>3, <2>1, <2>2, <2>3 DEF Undisputed
<1>4. \A r \in Requests : ReviewRequest(req[r]) => ReviewRequest(req[r])'
  BY DEF ReviewRequest
<1>5. QED
  BY <1>1, <1>2, <1>3, <1>4 DEF ReviewInv

\* The other parts touch no event.
LEMMA NoReviews ==
    ASSUME ReviewInv, RequestsOK', part # "moderation", part' = part, UNCHANGED events,
           audit' = audit \/ \E e : audit' = Append(audit, e)
    PROVE  ReviewInv'
<1>1. LogOK'
  BY Logged DEF ReviewInv, LogOK
<1>2. QED
  BY <1>1 DEF ReviewInv

\* The Agent service writes an event.
LEMMA EventCreated ==
    ASSUME ReviewInv, RequestsOK', part = "moderation", part' = part,
           NEW e \in EventIds, CreateEvent(e)
    PROVE  ReviewInv'
<1>1. /\ LogOK /\ IsFiniteSet(DOMAIN events)
      /\ \A r \in Requests : req[r] = Idle \/ ReviewRequest(req[r])
      /\ \A d \in DOMAIN events : EventRowOK(events[d])
      /\ \A d \in EventIds \ DOMAIN events : Trail("moderation_event", d) = {}
      /\ \A d \in DOMAIN events \ overlapped : Undisputed(d)
  BY DEF ReviewInv
<1>2. /\ e \notin DOMAIN events /\ UNCHANGED <<overlapped, req, audit>>
      /\ events' = [d \in DOMAIN events \cup {e} |-> IF d = e THEN EventRow[e] ELSE events[d]]
  BY DEF CreateEvent, requestVars
<1>3. /\ DOMAIN events' = DOMAIN events \cup {e} /\ events'[e] = EventRow[e]
      /\ \A d \in DOMAIN events : events'[d] = events[d]
  BY <1>2
<1>4. IsFiniteSet(DOMAIN events')
  <2>1. IsFiniteSet(DOMAIN events \cup {e})
    BY <1>1, FS_AddElement
  <2>2. QED
    BY <1>3, <2>1
<1>5. LogOK'
  BY <1>1, <1>2 DEF LogOK
<1>6. \A d : /\ \A item : EventLeft(d, item) => EventLeft(d, item)'
             /\ Trail("moderation_event", d)' = Trail("moderation_event", d)
  BY <1>2, EventLogSame
<1>7. \A r \in Requests : req'[r] = Idle \/ ReviewRequest(req[r])'
  BY <1>1, <1>2, <1>3 DEF ReviewRequest
<1>8. \A d \in DOMAIN events' : EventRowOK(events'[d])
  BY <1>1, <1>3, NewRowOK
<1>9. \A d \in EventIds \ DOMAIN events' : Trail("moderation_event", d)' = {}
  BY <1>1, <1>3, <1>6
<1>10. ASSUME NEW d \in DOMAIN events' \ overlapped' PROVE Undisputed(d)'
  <2>1. CASE d = e
    <3>1. \A r \in Requests : ~Reviews(r, e)'
      BY <1>1, <1>2 DEF Reviews, ReviewRequest
    <3>2. EventLeft(e, moderationItem(EventRow[e]))
      BY <1>1, <1>2 DEF EventLeft
    <3>3. EventLeft(e, moderationItem(events[e]))'
      BY <1>3, <1>6, <3>2 DEF moderationItem
    <3>4. QED
      BY <2>1, <3>1, <3>3 DEF Undisputed
  <2>2. CASE d # e
    <3>1. d \in DOMAIN events \ overlapped /\ events'[d] = events[d]
      BY <1>2, <1>3, <1>10, <2>2
    <3>2. \A r \in Requests : Reviews(r, d)' <=> Reviews(r, d)
      BY <1>2 DEF Reviews
    <3>3. \A r \in Requests : Reviewing(r, d) => Reviewing(r, d)'
      BY <1>2, <1>6, <3>1 DEF Reviewing
    <3>4. EventLeft(d, moderationItem(events[d])) => EventLeft(d, moderationItem(events[d]))'
      BY <1>6, <3>1
    <3>5. Undisputed(d)
      BY <1>1, <3>1
    <3>6. QED
      BY <3>2, <3>3, <3>4, <3>5 DEF Undisputed
  <2>3. QED
    BY <2>1, <2>2
<1>11. QED
  BY <1>4, <1>5, <1>7, <1>8, <1>9, <1>10 DEF ReviewInv

\* A request moves on: the events that it is not about keep what is said of them.
LEMMA OtherEventsKept ==
    ASSUME ReviewInv, part = "moderation", NEW r \in Requests, NEW e,
           NEW d \in DOMAIN events \ overlapped, d # e,
           req[r] = Idle \/ req[r].event = e, events'[d] = events[d],
           req' = [req EXCEPT ![r] = req'[r]], req'[r] = Idle \/ req'[r].event = e,
           audit' = audit \/ \E x : audit' = Append(audit, x) /\ x.type = "moderation_event" /\ x.target = e
    PROVE  Undisputed(d)'
<1>1. Undisputed(d) /\ LogOK /\ req = [x \in Requests |-> req[x]]
  BY DEF ReviewInv, RequestsOK
<1>2. \A item : EventLeft(d, item) => EventLeft(d, item)'
  BY <1>1, EventLogSame, EventLogOther
<1>3. ~Reviews(r, d) /\ ~Reviews(r, d)'
  BY DEF Reviews
<1>4. \A x \in Requests : x # r => req'[x] = req[x]
  BY <1>1
<1>5. \A x \in Requests : Reviews(x, d)' => x # r /\ req'[x] = req[x] /\ Reviews(x, d)
  BY <1>3, <1>4 DEF Reviews
<1>6. \A x \in Requests : Reviews(x, d) => Reviews(x, d)'
  BY <1>3, <1>4 DEF Reviews
<1>7. \A x \in Requests : Reviews(x, d)' => Reviewing(x, d)'
  <2> SUFFICES ASSUME NEW x \in Requests, Reviews(x, d)' PROVE Reviewing(x, d)'
    OBVIOUS
  <2>1. req'[x] = req[x] /\ Reviewing(x, d)
    BY <1>1, <1>5 DEF Undisputed
  <2>2. QED
    BY <1>2, <2>1 DEF Reviewing
<1>8. (\A x \in Requests : ~Reviews(x, d)') => EventLeft(d, moderationItem(events[d]))'
  BY <1>1, <1>2, <1>6 DEF Undisputed
<1>9. QED
  BY <1>1, <1>5, <1>7, <1>8 DEF Undisputed

\* A review begins.
LEMMA ReviewBegins ==
    ASSUME ReviewInv, RequestsOK', part = "moderation", part' = part, NEW r \in Requests, NEW role,
           NEW e \in EventIds, NEW action, AdminModerationAction(r, role, e, action)
    PROVE  ReviewInv'
<1>1. /\ req = [x \in Requests |-> req[x]] /\ LogOK /\ IsFiniteSet(DOMAIN events)
      /\ \A x \in Requests : req[x] = Idle \/ ReviewRequest(req[x])
      /\ \A d \in DOMAIN events : EventRowOK(events[d])
      /\ \A d \in EventIds \ DOMAIN events : Trail("moderation_event", d) = {}
      /\ \A d \in DOMAIN events \ overlapped : Undisputed(d)
  BY DEF ReviewInv, RequestsOK
<1>2. audit' = audit /\ events' = events
  BY DEF AdminModerationAction, Begin, BeginAndEnd
<1>3. CASE req' = req /\ overlapped' = overlapped
  BY <1>2, <1>3, ReviewUntouched
<1>4. CASE /\ e \in DOMAIN events /\ action \in ReviewActions /\ req[r] = Idle
           /\ req' = [req EXCEPT ![r] = [pc |-> "event.save", event |-> e, action |-> action, before |-> events[e]]]
           /\ overlapped' = IF \E q \in Requests : OnEvent(q, e) THEN overlapped \cup {e} ELSE overlapped
  <2>1. PICK q : q = [pc |-> "event.save", event |-> e, action |-> action, before |-> events[e]]
    OBVIOUS
  <2>2. /\ q.pc = "event.save" /\ q.event = e /\ q.before = events[e] /\ q.action = action
        /\ q = [pc |-> q.pc, event |-> q.event, action |-> q.action, before |-> q.before]
        /\ q # Idle
    BY <2>1 DEF Idle
  <2>3. /\ req' = [req EXCEPT ![r] = q] /\ req'[r] = q
        /\ \A x \in Requests : x # r => req'[x] = req[x]
    BY <1>1, <1>4, <2>1
  <2>4. ReviewRequest(q)
    BY <1>1, <1>4, <2>2 DEF ReviewRequest
  <2>5. \A x \in Requests : req'[x] = Idle \/ ReviewRequest(req[x])'
    BY <1>1, <1>2, <2>3, <2>4 DEF ReviewRequest
  <2>6. \A d : /\ \A item : EventLeft(d, item) => EventLeft(d, item)'
               /\ Trail("moderation_event", d)' = Trail("moderation_event", d)
    BY <1>2, EventLogSame
  <2>7. ASSUME NEW d \in DOMAIN events' \ overlapped' PROVE Undisputed(d)'
    <3>1. d \in DOMAIN events \ overlapped /\ events'[d] = events[d]
      BY <1>2, <1>4, <2>7
    <3>2. CASE d # e
      <4>1. req' = [req EXCEPT ![r] = req'[r]] /\ req'[r].event = e
        BY <2>2, <2>3
      <4>2. QED
        BY <1>2, <1>4, <3>1, <3>2, <4>1, OtherEventsKept
    <3>3. CASE d = e
      <4>1. \A x \in Requests : ~OnEvent(x, e)
        BY <1>4, <2>7, <3>3
      <4>2. \A x \in Requests : ~Reviews(x, e)
        <5> SUFFICES ASSUME NEW x \in Requests, Reviews(x, e) PROVE FALSE
          OBVIOUS
        <5>1. ReviewRequest(req[x])
          BY <1>1 DEF Reviews
        <5>2. "event" \in DOMAIN req[x]
          BY <5>1 DEF ReviewRequest
        <5>3. QED
          BY <4>1, <5>2 DEF OnEvent, Busy, Reviews
      <4>3. EventLeft(e, moderationItem(events[e]))
        BY <1>1, <3>1, <3>3, <4>2 DEF Undisputed
      <4>4. EventLeft(e, moderationItem(events[e]))'
        BY <1>2, <2>6, <4>3
      <4>5. \A x \in Requests : Reviews(x, e)' => x = r
        BY <2>3, <4>2 DEF Reviews
      <4>6. Reviewing(r, e)'
        BY <1>2, <2>2, <2>3, <4>4 DEF Reviewing
      <4>7. Reviews(r, e)'
        BY <2>2, <2>3 DEF Reviews
      <4>8. QED
        BY <3>3, <4>5, <4>6, <4>7 DEF Undisputed
    <3>4. QED
      BY <3>2, <3>3
  <2>8. LogOK'
    BY <1>1, <1>2 DEF LogOK
  <2>9. \A d \in EventIds \ DOMAIN events' : Trail("moderation_event", d)' = {}
    BY <1>1, <1>2, <2>6
  <2>10. QED
    BY <1>1, <1>2, <2>5, <2>7, <2>8, <2>9 DEF ReviewInv
<1>5. QED
  BY <1>3, <1>4 DEF AdminModerationAction, Begin, BeginAndEnd

\* A review goes on: it saves the row, logs or ends.
LEMMA ReviewGoesOn ==
    ASSUME ReviewInv, RequestsOK', part = "moderation", part' = part, NEW r \in Requests,
           SaveEvent(r) \/ auditEvent(r)
    PROVE  ReviewInv'
<1>1. /\ req = [x \in Requests |-> req[x]] /\ LogOK /\ IsFiniteSet(DOMAIN events)
      /\ \A x \in Requests : req[x] = Idle \/ ReviewRequest(req[x])
      /\ \A d \in DOMAIN events : EventRowOK(events[d])
      /\ \A d \in EventIds \ DOMAIN events : Trail("moderation_event", d) = {}
      /\ \A d \in DOMAIN events \ overlapped : Undisputed(d)
  BY DEF ReviewInv, RequestsOK
<1>2. PICK q : q = req[r]
  OBVIOUS
<1>3. q.pc \in {"event.save", "event.audit"}
  BY <1>2 DEF SaveEvent, auditEvent, At
<1>4. q # Idle /\ ReviewRequest(q)
  BY <1>1, <1>2, <1>3 DEF Idle
<1>5. PICK e : e = q.event
  OBVIOUS
<1>6. /\ q = [pc |-> q.pc, event |-> e, action |-> q.action, before |-> q.before]
      /\ e \in DOMAIN events /\ q.action \in ReviewActions /\ EventRowOK(q.before) /\ Reviews(r, e)
  BY <1>2, <1>4, <1>5 DEF ReviewRequest, Reviews
<1>7. PICK row : row = Reviewed(q.before, q.action)
  OBVIOUS
<1>8. EventRowOK(row)
  BY <1>6, <1>7, ReviewedOK
<1>9. PICK done : done = AuditEntry("moderation_event", e, q.action, moderationItem(q.before), moderationItem(row))
  OBVIOUS
<1>10. done.type = "moderation_event" /\ done.target = e /\ done.after = moderationItem(row)
  BY <1>9 DEF AuditEntry
<1>11. /\ overlapped' = overlapped \/ overlapped' = overlapped \cup {e}
       /\ events' = events \/ events' = [events EXCEPT ![e] = row]
       /\ audit' = audit \/ audit' = Append(audit, done)
  BY <1>2, <1>5, <1>7, <1>9 DEF SaveEvent, auditEvent, Goto, Fails, Log
<1>12. /\ DOMAIN events' = DOMAIN events
       /\ \A d \in DOMAIN events : d # e => events'[d] = events[d]
       /\ events'[e] = events[e] \/ events'[e] = row
  BY <1>6, <1>11
<1>13. PICK p : p = req'[r]
  OBVIOUS
<1>14. /\ req' = [req EXCEPT ![r] = p] /\ \A x \in Requests : x # r => req'[x] = req[x]
       /\ p = Idle \/ p = [pc |-> "event.audit", event |-> e, action |-> q.action, before |-> q.before]
  <2>1. CASE req' = [req EXCEPT ![r] = Idle]
    BY <1>1, <1>13, <2>1
  <2>2. CASE req' = [req EXCEPT ![r].pc = "event.audit"]
    <3>1. p = [q EXCEPT !.pc = "event.audit"]
      BY <1>1, <1>2, <1>13, <2>2
    <3>2. p = [pc |-> "event.audit", event |-> e, action |-> q.action, before |-> q.before]
      BY <1>6, <3>1
    <3>3. QED
      BY <1>1, <1>2, <1>13, <2>2, <3>1, <3>2
  <2>3. QED
    BY <2>1, <2>2 DEF SaveEvent, auditEvent, Goto, Fails, Log
<1>15. \/ p = Idle
       \/ /\ p = [pc |-> p.pc, event |-> p.event, action |-> p.action, before |-> p.before] /\ p # Idle
          /\ p.pc = "event.audit" /\ p.event = e /\ p.action = q.action /\ p.before = q.before
  BY <1>14 DEF Idle
<1>16. \A x \in Requests : req'[x] = Idle \/ ReviewRequest(req[x])'
  <2>1. p = Idle \/ ReviewRequest(p)
    BY <1>6, <1>15 DEF ReviewRequest
  <2>2. QED
    BY <1>1, <1>12, <1>13, <1>14, <2>1 DEF ReviewRequest
<1>17. \A d \in DOMAIN events' : EventRowOK(events'[d])
  BY <1>1, <1>8, <1>12
<1>18. LogOK'
  BY <1>1, <1>11, Logged DEF LogOK
<1>19. ASSUME NEW d \in EventIds \ DOMAIN events' PROVE Trail("moderation_event", d)' = {}
  <2>1. d \in EventIds \ DOMAIN events /\ d # e
    BY <1>6, <1>12, <1>19
  <2>2. Trail("moderation_event", d)' = Trail("moderation_event", d)
    BY <1>1, <1>10, <1>11, <2>1, EventLogSame, EventLogOther
  <2>3. QED
    BY <1>1, <2>1, <2>2
<1>20. ASSUME NEW d \in DOMAIN events' \ overlapped', d # e PROVE Undisputed(d)'
  <2>1. d \in DOMAIN events \ overlapped /\ events'[d] = events[d]
    BY <1>11, <1>12, <1>20
  <2>2. req[r].event = e /\ req' = [req EXCEPT ![r] = req'[r]] /\ (req'[r] = Idle \/ req'[r].event = e)
    BY <1>2, <1>5, <1>13, <1>14, <1>15
  <2>3. audit' = audit \/ \E x : audit' = Append(audit, x) /\ x.type = "moderation_event" /\ x.target = e
    BY <1>10, <1>11
  <2>4. QED
    BY <1>20, <2>1, <2>2, <2>3, OtherEventsKept
<1>21. ASSUME e \notin overlapped' PROVE Undisputed(e)'
  <2>1. Undisputed(e)
    BY <1>1, <1>6, <1>11, <1>21
  <2>2. Reviewing(r, e)
    BY <1>6, <2>1 DEF Undisputed
  <2>3. \A x \in Requests : Reviews(x, e)' => x = r /\ p # Idle
    <3>1. \A x \in Requests : Reviews(x, e) => x = r
      BY <1>6, <2>1 DEF Undisputed
    <3>2. QED
      BY <1>13, <1>14, <3>1 DEF Reviews
  <2>4. CASE SaveEvent(r)
    <3>1. audit' = audit /\ q.pc = "event.save"
      BY <1>2, <2>4 DEF SaveEvent, Goto, Fails, At
    <3>2. q.before = events[e] /\ EventLeft(e, moderationItem(events[e]))
      BY <1>2, <2>2, <3>1 DEF Reviewing
    <3>3. CASE events' = events /\ req' = [req EXCEPT ![r] = Idle]
      <4>1. p = Idle
        BY <1>1, <1>13, <3>3
      <4>2. EventLeft(e, moderationItem(events[e]))'
        BY <3>1, <3>2, <3>3, EventLogSame
      <4>3. QED
        BY <2>3, <4>1, <4>2 DEF Undisputed
    <3>4. CASE events' = [events EXCEPT ![e] = row] /\ req' = [req EXCEPT ![r].pc = "event.audit"]
      <4>1. events'[e] = row
        BY <1>6, <3>4
      <4>2. p.pc = "event.audit"
        BY <1>1, <1>2, <1>6, <1>13, <3>4
      <4>3. p # Idle /\ p.event = e /\ p.action = q.action /\ p.before = q.before
        BY <1>15, <4>2 DEF Idle
      <4>4. Reviewing(r, e)' /\ Reviews(r, e)'
        BY <1>7, <1>13, <4>1, <4>2, <4>3 DEF Reviewing, Reviews
      <4>5. QED
        BY <2>3, <4>4 DEF Undisputed
    <3>5. QED
      BY <1>2, <1>5, <1>7, <2>4, <3>3, <3>4 DEF SaveEvent, Goto, Fails
  <2>5. CASE auditEvent(r)
    <3>1. events' = events /\ q.pc = "event.audit" /\ req' = [req EXCEPT ![r] = Idle]
      BY <1>2, <2>5 DEF auditEvent, Log, At
    <3>2. p = Idle
      BY <1>1, <1>13, <3>1
    <3>3. events[e] = row
      BY <1>2, <1>7, <2>2, <3>1 DEF Reviewing
    <3>4. audit' = Append(audit, done)
      <4>1. audit' = Append(audit, done) \/ faults' = faults + 1
        BY <1>2, <1>5, <1>7, <1>9, <2>5 DEF auditEvent, Log
      <4>2. faults' = faults
        BY <1>2, <1>5, <1>21, <2>5 DEF auditEvent
      <4>3. faults \in Nat
        BY DEF ReviewInv, RequestsOK
      <4>4. QED
        BY <4>1, <4>2, <4>3
    <3>5. EventLeft(e, done.after)'
      BY <1>1, <1>10, <3>4, EventLogOwn
    <3>6. EventLeft(e, moderationItem(events[e]))'
      <4>1. done.after = moderationItem(events[e])'
        BY <1>10, <3>1, <3>3 DEF moderationItem
      <4>2. QED
        BY <3>5, <4>1
    <3>7. QED
      BY <2>3, <3>2, <3>6 DEF Undisputed
  <2>6. QED
    BY <2>4, <2>5
<1>22. IsFiniteSet(DOMAIN events')
  BY <1>1, <1>12
<1>23. QED
  BY <1>16, <1>17, <1>18, <1>19, <1>20, <1>21, <1>22 DEF ReviewInv

\* Every step of the admin API.
LEMMA ReviewStep ==
    ASSUME ReviewInv, [AdminNext]_vars
    PROVE  ReviewInv'
<1>1. RequestsOK'
  BY RequestsKept DEF ReviewInv
<1>2. CASE part = "moderation" /\ ModerationNext /\ part' = part
  BY <1>1, <1>2, EventCreated, ReviewBegins, ReviewGoesOn DEF ModerationNext
<1>3. CASE part # "moderation" /\ part' = part /\ UNCHANGED moderationVars
  <2>1. audit' = audit \/ \E e : audit' = Append(audit, e)
    BY LogOnlyGrows
  <2>2. QED
    BY <1>1, <1>3, <2>1, NoReviews DEF moderationVars
<1>4. CASE StartWalk \/ NextPage \/ UNCHANGED vars
  BY <1>1, <1>4, ReviewUntouched DEF StartWalk, NextPage, vars, moderationVars, requestVars
<1>5. QED
  BY <1>2, <1>3, <1>4 DEF AdminNext

\* The events of today that meet a condition, as a set.
LEMMA SplitByReview ==
    ASSUME IsFiniteSet(DOMAIN events)
    PROVE  Overview.pending + Dashboard.manualReviews = Overview.reviewed
<1>1. PICK D, P, M :
        /\ D = {e \in DOMAIN events : events[e].created >= Today /\ TRUE}
        /\ P = {e \in DOMAIN events : events[e].created >= Today /\ events[e].review = "pending"}
        /\ M = {e \in DOMAIN events : events[e].created >= Today /\ events[e].review # "pending"}
  OBVIOUS
<1>2. D = P \cup M /\ P \cap M = {}
  BY <1>1
<1>3. P \in SUBSET DOMAIN events /\ M \in SUBSET DOMAIN events
  BY <1>1
<1>4. IsFiniteSet(P) /\ IsFiniteSet(M)
  BY <1>3, FS_Subset
<1>5. Cardinality(D) = Cardinality(P) + Cardinality(M)
  BY <1>2, <1>4, DisjointCount
<1>6. Overview.pending = Cardinality(P) /\ Overview.reviewed = Cardinality(D)
  BY <1>1 DEF Overview, CountToday, EventsWith
<1>7. Dashboard.manualReviews = Cardinality(M)
  BY <1>1 DEF Dashboard, CountToday, EventsWith
<1>8. QED
  BY <1>5, <1>6, <1>7

\* Nobody is kicked, banned and forgiven at the same time.
LEMMA PenaltiesApart ==
    ASSUME IsFiniteSet(DOMAIN events), \A e \in DOMAIN events : EventRowOK(events[e])
    PROVE  Dashboard.kicks + Dashboard.bans + Dashboard.revoked <= Dashboard.reviewed
<1>1. PICK D, K, B, V :
        /\ D = {e \in DOMAIN events : events[e].created >= Today /\ TRUE}
        /\ K = {e \in DOMAIN events : events[e].created >= Today /\ events[e].penalty = "kicked"}
        /\ B = {e \in DOMAIN events : events[e].created >= Today /\ events[e].penalty = "banned"}
        /\ V = {e \in DOMAIN events : events[e].created >= Today /\ events[e].review = "revoked"}
  OBVIOUS
<1>2. K \cap B = {} /\ (K \cup B) \cap V = {} /\ (K \cup B) \cup V \in SUBSET D
  BY <1>1 DEF EventRowOK
<1>3. D \in SUBSET DOMAIN events
  BY <1>1
<1>4. IsFiniteSet(D)
  BY <1>3, FS_Subset
<1>5. IsFiniteSet(K) /\ IsFiniteSet(B) /\ IsFiniteSet(V)
  <2>1. K \in SUBSET D /\ B \in SUBSET D /\ V \in SUBSET D
    BY <1>2
  <2>2. QED
    BY <1>4, <2>1, FS_Subset
<1>6. IsFiniteSet(K \cup B) /\ Cardinality(K \cup B) = Cardinality(K) + Cardinality(B)
  BY <1>2, <1>5, DisjointCount
<1>7. Cardinality((K \cup B) \cup V) = Cardinality(K \cup B) + Cardinality(V)
  BY <1>2, <1>5, <1>6, DisjointCount
<1>8. Cardinality((K \cup B) \cup V) <= Cardinality(D)
  BY <1>2, <1>4, FS_Subset
<1>9. Dashboard.kicks = Cardinality(K) /\ Dashboard.bans = Cardinality(B)
  BY <1>1 DEF Dashboard, CountToday, EventsWith
<1>10. Dashboard.revoked = Cardinality(V) /\ Dashboard.reviewed = Cardinality(D)
  BY <1>1 DEF Dashboard, CountToday, EventsWith
<1>11. QED
  BY <1>6, <1>7, <1>8, <1>9, <1>10

\* The categories split the events of today.
LEMMA SplitByCategory ==
    ASSUME IsFiniteSet(DOMAIN events)
    PROVE  SumOf(Dashboard.categories) = Dashboard.reviewed
<1>0. PICK cats : cats = Dashboard.categories
  OBVIOUS
<1>1. PICK D, key :
        /\ D = {e \in DOMAIN events : events[e].created >= Today /\ TRUE}
        /\ key = [e \in DOMAIN events |-> events[e].category]
  OBVIOUS
<1>2. D \in SUBSET DOMAIN events
  BY <1>1
<1>3. IsFiniteSet(D)
  BY <1>2, FS_Subset
<1>4. \A c : CategoryCount(c) = Cardinality(WithKey(D, key, c))
  <2> SUFFICES ASSUME NEW c PROVE CategoryCount(c) = Cardinality(WithKey(D, key, c))
    OBVIOUS
  <2>1. WithKey(D, key, c) = {e \in DOMAIN events : events[e].created >= Today /\ events[e].category = c}
    BY <1>1 DEF WithKey
  <2>2. QED
    BY <2>1 DEF CategoryCount, CountToday, EventsWith
<1>5. PICK S : S = {d \in Categories : CategoryCount(d) > 0}
  OBVIOUS
<1>6. cats = [c \in S |-> CategoryCount(c)]
  BY <1>0, <1>5 DEF Dashboard
<1>7. DOMAIN cats = S /\ \A c \in S : cats[c] = Cardinality(WithKey(D, key, c))
  BY <1>4, <1>6
<1>8. \A e \in D : key[e] \in S
  <2> SUFFICES ASSUME NEW e \in D PROVE key[e] \in S
    OBVIOUS
  <2>1. PICK A : A = WithKey(D, key, key[e])
    OBVIOUS
  <2>2. e \in A /\ A \in SUBSET D
    BY <2>1 DEF WithKey
  <2>3. IsFiniteSet(A)
    BY <1>3, <2>2, FS_Subset
  <2>4. Cardinality(A) \in Nat /\ Cardinality(A) # 0
    BY <2>2, <2>3, FS_CardinalityType, FS_EmptySet
  <2>5. CategoryCount(key[e]) > 0
    BY <1>4, <2>1, <2>4
  <2>6. key[e] \in Categories
    BY <1>1, <1>2 DEF Categories
  <2>7. QED
    BY <1>5, <2>5, <2>6
<1>9. IsFiniteSet(S)
  <2>1. PICK C : C = Categories
    OBVIOUS
  <2>2. key \in Surjection(DOMAIN events, C)
    BY <1>1, <2>1 DEF Surjection, Categories
  <2>3. IsFiniteSet(C)
    BY <2>2, FS_Surjection
  <2>4. S \in SUBSET C
    BY <1>5, <2>1
  <2>5. QED
    BY <2>3, <2>4, FS_Subset
<1>10. SumOf(cats) = Cardinality(D)
  BY <1>3, <1>7, <1>8, <1>9, KeysSummed
<1>11. Dashboard.reviewed = Cardinality(D)
  BY <1>1 DEF Dashboard, CountToday, EventsWith
<1>12. QED
  BY <1>0, <1>10, <1>11

\* What the invariant says of the reviews.
LEMMA ReviewsFollow == ReviewInv => ReviewsConsistent
<1> SUFFICES ASSUME ReviewInv PROVE ReviewsConsistent
  OBVIOUS
<1>1. IsFiniteSet(DOMAIN events) /\ \A e \in DOMAIN events : EventRowOK(events[e])
  BY DEF ReviewInv
<1>2. ASSUME NEW e \in DOMAIN events, e \notin overlapped, \A r \in Requests : ~OnEvent(r, e)
      PROVE  EventLeft(e, GetEvent(e))
  <2>1. part = "moderation"
    BY DEF ReviewInv
  <2>2. Undisputed(e)
    BY <1>2, <2>1 DEF ReviewInv
  <2>3. \A r \in Requests : ~Reviews(r, e)
    <3> SUFFICES ASSUME NEW r \in Requests, Reviews(r, e) PROVE FALSE
      OBVIOUS
    <3>1. ReviewRequest(req[r])
      BY <2>1 DEF ReviewInv, Reviews
    <3>2. "event" \in DOMAIN req[r]
      BY <3>1 DEF ReviewRequest
    <3>3. QED
      BY <1>2, <3>2 DEF OnEvent, Busy, Reviews
  <2>4. QED
    BY <2>2, <2>3 DEF Undisputed, GetEvent
<1>3. \A e \in DOMAIN events :
        /\ events[e].review \in {"revoked", "false_positive"} => events[e].penalty = "none"
        /\ events[e].review = "reviewed" => events[e].penalty # "none"
  BY <1>1 DEF EventRowOK
<1>4. Overview.pending + Dashboard.manualReviews = Overview.reviewed
  BY <1>1, SplitByReview
<1>5. Dashboard.kicks + Dashboard.bans + Dashboard.revoked <= Dashboard.reviewed
  BY <1>1, PenaltiesApart
<1>6. SumOf(Dashboard.categories) = Dashboard.reviewed
  BY <1>1, SplitByCategory
<1>7. QED
  BY <1>2, <1>3, <1>4, <1>5, <1>6 DEF ReviewsConsistent

\* However reviews of an event overlap, its penalty and its review status belong
\* together, the figures of the dashboard split the events of today, and the trail of
\* an event on which no two requests overlapped and no call failed ends at its row.
THEOREM ReviewsHold == AdminSpec => []ReviewsConsistent
<1>1. ReviewInv /\ [AdminNext]_vars => ReviewInv'
  BY ReviewStep
<1>2. QED
  BY <1>1, ReviewInit, ReviewsFollow, PTL DEF AdminSpec

----------------------------------------------------------------------------
(***************************************************************************)
(* Pages.                                                                  *)
(***************************************************************************)
\* A function that satisfies the equations of FlattenSeq.
Flattening(g, seqs) ==
    g = [i \in 1..Len(seqs) |-> IF i = 1 THEN seqs[i] ELSE g[i - 1] \o seqs[i]]

\* What FlattenSeq computes is such a function, taken at the last index.
LEMMA FlattenUnfolds ==
    ASSUME NEW seqs, Len(seqs) # 0
    PROVE  FlattenSeq(seqs) = (CHOOSE g : Flattening(g, seqs))[Len(seqs)]
BY DEF FlattenSeq, Flattening

\* There is only one such function.
LEMMA FlattenUnique ==
    ASSUME NEW seqs, Len(seqs) \in Nat \ {0}, NEW g, NEW h, Flattening(g, seqs), Flattening(h, seqs)
    PROVE  g[Len(seqs)] = h[Len(seqs)]
<1>1. PICK k : k = Len(seqs)
  OBVIOUS
<1>2. ASSUME NEW i \in 1..k
      PROVE  /\ g[i] = IF i = 1 THEN seqs[i] ELSE g[i - 1] \o seqs[i]
             /\ h[i] = IF i = 1 THEN seqs[i] ELSE h[i - 1] \o seqs[i]
  BY <1>1 DEF Flattening
<1>3. PICK N : N = {i \in 1..k : g[i] # h[i]}
  OBVIOUS
<1>4. N = {}
  <2> SUFFICES ASSUME N # {} PROVE FALSE
    OBVIOUS
  <2>1. N \in SUBSET Nat
    BY <1>1, <1>3
  <2>2. PICK i \in N : \A j \in N : ~(j < i)
    BY <2>1, Smallest
  <2>3. i \in 1..k /\ g[i] # h[i]
    BY <1>3
  <2>4. i # 1
    BY <1>2, <2>3
  <2>5. i - 1 \in 1..k /\ i - 1 < i
    BY <1>1, <2>3, <2>4
  <2>6. g[i - 1] = h[i - 1]
    BY <1>3, <2>2, <2>5
  <2>7. QED
    BY <1>2, <2>3, <2>4, <2>6
<1>5. k \in 1..k
  BY <1>1
<1>6. QED
  BY <1>1, <1>3, <1>4, <1>5

\* A list of n rows.
IsList(all, n) == all = [i \in 1..n |-> all[i]]

\* The rows of a list.
LEMMA ListRows ==
    ASSUME NEW n \in Nat, NEW all, IsList(all, n)
    PROVE  /\ \E T : all \in [1..n -> T]
           /\ Len(all) = n /\ DOMAIN all = 1..n
<1>1. PICK T : T = {all[i] : i \in 1..n}
  OBVIOUS
<1>2. all \in [1..n -> T]
  BY <1>1 DEF IsList
<1>3. all \in Seq(T) /\ DOMAIN all = 1..n
  BY <1>2
<1>4. Len(all) = n
  BY <1>3
<1>5. QED
  BY <1>2, <1>3, <1>4

\* One sequence after another.
Joined(v, s, t, T) ==
    /\ v \in Seq(T) /\ Len(v) = Len(s) + Len(t)
    /\ \A i \in 1..Len(s) : v[i] = s[i]
    /\ \A i \in 1..(Len(s) + Len(t)) : i > Len(s) => v[i] = t[i - Len(s)]

\* That is what concatenation gives.
LEMMA Concatenated ==
    ASSUME NEW T, NEW s \in Seq(T), NEW t \in Seq(T), NEW v, v = s \o t
    PROVE  Joined(v, s, t, T)
BY DEF Joined

\* The beginning of a list, and the part that follows.
Leading(all, a) == [i \in 1..a |-> all[i]]
Following(all, a, b) == [i \in 1..(b - a) |-> all[a + i]]

\* A beginning and what follows it are a longer beginning.
LEMMA JoinTwo ==
    ASSUME NEW n \in Nat, NEW all, IsList(all, n), NEW a \in Nat, NEW b \in Nat, a <= b, b <= n
    PROVE  Leading(all, a) \o Following(all, a, b) = Leading(all, b)
<1>0. PICK T : all \in [1..n -> T]
  BY ListRows
<1>1. PICK s, t, u : /\ s = [i \in 1..a |-> all[i]]
                     /\ t = [i \in 1..(b - a) |-> all[a + i]]
                     /\ u = [i \in 1..b |-> all[i]]
  OBVIOUS
<1>2. s \in Seq(T) /\ Len(s) = a
  BY <1>0, <1>1
<1>3. t \in Seq(T) /\ Len(t) = b - a
  BY <1>0, <1>1
<1>4. u \in Seq(T) /\ Len(u) = b
  BY <1>0, <1>1
<1>5. PICK v : v = s \o t
  OBVIOUS
<1>6. /\ v \in Seq(T) /\ Len(v) = a + (b - a)
      /\ \A i \in 1..a : v[i] = s[i]
      /\ \A i \in 1..(a + (b - a)) : i > a => v[i] = t[i - a]
  <2>1. Joined(v, s, t, T)
    BY <1>2, <1>3, <1>5, Concatenated
  <2>2. QED
    BY <1>2, <1>3, <2>1 DEF Joined
<1>7. ASSUME NEW i \in 1..b PROVE v[i] = u[i]
  <2>1. CASE i <= a
    BY <1>1, <1>6, <2>1
  <2>2. CASE ~(i <= a)
    <3>1. i \in 1..(a + (b - a)) /\ i > a /\ i - a \in 1..(b - a) /\ a + (i - a) = i
      BY <2>2
    <3>2. v[i] = t[i - a]
      BY <1>6, <3>1
    <3>3. t[i - a] = all[a + (i - a)]
      BY <1>1, <3>1
    <3>4. QED
      BY <1>1, <3>1, <3>2, <3>3
  <2>3. QED
    BY <2>1, <2>2
<1>8. DOMAIN v = 1..b /\ DOMAIN u = 1..b
  BY <1>4, <1>6
<1>9. v = u
  BY <1>4, <1>6, <1>7, <1>8
<1>10. QED
  BY <1>1, <1>5, <1>9 DEF Leading, Following

\* The position that page p ends at, and what it shows of a list.
PageEnd(n, size, p) == IF p * size <= n THEN p * size ELSE n
PageOf(all, n, size, p) ==
    [i \in 1..(PageEnd(n, size, p) - (p - 1) * size) |-> all[(p - 1) * size + i]]

\* The pages, one after the other, are the list.
LEMMA PagesJoin ==
    ASSUME NEW n \in Nat, NEW all, IsList(all, n), NEW size \in Nat \ {0}, NEW k \in Nat \ {0},
           (k - 1) * size <= n, n < k * size,
           NEW seqs, seqs = [p \in 1..k |-> PageOf(all, n, size, p)]
    PROVE  FlattenSeq(seqs) = all
<1>1. Len(seqs) = k
  <2>1. PICK R : R = {seqs[p] : p \in 1..k}
    OBVIOUS
  <2>2. seqs \in [1..k -> R]
    BY <2>1
  <2>3. seqs \in Seq(R)
    BY <2>2
  <2>4. QED
    BY <2>2, <2>3
<1>2. PICK h : h = [p \in 1..k |-> Leading(all, PageEnd(n, size, p))]
  OBVIOUS
<1>3. ASSUME NEW p \in 1..k
      PROVE  /\ (p - 1) * size \in Nat /\ PageEnd(n, size, p) \in Nat
             /\ (p - 1) * size <= PageEnd(n, size, p) /\ PageEnd(n, size, p) <= n
             /\ p # 1 => p - 1 \in 1..k /\ PageEnd(n, size, p - 1) = (p - 1) * size
             /\ p = 1 => (p - 1) * size = 0
  <2>1. PICK a, b, c : a = (p - 1) * size /\ b = p * size /\ c = (k - 1) * size
    OBVIOUS
  <2>2. a \in Nat /\ b \in Nat /\ c \in Nat /\ a <= b /\ a <= c
    <3>1. p - 1 \in Nat /\ k - 1 \in Nat /\ p - 1 <= k - 1
      OBVIOUS
    <3>2. \A x, y \in Nat : x <= y => x * size <= y * size /\ x * size \in Nat
      OBVIOUS
    <3>3. QED
      BY <2>1, <3>1, <3>2
  <2>3. PageEnd(n, size, p) = IF b <= n THEN b ELSE n
    BY <2>1 DEF PageEnd
  <2>4. a <= n /\ c <= n
    BY <2>1, <2>2
  <2>5. ASSUME p # 1 PROVE p - 1 \in 1..k /\ PageEnd(n, size, p - 1) = a
    BY <2>1, <2>4, <2>5 DEF PageEnd
  <2>6. p = 1 => a = 0
    BY <2>1
  <2>7. QED
    BY <2>1, <2>2, <2>3, <2>4, <2>5, <2>6
<1>4. ASSUME NEW p \in 1..k
      PROVE  Leading(all, PageEnd(n, size, p)) = IF p = 1 THEN seqs[p] ELSE h[p - 1] \o seqs[p]
  <2>1. PICK a, b : a = (p - 1) * size /\ b = PageEnd(n, size, p)
    OBVIOUS
  <2>2. a \in Nat /\ b \in Nat /\ a <= b /\ b <= n
    BY <1>3, <2>1
  <2>3. seqs[p] = Following(all, a, b)
    BY <2>1 DEF PageOf, Following
  <2>4. CASE p = 1
    <3>1. a = 0
      BY <1>3, <2>1, <2>4
    <3>2. b - a = b /\ \A i \in 1..b : a + i = i
      BY <2>2, <3>1
    <3>3. seqs[p] = Leading(all, b)
      BY <2>3, <3>2 DEF Leading, Following
    <3>4. QED
      BY <2>1, <2>4, <3>3
  <2>5. CASE p # 1
    <3>1. p - 1 \in 1..k /\ PageEnd(n, size, p - 1) = a
      BY <1>3, <2>1, <2>5
    <3>2. h[p - 1] = Leading(all, a)
      BY <1>2, <3>1
    <3>3. h[p - 1] \o seqs[p] = Leading(all, b)
      BY <2>2, <2>3, <3>2, JoinTwo
    <3>4. QED
      BY <2>1, <2>5, <3>3
  <2>6. QED
    BY <2>4, <2>5
<1>5. Flattening(h, seqs)
  BY <1>1, <1>2, <1>4 DEF Flattening
<1>6. PICK g : g = CHOOSE f : Flattening(f, seqs)
  OBVIOUS
<1>7. Flattening(g, seqs)
  BY <1>5, <1>6
<1>8. FlattenSeq(seqs) = h[k]
  BY <1>1, <1>5, <1>6, <1>7, FlattenUnfolds, FlattenUnique
<1>9. PageEnd(n, size, k) = n
  <2>1. k * size \in Nat
    OBVIOUS
  <2>2. QED
    BY <2>1 DEF PageEnd
<1>10. h[k] = all
  <2>1. h[k] = Leading(all, n)
    BY <1>2, <1>9
  <2>2. QED
    BY <2>1 DEF Leading, IsList
<1>11. QED
  BY <1>8, <1>10

\* The last page is not beyond the end, and nothing is left behind it.
LEMMA LastPage ==
    ASSUME NEW n \in Nat, NEW size \in Nat \ {0}, NEW k, k = (n \div size) + 1
    PROVE  k \in Nat \ {0} /\ (k - 1) * size <= n /\ n < k * size
<1>1. PICK d : d = n \div size
  OBVIOUS
<1>2. d \in Nat /\ d * size <= n /\ n < (d + 1) * size
  BY <1>1
<1>3. k = d + 1 /\ k - 1 = d
  BY <1>1, <1>2
<1>4. QED
  BY <1>2, <1>3

\* The pages of a list without repetition show every row once.
LEMMA Covered ==
    ASSUME NEW n \in Nat, NEW all, IsList(all, n), NEW size \in Nat \ {0},
           \A i, j \in 1..n : all[i] = all[j] => i = j,
           NEW seqs, seqs = [p \in 1..((n \div size) + 1) |-> PageOf(all, n, size, p)]
    PROVE  Len(FlattenSeq(seqs)) = n /\ IsInjective(FlattenSeq(seqs))
<1>1. PICK k : k = (n \div size) + 1
  OBVIOUS
<1>2. k \in Nat \ {0} /\ (k - 1) * size <= n /\ n < k * size
  BY <1>1, LastPage
<1>3. seqs = [p \in 1..k |-> PageOf(all, n, size, p)]
  BY <1>1
<1>4. PICK s : s = FlattenSeq(seqs)
  OBVIOUS
<1>5. s = all
  BY <1>2, <1>3, <1>4, PagesJoin
<1>6. Len(all) = n /\ DOMAIN all = 1..n
  BY ListRows
<1>7. IsInjective(all)
  BY <1>6 DEF IsInjective
<1>8. QED
  BY <1>4, <1>5, <1>6, <1>7

\* Ordered by id, the largest first.
Falling(rows) == \A i, j \in DOMAIN rows : i < j => rows[i] > rows[j]

\* A finite set of numbers has such an order.
LEMMA FallingExists ==
    ASSUME NEW ids, IsFiniteSet(ids), ids \subseteq Nat
    PROVE  \E rows \in [1..Cardinality(ids) -> ids] : Falling(rows)
<1> DEFINE Sorted(s) == \E rows \in [1..Cardinality(s) -> s] : Falling(rows)
<1>1. PICK N : N = {n \in Nat : \E s \in SUBSET ids : Cardinality(s) = n /\ ~Sorted(s)}
  OBVIOUS
<1> HIDE DEF Sorted
<1>2. N = {}
  <2> SUFFICES ASSUME N # {} PROVE FALSE
    OBVIOUS
  <2>1. N \in SUBSET Nat
    BY <1>1
  <2>2. PICK n \in N : \A m \in N : ~(m < n)
    BY <2>1, Smallest
  <2>3. PICK s \in SUBSET ids : Cardinality(s) = n /\ ~Sorted(s)
    BY <1>1, <2>2
  <2>4. IsFiniteSet(s) /\ s \in SUBSET Nat /\ n \in Nat
    BY <2>1, <2>2, FS_Subset
  <2>5. s # {}
    <3> SUFFICES ASSUME s = {} PROVE FALSE
      OBVIOUS
    <3>1. n = 0
      BY <2>3, FS_EmptySet
    <3>2. PICK e : e = [i \in 1..0 |-> 0]
      OBVIOUS
    <3>3. e \in [1..n -> s] /\ Falling(e)
      BY <3>1, <3>2 DEF Falling
    <3>4. QED
      BY <2>3, <3>3 DEF Sorted
  <2>6. PICK least \in s : \A y \in s : ~(y < least)
    BY <2>4, <2>5, Smallest
  <2>7. PICK t : t = s \ {least}
    OBVIOUS
  <2>8. IsFiniteSet(t) /\ Cardinality(t) = n - 1 /\ t \in SUBSET ids
    BY <2>3, <2>4, <2>6, <2>7, FS_RemoveElement
  <2>9. n - 1 \in Nat
    <3>1. Cardinality(t) \in Nat
      BY <2>8, FS_CardinalityType
    <3>2. QED
      BY <2>8, <3>1
  <2>10. Sorted(t)
    BY <1>1, <2>2, <2>4, <2>8, <2>9
  <2>11. PICK rows \in [1..(n - 1) -> t] : Falling(rows)
    BY <2>8, <2>10 DEF Sorted
  <2>12. PICK more : more = [i \in 1..n |-> IF i = n THEN least ELSE rows[i]]
    OBVIOUS
  <2>13. \A i \in 1..n : i # n => i \in 1..(n - 1) /\ i < n /\ rows[i] \in t
    BY <2>4, <2>11
  <2>14. more \in [1..n -> s]
    BY <2>6, <2>7, <2>12, <2>13
  <2>15. ASSUME NEW i \in 1..n, NEW j \in 1..n, i < j PROVE more[i] > more[j]
    <3>1. i # n /\ i \in 1..(n - 1) /\ more[i] = rows[i] /\ rows[i] \in t
      BY <2>4, <2>12, <2>13, <2>15
    <3>2. CASE j = n
      <4>1. more[j] = least /\ rows[i] # least /\ rows[i] \in Nat /\ least \in Nat /\ ~(rows[i] < least)
        BY <2>4, <2>6, <2>7, <2>12, <3>1, <3>2
      <4>2. QED
        BY <3>1, <4>1
    <3>3. CASE j # n
      <4>1. j \in 1..(n - 1) /\ more[j] = rows[j]
        BY <2>12, <2>13, <3>3
      <4>2. rows[i] > rows[j]
        BY <2>11, <2>15, <3>1, <4>1 DEF Falling
      <4>3. QED
        BY <3>1, <4>1, <4>2
    <3>4. QED
      BY <3>2, <3>3
  <2>16. Falling(more)
    BY <2>14, <2>15 DEF Falling
  <2>17. QED
    BY <2>3, <2>14, <2>16 DEF Sorted
<1>3. Cardinality(ids) \in Nat
  BY FS_CardinalityType
<1>4. Sorted(ids)
  BY <1>1, <1>2, <1>3
<1>5. QED
  BY <1>4 DEF Sorted

\* A list of the rows of a set, without repetition.
Enumerates(rows, ids) ==
    /\ IsList(rows, Cardinality(ids)) /\ Cardinality(ids) \in Nat
    /\ \A i \in 1..Cardinality(ids) : rows[i] \in ids
    /\ \A i, j \in 1..Cardinality(ids) : rows[i] = rows[j] => i = j

\* Order("id DESC")
LEMMA IdsEnumerated ==
    ASSUME NEW ids, IsFiniteSet(ids), ids \subseteq Nat
    PROVE  Enumerates(ByIdDesc(ids), ids)
<1>1. PICK n : n = Cardinality(ids)
  OBVIOUS
<1>2. n \in Nat
  BY <1>1, FS_CardinalityType
<1>3. PICK rows : rows = ByIdDesc(ids)
  OBVIOUS
<1>4. \E f \in [1..n -> ids] : \A i, j \in DOMAIN f : i < j => f[i] > f[j]
  BY <1>1, FallingExists DEF Falling
<1>5. rows = CHOOSE f \in [1..n -> ids] : \A i, j \in DOMAIN f : i < j => f[i] > f[j]
  BY <1>1, <1>3 DEF ByIdDesc
<1>6. rows \in [1..n -> ids] /\ \A i, j \in DOMAIN rows : i < j => rows[i] > rows[j]
  BY <1>4, <1>5
<1>7. IsList(rows, n)
  BY <1>6 DEF IsList
<1>8. \A i \in 1..n : rows[i] \in ids /\ rows[i] \in Nat
  BY <1>6
<1>9. ASSUME NEW i \in 1..n, NEW j \in 1..n, rows[i] = rows[j] PROVE i = j
  <2>1. CASE i < j
    BY <1>6, <1>8, <1>9, <2>1
  <2>2. CASE j < i
    BY <1>6, <1>8, <1>9, <2>2
  <2>3. QED
    BY <1>2, <2>1, <2>2
<1>10. QED
  BY <1>1, <1>2, <1>3, <1>7, <1>8, <1>9 DEF Enumerates

\* Order by a time.
LEMMA TimesEnumerated ==
    ASSUME NEW ids, IsFiniteSet(ids), NEW rows \in SetToSeqs(ids)
    PROVE  Enumerates(rows, ids)
<1>1. PICK n : n = Cardinality(ids)
  OBVIOUS
<1>2. n \in Nat
  BY <1>1, FS_CardinalityType
<1>3. rows \in [1..n -> ids] /\ \A i, j \in 1..n : i # j => rows[i] # rows[j]
  BY <1>1 DEF SetToSeqs
<1>4. IsList(rows, n)
  BY <1>3 DEF IsList
<1>5. QED
  BY <1>1, <1>2, <1>3, <1>4 DEF Enumerates

\* A query with all its fields.
AskedOK(q) == DOMAIN q = QueryFields /\ q.page \in Int /\ q.size \in Int

FilterFields == QueryFields \ {"page", "size"}

\* Two queries for the same rows.
SameFilter(q, t) == \A f \in FilterFields : t[f] = q[f]

\* What a handler makes of page and page_size.
LEMMA NormalQuery ==
    ASSUME NEW q, AskedOK(q), NEW t, t = Normalized(q)
    PROVE  /\ t.page = normalPage(q.page) /\ t.size = normalSize(q.size)
           /\ normalPage(q.page) \in Nat \ {0} /\ normalSize(q.size) \in Nat \ {0}
           /\ SameFilter(q, t)
<1>1. "page" \in DOMAIN q /\ "size" \in DOMAIN q /\ FilterFields \subseteq DOMAIN q
  BY DEF AskedOK, QueryFields, FilterFields
<1>2. PICK a, b : a = normalPage(q.page) /\ b = normalSize(q.size)
  OBVIOUS
<1>3. t = [q EXCEPT !.page = a, !.size = b]
  BY <1>2 DEF Normalized
<1>4. t.page = a /\ t.size = b
  BY <1>1, <1>3
<1>5. SameFilter(q, t)
  BY <1>1, <1>3 DEF SameFilter, FilterFields
<1>6. a \in Nat \ {0}
  BY <1>2 DEF AskedOK, normalPage
<1>7. b \in Nat \ {0}
  BY <1>2, QueriesAssumption DEF AskedOK, normalSize
<1>8. QED
  BY <1>2, <1>4, <1>5, <1>6, <1>7

\* The same query for another page.
LEMMA OtherPage ==
    ASSUME NEW q, AskedOK(q), NEW p \in Nat \ {0}, NEW t, t = [q EXCEPT !.page = p]
    PROVE  AskedOK(t) /\ normalPage(t.page) = p /\ normalSize(t.size) = normalSize(q.size) /\ SameFilter(q, t)
<1>1. "page" \in DOMAIN q /\ "size" \in DOMAIN q /\ FilterFields \subseteq DOMAIN q
  BY DEF AskedOK, QueryFields, FilterFields
<1>2. t.page = p /\ t.size = q.size /\ DOMAIN t = DOMAIN q
  BY <1>1
<1>3. SameFilter(q, t)
  BY <1>1 DEF SameFilter, FilterFields
<1>4. normalPage(p) = p
  BY DEF normalPage
<1>5. QED
  BY <1>2, <1>3, <1>4 DEF AskedOK

\* Offset and Limit.
LEMMA PageIs ==
    ASSUME NEW n \in Nat, NEW rows, IsList(rows, n), NEW size \in Nat \ {0}, NEW page \in Nat \ {0}
    PROVE  Page(rows, page, size) = PageOf(rows, n, size, page)
<1>0. PICK T : rows \in [1..n -> T]
  BY ListRows
<1>1. rows \in Seq(T) /\ Len(rows) = n
  BY <1>0
<1>2. PICK skipped \in Nat, full \in Nat : skipped = (page - 1) * size /\ full = page * size
  <2>1. (page - 1) * size \in Nat /\ page * size \in Nat
    OBVIOUS
  <2>2. QED
    BY <2>1
<1>3. PICK last : last = IF full <= n THEN full ELSE n
  OBVIOUS
<1>4. Min({page * size, Len(rows)}) = last
  <2>1. \A x \in {full, n} : (\A y \in {full, n} : x <= y) => x = last
    BY <1>3
  <2>2. last \in {full, n} /\ \A y \in {full, n} : last <= y
    BY <1>3
  <2>3. QED
    BY <1>1, <1>2, <2>1, <2>2 DEF Min
<1>5. PICK s : s = SubSeq(rows, skipped + 1, last)
  OBVIOUS
<1>6. last \in Nat /\ last <= n
  BY <1>2, <1>3
<1>7. s \in Seq(T) /\ Len(s) = IF skipped + 1 <= last THEN last - skipped ELSE 0
  <2>1. CASE skipped + 1 <= last
    BY <1>1, <1>2, <1>5, <1>6, <2>1
  <2>2. CASE ~(skipped + 1 <= last)
    BY <1>1, <1>2, <1>5, <1>6, <2>2
  <2>3. QED
    BY <2>1, <2>2
<1>8. DOMAIN s = 1..(last - skipped)
  BY <1>2, <1>6, <1>7
<1>9. ASSUME NEW i \in 1..(last - skipped) PROVE s[i] = rows[skipped + i]
  <2>1. skipped + 1 <= last /\ i \in 1..(last - (skipped + 1) + 1) /\ i + (skipped + 1) - 1 = skipped + i
    BY <1>2, <1>6
  <2>2. QED
    BY <1>1, <1>2, <1>5, <1>6, <2>1
<1>10. s = [i \in 1..(last - skipped) |-> rows[skipped + i]]
  BY <1>7, <1>8, <1>9
<1>11. Page(rows, page, size) = s
  BY <1>2, <1>4, <1>5 DEF Page
<1>12. QED
  BY <1>2, <1>3, <1>10, <1>11 DEF PageOf, PageEnd

\* The answer to a query for the rows of a list.
LEMMA ListedPage ==
    ASSUME NEW ids, NEW rows, Enumerates(rows, ids), NEW q, AskedOK(q), NEW t, t = Normalized(q)
    PROVE  Listed(rows, t) = [items |-> PageOf(rows, Cardinality(ids), normalSize(q.size), normalPage(q.page)),
                              total |-> Cardinality(ids)]
<1>1. PICK n \in Nat : n = Cardinality(ids)
  BY DEF Enumerates
<1>2. IsList(rows, n)
  BY <1>1 DEF Enumerates
<1>3. PICK page \in Nat \ {0}, size \in Nat \ {0} : page = normalPage(q.page) /\ size = normalSize(q.size)
  BY NormalQuery
<1>4. t.page = page /\ t.size = size
  BY <1>3, NormalQuery
<1>5. Page(rows, t.page, t.size) = PageOf(rows, n, size, page)
  BY <1>2, <1>4, PageIs
<1>6. Len(rows) = n
  BY <1>2, ListRows
<1>7. QED
  BY <1>1, <1>3, <1>5, <1>6 DEF Listed

\* What is shown of the rows, and a page of it.
Through(f, rows) == [i \in DOMAIN rows |-> f[rows[i]]]

\* A page of what is shown of the rows is what is shown of a page.
LEMMA MappedPage ==
    ASSUME NEW n \in Nat, NEW rows, IsList(rows, n), NEW size \in Nat \ {0}, NEW p \in Nat \ {0}, NEW f
    PROVE  Through(f, PageOf(rows, n, size, p)) = PageOf(Through(f, rows), n, size, p)
<1>0. PICK page, all : page = PageOf(rows, n, size, p) /\ all = [i \in 1..n |-> f[rows[i]]]
  OBVIOUS
<1>1. PICK a \in Nat, b \in Nat : a = (p - 1) * size /\ b = PageEnd(n, size, p) /\ b <= n
  <2>1. (p - 1) * size \in Nat /\ p * size \in Nat
    OBVIOUS
  <2>2. QED
    BY <2>1 DEF PageEnd
<1>2. page = [i \in 1..(b - a) |-> rows[a + i]]
  BY <1>0, <1>1 DEF PageOf
<1>3. \A i \in 1..(b - a) : a + i \in 1..n
  BY <1>1
<1>4. PageOf(all, n, size, p) = [i \in 1..(b - a) |-> all[a + i]]
  BY <1>1 DEF PageOf
<1>5. DOMAIN page = 1..(b - a)
  BY <1>2
<1>6. \A i \in 1..(b - a) : f[page[i]] = all[a + i]
  BY <1>0, <1>2, <1>3
<1>7. Through(f, page) = PageOf(all, n, size, p)
  BY <1>4, <1>5, <1>6 DEF Through
<1>8. Through(f, rows) = all
  BY <1>0, ListRows DEF Through
<1>9. QED
  BY <1>0, <1>7, <1>8

\* The rows that a page shows are rows of the list.
LEMMA PageRows ==
    ASSUME NEW n \in Nat, NEW all, NEW size \in Nat \ {0}, NEW p \in Nat \ {0},
           NEW page, page = PageOf(all, n, size, p), NEW i \in DOMAIN page
    PROVE  \E j \in 1..n : page[i] = all[j]
<1>1. PICK a \in Nat, b \in Nat : a = (p - 1) * size /\ b = PageEnd(n, size, p) /\ b <= n
  <2>1. (p - 1) * size \in Nat /\ p * size \in Nat
    OBVIOUS
  <2>2. QED
    BY <2>1 DEF PageEnd
<1>2. page = [j \in 1..(b - a) |-> all[a + j]]
  BY <1>1 DEF PageOf
<1>3. i \in 1..(b - a) /\ a + i \in 1..n
  BY <1>1, <1>2
<1>4. QED
  BY <1>2, <1>3

\* A list without repetition.
Distinct(rows, n) == IsList(rows, n) /\ \A i, j \in 1..n : rows[i] = rows[j] => i = j

\* The pages of such a list show every row once.
LEMMA DistinctCovered ==
    ASSUME NEW n \in Nat, NEW rows, Distinct(rows, n), NEW size \in Nat \ {0},
           NEW seqs, seqs = [p \in 1..((n \div size) + 1) |-> PageOf(rows, n, size, p)]
    PROVE  Len(FlattenSeq(seqs)) = n /\ IsInjective(FlattenSeq(seqs))
<1>1. IsList(rows, n)
  BY DEF Distinct
<1>2. \A i, j \in 1..n : rows[i] = rows[j] => i = j
  BY DEF Distinct
<1>3. QED
  BY <1>1, <1>2, Covered

\* The answer to a query for n rows.
ShowsPage(answer, rows, n, q) ==
    /\ answer.items = PageOf(rows, n, normalSize(q.size), normalPage(q.page))
    /\ answer.total = n

\* The answers to the query for the single pages.
PagesShown(pages, rows, n, q) ==
    \A p \in Nat \ {0} : ShowsPage(pages[p], rows, n, [q EXCEPT !.page = p])

\* A list that answers every query for its rows with a page of them shows, one page after
\* the other, every row once.
LEMMA ListCovered ==
    ASSUME NEW n \in Nat, NEW rows, Distinct(rows, n), NEW q, AskedOK(q),
           NEW first, ShowsPage(first, rows, n, q), NEW pages, PagesShown(pages, rows, n, q),
           NEW seqs, seqs = [p \in 1..((first.total \div normalSize(q.size)) + 1) |-> pages[p].items]
    PROVE  Len(FlattenSeq(seqs)) = first.total /\ IsInjective(FlattenSeq(seqs))
<1>1. PICK size \in Nat \ {0} : size = normalSize(q.size)
  BY NormalQuery
<1>2. first.total = n
  BY DEF ShowsPage
<1>3. ASSUME NEW p \in 1..((n \div size) + 1)
      PROVE  pages[p].items = PageOf(rows, n, size, p)
  <2>1. p \in Nat \ {0}
    OBVIOUS
  <2>2. PICK t : t = [q EXCEPT !.page = p]
    OBVIOUS
  <2>3. normalPage(t.page) = p /\ normalSize(t.size) = size
    BY <1>1, <2>1, <2>2, OtherPage
  <2>4. ShowsPage(pages[p], rows, n, t)
    BY <2>1, <2>2 DEF PagesShown
  <2>5. QED
    BY <2>3, <2>4 DEF ShowsPage
<1>4. seqs = [p \in 1..((n \div size) + 1) |-> PageOf(rows, n, size, p)]
  BY <1>1, <1>2, <1>3
<1>5. Len(FlattenSeq(seqs)) = n /\ IsInjective(FlattenSeq(seqs))
  BY <1>4, DistinctCovered
<1>6. QED
  BY <1>2, <1>5

\* Listed answers so.
LEMMA ListedShows ==
    ASSUME NEW ids, NEW rows, Enumerates(rows, ids), NEW q, AskedOK(q), NEW t, t = Normalized(q),
           NEW answer, answer = Listed(rows, t)
    PROVE  ShowsPage(answer, rows, Cardinality(ids), q)
<1>1. PICK items, n : /\ items = PageOf(rows, Cardinality(ids), normalSize(q.size), normalPage(q.page))
                      /\ n = Cardinality(ids)
  OBVIOUS
<1>2. answer = [items |-> items, total |-> n]
  BY <1>1, ListedPage
<1>3. QED
  BY <1>1, <1>2 DEF ShowsPage

\* The rows of a set, in any order, are such a list.
LEMMA EnumeratesDistinct ==
    ASSUME NEW ids, NEW rows, Enumerates(rows, ids)
    PROVE  Cardinality(ids) \in Nat /\ Distinct(rows, Cardinality(ids))
BY DEF Enumerates, Distinct

\* The audit log.
LEMMA AuditCovered ==
    ASSUME LogOK, NEW q, AskedOK(q)
    PROVE  PagesCover(AdminAuditList, q)
<1>1. PICK ids : ids = {i \in 1..Len(audit) : /\ WantedText(q.action, audit[i].action)
                                              /\ WantedText(q.target, audit[i].type)}
  OBVIOUS
<1>2. IsFiniteSet(ids) /\ ids \subseteq Nat
  <2>1. Len(audit) \in Nat
    BY LogLength
  <2>2. IsFiniteSet(1..Len(audit)) /\ ids \subseteq 1..Len(audit)
    <3>1. ids \subseteq 1..Len(audit)
      BY <1>1
    <3>2. PICK n \in Nat : n = Len(audit)
      BY <2>1
    <3>3. IsFiniteSet(1..n)
      BY FS_Interval
    <3>4. QED
      BY <3>1, <3>2, <3>3
  <2>3. IsFiniteSet(ids)
    BY <2>2, FS_Subset
  <2>4. QED
    BY <2>1, <2>2, <2>3
<1>3. PICK rows : rows = ByIdDesc(ids)
  OBVIOUS
<1>4. Enumerates(rows, ids)
  BY <1>2, <1>3, IdsEnumerated
<1>5. ASSUME NEW t, AskedOK(t), SameFilter(q, t)
      PROVE  ShowsPage(AdminAuditList(t), rows, Cardinality(ids), t)
  <2>1. PICK u : u = Normalized(t)
    OBVIOUS
  <2>2. SameFilter(t, u)
    BY <1>5, <2>1, NormalQuery
  <2>3. u.action = q.action /\ u.target = q.target
    BY <1>5, <2>2 DEF SameFilter, FilterFields, QueryFields
  <2>4. AuditList(u) = Listed(rows, u)
    BY <1>1, <1>3, <2>3 DEF AuditList
  <2>5. QED
    BY <1>4, <1>5, <2>1, <2>4, ListedShows DEF AdminAuditList
<1>6. PICK n : n = Cardinality(ids)
  OBVIOUS
<1>7. n \in Nat /\ Distinct(rows, n)
  BY <1>4, <1>6, EnumeratesDistinct
<1>8. PICK first, pages : /\ first = AdminAuditList(q)
                          /\ pages = [p \in Nat \ {0} |-> AdminAuditList([q EXCEPT !.page = p])]
  OBVIOUS
<1>9. ShowsPage(first, rows, n, q)
  BY <1>5, <1>6, <1>8 DEF SameFilter
<1>10. ASSUME NEW p \in Nat \ {0} PROVE ShowsPage(pages[p], rows, n, [q EXCEPT !.page = p])
  <2>1. PICK t : t = [q EXCEPT !.page = p]
    OBVIOUS
  <2>2. AskedOK(t) /\ SameFilter(q, t)
    BY <2>1, OtherPage
  <2>3. ShowsPage(AdminAuditList(t), rows, n, t)
    BY <1>5, <1>6, <2>2
  <2>4. QED
    BY <1>8, <2>1, <2>3
<1>11. PICK seqs : seqs = [p \in 1..((first.total \div normalSize(q.size)) + 1) |-> pages[p].items]
  OBVIOUS
<1>12. PagesShown(pages, rows, n, q)
  BY <1>10 DEF PagesShown
<1>13. Len(FlattenSeq(seqs)) = first.total /\ IsInjective(FlattenSeq(seqs))
  BY <1>7, <1>9, <1>11, <1>12, ListCovered
<1>14. seqs = [p \in 1..((first.total \div normalSize(q.size)) + 1) |-> AdminAuditList([q EXCEPT !.page = p]).items]
  <2>1. first.total \in Nat /\ normalSize(q.size) \in Nat \ {0}
    BY <1>7, <1>9, NormalQuery DEF ShowsPage
  <2>2. 1..((first.total \div normalSize(q.size)) + 1) \subseteq Nat \ {0}
    BY <2>1
  <2>3. QED
    BY <1>8, <1>11, <2>2
<1>15. QED
  BY <1>8, <1>13, <1>14 DEF PagesCover

\* The tool calls.
LEMMA ToolCallsCovered ==
    ASSUME NEW q, AskedOK(q)
    PROVE  PagesCover(AdminToolCallList, q)
<1>1. PICK ids : ids = {i \in DOMAIN ToolCallRow :
                            /\ WantedText(q.category, ToolCallRow[i].tool)
                            /\ WantedId(q.user, ToolCallRow[i].user)
                            /\ WantedId(q.room, ToolCallRow[i].room)
                            /\ WantedFlag(q.flag, ToolCallRow[i].success)
                            /\ InWindow(q, ToolCallRow[i].started)}
  OBVIOUS
<1>2. IsFiniteSet(ids) /\ ids \subseteq Nat
  <2>1. IsFiniteSet(DOMAIN ToolCallRow) /\ DOMAIN ToolCallRow \subseteq Nat
    BY QueriesAssumption
  <2>2. IsFiniteSet(ids) /\ ids \subseteq DOMAIN ToolCallRow
    BY <1>1, <2>1, FS_Subset
  <2>3. QED
    BY <2>1, <2>2
<1>3. PICK rows : rows = ByIdDesc(ids)
  OBVIOUS
<1>4. Enumerates(rows, ids)
  BY <1>2, <1>3, IdsEnumerated
<1>5. ASSUME NEW t, AskedOK(t), SameFilter(q, t)
      PROVE  ShowsPage(AdminToolCallList(t), rows, Cardinality(ids), t)
  <2>1. PICK u : u = Normalized(t)
    OBVIOUS
  <2>2. SameFilter(t, u)
    BY <1>5, <2>1, NormalQuery
  <2>3. u.category = q.category /\ u.user = q.user /\ u.room = q.room /\ u.flag = q.flag /\ u.start = q.start /\ u.end = q.end
    BY <1>5, <2>2 DEF SameFilter, FilterFields, QueryFields
  <2>4. ToolCallList(u) = Listed(rows, u)
    BY <1>1, <1>3, <2>3 DEF ToolCallList, InWindow
  <2>5. QED
    BY <1>4, <1>5, <2>1, <2>4, ListedShows DEF AdminToolCallList
<1>6. PICK n : n = Cardinality(ids)
  OBVIOUS
<1>7. n \in Nat /\ Distinct(rows, n)
  BY <1>4, <1>6, EnumeratesDistinct
<1>8. PICK first, pages : /\ first = AdminToolCallList(q)
                          /\ pages = [p \in Nat \ {0} |-> AdminToolCallList([q EXCEPT !.page = p])]
  OBVIOUS
<1>9. ShowsPage(first, rows, n, q)
  BY <1>5, <1>6, <1>8 DEF SameFilter
<1>10. ASSUME NEW p \in Nat \ {0} PROVE ShowsPage(pages[p], rows, n, [q EXCEPT !.page = p])
  <2>1. PICK t : t = [q EXCEPT !.page = p]
    OBVIOUS
  <2>2. AskedOK(t) /\ SameFilter(q, t)
    BY <2>1, OtherPage
  <2>3. ShowsPage(AdminToolCallList(t), rows, n, t)
    BY <1>5, <1>6, <2>2
  <2>4. QED
    BY <1>8, <2>1, <2>3
<1>11. PICK seqs : seqs = [p \in 1..((first.total \div normalSize(q.size)) + 1) |-> pages[p].items]
  OBVIOUS
<1>12. PagesShown(pages, rows, n, q)
  BY <1>10 DEF PagesShown
<1>13. Len(FlattenSeq(seqs)) = first.total /\ IsInjective(FlattenSeq(seqs))
  BY <1>7, <1>9, <1>11, <1>12, ListCovered
<1>14. seqs = [p \in 1..((first.total \div normalSize(q.size)) + 1) |-> AdminToolCallList([q EXCEPT !.page = p]).items]
  <2>1. first.total \in Nat /\ normalSize(q.size) \in Nat \ {0}
    BY <1>7, <1>9, NormalQuery DEF ShowsPage
  <2>2. 1..((first.total \div normalSize(q.size)) + 1) \subseteq Nat \ {0}
    BY <2>1
  <2>3. QED
    BY <1>8, <1>11, <2>2
<1>15. QED
  BY <1>8, <1>13, <1>14 DEF PagesCover

\* The versions of the configuration.
LEMMA VersionsCovered ==
    ASSUME ConfigInv, NEW q, AskedOK(q)
    PROVE  PagesCover(AdminAgentConfigHistory, q)
<1>1. PICK ids : ids = 1..Len(history)
  OBVIOUS
<1>2. IsFiniteSet(ids) /\ ids \subseteq Nat
  <2>1. Len(history) \in Nat
    BY DEF ConfigInv
  <2>2. QED
    BY <1>1, <2>1, FS_Interval
<1>3. PICK rows : rows = ByIdDesc(ids)
  OBVIOUS
<1>4. Enumerates(rows, ids)
  BY <1>2, <1>3, IdsEnumerated
<1>5. ASSUME NEW t, AskedOK(t), SameFilter(q, t)
      PROVE  ShowsPage(AdminAgentConfigHistory(t), rows, Cardinality(ids), t)
  <2>1. PICK u : u = Normalized(t)
    OBVIOUS
  <2>2. ConfigHistoryList(u) = Listed(rows, u)
    BY <1>1, <1>3 DEF ConfigHistoryList
  <2>3. QED
    BY <1>4, <1>5, <2>1, <2>2, ListedShows DEF AdminAgentConfigHistory
<1>6. PICK n : n = Cardinality(ids)
  OBVIOUS
<1>7. n \in Nat /\ Distinct(rows, n)
  BY <1>4, <1>6, EnumeratesDistinct
<1>8. PICK first, pages : /\ first = AdminAgentConfigHistory(q)
                          /\ pages = [p \in Nat \ {0} |-> AdminAgentConfigHistory([q EXCEPT !.page = p])]
  OBVIOUS
<1>9. ShowsPage(first, rows, n, q)
  BY <1>5, <1>6, <1>8 DEF SameFilter
<1>10. ASSUME NEW p \in Nat \ {0} PROVE ShowsPage(pages[p], rows, n, [q EXCEPT !.page = p])
  <2>1. PICK t : t = [q EXCEPT !.page = p]
    OBVIOUS
  <2>2. AskedOK(t) /\ SameFilter(q, t)
    BY <2>1, OtherPage
  <2>3. ShowsPage(AdminAgentConfigHistory(t), rows, n, t)
    BY <1>5, <1>6, <2>2
  <2>4. QED
    BY <1>8, <2>1, <2>3
<1>11. PICK seqs : seqs = [p \in 1..((first.total \div normalSize(q.size)) + 1) |-> pages[p].items]
  OBVIOUS
<1>12. PagesShown(pages, rows, n, q)
  BY <1>10 DEF PagesShown
<1>13. Len(FlattenSeq(seqs)) = first.total /\ IsInjective(FlattenSeq(seqs))
  BY <1>7, <1>9, <1>11, <1>12, ListCovered
<1>14. seqs = [p \in 1..((first.total \div normalSize(q.size)) + 1) |-> AdminAgentConfigHistory([q EXCEPT !.page = p]).items]
  <2>1. first.total \in Nat /\ normalSize(q.size) \in Nat \ {0}
    BY <1>7, <1>9, NormalQuery DEF ShowsPage
  <2>2. 1..((first.total \div normalSize(q.size)) + 1) \subseteq Nat \ {0}
    BY <2>1
  <2>3. QED
    BY <1>8, <1>11, <2>2
<1>15. QED
  BY <1>8, <1>13, <1>14 DEF PagesCover

\* The errors, a list that no handler serves.
ErrorPages(q) == ErrorList(Normalized(q))

\* Their pages show every error that matches once.
LEMMA ErrorsCovered ==
    ASSUME NEW q, AskedOK(q)
    PROVE  PagesCover(ErrorPages, q)
<1>1. PICK ids : ids = {i \in DOMAIN ErrorRow :
                            /\ WantedText(q.category, ErrorRow[i].module)
                            /\ WantedFlag(q.flag, ErrorRow[i].resolved)
                            /\ InWindow(q, ErrorRow[i].timestamp)}
  OBVIOUS
<1>2. IsFiniteSet(ids) /\ ids \subseteq Nat
  <2>1. IsFiniteSet(DOMAIN ErrorRow) /\ DOMAIN ErrorRow \subseteq Nat
    BY QueriesAssumption
  <2>2. IsFiniteSet(ids) /\ ids \subseteq DOMAIN ErrorRow
    BY <1>1, <2>1, FS_Subset
  <2>3. QED
    BY <2>1, <2>2
<1>3. PICK rows : rows = ByIdDesc(ids)
  OBVIOUS
<1>4. Enumerates(rows, ids)
  BY <1>2, <1>3, IdsEnumerated
<1>5. ASSUME NEW t, AskedOK(t), SameFilter(q, t)
      PROVE  ShowsPage(ErrorPages(t), rows, Cardinality(ids), t)
  <2>1. PICK u : u = Normalized(t)
    OBVIOUS
  <2>2. SameFilter(t, u)
    BY <1>5, <2>1, NormalQuery
  <2>3. u.category = q.category /\ u.flag = q.flag /\ u.start = q.start /\ u.end = q.end
    BY <1>5, <2>2 DEF SameFilter, FilterFields, QueryFields
  <2>4. ErrorList(u) = Listed(rows, u)
    BY <1>1, <1>3, <2>3 DEF ErrorList, InWindow
  <2>5. QED
    BY <1>4, <1>5, <2>1, <2>4, ListedShows DEF ErrorPages
<1>6. PICK n : n = Cardinality(ids)
  OBVIOUS
<1>7. n \in Nat /\ Distinct(rows, n)
  BY <1>4, <1>6, EnumeratesDistinct
<1>8. PICK first, pages : /\ first = ErrorPages(q)
                          /\ pages = [p \in Nat \ {0} |-> ErrorPages([q EXCEPT !.page = p])]
  OBVIOUS
<1>9. ShowsPage(first, rows, n, q)
  BY <1>5, <1>6, <1>8 DEF SameFilter
<1>10. ASSUME NEW p \in Nat \ {0} PROVE ShowsPage(pages[p], rows, n, [q EXCEPT !.page = p])
  <2>1. PICK t : t = [q EXCEPT !.page = p]
    OBVIOUS
  <2>2. AskedOK(t) /\ SameFilter(q, t)
    BY <2>1, OtherPage
  <2>3. ShowsPage(ErrorPages(t), rows, n, t)
    BY <1>5, <1>6, <2>2
  <2>4. QED
    BY <1>8, <2>1, <2>3
<1>11. PICK seqs : seqs = [p \in 1..((first.total \div normalSize(q.size)) + 1) |-> pages[p].items]
  OBVIOUS
<1>12. PagesShown(pages, rows, n, q)
  BY <1>10 DEF PagesShown
<1>13. Len(FlattenSeq(seqs)) = first.total /\ IsInjective(FlattenSeq(seqs))
  BY <1>7, <1>9, <1>11, <1>12, ListCovered
<1>14. seqs = [p \in 1..((first.total \div normalSize(q.size)) + 1) |-> ErrorPages([q EXCEPT !.page = p]).items]
  <2>1. first.total \in Nat /\ normalSize(q.size) \in Nat \ {0}
    BY <1>7, <1>9, NormalQuery DEF ShowsPage
  <2>2. 1..((first.total \div normalSize(q.size)) + 1) \subseteq Nat \ {0}
    BY <2>1
  <2>3. QED
    BY <1>8, <1>11, <2>2
<1>15. QED
  BY <1>8, <1>13, <1>14 DEF PagesCover

\* The RAG queries, whatever order the rows come in.
LEMMA RAGCovered ==
    ASSUME NEW q, AskedOK(q), NEW rows \in RAGRows(q)
    PROVE  PagesCover(LAMBDA t : AdminRAGQueries(t, rows), q)
<1>1. PICK ids : ids = {i \in DOMAIN RAGRow : WantedId(q.room, RAGRow[i].room)}
  OBVIOUS
<1>2. IsFiniteSet(ids)
  <2>1. IsFiniteSet(DOMAIN RAGRow)
    BY QueriesAssumption
  <2>2. QED
    BY <1>1, <2>1, FS_Subset
<1>3. rows \in SetToSeqs(ids)
  BY <1>1 DEF RAGRows, ByTimeDesc
<1>4. Enumerates(rows, ids)
  BY <1>2, <1>3, TimesEnumerated
<1>5. ASSUME NEW t, AskedOK(t), SameFilter(q, t)
      PROVE  ShowsPage(AdminRAGQueries(t, rows), rows, Cardinality(ids), t)
  <2>1. PICK u : u = Normalized(t)
    OBVIOUS
  <2>2. AdminRAGQueries(t, rows) = Listed(rows, u)
    BY <2>1 DEF AdminRAGQueries, ListQueries
  <2>3. QED
    BY <1>4, <1>5, <2>1, <2>2, ListedShows
<1>6. PICK n : n = Cardinality(ids)
  OBVIOUS
<1>7. n \in Nat /\ Distinct(rows, n)
  BY <1>4, <1>6, EnumeratesDistinct
<1>8. PICK first, pages : /\ first = AdminRAGQueries(q, rows)
                          /\ pages = [p \in Nat \ {0} |-> AdminRAGQueries([q EXCEPT !.page = p], rows)]
  OBVIOUS
<1>9. ShowsPage(first, rows, n, q)
  BY <1>5, <1>6, <1>8 DEF SameFilter
<1>10. ASSUME NEW p \in Nat \ {0} PROVE ShowsPage(pages[p], rows, n, [q EXCEPT !.page = p])
  <2>1. PICK t : t = [q EXCEPT !.page = p]
    OBVIOUS
  <2>2. AskedOK(t) /\ SameFilter(q, t)
    BY <2>1, OtherPage
  <2>3. ShowsPage(AdminRAGQueries(t, rows), rows, n, t)
    BY <1>5, <1>6, <2>2
  <2>4. QED
    BY <1>8, <2>1, <2>3
<1>11. PICK seqs : seqs = [p \in 1..((first.total \div normalSize(q.size)) + 1) |-> pages[p].items]
  OBVIOUS
<1>12. PagesShown(pages, rows, n, q)
  BY <1>10 DEF PagesShown
<1>13. Len(FlattenSeq(seqs)) = first.total /\ IsInjective(FlattenSeq(seqs))
  BY <1>7, <1>9, <1>11, <1>12, ListCovered
<1>14. seqs = [p \in 1..((first.total \div normalSize(q.size)) + 1) |-> AdminRAGQueries([q EXCEPT !.page = p], rows).items]
  <2>1. first.total \in Nat /\ normalSize(q.size) \in Nat \ {0}
    BY <1>7, <1>9, NormalQuery DEF ShowsPage
  <2>2. 1..((first.total \div normalSize(q.size)) + 1) \subseteq Nat \ {0}
    BY <2>1
  <2>3. QED
    BY <1>8, <1>11, <2>2
<1>15. QED
  BY <1>8, <1>13, <1>14 DEF PagesCover

\* The events, whatever order the rows come in.
LEMMA EventsCovered ==
    ASSUME IsFiniteSet(DOMAIN events), NEW q, AskedOK(q), NEW rows \in EventRows(q)
    PROVE  PagesCover(LAMBDA t : AdminModerationList(t, rows), q)
<1>1. PICK ids : ids = EventsWith(LAMBDA row : /\ WantedId(q.user, row.user)
                                                /\ WantedId(q.room, row.room)
                                                /\ WantedText(q.category, row.category)
                                                /\ WantedText(q.penalty, row.penalty)
                                                /\ InWindow(q, row.created))
  OBVIOUS
<1>2. IsFiniteSet(ids)
  BY <1>1, FS_Subset DEF EventsWith
<1>3. rows \in SetToSeqs(ids)
  BY <1>1 DEF EventRows, ByTimeDesc
<1>4. Enumerates(rows, ids)
  BY <1>2, <1>3, TimesEnumerated
<1>5. ASSUME NEW t, AskedOK(t), SameFilter(q, t)
      PROVE  ShowsPage(AdminModerationList(t, rows), rows, Cardinality(ids), t)
  <2>1. PICK u : u = Normalized(t)
    OBVIOUS
  <2>2. AdminModerationList(t, rows) = Listed(rows, u)
    BY <2>1 DEF AdminModerationList, ListEvents
  <2>3. QED
    BY <1>4, <1>5, <2>1, <2>2, ListedShows
<1>6. PICK n : n = Cardinality(ids)
  OBVIOUS
<1>7. n \in Nat /\ Distinct(rows, n)
  BY <1>4, <1>6, EnumeratesDistinct
<1>8. PICK first, pages : /\ first = AdminModerationList(q, rows)
                          /\ pages = [p \in Nat \ {0} |-> AdminModerationList([q EXCEPT !.page = p], rows)]
  OBVIOUS
<1>9. ShowsPage(first, rows, n, q)
  BY <1>5, <1>6, <1>8 DEF SameFilter
<1>10. ASSUME NEW p \in Nat \ {0} PROVE ShowsPage(pages[p], rows, n, [q EXCEPT !.page = p])
  <2>1. PICK t : t = [q EXCEPT !.page = p]
    OBVIOUS
  <2>2. AskedOK(t) /\ SameFilter(q, t)
    BY <2>1, OtherPage
  <2>3. ShowsPage(AdminModerationList(t, rows), rows, n, t)
    BY <1>5, <1>6, <2>2
  <2>4. QED
    BY <1>8, <2>1, <2>3
<1>11. PICK seqs : seqs = [p \in 1..((first.total \div normalSize(q.size)) + 1) |-> pages[p].items]
  OBVIOUS
<1>12. PagesShown(pages, rows, n, q)
  BY <1>10 DEF PagesShown
<1>13. Len(FlattenSeq(seqs)) = first.total /\ IsInjective(FlattenSeq(seqs))
  BY <1>7, <1>9, <1>11, <1>12, ListCovered
<1>14. seqs = [p \in 1..((first.total \div normalSize(q.size)) + 1) |-> AdminModerationList([q EXCEPT !.page = p], rows).items]
  <2>1. first.total \in Nat /\ normalSize(q.size) \in Nat \ {0}
    BY <1>7, <1>9, NormalQuery DEF ShowsPage
  <2>2. 1..((first.total \div normalSize(q.size)) + 1) \subseteq Nat \ {0}
    BY <2>1
  <2>3. QED
    BY <1>8, <1>11, <2>2
<1>15. QED
  BY <1>8, <1>13, <1>14 DEF PagesCover

\* The number of unresolved errors is the total of their list.
LEMMA ErrorsCounted ==
    ASSUME NEW q, AskedOK(q)
    PROVE  ErrorSummary = ErrorList([Normalized(q) EXCEPT !.flag = "false", !.category = NoText,
                                                          !.start = 0, !.end = 0]).total
<1>1. PICK u : u = [Normalized(q) EXCEPT !.flag = "false", !.category = NoText, !.start = 0, !.end = 0]
  OBVIOUS
<1>2. u.flag = "false" /\ u.category = NoText /\ u.start = 0 /\ u.end = 0
  <2>1. PICK t : t = Normalized(q)
    OBVIOUS
  <2>2. DOMAIN t = QueryFields
    BY <2>1 DEF Normalized, AskedOK
  <2>3. {"flag", "category", "start", "end"} \subseteq DOMAIN t
    BY <2>2 DEF QueryFields
  <2>4. u = [t EXCEPT !.flag = "false", !.category = NoText, !.start = 0, !.end = 0]
    BY <1>1, <2>1
  <2>5. QED
    BY <2>3, <2>4
<1>3. PICK ids : ids = {i \in DOMAIN ErrorRow : ~ErrorRow[i].resolved}
  OBVIOUS
<1>4. ASSUME NEW i \in DOMAIN ErrorRow
      PROVE  (/\ WantedText(u.category, ErrorRow[i].module)
              /\ WantedFlag(u.flag, ErrorRow[i].resolved)
              /\ InWindow(u, ErrorRow[i].timestamp)) <=> ~ErrorRow[i].resolved
  <2>1. WantedText(u.category, ErrorRow[i].module)
    BY <1>2 DEF WantedText
  <2>2. InWindow(u, ErrorRow[i].timestamp)
    BY <1>2 DEF InWindow
  <2>3. PICK b \in BOOLEAN : b = ErrorRow[i].resolved
    BY QueriesAssumption
  <2>4. WantedFlag("false", b) <=> ~b
    BY DEF WantedFlag, NoText
  <2>5. QED
    BY <1>2, <2>1, <2>2, <2>3, <2>4
<1>5. {i \in DOMAIN ErrorRow : /\ WantedText(u.category, ErrorRow[i].module)
                               /\ WantedFlag(u.flag, ErrorRow[i].resolved)
                               /\ InWindow(u, ErrorRow[i].timestamp)} = ids
  BY <1>3, <1>4
<1>6. PICK rows : rows = ByIdDesc(ids)
  OBVIOUS
<1>7. Enumerates(rows, ids)
  <2>1. IsFiniteSet(DOMAIN ErrorRow) /\ DOMAIN ErrorRow \subseteq Nat
    BY QueriesAssumption
  <2>2. IsFiniteSet(ids) /\ ids \subseteq DOMAIN ErrorRow
    BY <1>3, <2>1, FS_Subset
  <2>3. ids \subseteq Nat
    BY <2>1, <2>2
  <2>4. QED
    BY <1>6, <2>2, <2>3, IdsEnumerated
<1>8. ErrorList(u).total = Len(rows)
  BY <1>5, <1>6 DEF ErrorList, Listed
<1>9. Len(rows) = Cardinality(ids)
  BY <1>7, ListRows DEF Enumerates
<1>10. QED
  BY <1>1, <1>3, <1>8, <1>9 DEF ErrorSummary

\* The logs that other services write.
LEMMA LogsAreCovered == LogsCovered
<1> SUFFICES ASSUME NEW q \in AskedQueries
             PROVE  /\ PagesCover(AdminToolCallList, q)
                    /\ LET List(p) == ErrorList(Normalized(p)) IN PagesCover(List, q)
                    /\ Cardinality(RAGRows(q)) = 1 =>
                        LET rows == CHOOSE s \in RAGRows(q) : TRUE
                            List(p) == AdminRAGQueries(p, rows)
                        IN  PagesCover(List, q)
                    /\ ErrorSummary = ErrorList([Normalized(q) EXCEPT !.flag = "false", !.category = NoText,
                                                                      !.start = 0, !.end = 0]).total
  BY DEF LogsCovered
<1>1. AskedOK(q)
  BY AskedAssumption DEF AskedOK
<1>2. PagesCover(AdminToolCallList, q)
  BY <1>1, ToolCallsCovered
<1>3. LET List(p) == ErrorList(Normalized(p)) IN PagesCover(List, q)
  BY <1>1, ErrorsCovered DEF ErrorPages
<1>4. ASSUME Cardinality(RAGRows(q)) = 1, NEW rows, rows = CHOOSE s \in RAGRows(q) : TRUE
      PROVE  PagesCover(LAMBDA p : AdminRAGQueries(p, rows), q)
  <2>1. RAGRows(q) # {}
    BY <1>4, FS_EmptySet
  <2>2. rows \in RAGRows(q)
    BY <1>4, <2>1
  <2>3. QED
    BY <1>1, <2>2, RAGCovered
<1>5. Cardinality(RAGRows(q)) = 1 =>
          LET rows == CHOOSE s \in RAGRows(q) : TRUE
              List(p) == AdminRAGQueries(p, rows)
          IN  PagesCover(List, q)
  BY <1>4 DEF PagesCover
<1>6. ErrorSummary = ErrorList([Normalized(q) EXCEPT !.flag = "false", !.category = NoText,
                                                     !.start = 0, !.end = 0]).total
  BY <1>1, ErrorsCounted
<1>7. QED
  BY <1>2, <1>3, <1>5, <1>6

----------------------------------------------------------------------------
(***************************************************************************)
(* Users and rooms: the figures of a page and those of the details.        *)
(***************************************************************************)
MembersOK == IsFiniteSet(members) /\ members \subseteq Rooms \X Users

\* The users that a query selects.
UserIds(q) ==
    {u \in Users : /\ WantedKeyword(q, u, UserRow[u].prefixes)
                   /\ WantedCode(q.role, users[u].role)
                   /\ WantedCode(q.status, users[u].status)
                   /\ InWindow(q, UserRow[u].created)}

\* Another page of the same query is taken from the same users.
LEMMA SameUsers ==
    ASSUME NEW q, NEW t, SameFilter(q, t)
    PROVE  UserIds(t) = UserIds(q)
<1>1. /\ t.keyword = q.keyword /\ t.keywordId = q.keywordId /\ t.role = q.role /\ t.status = q.status
      /\ t.start = q.start /\ t.end = q.end
  BY DEF SameFilter, FilterFields, QueryFields
<1>2. QED
  BY <1>1 DEF UserIds, WantedKeyword, InWindow

\* What a page of ids shows of a user.
UserItem(ids, u) ==
    [id |-> u, role |-> users[u].role, status |-> users[u].status,
     online |-> u \in CheckUsersOnline(ids),
     rooms |-> Lookup(countUserRoomsByIDs(ids), u),
     violations |-> Lookup(countUserViolationsByIDs(ids), u)]

\* The grouped counts are the single ones.
LEMMA UserShown ==
    ASSUME NEW ids, NEW u \in ids
    PROVE  UserItem(ids, u) = GetUserDetail(u)
<1>1. Lookup(countUserRoomsByIDs(ids), u) = countUserRooms(u)
  <2>1. PICK counts : counts = countUserRoomsByIDs(ids)
    OBVIOUS
  <2>2. counts = [x \in {m[2] : m \in members} \cap ids |-> Cardinality({m \in members : m[2] = x})]
    BY <2>1 DEF countUserRoomsByIDs, GroupCount
  <2>3. CASE u \in {m[2] : m \in members}
    BY <2>1, <2>2, <2>3 DEF Lookup, countUserRooms
  <2>4. CASE u \notin {m[2] : m \in members}
    <3>1. {m \in members : m[2] = u} = {}
      BY <2>4
    <3>2. u \notin DOMAIN counts
      BY <2>2, <2>4
    <3>3. QED
      BY <2>1, <3>1, <3>2, FS_EmptySet DEF Lookup, countUserRooms
  <2>5. QED
    BY <2>3, <2>4
<1>2. Lookup(countUserViolationsByIDs(ids), u) = countUserViolations(u)
  <2>1. PICK counts : counts = countUserViolationsByIDs(ids)
    OBVIOUS
  <2>2. counts = [x \in {events[e].user : e \in DOMAIN events} \cap ids |->
                    Cardinality({e \in DOMAIN events : events[e].user = x})]
    BY <2>1 DEF countUserViolationsByIDs, GroupCount
  <2>3. countUserViolations(u) = Cardinality({e \in DOMAIN events : events[e].user = u})
    BY DEF countUserViolations, EventsWith
  <2>4. CASE u \in {events[e].user : e \in DOMAIN events}
    BY <2>1, <2>2, <2>3, <2>4 DEF Lookup
  <2>5. CASE u \notin {events[e].user : e \in DOMAIN events}
    <3>1. {e \in DOMAIN events : events[e].user = u} = {}
      BY <2>5
    <3>2. u \notin DOMAIN counts
      BY <2>2, <2>5
    <3>3. QED
      BY <2>1, <2>3, <3>1, <3>2, FS_EmptySet DEF Lookup
  <2>6. QED
    BY <2>4, <2>5
<1>3. (u \in CheckUsersOnline(ids)) = CheckUserOnline(u)
  BY DEF CheckUsersOnline, CheckUserOnline
<1>4. PICK o : o = CheckUserOnline(u)
  OBVIOUS
<1>5. (u \in CheckUsersOnline(ids)) = o
  BY <1>3, <1>4
<1>6. UserItem(ids, u) = [id |-> u, role |-> users[u].role, status |-> users[u].status, online |-> o,
                          rooms |-> countUserRooms(u), violations |-> countUserViolations(u)]
  BY <1>1, <1>2, <1>5 DEF UserItem
<1>7. GetUserDetail(u) = [id |-> u, role |-> users[u].role, status |-> users[u].status, online |-> o,
                          rooms |-> countUserRooms(u), violations |-> countUserViolations(u)]
  BY <1>4 DEF GetUserDetail
<1>8. QED
  BY <1>6, <1>7

\* A page of users.
LEMMA UserPage ==
    ASSUME NEW t, AskedOK(t), NEW ids, ids = UserIds(t), NEW rows, rows = ByIdDesc(ids),
           NEW n, n = Cardinality(ids), NEW f, f = [u \in Users |-> GetUserDetail(u)],
           NEW all, all = Through(f, rows)
    PROVE  /\ n \in Nat /\ Distinct(all, n)
           /\ \A i \in 1..n : rows[i] \in Users
           /\ ShowsPage(AdminUserList(t), all, n, t)
<1>1. IsFiniteSet(ids) /\ ids \subseteq Users /\ ids \subseteq Nat
  <2>1. IsFiniteSet(Users) /\ Users \subseteq Nat
    BY QueriesAssumption
  <2>2. ids \subseteq Users
    BY DEF UserIds
  <2>3. QED
    BY <2>1, <2>2, FS_Subset
<1>2. Enumerates(rows, ids)
  BY <1>1, IdsEnumerated
<1>3. n \in Nat /\ IsList(rows, n) /\ \A i \in 1..n : rows[i] \in Users
  BY <1>1, <1>2 DEF Enumerates
<1>4. \A i, j \in 1..n : rows[i] = rows[j] => i = j
  BY <1>2 DEF Enumerates
<1>5. PICK u : u = Normalized(t)
  OBVIOUS
<1>6. UserIds(u) = ids
  <2>1. SameFilter(t, u)
    BY <1>5, NormalQuery
  <2>2. QED
    BY <2>1, SameUsers
<1>7. PICK size \in Nat \ {0}, page \in Nat \ {0} : size = normalSize(t.size) /\ page = normalPage(t.page)
  BY NormalQuery
<1>8. PICK listed : listed = Listed(rows, u)
  OBVIOUS
<1>9. listed.items = PageOf(rows, n, size, page) /\ listed.total = n
  BY <1>2, <1>5, <1>7, <1>8, ListedShows DEF ShowsPage
<1>10. PICK items : items = listed.items
  OBVIOUS
<1>11. AdminUserList(t) = [items |-> [i \in DOMAIN items |-> UserItem(ToSet(items), items[i])], total |-> n]
  BY <1>5, <1>6, <1>8, <1>9, <1>10 DEF AdminUserList, ListUsers, UserIds, UserItem
<1>12. ASSUME NEW i \in DOMAIN items PROVE UserItem(ToSet(items), items[i]) = f[items[i]]
  <2>1. items[i] \in ToSet(items)
    BY DEF ToSet
  <2>2. PICK j \in 1..n : items[i] = rows[j]
    BY <1>3, <1>9, <1>10, PageRows
  <2>3. items[i] \in Users
    BY <1>3, <2>2
  <2>4. QED
    BY <2>1, <2>3, UserShown
<1>13. [i \in DOMAIN items |-> UserItem(ToSet(items), items[i])] = PageOf(all, n, size, page)
  <2>1. Through(f, items) = PageOf(all, n, size, page)
    BY <1>3, <1>9, <1>10, MappedPage
  <2>2. QED
    BY <1>12, <2>1 DEF Through
<1>14. PICK shown : shown = PageOf(all, n, size, page)
  OBVIOUS
<1>15. AdminUserList(t) = [items |-> shown, total |-> n]
  BY <1>11, <1>13, <1>14
<1>16. ShowsPage(AdminUserList(t), all, n, t)
  BY <1>7, <1>14, <1>15 DEF ShowsPage
<1>17. Distinct(all, n)
  <2>0. DOMAIN rows = 1..n
    BY <1>3, ListRows
  <2>1. IsList(all, n)
    BY <2>0 DEF IsList, Through
  <2>2. \A u1 \in Users : f[u1].id = u1
    BY DEF GetUserDetail
  <2>3. \A i \in 1..n : all[i].id = rows[i]
    BY <1>3, <2>0, <2>2 DEF Through
  <2>4. \A i, j \in 1..n : all[i] = all[j] => i = j
    BY <1>4, <2>3
  <2>5. QED
    BY <2>1, <2>4 DEF Distinct
<1>18. QED
  BY <1>3, <1>16, <1>17

\* The pages of the users.
LEMMA UsersCovered ==
    ASSUME NEW q, AskedOK(q)
    PROVE  PagesCover(AdminUserList, q)
<1>1. PICK ids, f : ids = UserIds(q) /\ f = [x \in Users |-> GetUserDetail(x)]
  OBVIOUS
<1>2. PICK rows, n : rows = ByIdDesc(ids) /\ n = Cardinality(ids)
  OBVIOUS
<1>3. PICK all : all = Through(f, rows)
  OBVIOUS
<1>4. n \in Nat /\ Distinct(all, n)
  BY <1>1, <1>2, <1>3, UserPage
<1>5. ASSUME NEW t, AskedOK(t), SameFilter(q, t)
      PROVE  ShowsPage(AdminUserList(t), all, n, t)
  <2>1. ids = UserIds(t)
    BY <1>1, <1>5, SameUsers
  <2>2. QED
    BY <1>1, <1>2, <1>3, <1>5, <2>1, UserPage
<1>6. PICK first, pages : /\ first = AdminUserList(q)
                          /\ pages = [p \in Nat \ {0} |-> AdminUserList([q EXCEPT !.page = p])]
  OBVIOUS
<1>7. ShowsPage(first, all, n, q)
  BY <1>5, <1>6 DEF SameFilter
<1>8. ASSUME NEW p \in Nat \ {0} PROVE ShowsPage(pages[p], all, n, [q EXCEPT !.page = p])
  <2>1. PICK t : t = [q EXCEPT !.page = p]
    OBVIOUS
  <2>2. AskedOK(t) /\ SameFilter(q, t)
    BY <2>1, OtherPage
  <2>3. ShowsPage(AdminUserList(t), all, n, t)
    BY <1>5, <2>2
  <2>4. QED
    BY <1>6, <2>1, <2>3
<1>9. PICK seqs : seqs = [p \in 1..((first.total \div normalSize(q.size)) + 1) |-> pages[p].items]
  OBVIOUS
<1>10. PagesShown(pages, all, n, q)
  BY <1>8 DEF PagesShown
<1>11. Len(FlattenSeq(seqs)) = first.total /\ IsInjective(FlattenSeq(seqs))
  BY <1>4, <1>7, <1>9, <1>10, ListCovered
<1>12. seqs = [p \in 1..((first.total \div normalSize(q.size)) + 1) |-> AdminUserList([q EXCEPT !.page = p]).items]
  <2>1. first.total \in Nat /\ normalSize(q.size) \in Nat \ {0}
    BY <1>4, <1>7, NormalQuery DEF ShowsPage
  <2>2. 1..((first.total \div normalSize(q.size)) + 1) \subseteq Nat \ {0}
    BY <2>1
  <2>3. QED
    BY <1>6, <1>9, <2>2
<1>13. QED
  BY <1>6, <1>11, <1>12 DEF PagesCover

\* The rooms of a user that are not deleted are among all the user's rooms.
LEMMA LiveRooms ==
    ASSUME MembersOK, NEW u
    PROVE  Cardinality(userRooms(u)) <= countUserRooms(u)
<1>1. PICK M, R : M = {m \in members : m[2] = u} /\ R = userRooms(u)
  OBVIOUS
<1>2. IsFiniteSet(M)
  BY <1>1, FS_Subset DEF MembersOK
<1>3. PICK f : f = [g \in R |-> <<g, u>>]
  OBVIOUS
<1>4. \A g \in R : <<g, u>> \in M
  BY <1>1 DEF userRooms
<1>5. f \in Injection(R, M)
  BY <1>3, <1>4 DEF Injection, IsInjective
<1>6. Cardinality(R) <= Cardinality(M)
  BY <1>2, <1>5, FS_Injection
<1>7. QED
  BY <1>1, <1>6 DEF countUserRooms

\* What a page shows of a user is what the details say.
LEMMA UsersAgree ==
    ASSUME MembersOK, NEW q, AskedOK(q), NEW items, items = AdminUserList(q).items, NEW i \in DOMAIN items
    PROVE  /\ items[i] = AdminUserDetail(items[i].id)
           /\ Cardinality(userRooms(items[i].id)) <= items[i].rooms
<1>1. PICK ids, f : ids = UserIds(q) /\ f = [x \in Users |-> GetUserDetail(x)]
  OBVIOUS
<1>2. PICK rows, n : rows = ByIdDesc(ids) /\ n = Cardinality(ids)
  OBVIOUS
<1>3. PICK all : all = Through(f, rows)
  OBVIOUS
<1>4. n \in Nat /\ Distinct(all, n) /\ (\A j \in 1..n : rows[j] \in Users) /\ ShowsPage(AdminUserList(q), all, n, q)
  BY <1>1, <1>2, <1>3, UserPage
<1>5. PICK size \in Nat \ {0}, page \in Nat \ {0} : size = normalSize(q.size) /\ page = normalPage(q.page)
  BY NormalQuery
<1>6. items = PageOf(all, n, size, page)
  BY <1>4, <1>5 DEF ShowsPage
<1>7. PICK j \in 1..n : items[i] = all[j]
  BY <1>4, <1>6, PageRows
<1>8. DOMAIN all = 1..n
  BY <1>4, ListRows DEF Distinct
<1>9. PICK u \in Users : u = rows[j] /\ all[j] = f[u]
  BY <1>3, <1>4, <1>8 DEF Through
<1>10. PICK detail : detail = GetUserDetail(u)
  OBVIOUS
<1>11. items[i] = detail
  BY <1>1, <1>7, <1>9, <1>10
<1>12. detail.id = u /\ detail.rooms = countUserRooms(u)
  BY <1>10 DEF GetUserDetail
<1>13. AdminUserDetail(u) = detail
  BY <1>9, <1>10 DEF AdminUserDetail
<1>14. Cardinality(userRooms(u)) <= countUserRooms(u)
  BY LiveRooms
<1>15. QED
  BY <1>11, <1>12, <1>13, <1>14

\* The rooms that a query selects.
RoomIds(q) ==
    {g \in Rooms : /\ ~RoomRow[g].deleted
                   /\ WantedKeyword(q, g, RoomRow[g].prefixes)
                   /\ WantedId(q.type, RoomRow[g].type)
                   /\ WantedFlag(q.flag, RoomRow[g].agentEnabled)
                   /\ WantedCode(q.status, RoomRow[g].status)
                   /\ InWindow(q, RoomRow[g].created)}

\* Another page of the same query is taken from the same rooms.
LEMMA SameRooms ==
    ASSUME NEW q, NEW t, SameFilter(q, t)
    PROVE  RoomIds(t) = RoomIds(q)
<1>1. /\ t.keyword = q.keyword /\ t.keywordId = q.keywordId /\ t.type = q.type /\ t.flag = q.flag
      /\ t.status = q.status /\ t.start = q.start /\ t.end = q.end
  BY DEF SameFilter, FilterFields, QueryFields
<1>2. QED
  BY <1>1 DEF RoomIds, WantedKeyword, InWindow

\* What a page of ids shows of a room.
RoomItem(ids, g) ==
    [id |-> g, members |-> Lookup(countMembersByIDs(ids), g),
     online |-> Lookup(onlineMemberCounts(ids), g),
     violations |-> Lookup(countRoomViolationsByIDs(ids), g)]

\* The members of a room who are online, as rows and as items.
LEMMA OnlineItems ==
    ASSUME MembersOK, NEW g
    PROVE  countOnlineMembers(g) = Cardinality({m \in members : m[1] = g /\ CheckUserOnline(m[2])})
<1>1. PICK M : M = {m \in members : m[1] = g /\ CheckUserOnline(m[2])}
  OBVIOUS
<1>2. PICK I : I = {item \in roomMembers(g) : item.online}
  OBVIOUS
<1>3. IsFiniteSet(M)
  BY <1>1, FS_Subset DEF MembersOK
<1>4. PICK item : item = [m \in members |-> [user |-> m[2], online |-> CheckUserOnline(m[2])]]
  OBVIOUS
<1>5. ASSUME NEW m \in members PROVE item[m].user = m[2] /\ item[m].online = CheckUserOnline(m[2])
  BY <1>4
<1>6. I = {item[m] : m \in M}
  <2>1. roomMembers(g) = {item[m] : m \in {n \in members : n[1] = g}}
    BY <1>4 DEF roomMembers
  <2>2. ASSUME NEW m \in members PROVE item[m].online <=> CheckUserOnline(m[2])
    BY <1>5
  <2>3. QED
    BY <1>1, <1>2, <2>1, <2>2
<1>7. PICK h : h = [m \in M |-> item[m]]
  OBVIOUS
<1>8. \A m \in M : m \in members /\ m = <<g, m[2]>>
  BY <1>1 DEF MembersOK
<1>9. \A m, n \in M : item[m] = item[n] => m = n
  BY <1>5, <1>8
<1>10. h \in Bijection(M, I)
  <2>1. h \in Injection(M, I)
    BY <1>6, <1>7, <1>9 DEF Injection, IsInjective
  <2>2. h \in Surjection(M, I)
    BY <1>6, <1>7 DEF Surjection
  <2>3. QED
    BY <2>1, <2>2 DEF Bijection
<1>11. Cardinality(I) = Cardinality(M)
  BY <1>3, <1>10, FS_Bijection DEF ExistsBijection
<1>12. QED
  BY <1>1, <1>2, <1>11 DEF countOnlineMembers

\* The grouped counts are the single ones.
LEMMA RoomShown ==
    ASSUME MembersOK, NEW ids, NEW g \in ids
    PROVE  RoomItem(ids, g) = GetRoomDetail(g)
<1>1. Lookup(countMembersByIDs(ids), g) = countMembers(g)
  <2>1. PICK counts : counts = countMembersByIDs(ids)
    OBVIOUS
  <2>2. counts = [x \in {m[1] : m \in members} \cap ids |-> Cardinality({m \in members : m[1] = x})]
    BY <2>1 DEF countMembersByIDs, GroupCount
  <2>3. CASE g \in {m[1] : m \in members}
    BY <2>1, <2>2, <2>3 DEF Lookup, countMembers
  <2>4. CASE g \notin {m[1] : m \in members}
    <3>1. {m \in members : m[1] = g} = {}
      BY <2>4
    <3>2. g \notin DOMAIN counts
      BY <2>2, <2>4
    <3>3. QED
      BY <2>1, <3>1, <3>2, FS_EmptySet DEF Lookup, countMembers
  <2>5. QED
    BY <2>3, <2>4
<1>2. Lookup(countRoomViolationsByIDs(ids), g) = countRoomViolations(g)
  <2>1. PICK counts, D : counts = countRoomViolationsByIDs(ids) /\ D = {e \in DOMAIN events : events[e].created >= Today}
    OBVIOUS
  <2>2. counts = [x \in {events[e].room : e \in D} \cap ids |-> Cardinality({e \in D : events[e].room = x})]
    BY <2>1 DEF countRoomViolationsByIDs, GroupCount, EventsWith
  <2>3. countRoomViolations(g) = Cardinality({e \in D : events[e].room = g})
    <3>1. {e \in DOMAIN events : events[e].created >= Today /\ events[e].room = g} = {e \in D : events[e].room = g}
      BY <2>1
    <3>2. QED
      BY <3>1 DEF countRoomViolations, CountToday, EventsWith
  <2>4. CASE g \in {events[e].room : e \in D}
    BY <2>1, <2>2, <2>3, <2>4 DEF Lookup
  <2>5. CASE g \notin {events[e].room : e \in D}
    <3>1. {e \in D : events[e].room = g} = {}
      BY <2>5
    <3>2. g \notin DOMAIN counts
      BY <2>2, <2>5
    <3>3. QED
      BY <2>1, <2>3, <3>1, <3>2, FS_EmptySet DEF Lookup
  <2>6. QED
    BY <2>4, <2>5
<1>3. Lookup(onlineMemberCounts(ids), g) = countOnlineMembers(g)
  <2>1. PICK counts, D : counts = onlineMemberCounts(ids) /\ D = {m \in members : m[1] \in ids /\ CheckUserOnline(m[2])}
    OBVIOUS
  <2>2. {m \in {n \in members : n[1] \in ids} :
            m[2] \in CheckUsersOnline({n[2] : n \in {k \in members : k[1] \in ids}})} = D
    BY <2>1 DEF CheckUsersOnline
  <2>3. counts = [x \in {m[1] : m \in D} \cap ids |-> Cardinality({m \in D : m[1] = x})]
    BY <2>1, <2>2 DEF onlineMemberCounts, GroupCount
  <2>4. countOnlineMembers(g) = Cardinality({m \in D : m[1] = g})
    <3>1. {m \in D : m[1] = g} = {m \in members : m[1] = g /\ CheckUserOnline(m[2])}
      BY <2>1
    <3>2. QED
      BY <3>1, OnlineItems
  <2>5. CASE g \in {m[1] : m \in D}
    BY <2>1, <2>3, <2>4, <2>5 DEF Lookup
  <2>6. CASE g \notin {m[1] : m \in D}
    <3>1. {m \in D : m[1] = g} = {}
      BY <2>6
    <3>2. g \notin DOMAIN counts
      BY <2>3, <2>6
    <3>3. QED
      BY <2>1, <2>4, <3>1, <3>2, FS_EmptySet DEF Lookup
  <2>7. QED
    BY <2>5, <2>6
<1>4. QED
  BY <1>1, <1>2, <1>3 DEF RoomItem, GetRoomDetail

\* A page of rooms.
LEMMA RoomPage ==
    ASSUME MembersOK, NEW t, AskedOK(t), NEW ids, ids = RoomIds(t), NEW rows, rows = ByIdDesc(ids),
           NEW n, n = Cardinality(ids), NEW f, f = [u \in Rooms |-> GetRoomDetail(u)],
           NEW all, all = Through(f, rows)
    PROVE  /\ n \in Nat /\ Distinct(all, n)
           /\ \A i \in 1..n : rows[i] \in ids
           /\ ShowsPage(AdminRoomList(t), all, n, t)
<1>1. IsFiniteSet(ids) /\ ids \subseteq Rooms /\ ids \subseteq Nat
  <2>1. IsFiniteSet(Rooms) /\ Rooms \subseteq Nat
    BY QueriesAssumption
  <2>2. ids \subseteq Rooms
    BY DEF RoomIds
  <2>3. QED
    BY <2>1, <2>2, FS_Subset
<1>2. Enumerates(rows, ids)
  BY <1>1, IdsEnumerated
<1>3. n \in Nat /\ IsList(rows, n) /\ \A i \in 1..n : rows[i] \in Rooms
  BY <1>1, <1>2 DEF Enumerates
<1>4. \A i, j \in 1..n : rows[i] = rows[j] => i = j
  BY <1>2 DEF Enumerates
<1>5. PICK u : u = Normalized(t)
  OBVIOUS
<1>6. RoomIds(u) = ids
  <2>1. SameFilter(t, u)
    BY <1>5, NormalQuery
  <2>2. QED
    BY <2>1, SameRooms
<1>7. PICK size \in Nat \ {0}, page \in Nat \ {0} : size = normalSize(t.size) /\ page = normalPage(t.page)
  BY NormalQuery
<1>8. PICK listed : listed = Listed(rows, u)
  OBVIOUS
<1>9. listed.items = PageOf(rows, n, size, page) /\ listed.total = n
  BY <1>2, <1>5, <1>7, <1>8, ListedShows DEF ShowsPage
<1>10. PICK items : items = listed.items
  OBVIOUS
<1>11. AdminRoomList(t) = [items |-> [i \in DOMAIN items |-> RoomItem(ToSet(items), items[i])], total |-> n]
  BY <1>5, <1>6, <1>8, <1>9, <1>10 DEF AdminRoomList, ListRooms, RoomIds, RoomItem
<1>12. ASSUME NEW i \in DOMAIN items PROVE RoomItem(ToSet(items), items[i]) = f[items[i]]
  <2>1. items[i] \in ToSet(items)
    BY DEF ToSet
  <2>2. PICK j \in 1..n : items[i] = rows[j]
    BY <1>3, <1>9, <1>10, PageRows
  <2>3. items[i] \in Rooms
    BY <1>3, <2>2
  <2>4. QED
    BY <2>1, <2>3, RoomShown
<1>13. [i \in DOMAIN items |-> RoomItem(ToSet(items), items[i])] = PageOf(all, n, size, page)
  <2>1. Through(f, items) = PageOf(all, n, size, page)
    BY <1>3, <1>9, <1>10, MappedPage
  <2>2. QED
    BY <1>12, <2>1 DEF Through
<1>14. PICK shown : shown = PageOf(all, n, size, page)
  OBVIOUS
<1>15. AdminRoomList(t) = [items |-> shown, total |-> n]
  BY <1>11, <1>13, <1>14
<1>16. ShowsPage(AdminRoomList(t), all, n, t)
  BY <1>7, <1>14, <1>15 DEF ShowsPage
<1>17. Distinct(all, n)
  <2>0. DOMAIN rows = 1..n
    BY <1>3, ListRows
  <2>1. IsList(all, n)
    BY <2>0 DEF IsList, Through
  <2>2. \A g1 \in Rooms : f[g1].id = g1
    BY DEF GetRoomDetail
  <2>3. \A i \in 1..n : all[i].id = rows[i]
    BY <1>3, <2>0, <2>2 DEF Through
  <2>4. \A i, j \in 1..n : all[i] = all[j] => i = j
    BY <1>4, <2>3
  <2>5. QED
    BY <2>1, <2>4 DEF Distinct
<1>18. \A i \in 1..n : rows[i] \in ids
  BY <1>2 DEF Enumerates
<1>19. QED
  BY <1>3, <1>16, <1>17, <1>18

\* The pages of the rooms.
LEMMA RoomsCovered ==
    ASSUME MembersOK, NEW q, AskedOK(q)
    PROVE  PagesCover(AdminRoomList, q)
<1>1. PICK ids, f : ids = RoomIds(q) /\ f = [x \in Rooms |-> GetRoomDetail(x)]
  OBVIOUS
<1>2. PICK rows, n : rows = ByIdDesc(ids) /\ n = Cardinality(ids)
  OBVIOUS
<1>3. PICK all : all = Through(f, rows)
  OBVIOUS
<1>4. n \in Nat /\ Distinct(all, n)
  BY <1>1, <1>2, <1>3, RoomPage
<1>5. ASSUME NEW t, AskedOK(t), SameFilter(q, t)
      PROVE  ShowsPage(AdminRoomList(t), all, n, t)
  <2>1. ids = RoomIds(t)
    BY <1>1, <1>5, SameRooms
  <2>2. QED
    BY <1>1, <1>2, <1>3, <1>5, <2>1, RoomPage
<1>6. PICK first, pages : /\ first = AdminRoomList(q)
                          /\ pages = [p \in Nat \ {0} |-> AdminRoomList([q EXCEPT !.page = p])]
  OBVIOUS
<1>7. ShowsPage(first, all, n, q)
  BY <1>5, <1>6 DEF SameFilter
<1>8. ASSUME NEW p \in Nat \ {0} PROVE ShowsPage(pages[p], all, n, [q EXCEPT !.page = p])
  <2>1. PICK t : t = [q EXCEPT !.page = p]
    OBVIOUS
  <2>2. AskedOK(t) /\ SameFilter(q, t)
    BY <2>1, OtherPage
  <2>3. ShowsPage(AdminRoomList(t), all, n, t)
    BY <1>5, <2>2
  <2>4. QED
    BY <1>6, <2>1, <2>3
<1>9. PICK seqs : seqs = [p \in 1..((first.total \div normalSize(q.size)) + 1) |-> pages[p].items]
  OBVIOUS
<1>10. PagesShown(pages, all, n, q)
  BY <1>8 DEF PagesShown
<1>11. Len(FlattenSeq(seqs)) = first.total /\ IsInjective(FlattenSeq(seqs))
  BY <1>4, <1>7, <1>9, <1>10, ListCovered
<1>12. seqs = [p \in 1..((first.total \div normalSize(q.size)) + 1) |-> AdminRoomList([q EXCEPT !.page = p]).items]
  <2>1. first.total \in Nat /\ normalSize(q.size) \in Nat \ {0}
    BY <1>4, <1>7, NormalQuery DEF ShowsPage
  <2>2. 1..((first.total \div normalSize(q.size)) + 1) \subseteq Nat \ {0}
    BY <2>1
  <2>3. QED
    BY <1>6, <1>9, <2>2
<1>13. QED
  BY <1>6, <1>11, <1>12 DEF PagesCover

\* What a page shows of a room is what the details say.
LEMMA RoomsAgree ==
    ASSUME MembersOK, NEW q, AskedOK(q), NEW items, items = AdminRoomList(q).items, NEW i \in DOMAIN items
    PROVE  items[i] = AdminRoomDetail(items[i].id)
<1>1. PICK ids, f : ids = RoomIds(q) /\ f = [x \in Rooms |-> GetRoomDetail(x)]
  OBVIOUS
<1>2. PICK rows, n : rows = ByIdDesc(ids) /\ n = Cardinality(ids)
  OBVIOUS
<1>3. PICK all : all = Through(f, rows)
  OBVIOUS
<1>4. n \in Nat /\ Distinct(all, n) /\ (\A j \in 1..n : rows[j] \in ids) /\ ShowsPage(AdminRoomList(q), all, n, q)
  BY <1>1, <1>2, <1>3, RoomPage
<1>5. PICK size \in Nat \ {0}, page \in Nat \ {0} : size = normalSize(q.size) /\ page = normalPage(q.page)
  BY NormalQuery
<1>6. items = PageOf(all, n, size, page)
  BY <1>4, <1>5 DEF ShowsPage
<1>7. PICK j \in 1..n : items[i] = all[j]
  BY <1>4, <1>6, PageRows
<1>8. DOMAIN all = 1..n
  BY <1>4, ListRows DEF Distinct
<1>9. PICK g \in ids : g = rows[j] /\ all[j] = f[g]
  BY <1>3, <1>4, <1>8 DEF Through
<1>10. g \in Rooms /\ ~RoomRow[g].deleted
  BY <1>1 DEF RoomIds
<1>11. PICK detail : detail = GetRoomDetail(g)
  OBVIOUS
<1>12. items[i] = detail
  BY <1>1, <1>7, <1>9, <1>10, <1>11
<1>13. detail.id = g
  BY <1>11 DEF GetRoomDetail
<1>14. AdminRoomDetail(g) = detail
  BY <1>10, <1>11 DEF AdminRoomDetail
<1>15. QED
  BY <1>12, <1>13, <1>14

----------------------------------------------------------------------------
(***************************************************************************)
(* Files and events: what a list shows is found.                           *)
(***************************************************************************)
\* The files that a query selects.
FileIds(q) ==
    {rec.id : rec \in {records[k] : k \in {j \in DOMAIN records :
                /\ WantedId(q.user, records[j].uploader)
                /\ WantedId(q.room, records[j].room)
                /\ WantedText(q.fileStatus, records[j].status)}}}

\* Another page of the same query is taken from the same files.
LEMMA SameFiles ==
    ASSUME NEW q, NEW t, SameFilter(q, t)
    PROVE  FileIds(t) = FileIds(q)
<1>1. t.user = q.user /\ t.room = q.room /\ t.fileStatus = q.fileStatus
  BY DEF SameFilter, FilterFields, QueryFields
<1>2. QED
  BY <1>1 DEF FileIds

KnownIds == {records[k].id : k \in DOMAIN records}

\* Ids are given out once and counted.
LEMMA FileIdsCounted ==
    ASSUME RecordsInv, NEW q
    PROVE  IsFiniteSet(FileIds(q)) /\ FileIds(q) \subseteq Nat /\ FileIds(q) \subseteq KnownIds
<1>1. FileIds(q) \subseteq KnownIds
  BY DEF FileIds, KnownIds
<1>2. lastFileId \in Nat
  BY DEF RecordsInv
<1>3. \A k \in DOMAIN records : records[k].id \in 1..lastFileId
  BY DEF RecordsInv, SoundRow
<1>4. KnownIds \subseteq 1..lastFileId
  BY <1>3 DEF KnownIds
<1>5. IsFiniteSet(1..lastFileId) /\ 1..lastFileId \subseteq Nat
  BY <1>2, FS_Interval
<1>6. FileIds(q) \in SUBSET (1..lastFileId)
  BY <1>1, <1>4
<1>7. IsFiniteSet(FileIds(q))
  BY <1>5, <1>6, FS_Subset
<1>8. QED
  BY <1>1, <1>5, <1>6, <1>7

\* Who looks for a listed id finds its record.
LEMMA FileFound ==
    ASSUME NEW id \in KnownIds
    PROVE  FileById(id) \in DOMAIN records /\ records[FileById(id)].id = id
BY DEF FileById, KnownIds

\* What a page shows of a file, with the names that were read for the whole page.
FileItem(ids, id) ==
    LET rows == {records[FileById(d)] : d \in ids}
        rec == records[FileById(id)]
    IN  FileListItem(id, NameIn(usernames({row.uploader : row \in rows}), rec.uploader),
                     NameIn(roomNames({row.room : row \in rows} \ {0}), rec.room))

\* The names that were read for the page are those that the details read.
LEMMA FileShown ==
    ASSUME NEW ids, NEW id \in ids, id \in KnownIds
    PROVE  FileItem(ids, id) = GetFile(id)
<1>1. PICK rec, rows : rec = records[FileById(id)] /\ rows = {records[FileById(d)] : d \in ids}
  OBVIOUS
<1>2. rec \in rows
  BY <1>1
<1>3. NameIn(usernames({row.uploader : row \in rows}), rec.uploader) = username(rec.uploader)
  <2>1. PICK given, names : given = {row.uploader : row \in rows} /\ names = usernames(given)
    OBVIOUS
  <2>2. names = [u \in given \cap Users |-> UserRow[u].name]
    BY <2>1 DEF usernames
  <2>3. rec.uploader \in given
    BY <1>2, <2>1
  <2>4. NameIn(names, rec.uploader) = username(rec.uploader)
    BY <2>2, <2>3 DEF NameIn, username
  <2>5. QED
    BY <2>1, <2>4
<1>4. NameIn(roomNames({row.room : row \in rows} \ {0}), rec.room) = roomName(rec.room)
  <2>1. PICK given, names : given = {row.room : row \in rows} \ {0} /\ names = roomNames(given)
    OBVIOUS
  <2>2. names = [g \in {h \in given \cap Rooms : ~RoomRow[h].deleted} |-> RoomRow[g].name]
    BY <2>1 DEF roomNames
  <2>3. rec.room = 0 \/ rec.room \in given
    BY <1>2, <2>1
  <2>4. 0 \notin Rooms /\ 0 \notin given
    BY <2>1, QueriesAssumption
  <2>5. NameIn(names, rec.room) = roomName(rec.room)
    BY <2>2, <2>3, <2>4 DEF NameIn, roomName
  <2>6. QED
    BY <2>1, <2>5
<1>5. FileItem(ids, id) = FileListItem(id, username(rec.uploader), roomName(rec.room))
  BY <1>1, <1>3, <1>4 DEF FileItem
<1>6. \E k \in DOMAIN records : records[k].id = id
  BY DEF KnownIds
<1>7. GetFile(id) = FileListItem(id, username(rec.uploader), roomName(rec.room))
  BY <1>1, <1>6 DEF GetFile
<1>8. QED
  BY <1>5, <1>7

\* A file that is shown is one.
LEMMA FileGiven ==
    ASSUME NEW id \in KnownIds
    PROVE  GetFile(id).id = id /\ GetFile(id) # NotFound
<1>1. PICK rec : rec = records[FileById(id)]
  OBVIOUS
<1>2. PICK key, by, in, there, no : /\ key = FileById(id) /\ by = username(rec.uploader)
                                    /\ in = roomName(rec.room) /\ there = objectExists(FileById(id)) /\ no = FALSE
  OBVIOUS
<1>3. PICK item : item = [id |-> id, key |-> key, uploader |-> by, room |-> in, exists |-> there, hasMessage |-> no]
  OBVIOUS
<1>4. \E k \in DOMAIN records : records[k].id = id
  BY DEF KnownIds
<1>5. GetFile(id) = FileListItem(id, by, in)
  BY <1>1, <1>2, <1>4 DEF GetFile
<1>6. FileListItem(id, by, in) = item
  BY <1>2, <1>3 DEF FileListItem
<1>7. item.id = id /\ "id" \in DOMAIN item
  BY <1>3
<1>8. DOMAIN NotFound = {}
  BY DEF NotFound
<1>9. QED
  BY <1>5, <1>6, <1>7, <1>8

\* A page of files.
LEMMA FilePage ==
    ASSUME RecordsInv, NEW t, AskedOK(t), NEW ids, ids = FileIds(t), NEW rows, rows = ByIdDesc(ids),
           NEW n, n = Cardinality(ids), NEW f, f = [u \in KnownIds |-> GetFile(u)],
           NEW all, all = Through(f, rows)
    PROVE  /\ n \in Nat /\ Distinct(all, n)
           /\ \A i \in 1..n : rows[i] \in KnownIds
           /\ ShowsPage(AdminFileList(t), all, n, t)
<1>1. IsFiniteSet(ids) /\ ids \subseteq KnownIds /\ ids \subseteq Nat
  BY FileIdsCounted
<1>2. Enumerates(rows, ids)
  BY <1>1, IdsEnumerated
<1>3. n \in Nat /\ IsList(rows, n) /\ \A i \in 1..n : rows[i] \in KnownIds
  BY <1>1, <1>2 DEF Enumerates
<1>4. \A i, j \in 1..n : rows[i] = rows[j] => i = j
  BY <1>2 DEF Enumerates
<1>5. PICK u : u = Normalized(t)
  OBVIOUS
<1>6. FileIds(u) = ids
  <2>1. SameFilter(t, u)
    BY <1>5, NormalQuery
  <2>2. QED
    BY <2>1, SameFiles
<1>7. PICK size \in Nat \ {0}, page \in Nat \ {0} : size = normalSize(t.size) /\ page = normalPage(t.page)
  BY NormalQuery
<1>8. PICK listed : listed = Listed(rows, u)
  OBVIOUS
<1>9. listed.items = PageOf(rows, n, size, page) /\ listed.total = n
  BY <1>2, <1>5, <1>7, <1>8, ListedShows DEF ShowsPage
<1>10. PICK items : items = listed.items
  OBVIOUS
<1>11. AdminFileList(t) = [items |-> [i \in DOMAIN items |-> FileItem(ToSet(items), items[i])], total |-> n]
  <2>1. PICK shown : shown = [i \in DOMAIN items |-> FileItem(ToSet(items), items[i])]
    OBVIOUS
  <2>2. ListFiles(u) = [listed EXCEPT !.items = shown]
    <3>1. Listed(ByIdDesc(FileIds(u)), u) = listed
      BY <1>6, <1>8
    <3>2. ListFiles(u) = LET l == Listed(ByIdDesc(FileIds(u)), u)
                         IN  [l EXCEPT !.items = [i \in DOMAIN l.items |-> FileItem(ToSet(l.items), l.items[i])]]
      BY DEF ListFiles, FileIds, FileItem
    <3>3. QED
      BY <1>10, <2>1, <3>1, <3>2
  <2>3. listed = [items |-> items, total |-> n]
    <3>1. PICK first, count : first = Page(rows, u.page, u.size) /\ count = Len(rows)
      OBVIOUS
    <3>2. listed = [items |-> first, total |-> count]
      BY <1>8, <3>1 DEF Listed
    <3>3. QED
      BY <1>9, <1>10, <3>2
  <2>4. [listed EXCEPT !.items = shown] = [items |-> shown, total |-> n]
    BY <2>3
  <2>5. QED
    BY <1>5, <2>1, <2>2, <2>4 DEF AdminFileList
<1>12. ASSUME NEW i \in DOMAIN items PROVE FileItem(ToSet(items), items[i]) = f[items[i]]
  <2>1. items[i] \in ToSet(items)
    BY DEF ToSet
  <2>2. PICK j \in 1..n : items[i] = rows[j]
    BY <1>3, <1>9, <1>10, PageRows
  <2>3. items[i] \in KnownIds
    BY <1>3, <2>2
  <2>4. QED
    BY <2>1, <2>3, FileShown
<1>13. [i \in DOMAIN items |-> FileItem(ToSet(items), items[i])] = PageOf(all, n, size, page)
  <2>1. Through(f, items) = PageOf(all, n, size, page)
    BY <1>3, <1>9, <1>10, MappedPage
  <2>2. QED
    BY <1>12, <2>1 DEF Through
<1>14. PICK shown : shown = PageOf(all, n, size, page)
  OBVIOUS
<1>15. AdminFileList(t) = [items |-> shown, total |-> n]
  BY <1>11, <1>13, <1>14
<1>16. ShowsPage(AdminFileList(t), all, n, t)
  BY <1>7, <1>14, <1>15 DEF ShowsPage
<1>17. Distinct(all, n)
  <2>0. DOMAIN rows = 1..n
    BY <1>3, ListRows
  <2>1. IsList(all, n)
    BY <2>0 DEF IsList, Through
  <2>2. \A id1 \in KnownIds : f[id1].id = id1
    BY FileGiven
  <2>3. \A i \in 1..n : all[i].id = rows[i]
    BY <1>3, <2>0, <2>2 DEF Through
  <2>4. \A i, j \in 1..n : all[i] = all[j] => i = j
    BY <1>4, <2>3
  <2>5. QED
    BY <2>1, <2>4 DEF Distinct
<1>18. QED
  BY <1>3, <1>16, <1>17

\* The pages of the files.
LEMMA FilesCovered ==
    ASSUME RecordsInv, NEW q, AskedOK(q)
    PROVE  PagesCover(AdminFileList, q)
<1>1. PICK ids, f : ids = FileIds(q) /\ f = [x \in KnownIds |-> GetFile(x)]
  OBVIOUS
<1>2. PICK rows, n : rows = ByIdDesc(ids) /\ n = Cardinality(ids)
  OBVIOUS
<1>3. PICK all : all = Through(f, rows)
  OBVIOUS
<1>4. n \in Nat /\ Distinct(all, n)
  BY <1>1, <1>2, <1>3, FilePage
<1>5. ASSUME NEW t, AskedOK(t), SameFilter(q, t)
      PROVE  ShowsPage(AdminFileList(t), all, n, t)
  <2>1. ids = FileIds(t)
    BY <1>1, <1>5, SameFiles
  <2>2. QED
    BY <1>1, <1>2, <1>3, <1>5, <2>1, FilePage
<1>6. PICK first, pages : /\ first = AdminFileList(q)
                          /\ pages = [p \in Nat \ {0} |-> AdminFileList([q EXCEPT !.page = p])]
  OBVIOUS
<1>7. ShowsPage(first, all, n, q)
  BY <1>5, <1>6 DEF SameFilter
<1>8. ASSUME NEW p \in Nat \ {0} PROVE ShowsPage(pages[p], all, n, [q EXCEPT !.page = p])
  <2>1. PICK t : t = [q EXCEPT !.page = p]
    OBVIOUS
  <2>2. AskedOK(t) /\ SameFilter(q, t)
    BY <2>1, OtherPage
  <2>3. ShowsPage(AdminFileList(t), all, n, t)
    BY <1>5, <2>2
  <2>4. QED
    BY <1>6, <2>1, <2>3
<1>9. PICK seqs : seqs = [p \in 1..((first.total \div normalSize(q.size)) + 1) |-> pages[p].items]
  OBVIOUS
<1>10. PagesShown(pages, all, n, q)
  BY <1>8 DEF PagesShown
<1>11. Len(FlattenSeq(seqs)) = first.total /\ IsInjective(FlattenSeq(seqs))
  BY <1>4, <1>7, <1>9, <1>10, ListCovered
<1>12. seqs = [p \in 1..((first.total \div normalSize(q.size)) + 1) |-> AdminFileList([q EXCEPT !.page = p]).items]
  <2>1. first.total \in Nat /\ normalSize(q.size) \in Nat \ {0}
    BY <1>4, <1>7, NormalQuery DEF ShowsPage
  <2>2. 1..((first.total \div normalSize(q.size)) + 1) \subseteq Nat \ {0}
    BY <2>1
  <2>3. QED
    BY <1>6, <1>9, <2>2
<1>13. QED
  BY <1>6, <1>11, <1>12 DEF PagesCover

\* What a page shows of a file is what the details say, and it can be fetched.
LEMMA FilesAgree ==
    ASSUME RecordsInv, NEW q, AskedOK(q), NEW item \in ToSet(AdminFileList(q).items)
    PROVE  AdminFileDetail(item.id) = item /\ AdminFileDownload(item.id) = "url"
<1>1. PICK ids, f : ids = FileIds(q) /\ f = [x \in KnownIds |-> GetFile(x)]
  OBVIOUS
<1>2. PICK rows, n : rows = ByIdDesc(ids) /\ n = Cardinality(ids)
  OBVIOUS
<1>3. PICK all : all = Through(f, rows)
  OBVIOUS
<1>4. n \in Nat /\ Distinct(all, n) /\ (\A j \in 1..n : rows[j] \in KnownIds) /\ ShowsPage(AdminFileList(q), all, n, q)
  BY <1>1, <1>2, <1>3, FilePage
<1>5. PICK size \in Nat \ {0}, page \in Nat \ {0} : size = normalSize(q.size) /\ page = normalPage(q.page)
  BY NormalQuery
<1>6. PICK items : items = AdminFileList(q).items
  OBVIOUS
<1>7. items = PageOf(all, n, size, page)
  BY <1>4, <1>5, <1>6 DEF ShowsPage
<1>8. PICK i \in DOMAIN items : item = items[i]
  <2>1. item \in {items[i] : i \in DOMAIN items}
    BY <1>6 DEF ToSet
  <2>2. QED
    BY <2>1
<1>9. PICK j \in 1..n : items[i] = all[j]
  BY <1>4, <1>7, PageRows
<1>10. DOMAIN all = 1..n
  BY <1>4, ListRows DEF Distinct
<1>11. PICK id \in KnownIds : id = rows[j] /\ all[j] = f[id]
  BY <1>3, <1>4, <1>10 DEF Through
<1>12. item = GetFile(id)
  BY <1>1, <1>8, <1>9, <1>11
<1>13. GetFile(id).id = id /\ GetFile(id) # NotFound
  BY FileGiven
<1>14. QED
  BY <1>12, <1>13 DEF AdminFileDetail, AdminFileDownload

\* A listed event is found.
LEMMA EventsFound ==
    ASSUME IsFiniteSet(DOMAIN events), NEW q, NEW rows \in EventRows(q), NEW e \in ToSet(rows)
    PROVE  AdminModerationDetail(e) # NotFound
<1>1. PICK ids : ids = EventsWith(LAMBDA row : /\ WantedId(q.user, row.user)
                                               /\ WantedId(q.room, row.room)
                                               /\ WantedText(q.category, row.category)
                                               /\ WantedText(q.penalty, row.penalty)
                                               /\ InWindow(q, row.created))
  OBVIOUS
<1>2. rows \in SetToSeqs(ids)
  BY <1>1 DEF EventRows, ByTimeDesc
<1>3. ids \subseteq DOMAIN events
  BY <1>1 DEF EventsWith
<1>4. IsFiniteSet(ids)
  BY <1>3, FS_Subset
<1>5. Enumerates(rows, ids)
  BY <1>2, <1>4, TimesEnumerated
<1>6. PICK n \in Nat : n = Cardinality(ids)
  BY <1>5 DEF Enumerates
<1>7. DOMAIN rows = 1..n /\ \A i \in 1..n : rows[i] \in ids
  BY <1>5, <1>6, ListRows DEF Enumerates
<1>8. e \in DOMAIN events
  <2>1. e \in {rows[i] : i \in DOMAIN rows}
    BY DEF ToSet
  <2>2. QED
    BY <1>3, <1>7, <2>1
<1>9. PICK item : item = moderationItem(events[e])
  OBVIOUS
<1>10. "penalty" \in DOMAIN item
  BY <1>9 DEF moderationItem
<1>11. DOMAIN NotFound = {}
  BY DEF NotFound
<1>12. AdminModerationDetail(e) = item
  BY <1>8, <1>9 DEF AdminModerationDetail, GetEvent
<1>13. QED
  BY <1>10, <1>11, <1>12

----------------------------------------------------------------------------
(***************************************************************************)
(* The lists and the details.                                              *)
(***************************************************************************)
QueriesInv == MembersOK /\ ReviewInv /\ FilesInv /\ ConfigInv /\ TrailInv

\* No request changes the members.
LEMMA MembersKept ==
    ASSUME MembersOK, [AdminNext]_vars
    PROVE  MembersOK'
<1>1. members' = members
  BY DEF AdminNext, StartWalk, NextPage, vars
<1>2. QED
  BY <1>1 DEF MembersOK

\* The members that are there at first are members of rooms.
LEMMA QueriesInit == AdminInit => QueriesInv
<1> SUFFICES ASSUME AdminInit PROVE QueriesInv
  OBVIOUS
<1>1. members \in Memberships \/ members = {}
  BY DEF AdminInit
<1>2. MembersOK
  BY <1>1, AskedAssumption, FS_EmptySet DEF MembersOK
<1>3. QED
  BY <1>2, ReviewInit, FilesInit0, ConfigInit0, TrailInit DEF QueriesInv

\* Every step keeps what the lists rest on.
LEMMA QueriesStep ==
    ASSUME QueriesInv, [AdminNext]_vars
    PROVE  QueriesInv'
<1>1. MembersOK /\ ReviewInv /\ FilesInv /\ ConfigInv /\ TrailInv
  BY DEF QueriesInv
<1>2. MembersOK'
  BY <1>1, MembersKept
<1>3. ReviewInv'
  BY <1>1, ReviewStep
<1>4. FilesInv'
  BY <1>1, FilesStep
<1>5. ConfigInv'
  BY <1>1, ConfigStep
<1>6. TrailInv'
  BY <1>1, TrailStep
<1>7. QED
  BY <1>2, <1>3, <1>4, <1>5, <1>6 DEF QueriesInv

\* Every list and every detail reads the same tables.
LEMMA QueriesFollow == QueriesInv => QueriesAgree
<1> SUFFICES ASSUME QueriesInv PROVE QueriesAgree
  OBVIOUS
<1>1. /\ MembersOK /\ RecordsInv /\ ConfigInv /\ LogOK
      /\ IsFiniteSet(DOMAIN events)
  BY DEF QueriesInv, ReviewInv, FilesInv
<1>2. \A q \in AskedQueries : AskedOK(q)
  BY AskedAssumption DEF AskedOK
<1>3. ASSUME NEW q \in AskedQueries
      PROVE  /\ PagesCover(AdminUserList, q) /\ PagesCover(AdminRoomList, q)
             /\ \A i \in DOMAIN AdminUserList(q).items :
                 /\ AdminUserList(q).items[i] = AdminUserDetail(AdminUserList(q).items[i].id)
                 /\ Cardinality(userRooms(AdminUserList(q).items[i].id)) <= AdminUserList(q).items[i].rooms
             /\ \A i \in DOMAIN AdminRoomList(q).items :
                 AdminRoomList(q).items[i] = AdminRoomDetail(AdminRoomList(q).items[i].id)
             /\ Cardinality(EventRows(q)) = 1 =>
                 PagesCover(LAMBDA p : AdminModerationList(p, CHOOSE rows \in EventRows(q) : TRUE), q)
             /\ \A e \in UNION {ToSet(rows) : rows \in EventRows(q)} : AdminModerationDetail(e) # NotFound
  <2>1. AskedOK(q)
    BY <1>2
  <2>2. PagesCover(AdminUserList, q)
    BY <2>1, UsersCovered
  <2>3. PagesCover(AdminRoomList, q)
    BY <1>1, <2>1, RoomsCovered
  <2>4. PICK userItems : userItems = AdminUserList(q).items
    OBVIOUS
  <2>5. \A i \in DOMAIN userItems :
          /\ userItems[i] = AdminUserDetail(userItems[i].id)
          /\ Cardinality(userRooms(userItems[i].id)) <= userItems[i].rooms
    BY <1>1, <2>1, <2>4, UsersAgree
  <2>6. PICK roomItems : roomItems = AdminRoomList(q).items
    OBVIOUS
  <2>7. \A i \in DOMAIN roomItems : roomItems[i] = AdminRoomDetail(roomItems[i].id)
    BY <1>1, <2>1, <2>6, RoomsAgree
  <2>8. ASSUME Cardinality(EventRows(q)) = 1, NEW rows, rows = CHOOSE s \in EventRows(q) : TRUE
        PROVE  PagesCover(LAMBDA p : AdminModerationList(p, rows), q)
    <3>1. EventRows(q) # {}
      BY <2>8, FS_EmptySet
    <3>2. rows \in EventRows(q)
      BY <2>8, <3>1
    <3>3. QED
      BY <1>1, <2>1, <3>2, EventsCovered
  <2>9. ASSUME NEW e \in UNION {ToSet(rows) : rows \in EventRows(q)}
        PROVE  AdminModerationDetail(e) # NotFound
    <3>1. PICK rows \in EventRows(q) : e \in ToSet(rows)
      OBVIOUS
    <3>2. QED
      BY <1>1, <3>1, EventsFound
  <2>10. Cardinality(EventRows(q)) = 1 =>
            PagesCover(LAMBDA p : AdminModerationList(p, CHOOSE rows \in EventRows(q) : TRUE), q)
    BY <2>8 DEF PagesCover
  <2>11. QED
    BY <2>2, <2>3, <2>4, <2>5, <2>6, <2>7, <2>9, <2>10
<1>4. ASSUME NEW q \in AskedQueries
      PROVE  /\ PagesCover(AdminFileList, q)
             /\ \A item \in ToSet(AdminFileList(q).items) :
                 AdminFileDetail(item.id) = item /\ AdminFileDownload(item.id) = "url"
  BY <1>1, <1>2, FilesCovered, FilesAgree
<1>5. ASSUME NEW q \in AskedQueries
      PROVE  PagesCover(AdminAuditList, q) /\ PagesCover(AdminAgentConfigHistory, q)
  BY <1>1, <1>2, AuditCovered, VersionsCovered
<1>6. QED
  BY <1>3, <1>4, <1>5, LogsAreCovered DEF QueriesAgree

\* However requests interleave and whichever calls fail, the lists and the details of the
\* admin API agree: paging through a list shows every row that matches once and as many
\* as its total, the figures of a page of users or rooms are those of the details, and
\* what is listed is found.
THEOREM ListsAgree == AdminSpec => []QueriesAgree
<1>1. QueriesInv /\ [AdminNext]_vars => QueriesInv'
  BY QueriesStep
<1>2. QED
  BY <1>1, QueriesInit, QueriesFollow, PTL DEF AdminSpec
=============================================================================
