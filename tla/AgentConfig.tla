---------------------------- MODULE AgentConfig ----------------------------
(***************************************************************************)
(* AgentConfigService (admin/application/agent_config_service.go) and its  *)
(* handlers (admin/api/admin_agent_config.go): the one row of the global   *)
(* Agent configuration, and the history that Rollback reads.               *)
(***************************************************************************)
EXTENDS AdminRequests, FiniteSetsExt

CONSTANTS
    FlagFields,     \* fields whose input is a pointer: nil, false or true
    ValueFields,    \* numbers and texts, for which 0 stands for "" and for 0
    Inputs          \* the inputs of Update

NoFlag == -1
Fields == FlagFields \cup ValueFields

ASSUME ConfigAssumption ==
    /\ FlagFields \cap ValueFields = {} /\ Fields # {}
    /\ \A input \in Inputs :
        /\ input \in [Fields -> Int]
        /\ \A f \in FlagFields : input[f] \in {NoFlag, 0, 1}
        /\ \A f \in ValueFields : input[f] \in Nat

VARIABLES
    config,      \* row 1 of global_agent_configs, or NoConfig
    history      \* agent_config_histories, in the order of their ids

configVars == <<config, history>>

NoConfig == <<>>

defaultGlobalAgentConfig == [f \in Fields |-> 1]

ConfigInit == config = NoConfig /\ history = <<>>

-----------------------------------------------------------------------------

\* A field is taken over if the input names it.
Given(f, value) == IF f \in FlagFields THEN value # NoFlag ELSE value > 0
Merged(cfg, input) == [f \in Fields |-> IF Given(f, input[f]) THEN input[f] ELSE cfg[f]]

\* What the request writes over the row that it has read.
Changed(q, cfg) == IF q.change = "rollback" THEN q.input ELSE Merged(cfg, q.input)

\* The request goes on with the row that getOrCreate has returned.  based counts the
\* history rows at the first read of the request; only properties use it.
Holding(q, cfg) == [pc |-> "config.save", change |-> q.change, before |-> cfg,
                    after |-> Changed(q, cfg), based |-> q.based]

\* First.  Without a row, the defaults are inserted by a second call.
getOrCreate(q) ==
    IF config # NoConfig THEN Holding(q, config) ELSE [q EXCEPT !.pc = "config.create"]

\* Get: one read, or a read and an insert.
AdminAgentConfigGet(r, role) ==
    /\ IF Admits(role, {"agent.read"}) /\ config = NoConfig
       THEN Begin(r, [pc |-> "config.create", change |-> "none"])
       ELSE BeginAndEnd(r)
    /\ UNCHANGED configVars

AdminAgentConfigUpdate(r, role, input) ==
    /\ IF Admits(role, {"agent.config"})
       THEN Begin(r, getOrCreate([pc |-> "config.read", change |-> "update",
                                  input |-> input, based |-> Len(history)]))
       ELSE BeginAndEnd(r)
    /\ UNCHANGED configVars

\* Rollback reads the latest history row first; without one it returns an error.
AdminAgentConfigRollback(r, role) ==
    /\ IF Admits(role, {"agent.config"}) /\ history # <<>>
       THEN Begin(r, [pc |-> "config.read", change |-> "rollback",
                      input |-> history[Len(history)].before, based |-> Len(history)])
       ELSE BeginAndEnd(r)
    /\ UNCHANGED configVars

ReadForRollback(r) ==
    /\ At(r, "config.read")
    /\ \/ req' = [req EXCEPT ![r] = getOrCreate(@)] /\ UNCHANGED <<served, faults, audit>>
       \/ Fails(r)
    /\ UNCHANGED configVars

\* The row has a fixed id: the second of two concurrent inserts gets an error.
CreateConfig(r) ==
    /\ At(r, "config.create")
    /\ \/ /\ config = NoConfig
          /\ config' = defaultGlobalAgentConfig
          /\ req' = [req EXCEPT ![r] = IF @.change = "none" THEN Idle ELSE Holding(@, config')]
          /\ UNCHANGED <<served, faults, audit>>
       \/ config # NoConfig /\ End(r) /\ UNCHANGED config
       \/ Fails(r) /\ UNCHANGED config
    /\ UNCHANGED history

\* A faulty version number, from the number of rows at the start of the request.
versionFromStart(q) == q.based + 1

\* The lock that Save has taken makes this read see every committed version.
nextVersion(q) == Max({h.version : h \in {history[i] : i \in 1..Len(history)}} \cup {0}) + 1

appendHistory(q) ==
    history' = Append(history, [version |-> nextVersion(q), before |-> q.before,
                                after |-> q.after, change |-> q.change, based |-> q.based])

\* The transaction: Save of every column as computed, and the history row, or neither.
SaveConfig(r) ==
    /\ At(r, "config.save")
    /\ \/ config' = req[r].after /\ appendHistory(req[r]) /\ Goto(r, "config.audit")
       \/ Fails(r) /\ UNCHANGED configVars

auditConfig(r) ==
    /\ At(r, "config.audit")
    /\ IF req[r].change = "rollback"
       THEN Log(r, AuditEntry("global_agent_config", 1, "rollback", "", ""))
       ELSE Log(r, AuditEntry("global_agent_config", 1, "update", req[r].before, req[r].after))
    /\ UNCHANGED configVars

ConfigNext ==
    \E r \in Requests :
        \/ \E role \in Roles :
            \/ AdminAgentConfigGet(r, role)
            \/ \E input \in Inputs : AdminAgentConfigUpdate(r, role, input)
            \/ AdminAgentConfigRollback(r, role)
        \/ ReadForRollback(r) \/ CreateConfig(r) \/ SaveConfig(r) \/ auditConfig(r)

-----------------------------------------------------------------------------
(* Properties                                                              *)

\* However the requests of several administrators interleave and whichever calls fail:
\* the history rows have the versions 1, 2, ... in the order of their ids; the row is
\* what the last of them says; and a change that no other one overlapped starts from
\* the state its predecessor has left, which a rollback undoes.
HistoryIntact ==
    LET last == Len(history)
        afterOf(i) == IF i = 0 THEN defaultGlobalAgentConfig ELSE history[i].after
    IN  /\ \A i \in 1..last : history[i].version = i
        /\ config = afterOf(last) \/ (config = NoConfig /\ last = 0)
        /\ \A i \in 1..last : history[i].based = i - 1 =>
            /\ history[i].before = afterOf(i - 1)
            /\ history[i].change = "rollback" => history[i].after = history[i - 1].before
=============================================================================
