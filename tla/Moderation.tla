----------------------------- MODULE Moderation -----------------------------
(***************************************************************************)
(* ModerationService (admin/application/moderation_dashboard.go) and its   *)
(* handlers (admin/api/admin_moderation.go): the review of the events that *)
(* the Agent service writes, and the figures the dashboard shows.          *)
(***************************************************************************)
EXTENDS AdminRequests, FiniteSetsExt

CONSTANTS
    EventIds,           \* ids of moderation_events, a set of numbers
    EventRow,           \* EventRow[e]: what the Agent service writes
    ModerationActions,  \* the actions that are requested
    Today               \* startOfDay of the present

ASSUME ModerationAssumption ==
    /\ EventIds \subseteq Nat \ {0}
    /\ \A e \in EventIds :
        EventRow[e] \in [user : Nat, room : Nat, category : STRING, result : STRING,
                         created : Nat, toolFailed : BOOLEAN,
                         penalty : {"none", "warned", "muted", "kicked", "banned"},
                         review : {"pending"}]

VARIABLES
    events,       \* moderation_events: a function on the ids of the rows
    overlapped    \* history: events with overlapping requests or with a failed call

moderationVars == <<events, overlapped>>

ModerationInit == events = [e \in {} |-> {}] /\ overlapped = {}

-----------------------------------------------------------------------------
(* Events and their review                                                 *)

\* The Agent service inserts a row.
CreateEvent(e) ==
    /\ e \notin DOMAIN events
    /\ events' = [d \in DOMAIN events \cup {e} |-> IF d = e THEN EventRow[e] ELSE events[d]]
    /\ UNCHANGED <<overlapped, requestVars>>

\* The cases of the switch; any other action is refused.
ReviewActions == {"warn", "mute", "kick", "ban", "revoke", "false_positive", "confirmed"}

penaltyOf(action) ==
    CASE action = "warn" -> "warned" [] action = "mute" -> "muted"
      [] action = "kick" -> "kicked" [] action = "ban" -> "banned"

\* A faulty switch that leaves the penalty when it is revoked.
ReviewedKeepsPenalty(event, action) ==
    CASE action \in {"warn", "mute", "kick", "ban"} ->
            [event EXCEPT !.penalty = penaltyOf(action), !.review = "reviewed"]
      [] action = "revoke" -> [event EXCEPT !.review = "revoked"]
      [] action = "false_positive" -> [event EXCEPT !.penalty = "none", !.review = "false_positive"]
      [] action = "confirmed" -> [event EXCEPT !.review = "confirmed"]

\* "confirmed" leaves the penalty as it is.
Reviewed(event, action) ==
    CASE action \in {"warn", "mute", "kick", "ban"} ->
            [event EXCEPT !.penalty = penaltyOf(action), !.review = "reviewed"]
      [] action = "revoke" -> [event EXCEPT !.penalty = "none", !.review = "revoked"]
      [] action = "false_positive" -> [event EXCEPT !.penalty = "none", !.review = "false_positive"]
      [] action = "confirmed" -> [event EXCEPT !.review = "confirmed"]

\* What the API and the audit show of a row.
moderationItem(event) ==
    [penalty |-> event.penalty, review |-> event.review, category |-> event.category]

OnEvent(r, e) == r \in Busy /\ "event" \in DOMAIN req[r] /\ req[r].event = e

\* First; an unknown event and an unknown action end the request.
AdminModerationAction(r, role, e, action) ==
    /\ IF Admits(role, {"moderation.review"}) /\ e \in DOMAIN events /\ action \in ReviewActions
       THEN /\ Begin(r, [pc |-> "event.save", event |-> e, action |-> action, before |-> events[e]])
            /\ overlapped' = IF \E q \in Requests : OnEvent(q, e)
                             THEN overlapped \cup {e} ELSE overlapped
       ELSE BeginAndEnd(r) /\ UNCHANGED overlapped
    /\ UNCHANGED events

\* Save writes the whole row.
SaveEvent(r) ==
    LET q == req[r]
    IN  /\ At(r, "event.save")
        /\ \/ /\ events' = [events EXCEPT ![q.event] = Reviewed(q.before, q.action)]
              /\ Goto(r, "event.audit")
           \/ Fails(r) /\ UNCHANGED events
        /\ UNCHANGED overlapped

auditEvent(r) ==
    LET q == req[r]
    IN  /\ At(r, "event.audit")
        /\ Log(r, AuditEntry("moderation_event", q.event, q.action, moderationItem(q.before),
                             moderationItem(Reviewed(q.before, q.action))))
        /\ overlapped' = IF faults' # faults THEN overlapped \cup {q.event} ELSE overlapped
        /\ UNCHANGED events

ModerationNext ==
    \/ \E e \in EventIds : CreateEvent(e)
    \/ \E r \in Requests :
        \/ \E role \in Roles, e \in EventIds, action \in ModerationActions :
            AdminModerationAction(r, role, e, action)
        \/ SaveEvent(r) \/ auditEvent(r)

-----------------------------------------------------------------------------
(* Figures                                                                 *)

EventsWith(Cond(_)) == {e \in DOMAIN events : Cond(events[e])}
CountToday(Cond(_)) ==
    Cardinality(EventsWith(LAMBDA row : row.created >= Today /\ Cond(row)))

\* One aggregate query over the events of today; the rate follows from the first two.
Overview ==
    [reviewed |-> CountToday(LAMBDA row : TRUE),
     violations |-> CountToday(LAMBDA row : row.result # "safe"),
     pending |-> CountToday(LAMBDA row : row.review = "pending")]

Categories == {events[e].category : e \in DOMAIN events}
CategoryCount(c) == CountToday(LAMBDA row : row.category = c)

Dashboard ==
    [reviewed |-> CountToday(LAMBDA row : TRUE),
     violations |-> CountToday(LAMBDA row : row.result # "safe"),
     kicks |-> CountToday(LAMBDA row : row.penalty = "kicked"),
     bans |-> CountToday(LAMBDA row : row.penalty = "banned"),
     manualReviews |-> CountToday(LAMBDA row : row.review # "pending"),
     revoked |-> CountToday(LAMBDA row : row.review = "revoked"),
     toolFailures |-> CountToday(LAMBDA row : row.toolFailed),
     categories |-> [c \in {d \in Categories : CategoryCount(d) > 0} |-> CategoryCount(c)]]

GetEvent(e) == moderationItem(events[e])

-----------------------------------------------------------------------------
(* Properties                                                              *)

\* item is what the last entry about the event left, or what the Agent service wrote.
EventLeft(e, item) ==
    LET trail == Trail("moderation_event", e)
    IN  \/ trail = {} /\ item = moderationItem(EventRow[e])
        \/ \E i \in trail : item = audit[i].after /\ \A j \in trail : j <= i

SumOf(counts) == MapThenSumSet(LAMBDA c : counts[c], DOMAIN counts)

\* However reviews of an event overlap, its penalty and its review status belong
\* together, and the dashboard's figures split the events of today: manual reviews and
\* pending ones, and the categories, add up to their number.  The audit trail of an
\* event on which no two requests overlapped and no call failed ends at its row.
ReviewsConsistent ==
    /\ \A e \in DOMAIN events :
        /\ events[e].review \in {"revoked", "false_positive"} => events[e].penalty = "none"
        /\ events[e].review = "reviewed" => events[e].penalty # "none"
        /\ e \notin overlapped /\ (\A r \in Requests : ~OnEvent(r, e)) => EventLeft(e, GetEvent(e))
    /\ Overview.pending + Dashboard.manualReviews = Overview.reviewed
    /\ SumOf(Dashboard.categories) = Dashboard.reviewed
    /\ Dashboard.kicks + Dashboard.bans + Dashboard.revoked <= Dashboard.reviewed
=============================================================================
