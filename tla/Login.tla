------------------------------- MODULE Login -------------------------------
(***************************************************************************)
(* Registration and login: LoginProtector                                  *)
(* (services/auth/security/login_protector.go) with its fixed windows and  *)
(* its bcrypt slots, LoginHandler and RegisterHandler                      *)
(* (gateway/handlers/auth_handler.go), AdminLogin                          *)
(* (admin/api/admin_auth.go), and the tokens and roles that the HTTP       *)
(* middleware checks.                                                      *)
(*                                                                         *)
(* Each request is an attempt.  A step is a call that holds p.mu, a query, *)
(* or a step of the goroutine that compares the password: it goes on when  *)
(* the request has timed out.                                              *)
(***************************************************************************)
EXTENDS Integers, FiniteSets

CONSTANTS
    Attempts,              \* requests, numbered in the order of their arrival
    Endpoints,             \* a subset of {"login", "admin_login", "register"}
    Ips,
    Spellings,             \* user names as they are typed
    Normal,                \* Normal[s]: s in lower case; for the protector and for the
                           \* collation of the users table
    Accounts,              \* initial accounts: a function from normal names to roles
    IPLimit, IPWindow, PairLimit, PairWindow, BcryptConcurrent,  \* Config
    TokenLife,             \* validity of a token (24 hours)
    MaxTime                \* bound: the clock stops here

ASSUME LoginAssumption ==
    /\ {IPLimit, IPWindow, PairLimit, PairWindow, BcryptConcurrent, TokenLife} \subseteq Nat \ {0}
    /\ MaxTime \in Nat
    /\ DOMAIN Normal = Spellings
    /\ \A s \in Spellings : Normal[s] \in Spellings /\ Normal[Normal[s]] = Normal[s]
    /\ Endpoints \subseteq {"login", "admin_login", "register"}

RoleUser == 0
RoleSuperAdmin == 1
RoleModerator == 2
RoleOperator == 3

VARIABLES
    now,
    ips, pairs,   \* per protector: windows of addresses and of pairs with a user name
    nextGC,       \* per protector
    slots,        \* per protector: len(slots)
    running,      \* attempts whose goroutine is comparing a password
    compared,     \* attempts whose goroutine has left its result in the channel
    users,        \* the users table: the role of each name
    attempt,      \* the state of each request
    tokens        \* tokens that were issued

vars == <<now, ips, pairs, nextGC, slots, running, compared, users, attempt, tokens>>
limiter == <<ips, pairs, nextGC>>

NoWindow == [start |-> -1, count |-> 0]
Names == {Normal[s] : s \in Spellings}

Request(pc, e, ip, spelling, verdict) ==
    [pc |-> pc, endpoint |-> e, ip |-> ip, name |-> spelling, at |-> now, verdict |-> verdict,
     role |-> RoleUser]
Idle == [pc |-> "idle"]

\* The next request to arrive.
Arrives(a) == attempt[a] = Idle /\ \A b \in Attempts : b < a => attempt[b] # Idle

Init ==
    /\ now = 0
    /\ ips = [e \in Endpoints |-> [ip \in Ips |-> NoWindow]]
    /\ pairs = [e \in Endpoints |-> [p \in Ips \X Names |-> NoWindow]]
    /\ nextGC = [e \in Endpoints |-> 0]
    /\ slots = [e \in Endpoints |-> 0]
    /\ running = {} /\ compared = {}
    /\ users = Accounts
    /\ attempt = [a \in Attempts |-> Idle]
    /\ tokens = {}

-----------------------------------------------------------------------------
(* LoginProtector.Allow                                                    *)

\* A window that has never been used or is over starts again; the attempt counts.
incrementWindow(w, window) ==
    IF w = NoWindow \/ now - w.start >= window THEN [start |-> now, count |-> 1]
                                               ELSE [w EXCEPT !.count = @ + 1]

\* A faulty cleanup that uses the window of the addresses for the pairs, too.
cleanupOneWindow(windows, window) ==
    [k \in DOMAIN windows |->
        IF now - windows[k].start >= IPWindow THEN NoWindow ELSE windows[k]]

cleanupLocked(windows, window) ==
    [k \in DOMAIN windows |->
        IF now - windows[k].start >= window THEN NoWindow ELSE windows[k]]

\* The windows after the collection that is due once the shorter window is over.
Cleaned(e, windows, window) ==
    IF now >= nextGC[e] THEN cleanupLocked(windows, window) ELSE windows

MinWindow == IF IPWindow < PairWindow THEN IPWindow ELSE PairWindow

\* The pair is counted only when the address is within its limit.
Allow(a, e, ip, spelling) ==
    LET name == Normal[spelling]
        ipsNow == Cleaned(e, ips[e], IPWindow)
        pairsNow == Cleaned(e, pairs[e], PairWindow)
        ipState == incrementWindow(ipsNow[ip], IPWindow)
        pairState == incrementWindow(pairsNow[<<ip, name>>], PairWindow)
        verdict == IF ipState.count > IPLimit THEN "ip"
                   ELSE IF pairState.count > PairLimit THEN "pair" ELSE "allowed"
    IN  /\ Arrives(a)
        /\ e # "register"
        /\ nextGC' = [nextGC EXCEPT ![e] = IF now >= @ THEN now + MinWindow ELSE @]
        /\ ips' = [ips EXCEPT ![e] = [ipsNow EXCEPT ![ip] = ipState]]
        /\ pairs' = [pairs EXCEPT ![e] =
                IF verdict = "ip" THEN pairsNow ELSE [pairsNow EXCEPT ![<<ip, name>>] = pairState]]
        /\ attempt' = [attempt EXCEPT ![a] =
                Request(IF verdict = "allowed" THEN "lookup" ELSE "answered", e, ip, spelling, verdict)]
        /\ UNCHANGED <<now, slots, running, compared, users, tokens>>

-----------------------------------------------------------------------------
(* LoginProtector.Compare                                                  *)

At(a, pc) == attempt[a] # Idle /\ attempt[a].pc = pc
Goto(a, pc) == attempt' = [attempt EXCEPT ![a].pc = pc]
Answer(a) == Goto(a, "answered")

\* A slot for the comparison, or ErrBcryptBusy, or the deadline.
Compare(a) ==
    LET e == attempt[a].endpoint
    IN  /\ At(a, "compare")
        /\ \/ /\ slots[e] < BcryptConcurrent
              /\ slots' = [slots EXCEPT ![e] = @ + 1]
              /\ running' = running \cup {a}
              /\ Goto(a, "wait")
           \/ /\ slots[e] = BcryptConcurrent
              /\ Answer(a)
              /\ UNCHANGED <<slots, running>>
        /\ UNCHANGED <<now, limiter, compared, users, tokens>>

\* The goroutine ends: it leaves its result, which nobody takes after the deadline, and
\* releases the slot.
BcryptEnds(a) ==
    /\ a \in running
    /\ running' = running \ {a}
    /\ compared' = IF At(a, "wait") THEN compared \cup {a} ELSE compared
    /\ slots' = [slots EXCEPT ![attempt[a].endpoint] = @ - 1]
    /\ UNCHANGED <<now, limiter, users, attempt, tokens>>

\* A faulty Compare that waits for the result alone.
TimeoutInQuery(a) ==
    /\ At(a, "lookup")
    /\ Answer(a)
    /\ UNCHANGED <<now, limiter, slots, running, compared, users, tokens>>

\* The context's deadline passes, in the query or in Compare; the goroutine goes on.
Timeout(a) ==
    /\ At(a, "lookup") \/ At(a, "compare") \/ At(a, "wait")
    /\ Answer(a)
    /\ compared' = compared \ {a}
    /\ UNCHANGED <<now, limiter, slots, running, users, tokens>>

-----------------------------------------------------------------------------
(* The handlers                                                            *)

\* The row, as it is when it is read; without one the credentials are invalid.
GetByUsername(a) ==
    /\ At(a, "lookup")
    /\ IF Normal[attempt[a].name] \in DOMAIN users
       THEN attempt' = [attempt EXCEPT ![a].pc = "compare",
                                       ![a].role = users[Normal[attempt[a].name]]]
       ELSE Answer(a)
    /\ UNCHANGED <<now, limiter, slots, running, compared, users, tokens>>

IsAdminRole(role) == role \in {RoleSuperAdmin, RoleModerator, RoleOperator}

GenerateToken(name, role) == [name |-> name, role |-> role, expires |-> now + TokenLife]

\* LoginHandler serves users, AdminLogin administrators.
MayEnter(e, role) == IF e = "login" THEN role = RoleUser ELSE IsAdminRole(role)

\* The password was right or wrong.  The role is the one that was read before the
\* comparison.
Authenticated(a, right) ==
    LET r == attempt[a]
    IN  /\ At(a, "wait") /\ a \in compared
        /\ tokens' = IF right /\ MayEnter(r.endpoint, r.role)
                     THEN tokens \cup {GenerateToken(Normal[r.name], r.role)} ELSE tokens
        /\ Answer(a)
        /\ compared' = compared \ {a}
        /\ UNCHANGED <<now, limiter, slots, running, users>>

\* The user name is looked up, then the row is written.
RegisterHandler(a, spelling) ==
    /\ Arrives(a)
    /\ "register" \in Endpoints
    /\ attempt' = [attempt EXCEPT ![a] =
            Request(IF Normal[spelling] \in DOMAIN users THEN "answered" ELSE "create",
                    "register", CHOOSE ip \in Ips : TRUE, spelling, "none")]
    /\ UNCHANGED <<now, limiter, slots, running, compared, users, tokens>>

\* The unique index of users.username refuses a name that was taken in between.
CreateUser(a) ==
    LET name == Normal[attempt[a].name]
    IN  /\ At(a, "create")
        /\ users' = IF name \in DOMAIN users THEN users
                    ELSE [n \in DOMAIN users \cup {name} |->
                            IF n = name THEN RoleUser ELSE users[n]]
        /\ Answer(a)
        /\ UNCHANGED <<now, limiter, slots, running, compared, tokens>>

Tick ==
    /\ now < MaxTime
    /\ now' = now + 1
    /\ UNCHANGED <<limiter, slots, running, compared, users, attempt, tokens>>

Handler(a) ==
    \/ GetByUsername(a)
    \/ Compare(a)
    \/ \E right \in BOOLEAN : Authenticated(a, right)
    \/ CreateUser(a)

Next ==
    \/ \E a \in Attempts :
        \/ \E e \in Endpoints, ip \in Ips, spelling \in Spellings : Allow(a, e, ip, spelling)
        \/ \E spelling \in Spellings : RegisterHandler(a, spelling)
        \/ Handler(a)
        \/ Timeout(a)
        \/ BcryptEnds(a)
    \/ Tick

Spec == Init /\ [][Next]_vars

\* A handler's goroutine runs on and its deadline comes; a comparison may take for ever.
Fairness == \A a \in Attempts : WF_vars(Handler(a)) /\ WF_vars(Timeout(a))

FairSpec == Spec /\ Fairness

-----------------------------------------------------------------------------
(* Properties                                                              *)

TypeOK ==
    /\ now \in 0..MaxTime
    /\ slots \in [Endpoints -> 0..BcryptConcurrent]
    /\ running \subseteq Attempts /\ compared \subseteq Attempts

Started == {a \in Attempts : attempt[a] # Idle}
Counted(e, ip) == {a \in Started : attempt[a].endpoint = e /\ attempt[a].ip = ip}
CountedPair(e, ip, n) ==
    {a \in Counted(e, ip) : Normal[attempt[a].name] = n /\ attempt[a].verdict # "ip"}
During(S, from, length) == {a \in S : from <= attempt[a].at /\ attempt[a].at < from + length}

\* In no period as long as a window more than twice the limit passes, although windows
\* start anew and are collected in between, whatever spelling is used; and who is
\* refused has used up the limit within the last window: the collection never forgets
\* attempts early and never keeps an old window.
RateLimited ==
    \A e \in Endpoints \ {"register"}, ip \in Ips, n \in Names, t \in 0..MaxTime :
        /\ Cardinality({a \in During(CountedPair(e, ip, n), t, PairWindow) :
                            attempt[a].verdict = "allowed"}) <= 2 * PairLimit
        /\ Cardinality({a \in During(Counted(e, ip), t, IPWindow) :
                            attempt[a].verdict # "ip"}) <= 2 * IPLimit
        /\ \A a \in CountedPair(e, ip, n) : attempt[a].verdict = "pair" =>
                Cardinality(During(CountedPair(e, ip, n), attempt[a].at - PairWindow + 1, PairWindow))
                    > PairLimit
        /\ \A a \in Counted(e, ip) : attempt[a].verdict = "ip" =>
                Cardinality(During(Counted(e, ip), attempt[a].at - IPWindow + 1, IPWindow)) > IPLimit

\* However many requests have timed out and left their comparison behind, at most
\* BcryptConcurrent comparisons of a protector run at once.
BcryptBounded ==
    \A e \in Endpoints :
        Cardinality({a \in running : attempt[a].endpoint = e}) <= BcryptConcurrent

\* Both limits of LoginProtector hold for every order of requests, timeouts and
\* collections: no period as long as a window sees more attempts of an address or an
\* account than two windows allow, nobody is refused for attempts that are over, and no
\* more passwords are compared at once than there are slots, abandoned ones included.
LimitsHold == RateLimited /\ BcryptBounded

\* Every request is answered, also when all slots are taken by comparisons that do
\* not end.
LoginAnswered == \A a \in Attempts : attempt[a] # Idle ~> At(a, "answered")
=============================================================================
