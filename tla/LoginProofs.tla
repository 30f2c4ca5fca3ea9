---------------------------- MODULE LoginProofs ----------------------------
(***************************************************************************)
(* The limits of LoginProtector hold for any number of requests,           *)
(* addresses, names and slots, and for windows of any length.              *)
(***************************************************************************)
EXTENDS Login, FiniteSetTheorems, TLAPS

----------------------------------------------------------------------------
(***************************************************************************)
(* The counting of one key, an address or a pair: S are the attempts that  *)
(* were counted, T those of them that were let through, win[a] the         *)
(* beginning of the window that counted a, w the window at time n.         *)
(***************************************************************************)
\* Windows do not overlap, each lets at most limit attempts through, and w has counted
\* the attempts of the last one; without w the last one is over.
Fits(S, T, att, w, win, n, length, limit) ==
    /\ IsFiniteSet(S) /\ T \subseteq S
    /\ \A a \in S : /\ att[a].at \in Nat /\ win[a] \in Nat
                    /\ win[a] <= att[a].at /\ att[a].at < win[a] + length /\ att[a].at <= n
    /\ \A a, b \in S : win[a] = win[b] \/ win[a] + length <= win[b] \/ win[b] + length <= win[a]
    /\ \A s \in Nat : Cardinality({a \in T : win[a] = s}) <= limit
    /\ \/ w = NoWindow /\ \A a \in S : win[a] + length <= n
       \/ /\ w \in [start : Nat, count : Nat] /\ w.start <= n
          /\ w.count = Cardinality({a \in S : win[a] = w.start})
          /\ \A a \in S : win[a] = w.start \/ win[a] + length <= w.start

\* The window is collected when it is over.
LEMMA Collected ==
    ASSUME NEW S, NEW T, NEW att, NEW w, NEW win, NEW n \in Nat, NEW length \in Nat \ {0},
           NEW limit \in Nat, Fits(S, T, att, w, win, n, length, limit)
    PROVE  Fits(S, T, att, IF n - w.start >= length THEN NoWindow ELSE w, win, n, length, limit)
<1>1. CASE w = NoWindow
  <2>1. (IF n - w.start >= length THEN NoWindow ELSE w) = w
    BY <1>1
  <2>2. QED
    BY <2>1
<1>2. CASE w \in [start : Nat, count : Nat] /\ n - w.start < length
  <2>1. (IF n - w.start >= length THEN NoWindow ELSE w) = w
    BY <1>2
  <2>2. QED
    BY <2>1
<1>3. CASE w \in [start : Nat, count : Nat] /\ n - w.start >= length /\ w # NoWindow
  <2>1. (IF n - w.start >= length THEN NoWindow ELSE w) = NoWindow
    BY <1>3
  <2>2. \A a \in S : win[a] \in Nat /\ (win[a] = w.start \/ win[a] + length <= w.start)
    BY <1>3 DEF Fits
  <2>3. w.start \in Nat /\ w.start + length <= n
    BY <1>3
  <2>4. \A a \in S : win[a] + length <= n
    BY <2>2, <2>3
  <2>5. Fits(S, T, att, NoWindow, win, n, length, limit)
    BY <2>4 DEF Fits
  <2>6. QED
    BY <2>1, <2>5
<1>4. QED
  BY <1>1, <1>2, <1>3 DEF Fits

\* Time passes.
LEMMA Later ==
    ASSUME NEW S, NEW T, NEW att, NEW w, NEW win, NEW n \in Nat, NEW length \in Nat,
           NEW limit \in Nat, Fits(S, T, att, w, win, n, length, limit)
    PROVE  Fits(S, T, att, w, win, n + 1, length, limit)
<1>1. \A a \in S : att[a].at <= n + 1 /\ (win[a] + length <= n => win[a] + length <= n + 1)
  BY DEF Fits
<1>2. w \in [start : Nat, count : Nat] /\ w.start <= n => w.start <= n + 1
  OBVIOUS
<1>3. QED
  BY <1>1, <1>2 DEF Fits

\* Only the times of the attempts matter.
LEMMA SameTimes ==
    ASSUME NEW S, NEW T, NEW att, NEW w, NEW win, NEW n, NEW length, NEW limit,
           Fits(S, T, att, w, win, n, length, limit),
           NEW new, NEW newWin, \A a \in S : new[a].at = att[a].at /\ newWin[a] = win[a]
    PROVE  Fits(S, T, new, w, newWin, n, length, limit)
<1>1. T \subseteq S
  BY DEF Fits
<1>2. \A s \in Nat : {a \in T : newWin[a] = s} = {a \in T : win[a] = s}
  BY <1>1
<1>3. \A s : {a \in S : newWin[a] = s} = {a \in S : win[a] = s}
  OBVIOUS
<1>4. QED
  BY <1>2, <1>3 DEF Fits

\* The attempt a is counted in the window v that follows w; it is let through only
\* within the limit.
Counting(S, T, att, w, win, length, limit, a, v, new, newWin, U) ==
    /\ now \in Nat /\ length \in Nat \ {0} /\ limit \in Nat
    /\ Fits(S, T, att, w, win, now, length, limit)
    /\ a \notin S /\ v = incrementWindow(w, length)
    /\ new[a].at = now /\ \A b \in S : new[b].at = att[b].at
    /\ newWin[a] = v.start /\ \A b \in S : newWin[b] = win[b]
    /\ U = T \/ (U = T \cup {a} /\ v.count <= limit)

\* The window v is open and has counted its attempts among S.
Open(S, v, win, length) ==
    /\ v \in [start : Nat, count : Nat] /\ v.start + length > now
    /\ v.count = Cardinality({b \in S : win[b] = v.start})

\* The attempt fits in.
LEMMA OneMore ==
    ASSUME NEW S, NEW T, NEW att, NEW w, NEW win, NEW length, NEW limit, NEW a, NEW v, NEW new,
           NEW newWin, NEW U, Counting(S, T, att, w, win, length, limit, a, v, new, newWin, U)
    PROVE  /\ Fits(S \cup {a}, U, new, v, newWin, now, length, limit)
           /\ Open(S \cup {a}, v, newWin, length)
<1> USE DEF Counting, Open
<1>1. IsFiniteSet(S) /\ T \subseteq S /\ a \notin T
  BY DEF Fits
<1>2. PICK n \in Nat : n = now
  OBVIOUS
<1>3. \A b \in S : /\ att[b].at \in Nat /\ win[b] \in Nat /\ win[b] <= att[b].at
                   /\ att[b].at < win[b] + length /\ att[b].at <= n
  BY <1>2 DEF Fits
<1>4. /\ v \in [start : Nat, count : Nat] /\ v.start <= n /\ v.start + length > n
      /\ v.count = Cardinality({b \in S \cup {a} : newWin[b] = v.start})
      /\ \A b \in S : win[b] = v.start \/ win[b] + length <= v.start
  <2>1. CASE w = NoWindow \/ n - w.start >= length
    <3>1. v = [start |-> n, count |-> 1]
      BY <1>2, <2>1 DEF incrementWindow
    <3>2. \A b \in S : win[b] + length <= n
      <4>1. CASE w = NoWindow
        <5>1. w \notin [start : Nat, count : Nat]
          BY <4>1 DEF NoWindow
        <5>2. QED
          BY <1>2, <5>1 DEF Fits
      <4>2. CASE w # NoWindow
        <5>1. /\ w.start \in Nat /\ n - w.start >= length
              /\ \A b \in S : win[b] = w.start \/ win[b] + length <= w.start
          BY <2>1, <4>2 DEF Fits
        <5>2. QED
          BY <1>3, <5>1
      <4>3. QED
        BY <4>1, <4>2
    <3>3. \A b \in S : win[b] # n
      BY <1>3, <3>2
    <3>4. {b \in S \cup {a} : newWin[b] = v.start} = {a}
      BY <3>1, <3>3
    <3>5. Cardinality({a}) = 1
      BY FS_Singleton
    <3>6. v.start = n /\ v.count = 1 /\ v \in [start : Nat, count : Nat]
      BY <3>1
    <3>7. v.start <= n /\ v.start + length > n
      BY <3>6
    <3>8. QED
      BY <3>2, <3>4, <3>5, <3>6, <3>7
  <2>2. CASE w # NoWindow /\ n - w.start < length
    <3>1. /\ w \in [start : Nat, count : Nat] /\ w.start <= n
          /\ w.count = Cardinality({b \in S : win[b] = w.start})
          /\ \A b \in S : win[b] = w.start \/ win[b] + length <= w.start
      BY <1>2, <2>2 DEF Fits
    <3>2. v = [w EXCEPT !.count = @ + 1]
      BY <1>2, <2>2, <3>1 DEF incrementWindow
    <3>3. v = [start |-> w.start, count |-> w.count + 1]
      BY <3>1, <3>2
    <3>4. PICK C : C = {b \in S : win[b] = w.start}
      OBVIOUS
    <3>5. {b \in S \cup {a} : newWin[b] = v.start} = C \cup {a}
      BY <3>3, <3>4
    <3>6. IsFiniteSet(C) /\ a \notin C
      BY <1>1, <3>4, FS_Subset
    <3>7. Cardinality(C \cup {a}) = Cardinality(C) + 1
      BY <3>6, FS_AddElement
    <3>8. v.start = w.start /\ v.count = w.count + 1 /\ v \in [start : Nat, count : Nat]
      BY <3>1, <3>3
    <3>9. v.start <= n /\ v.start + length > n
      BY <2>2, <3>1, <3>8
    <3>10. v.count = Cardinality({b \in S \cup {a} : newWin[b] = v.start})
      BY <3>1, <3>4, <3>5, <3>7, <3>8
    <3>11. QED
      BY <3>1, <3>8, <3>9, <3>10
  <2>3. QED
    <3>1. w = NoWindow \/ w.start \in Nat
      BY DEF Fits
    <3>2. QED
      BY <2>1, <2>2, <3>1
<1>5. IsFiniteSet(S \cup {a}) /\ U \subseteq S \cup {a}
  BY <1>1, FS_AddElement
<1>6. \A b \in S \cup {a} : /\ new[b].at \in Nat /\ newWin[b] \in Nat /\ newWin[b] <= new[b].at
                            /\ new[b].at < newWin[b] + length /\ new[b].at <= n
  BY <1>2, <1>3, <1>4
<1>7. \A b, c \in S \cup {a} :
         newWin[b] = newWin[c] \/ newWin[b] + length <= newWin[c] \/ newWin[c] + length <= newWin[b]
  <2>1. \A b, c \in S : win[b] = win[c] \/ win[b] + length <= win[c] \/ win[c] + length <= win[b]
    BY DEF Fits
  <2>2. QED
    BY <1>4, <2>1
<1>8. ASSUME NEW s \in Nat PROVE Cardinality({b \in U : newWin[b] = s}) <= limit
  <2>1. CASE s # v.start \/ U = T
    <3>1. {b \in U : newWin[b] = s} = {b \in T : win[b] = s}
      BY <1>1, <2>1
    <3>2. QED
      BY <3>1 DEF Fits
  <2>2. CASE s = v.start /\ U # T
    <3>1. PICK A, B : A = {b \in U : newWin[b] = s} /\ B = {b \in S \cup {a} : newWin[b] = v.start}
      OBVIOUS
    <3>2. A \in SUBSET B /\ IsFiniteSet(B)
      <4>1. A \in SUBSET B /\ B \in SUBSET (S \cup {a})
        BY <1>5, <2>2, <3>1
      <4>2. QED
        BY <1>5, <4>1, FS_Subset
    <3>3. Cardinality(A) <= Cardinality(B) /\ Cardinality(A) \in Nat /\ Cardinality(B) \in Nat
      BY <3>2, FS_Subset, FS_CardinalityType
    <3>4. Cardinality(B) <= limit
      BY <1>4, <2>2, <3>1
    <3>5. QED
      BY <3>1, <3>3, <3>4
  <2>3. QED
    BY <2>1, <2>2
<1>9. \A b \in S \cup {a} : newWin[b] = v.start \/ newWin[b] + length <= v.start
  BY <1>4
<1>10. QED
  BY <1>2, <1>4, <1>5, <1>6, <1>7, <1>8, <1>9 DEF Fits

\* Whoever is refused finds the limit exceeded by attempts of the last length of time.
LEMMA RefusedRightly ==
    ASSUME NEW S, NEW T, NEW att, NEW w, NEW win, NEW n \in Nat, NEW length \in Nat \ {0},
           NEW limit \in Nat, Fits(S, T, att, w, win, n, length, limit),
           n = now, Open(S, w, win, length), w.count > limit
    PROVE  Cardinality({b \in S : n - length + 1 <= att[b].at /\ att[b].at < n - length + 1 + length})
              > limit
<1> USE DEF Open
<1>1. PICK A, B : /\ A = {b \in S : win[b] = w.start}
                  /\ B = {b \in S : n - length + 1 <= att[b].at /\ att[b].at < n - length + 1 + length}
  OBVIOUS
<1>2. A \subseteq B
  <2>1. \A b \in S : win[b] \in Nat /\ att[b].at \in Nat /\ win[b] <= att[b].at /\ att[b].at <= n
    BY DEF Fits
  <2>2. w.start \in Nat
    OBVIOUS
  <2>3. QED
    BY <1>1, <2>1, <2>2
<1>3. IsFiniteSet(B)
  BY <1>1, FS_Subset DEF Fits
<1>4. Cardinality(A) <= Cardinality(B) /\ Cardinality(B) \in Nat /\ Cardinality(A) \in Nat
  BY <1>2, <1>3, FS_Subset, FS_CardinalityType
<1>5. QED
  BY <1>1, <1>4

\* No period of the length of a window sees more than two windows let through.
LEMMA TwoWindows ==
    ASSUME NEW S, NEW T, NEW att, NEW w, NEW win, NEW n \in Nat, NEW length \in Nat \ {0},
           NEW limit \in Nat, Fits(S, T, att, w, win, n, length, limit), NEW t \in Nat
    PROVE  Cardinality({a \in T : t <= att[a].at /\ att[a].at < t + length}) <= 2 * limit
<1>1. PICK P : P = {a \in T : t <= att[a].at /\ att[a].at < t + length}
  OBVIOUS
<1>2. IsFiniteSet(S) /\ T \subseteq S
  BY DEF Fits
<1>3. IsFiniteSet(T) /\ P \subseteq T /\ P \subseteq S
  BY <1>1, <1>2, FS_Subset
<1>4. \A a \in P : win[a] \in Nat /\ win[a] < t + length /\ t < win[a] + length
  <2>1. \A a \in P : /\ att[a].at \in Nat /\ win[a] \in Nat
                     /\ win[a] <= att[a].at /\ att[a].at < win[a] + length
    BY <1>3 DEF Fits
  <2>2. \A a \in P : t <= att[a].at /\ att[a].at < t + length
    BY <1>1
  <2>3. QED
    BY <2>1, <2>2
<1>5. \A a, b \in P : win[a] = win[b] \/ win[a] + length <= win[b] \/ win[b] + length <= win[a]
  BY <1>3 DEF Fits
<1>6. \A s \in Nat : IsFiniteSet({a \in T : win[a] = s}) /\ Cardinality({a \in T : win[a] = s}) \in Nat
                     /\ Cardinality({a \in T : win[a] = s}) <= limit
  <2>1. \A s \in Nat : IsFiniteSet({a \in T : win[a] = s})
    BY <1>3, FS_Subset
  <2>2. QED
    BY <2>1, FS_CardinalityType DEF Fits
<1>7. CASE P = {}
  BY <1>1, <1>7, FS_EmptySet
<1>8. CASE P # {}
  <2>1. PICK a \in P : TRUE
    BY <1>8
  <2>2. PICK b \in P : win[b] # win[a] \/ \A c \in P : win[c] = win[a]
    BY <2>1
  <2>3. \A c \in P : win[c] = win[a] \/ win[c] = win[b]
    BY <1>4, <1>5, <2>1, <2>2
  <2>4. PICK A, B : A = {c \in T : win[c] = win[a]} /\ B = {c \in T : win[c] = win[b]}
    OBVIOUS
  <2>5. /\ IsFiniteSet(A) /\ Cardinality(A) \in Nat /\ Cardinality(A) <= limit
        /\ IsFiniteSet(B) /\ Cardinality(B) \in Nat /\ Cardinality(B) <= limit
    BY <1>4, <1>6, <2>1, <2>2, <2>4
  <2>6. P \in SUBSET (A \cup B)
    BY <1>3, <2>3, <2>4
  <2>7. /\ IsFiniteSet(A \cup B) /\ IsFiniteSet(A \cap B)
        /\ Cardinality(A \cup B) = Cardinality(A) + Cardinality(B) - Cardinality(A \cap B)
    BY <2>5, FS_Union, FS_Intersection
  <2>8. Cardinality(A \cap B) \in Nat
    BY <2>7, FS_CardinalityType
  <2>9. Cardinality(P) <= Cardinality(A \cup B) /\ Cardinality(P) \in Nat
    BY <2>6, <2>7, FS_Subset, FS_CardinalityType
  <2>10. QED
    BY <1>1, <2>5, <2>7, <2>8, <2>9
<1>9. QED
  BY <1>7, <1>8

----------------------------------------------------------------------------
(***************************************************************************)
(* The limiter.                                                            *)
(***************************************************************************)
Protected == Endpoints \ {"register"}

SoundRequest(q) ==
    /\ q = [pc |-> q.pc, endpoint |-> q.endpoint, ip |-> q.ip, name |-> q.name, at |-> q.at,
            verdict |-> q.verdict, role |-> q.role]
    /\ q.pc \in {"lookup", "compare", "wait", "create", "answered"}
    /\ q.endpoint \in Endpoints /\ q.name \in Spellings

Requests ==
    /\ attempt = [a \in Attempts |-> attempt[a]]
    /\ \A a \in Attempts : attempt[a] = Idle \/ SoundRequest(attempt[a])

Tables ==
    /\ now \in Nat
    /\ ips = [e \in Endpoints |-> ips[e]] /\ \A e \in Endpoints : ips[e] = [ip \in Ips |-> ips[e][ip]]
    /\ pairs = [e \in Endpoints |-> pairs[e]]
    /\ \A e \in Endpoints : pairs[e] = [p \in Ips \X Names |-> pairs[e][p]]

\* The attempts that are within the limit of the address, and of the pair.
Passed(e, ip) == {a \in Counted(e, ip) : attempt[a].verdict # "ip"}
Admitted(e, ip, n) == {a \in CountedPair(e, ip, n) : attempt[a].verdict = "allowed"}

IpsFit(f) ==
    \A e \in Protected, ip \in Ips :
        Fits(Counted(e, ip), Passed(e, ip), attempt, ips[e][ip], f, now, IPWindow, IPLimit)

PairsFit(g) ==
    \A e \in Protected, ip \in Ips, n \in Names :
        Fits(CountedPair(e, ip, n), Admitted(e, ip, n), attempt, pairs[e][<<ip, n>>], g, now,
             PairWindow, PairLimit)

\* The number of the attempts in S of the last length of time before a.
Recent(S, a, length) == Cardinality(During(S, attempt[a].at - length + 1, length))

RefusalsRight ==
    \A e \in Protected, ip \in Ips :
        /\ \A a \in Counted(e, ip) :
              attempt[a].verdict = "ip" => Recent(Counted(e, ip), a, IPWindow) > IPLimit
        /\ \A n \in Names : \A a \in CountedPair(e, ip, n) :
              attempt[a].verdict = "pair" => Recent(CountedPair(e, ip, n), a, PairWindow) > PairLimit

LimiterInv ==
    /\ Requests /\ Tables /\ RefusalsRight
    /\ \E f : IpsFit(f)
    /\ \E g : PairsFit(g)

\* A window of each kind has a length and a limit.
LEMMA Limits ==
    /\ IPWindow \in Nat \ {0} /\ PairWindow \in Nat \ {0}
    /\ IPLimit \in Nat \ {0} /\ PairLimit \in Nat \ {0} /\ BcryptConcurrent \in Nat \ {0}
BY LoginAssumption

\* A request is not the absence of one.
LEMMA RequestNotIdle == \A q : SoundRequest(q) => q # Idle
BY DEF SoundRequest, Idle

\* What follows from the invariant.
LEMMA LimiterRight ==
    ASSUME LimiterInv
    PROVE  RateLimited
<1> SUFFICES ASSUME NEW e \in Protected, NEW ip \in Ips, NEW n \in Names, NEW t \in 0..MaxTime
             PROVE  /\ Cardinality({a \in During(CountedPair(e, ip, n), t, PairWindow) :
                                       attempt[a].verdict = "allowed"}) <= 2 * PairLimit
                    /\ Cardinality({a \in During(Counted(e, ip), t, IPWindow) :
                                       attempt[a].verdict # "ip"}) <= 2 * IPLimit
  BY DEF RateLimited, LimiterInv, RefusalsRight, Recent, Protected
<1>1. t \in Nat /\ now \in Nat
  BY LoginAssumption DEF LimiterInv, Tables
<1>2. PICK f : IpsFit(f)
  BY DEF LimiterInv
<1>3. PICK g : PairsFit(g)
  BY DEF LimiterInv
<1>4. {a \in During(Counted(e, ip), t, IPWindow) : attempt[a].verdict # "ip"}
         = {a \in Passed(e, ip) : t <= attempt[a].at /\ attempt[a].at < t + IPWindow}
  BY DEF During, Passed
<1>5. {a \in During(CountedPair(e, ip, n), t, PairWindow) : attempt[a].verdict = "allowed"}
         = {a \in Admitted(e, ip, n) : t <= attempt[a].at /\ attempt[a].at < t + PairWindow}
  BY DEF During, Admitted
<1>6. Fits(Counted(e, ip), Passed(e, ip), attempt, ips[e][ip], f, now, IPWindow, IPLimit)
  BY <1>2 DEF IpsFit
<1>7. Fits(CountedPair(e, ip, n), Admitted(e, ip, n), attempt, pairs[e][<<ip, n>>], g, now,
           PairWindow, PairLimit)
  BY <1>3 DEF PairsFit
<1>8. Cardinality({a \in Passed(e, ip) : t <= attempt[a].at /\ attempt[a].at < t + IPWindow})
         <= 2 * IPLimit
  BY <1>1, <1>6, Limits, TwoWindows
<1>9. Cardinality({a \in Admitted(e, ip, n) : t <= attempt[a].at /\ attempt[a].at < t + PairWindow})
         <= 2 * PairLimit
  BY <1>1, <1>7, Limits, TwoWindows
<1>10. QED
  BY <1>4, <1>5, <1>8, <1>9

\* No request has arrived.
LEMMA LimiterInit == Init => LimiterInv
<1> SUFFICES ASSUME Init PROVE LimiterInv
  OBVIOUS
<1>1. Requests /\ Tables
  BY DEF Init, Requests, Tables
<1>2. Started = {}
  BY DEF Init, Started
<1>3. \A e, ip : Counted(e, ip) = {} /\ Passed(e, ip) = {}
  BY <1>2 DEF Counted, Passed
<1>4. \A e, ip, n : CountedPair(e, ip, n) = {} /\ Admitted(e, ip, n) = {}
  BY <1>3 DEF CountedPair, Admitted
<1>5. \A n, length, limit : limit \in Nat => Fits({}, {}, attempt, NoWindow, [a \in {} |-> 0], n, length, limit)
  <2>1. \A s : {a \in {} : [x \in {} |-> 0][a] = s} = {}
    OBVIOUS
  <2>2. QED
    BY <2>1, FS_EmptySet DEF Fits
<1>6. \A e \in Endpoints, ip \in Ips : ips[e][ip] = NoWindow
  BY DEF Init
<1>7. \A e \in Endpoints, ip \in Ips, n \in Names : pairs[e][<<ip, n>>] = NoWindow
  BY DEF Init
<1>8. IpsFit([a \in {} |-> 0])
  BY <1>3, <1>5, <1>6, Limits DEF IpsFit, Protected
<1>9. PairsFit([a \in {} |-> 0])
  BY <1>4, <1>5, <1>7, Limits DEF PairsFit, Protected
<1>10. RefusalsRight
  BY <1>3, <1>4 DEF RefusalsRight
<1>11. QED
  BY <1>1, <1>8, <1>9, <1>10 DEF LimiterInv

\* A request that no limit is about.
Unseen(q) == q = Idle \/ q.endpoint = "register"

\* The requests keep what the limiter has decided about them.
Kept ==
    \A a \in Attempts :
        \/ Unseen(attempt[a]) /\ Unseen(attempt'[a])
        \/ /\ attempt[a] # Idle /\ attempt'[a] # Idle
           /\ attempt'[a].endpoint = attempt[a].endpoint /\ attempt'[a].ip = attempt[a].ip
           /\ attempt'[a].name = attempt[a].name /\ attempt'[a].at = attempt[a].at
           /\ attempt'[a].verdict = attempt[a].verdict

\* The counted attempts stay the same.
LEMMA KeptSets ==
    ASSUME Kept, NEW e \in Protected, NEW ip
    PROVE  /\ Counted(e, ip)' = Counted(e, ip) /\ Passed(e, ip)' = Passed(e, ip)
           /\ \A n : /\ CountedPair(e, ip, n)' = CountedPair(e, ip, n)
                     /\ Admitted(e, ip, n)' = Admitted(e, ip, n)
           /\ \A a \in Counted(e, ip) :
                 attempt'[a].at = attempt[a].at /\ attempt'[a].verdict = attempt[a].verdict
<1>1. e # "register"
  BY DEF Protected
<1>2. \A a \in Counted(e, ip) :
         /\ attempt'[a] # Idle /\ attempt'[a].endpoint = e /\ attempt'[a].ip = ip /\ a \in Attempts
         /\ attempt'[a].name = attempt[a].name /\ attempt'[a].at = attempt[a].at
         /\ attempt'[a].verdict = attempt[a].verdict
  BY <1>1 DEF Kept, Unseen, Counted, Started
<1>3. \A a \in Attempts : attempt'[a] # Idle /\ attempt'[a].endpoint = e /\ attempt'[a].ip = ip
         => attempt[a] # Idle /\ attempt[a].endpoint = e /\ attempt[a].ip = ip
  BY <1>1 DEF Kept, Unseen
<1>4. Counted(e, ip)' = Counted(e, ip)
  BY <1>2, <1>3 DEF Counted, Started
<1>5. Passed(e, ip)' = Passed(e, ip)
  BY <1>2, <1>4 DEF Passed
<1>6. ASSUME NEW n
      PROVE CountedPair(e, ip, n)' = CountedPair(e, ip, n) /\ Admitted(e, ip, n)' = Admitted(e, ip, n)
  <2>1. CountedPair(e, ip, n)' = CountedPair(e, ip, n)
    BY <1>2, <1>4 DEF CountedPair
  <2>2. CountedPair(e, ip, n) \subseteq Counted(e, ip)
    BY DEF CountedPair
  <2>3. Admitted(e, ip, n)' = Admitted(e, ip, n)
    BY <1>2, <2>1, <2>2 DEF Admitted
  <2>4. QED
    BY <2>1, <2>3
<1>7. QED
  BY <1>2, <1>4, <1>5, <1>6

\* A step that leaves the limiter alone.
LEMMA Unmoved ==
    ASSUME LimiterInv, Kept, Requests', UNCHANGED limiter, now' = now \/ now' = now + 1
    PROVE  LimiterInv'
<1>1. Tables'
  <2>1. Tables /\ ips' = ips /\ pairs' = pairs
    BY DEF LimiterInv, limiter
  <2>2. now' \in Nat
    BY <2>1 DEF Tables
  <2>3. QED
    BY <2>1, <2>2 DEF Tables, Names
<1>2. now \in Nat
  BY DEF LimiterInv, Tables
<1>3. PICK f : IpsFit(f)
  BY DEF LimiterInv
<1>4. PICK g : PairsFit(g)
  BY DEF LimiterInv
<1>5. PICK new : new = attempt'
  OBVIOUS
<1>6. ASSUME NEW S, NEW T, NEW w, NEW h, NEW length \in Nat, NEW limit \in Nat,
             Fits(S, T, attempt, w, h, now, length, limit),
             \A a \in S : new[a].at = attempt[a].at
      PROVE  Fits(S, T, new, w, h, now', length, limit)
  <2>1. Fits(S, T, new, w, h, now, length, limit)
    BY <1>6, SameTimes
  <2>2. Fits(S, T, new, w, h, now + 1, length, limit)
    BY <1>2, <2>1, Later
  <2>3. QED
    BY <2>1, <2>2
<1>7. (IpsFit(f))'
  <2> SUFFICES ASSUME NEW e \in Protected, NEW ip \in Ips
               PROVE  Fits(Counted(e, ip)', Passed(e, ip)', new, ips'[e][ip], f, now', IPWindow, IPLimit)
    BY <1>5 DEF IpsFit, Protected
  <2>1. Fits(Counted(e, ip), Passed(e, ip), attempt, ips[e][ip], f, now, IPWindow, IPLimit)
    BY <1>3 DEF IpsFit
  <2>2. /\ Counted(e, ip)' = Counted(e, ip) /\ Passed(e, ip)' = Passed(e, ip)
        /\ \A a \in Counted(e, ip) : new[a].at = attempt[a].at
    BY <1>5, KeptSets
  <2>3. ips' = ips
    BY DEF limiter
  <2>4. Fits(Counted(e, ip), Passed(e, ip), new, ips[e][ip], f, now', IPWindow, IPLimit)
    BY <1>6, <2>1, <2>2, Limits
  <2>5. QED
    BY <2>2, <2>3, <2>4
<1>8. (PairsFit(g))'
  <2> SUFFICES ASSUME NEW e \in Protected, NEW ip \in Ips, NEW n \in Names
               PROVE  Fits(CountedPair(e, ip, n)', Admitted(e, ip, n)', new, pairs'[e][<<ip, n>>], g,
                           now', PairWindow, PairLimit)
    BY <1>5 DEF PairsFit, Protected, Names
  <2>1. Fits(CountedPair(e, ip, n), Admitted(e, ip, n), attempt, pairs[e][<<ip, n>>], g, now,
             PairWindow, PairLimit)
    BY <1>4 DEF PairsFit
  <2>2. /\ CountedPair(e, ip, n)' = CountedPair(e, ip, n) /\ Admitted(e, ip, n)' = Admitted(e, ip, n)
        /\ \A a \in CountedPair(e, ip, n) : new[a].at = attempt[a].at
    <3>1. CountedPair(e, ip, n) \subseteq Counted(e, ip)
      BY DEF CountedPair
    <3>2. QED
      BY <1>5, <3>1, KeptSets
  <2>3. pairs' = pairs
    BY DEF limiter
  <2>4. Fits(CountedPair(e, ip, n), Admitted(e, ip, n), new, pairs[e][<<ip, n>>], g, now',
             PairWindow, PairLimit)
    BY <1>6, <2>1, <2>2, Limits
  <2>5. QED
    BY <2>2, <2>3, <2>4
<1>9. RefusalsRight'
  <2> SUFFICES ASSUME NEW e \in Protected, NEW ip \in Ips
               PROVE  /\ \A a \in Counted(e, ip)' : attempt'[a].verdict = "ip" =>
                            Recent(Counted(e, ip), a, IPWindow)' > IPLimit
                      /\ \A n \in Names : \A a \in CountedPair(e, ip, n)' : attempt'[a].verdict = "pair" =>
                            Recent(CountedPair(e, ip, n), a, PairWindow)' > PairLimit
    BY DEF RefusalsRight, Protected, Names
  <2>1. \A a \in Counted(e, ip) :
           attempt'[a].at = attempt[a].at /\ attempt'[a].verdict = attempt[a].verdict
    BY KeptSets
  <2>2. ASSUME NEW a \in Counted(e, ip), NEW length
        PROVE  Recent(Counted(e, ip), a, length)' = Recent(Counted(e, ip), a, length)
    <3>1. Counted(e, ip)' = Counted(e, ip)
      BY KeptSets
    <3>2. QED
      BY <2>1, <3>1 DEF Recent, During
  <2>3. ASSUME NEW n, NEW a \in CountedPair(e, ip, n), NEW length
        PROVE  Recent(CountedPair(e, ip, n), a, length)' = Recent(CountedPair(e, ip, n), a, length)
    <3>1. CountedPair(e, ip, n)' = CountedPair(e, ip, n)
      BY KeptSets
    <3>2. CountedPair(e, ip, n) \subseteq Counted(e, ip)
      BY DEF CountedPair
    <3>3. QED
      BY <2>1, <3>1, <3>2 DEF Recent, During
  <2>4. Counted(e, ip)' = Counted(e, ip) /\ \A n : CountedPair(e, ip, n)' = CountedPair(e, ip, n)
    BY KeptSets
  <2>5. \A a \in Counted(e, ip)' : attempt'[a].verdict = "ip" =>
                            Recent(Counted(e, ip), a, IPWindow)' > IPLimit
    BY <2>1, <2>2, <2>4 DEF LimiterInv, RefusalsRight
  <2>6. ASSUME NEW n \in Names, NEW a \in CountedPair(e, ip, n), attempt'[a].verdict = "pair"
        PROVE  Recent(CountedPair(e, ip, n), a, PairWindow)' > PairLimit
    <3>1. a \in Counted(e, ip)
      BY DEF CountedPair
    <3>2. Recent(CountedPair(e, ip, n), a, PairWindow) > PairLimit
      BY <2>1, <2>6, <3>1 DEF LimiterInv, RefusalsRight
    <3>3. QED
      BY <2>3, <3>2
  <2>7. QED
    BY <2>4, <2>5, <2>6
<1>10. QED
  BY <1>1, <1>7, <1>8, <1>9 DEF LimiterInv

\* What Allow decides: the windows v1 and v2 it finds for the address and the pair, and
\* its verdict vd.
Decision(e, ip, n, v1, v2, vd) ==
    /\ v1 = incrementWindow(Cleaned(e, ips[e], IPWindow)[ip], IPWindow)
    /\ v2 = incrementWindow(Cleaned(e, pairs[e], PairWindow)[<<ip, n>>], PairWindow)
    /\ vd = IF v1.count > IPLimit THEN "ip" ELSE IF v2.count > PairLimit THEN "pair" ELSE "allowed"

\* What Allow leaves behind.
Recorded(a, e, ip, n, v1, v2, vd) ==
    /\ now' = now /\ attempt[a] = Idle /\ attempt'[a] # Idle
    /\ attempt'[a].endpoint = e /\ attempt'[a].ip = ip /\ Normal[attempt'[a].name] = n
    /\ attempt'[a].at = now /\ attempt'[a].verdict = vd
    /\ \A b \in Attempts \ {a} : attempt'[b] = attempt[b]
    /\ \A d \in Endpoints, i \in Ips :
          ips'[d][i] = IF d # e THEN ips[d][i]
                       ELSE IF i = ip THEN v1 ELSE Cleaned(e, ips[e], IPWindow)[i]
    /\ \A d \in Endpoints, i \in Ips, m \in Names :
          pairs'[d][<<i, m>>] = IF d # e THEN pairs[d][<<i, m>>]
                                ELSE IF i = ip /\ m = n /\ vd # "ip" THEN v2
                                ELSE Cleaned(e, pairs[e], PairWindow)[<<i, m>>]

\* Allow decides by the counts it has left after dropping what is out of date, and
\* records the attempt.
LEMMA AllowRecords ==
    ASSUME Requests, Tables, NEW a \in Attempts, NEW e \in Endpoints, NEW ip \in Ips,
           NEW sp \in Spellings, Allow(a, e, ip, sp)
    PROVE  /\ Requests' /\ Tables' /\ e \in Protected /\ Normal[sp] \in Names
           /\ \E v1, v2, vd : /\ Decision(e, ip, Normal[sp], v1, v2, vd)
                              /\ Recorded(a, e, ip, Normal[sp], v1, v2, vd)
<1>1. PICK n : n = Normal[sp]
  OBVIOUS
<1>2. PICK I : I = Cleaned(e, ips[e], IPWindow)
  OBVIOUS
<1>3. PICK P : P = Cleaned(e, pairs[e], PairWindow)
  OBVIOUS
<1>4. PICK v1 : v1 = incrementWindow(I[ip], IPWindow)
  OBVIOUS
<1>5. PICK v2 : v2 = incrementWindow(P[<<ip, n>>], PairWindow)
  OBVIOUS
<1>6. PICK vd : vd = IF v1.count > IPLimit THEN "ip" ELSE IF v2.count > PairLimit THEN "pair" ELSE "allowed"
  OBVIOUS
<1>7. PICK pc : pc = IF vd = "allowed" THEN "lookup" ELSE "answered"
  OBVIOUS
<1>8. PICK q : q = Request(pc, e, ip, sp, vd)
  OBVIOUS
<1>9. /\ attempt[a] = Idle /\ e # "register" /\ now' = now
      /\ ips' = [ips EXCEPT ![e] = [I EXCEPT ![ip] = v1]]
      /\ pairs' = [pairs EXCEPT ![e] = IF vd = "ip" THEN P ELSE [P EXCEPT ![<<ip, n>>] = v2]]
      /\ attempt' = [attempt EXCEPT ![a] = q]
  BY <1>1, <1>2, <1>3, <1>4, <1>5, <1>6, <1>7, <1>8 DEF Allow, Arrives
<1>10. I = [i \in Ips |-> I[i]]
  BY <1>2 DEF Tables, Cleaned, cleanupLocked
<1>11. P = [p \in Ips \X Names |-> P[p]]
  BY <1>3 DEF Tables, Cleaned, cleanupLocked
<1>12. n \in Names /\ e \in Protected
  BY <1>1, <1>9 DEF Names, Protected
<1>13. SoundRequest(q)
  BY <1>7, <1>8 DEF SoundRequest, Request
<1>14. /\ attempt' = [b \in Attempts |-> attempt'[b]] /\ attempt'[a] = q
       /\ \A b \in Attempts \ {a} : attempt'[b] = attempt[b]
  BY <1>9 DEF Requests
<1>15. Requests'
  <2>1. \A b \in Attempts : attempt'[b] = Idle \/ SoundRequest(attempt'[b])
    BY <1>13, <1>14 DEF Requests
  <2>2. \A b \in Attempts : attempt'[b] = Idle' \/ SoundRequest(attempt'[b])
    BY <2>1 DEF Idle
  <2>3. QED
    BY <1>14, <2>2 DEF Requests, SoundRequest
<1>16. /\ ips' = [d \in Endpoints |-> ips'[d]]
       /\ ips'[e] = [I EXCEPT ![ip] = v1]
       /\ \A d \in Endpoints \ {e} : ips'[d] = ips[d]
  BY <1>9 DEF Tables
<1>17. /\ pairs' = [d \in Endpoints |-> pairs'[d]]
       /\ pairs'[e] = IF vd = "ip" THEN P ELSE [P EXCEPT ![<<ip, n>>] = v2]
       /\ \A d \in Endpoints \ {e} : pairs'[d] = pairs[d]
  BY <1>9 DEF Tables
<1>18. [I EXCEPT ![ip] = v1] = [i \in Ips |-> IF i = ip THEN v1 ELSE I[i]]
  BY <1>10
<1>19. [P EXCEPT ![<<ip, n>>] = v2]
         = [p \in Ips \X Names |-> IF p = <<ip, n>> THEN v2 ELSE P[p]]
  BY <1>11
<1>20. Tables'
  <2>1. \A d \in Endpoints : ips'[d] = [i \in Ips |-> ips'[d][i]]
    <3>1. ips'[e] = [i \in Ips |-> ips'[e][i]]
      BY <1>16, <1>18
    <3>2. QED
      BY <1>16, <3>1 DEF Tables
  <2>2. \A d \in Endpoints : pairs'[d] = [p \in Ips \X Names |-> pairs'[d][p]]
    <3>1. pairs'[e] = [p \in Ips \X Names |-> pairs'[e][p]]
      BY <1>11, <1>17, <1>19
    <3>2. QED
      BY <1>17, <3>1 DEF Tables
  <2>3. now' \in Nat
    BY <1>9 DEF Tables
  <2>4. QED
    BY <1>16, <1>17, <2>1, <2>2, <2>3 DEF Tables, Names
<1>21. Decision(e, ip, n, v1, v2, vd)
  BY <1>2, <1>3, <1>4, <1>5, <1>6 DEF Decision
<1>22. /\ attempt'[a] # Idle /\ attempt'[a].endpoint = e /\ attempt'[a].ip = ip
       /\ Normal[attempt'[a].name] = n /\ attempt'[a].at = now /\ attempt'[a].verdict = vd
  BY <1>1, <1>8, <1>13, <1>14, RequestNotIdle DEF Request
<1>23. \A d \in Endpoints, i \in Ips :
          ips'[d][i] = IF d # e THEN ips[d][i] ELSE IF i = ip THEN v1 ELSE I[i]
  BY <1>16, <1>18
<1>24. \A d \in Endpoints, i \in Ips, m \in Names :
          pairs'[d][<<i, m>>] = IF d # e THEN pairs[d][<<i, m>>]
                                ELSE IF i = ip /\ m = n /\ vd # "ip" THEN v2 ELSE P[<<i, m>>]
  <2> SUFFICES ASSUME NEW i \in Ips, NEW m \in Names
               PROVE  pairs'[e][<<i, m>>] = IF i = ip /\ m = n /\ vd # "ip" THEN v2 ELSE P[<<i, m>>]
    BY <1>17
  <2>1. <<i, m>> \in Ips \X Names /\ (<<i, m>> = <<ip, n>> <=> i = ip /\ m = n)
    OBVIOUS
  <2>2. [P EXCEPT ![<<ip, n>>] = v2][<<i, m>>] = IF i = ip /\ m = n THEN v2 ELSE P[<<i, m>>]
    BY <1>19, <2>1
  <2>3. QED
    BY <1>17, <2>2
<1>25. Recorded(a, e, ip, n, v1, v2, vd)
  BY <1>2, <1>3, <1>9, <1>14, <1>22, <1>23, <1>24 DEF Recorded
<1>26. QED
  BY <1>1, <1>12, <1>15, <1>20, <1>21, <1>25

\* How the counted attempts grow.
LEMMA RecordedSets ==
    ASSUME NEW a \in Attempts, NEW e, NEW ip, NEW n, NEW v1, NEW v2, NEW vd,
           Recorded(a, e, ip, n, v1, v2, vd), NEW d, NEW i
    PROVE  /\ a \notin Counted(d, i)
           /\ Counted(d, i)' = IF d = e /\ i = ip THEN Counted(d, i) \cup {a} ELSE Counted(d, i)
           /\ Passed(d, i)' = IF d = e /\ i = ip /\ vd # "ip" THEN Passed(d, i) \cup {a} ELSE Passed(d, i)
           /\ \A b \in Counted(d, i) : b \in Attempts \ {a} /\ attempt'[b] = attempt[b]
<1>1. attempt[a] = Idle /\ \A b \in Attempts \ {a} : attempt'[b] = attempt[b]
  BY DEF Recorded
<1>2. /\ attempt'[a] # Idle /\ attempt'[a].endpoint = e /\ attempt'[a].ip = ip
      /\ Normal[attempt'[a].name] = n /\ attempt'[a].verdict = vd
  BY DEF Recorded
<1>3. a \notin Counted(d, i) /\ \A b \in Counted(d, i) : b \in Attempts \ {a} /\ attempt'[b] = attempt[b]
  BY <1>1 DEF Counted, Started
<1>4. Counted(d, i)' = IF d = e /\ i = ip THEN Counted(d, i) \cup {a} ELSE Counted(d, i)
  <2>1. Counted(d, i)' = {b \in Attempts : attempt'[b] # Idle /\ attempt'[b].endpoint = d /\ attempt'[b].ip = i}
    BY DEF Counted, Started, Idle
  <2>2. Counted(d, i) = {b \in Attempts : attempt[b] # Idle /\ attempt[b].endpoint = d /\ attempt[b].ip = i}
    BY DEF Counted, Started
  <2>3. QED
    BY <1>1, <1>2, <2>1, <2>2
<1>5. Passed(d, i)' = IF d = e /\ i = ip /\ vd # "ip" THEN Passed(d, i) \cup {a} ELSE Passed(d, i)
  BY <1>2, <1>3, <1>4 DEF Passed
<1>6. QED
  BY <1>3, <1>4, <1>5

\* How the counted attempts of a pair grow.
LEMMA RecordedPairs ==
    ASSUME NEW a \in Attempts, NEW e, NEW ip, NEW n, NEW v1, NEW v2, NEW vd,
           Recorded(a, e, ip, n, v1, v2, vd), NEW d, NEW i, NEW m
    PROVE  /\ CountedPair(d, i, m)' = IF d = e /\ i = ip /\ m = n /\ vd # "ip"
                                      THEN CountedPair(d, i, m) \cup {a} ELSE CountedPair(d, i, m)
           /\ Admitted(d, i, m)' = IF d = e /\ i = ip /\ m = n /\ vd = "allowed"
                                   THEN Admitted(d, i, m) \cup {a} ELSE Admitted(d, i, m)
<1>1. /\ attempt'[a].endpoint = e /\ attempt'[a].ip = ip
      /\ Normal[attempt'[a].name] = n /\ attempt'[a].verdict = vd
  BY DEF Recorded
<1>2. /\ Counted(d, i)' = IF d = e /\ i = ip THEN Counted(d, i) \cup {a} ELSE Counted(d, i)
      /\ \A b \in Counted(d, i) : attempt'[b] = attempt[b]
  BY RecordedSets
<1>3. CountedPair(d, i, m)' = IF d = e /\ i = ip /\ m = n /\ vd # "ip"
                              THEN CountedPair(d, i, m) \cup {a} ELSE CountedPair(d, i, m)
  BY <1>1, <1>2 DEF CountedPair
<1>4. CountedPair(d, i, m) \subseteq Counted(d, i)
  BY DEF CountedPair
<1>5. Admitted(d, i, m)' = IF d = e /\ i = ip /\ m = n /\ vd = "allowed"
                           THEN Admitted(d, i, m) \cup {a} ELSE Admitted(d, i, m)
  BY <1>1, <1>2, <1>3, <1>4 DEF Admitted
<1>6. QED
  BY <1>3, <1>5

\* A collection forgets no window that is not over.
LEMMA CleanedFits ==
    ASSUME now \in Nat, NEW e, NEW W, NEW k \in DOMAIN W, NEW S, NEW T, NEW win,
           NEW length \in Nat \ {0}, NEW limit \in Nat,
           Fits(S, T, attempt, W[k], win, now, length, limit)
    PROVE  Fits(S, T, attempt, Cleaned(e, W, length)[k], win, now, length, limit)
<1>1. CASE now >= nextGC[e]
  <2>1. Cleaned(e, W, length)[k] = IF now - W[k].start >= length THEN NoWindow ELSE W[k]
    BY <1>1 DEF Cleaned, cleanupLocked
  <2>2. QED
    BY <2>1, Collected
<1>2. CASE ~(now >= nextGC[e])
  BY <1>2 DEF Cleaned
<1>3. QED
  BY <1>1, <1>2

\* Addresses are counted rightly.
LEMMA AllowIps ==
    ASSUME Tables, NEW a \in Attempts, NEW e \in Protected, NEW ip \in Ips, NEW n,
           NEW v1, NEW v2, NEW vd, Decision(e, ip, n, v1, v2, vd), Recorded(a, e, ip, n, v1, v2, vd),
           NEW f, IpsFit(f)
    PROVE  /\ (\E h : IpsFit(h))'
           /\ vd = "ip" => Recent(Counted(e, ip), a, IPWindow)' > IPLimit
<1>1. now \in Nat /\ now' = now /\ attempt'[a].at = now
  BY DEF Tables, Recorded
<1>2. PICK h : h = [b \in Attempts |-> IF b = a THEN v1.start ELSE f[b]]
  OBVIOUS
<1>3. h[a] = v1.start /\ \A b \in Attempts \ {a} : h[b] = f[b]
  BY <1>2
<1>4. PICK new : new = attempt'
  OBVIOUS
<1>5. ASSUME NEW i \in Ips
      PROVE  Fits(Counted(e, i), Passed(e, i), attempt, Cleaned(e, ips[e], IPWindow)[i], f, now,
                  IPWindow, IPLimit)
  <2>1. Fits(Counted(e, i), Passed(e, i), attempt, ips[e][i], f, now, IPWindow, IPLimit)
    BY DEF IpsFit
  <2>2. i \in DOMAIN ips[e]
    BY DEF Tables, Protected
  <2>3. QED
    BY <1>1, <2>1, <2>2, Limits, CleanedFits
<1>6. /\ Fits(Counted(e, ip)', Passed(e, ip)', new, v1, h, now, IPWindow, IPLimit)
      /\ Open(Counted(e, ip)', v1, h, IPWindow)
  <2>1. PICK S, T, U, w : /\ S = Counted(e, ip) /\ T = Passed(e, ip) /\ U = Passed(e, ip)'
                          /\ w = Cleaned(e, ips[e], IPWindow)[ip]
    OBVIOUS
  <2>2. Counted(e, ip)' = S \cup {a} /\ a \notin S /\ \A b \in S : b \in Attempts \ {a} /\ new[b] = attempt[b]
    BY <1>4, <2>1, RecordedSets
  <2>3. U = T \/ (U = T \cup {a} /\ v1.count <= IPLimit)
    <3>1. CASE vd = "ip"
      BY <2>1, <3>1, RecordedSets
    <3>2. CASE vd # "ip"
      <4>1. U = T \cup {a}
        BY <2>1, <3>2, RecordedSets
      <4>2. ~(v1.count > IPLimit)
        BY <3>2 DEF Decision
      <4>3. v1.count \in Nat
        <5>1. w = NoWindow \/ w \in [start : Nat, count : Nat]
          BY <1>5, <2>1 DEF Fits
        <5>2. v1 = incrementWindow(w, IPWindow)
          BY <2>1 DEF Decision
        <5>3. QED
          BY <5>1, <5>2 DEF incrementWindow
      <4>4. QED
        BY <4>1, <4>2, <4>3, Limits
    <3>3. QED
      BY <3>1, <3>2
  <2>4. v1 = incrementWindow(w, IPWindow)
    BY <2>1 DEF Decision
  <2>5. Fits(S, T, attempt, w, f, now, IPWindow, IPLimit)
    BY <1>5, <2>1
  <2>6. new[a].at = now /\ \A b \in S : new[b].at = attempt[b].at
    BY <1>1, <1>4, <2>2
  <2>7. h[a] = v1.start /\ \A b \in S : h[b] = f[b]
    BY <1>3, <2>2
  <2>8. /\ Fits(S \cup {a}, U, new, v1, h, now, IPWindow, IPLimit)
        /\ Open(S \cup {a}, v1, h, IPWindow)
    <3>1. now \in Nat /\ IPWindow \in Nat \ {0} /\ IPLimit \in Nat /\ a \notin S
      BY <1>1, <2>2, Limits
    <3>2. new[a].at = now /\ h[a] = v1.start
      BY <2>6, <2>7
    <3>3. (\A b \in S : new[b].at = attempt[b].at) /\ \A b \in S : h[b] = f[b]
      BY <2>6, <2>7
    <3>4. Counting(S, T, attempt, w, f, IPWindow, IPLimit, a, v1, new, h, U)
      BY <2>3, <2>4, <2>5, <3>1, <3>2, <3>3 DEF Counting
    <3>5. QED
      BY <3>4, OneMore
  <2>9. QED
    BY <2>1, <2>2, <2>8
<1>7. ASSUME NEW d \in Protected, NEW i \in Ips, d # e \/ i # ip
      PROVE  Fits(Counted(d, i)', Passed(d, i)', new, ips'[d][i], h, now, IPWindow, IPLimit)
  <2>1. /\ Counted(d, i)' = Counted(d, i) /\ Passed(d, i)' = Passed(d, i)
        /\ \A b \in Counted(d, i) : b \in Attempts \ {a} /\ new[b] = attempt[b]
    BY <1>4, <1>7, RecordedSets
  <2>2. Fits(Counted(d, i), Passed(d, i), attempt, ips'[d][i], f, now, IPWindow, IPLimit)
    <3>1. CASE d # e
      BY <3>1 DEF IpsFit, Recorded, Protected
    <3>2. CASE d = e
      BY <1>5, <1>7, <3>2 DEF Recorded, Protected
    <3>3. QED
      BY <3>1, <3>2
  <2>3. \A b \in Counted(d, i) : new[b].at = attempt[b].at /\ h[b] = f[b]
    BY <1>3, <2>1
  <2>4. Fits(Counted(d, i), Passed(d, i), new, ips'[d][i], h, now, IPWindow, IPLimit)
    BY <2>2, <2>3, SameTimes
  <2>5. QED
    BY <2>1, <2>4
<1>8. (IpsFit(h))'
  <2>1. ips'[e][ip] = v1
    BY DEF Recorded, Protected
  <2>2. \A d \in Protected, i \in Ips :
           Fits(Counted(d, i)', Passed(d, i)', new, ips'[d][i], h, now, IPWindow, IPLimit)
    BY <1>6, <1>7, <2>1
  <2>3. QED
    BY <1>1, <1>4, <2>2 DEF IpsFit, Protected
<1>9. ASSUME vd = "ip" PROVE Recent(Counted(e, ip), a, IPWindow)' > IPLimit
  <2>1. PICK S, U : S = Counted(e, ip)' /\ U = Passed(e, ip)'
    OBVIOUS
  <2>2. v1.count > IPLimit
    BY <1>9 DEF Decision
  <2>3. Cardinality({b \in S : now - IPWindow + 1 <= new[b].at /\ new[b].at < now - IPWindow + 1 + IPWindow})
          > IPLimit
    BY <1>1, <1>6, <2>1, <2>2, Limits, RefusedRightly
  <2>4. QED
    BY <1>1, <1>4, <2>1, <2>3 DEF Recent, During
<1>10. QED
  BY <1>8, <1>9

\* Pairs are counted rightly: an attempt that the address's limit refuses is not counted.
LEMMA AllowPairs ==
    ASSUME Tables, NEW a \in Attempts, NEW e \in Protected, NEW ip \in Ips, NEW n \in Names,
           NEW v1, NEW v2, NEW vd, Decision(e, ip, n, v1, v2, vd), Recorded(a, e, ip, n, v1, v2, vd),
           NEW g, PairsFit(g)
    PROVE  /\ (\E h : PairsFit(h))'
           /\ vd = "pair" => Recent(CountedPair(e, ip, n), a, PairWindow)' > PairLimit
<1>1. now \in Nat /\ now' = now /\ attempt'[a].at = now
  BY DEF Tables, Recorded
<1>2. PICK h : h = [b \in Attempts |-> IF b = a THEN v2.start ELSE g[b]]
  OBVIOUS
<1>3. h[a] = v2.start /\ \A b \in Attempts \ {a} : h[b] = g[b]
  BY <1>2
<1>4. PICK new : new = attempt'
  OBVIOUS
<1>5. ASSUME NEW i \in Ips, NEW m \in Names
      PROVE  Fits(CountedPair(e, i, m), Admitted(e, i, m), attempt,
                  Cleaned(e, pairs[e], PairWindow)[<<i, m>>], g, now, PairWindow, PairLimit)
  <2>1. Fits(CountedPair(e, i, m), Admitted(e, i, m), attempt, pairs[e][<<i, m>>], g, now,
             PairWindow, PairLimit)
    BY DEF PairsFit
  <2>2. <<i, m>> \in DOMAIN pairs[e]
    BY DEF Tables, Protected
  <2>3. QED
    BY <1>1, <2>1, <2>2, Limits, CleanedFits
<1>6. ASSUME NEW d, NEW i, NEW m
      PROVE  /\ a \notin CountedPair(d, i, m)
             /\ \A b \in CountedPair(d, i, m) : b \in Attempts \ {a} /\ new[b] = attempt[b]
  <2>1. CountedPair(d, i, m) \subseteq Counted(d, i)
    BY DEF CountedPair
  <2>2. QED
    BY <1>4, <2>1, RecordedSets
<1>7. ASSUME vd # "ip"
      PROVE  /\ Fits(CountedPair(e, ip, n)', Admitted(e, ip, n)', new, v2, h, now, PairWindow, PairLimit)
             /\ Open(CountedPair(e, ip, n)', v2, h, PairWindow)
  <2>1. PICK S, T, U, w : /\ S = CountedPair(e, ip, n) /\ T = Admitted(e, ip, n)
                          /\ U = Admitted(e, ip, n)' /\ w = Cleaned(e, pairs[e], PairWindow)[<<ip, n>>]
    OBVIOUS
  <2>2. CountedPair(e, ip, n)' = S \cup {a}
    BY <1>7, <2>1, RecordedPairs
  <2>3. a \notin S /\ \A b \in S : b \in Attempts \ {a} /\ new[b] = attempt[b]
    BY <1>6, <2>1
  <2>4. v2 = incrementWindow(w, PairWindow)
    BY <2>1 DEF Decision
  <2>5. Fits(S, T, attempt, w, g, now, PairWindow, PairLimit)
    BY <1>5, <2>1
  <2>6. U = T \/ (U = T \cup {a} /\ v2.count <= PairLimit)
    <3>1. CASE vd # "allowed"
      BY <2>1, <3>1, RecordedPairs
    <3>2. CASE vd = "allowed"
      <4>1. U = T \cup {a}
        BY <2>1, <3>2, RecordedPairs
      <4>2. ~(v2.count > PairLimit)
        BY <3>2 DEF Decision
      <4>3. v2.count \in Nat
        <5>1. w = NoWindow \/ w \in [start : Nat, count : Nat]
          BY <2>5 DEF Fits
        <5>2. QED
          BY <2>4, <5>1 DEF incrementWindow
      <4>4. QED
        BY <4>1, <4>2, <4>3, Limits
    <3>3. QED
      BY <3>1, <3>2
  <2>7. new[a].at = now /\ \A b \in S : new[b].at = attempt[b].at
    BY <1>1, <1>4, <2>3
  <2>8. h[a] = v2.start /\ \A b \in S : h[b] = g[b]
    BY <1>3, <2>3
  <2>9. Counting(S, T, attempt, w, g, PairWindow, PairLimit, a, v2, new, h, U)
    BY <1>1, <2>3, <2>4, <2>5, <2>6, <2>7, <2>8, Limits DEF Counting
  <2>10. /\ Fits(S \cup {a}, U, new, v2, h, now, PairWindow, PairLimit)
         /\ Open(S \cup {a}, v2, h, PairWindow)
    BY <2>9, OneMore
  <2>11. QED
    BY <2>1, <2>2, <2>10
<1>8. ASSUME NEW d \in Protected, NEW i \in Ips, NEW m \in Names,
             d # e \/ i # ip \/ m # n \/ vd = "ip"
      PROVE  Fits(CountedPair(d, i, m)', Admitted(d, i, m)', new, pairs'[d][<<i, m>>], h, now,
                  PairWindow, PairLimit)
  <2>1. CountedPair(d, i, m)' = CountedPair(d, i, m)
    BY <1>8, RecordedPairs
  <2>2. Admitted(d, i, m)' = Admitted(d, i, m)
    BY <1>8, RecordedPairs
  <2>3. Fits(CountedPair(d, i, m), Admitted(d, i, m), attempt, pairs'[d][<<i, m>>], g, now,
             PairWindow, PairLimit)
    <3>1. CASE d # e
      BY <3>1 DEF PairsFit, Recorded, Protected
    <3>2. CASE d = e
      <4>1. pairs'[d][<<i, m>>] = Cleaned(e, pairs[e], PairWindow)[<<i, m>>]
        BY <1>8, <3>2 DEF Recorded, Protected
      <4>2. QED
        BY <1>5, <3>2, <4>1
    <3>3. QED
      BY <3>1, <3>2
  <2>4. \A b \in CountedPair(d, i, m) : new[b].at = attempt[b].at /\ h[b] = g[b]
    BY <1>3, <1>6
  <2>5. Fits(CountedPair(d, i, m), Admitted(d, i, m), new, pairs'[d][<<i, m>>], h, now,
             PairWindow, PairLimit)
    BY <2>3, <2>4, SameTimes
  <2>6. QED
    BY <2>1, <2>2, <2>5
<1>9. (PairsFit(h))'
  <2>1. vd # "ip" => pairs'[e][<<ip, n>>] = v2
    BY DEF Recorded, Protected
  <2>2. \A d \in Protected, i \in Ips, m \in Names :
           Fits(CountedPair(d, i, m)', Admitted(d, i, m)', new, pairs'[d][<<i, m>>], h, now,
                PairWindow, PairLimit)
    BY <1>7, <1>8, <2>1
  <2>3. QED
    BY <1>1, <1>4, <2>2 DEF PairsFit, Protected, Names
<1>10. ASSUME vd = "pair" PROVE Recent(CountedPair(e, ip, n), a, PairWindow)' > PairLimit
  <2>1. PICK S, U : S = CountedPair(e, ip, n)' /\ U = Admitted(e, ip, n)'
    OBVIOUS
  <2>2. v2.count > PairLimit
    BY <1>10 DEF Decision
  <2>3. Fits(S, U, new, v2, h, now, PairWindow, PairLimit) /\ Open(S, v2, h, PairWindow)
    BY <1>7, <1>10, <2>1
  <2>4. Cardinality({b \in S : now - PairWindow + 1 <= new[b].at /\ new[b].at < now - PairWindow + 1 + PairWindow})
          > PairLimit
    BY <1>1, <2>2, <2>3, Limits, RefusedRightly
  <2>5. QED
    BY <1>1, <1>4, <2>1, <2>4 DEF Recent, During
<1>11. QED
  BY <1>9, <1>10

\* Recent, of the attempts as they are in new.
RecentIn(S, new, a, length) ==
    Cardinality({b \in S : new[a].at - length + 1 <= new[b].at
                          /\ new[b].at < new[a].at - length + 1 + length})

\* Later attempts take nothing away from the reason of a refusal.
LEMMA RecentGrows ==
    ASSUME NEW S, NEW R, S \subseteq R, IsFiniteSet(R), NEW a \in S, NEW length,
           NEW new, \A b \in S : new[b] = attempt[b], NEW limit \in Nat,
           Recent(S, a, length) > limit
    PROVE  RecentIn(R, new, a, length) > limit
<1>1. PICK A, B : /\ A = During(S, attempt[a].at - length + 1, length)
                  /\ B = {b \in R : new[a].at - length + 1 <= new[b].at
                                  /\ new[b].at < new[a].at - length + 1 + length}
  OBVIOUS
<1>2. A \subseteq B /\ B \subseteq R
  BY <1>1 DEF During
<1>3. IsFiniteSet(B)
  BY <1>2, FS_Subset
<1>4. Cardinality(A) <= Cardinality(B) /\ Cardinality(A) \in Nat /\ Cardinality(B) \in Nat
  BY <1>2, <1>3, FS_Subset, FS_CardinalityType
<1>5. QED
  BY <1>1, <1>4 DEF Recent, RecentIn

\* LoginProtector.Allow keeps the limiter right.
LEMMA AllowStep ==
    ASSUME LimiterInv, NEW a \in Attempts, NEW e \in Endpoints, NEW ip \in Ips,
           NEW sp \in Spellings, Allow(a, e, ip, sp)
    PROVE  LimiterInv'
<1>1. Requests /\ Tables /\ RefusalsRight
  BY DEF LimiterInv
<1>2. PICK n : n = Normal[sp]
  OBVIOUS
<1>3. Requests' /\ Tables' /\ e \in Protected /\ n \in Names
  BY <1>1, <1>2, AllowRecords
<1>4. PICK v1, v2, vd : Decision(e, ip, n, v1, v2, vd) /\ Recorded(a, e, ip, n, v1, v2, vd)
  BY <1>1, <1>2, AllowRecords
<1>5. PICK f : IpsFit(f)
  BY DEF LimiterInv
<1>6. PICK g : PairsFit(g)
  BY DEF LimiterInv
<1>7. /\ (\E h : IpsFit(h))'
      /\ vd = "ip" => Recent(Counted(e, ip), a, IPWindow)' > IPLimit
  BY <1>1, <1>3, <1>4, <1>5, AllowIps
<1>8. /\ (\E h : PairsFit(h))'
      /\ vd = "pair" => Recent(CountedPair(e, ip, n), a, PairWindow)' > PairLimit
  BY <1>1, <1>3, <1>4, <1>6, AllowPairs
<1>9. \A d \in Protected, i \in Ips : IsFiniteSet(Counted(d, i)')
  BY <1>7 DEF IpsFit, Fits, Protected
<1>10. attempt'[a].verdict = vd /\ attempt'[a].endpoint = e /\ attempt'[a].ip = ip
       /\ Normal[attempt'[a].name] = n
  BY <1>4 DEF Recorded
<1>11. PICK new : new = attempt'
  OBVIOUS
<1>12. ASSUME NEW d \in Protected, NEW i \in Ips, NEW b \in Counted(d, i)', attempt'[b].verdict = "ip"
       PROVE  Recent(Counted(d, i), b, IPWindow)' > IPLimit
  <2>1. CASE b = a
    <3>1. d = e /\ i = ip
      BY <1>10, <2>1 DEF Counted
    <3>2. QED
      BY <1>7, <1>10, <1>12, <2>1, <3>1
  <2>2. CASE b # a
    <3>1. PICK S, R : S = Counted(d, i) /\ R = Counted(d, i)'
      OBVIOUS
    <3>2. S \subseteq R /\ b \in S /\ \A c \in S : new[c] = attempt[c]
      BY <1>4, <1>11, <1>12, <2>2, <3>1, RecordedSets
    <3>3. IsFiniteSet(R)
      BY <1>9, <3>1
    <3>4. Recent(S, b, IPWindow) > IPLimit
      BY <1>1, <1>11, <1>12, <3>1, <3>2 DEF RefusalsRight
    <3>5. RecentIn(R, new, b, IPWindow) > IPLimit
      BY <3>2, <3>3, <3>4, Limits, RecentGrows
    <3>6. QED
      BY <1>11, <3>1, <3>5 DEF Recent, RecentIn, During
  <2>3. QED
    BY <2>1, <2>2
<1>13. ASSUME NEW d \in Protected, NEW i \in Ips, NEW m \in Names, NEW b \in CountedPair(d, i, m)',
              attempt'[b].verdict = "pair"
       PROVE  Recent(CountedPair(d, i, m), b, PairWindow)' > PairLimit
  <2>1. CASE b = a
    <3>1. d = e /\ i = ip /\ m = n
      BY <1>10, <2>1 DEF Counted, CountedPair
    <3>2. QED
      BY <1>8, <1>10, <1>13, <2>1, <3>1
  <2>2. CASE b # a
    <3>1. PICK S, R : S = CountedPair(d, i, m) /\ R = CountedPair(d, i, m)'
      OBVIOUS
    <3>2. S \subseteq Counted(d, i) /\ R \subseteq Counted(d, i)'
      BY <3>1 DEF CountedPair
    <3>3. S \subseteq R /\ b \in S
      BY <1>4, <1>13, <2>2, <3>1, RecordedPairs
    <3>4. \A c \in S : new[c] = attempt[c]
      BY <1>4, <1>11, <3>2, RecordedSets
    <3>5. IsFiniteSet(R)
      BY <1>9, <3>2, FS_Subset
    <3>6. Recent(S, b, PairWindow) > PairLimit
      BY <1>1, <1>11, <1>13, <3>1, <3>3, <3>4 DEF RefusalsRight
    <3>7. RecentIn(R, new, b, PairWindow) > PairLimit
      BY <3>3, <3>4, <3>5, <3>6, Limits, RecentGrows
    <3>8. QED
      BY <1>11, <3>1, <3>7 DEF Recent, RecentIn, During
  <2>3. QED
    BY <2>1, <2>2
<1>14. RefusalsRight'
  BY <1>12, <1>13 DEF RefusalsRight, Protected, Names
<1>15. QED
  BY <1>3, <1>7, <1>8, <1>14 DEF LimiterInv

----------------------------------------------------------------------------
(***************************************************************************)
(* The slots of the comparisons.                                           *)
(***************************************************************************)
Comparing(e) == {a \in running : attempt[a].endpoint = e}

\* A slot for each comparison that goes on, whether its request waits for it or not.
SlotsCounted ==
    /\ slots = [e \in Endpoints |-> slots[e]]
    /\ running \subseteq Attempts /\ IsFiniteSet(running)
    /\ \A a \in running : attempt[a] # Idle /\ attempt[a].pc \in {"wait", "answered"}
    /\ \A e \in Endpoints : slots[e] = Cardinality(Comparing(e)) /\ slots[e] <= BcryptConcurrent

LoginInv == LimiterInv /\ SlotsCounted

\* A request goes on to its next step.
LEMMA Moves ==
    ASSUME Requests, NEW a \in Attempts, attempt[a] # Idle, NEW q, SoundRequest(q),
           q.endpoint = attempt[a].endpoint, q.ip = attempt[a].ip, q.name = attempt[a].name,
           q.at = attempt[a].at, q.verdict = attempt[a].verdict,
           attempt' = [attempt EXCEPT ![a] = q]
    PROVE  /\ Requests' /\ Kept /\ attempt'[a] = q
           /\ \A b \in Attempts \ {a} : attempt'[b] = attempt[b]
<1>1. /\ attempt' = [b \in Attempts |-> attempt'[b]] /\ attempt'[a] = q
      /\ \A b \in Attempts \ {a} : attempt'[b] = attempt[b]
  BY DEF Requests
<1>2. \A b \in Attempts : attempt'[b] = Idle' \/ SoundRequest(attempt'[b])
  <2>1. \A b \in Attempts : attempt'[b] = Idle \/ SoundRequest(attempt'[b])
    BY <1>1 DEF Requests
  <2>2. QED
    BY <2>1 DEF Idle
<1>3. Requests'
  BY <1>1, <1>2 DEF Requests, SoundRequest
<1>4. q # Idle
  BY RequestNotIdle
<1>5. Kept
  BY <1>1, <1>4 DEF Kept, Unseen
<1>6. QED
  BY <1>1, <1>3, <1>5

\* A request that moves on keeps its endpoint, and the other requests stay where they
\* are.
LEMMA GotoMoves ==
    ASSUME Requests, NEW a \in Attempts, attempt[a] # Idle, NEW pc, Goto(a, pc),
           pc \in {"lookup", "compare", "wait", "create", "answered"}
    PROVE  /\ Requests' /\ Kept
           /\ attempt'[a] # Idle /\ attempt'[a].endpoint = attempt[a].endpoint /\ attempt'[a].pc = pc
           /\ \A b \in Attempts \ {a} : attempt'[b] = attempt[b]
<1>1. SoundRequest(attempt[a])
  BY DEF Requests
<1>2. PICK q : q = [attempt[a] EXCEPT !.pc = pc]
  OBVIOUS
<1>3. attempt' = [attempt EXCEPT ![a] = q]
  BY <1>2 DEF Goto
<1>4. q = [pc |-> pc, endpoint |-> attempt[a].endpoint, ip |-> attempt[a].ip,
           name |-> attempt[a].name, at |-> attempt[a].at, verdict |-> attempt[a].verdict,
           role |-> attempt[a].role]
  BY <1>1, <1>2 DEF SoundRequest
<1>5. /\ q.pc = pc /\ q.endpoint = attempt[a].endpoint /\ q.ip = attempt[a].ip
      /\ q.name = attempt[a].name /\ q.at = attempt[a].at /\ q.verdict = attempt[a].verdict
      /\ q.role = attempt[a].role
  BY <1>4
<1>6. SoundRequest(q)
  BY <1>1, <1>4, <1>5 DEF SoundRequest
<1>7. /\ Requests' /\ Kept /\ attempt'[a] = q
      /\ \A b \in Attempts \ {a} : attempt'[b] = attempt[b]
  BY <1>3, <1>5, <1>6, Moves
<1>8. QED
  BY <1>5, <1>6, <1>7, RequestNotIdle

\* A step that neither takes nor releases a slot.
LEMMA SlotsUnmoved ==
    ASSUME SlotsCounted, UNCHANGED <<slots, running>>,
           \A a \in running : /\ attempt'[a] # Idle /\ attempt'[a].endpoint = attempt[a].endpoint
                              /\ attempt'[a].pc \in {"wait", "answered"}
    PROVE  SlotsCounted'
<1>1. \A e : Comparing(e)' = Comparing(e)
  BY DEF Comparing
<1>2. \A a \in running : attempt'[a] # Idle'
  BY DEF Idle
<1>3. QED
  BY <1>1, <1>2 DEF SlotsCounted

\* A request that moves on without a slot, or leaves its comparison behind.
LEMMA GotoSlots ==
    ASSUME LoginInv, NEW a \in Attempts, attempt[a] # Idle, NEW pc, Goto(a, pc),
           pc \in {"compare", "answered"}, a \in running => pc = "answered",
           UNCHANGED <<now, limiter, slots, running>>
    PROVE  LoginInv'
<1>1. /\ Requests' /\ Kept
      /\ attempt'[a] # Idle /\ attempt'[a].endpoint = attempt[a].endpoint /\ attempt'[a].pc = pc
      /\ \A b \in Attempts \ {a} : attempt'[b] = attempt[b]
  <2>1. Requests /\ pc \in {"lookup", "compare", "wait", "create", "answered"}
    BY DEF LoginInv, LimiterInv
  <2>2. QED
    BY <2>1, GotoMoves
<1>2. LimiterInv'
  <2>1. UNCHANGED limiter /\ LimiterInv /\ (now' = now \/ now' = now + 1)
    BY DEF LoginInv
  <2>2. QED
    BY <1>1, <2>1, Unmoved
<1>3. \A b \in running : /\ attempt'[b] # Idle /\ attempt'[b].endpoint = attempt[b].endpoint
                         /\ attempt'[b].pc \in {"wait", "answered"}
  BY <1>1 DEF LoginInv, SlotsCounted
<1>4. SlotsCounted'
  BY <1>3, SlotsUnmoved DEF LoginInv
<1>5. QED
  BY <1>2, <1>4 DEF LoginInv

\* Compare takes a slot only when one is free.
LEMMA CompareStep ==
    ASSUME LoginInv, NEW a \in Attempts, Compare(a)
    PROVE  LoginInv'
<1>1. /\ attempt[a] # Idle /\ attempt[a].pc = "compare" /\ a \notin running
      /\ UNCHANGED <<now, limiter>> /\ Requests /\ LimiterInv
  BY DEF LoginInv, LimiterInv, SlotsCounted, Compare, At
<1>2. CASE UNCHANGED <<slots, running>> /\ Goto(a, "answered")
  BY <1>1, <1>2, GotoSlots
<1>3. PICK d : d = attempt[a].endpoint
  OBVIOUS
<1>4. CASE /\ slots[d] < BcryptConcurrent /\ slots' = [slots EXCEPT ![d] = @ + 1]
           /\ running' = running \cup {a} /\ Goto(a, "wait")
  <2>1. /\ Requests' /\ Kept
        /\ attempt'[a] # Idle /\ attempt'[a].endpoint = d /\ attempt'[a].pc = "wait"
        /\ \A b \in Attempts \ {a} : attempt'[b] = attempt[b]
    BY <1>1, <1>3, <1>4, GotoMoves
  <2>2. LimiterInv'
    BY <1>1, <2>1, Unmoved
  <2>3. d \in Endpoints
    BY <1>1, <1>3 DEF Requests, SoundRequest
  <2>4. /\ running \subseteq Attempts /\ IsFiniteSet(running) /\ slots = [e \in Endpoints |-> slots[e]]
        /\ \A b \in running : attempt[b] # Idle /\ attempt[b].pc \in {"wait", "answered"}
    BY DEF LoginInv, SlotsCounted
  <2>5. running' \subseteq Attempts /\ IsFiniteSet(running')
    BY <1>4, <2>4, FS_AddElement
  <2>6. \A b \in running' : attempt'[b] # Idle' /\ attempt'[b].pc \in {"wait", "answered"}
    <3>1. \A b \in running' : attempt'[b] # Idle /\ attempt'[b].pc \in {"wait", "answered"}
      BY <1>1, <1>4, <2>1, <2>4
    <3>2. QED
      BY <3>1 DEF Idle
  <2>7. /\ slots' = [e \in Endpoints |-> slots'[e]] /\ slots'[d] = slots[d] + 1
        /\ \A e \in Endpoints \ {d} : slots'[e] = slots[e]
    BY <1>4, <2>3, <2>4
  <2>8. ASSUME NEW e \in Endpoints
        PROVE  slots'[e] = Cardinality(Comparing(e)') /\ slots'[e] <= BcryptConcurrent
    <3>1. slots[e] = Cardinality(Comparing(e)) /\ slots[e] <= BcryptConcurrent
      BY DEF LoginInv, SlotsCounted
    <3>2. CASE e # d
      <4>1. Comparing(e)' = Comparing(e)
        BY <1>1, <1>4, <2>1, <2>4, <3>2 DEF Comparing
      <4>2. QED
        BY <2>7, <3>1, <3>2, <4>1
    <3>3. CASE e = d
      <4>1. Comparing(e)' = Comparing(e) \cup {a}
        BY <1>1, <1>4, <2>1, <2>4, <3>3 DEF Comparing
      <4>2. IsFiniteSet(Comparing(e)) /\ a \notin Comparing(e)
        BY <1>1, <2>4, FS_Subset DEF Comparing
      <4>3. Cardinality(Comparing(e) \cup {a}) = Cardinality(Comparing(e)) + 1
            /\ Cardinality(Comparing(e)) \in Nat
        BY <4>2, FS_AddElement, FS_CardinalityType
      <4>4. slots[d] + 1 <= BcryptConcurrent
        BY <1>4, <3>1, <3>3, <4>3, Limits
      <4>5. QED
        BY <2>7, <3>1, <3>3, <4>1, <4>3, <4>4
    <3>4. QED
      BY <3>2, <3>3
  <2>9. SlotsCounted'
    BY <2>5, <2>6, <2>7, <2>8 DEF SlotsCounted
  <2>10. QED
    BY <2>2, <2>9 DEF LoginInv
<1>5. QED
  BY <1>2, <1>3, <1>4 DEF Compare, Answer

\* The goroutine releases the slot it holds.
LEMMA BcryptEndsStep ==
    ASSUME LoginInv, NEW a \in Attempts, BcryptEnds(a)
    PROVE  LoginInv'
<1>1. PICK d : d = attempt[a].endpoint
  OBVIOUS
<1>2. /\ a \in running /\ running' = running \ {a} /\ slots' = [slots EXCEPT ![d] = @ - 1]
      /\ UNCHANGED <<now, limiter, attempt>> /\ Requests /\ LimiterInv
  BY <1>1 DEF LoginInv, LimiterInv, BcryptEnds
<1>3. /\ running \subseteq Attempts /\ IsFiniteSet(running) /\ slots = [e \in Endpoints |-> slots[e]]
      /\ \A b \in running : attempt[b] # Idle /\ attempt[b].pc \in {"wait", "answered"}
  BY DEF LoginInv, SlotsCounted
<1>4. d \in Endpoints
  BY <1>1, <1>2, <1>3 DEF Requests, SoundRequest
<1>5. LimiterInv'
  <2>1. Kept /\ Requests'
    BY <1>2 DEF Kept, Unseen, Requests, SoundRequest, Idle
  <2>2. QED
    BY <1>2, <2>1, Unmoved
<1>6. running' \subseteq Attempts /\ IsFiniteSet(running')
  BY <1>2, <1>3, FS_Subset
<1>7. \A b \in running' : attempt'[b] # Idle' /\ attempt'[b].pc \in {"wait", "answered"}
  BY <1>2, <1>3 DEF Idle
<1>8. /\ slots' = [e \in Endpoints |-> slots'[e]] /\ slots'[d] = slots[d] - 1
      /\ \A e \in Endpoints \ {d} : slots'[e] = slots[e]
  BY <1>2, <1>3, <1>4
<1>9. ASSUME NEW e \in Endpoints
      PROVE  slots'[e] = Cardinality(Comparing(e)') /\ slots'[e] <= BcryptConcurrent
  <2>1. slots[e] = Cardinality(Comparing(e)) /\ slots[e] <= BcryptConcurrent
    BY DEF LoginInv, SlotsCounted
  <2>2. CASE e # d
    <3>1. Comparing(e)' = Comparing(e)
      BY <1>1, <1>2, <2>2 DEF Comparing
    <3>2. QED
      BY <1>8, <2>1, <2>2, <3>1
  <2>3. CASE e = d
    <3>1. Comparing(e)' = Comparing(e) \ {a}
      BY <1>1, <1>2, <2>3 DEF Comparing
    <3>2. IsFiniteSet(Comparing(e)) /\ a \in Comparing(e)
      BY <1>1, <1>2, <1>3, <2>3, FS_Subset DEF Comparing
    <3>3. Cardinality(Comparing(e) \ {a}) = Cardinality(Comparing(e)) - 1
          /\ Cardinality(Comparing(e)) \in Nat
      BY <3>2, FS_RemoveElement, FS_CardinalityType
    <3>4. QED
      BY <1>8, <2>1, <2>3, <3>1, <3>3, Limits
  <2>4. QED
    BY <2>2, <2>3
<1>10. SlotsCounted'
  BY <1>6, <1>7, <1>8, <1>9 DEF SlotsCounted
<1>11. QED
  BY <1>5, <1>10 DEF LoginInv

\* The row of the account is read.
LEMMA GetByUsernameStep ==
    ASSUME LoginInv, NEW a \in Attempts, GetByUsername(a)
    PROVE  LoginInv'
<1>1. /\ attempt[a] # Idle /\ attempt[a].pc = "lookup" /\ a \notin running
      /\ UNCHANGED <<now, limiter, slots, running>> /\ Requests /\ LimiterInv
  BY DEF LoginInv, LimiterInv, SlotsCounted, GetByUsername, At
<1>2. CASE Goto(a, "answered")
  BY <1>1, <1>2, GotoSlots
<1>3. PICK role : role = users[Normal[attempt[a].name]]
  OBVIOUS
<1>4. CASE attempt' = [attempt EXCEPT ![a].pc = "compare", ![a].role = role]
  <2>1. SoundRequest(attempt[a])
    BY <1>1 DEF Requests
  <2>2. PICK q : q = [pc |-> "compare", endpoint |-> attempt[a].endpoint, ip |-> attempt[a].ip,
                      name |-> attempt[a].name, at |-> attempt[a].at,
                      verdict |-> attempt[a].verdict, role |-> role]
    OBVIOUS
  <2>3. [[attempt[a] EXCEPT !.pc = "compare"] EXCEPT !.role = role] = q
    <3>1. PICK p : p = [attempt[a] EXCEPT !.pc = "compare"]
      OBVIOUS
    <3>2. p = [pc |-> "compare", endpoint |-> attempt[a].endpoint, ip |-> attempt[a].ip,
               name |-> attempt[a].name, at |-> attempt[a].at,
               verdict |-> attempt[a].verdict, role |-> attempt[a].role]
      BY <2>1, <3>1 DEF SoundRequest
    <3>3. [p EXCEPT !.role = role] = q
      BY <2>2, <3>2
    <3>4. QED
      BY <3>1, <3>3
  <2>4. attempt' = [attempt EXCEPT ![a] = q]
    BY <1>1, <1>4, <2>3 DEF Requests
  <2>5. /\ q.pc = "compare" /\ q.endpoint = attempt[a].endpoint /\ q.ip = attempt[a].ip
        /\ q.name = attempt[a].name /\ q.at = attempt[a].at /\ q.verdict = attempt[a].verdict
        /\ q.role = role
    BY <2>2
  <2>6. SoundRequest(q)
    BY <2>1, <2>2, <2>5 DEF SoundRequest
  <2>7. Requests' /\ Kept /\ \A b \in Attempts \ {a} : attempt'[b] = attempt[b]
    BY <1>1, <2>4, <2>5, <2>6, Moves
  <2>8. LimiterInv'
    BY <1>1, <2>7, Unmoved
  <2>9. SlotsCounted'
    <3>1. \A b \in running : /\ attempt'[b] # Idle /\ attempt'[b].endpoint = attempt[b].endpoint
                             /\ attempt'[b].pc \in {"wait", "answered"}
      BY <1>1, <2>7 DEF LoginInv, SlotsCounted
    <3>2. QED
      BY <1>1, <3>1, SlotsUnmoved DEF LoginInv
  <2>10. QED
    BY <2>8, <2>9 DEF LoginInv
<1>5. QED
  BY <1>2, <1>3, <1>4 DEF GetByUsername, Answer

\* A request arrives, at a protected endpoint or at the registration.
LEMMA ArrivalStep ==
    ASSUME LoginInv, NEW a \in Attempts, NEW sp \in Spellings,
           RegisterHandler(a, sp) \/ \E e \in Endpoints, ip \in Ips : Allow(a, e, ip, sp)
    PROVE  LoginInv'
<1>1. Requests /\ Tables /\ LimiterInv
  BY DEF LoginInv, LimiterInv
<1>2. attempt[a] = Idle /\ UNCHANGED <<slots, running>>
  BY DEF RegisterHandler, Allow, Arrives
<1>3. \A b \in Attempts \ {a} : attempt'[b] = attempt[b]
  BY <1>1 DEF RegisterHandler, Allow, Requests
<1>4. SlotsCounted'
  <2>1. \A b \in running : /\ attempt'[b] # Idle /\ attempt'[b].endpoint = attempt[b].endpoint
                           /\ attempt'[b].pc \in {"wait", "answered"}
    BY <1>2, <1>3 DEF LoginInv, SlotsCounted
  <2>2. QED
    BY <1>2, <2>1, SlotsUnmoved DEF LoginInv
<1>5. CASE RegisterHandler(a, sp)
  <2>1. PICK pc : pc = IF Normal[sp] \in DOMAIN users THEN "answered" ELSE "create"
    OBVIOUS
  <2>2. PICK ip : ip = CHOOSE i \in Ips : TRUE
    OBVIOUS
  <2>3. PICK q : q = Request(pc, "register", ip, sp, "none")
    OBVIOUS
  <2>4. /\ attempt' = [attempt EXCEPT ![a] = q] /\ "register" \in Endpoints
        /\ UNCHANGED <<now, limiter>>
    BY <1>5, <2>1, <2>2, <2>3 DEF RegisterHandler
  <2>5. SoundRequest(q) /\ q.endpoint = "register"
    BY <2>1, <2>3, <2>4 DEF SoundRequest, Request
  <2>6. attempt' = [b \in Attempts |-> attempt'[b]] /\ attempt'[a] = q
    BY <1>1, <2>4 DEF Requests
  <2>7. Kept
    BY <1>2, <1>3, <2>5, <2>6 DEF Kept, Unseen
  <2>8. Requests'
    <3>1. \A b \in Attempts : attempt'[b] = Idle \/ SoundRequest(attempt'[b])
      BY <1>1, <1>3, <2>5, <2>6 DEF Requests
    <3>2. \A b \in Attempts : attempt'[b] = Idle' \/ SoundRequest(attempt'[b])
      BY <3>1 DEF Idle
    <3>3. QED
      BY <2>6, <3>2 DEF Requests, SoundRequest
  <2>9. LimiterInv'
    BY <1>1, <2>4, <2>7, <2>8, Unmoved
  <2>10. QED
    BY <1>4, <2>9 DEF LoginInv
<1>6. CASE \E e \in Endpoints, ip \in Ips : Allow(a, e, ip, sp)
  <2>1. LimiterInv'
    BY <1>1, <1>6, AllowStep
  <2>2. QED
    BY <1>4, <2>1 DEF LoginInv
<1>7. QED
  BY <1>5, <1>6

\* Time passes, or nothing changes.
LEMMA TickStep ==
    ASSUME LoginInv, Tick \/ UNCHANGED vars
    PROVE  LoginInv'
<1>1. UNCHANGED <<limiter, slots, running, attempt>> /\ (now' = now \/ now' = now + 1)
  BY DEF Tick, vars, limiter
<1>2. Requests' /\ Kept
  BY <1>1 DEF LoginInv, LimiterInv, Requests, SoundRequest, Idle, Kept, Unseen
<1>3. LimiterInv'
  BY <1>1, <1>2, Unmoved DEF LoginInv
<1>4. SlotsCounted'
  BY <1>1, SlotsUnmoved DEF LoginInv, SlotsCounted
<1>5. QED
  BY <1>3, <1>4 DEF LoginInv

\* The remaining steps answer a request.
LEMMA AnswerStep ==
    ASSUME LoginInv, NEW a \in Attempts,
           \/ \E right \in BOOLEAN : Authenticated(a, right)
           \/ CreateUser(a)
           \/ Timeout(a)
    PROVE  LoginInv'
<1>1. attempt[a] # Idle /\ Goto(a, "answered") /\ UNCHANGED <<now, limiter, slots, running>>
  BY DEF Authenticated, CreateUser, Timeout, At, Answer
<1>2. QED
  BY <1>1, GotoSlots

\* No attempt is made and no slot is taken.
LEMMA LoginInit == Init => LoginInv
<1> SUFFICES ASSUME Init PROVE LoginInv
  OBVIOUS
<1>1. LimiterInv
  BY LimiterInit
<1>2. \A e : Comparing(e) = {}
  BY DEF Init, Comparing
<1>3. SlotsCounted
  <2>1. Cardinality({}) = 0 /\ IsFiniteSet({}) /\ 0 <= BcryptConcurrent
    BY FS_EmptySet, Limits
  <2>2. running = {} /\ slots = [e \in Endpoints |-> 0]
    BY DEF Init
  <2>3. QED
    BY <1>2, <2>1, <2>2 DEF SlotsCounted
<1>4. QED
  BY <1>1, <1>3 DEF LoginInv

\* Every step of the handlers, of the goroutines and of the clock keeps the invariant.
LEMMA LoginStep == LoginInv /\ [Next]_vars => LoginInv'
<1> SUFFICES ASSUME LoginInv, [Next]_vars PROVE LoginInv'
  OBVIOUS
<1>1. CASE Tick \/ UNCHANGED vars
  BY <1>1, TickStep
<1>2. ASSUME NEW a \in Attempts, NEW sp \in Spellings,
             RegisterHandler(a, sp) \/ \E e \in Endpoints, ip \in Ips : Allow(a, e, ip, sp)
      PROVE  LoginInv'
  BY <1>2, ArrivalStep
<1>3. ASSUME NEW a \in Attempts, GetByUsername(a) PROVE LoginInv'
  BY <1>3, GetByUsernameStep
<1>4. ASSUME NEW a \in Attempts, Compare(a) PROVE LoginInv'
  BY <1>4, CompareStep
<1>5. ASSUME NEW a \in Attempts, BcryptEnds(a) PROVE LoginInv'
  BY <1>5, BcryptEndsStep
<1>6. ASSUME NEW a \in Attempts,
             (\E right \in BOOLEAN : Authenticated(a, right)) \/ CreateUser(a) \/ Timeout(a)
      PROVE  LoginInv'
  BY <1>6, AnswerStep
<1>7. QED
  BY <1>1, <1>2, <1>3, <1>4, <1>5, <1>6 DEF Next, Handler

\* Both limits of LoginProtector hold for every order of requests, timeouts, collections
\* and comparisons that outlive their request: no period as long as a window sees more
\* attempts of an address or a pair let through than two windows allow, a refusal is
\* founded on attempts of the last window, and a protector runs at most
\* BcryptConcurrent comparisons.
THEOREM LoginLimits == Spec => []LimitsHold
<1>1. LoginInv => LimitsHold
  <2> SUFFICES ASSUME LoginInv PROVE LimitsHold
    OBVIOUS
  <2>1. RateLimited
    BY LimiterRight DEF LoginInv
  <2>2. BcryptBounded
    BY DEF LoginInv, SlotsCounted, Comparing, BcryptBounded
  <2>3. QED
    BY <2>1, <2>2 DEF LimitsHold
<1>2. QED
  BY <1>1, LoginInit, LoginStep, PTL DEF Spec
=============================================================================
