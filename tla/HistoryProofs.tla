--------------------------- MODULE HistoryProofs ---------------------------
(***************************************************************************)
(* Message IDs and chat history, for any messages, rooms, page sizes and   *)
(* cache lengths: the IDs of nextID increase strictly, the list of a room  *)
(* in Redis is what the store would answer, and a walk through the history *)
(* of a room misses no message.                                            *)
(***************************************************************************)
EXTENDS History, FiniteSetTheorems, WellFoundedInduction, TLAPS

----------------------------------------------------------------------------
(***************************************************************************)
(* nextID, for every number of sequence numbers per millisecond and every  *)
(* pace of the calls.                                                      *)
(***************************************************************************)

\* The last ID belongs to the last millisecond, and to the last sequence number
\* of it unless a call is waiting because all of them are used up.
IInv ==
    /\ TypeOK
    /\ idLastMs <= clock
    /\ idLastMs # 0 => idLastMs >= IdEpoch
    /\ idLastMs = 0 => last = -1 /\ ~waiting
    /\ waiting => idSequence = 0
    /\ last < ID(idLastMs + 1, 0) \/ idLastMs = 0
    /\ idLastMs # 0 /\ ~waiting => last = ID(idLastMs, idSequence)

\* An ID of a later millisecond is larger than every ID of an earlier one: the
\* sequence number never carries over into the timestamp.
LEMMA LaterIsLarger ==
    ASSUME NEW m \in Nat, NEW n \in Nat, m < n
    PROVE  ID(m + 1, 0) <= ID(n, 0)
<1> DEFINE d == n - (m + 1)
<1>1. d \in Nat
  OBVIOUS
<1>2. (n - IdEpoch) * SeqRange = (m + 1 - IdEpoch) * SeqRange + d * SeqRange
  BY IdGeneratorAssumption
<1>3. d * SeqRange >= 0
  BY <1>1, IdGeneratorAssumption
<1>4. (m + 1 - IdEpoch) * SeqRange \in Int /\ (n - IdEpoch) * SeqRange \in Int
      /\ d * SeqRange \in Int
  BY IdGeneratorAssumption
<1>5. (m + 1 - IdEpoch) * SeqRange <= (n - IdEpoch) * SeqRange
  <2> DEFINE x == (m + 1 - IdEpoch) * SeqRange
             y == (n - IdEpoch) * SeqRange
             z == d * SeqRange
  <2>1. y = x + z /\ z >= 0 /\ x \in Int /\ y \in Int /\ z \in Int
    BY <1>2, <1>3, <1>4
  <2> HIDE DEF x, y, z
  <2>2. x <= y
    BY <2>1
  <2>3. QED
    BY <2>2 DEF x, y
<1>6. QED
  BY <1>4, <1>5, IdGeneratorAssumption DEF ID

\* IDs are integers, ordered by sequence number within a millisecond, and stay
\* below those of the next millisecond.
LEMMA WithinMillisecond ==
    ASSUME NEW m \in Nat, NEW s \in 0..(SeqRange - 1)
    PROVE  /\ ID(m, s) \in Int
           /\ ID(m, s) = ID(m, 0) + s
           /\ ID(m + 1, 0) = ID(m, 0) + SeqRange
           /\ ID(m, s) < ID(m + 1, 0)
<1>1. (m + 1 - IdEpoch) * SeqRange = (m - IdEpoch) * SeqRange + SeqRange
  BY IdGeneratorAssumption
<1>2. (m - IdEpoch) * SeqRange \in Int
  BY IdGeneratorAssumption
<1>3. QED
  BY <1>1, <1>2, IdGeneratorAssumption DEF ID

\* The invariant holds before the first call.
LEMMA InitInvariant == Init => IInv
<1> SUFFICES ASSUME Init PROVE IInv
  OBVIOUS
<1>1. TypeOK
  <2>1. clock \in IdEpoch..MaxClock /\ idLastMs \in 0..MaxClock
    BY IdGeneratorAssumption DEF Init
  <2>2. idSequence \in 0..(SeqRange - 1) /\ last \in Int
    BY IdGeneratorAssumption DEF Init
  <2>3. waiting \in BOOLEAN
    BY DEF Init
  <2>4. QED
    BY <2>1, <2>2, <2>3 DEF TypeOK
<1>2. idLastMs = 0 /\ last = -1 /\ idSequence = 0 /\ waiting = FALSE
  BY DEF Init
<1>3. idLastMs <= clock
  BY <1>1, <1>2, IdGeneratorAssumption DEF Init
<1>4. QED
  BY <1>1, <1>2, <1>3 DEF IInv

\* One step keeps the invariant, and an ID that it returns is larger.
LEMMA StepInvariant ==
    ASSUME IInv, [Next]_vars
    PROVE  IInv' /\ (Returns => last' > last)
<1> USE IdGeneratorAssumption
<1>1. CASE nextID /\ clock # idLastMs
  <2>1. /\ idSequence' = 0 /\ idLastMs' = clock /\ last' = ID(clock, 0)
        /\ waiting' = waiting /\ clock' = clock /\ ~waiting
    BY <1>1 DEF nextID
  <2>2. clock \in Nat /\ idLastMs \in Nat /\ idLastMs < clock /\ 0 \in 0..(SeqRange - 1)
    BY <1>1 DEF IInv, TypeOK
  <2>3. /\ ID(clock, 0) \in Int
        /\ ID(clock, 0) < ID(clock + 1, 0)
        /\ ID(clock + 1, 0) = ID(clock, 0) + SeqRange
    BY <2>2, WithinMillisecond
  <2>4. ID(idLastMs + 1, 0) \in Int /\ ID(idLastMs + 1, 0) <= ID(clock, 0)
    <3>1. ID(idLastMs + 1, 0) \in Int
      BY <2>2, WithinMillisecond, idLastMs + 1 \in Nat
    <3>2. QED
      BY <3>1, <2>2, LaterIsLarger
  <2>5. ID(clock, 0) >= 0
    <3>1. clock - IdEpoch \in Nat
      BY DEF IInv, TypeOK
    <3>2. (clock - IdEpoch) * SeqRange >= 0
      BY <3>1
    <3>3. (clock - IdEpoch) * SeqRange \in Int
      BY <3>1
    <3>4. QED
      BY <3>2, <3>3 DEF ID
  <2>6. last' > last
    BY <2>1, <2>3, <2>4, <2>5 DEF IInv, TypeOK
  <2>7. IInv'
    BY <2>1, <2>2, <2>3 DEF IInv, TypeOK
  <2>8. QED
    BY <2>6, <2>7
<1>2. CASE nextID /\ clock = idLastMs
  <2>1. /\ idSequence' = (idSequence + 1) % SeqRange /\ idLastMs' = idLastMs
        /\ waiting' = (idSequence' = 0) /\ ~waiting /\ clock' = clock
        /\ last' = IF waiting' THEN last ELSE ID(clock, idSequence')
    BY <1>2 DEF nextID
  <2>2. /\ idLastMs \in Nat /\ idLastMs # 0 /\ clock = idLastMs
        /\ idSequence \in 0..(SeqRange - 1) /\ idSequence' \in 0..(SeqRange - 1)
    BY <1>2, <2>1 DEF IInv, TypeOK
  <2>3. last = ID(idLastMs, idSequence) /\ last < ID(idLastMs + 1, 0) /\ last \in Int
    BY <2>1, <2>2 DEF IInv, TypeOK
  <2>4. /\ ID(idLastMs, idSequence) = ID(idLastMs, 0) + idSequence
        /\ ID(idLastMs, 0) \in Int
        /\ ID(idLastMs, idSequence') = ID(idLastMs, 0) + idSequence'
        /\ ID(idLastMs, idSequence') < ID(idLastMs + 1, 0)
        /\ ID(idLastMs, idSequence') \in Int
    <3>1. 0 \in 0..(SeqRange - 1)
      OBVIOUS
    <3>2. QED
      BY <2>2, <3>1, WithinMillisecond
  <2>5. CASE idSequence' = 0
    BY <2>1, <2>2, <2>3, <2>5 DEF IInv, TypeOK, Returns
  <2>6. CASE idSequence' # 0
    <3>1. idSequence' = idSequence + 1
      BY <2>1, <2>2, <2>6
    <3>2. last' = ID(idLastMs, idSequence') /\ waiting' = FALSE
      BY <2>1, <2>2, <2>6
    <3>3. last' > last
      BY <3>1, <3>2, <2>3, <2>4, <2>2
    <3>4. IInv'
      BY <2>1, <2>2, <2>4, <3>2 DEF IInv, TypeOK
    <3>5. QED
      BY <3>3, <3>4
  <2>7. QED
    BY <2>5, <2>6
<1>3. CASE NextMillisecond
  <2>1. /\ idSequence' = idSequence /\ idLastMs' = clock /\ clock' = clock
        /\ last' = ID(clock, idSequence) /\ waiting' = FALSE /\ waiting
        /\ clock > idLastMs
    BY <1>3 DEF NextMillisecond
  <2>2. clock \in Nat /\ idLastMs \in Nat /\ idSequence = 0 /\ idLastMs # 0
        /\ 0 \in 0..(SeqRange - 1)
    BY <2>1 DEF IInv, TypeOK
  <2>3. ID(clock, 0) \in Int /\ ID(clock, 0) < ID(clock + 1, 0)
    BY <2>2, WithinMillisecond
  <2>4. ID(idLastMs + 1, 0) \in Int /\ ID(idLastMs + 1, 0) <= ID(clock, 0)
    <3>1. ID(idLastMs + 1, 0) \in Int
      BY <2>2, WithinMillisecond, idLastMs + 1 \in Nat
    <3>2. QED
      BY <3>1, <2>1, <2>2, LaterIsLarger
  <2>5. last' > last
    BY <2>1, <2>2, <2>3, <2>4 DEF IInv, TypeOK
  <2>6. IInv'
    <3>1. last' = ID(clock, 0)
      BY <2>1, <2>2
    <3>2. TypeOK'
      <4>1. clock' \in IdEpoch..MaxClock /\ idLastMs' \in 0..MaxClock
        BY <2>1 DEF IInv, TypeOK
      <4>2. idSequence' \in 0..(SeqRange - 1) /\ last' \in Int
        BY <2>1, <2>2, <2>3, <3>1
      <4>3. waiting' \in BOOLEAN
        BY <2>1
      <4>4. QED
        BY <4>1, <4>2, <4>3 DEF TypeOK
    <3>3. idLastMs' = clock /\ clock \in Nat /\ clock >= IdEpoch /\ clock # 0
      BY <2>1, <2>2 DEF IInv, TypeOK
    <3>4. /\ idSequence' = 0 /\ clock' = clock /\ waiting' = FALSE
          /\ last' = ID(idLastMs', idSequence') /\ last' < ID(idLastMs' + 1, 0)
      BY <2>1, <2>2, <2>3, <3>1
    <3>5. QED
      BY <3>2, <3>3, <3>4 DEF IInv
  <2>7. QED
    BY <2>5, <2>6
<1>4. CASE Tick
  BY <1>4 DEF Tick, IInv, TypeOK, Returns
<1>5. CASE UNCHANGED vars
  BY <1>5 DEF vars, IInv, TypeOK, Returns
<1>6. QED
  BY <1>1, <1>2, <1>3, <1>4, <1>5 DEF Next

\* The sequence number stays below SeqRange and the recorded millisecond never
\* runs ahead of the clock, along with the types of the variables.
THEOREM Invariance == Spec => []IInv
<1>1. IInv /\ [Next]_vars => IInv'
  BY StepInvariant
<1>2. QED
  BY <1>1, InitInvariant, PTL DEF Spec

\* Message IDs increase strictly from call to call, hence none is given twice.
THEOREM Increasing == Spec => IdsIncrease
<1>1. IInv /\ [Next]_vars => [Returns => last' > last]_vars
  BY StepInvariant
<1>2. QED
  BY <1>1, Invariance, PTL DEF Spec, IdsIncrease

----------------------------------------------------------------------------
(***************************************************************************)
(* The order of the messages, and what the sorted queries return.          *)
(***************************************************************************)
\* A finite set of rows with a time and an ID of their own.
IsTable(R) ==
    /\ IsFiniteSet(R)
    /\ \A r \in R : r.id \in Int /\ r.at \in Int
    /\ \A r, s \in R : r.id = s.id => r = s

\* A part of a table is a table.
LEMMA PartOfTable ==
    ASSUME NEW R, IsTable(R), NEW S \in SUBSET R
    PROVE  IsTable(S)
BY FS_Subset DEF IsTable

\* created_at and id order the rows of a table.
LEMMA BeforeOrders ==
    ASSUME NEW R, \A r \in R : r.id \in Int /\ r.at \in Int,
           NEW a \in R, NEW b \in R, NEW c \in R
    PROVE  /\ ~Before(a, a)
           /\ Before(a, b) /\ Before(b, c) => Before(a, c)
           /\ Before(a, b) => ~Before(b, a) /\ a # b
           /\ a.id # b.id => Before(a, b) \/ Before(b, a)
BY DEF Before

\* A set of natural numbers that is not empty has a smallest one.
LEMMA Smallest ==
    ASSUME NEW S \in SUBSET Nat, S # {}
    PROVE  \E x \in S : \A y \in S : ~(y < x)
<1>1. PICK x \in S : \A y \in S : <<y, x>> \notin OpToRel(<, Nat)
  BY NatLessThanWellFounded, WFMin
<1>2. QED
  BY <1>1 DEF OpToRel

\* A family of finite sets that is not empty has a member without a smaller one.
LEMMA SmallestSet ==
    ASSUME NEW F, F # {}, \A S \in F : IsFiniteSet(S)
    PROVE  \E S \in F : \A x \in S : S \ {x} \notin F
<1>1. PICK N : N = {n \in Nat : \E S \in F : Cardinality(S) = n}
  OBVIOUS
<1>2. N \in SUBSET Nat /\ N # {}
  BY <1>1, FS_CardinalityType
<1>3. PICK n \in N : \A k \in N : ~(k < n)
  BY <1>2, Smallest
<1>4. PICK S \in F : Cardinality(S) = n
  BY <1>1, <1>3
<1>5. ASSUME NEW x \in S, S \ {x} \in F PROVE FALSE
  <2>1. Cardinality(S \ {x}) = Cardinality(S) - 1 /\ Cardinality(S \ {x}) \in Nat
    <3>1. IsFiniteSet(S)
      BY <1>4
    <3>2. QED
      BY <1>5, <3>1, FS_RemoveElement, FS_CardinalityType
  <2>2. n - 1 \in N
    BY <1>1, <1>4, <1>5, <2>1
  <2>3. QED
    BY <1>2, <1>3, <2>2
<1>6. QED
  BY <1>5

\* A table that is not empty has a newest row.
LEMMA NewestRow ==
    ASSUME NEW R, IsTable(R), R # {}
    PROVE  \E m \in R : \A r \in R : r = m \/ Before(r, m)
<1>1. PICK F : F = {S \in SUBSET R : S # {} /\ ~\E m \in S : \A r \in S : r = m \/ Before(r, m)}
  OBVIOUS
<1>2. SUFFICES ASSUME F # {} PROVE FALSE
  BY <1>1
<1>3. \A S \in F : IsFiniteSet(S)
  BY <1>1, FS_Subset DEF IsTable
<1>4. PICK S \in F : \A x \in S : S \ {x} \notin F
  BY <1>2, <1>3, SmallestSet
<1>5. S \subseteq R /\ S # {} /\ ~\E m \in S : \A r \in S : r = m \/ Before(r, m)
  BY <1>1
<1>6. PICK x \in S : TRUE
  BY <1>5
<1>7. CASE S \ {x} = {}
  BY <1>5, <1>6, <1>7
<1>8. CASE S \ {x} # {}
  <2>1. PICK m \in S \ {x} : \A r \in S \ {x} : r = m \/ Before(r, m)
    BY <1>1, <1>4, <1>5, <1>8
  <2>2. m.id # x.id /\ m \in R /\ x \in R
    BY <1>5, <2>1 DEF IsTable
  <2>3. Before(m, x) \/ Before(x, m)
    BY <2>2, BeforeOrders DEF IsTable
  <2>4. CASE Before(x, m)
    BY <1>5, <2>1, <2>4
  <2>5. CASE Before(m, x)
    <3>1. \A r \in S \ {x} : Before(r, x)
      BY <1>5, <2>1, <2>2, <2>5, BeforeOrders DEF IsTable
    <3>2. QED
      BY <1>5, <3>1
  <2>6. QED
    BY <2>3, <2>4, <2>5
<1>9. QED
  BY <1>7, <1>8

\* s lists the rows of R, the oldest first.
Lists(s, R) ==
    /\ s \in [1..Cardinality(R) -> R]
    /\ \A i, j \in 1..Cardinality(R) : i < j => Before(s[i], s[j])

\* Every table can be listed.
LEMMA ListExists ==
    ASSUME NEW R, IsTable(R)
    PROVE  \E s : Lists(s, R)
<1>1. PICK F : F = {S \in SUBSET R : ~\E s : Lists(s, S)}
  OBVIOUS
<1>2. SUFFICES ASSUME F # {} PROVE FALSE
  BY <1>1
<1>3. \A S \in F : IsFiniteSet(S)
  BY <1>1, FS_Subset DEF IsTable
<1>4. PICK S \in F : \A x \in S : S \ {x} \notin F
  BY <1>2, <1>3, SmallestSet
<1>5. S \subseteq R /\ (~\E s : Lists(s, S)) /\ IsTable(S)
  BY <1>1, PartOfTable
<1>6. CASE S = {}
  <2>1. Cardinality(S) = 0
    BY <1>6, FS_EmptySet
  <2>2. Lists([i \in {} |-> i], S)
    BY <1>6, <2>1 DEF Lists
  <2>3. QED
    BY <1>5, <2>2
<1>7. CASE S # {}
  <2>1. PICK m \in S : \A r \in S : r = m \/ Before(r, m)
    BY <1>5, <1>7, NewestRow
  <2>2. PICK T : T = S \ {m}
    OBVIOUS
  <2>3. PICK s : Lists(s, T)
    BY <1>1, <1>4, <1>5, <2>2
  <2>4. PICK n : n = Cardinality(T)
    OBVIOUS
  <2>5. Cardinality(S) = n + 1 /\ n \in Nat
    <3>1. IsFiniteSet(S) /\ m \in S
      BY <1>5 DEF IsTable
    <3>2. Cardinality(S \ {m}) = Cardinality(S) - 1 /\ IsFiniteSet(S \ {m}) /\ Cardinality(S) \in Nat
      BY <3>1, FS_RemoveElement, FS_CardinalityType
    <3>3. Cardinality(T) \in Nat
      BY <2>2, <3>2, FS_CardinalityType
    <3>4. QED
      BY <2>2, <2>4, <3>2, <3>3
  <2>6. s \in [1..n -> T] /\ \A i, j \in 1..n : i < j => Before(s[i], s[j])
    BY <2>3, <2>4 DEF Lists
  <2>7. PICK u : u = [i \in 1..(n + 1) |-> IF i = n + 1 THEN m ELSE s[i]]
    OBVIOUS
  <2>8. \A i \in 1..(n + 1) : i = n + 1 \/ i \in 1..n
    BY <2>5
  <2>9. u \in [1..(n + 1) -> S]
    BY <2>2, <2>6, <2>7, <2>8
  <2>10. ASSUME NEW i \in 1..(n + 1), NEW j \in 1..(n + 1), i < j PROVE Before(u[i], u[j])
    <3>1. i \in 1..n /\ u[i] = s[i] /\ s[i] \in T
      BY <2>5, <2>6, <2>7, <2>8, <2>10
    <3>2. CASE j = n + 1
      BY <2>1, <2>2, <2>7, <3>1, <3>2
    <3>3. CASE j \in 1..n
      <4>1. u[j] = s[j]
        BY <2>5, <2>7, <3>3
      <4>2. QED
        BY <2>6, <2>10, <3>1, <3>3, <4>1
    <3>4. QED
      BY <2>8, <3>2, <3>3
  <2>11. Lists(u, S)
    BY <2>5, <2>9, <2>10 DEF Lists
  <2>12. QED
    BY <1>5, <2>11
<1>8. QED
  BY <1>6, <1>7

\* A list is a sequence without repetition that shows every row.
LEMMA ListShowsAll ==
    ASSUME NEW R, IsTable(R), NEW s, Lists(s, R)
    PROVE  /\ \A i, j \in 1..Cardinality(R) : s[i] = s[j] => i = j
           /\ \A r \in R : \E i \in 1..Cardinality(R) : s[i] = r
           /\ Cardinality(R) \in Nat
<1>1. PICK n : n = Cardinality(R)
  OBVIOUS
<1>2. IsFiniteSet(R) /\ n \in Nat
  BY <1>1, FS_CardinalityType DEF IsTable
<1>3. s \in [1..n -> R] /\ \A i, j \in 1..n : i < j => Before(s[i], s[j])
  BY <1>1 DEF Lists
<1>4. ASSUME NEW i \in 1..n, NEW j \in 1..n, s[i] = s[j] PROVE i = j
  <2>1. s[i] \in R /\ ~Before(s[i], s[i])
    BY <1>3, BeforeOrders DEF IsTable
  <2>2. i < j \/ j < i \/ i = j
    BY <1>2
  <2>3. QED
    BY <1>3, <1>4, <2>1, <2>2
<1>5. s \in Injection(1..n, R)
  BY <1>3, <1>4 DEF Injection, IsInjective
<1>6. Cardinality(1..n) = n
  BY <1>2, FS_Interval
<1>7. s \in Surjection(1..n, R)
  BY <1>1, <1>2, <1>5, <1>6, FS_Injection
<1>8. \A r \in R : \E i \in 1..n : s[i] = r
  BY <1>7 DEF Surjection
<1>9. QED
  BY <1>1, <1>2, <1>4, <1>8

\* ORDER BY created_at, id.
LEMMA AscendingLists ==
    ASSUME NEW R, IsTable(R)
    PROVE  Lists(Ascending(R), R)
<1>1. PICK n : n = Cardinality(R)
  OBVIOUS
<1>2. PICK s : Lists(s, R)
  BY ListExists
<1>3. s \in [1..n -> R] /\ DOMAIN s = 1..n /\ \A i, j \in 1..n : i < j => Before(s[i], s[j])
  BY <1>1, <1>2 DEF Lists
<1>4. \A i, j \in 1..n : i # j => s[i] # s[j]
  BY <1>1, <1>2, ListShowsAll
<1>5. s \in SetToSeqs(R)
  BY <1>1, <1>3, <1>4 DEF SetToSeqs
<1>6. \E u \in SetToSeqs(R) : \A i, j \in DOMAIN u : i < j => Before(u[i], u[j])
  BY <1>3, <1>5
<1>7. PICK u : u = Ascending(R)
  OBVIOUS
<1>8. u \in SetToSeqs(R) /\ \A i, j \in DOMAIN u : i < j => Before(u[i], u[j])
  BY <1>6, <1>7 DEF Ascending
<1>9. u \in [1..n -> R] /\ DOMAIN u = 1..n
  BY <1>1, <1>8 DEF SetToSeqs
<1>10. Lists(u, R)
  BY <1>1, <1>8, <1>9 DEF Lists
<1>11. QED
  BY <1>7, <1>10

\* ORDER BY created_at DESC, id DESC.
LEMMA DescendingLists ==
    ASSUME NEW R, IsTable(R), NEW d, d = Descending(R)
    PROVE  /\ Cardinality(R) \in Nat /\ d \in [1..Cardinality(R) -> R] /\ Len(d) = Cardinality(R)
           /\ \A i, j \in 1..Cardinality(R) : i < j => Before(d[j], d[i])
           /\ \A r \in R : \E i \in 1..Cardinality(R) : d[i] = r
<1>1. PICK n : n = Cardinality(R)
  OBVIOUS
<1>2. PICK s : s = Ascending(R)
  OBVIOUS
<1>3. Lists(s, R)
  BY <1>2, AscendingLists
<1>4. /\ n \in Nat /\ s \in [1..n -> R] /\ \A i, j \in 1..n : i < j => Before(s[i], s[j])
      /\ \A r \in R : \E i \in 1..n : s[i] = r
  <2>1. s \in [1..n -> R] /\ \A i, j \in 1..n : i < j => Before(s[i], s[j])
    BY <1>1, <1>3 DEF Lists
  <2>2. n \in Nat /\ \A r \in R : \E i \in 1..n : s[i] = r
    BY <1>1, <1>3, ListShowsAll
  <2>3. QED
    BY <2>1, <2>2
<1>5. s \in Seq(R) /\ Len(s) = n
  BY <1>4
<1>6. d = [i \in 1..n |-> s[(n - i) + 1]]
  BY <1>2, <1>5 DEF Descending, Reverse
<1>7. \A i \in 1..n : (n - i) + 1 \in 1..n
  BY <1>4
<1>8. d \in [1..n -> R]
  BY <1>4, <1>6, <1>7
<1>9. Len(d) = n
  BY <1>4, <1>8
<1>10. \A i, j \in 1..n : i < j => Before(d[j], d[i])
  <2> SUFFICES ASSUME NEW i \in 1..n, NEW j \in 1..n, i < j PROVE Before(d[j], d[i])
    OBVIOUS
  <2>1. (n - j) + 1 \in 1..n /\ (n - i) + 1 \in 1..n /\ (n - j) + 1 < (n - i) + 1
    BY <1>4
  <2>2. Before(s[(n - j) + 1], s[(n - i) + 1])
    BY <1>4, <2>1
  <2>3. QED
    BY <1>6, <2>2
<1>11. ASSUME NEW r \in R PROVE \E i \in 1..n : d[i] = r
  <2>1. PICK k \in 1..n : s[k] = r
    BY <1>4
  <2>2. (n - k) + 1 \in 1..n /\ (n - ((n - k) + 1)) + 1 = k
    BY <1>4
  <2>3. d[(n - k) + 1] = r
    BY <1>6, <2>1, <2>2
  <2>4. QED
    BY <2>2, <2>3
<1>12. QED
  BY <1>1, <1>4, <1>8, <1>9, <1>10, <1>11

\* Limit keeps the first elements.
LEMMA LimitFacts ==
    ASSUME NEW S, NEW s \in Seq(S), NEW k \in Nat, NEW u, u = Limit(s, k)
    PROVE  /\ u \in Seq(S) /\ Len(u) = IF k < Len(s) THEN k ELSE Len(s)
           /\ \A i \in 1..Len(u) : i \in 1..Len(s) /\ u[i] = s[i]
           /\ Len(u) \in Nat /\ Len(s) \in Nat
<1>1. PICK m : m = IF k < Len(s) THEN k ELSE Len(s)
  OBVIOUS
<1>2. m \in 0..Len(s) /\ Len(s) \in Nat /\ u = SubSeq(s, 1, m)
  BY <1>1 DEF Limit
<1>3. u \in Seq(S) /\ Len(u) = m /\ \A i \in 1..m : u[i] = s[i]
  BY <1>2
<1>4. QED
  BY <1>1, <1>2, <1>3

\* Reverse turns a sequence round.
LEMMA ReverseFacts ==
    ASSUME NEW S, NEW s \in Seq(S), NEW u, u = Reverse(s)
    PROVE  /\ u \in Seq(S) /\ Len(u) = Len(s) /\ Len(s) \in Nat
           /\ \A i \in 1..Len(s) : /\ (Len(s) - i) + 1 \in 1..Len(s)
                                   /\ u[i] = s[(Len(s) - i) + 1] /\ s[i] = u[(Len(s) - i) + 1]
<1>1. PICK n : n = Len(s)
  OBVIOUS
<1>2. n \in Nat /\ u = [i \in 1..n |-> s[(n - i) + 1]]
  BY <1>1 DEF Reverse
<1>3. \A i \in 1..n : (n - i) + 1 \in 1..n /\ (n - ((n - i) + 1)) + 1 = i /\ s[i] \in S
  BY <1>1, <1>2
<1>4. u \in Seq(S) /\ Len(u) = n
  BY <1>2, <1>3
<1>5. QED
  BY <1>1, <1>2, <1>3, <1>4

----------------------------------------------------------------------------
(***************************************************************************)
(* Lists that show the newest rows of a table.                             *)
(***************************************************************************)
\* s begins with the newest row of R, goes on to older ones and skips none.
Leads(s, R) ==
    /\ s \in Seq(R)
    /\ \A i, j \in 1..Len(s) : i < j => Before(s[j], s[i])
    /\ \A r \in R : (\E i \in 1..Len(s) : s[i] = r) \/ (\A i \in 1..Len(s) : Before(r, s[i]))

\* The sorted result of a query leads its rows.
LEMMA DescendingLeads ==
    ASSUME NEW R, IsTable(R)
    PROVE  Leads(Descending(R), R)
<1>1. PICK d : d = Descending(R)
  OBVIOUS
<1>2. PICK n : n = Cardinality(R)
  OBVIOUS
<1>3. /\ n \in Nat /\ d \in [1..n -> R] /\ Len(d) = n
      /\ \A i, j \in 1..n : i < j => Before(d[j], d[i])
      /\ \A r \in R : \E i \in 1..n : d[i] = r
  BY <1>1, <1>2, DescendingLists
<1>4. d \in Seq(R)
  BY <1>3
<1>5. Leads(d, R)
  BY <1>3, <1>4 DEF Leads
<1>6. QED
  BY <1>1, <1>5

\* So does the beginning of a list that leads them; a row that it leaves out is
\* older than all it shows, and the list is as long as it may be if s shows the row.
LEMMA LimitLeads ==
    ASSUME NEW R, NEW s, Leads(s, R), NEW k \in Nat, NEW u, u = Limit(s, k)
    PROVE  /\ Leads(u, R) /\ u \in Seq(R) /\ Len(u) \in Nat /\ Len(u) <= k
           /\ \A i \in 1..Len(s) : (\E j \in 1..Len(u) : u[j] = s[i]) \/ Len(u) = k
<1>1. s \in Seq(R) /\ \A i, j \in 1..Len(s) : i < j => Before(s[j], s[i])
  BY DEF Leads
<1>2. /\ u \in Seq(R) /\ Len(u) = IF k < Len(s) THEN k ELSE Len(s)
      /\ \A i \in 1..Len(u) : i \in 1..Len(s) /\ u[i] = s[i]
      /\ Len(u) \in Nat /\ Len(s) \in Nat
  BY <1>1, LimitFacts
<1>3. \A i, j \in 1..Len(u) : i < j => Before(u[j], u[i])
  BY <1>1, <1>2
<1>4. ASSUME NEW r \in R
      PROVE (\E i \in 1..Len(u) : u[i] = r) \/ (\A i \in 1..Len(u) : Before(r, u[i]))
  <2>1. CASE \A i \in 1..Len(s) : Before(r, s[i])
    BY <1>2, <2>1
  <2>2. CASE \E i \in 1..Len(s) : s[i] = r
    <3>1. PICK i \in 1..Len(s) : s[i] = r
      BY <2>2
    <3>2. CASE i \in 1..Len(u)
      BY <1>2, <3>1, <3>2
    <3>3. CASE ~(i \in 1..Len(u))
      <4>1. \A j \in 1..Len(u) : j < i
        BY <1>2, <3>3
      <4>2. QED
        BY <1>1, <1>2, <3>1, <4>1
    <3>4. QED
      BY <3>2, <3>3
  <2>3. QED
    BY <2>1, <2>2 DEF Leads
<1>5. Leads(u, R)
  BY <1>2, <1>3, <1>4 DEF Leads
<1>6. \A i \in 1..Len(s) : (\E j \in 1..Len(u) : u[j] = s[i]) \/ Len(u) = k
  <2> SUFFICES ASSUME NEW i \in 1..Len(s), Len(u) # k PROVE \E j \in 1..Len(u) : u[j] = s[i]
    OBVIOUS
  <2>1. i \in 1..Len(u)
    BY <1>2
  <2>2. QED
    BY <1>2, <2>1
<1>7. Len(u) <= k
  BY <1>2
<1>8. QED
  BY <1>2, <1>5, <1>6, <1>7

\* A list that leads the rows is the beginning of the sorted result.
LEMMA LeadsIs ==
    ASSUME NEW R, IsTable(R), NEW s, Leads(s, R), NEW d, d = Descending(R)
    PROVE  Len(s) <= Len(d) /\ \A i \in 1..Len(s) : s[i] = d[i]
<1>1. PICK n : n = Cardinality(R)
  OBVIOUS
<1>2. /\ n \in Nat /\ d \in [1..n -> R] /\ Len(d) = n
      /\ \A i, j \in 1..n : i < j => Before(d[j], d[i])
      /\ \A r \in R : \E i \in 1..n : d[i] = r
  BY <1>1, DescendingLists
<1>3. PICK m : m = Len(s)
  OBVIOUS
<1>4. /\ s \in Seq(R) /\ m \in Nat /\ \A i \in 1..m : s[i] \in R
      /\ \A i, j \in 1..m : i < j => Before(s[j], s[i])
      /\ \A r \in R : (\E i \in 1..m : s[i] = r) \/ (\A i \in 1..m : Before(r, s[i]))
  BY <1>3 DEF Leads
<1>5. \A a, b \in R : ~Before(a, a) /\ (Before(a, b) => ~Before(b, a))
  BY BeforeOrders DEF IsTable
<1>6. PICK B : B = {i \in 1..m : i > n \/ s[i] # d[i]}
  OBVIOUS
<1>7. ASSUME B # {} PROVE FALSE
  <2>1. B \in SUBSET Nat
    BY <1>6
  <2>2. PICK i \in B : \A y \in B : ~(y < i)
    BY <1>7, <2>1, Smallest
  <2>3. i \in 1..m /\ (i > n \/ s[i] # d[i])
    BY <1>6
  <2>4. \A j \in 1..m : j < i => j \in 1..n /\ s[j] = d[j]
    BY <1>2, <1>4, <1>6, <2>2, <2>3
  <2>5. PICK k \in 1..n : d[k] = s[i]
    BY <1>2, <1>4, <2>3
  <2>6. ~(k < i)
    <3> SUFFICES ASSUME k < i PROVE FALSE
      OBVIOUS
    <3>1. k \in 1..m /\ s[k] = d[k]
      BY <1>4, <2>3, <2>4
    <3>2. Before(s[i], s[k]) /\ s[i] \in R
      BY <1>4, <2>3, <3>1
    <3>3. QED
      BY <1>5, <2>5, <3>1, <3>2
  <2>7. i < k /\ i \in 1..n
    BY <1>2, <1>4, <2>3, <2>5, <2>6
  <2>8. d[i] \in R /\ d[k] \in R /\ Before(d[k], d[i])
    BY <1>2, <2>5, <2>7
  <2>9. CASE \A j \in 1..m : Before(d[i], s[j])
    BY <1>5, <2>3, <2>5, <2>8, <2>9
  <2>10. CASE \E j \in 1..m : s[j] = d[i]
    <3>1. PICK j \in 1..m : s[j] = d[i]
      BY <2>10
    <3>2. CASE j < i
      <4>1. j \in 1..n /\ s[j] = d[j]
        BY <2>4, <3>2
      <4>2. Before(d[i], d[j])
        BY <1>2, <2>7, <3>2, <4>1
      <4>3. QED
        BY <1>5, <2>8, <3>1, <4>1, <4>2
    <3>3. CASE j = i
      BY <1>2, <2>3, <2>7, <3>1, <3>3
    <3>4. CASE j > i
      <4>1. Before(s[j], s[i])
        BY <1>4, <2>3, <3>4
      <4>2. QED
        BY <1>5, <2>5, <2>8, <3>1, <4>1
    <3>5. QED
      BY <1>4, <2>3, <3>2, <3>3, <3>4
  <2>11. QED
    BY <1>4, <2>8, <2>9, <2>10
<1>8. ASSUME NEW i \in 1..m PROVE i \in 1..n /\ s[i] = d[i]
  <2>1. ~(i > n \/ s[i] # d[i])
    BY <1>6, <1>7
  <2>2. QED
    BY <1>2, <1>4, <2>1
<1>9. m <= n
  <2>1. CASE m = 0
    BY <1>2, <2>1
  <2>2. CASE m # 0
    <3>1. m \in 1..m
      BY <1>4, <2>2
    <3>2. m \in 1..n
      BY <1>8, <3>1
    <3>3. QED
      BY <1>2, <3>2
  <2>3. QED
    BY <2>1, <2>2
<1>10. QED
  BY <1>2, <1>3, <1>8, <1>9

\* A row that is newer than all the others comes first.
LEMMA PushLeads ==
    ASSUME NEW R, NEW s, Leads(s, R), NEW r0, \A r \in R : Before(r, r0),
           NEW u, u = <<r0>> \o s
    PROVE  Leads(u, R \cup {r0})
<1>1. PICK m : m = Len(s)
  OBVIOUS
<1>2. PICK T : T = R \cup {r0}
  OBVIOUS
<1>3. /\ s \in Seq(R) /\ m \in Nat /\ \A i \in 1..m : s[i] \in R
      /\ \A i, j \in 1..m : i < j => Before(s[j], s[i])
      /\ \A r \in R : (\E i \in 1..m : s[i] = r) \/ (\A i \in 1..m : Before(r, s[i]))
  BY <1>1 DEF Leads
<1>4. s \in Seq(T) /\ <<r0>> \in Seq(T) /\ Len(<<r0>>) = 1
  BY <1>2, <1>3
<1>5. /\ u \in Seq(T) /\ Len(u) = m + 1 /\ u[1] = r0
      /\ \A i \in 2..(m + 1) : u[i] = s[i - 1]
  BY <1>1, <1>3, <1>4
<1>6. \A i \in 1..(m + 1) : i = 1 \/ (i \in 2..(m + 1) /\ i - 1 \in 1..m)
  BY <1>3
<1>7. \A i \in 1..m : i + 1 \in 2..(m + 1) /\ u[i + 1] = s[i]
  BY <1>3, <1>5
<1>8. ASSUME NEW i \in 1..(m + 1), NEW j \in 1..(m + 1), i < j PROVE Before(u[j], u[i])
  <2>1. j \in 2..(m + 1) /\ j - 1 \in 1..m /\ u[j] = s[j - 1]
    BY <1>3, <1>5, <1>6, <1>8
  <2>2. CASE i = 1
    BY <1>3, <1>5, <2>1, <2>2
  <2>3. CASE i # 1
    <3>1. i - 1 \in 1..m /\ u[i] = s[i - 1] /\ i - 1 < j - 1
      BY <1>3, <1>5, <1>6, <1>8, <2>3
    <3>2. QED
      BY <1>3, <2>1, <3>1
  <2>4. QED
    BY <2>2, <2>3
<1>9. ASSUME NEW r \in T
      PROVE (\E i \in 1..(m + 1) : u[i] = r) \/ (\A i \in 1..(m + 1) : Before(r, u[i]))
  <2>1. CASE r = r0
    BY <1>3, <1>5, <2>1
  <2>2. CASE r \in R /\ \E i \in 1..m : s[i] = r
    <3>1. PICK i \in 1..m : s[i] = r
      BY <2>2
    <3>2. u[i + 1] = r
      BY <1>7, <3>1
    <3>3. i + 1 \in 1..(m + 1)
      BY <1>3
    <3>4. QED
      BY <3>2, <3>3
  <2>3. CASE r \in R /\ \A i \in 1..m : Before(r, s[i])
    BY <1>5, <1>6, <2>3
  <2>4. QED
    BY <1>2, <1>3, <2>1, <2>2, <2>3
<1>10. Leads(u, T)
  BY <1>5, <1>8, <1>9 DEF Leads
<1>11. QED
  BY <1>2, <1>10

\* Sequences are determined by their length and their elements.
LEMMA SameSequence ==
    ASSUME NEW S, NEW s \in Seq(S), NEW u \in Seq(S), Len(s) = Len(u),
           \A i \in 1..Len(s) : s[i] = u[i]
    PROVE  s = u
OBVIOUS

\* The elements of two sequences, one behind the other.
LEMMA JoinFacts ==
    ASSUME NEW S, NEW s \in Seq(S), NEW u \in Seq(S), NEW w, w = s \o u
    PROVE  /\ w \in Seq(S) /\ Len(w) = Len(s) + Len(u) /\ Len(s) \in Nat /\ Len(u) \in Nat
           /\ \A i \in 1..Len(s) : w[i] = s[i]
           /\ \A i \in 1..Len(u) : w[Len(s) + i] = u[i]
           /\ \A i \in 1..Len(w) : i \in 1..Len(s) \/ \E j \in 1..Len(u) : i = Len(s) + j
<1>1. w \in Seq(S) /\ Len(w) = Len(s) + Len(u) /\ Len(s) \in Nat /\ Len(u) \in Nat
  OBVIOUS
<1>2. \A i \in 1..Len(s) : w[i] = s[i]
  OBVIOUS
<1>3. \A i \in 1..Len(u) : w[Len(s) + i] = u[i]
  OBVIOUS
<1>4. ASSUME NEW i \in 1..Len(w), ~(i \in 1..Len(s)) PROVE \E j \in 1..Len(u) : i = Len(s) + j
  <2>1. i - Len(s) \in 1..Len(u) /\ i = Len(s) + (i - Len(s))
    BY <1>1, <1>4
  <2>2. QED
    BY <2>1
<1>5. QED
  BY <1>1, <1>2, <1>3, <1>4

\* Ids shows the ID of each row.
LEMMA IdsFacts ==
    ASSUME NEW R, \A r \in R : r.id \in Int, NEW s \in Seq(R), NEW L, L = Ids(s)
    PROVE  /\ L \in Seq(Int) /\ Len(L) = Len(s) /\ Len(s) \in Nat
           /\ \A i \in 1..Len(s) : L[i] = s[i].id /\ s[i] \in R
<1>1. PICK n : n = Len(s)
  OBVIOUS
<1>2. n \in Nat /\ DOMAIN s = 1..n /\ \A i \in 1..n : s[i] \in R
  BY <1>1
<1>3. L = [i \in 1..n |-> s[i].id]
  BY <1>2 DEF Ids
<1>4. L \in Seq(Int) /\ Len(L) = n
  BY <1>2, <1>3
<1>5. QED
  BY <1>1, <1>2, <1>3, <1>4

\* The IDs of the list L are those of the newest rows of R.
Cached(L, R) == \E s : Leads(s, R) /\ L = Ids(s)

\* An empty list leaves nothing out that is newer than what it shows.
LEMMA CachedEmpty ==
    ASSUME NEW R
    PROVE  Cached(<<>>, R)
<1>1. PICK s : s = <<>>
  OBVIOUS
<1>2. s \in Seq(R) /\ Len(s) = 0 /\ DOMAIN s = {} /\ 1..0 = {}
  BY <1>1
<1>3. Leads(s, R)
  BY <1>2 DEF Leads
<1>4. Ids(s) = <<>>
  <2>1. Ids(s) = [i \in 1..0 |-> s[i].id]
    BY <1>2 DEF Ids
  <2>2. Ids(s) \in Seq(Int) /\ Len(Ids(s)) = 0
    BY <1>2, <2>1
  <2>3. QED
    BY <2>2
<1>5. QED
  BY <1>3, <1>4 DEF Cached

\* Such a list is the answer of the store.
LEMMA CachedIs ==
    ASSUME NEW R, IsTable(R), NEW L, Cached(L, R)
    PROVE  L = Limit(Ids(Descending(R)), Len(L))
<1>1. PICK s : Leads(s, R) /\ L = Ids(s)
  BY DEF Cached
<1>2. PICK d : d = Descending(R)
  OBVIOUS
<1>3. PICK K : K = Ids(d)
  OBVIOUS
<1>4. d \in Seq(R) /\ s \in Seq(R) /\ \A r \in R : r.id \in Int
  BY <1>1, <1>2, DescendingLeads DEF Leads, IsTable
<1>5. /\ L \in Seq(Int) /\ Len(L) = Len(s) /\ Len(s) \in Nat
      /\ \A i \in 1..Len(s) : L[i] = s[i].id
  BY <1>1, <1>4, IdsFacts
<1>6. /\ K \in Seq(Int) /\ Len(K) = Len(d) /\ Len(d) \in Nat
      /\ \A i \in 1..Len(d) : K[i] = d[i].id
  BY <1>3, <1>4, IdsFacts
<1>7. Len(s) <= Len(d) /\ \A i \in 1..Len(s) : s[i] = d[i]
  BY <1>1, <1>2, LeadsIs
<1>8. PICK u : u = Limit(K, Len(L))
  OBVIOUS
<1>9. /\ u \in Seq(Int) /\ Len(u) = IF Len(L) < Len(K) THEN Len(L) ELSE Len(K)
      /\ \A i \in 1..Len(u) : u[i] = K[i]
  BY <1>5, <1>6, <1>8, LimitFacts
<1>10. Len(u) = Len(L)
  BY <1>5, <1>6, <1>7, <1>9
<1>11. \A i \in 1..Len(L) : u[i] = L[i]
  BY <1>5, <1>6, <1>7, <1>9, <1>10
<1>12. u = L
  BY <1>5, <1>9, <1>10, <1>11, SameSequence
<1>13. QED
  BY <1>2, <1>3, <1>8, <1>12

\* Trimming keeps the newest.
LEMMA CachedLimit ==
    ASSUME NEW R, \A r \in R : r.id \in Int, NEW L, Cached(L, R), NEW k \in Nat
    PROVE  Cached(Limit(L, k), R)
<1>1. PICK s : Leads(s, R) /\ L = Ids(s)
  BY DEF Cached
<1>2. PICK u : u = Limit(s, k)
  OBVIOUS
<1>3. s \in Seq(R) /\ Leads(u, R) /\ u \in Seq(R)
  <2>1. Leads(u, R)
    BY <1>1, <1>2, LimitLeads
  <2>2. QED
    BY <1>1, <2>1 DEF Leads
<1>4. /\ L \in Seq(Int) /\ Len(L) = Len(s) /\ Len(s) \in Nat
      /\ \A i \in 1..Len(s) : L[i] = s[i].id
  <2>1. s \in Seq(R) /\ L = Ids(s)
    BY <1>1, <1>3
  <2>2. QED
    BY <2>1, IdsFacts
<1>5. PICK K : K = Ids(u)
  OBVIOUS
<1>6. /\ K \in Seq(Int) /\ Len(K) = Len(u) /\ \A i \in 1..Len(u) : K[i] = u[i].id
  BY <1>3, <1>5, IdsFacts
<1>7. /\ Len(u) = IF k < Len(s) THEN k ELSE Len(s)
      /\ \A i \in 1..Len(u) : i \in 1..Len(s) /\ u[i] = s[i]
  BY <1>2, <1>3, LimitFacts
<1>8. PICK M : M = Limit(L, k)
  OBVIOUS
<1>9. /\ M \in Seq(Int) /\ Len(M) = IF k < Len(L) THEN k ELSE Len(L)
      /\ \A i \in 1..Len(M) : M[i] = L[i]
  BY <1>4, <1>8, LimitFacts
<1>10. Len(M) = Len(K)
  BY <1>4, <1>6, <1>7, <1>9
<1>11. \A i \in 1..Len(K) : M[i] = K[i]
  BY <1>4, <1>6, <1>7, <1>9, <1>10
<1>12. M = K
  BY <1>6, <1>9, <1>10, <1>11
<1>13. QED
  BY <1>3, <1>5, <1>8, <1>12 DEF Cached

\* LPUSH of a message that is newer than all the others, and LTRIM.
LEMMA CachedPush ==
    ASSUME NEW R, \A r \in R : r.id \in Int, NEW L, Cached(L, R),
           NEW r0, r0.id \in Int, \A r \in R : Before(r, r0), NEW id, id = r0.id
    PROVE  Cached(Pushed(L, <<id>>), R \cup {r0})
<1>1. PICK s : Leads(s, R) /\ L = Ids(s)
  BY DEF Cached
<1>2. PICK u : u = <<r0>> \o s
  OBVIOUS
<1>3. PICK T : T = R \cup {r0}
  OBVIOUS
<1>4. Leads(u, T) /\ u \in Seq(T) /\ s \in Seq(R)
  <2>1. Leads(u, T)
    BY <1>1, <1>2, <1>3, PushLeads
  <2>2. QED
    BY <1>1, <2>1 DEF Leads
<1>5. \A r \in T : r.id \in Int
  BY <1>3
<1>6. /\ L \in Seq(Int) /\ Len(L) = Len(s) /\ Len(s) \in Nat
      /\ \A i \in 1..Len(s) : L[i] = s[i].id
  <2>1. s \in Seq(R) /\ L = Ids(s)
    BY <1>1, <1>4
  <2>2. QED
    BY <2>1, IdsFacts
<1>7. PICK K : K = Ids(u)
  OBVIOUS
<1>8. /\ K \in Seq(Int) /\ Len(K) = Len(u) /\ \A i \in 1..Len(u) : K[i] = u[i].id
  BY <1>4, <1>5, <1>7, IdsFacts
<1>9. Len(u) = Len(s) + 1 /\ u[1] = r0 /\ \A i \in 2..(Len(s) + 1) : u[i] = s[i - 1]
  <2>1. s \in Seq(T) /\ <<r0>> \in Seq(T) /\ Len(<<r0>>) = 1 /\ <<r0>>[1] = r0
    BY <1>3, <1>4
  <2>2. QED
    BY <1>2, <1>6, <2>1
<1>10. PICK M : M = <<id>> \o L
  OBVIOUS
<1>11. <<id>> \in Seq(Int) /\ Len(<<id>>) = 1 /\ <<id>>[1] = id
  OBVIOUS
<1>12. M \in Seq(Int) /\ Len(M) = Len(s) + 1 /\ M[1] = id /\ \A i \in 2..(Len(s) + 1) : M[i] = L[i - 1]
  BY <1>6, <1>10, <1>11
<1>13. \A i \in 1..(Len(s) + 1) : i = 1 \/ (i \in 2..(Len(s) + 1) /\ i - 1 \in 1..Len(s))
  BY <1>6
<1>14. \A i \in 1..(Len(s) + 1) : M[i] = K[i]
  BY <1>6, <1>8, <1>9, <1>12, <1>13
<1>15. M = K
  BY <1>8, <1>9, <1>12, <1>14
<1>16. Cached(M, T)
  BY <1>4, <1>7, <1>15 DEF Cached
<1>17. Reverse(<<id>>) = <<id>>
  <2>1. PICK one : one = <<id>>
    OBVIOUS
  <2>2. one \in Seq(Int) /\ Len(one) = 1
    BY <1>11, <2>1
  <2>3. PICK two : two = Reverse(one)
    OBVIOUS
  <2>4. two \in Seq(Int) /\ Len(two) = 1 /\ two[1] = one[1]
    BY <2>2, <2>3, ReverseFacts
  <2>5. two = one
    BY <2>2, <2>4
  <2>6. QED
    BY <2>1, <2>3, <2>5
<1>18. Cached(Limit(M, RoomLatestMax), T)
  BY <1>5, <1>16, HistoryAssumption, CachedLimit
<1>19. QED
  BY <1>3, <1>10, <1>17, <1>18 DEF Pushed

\* A list that shows the newest messages may be pushed into an empty one.
LEMMA CachedFill ==
    ASSUME NEW R, \A r \in R : r.id \in Int, NEW ids \in Seq(Int), Cached(Reverse(ids), R)
    PROVE  Cached(Pushed(<<>>, ids), R)
<1>1. PICK L : L = Reverse(ids)
  OBVIOUS
<1>2. L \in Seq(Int)
  BY <1>1, ReverseFacts
<1>3. L \o <<>> = L
  BY <1>2
<1>4. Cached(Limit(L, RoomLatestMax), R)
  BY <1>1, HistoryAssumption, CachedLimit
<1>5. QED
  BY <1>1, <1>3, <1>4 DEF Pushed

\* A push leaves a list within its length, and not an empty one.
LEMMA PushedLength ==
    ASSUME NEW L \in Seq(Int), NEW ids \in Seq(Int), NEW u, u = Pushed(L, ids)
    PROVE  u \in Seq(Int) /\ Len(u) <= RoomLatestMax /\ (ids # <<>> => u # <<>>)
<1>1. PICK v : v = Reverse(ids)
  OBVIOUS
<1>2. v \in Seq(Int) /\ Len(v) = Len(ids) /\ Len(ids) \in Nat
  BY <1>1, ReverseFacts
<1>3. PICK w : w = v \o L
  OBVIOUS
<1>4. w \in Seq(Int) /\ Len(w) = Len(ids) + Len(L) /\ Len(L) \in Nat
  <2>1. PICK I : I = Int
    OBVIOUS
  <2>2. v \in Seq(I) /\ L \in Seq(I)
    BY <1>2, <2>1
  <2>3. Len(w) = Len(v) + Len(L) /\ w \in Seq(I) /\ Len(L) \in Nat
    BY <1>3, <2>2, JoinFacts
  <2>4. QED
    BY <1>2, <2>1, <2>3
<1>5. u = Limit(w, RoomLatestMax)
  BY <1>1, <1>3 DEF Pushed
<1>6. RoomLatestMax \in Nat /\ RoomLatestMax > 0
  BY HistoryAssumption
<1>7. u \in Seq(Int) /\ Len(u) = IF RoomLatestMax < Len(w) THEN RoomLatestMax ELSE Len(w)
  BY <1>4, <1>5, <1>6, LimitFacts
<1>8. Len(u) <= RoomLatestMax
  BY <1>4, <1>6, <1>7
<1>9. ASSUME ids # <<>> PROVE u # <<>>
  <2>1. Len(ids) # 0
    BY <1>9
  <2>2. Len(u) # 0
    BY <1>2, <1>4, <1>6, <1>7, <2>1
  <2>3. QED
    BY <2>2
<1>10. QED
  BY <1>7, <1>8, <1>9

\* A page: rows of R from the oldest to the newest, none of R in between left out.
IsPage(p, R) ==
    /\ p \in Seq(R)
    /\ \A i, j \in 1..Len(p) : i < j => Before(p[i], p[j])
    /\ \A r \in R : (\E i \in 1..Len(p) : p[i] = r) \/ (\A i \in 1..Len(p) : Before(r, p[i]))

\* The newest rows, turned round, are a page.
LEMMA TurnedRound ==
    ASSUME NEW R, \A r \in R : r.id \in Int, NEW u, Leads(u, R), NEW p, p = Reverse(u)
    PROVE  /\ IsPage(p, R) /\ Len(p) = Len(u) /\ Len(u) \in Nat
           /\ Reverse(Ids(p)) = Ids(u)
           /\ \A i \in 1..Len(u) : (Len(u) - i) + 1 \in 1..Len(u) /\ p[i] = u[(Len(u) - i) + 1]
<1>1. PICK n : n = Len(u)
  OBVIOUS
<1>2. /\ u \in Seq(R) /\ \A i, j \in 1..n : i < j => Before(u[j], u[i])
      /\ \A r \in R : (\E i \in 1..n : u[i] = r) \/ (\A i \in 1..n : Before(r, u[i]))
  BY <1>1 DEF Leads
<1>3. /\ p \in Seq(R) /\ Len(p) = n /\ n \in Nat
      /\ \A i \in 1..n : (n - i) + 1 \in 1..n /\ p[i] = u[(n - i) + 1] /\ u[i] = p[(n - i) + 1]
  <2>1. u \in Seq(R)
    BY <1>2
  <2>2. /\ p \in Seq(R) /\ Len(p) = Len(u) /\ Len(u) \in Nat
        /\ \A i \in 1..Len(u) : /\ (Len(u) - i) + 1 \in 1..Len(u)
                                /\ p[i] = u[(Len(u) - i) + 1] /\ u[i] = p[(Len(u) - i) + 1]
    BY <2>1, ReverseFacts
  <2>3. QED
    BY <1>1, <2>2
<1>4. ASSUME NEW i \in 1..n, NEW j \in 1..n, i < j PROVE Before(p[i], p[j])
  <2>1. (n - j) + 1 \in 1..n /\ (n - i) + 1 \in 1..n /\ (n - j) + 1 < (n - i) + 1
    BY <1>3, <1>4
  <2>2. p[i] = u[(n - i) + 1] /\ p[j] = u[(n - j) + 1]
    BY <1>3
  <2>3. QED
    BY <1>2, <2>1, <2>2
<1>5. ASSUME NEW r \in R PROVE (\E i \in 1..n : p[i] = r) \/ (\A i \in 1..n : Before(r, p[i]))
  <2>1. CASE \E i \in 1..n : u[i] = r
    <3>1. PICK i \in 1..n : u[i] = r
      BY <2>1
    <3>2. (n - i) + 1 \in 1..n /\ p[(n - i) + 1] = r
      BY <1>3, <3>1
    <3>3. QED
      BY <3>2
  <2>2. CASE \A i \in 1..n : Before(r, u[i])
    <3> SUFFICES ASSUME NEW i \in 1..n PROVE Before(r, p[i])
      OBVIOUS
    <3>1. (n - i) + 1 \in 1..n /\ p[i] = u[(n - i) + 1]
      BY <1>3
    <3>2. QED
      BY <2>2, <3>1
  <2>3. QED
    BY <1>2, <2>1, <2>2
<1>6. IsPage(p, R)
  BY <1>3, <1>4, <1>5 DEF IsPage
<1>7. Reverse(Ids(p)) = Ids(u)
  <2>1. PICK K, L : K = Ids(p) /\ L = Ids(u)
    OBVIOUS
  <2>2. PICK I : I = Int
    OBVIOUS
  <2>3. p \in Seq(R) /\ u \in Seq(R)
    BY <1>2, <1>3
  <2>4. K \in Seq(I) /\ Len(K) = n /\ \A i \in 1..n : K[i] = p[i].id
    <3>1. p \in Seq(R) /\ K = Ids(p)
      BY <2>1, <2>3
    <3>2. K \in Seq(Int) /\ Len(K) = Len(p) /\ \A i \in 1..Len(p) : K[i] = p[i].id
      BY <3>1, IdsFacts
    <3>3. QED
      BY <1>3, <2>2, <3>2
  <2>5. L \in Seq(I) /\ Len(L) = n /\ \A i \in 1..n : L[i] = u[i].id
    <3>1. u \in Seq(R) /\ L = Ids(u)
      BY <2>1, <2>3
    <3>2. L \in Seq(Int) /\ Len(L) = Len(u) /\ \A i \in 1..Len(u) : L[i] = u[i].id
      BY <3>1, IdsFacts
    <3>3. QED
      BY <1>1, <2>2, <3>2
  <2>6. PICK M : M = Reverse(K)
    OBVIOUS
  <2>7. M \in Seq(I) /\ Len(M) = n /\ \A i \in 1..n : M[i] = K[(n - i) + 1]
    BY <2>4, <2>6, ReverseFacts
  <2>8. \A i \in 1..n : M[i] = L[i]
    <3> SUFFICES ASSUME NEW i \in 1..n PROVE M[i] = L[i]
      OBVIOUS
    <3>1. (n - i) + 1 \in 1..n /\ u[i] = p[(n - i) + 1]
      BY <1>3
    <3>2. K[(n - i) + 1] = u[i].id
      BY <2>4, <3>1
    <3>3. QED
      BY <2>5, <2>7, <3>2
  <2>9. M = L
    BY <2>5, <2>7, <2>8, SameSequence
  <2>10. QED
    BY <2>1, <2>6, <2>9
<1>8. QED
  BY <1>1, <1>3, <1>6, <1>7

\* A page from the store: it leaves rows out only when it is full, and its IDs may
\* be cached.
LEMMA NewestPage ==
    ASSUME NEW R, IsTable(R), NEW k \in Nat, NEW p, p = Newest(R, k)
    PROVE  /\ IsPage(p, R) /\ Len(p) \in Nat /\ Len(p) <= k
           /\ \A r \in R : (\E i \in 1..Len(p) : p[i] = r) \/ Len(p) = k
           /\ Ids(p) \in Seq(Int) /\ Len(Ids(p)) = Len(p)
           /\ Cached(Reverse(Ids(p)), R)
<1>1. PICK d : d = Descending(R)
  OBVIOUS
<1>2. PICK u : u = Limit(d, k)
  OBVIOUS
<1>3. Leads(d, R) /\ \A r \in R : r.id \in Int
  BY <1>1, DescendingLeads DEF IsTable
<1>4. /\ Leads(u, R) /\ Len(u) \in Nat /\ Len(u) <= k
      /\ \A i \in 1..Len(d) : (\E j \in 1..Len(u) : u[j] = d[i]) \/ Len(u) = k
  BY <1>2, <1>3, LimitLeads
<1>5. p = Reverse(u)
  BY <1>1, <1>2 DEF Newest
<1>6. /\ IsPage(p, R) /\ Len(p) = Len(u) /\ Reverse(Ids(p)) = Ids(u)
  BY <1>3, <1>4, <1>5, TurnedRound
<1>7. \A i \in 1..Len(u) : (Len(u) - i) + 1 \in 1..Len(u) /\ p[(Len(u) - i) + 1] = u[i]
  <2>1. u \in Seq(R)
    BY <1>4 DEF Leads
  <2>2. QED
    BY <1>5, <2>1, ReverseFacts
<1>8. ASSUME NEW r \in R, Len(p) # k PROVE \E i \in 1..Len(p) : p[i] = r
  <2>1. PICK i \in 1..Len(d) : d[i] = r
    BY <1>1, DescendingLists
  <2>2. PICK j \in 1..Len(u) : u[j] = r
    BY <1>4, <1>6, <1>8, <2>1
  <2>3. QED
    BY <1>6, <1>7, <2>2
<1>9. Cached(Reverse(Ids(p)), R)
  BY <1>4, <1>6 DEF Cached
<1>10. Ids(p) \in Seq(Int) /\ Len(Ids(p)) = Len(p)
  <2>1. p \in Seq(R)
    BY <1>6 DEF IsPage
  <2>2. QED
    BY <1>3, <2>1, IdsFacts
<1>11. QED
  BY <1>4, <1>6, <1>8, <1>9, <1>10

----------------------------------------------------------------------------
(***************************************************************************)
(* The table and the tasks of the archiver.  An ID is given to one         *)
(* message, so that the table has one row for it and at most one task has  *)
(* it; a task that has saved its row finds it in the table, hidden by then *)
(* perhaps.                                                                *)
(***************************************************************************)
RowSet ==
    [id : Int, room : Rooms, sender : Nat, type : {MsgType[m] : m \in Messages},
     text : {MsgText[m] : m \in Messages}, at : Int, deleted : BOOLEAN]
TaskSet == [row : RowSet, step : {"save", "push"}]

\* r and s are the same message: deletion changes nothing else.
Same(r, s) == r.id = s.id /\ r.at = s.at /\ r.room = s.room

\* tb is a table and ts are its tasks, with IDs up to l.
RowsOK(tb, ts, l) ==
    /\ tb \in SUBSET RowSet /\ IsTable(tb)
    /\ \A r \in tb : 0 < r.id /\ r.id <= l
    /\ ts \in SUBSET TaskSet
    /\ \A t \in ts : 0 < t.row.id /\ t.row.id <= l
    /\ \A t, u \in ts : t.row.id = u.row.id => t = u
    /\ \A t \in ts : t.step = "save" => \A r \in tb : r.id # t.row.id
    /\ \A t \in ts : t.step # "save" => \E r \in tb : Same(r, t.row)

\* What LiveIds, Pending and the lists of the cache are about.
LiveOf(tb, room) == InRoom(mysqlLive(tb), room)
PendingOf(ts, room) == {t.row.id : t \in {x \in ts : x.step # "save" /\ x.row.room = room}}
VisibleOf(tb, ts, room) == {r \in LiveOf(tb, room) : r.id \notin PendingOf(ts, room)}

\* The rows of a room that are not deleted.
LEMMA LiveRows ==
    ASSUME NEW tb, NEW room, NEW r
    PROVE  r \in LiveOf(tb, room) <=> r \in tb /\ ~r.deleted /\ r.room = room
BY DEF LiveOf, InRoom, mysqlLive

\* The IDs of the tasks of a room that have still to push.
LEMMA PendingTasks ==
    ASSUME NEW ts, NEW room, NEW id
    PROVE  id \in PendingOf(ts, room)
            <=> \E t \in ts : t.step # "save" /\ t.row.room = room /\ t.row.id = id
BY DEF PendingOf

\* The rows of a room are a table.
LEMMA LiveTable ==
    ASSUME NEW tb, IsTable(tb), NEW ts, NEW room
    PROVE  /\ IsTable(LiveOf(tb, room)) /\ LiveOf(tb, room) \in SUBSET tb
           /\ IsTable(VisibleOf(tb, ts, room)) /\ VisibleOf(tb, ts, room) \in SUBSET tb
<1>1. LiveOf(tb, room) \in SUBSET tb
  BY LiveRows
<1>2. VisibleOf(tb, ts, room) \in SUBSET tb
  BY <1>1 DEF VisibleOf
<1>3. QED
  BY <1>1, <1>2, PartOfTable

\* A new ID: the message waits for its row to be saved.
LEMMA NewTask ==
    ASSUME NEW tb, NEW ts, NEW l \in Int, RowsOK(tb, ts, l), NEW k \in Int, l < k, 0 < k,
           NEW row \in RowSet, row.id = k, NEW t, t = [row |-> row, step |-> "save"],
           NEW ts2, ts2 = ts \cup {t}, NEW room
    PROVE  RowsOK(tb, ts2, k) /\ PendingOf(ts2, room) = PendingOf(ts, room)
<1>1. t \in TaskSet /\ t.row = row /\ t.step = "save" /\ t.row.id = k
  BY DEF TaskSet
<1>2. /\ tb \in SUBSET RowSet /\ IsTable(tb)
      /\ \A r \in tb : 0 < r.id /\ r.id <= l
      /\ ts \in SUBSET TaskSet
      /\ \A u \in ts : 0 < u.row.id /\ u.row.id <= l
  BY DEF RowsOK
<1>3. \A u \in ts : u.row.id \in Int /\ u.row.id # k /\ u.row.id <= k
  BY <1>2 DEF TaskSet, RowSet
<1>4. \A r \in tb : r.id \in Int /\ r.id # k /\ r.id <= k
  BY <1>2 DEF IsTable
<1>5. ts2 \in SUBSET TaskSet /\ \A u \in ts2 : 0 < u.row.id /\ u.row.id <= k
  BY <1>1, <1>2, <1>3
<1>6. \A u, v \in ts2 : u.row.id = v.row.id => u = v
  BY <1>1, <1>3 DEF RowsOK
<1>7. \A u \in ts2 : u.step = "save" => \A r \in tb : r.id # u.row.id
  BY <1>1, <1>4 DEF RowsOK
<1>8. \A u \in ts2 : u.step # "save" => \E r \in tb : Same(r, u.row)
  BY <1>1 DEF RowsOK
<1>9. RowsOK(tb, ts2, k)
  BY <1>2, <1>4, <1>5, <1>6, <1>7, <1>8 DEF RowsOK
<1>10. PendingOf(ts2, room) = PendingOf(ts, room)
  <2>1. {x \in ts2 : x.step # "save" /\ x.row.room = room}
         = {x \in ts : x.step # "save" /\ x.row.room = room}
    BY <1>1
  <2>2. QED
    BY <2>1 DEF PendingOf
<1>11. QED
  BY <1>9, <1>10

\* Rows of the room that are new in tb2 are pending.
Grown(tb, tb2, ts2, room) ==
    /\ LiveOf(tb, room) \in SUBSET LiveOf(tb2, room)
    /\ \A r \in LiveOf(tb2, room) : r \in LiveOf(tb, room) \/ r.id \in PendingOf(ts2, room)

\* A task saves its row, which no other task has: the row is pending, and what the
\* cache may show stays as it is.
LEMMA SavedRow ==
    ASSUME NEW tb, NEW ts, NEW l \in Int, RowsOK(tb, ts, l), NEW t \in ts, t.step = "save",
           NEW t2, t2 = [t EXCEPT !.step = "push"],
           NEW tb2, tb2 = tb \cup {t.row}, NEW ts2, ts2 = (ts \ {t}) \cup {t2}, NEW room
    PROVE  /\ RowsOK(tb2, ts2, l)
           /\ VisibleOf(tb2, ts2, room) = VisibleOf(tb, ts, room)
           /\ Grown(tb, tb2, ts2, room)
           /\ PendingOf(ts, room) \in SUBSET PendingOf(ts2, room)
<1>1. t \in TaskSet /\ t.row \in RowSet
  BY DEF RowsOK, TaskSet
<1>2. t2 \in TaskSet /\ t2.row = t.row /\ t2.step = "push"
  BY <1>1 DEF TaskSet
<1>3. /\ tb \in SUBSET RowSet /\ IsTable(tb)
      /\ \A r \in tb : 0 < r.id /\ r.id <= l
      /\ ts \in SUBSET TaskSet
      /\ \A u \in ts : 0 < u.row.id /\ u.row.id <= l
      /\ \A u, v \in ts : u.row.id = v.row.id => u = v
  BY DEF RowsOK
<1>4. \A r \in tb : r.id # t.row.id
  BY DEF RowsOK
<1>5. t.row.id \in Int /\ t.row.at \in Int
  BY <1>1 DEF RowSet
<1>6. tb2 \in SUBSET RowSet /\ IsTable(tb2)
  <2>1. IsFiniteSet(tb2)
    BY <1>3, FS_AddElement DEF IsTable
  <2>2. \A r \in tb2 : r.id \in Int /\ r.at \in Int
    BY <1>3, <1>5 DEF IsTable
  <2>3. \A r, s \in tb2 : r.id = s.id => r = s
    BY <1>3, <1>4 DEF IsTable
  <2>4. QED
    BY <1>1, <1>3, <2>1, <2>2, <2>3 DEF IsTable
<1>7. \A r \in tb2 : 0 < r.id /\ r.id <= l
  BY <1>3
<1>8. ts2 \in SUBSET TaskSet /\ \A u \in ts2 : 0 < u.row.id /\ u.row.id <= l
  BY <1>2, <1>3
<1>9. \A u, v \in ts2 : u.row.id = v.row.id => u = v
  <2> SUFFICES ASSUME NEW u \in ts2, NEW v \in ts2, u.row.id = v.row.id PROVE u = v
    OBVIOUS
  <2>1. \A w \in ts \ {t} : w.row.id # t2.row.id
    BY <1>2, <1>3
  <2>2. QED
    BY <1>3, <2>1
<1>10. \A u \in ts2 : u.step = "save" => \A r \in tb2 : r.id # u.row.id
  <2> SUFFICES ASSUME NEW u \in ts2, u.step = "save", NEW r \in tb2 PROVE r.id # u.row.id
    OBVIOUS
  <2>1. u \in ts /\ u # t
    BY <1>2
  <2>2. u.row.id # t.row.id
    BY <1>3, <2>1
  <2>3. QED
    BY <2>1, <2>2 DEF RowsOK
<1>11. \A u \in ts2 : u.step # "save" => \E r \in tb2 : Same(r, u.row)
  <2> SUFFICES ASSUME NEW u \in ts2, u.step # "save" PROVE \E r \in tb2 : Same(r, u.row)
    OBVIOUS
  <2>1. CASE u = t2
    BY <1>2, <2>1 DEF Same
  <2>2. CASE u # t2
    <3>1. PICK r \in tb : Same(r, u.row)
      BY <2>2 DEF RowsOK
    <3>2. QED
      BY <3>1
  <2>3. QED
    BY <2>1, <2>2
<1>12. RowsOK(tb2, ts2, l)
  BY <1>6, <1>7, <1>8, <1>9, <1>10, <1>11 DEF RowsOK
<1>13. \A id : id \in PendingOf(ts2, room)
                <=> id \in PendingOf(ts, room) \/ (t.row.room = room /\ t.row.id = id)
  <2> SUFFICES ASSUME NEW id
               PROVE  id \in PendingOf(ts2, room)
                        <=> id \in PendingOf(ts, room) \/ (t.row.room = room /\ t.row.id = id)
    OBVIOUS
  <2>1. id \in PendingOf(ts2, room)
         <=> \E u \in ts2 : u.step # "save" /\ u.row.room = room /\ u.row.id = id
    BY PendingTasks
  <2>2. id \in PendingOf(ts, room)
         <=> \E u \in ts : u.step # "save" /\ u.row.room = room /\ u.row.id = id
    BY PendingTasks
  <2>3. t2 \in ts2 /\ t2.step # "save" /\ t2.row.room = t.row.room /\ t2.row.id = t.row.id
    BY <1>2
  <2>4. \A u : u \in ts2 <=> (u \in ts /\ u # t) \/ u = t2
    OBVIOUS
  <2>5. QED
    BY <2>1, <2>2, <2>3, <2>4
<1>14. \A r : r \in LiveOf(tb2, room)
                <=> r \in LiveOf(tb, room) \/ (r = t.row /\ ~r.deleted /\ r.room = room)
  BY LiveRows
<1>15. VisibleOf(tb2, ts2, room) = VisibleOf(tb, ts, room)
  <2>1. ASSUME NEW r, r \in VisibleOf(tb2, ts2, room) PROVE r \in VisibleOf(tb, ts, room)
    BY <1>13, <1>14, <2>1 DEF VisibleOf
  <2>2. ASSUME NEW r, r \in VisibleOf(tb, ts, room) PROVE r \in VisibleOf(tb2, ts2, room)
    <3>1. r \in LiveOf(tb, room) /\ r.id \notin PendingOf(ts, room)
      BY <2>2 DEF VisibleOf
    <3>2. r.id # t.row.id
      BY <1>4, <3>1, LiveRows
    <3>3. QED
      BY <1>13, <1>14, <3>1, <3>2 DEF VisibleOf
  <2>3. QED
    BY <2>1, <2>2
<1>16. Grown(tb, tb2, ts2, room)
  BY <1>13, <1>14 DEF Grown
<1>17. QED
  BY <1>12, <1>13, <1>15, <1>16

\* A task is done: its row is visible from now on, unless it was deleted.
LEMMA DoneTask ==
    ASSUME NEW tb, NEW ts, NEW l \in Int, RowsOK(tb, ts, l), NEW t \in ts, t.step # "save",
           NEW ts2, ts2 = ts \ {t}, NEW room
    PROVE  /\ RowsOK(tb, ts2, l)
           /\ room # t.row.room => PendingOf(ts2, room) = PendingOf(ts, room)
           /\ room = t.row.room =>
                \A id : id \in PendingOf(ts2, room) <=> id \in PendingOf(ts, room) /\ id # t.row.id
           /\ room = t.row.room => t.row.id \in PendingOf(ts, room)
<1>1. RowsOK(tb, ts2, l)
  <2>1. ts2 \in SUBSET ts
    OBVIOUS
  <2>2. /\ ts2 \in SUBSET TaskSet
        /\ \A u \in ts2 : 0 < u.row.id /\ u.row.id <= l
        /\ \A u, v \in ts2 : u.row.id = v.row.id => u = v
    BY <2>1 DEF RowsOK
  <2>3. /\ \A u \in ts2 : u.step = "save" => \A r \in tb : r.id # u.row.id
        /\ \A u \in ts2 : u.step # "save" => \E r \in tb : Same(r, u.row)
    BY <2>1 DEF RowsOK
  <2>4. QED
    BY <2>2, <2>3 DEF RowsOK
<1>2. \A u, v \in ts : u.row.id = v.row.id => u = v
  BY DEF RowsOK
<1>3. ASSUME room # t.row.room PROVE PendingOf(ts2, room) = PendingOf(ts, room)
  <2>1. {x \in ts2 : x.step # "save" /\ x.row.room = room}
         = {x \in ts : x.step # "save" /\ x.row.room = room}
    BY <1>3
  <2>2. QED
    BY <2>1 DEF PendingOf
<1>4. ASSUME room = t.row.room, NEW id
      PROVE  id \in PendingOf(ts2, room) <=> id \in PendingOf(ts, room) /\ id # t.row.id
  BY <1>2, <1>4, PendingTasks
<1>5. room = t.row.room => t.row.id \in PendingOf(ts, room)
  BY PendingTasks
<1>6. QED
  BY <1>1, <1>3, <1>4, <1>5

\* A row with deleted_at set.
LEMMA HiddenRow ==
    ASSUME NEW r \in RowSet, NEW s, s = [r EXCEPT !.deleted = TRUE]
    PROVE  s \in RowSet /\ Same(s, r) /\ s.deleted
<1>1. PICK yes : yes = TRUE
  OBVIOUS
<1>2. s = [r EXCEPT !.deleted = yes] /\ yes \in BOOLEAN
  BY <1>1
<1>3. s \in RowSet /\ s.deleted = yes /\ s.id = r.id /\ s.at = r.at /\ s.room = r.room
  BY <1>2 DEF RowSet
<1>4. QED
  BY <1>1, <1>3 DEF Same

\* tb2 is tb with rows of the room deleted.
DeletedIn(tb, tb2, room) ==
    /\ tb2 \in SUBSET RowSet /\ IsFiniteSet(tb2)
    /\ \A s, u \in tb2 : s.id = u.id => s = u
    /\ \A r \in tb : \E s \in tb2 : Same(s, r)
    /\ \A s \in tb2 : \E r \in tb : Same(s, r) /\ (s = r \/ (s.deleted /\ r.room = room))
    /\ \A r \in tb : r.room # room => r \in tb2

\* Setting deleted_at of rows of a room.
LEMMA DeletesRows ==
    ASSUME NEW tb \in SUBSET RowSet, IsTable(tb), NEW room, NEW Q,
           \A r \in Q : r.room = room,
           NEW tb2, tb2 = {IF r \in Q THEN [r EXCEPT !.deleted = TRUE] ELSE r : r \in tb}
    PROVE  DeletedIn(tb, tb2, room)
<1>1. PICK f : f = [r \in tb |-> IF r \in Q THEN [r EXCEPT !.deleted = TRUE] ELSE r]
  OBVIOUS
<1>2. tb2 = {f[r] : r \in tb}
  BY <1>1
<1>3. ASSUME NEW r \in tb
      PROVE  /\ f[r] \in tb2 /\ f[r] \in RowSet /\ Same(f[r], r)
             /\ f[r] = r \/ (f[r].deleted /\ r.room = room)
             /\ r.room # room => f[r] = r
  <2>1. CASE r \in Q
    <3>1. r \in RowSet /\ f[r] = [r EXCEPT !.deleted = TRUE]
      BY <1>1, <2>1
    <3>2. f[r] \in RowSet /\ Same(f[r], r) /\ f[r].deleted
      BY <3>1, HiddenRow
    <3>3. QED
      BY <1>2, <2>1, <3>2
  <2>2. CASE r \notin Q
    <3>1. f[r] = r
      BY <1>1, <2>2
    <3>2. f[r] \in tb2 /\ Same(f[r], r)
      BY <1>2, <3>1 DEF Same
    <3>3. QED
      BY <3>1, <3>2
  <2>3. QED
    BY <2>1, <2>2
<1>4. \A s \in tb2 : \E r \in tb : s = f[r]
  BY <1>2
<1>5. IsFiniteSet(tb2)
  <2>1. f \in Surjection(tb, tb2)
    BY <1>1, <1>3, <1>4 DEF Surjection
  <2>2. QED
    BY <2>1, FS_Surjection DEF IsTable
<1>6. tb2 \in SUBSET RowSet
  BY <1>3, <1>4
<1>7. ASSUME NEW s \in tb2, NEW u \in tb2, s.id = u.id PROVE s = u
  <2>1. PICK a \in tb, b \in tb : s = f[a] /\ u = f[b]
    BY <1>4
  <2>2. a.id = b.id
    BY <1>3, <1>7, <2>1 DEF Same
  <2>3. QED
    BY <2>1, <2>2 DEF IsTable
<1>8. \A r \in tb : \E s \in tb2 : Same(s, r)
  BY <1>3
<1>9. \A s \in tb2 : \E r \in tb : Same(s, r) /\ (s = r \/ (s.deleted /\ r.room = room))
  BY <1>3, <1>4
<1>10. \A r \in tb : r.room # room => r \in tb2
  <2> SUFFICES ASSUME NEW r \in tb, r.room # room PROVE r \in tb2
    OBVIOUS
  <2>1. f[r] \in tb2 /\ f[r] = r
    BY <1>3
  <2>2. QED
    BY <2>1
<1>11. QED
  BY <1>5, <1>6, <1>7, <1>8, <1>9, <1>10 DEF DeletedIn

\* SoftDeleteUserMessagesInRoom of either store.
LEMMA SoftDeletes ==
    ASSUME NEW tb \in SUBSET RowSet, IsTable(tb), NEW room, NEW user
    PROVE  /\ DeletedIn(tb, mysqlSoftDeleteUserMessagesInRoom(tb, room, user), room)
           /\ DeletedIn(tb, mongoSoftDeleteUserMessagesInRoom(tb, room, user), room)
<1>1. PICK Q : Q = {r \in tb : r.room = room /\ r.sender = user}
  OBVIOUS
<1>2. PICK a : a = {IF r \in Q THEN [r EXCEPT !.deleted = TRUE] ELSE r : r \in tb}
  OBVIOUS
<1>3. DeletedIn(tb, a, room)
  <2>1. \A r \in Q : r.room = room
    BY <1>1
  <2>2. QED
    BY <1>2, <2>1, DeletesRows
<1>4. a = mysqlSoftDeleteUserMessagesInRoom(tb, room, user)
  <2>1. \A r \in tb : r \in Q <=> r.room = room /\ r.sender = user
    BY <1>1
  <2>2. QED
    BY <1>2, <2>1 DEF mysqlSoftDeleteUserMessagesInRoom
<1>5. PICK P : P = {r \in tb : r \in InRoom(notDeletedFilter(tb), room) /\ r.sender = user}
  OBVIOUS
<1>6. PICK b : b = {IF r \in P THEN [r EXCEPT !.deleted = TRUE] ELSE r : r \in tb}
  OBVIOUS
<1>7. \A r \in P : r.room = room
  BY <1>5 DEF InRoom
<1>8. DeletedIn(tb, b, room)
  BY <1>6, <1>7, DeletesRows
<1>9. b = mongoSoftDeleteUserMessagesInRoom(tb, room, user)
  <2>1. \A r \in tb : r \in P <=> r \in InRoom(notDeletedFilter(tb), room) /\ r.sender = user
    BY <1>5
  <2>2. QED
    BY <1>6, <2>1 DEF mongoSoftDeleteUserMessagesInRoom
<1>10. QED
  BY <1>3, <1>4, <1>8, <1>9

\* A deletion hides rows of its room and leaves the others alone.
LEMMA DeletionKeeps ==
    ASSUME NEW tb, NEW ts, NEW l \in Int, RowsOK(tb, ts, l), NEW tb2, NEW gone,
           DeletedIn(tb, tb2, gone), NEW room
    PROVE  /\ RowsOK(tb2, ts, l)
           /\ LiveOf(tb2, room) \in SUBSET LiveOf(tb, room)
           /\ room # gone => LiveOf(tb2, room) = LiveOf(tb, room)
<1>1. /\ tb2 \in SUBSET RowSet /\ IsFiniteSet(tb2)
      /\ \A s, u \in tb2 : s.id = u.id => s = u
      /\ \A r \in tb : \E s \in tb2 : Same(s, r)
  BY DEF DeletedIn
<1>2. \A s \in tb2 : \E r \in tb : Same(s, r) /\ (s = r \/ (s.deleted /\ r.room = gone))
  BY DEF DeletedIn
<1>3. \A r \in tb : r.room # gone => r \in tb2
  BY DEF DeletedIn
<1>4. /\ \A r \in tb : 0 < r.id /\ r.id <= l
      /\ \A t \in ts : t.step = "save" => \A r \in tb : r.id # t.row.id
      /\ \A t \in ts : t.step # "save" => \E r \in tb : Same(r, t.row)
  BY DEF RowsOK
<1>5. IsTable(tb2)
  BY <1>1 DEF IsTable, RowSet
<1>6. \A r \in tb2 : 0 < r.id /\ r.id <= l
  BY <1>2, <1>4 DEF Same
<1>7. \A t \in ts : t.step = "save" => \A r \in tb2 : r.id # t.row.id
  BY <1>2, <1>4 DEF Same
<1>8. \A t \in ts : t.step # "save" => \E r \in tb2 : Same(r, t.row)
  BY <1>1, <1>4 DEF Same
<1>9. RowsOK(tb2, ts, l)
  BY <1>1, <1>5, <1>6, <1>7, <1>8 DEF RowsOK
<1>10. LiveOf(tb2, room) \in SUBSET LiveOf(tb, room)
  <2> SUFFICES ASSUME NEW s \in LiveOf(tb2, room) PROVE s \in LiveOf(tb, room)
    OBVIOUS
  <2>1. s \in tb2 /\ ~s.deleted /\ s.room = room
    BY LiveRows
  <2>2. s \in tb
    BY <1>2, <2>1
  <2>3. QED
    BY <2>1, <2>2, LiveRows
<1>11. ASSUME room # gone PROVE LiveOf(tb, room) \in SUBSET LiveOf(tb2, room)
  <2> SUFFICES ASSUME NEW s \in LiveOf(tb, room) PROVE s \in LiveOf(tb2, room)
    OBVIOUS
  <2>1. s \in tb /\ ~s.deleted /\ s.room = room
    BY LiveRows
  <2>2. s \in tb2
    BY <1>3, <1>11, <2>1
  <2>3. QED
    BY <2>1, <2>2, LiveRows
<1>12. QED
  BY <1>9, <1>10, <1>11

----------------------------------------------------------------------------
(***************************************************************************)
(* What holds of the generator, the messages on their way and the table.   *)
(***************************************************************************)
Stamps == [msg : Messages, at : Nat]

RowInv ==
    /\ IInv
    /\ idLastMs = 0 \/ idLastMs > IdEpoch
    /\ stamped \in SUBSET Stamps /\ partition \in Seq(Stamps)
    /\ stamped # {} \/ partition # <<>> => clock > IdEpoch
    /\ RowsOK(table, tasks, last)

\* Every step is one of nextID's, or leaves the generator alone.
LEMMA GeneratorStep ==
    ASSUME [HistoryNext]_<<vars, hvars>>
    PROVE  [Next]_vars
<1>1. CASE HistoryNext
  BY <1>1 DEF HistoryNext, Next, Stamp, WriteMessages, Assign, SaveMessage, pushLatestToRedis,
              SoftDelete, FirstPageCached, FirstPageStored, NextPage, BackfillRoomCache, Expire,
              Passes
<1>2. QED
  BY <1>1

\* The row of a message.
LEMMA RowTyped ==
    ASSUME NEW s \in Stamps, NEW id \in Int, NEW row, row = Row(s, id)
    PROVE  row \in RowSet /\ row.id = id
<1>1. PICK no : no = FALSE
  OBVIOUS
<1>2. s.msg \in Messages /\ s.at \in Int
  BY DEF Stamps
<1>3. /\ MsgRoom[s.msg] \in Rooms /\ MsgSender[s.msg] \in Nat
      /\ MsgType[s.msg] \in {MsgType[m] : m \in Messages}
      /\ MsgText[s.msg] \in {MsgText[m] : m \in Messages}
  BY <1>2, HistoryAssumption
<1>4. PICK A, B : A = {MsgType[m] : m \in Messages} /\ B = {MsgText[m] : m \in Messages}
  OBVIOUS
<1>5. PICK room \in Rooms, sender \in Nat, type \in A, text \in B, at \in Int :
        room = MsgRoom[s.msg] /\ sender = MsgSender[s.msg] /\ type = MsgType[s.msg]
        /\ text = MsgText[s.msg] /\ at = s.at
  BY <1>2, <1>3, <1>4
<1>6. row = [id |-> id, room |-> room, sender |-> sender, type |-> type, text |-> text, at |-> at,
             deleted |-> no]
  BY <1>1, <1>5 DEF Row
<1>7. no \in BOOLEAN
  BY <1>1
<1>8. RowSet = [id : Int, room : Rooms, sender : Nat, type : A, text : B, at : Int, deleted : BOOLEAN]
  BY <1>4 DEF RowSet
<1>9. QED
  BY <1>6, <1>7, <1>8

\* There is nothing in the table and on its way at the start.
LEMMA RowInit ==
    ASSUME HistoryInit
    PROVE  RowInv
<1>1. IInv /\ idLastMs = 0 /\ last = -1
  BY InitInvariant DEF HistoryInit, Init
<1>2. stamped = {} /\ partition = <<>> /\ tasks = {} /\ table = {}
  BY DEF HistoryInit
<1>3. IsTable({})
  BY FS_EmptySet DEF IsTable
<1>4. RowsOK({}, {}, -1)
  BY <1>3 DEF RowsOK
<1>5. partition \in Seq(Stamps) /\ stamped \in SUBSET Stamps
  BY <1>2
<1>6. QED
  BY <1>1, <1>2, <1>4, <1>5 DEF RowInv

\* An ID that is given is positive: the clock has left the epoch.
LEMMA PositiveID ==
    ASSUME NEW m \in Nat, m > IdEpoch, NEW s \in 0..(SeqRange - 1)
    PROVE  ID(m, s) > 0
<1>1. IdEpoch \in Nat /\ IdEpoch + 1 \in Nat /\ 0 \in 0..(SeqRange - 1) /\ IdEpoch < m
  BY IdGeneratorAssumption
<1>2. ID(IdEpoch + 1, 0) <= ID(m, 0)
  BY <1>1, LaterIsLarger
<1>3. ID(IdEpoch + 1, 0) = ID(IdEpoch, 0) + SeqRange
  BY <1>1, WithinMillisecond
<1>4. ID(IdEpoch, 0) = 0
  <2>1. PICK z : z = IdEpoch - IdEpoch
    OBVIOUS
  <2>2. z = 0
    BY <1>1, <2>1
  <2>3. QED
    BY <2>1, <2>2, IdGeneratorAssumption DEF ID
<1>5. ID(m, s) = ID(m, 0) + s /\ ID(m, 0) \in Int /\ s \in Int /\ 0 <= s
  BY <1>1, WithinMillisecond
<1>6. SeqRange \in Nat /\ SeqRange > 0
  BY IdGeneratorAssumption
<1>7. QED
  BY <1>2, <1>3, <1>4, <1>5, <1>6

\* The archiver gives an ID, or its call has to wait.
LEMMA AssignRows ==
    ASSUME RowInv, Assign, IInv', Returns => last' > last, NEW room
    PROVE  RowInv' /\ PendingOf(tasks', room) = PendingOf(tasks, room)
<1>1. partition # <<>> /\ clock > IdEpoch /\ partition \in Seq(Stamps) /\ stamped \in SUBSET Stamps
  BY DEF RowInv, Assign
<1>2. /\ table' = table /\ stamped' = stamped /\ clock' = clock
      /\ nextID \/ NextMillisecond
  BY DEF Assign, nextID, NextMillisecond
<1>3. RowsOK(table, tasks, last) /\ last \in Int /\ last' \in Int /\ clock \in Nat
  BY IdGeneratorAssumption DEF RowInv, IInv, TypeOK
<1>4. idLastMs' > IdEpoch
  <2>1. idLastMs \in Nat /\ (idLastMs = 0 \/ idLastMs > IdEpoch) /\ clock # 0
    BY <1>1, IdGeneratorAssumption DEF RowInv, IInv, TypeOK
  <2>2. CASE nextID
    <3>1. idLastMs' = clock \/ (idLastMs' = idLastMs /\ clock = idLastMs)
      BY <2>2 DEF nextID
    <3>2. QED
      BY <1>1, <2>1, <3>1
  <2>3. CASE NextMillisecond
    BY <1>1, <2>3 DEF NextMillisecond
  <2>4. QED
    BY <1>2, <2>2, <2>3
<1>5. CASE Returns
  <2>1. last' > last
    BY <1>5
  <2>2. last' > 0
    <3>1. idLastMs' # 0 /\ ~waiting' /\ idLastMs' \in Nat /\ idSequence' \in 0..(SeqRange - 1)
      BY <1>4, <1>5, IdGeneratorAssumption DEF Returns, IInv, TypeOK
    <3>2. last' = ID(idLastMs', idSequence')
      BY <3>1 DEF IInv, ID
    <3>3. ID(idLastMs', idSequence') > 0
      BY <1>4, <3>1, PositiveID
    <3>4. QED
      BY <3>2, <3>3
  <2>3. PICK s : s = Head(partition)
    OBVIOUS
  <2>4. s \in Stamps /\ Tail(partition) \in Seq(Stamps)
    BY <1>1, <2>3
  <2>5. PICK row : row = Row(s, last')
    OBVIOUS
  <2>6. row \in RowSet /\ row.id = last'
    BY <1>3, <2>4, <2>5, RowTyped
  <2>7. PICK t : t = [row |-> row, step |-> "save"]
    OBVIOUS
  <2>8. tasks' = tasks \cup {t} /\ partition' = Tail(partition)
    BY <1>5, <2>3, <2>5, <2>7 DEF Assign
  <2>9. PICK k \in Int : k = last'
    BY <1>3
  <2>10. RowsOK(table, tasks', k) /\ PendingOf(tasks', room) = PendingOf(tasks, room)
    <3>1. PICK tb, ts, ts2, l : tb = table /\ ts = tasks /\ ts2 = tasks' /\ l = last
      OBVIOUS
    <3>2. l \in Int /\ RowsOK(tb, ts, l) /\ l < k /\ 0 < k /\ row.id = k
      BY <1>3, <2>1, <2>2, <2>6, <2>9, <3>1
    <3>3. ts2 = ts \cup {t}
      BY <2>8, <3>1
    <3>4. RowsOK(tb, ts2, k) /\ PendingOf(ts2, room) = PendingOf(ts, room)
      BY <2>6, <2>7, <3>2, <3>3, NewTask
    <3>5. QED
      BY <3>1, <3>4
  <2>11. QED
    BY <1>1, <1>2, <1>4, <2>4, <2>8, <2>9, <2>10 DEF RowInv
<1>6. CASE ~Returns
  <2>1. tasks' = tasks /\ partition' = partition
    BY <1>6 DEF Assign
  <2>2. last' = last
    <3>1. CASE nextID /\ clock # idLastMs
      BY <1>6, <3>1 DEF nextID, Returns
    <3>2. CASE nextID /\ clock = idLastMs
      <4>1. /\ ~waiting /\ idLastMs' = idLastMs
            /\ last' = IF waiting' THEN last ELSE ID(idLastMs, idSequence')
        BY <3>2 DEF nextID
      <4>2. waiting' \/ idSequence' = idSequence
        BY <1>6 DEF Returns
      <4>3. last = ID(idLastMs, idSequence)
        <5>1. idLastMs # 0
          BY <1>1, <3>2, IdGeneratorAssumption
        <5>2. QED
          BY <4>1, <5>1 DEF RowInv, IInv
      <4>4. QED
        BY <4>1, <4>2, <4>3
    <3>3. CASE NextMillisecond
      BY <1>6, <3>3 DEF NextMillisecond, Returns
    <3>4. QED
      BY <1>2, <3>1, <3>2, <3>3
  <2>3. QED
    BY <1>1, <1>2, <1>3, <1>4, <2>1, <2>2 DEF RowInv
<1>7. QED
  BY <1>5, <1>6

\* What the other actions do to the table and the tasks.
LEMMA SaveRows ==
    ASSUME RowInv, NEW t \in tasks, SaveMessage(t), NEW room
    PROVE  /\ RowsOK(table', tasks', last)
           /\ VisibleOf(table', tasks', room) = VisibleOf(table, tasks, room)
           /\ Grown(table, table', tasks', room)
           /\ PendingOf(tasks, room) \in SUBSET PendingOf(tasks', room)
<1>1. PICK tb, ts, tb2, ts2, l : tb = table /\ ts = tasks /\ tb2 = table' /\ ts2 = tasks' /\ l = last
  OBVIOUS
<1>2. PICK t2 : t2 = [t EXCEPT !.step = "push"]
  OBVIOUS
<1>3. l \in Int /\ RowsOK(tb, ts, l)
  BY <1>1 DEF RowInv, IInv, TypeOK
<1>4. t \in ts /\ t.step = "save" /\ tb2 = tb \cup {t.row} /\ ts2 = (ts \ {t}) \cup {t2}
  BY <1>1, <1>2 DEF SaveMessage
<1>5. /\ RowsOK(tb2, ts2, l)
      /\ VisibleOf(tb2, ts2, room) = VisibleOf(tb, ts, room)
      /\ Grown(tb, tb2, ts2, room)
      /\ PendingOf(ts, room) \in SUBSET PendingOf(ts2, room)
  BY <1>2, <1>3, <1>4, SavedRow
<1>6. QED
  BY <1>1, <1>5

\* A push ends its task.
LEMMA PushRows ==
    ASSUME RowInv, NEW t \in tasks, NEW fails, pushLatestToRedis(t, fails), NEW room
    PROVE  /\ RowsOK(table, tasks', last)
           /\ room # t.row.room => PendingOf(tasks', room) = PendingOf(tasks, room)
           /\ room = t.row.room =>
                \A id : id \in PendingOf(tasks', room) <=> id \in PendingOf(tasks, room) /\ id # t.row.id
           /\ room = t.row.room => t.row.id \in PendingOf(tasks, room)
<1>1. PICK tb, ts, ts2, l : tb = table /\ ts = tasks /\ ts2 = tasks' /\ l = last
  OBVIOUS
<1>2. l \in Int /\ RowsOK(tb, ts, l)
  BY <1>1 DEF RowInv, IInv, TypeOK
<1>3. t \in ts /\ t.step # "save" /\ ts2 = ts \ {t}
  BY <1>1 DEF pushLatestToRedis
<1>4. /\ RowsOK(tb, ts2, l)
      /\ room # t.row.room => PendingOf(ts2, room) = PendingOf(ts, room)
      /\ room = t.row.room =>
                \A id : id \in PendingOf(ts2, room) <=> id \in PendingOf(ts, room) /\ id # t.row.id
      /\ room = t.row.room => t.row.id \in PendingOf(ts, room)
  BY <1>2, <1>3, DoneTask
<1>5. QED
  BY <1>1, <1>4

\* A deletion hides rows of its room.
LEMMA DeleteRows ==
    ASSUME RowInv, NEW gone, NEW user, SoftDelete(gone, user), NEW room
    PROVE  /\ RowsOK(table', tasks, last) /\ DeletedIn(table, table', gone)
           /\ LiveOf(table', room) \in SUBSET LiveOf(table, room)
           /\ room # gone => LiveOf(table', room) = LiveOf(table, room)
<1>1. PICK tb, ts, tb2, l : tb = table /\ ts = tasks /\ tb2 = table' /\ l = last
  OBVIOUS
<1>2. l \in Int /\ RowsOK(tb, ts, l)
  BY <1>1 DEF RowInv, IInv, TypeOK
<1>3. tb \in SUBSET RowSet /\ IsTable(tb)
  BY <1>2 DEF RowsOK
<1>4. \/ tb2 = mysqlSoftDeleteUserMessagesInRoom(tb, gone, user)
      \/ tb2 = mongoSoftDeleteUserMessagesInRoom(tb, gone, user)
  BY <1>1 DEF SoftDelete
<1>5. DeletedIn(tb, tb2, gone)
  BY <1>3, <1>4, SoftDeletes
<1>6. /\ RowsOK(tb2, ts, l)
      /\ LiveOf(tb2, room) \in SUBSET LiveOf(tb, room)
      /\ room # gone => LiveOf(tb2, room) = LiveOf(tb, room)
  BY <1>2, <1>5, DeletionKeeps
<1>7. QED
  BY <1>1, <1>5, <1>6

\* Every step keeps the invariant of the rows.
LEMMA RowStep ==
    ASSUME RowInv, [HistoryNext]_<<vars, hvars>>
    PROVE  RowInv' /\ [Returns => last' > last]_vars
<1>1. IInv' /\ (Returns => last' > last)
  BY GeneratorStep, StepInvariant DEF RowInv
<1>2. /\ stamped \in SUBSET Stamps /\ partition \in Seq(Stamps)
      /\ stamped # {} \/ partition # <<>> => clock > IdEpoch
      /\ RowsOK(table, tasks, last)
      /\ idLastMs = 0 \/ idLastMs > IdEpoch
  BY DEF RowInv
<1>3. clock \in Nat /\ IdEpoch \in Nat
  BY IdGeneratorAssumption DEF RowInv, IInv, TypeOK
<1>4. ASSUME NEW m \in Messages, Stamp(m) PROVE RowInv'
  <2>1. PICK s : s = [msg |-> m, at |-> clock]
    OBVIOUS
  <2>2. s \in Stamps
    BY <1>3, <2>1 DEF Stamps
  <2>3. stamped' = stamped \cup {s} /\ clock > IdEpoch
    BY <1>4, <2>1 DEF Stamp
  <2>4. /\ partition' = partition /\ table' = table /\ tasks' = tasks
        /\ last' = last /\ clock' = clock /\ idLastMs' = idLastMs
    BY <1>4 DEF Stamp, vars
  <2>5. QED
    BY <1>1, <1>2, <2>2, <2>3, <2>4 DEF RowInv
<1>5. ASSUME NEW s \in stamped, WriteMessages(s) PROVE RowInv'
  <2>1. stamped' = stamped \ {s} /\ partition' = Append(partition, s)
    BY <1>5 DEF WriteMessages
  <2>2. /\ table' = table /\ tasks' = tasks
        /\ last' = last /\ clock' = clock /\ idLastMs' = idLastMs
    BY <1>5 DEF WriteMessages, vars
  <2>3. partition' \in Seq(Stamps) /\ stamped' \in SUBSET Stamps /\ clock > IdEpoch
    BY <1>2, <1>5, <2>1
  <2>4. QED
    BY <1>1, <1>2, <2>2, <2>3 DEF RowInv
<1>6. CASE Assign
  BY <1>1, <1>6, AssignRows
<1>7. ASSUME NEW t \in tasks, SaveMessage(t) PROVE RowInv'
  <2>1. RowsOK(table', tasks', last)
    BY <1>7, SaveRows
  <2>2. /\ partition' = partition /\ stamped' = stamped
        /\ last' = last /\ clock' = clock /\ idLastMs' = idLastMs
    BY <1>7 DEF SaveMessage, vars
  <2>3. QED
    BY <1>1, <1>2, <2>1, <2>2 DEF RowInv
<1>8. ASSUME NEW t \in tasks, NEW fails, pushLatestToRedis(t, fails) PROVE RowInv'
  <2>1. RowsOK(table, tasks', last)
    BY <1>8, PushRows
  <2>2. /\ partition' = partition /\ stamped' = stamped /\ table' = table
        /\ last' = last /\ clock' = clock /\ idLastMs' = idLastMs
    BY <1>8 DEF pushLatestToRedis, vars
  <2>3. QED
    BY <1>1, <1>2, <2>1, <2>2 DEF RowInv
<1>9. ASSUME NEW gone, NEW user, SoftDelete(gone, user) PROVE RowInv'
  <2>1. RowsOK(table', tasks, last)
    BY <1>9, DeleteRows
  <2>2. /\ partition' = partition /\ stamped' = stamped /\ tasks' = tasks
        /\ last' = last /\ clock' = clock /\ idLastMs' = idLastMs
    BY <1>9 DEF SoftDelete, vars
  <2>3. QED
    BY <1>1, <1>2, <2>1, <2>2 DEF RowInv
<1>10. CASE \/ \E room \in Rooms, asked \in 0..(MaxLimit + 1) : FirstPageCached(room, asked)
            \/ \E room \in Rooms, asked \in 0..(MaxLimit + 1), fails \in BOOLEAN :
                    FirstPageStored(room, asked, fails)
            \/ NextPage
            \/ \E i \in DOMAIN backfills, fails \in BOOLEAN : BackfillRoomCache(i, fails)
            \/ \E room \in Rooms : Expire(room)
            \/ Passes
            \/ UNCHANGED <<vars, hvars>>
  <2>1. /\ partition' = partition /\ stamped' = stamped /\ tasks' = tasks /\ table' = table
        /\ last' = last /\ idLastMs' = idLastMs
        /\ clock' = clock \/ clock' = clock + 1
    BY <1>10 DEF FirstPageCached, FirstPageStored, NextPage, BackfillRoomCache, Expire, Passes,
                 Tick, vars, hvars
  <2>2. stamped # {} \/ partition # <<>> => clock' > IdEpoch
    BY <1>2, <1>3, <2>1
  <2>3. QED
    BY <1>1, <1>2, <2>1, <2>2 DEF RowInv
<1>11. RowInv'
  BY <1>4, <1>5, <1>6, <1>7, <1>8, <1>9, <1>10 DEF HistoryNext
<1>12. QED
  BY <1>1, <1>11

----------------------------------------------------------------------------
(***************************************************************************)
(* The cache.  A list that followed the store so far shows the newest of   *)
(* the messages that are not pending, and a backfill that may still meet   *)
(* an empty list carries the newest of the messages but for pending ones.  *)
(***************************************************************************)
Fills == [room : Rooms, ids : {x \in Seq(Int) : x # <<>>}]

Fill(b, tb, ts) ==
    \E R \in SUBSET LiveOf(tb, b.room) :
        /\ Cached(Reverse(b.ids), R)
        /\ \A r \in LiveOf(tb, b.room) : r \in R \/ r.id \in PendingOf(ts, b.room)

CacheInv ==
    /\ latest \in [Rooms -> Seq(Int)]
    /\ \A room \in Rooms : Len(latest[room]) <= RoomLatestMax
    /\ \A room \in Rooms : room \notin mixed => Cached(latest[room], VisibleOf(table, tasks, room))
    /\ backfills \in Seq(Fills)
    /\ \A i \in DOMAIN backfills :
            \/ backfills[i].room \in mixed
            \/ latest[backfills[i].room] # <<>>
            \/ Fill(backfills[i], table, tasks)

\* A backfill that was read before further messages were saved.
LEMMA FillGrows ==
    ASSUME NEW b, NEW tb, NEW ts, Fill(b, tb, ts), NEW tb2, NEW ts2,
           Grown(tb, tb2, ts2, b.room), PendingOf(ts, b.room) \in SUBSET PendingOf(ts2, b.room)
    PROVE  Fill(b, tb2, ts2)
<1>1. PICK R \in SUBSET LiveOf(tb, b.room) :
        /\ Cached(Reverse(b.ids), R)
        /\ \A r \in LiveOf(tb, b.room) : r \in R \/ r.id \in PendingOf(ts, b.room)
  BY DEF Fill
<1>2. R \in SUBSET LiveOf(tb2, b.room)
  BY DEF Grown
<1>3. \A r \in LiveOf(tb2, b.room) : r \in R \/ r.id \in PendingOf(ts2, b.room)
  BY <1>1 DEF Grown
<1>4. QED
  BY <1>1, <1>2, <1>3 DEF Fill

\* A backfill whose room is left alone.
LEMMA FillSame ==
    ASSUME NEW b, NEW tb, NEW ts, Fill(b, tb, ts), NEW tb2, NEW ts2,
           LiveOf(tb2, b.room) = LiveOf(tb, b.room), PendingOf(ts2, b.room) = PendingOf(ts, b.room)
    PROVE  Fill(b, tb2, ts2)
BY DEF Fill

\* A room that is left alone.
LEMMA VisibleSame ==
    ASSUME NEW tb, NEW ts, NEW tb2, NEW ts2, NEW room,
           LiveOf(tb2, room) = LiveOf(tb, room), PendingOf(ts2, room) = PendingOf(ts, room)
    PROVE  VisibleOf(tb2, ts2, room) = VisibleOf(tb, ts, room)
BY DEF VisibleOf

\* The lists are empty at the start.
LEMMA CacheInit ==
    ASSUME HistoryInit
    PROVE  CacheInv
<1>1. latest = [room \in Rooms |-> <<>>] /\ backfills = <<>>
  BY DEF HistoryInit
<1>2. latest \in [Rooms -> Seq(Int)] /\ \A room \in Rooms : latest[room] = <<>> /\ Len(latest[room]) = 0
  BY <1>1
<1>3. \A room \in Rooms : Len(latest[room]) <= RoomLatestMax
  BY <1>2, HistoryAssumption
<1>4. \A room \in Rooms : Cached(latest[room], VisibleOf(table, tasks, room))
  BY <1>2, CachedEmpty
<1>5. backfills \in Seq(Fills) /\ DOMAIN backfills = {}
  BY <1>1
<1>6. QED
  BY <1>2, <1>3, <1>4, <1>5 DEF CacheInv

\* A step that touches neither the lists nor the backfills, nor what they are about.
LEMMA CacheKept ==
    ASSUME CacheInv, latest' = latest, backfills' = backfills, mixed' = mixed,
           \A room \in Rooms : VisibleOf(table', tasks', room) = VisibleOf(table, tasks, room),
           \A b \in Fills : Fill(b, table, tasks) => Fill(b, table', tasks')
    PROVE  CacheInv'
<1>1. \A room \in Rooms : room \notin mixed' => Cached(latest'[room], VisibleOf(table', tasks', room))
  BY DEF CacheInv
<1>2. ASSUME NEW i \in DOMAIN backfills'
      PROVE  \/ backfills'[i].room \in mixed'
             \/ latest'[backfills'[i].room] # <<>>
             \/ Fill(backfills'[i], table', tasks')
  <2>1. backfills[i] \in Fills /\ i \in DOMAIN backfills
    BY <1>2 DEF CacheInv
  <2>2. QED
    BY <2>1 DEF CacheInv
<1>3. QED
  BY <1>1, <1>2 DEF CacheInv

\* A message is saved.
LEMMA CacheSave ==
    ASSUME RowInv, CacheInv, NEW t \in tasks, SaveMessage(t)
    PROVE  CacheInv'
<1>1. latest' = latest /\ backfills' = backfills /\ mixed' = mixed
  BY DEF SaveMessage
<1>2. \A room \in Rooms : VisibleOf(table', tasks', room) = VisibleOf(table, tasks, room)
  BY SaveRows
<1>3. ASSUME NEW b \in Fills, Fill(b, table, tasks) PROVE Fill(b, table', tasks')
  <2>1. Grown(table, table', tasks', b.room)
    BY SaveRows
  <2>2. PendingOf(tasks, b.room) \in SUBSET PendingOf(tasks', b.room)
    BY SaveRows
  <2>3. PICK tb, ts, tb2, ts2 : tb = table /\ ts = tasks /\ tb2 = table' /\ ts2 = tasks'
    OBVIOUS
  <2>4. Fill(b, tb2, ts2)
    BY <1>3, <2>1, <2>2, <2>3, FillGrows
  <2>5. QED
    BY <2>3, <2>4
<1>4. QED
  BY <1>1, <1>2, <1>3, CacheKept

\* Steps that leave the table alone and, but for a new task that has to save, the tasks.
LEMMA CacheOther ==
    ASSUME CacheInv, latest' = latest, backfills' = backfills, mixed' = mixed, table' = table,
           \A room : PendingOf(tasks', room) = PendingOf(tasks, room)
    PROVE  CacheInv'
<1>1. PICK tb, ts, ts2 : tb = table /\ ts = tasks /\ ts2 = tasks'
  OBVIOUS
<1>2. \A room : PendingOf(ts2, room) = PendingOf(ts, room)
  BY <1>1
<1>3. \A room \in Rooms : VisibleOf(tb, ts2, room) = VisibleOf(tb, ts, room)
  BY <1>2, VisibleSame
<1>4. \A b \in Fills : Fill(b, tb, ts) => Fill(b, tb, ts2)
  BY <1>2, FillSame
<1>5. QED
  BY <1>1, <1>3, <1>4, CacheKept

\* A push that was not overtaken makes its row visible, newer than all the others.
LEMMA PushedNewest ==
    ASSUME RowInv, NEW t \in tasks, NEW fails, pushLatestToRedis(t, fails),
           NEW room, room = t.row.room, ~Overtaken(t.row), t.row.id \in LiveIds(room)
    PROVE  \E r0 : /\ r0.id = t.row.id /\ r0.id \in Int
                   /\ \A r \in VisibleOf(table, tasks, room) : Before(r, r0)
                   /\ VisibleOf(table, tasks', room) = VisibleOf(table, tasks, room) \cup {r0}
<1>1. PICK r0 \in LiveOf(table, room) : r0.id = t.row.id
  BY DEF LiveIds, LiveOf
<1>2. RowsOK(table, tasks, last) /\ IsTable(table) /\ t.step # "save"
  BY DEF RowInv, RowsOK, pushLatestToRedis
<1>3. r0 \in table /\ r0.id \in Int /\ r0.room = room
  BY <1>1, <1>2, LiveRows DEF IsTable
<1>4. r0.at = t.row.at
  <2>1. PICK r \in table : Same(r, t.row)
    BY <1>2 DEF RowsOK
  <2>2. r = r0
    BY <1>1, <1>2, <1>3, <2>1 DEF Same, IsTable
  <2>3. QED
    BY <2>1, <2>2 DEF Same
<1>5. t.row.id \in PendingOf(tasks, room)
  BY PushRows
<1>6. ASSUME NEW r \in VisibleOf(table, tasks, room) PROVE Before(r, r0)
  <2>1. r \in LiveOf(table, room) /\ r.id \notin PendingOf(tasks, room)
    BY DEF VisibleOf
  <2>2. r \in table /\ r.room = room
    BY <2>1, LiveRows
  <2>3. r.id # r0.id
    BY <1>1, <1>5, <2>1
  <2>4. Before(r, r0) \/ Before(r0, r)
    BY <1>2, <1>3, <2>2, <2>3, BeforeOrders DEF IsTable
  <2>5. ~Before(r0, r)
    <3> SUFFICES ASSUME Before(r0, r) PROVE FALSE
      OBVIOUS
    <3>1. Before(t.row, r)
      BY <1>1, <1>4 DEF Before
    <3>2. r.id \notin Pending(t.row.room)
      BY <2>1 DEF Pending, PendingOf
    <3>3. QED
      BY <2>2, <3>1, <3>2 DEF Overtaken
  <2>6. QED
    BY <2>4, <2>5
<1>7. \A id : id \in PendingOf(tasks', room) <=> id \in PendingOf(tasks, room) /\ id # t.row.id
  BY PushRows
<1>8. VisibleOf(table, tasks', room) = VisibleOf(table, tasks, room) \cup {r0}
  <2>1. ASSUME NEW r, r \in VisibleOf(table, tasks', room)
        PROVE  r \in VisibleOf(table, tasks, room) \cup {r0}
    <3>1. r \in LiveOf(table, room) /\ (r.id \notin PendingOf(tasks, room) \/ r.id = t.row.id)
      BY <1>7, <2>1 DEF VisibleOf
    <3>2. CASE r.id = t.row.id
      <4>1. r \in table
        BY <3>1, LiveRows
      <4>2. QED
        BY <1>1, <1>2, <1>3, <3>2, <4>1 DEF IsTable
    <3>3. CASE r.id \notin PendingOf(tasks, room)
      BY <3>1, <3>3 DEF VisibleOf
    <3>4. QED
      BY <3>1, <3>2, <3>3
  <2>2. ASSUME NEW r \in VisibleOf(table, tasks, room) PROVE r \in VisibleOf(table, tasks', room)
    BY <1>7, <2>2 DEF VisibleOf
  <2>3. r0 \in VisibleOf(table, tasks', room)
    BY <1>1, <1>7 DEF VisibleOf
  <2>4. QED
    BY <2>1, <2>2, <2>3
<1>9. QED
  BY <1>1, <1>3, <1>6, <1>8

\* A task pushes its message, in turn or not, or Redis fails.
LEMMA CachePush ==
    ASSUME RowInv, CacheInv, NEW t \in tasks, NEW fails \in BOOLEAN, pushLatestToRedis(t, fails)
    PROVE  CacheInv'
<1>1. PICK home : home = t.row.room
  OBVIOUS
<1>2. PICK id : id = t.row.id
  OBVIOUS
<1>3. home \in Rooms /\ id \in Int /\ RowsOK(table, tasks, last)
  BY <1>1, <1>2 DEF RowInv, RowsOK, TaskSet, RowSet
<1>4. /\ latest' = IF fails THEN latest ELSE [latest EXCEPT ![home] = Pushed(@, <<id>>)]
      /\ mixed' = IF fails \/ Overtaken(t.row) \/ id \notin LiveIds(home)
                  THEN mixed \cup {home} ELSE mixed
      /\ table' = table /\ backfills' = backfills
  BY <1>1, <1>2 DEF pushLatestToRedis
<1>5. latest \in [Rooms -> Seq(Int)] /\ backfills \in Seq(Fills)
  BY DEF CacheInv
<1>6. PICK u : u = Pushed(latest[home], <<id>>)
  OBVIOUS
<1>7. u \in Seq(Int) /\ Len(u) <= RoomLatestMax /\ u # <<>>
  <2>1. latest[home] \in Seq(Int) /\ <<id>> \in Seq(Int) /\ <<id>> # <<>>
    BY <1>3, <1>5
  <2>2. QED
    BY <1>6, <2>1, PushedLength
<1>8. /\ latest' \in [Rooms -> Seq(Int)]
      /\ \A room \in Rooms : room # home => latest'[room] = latest[room]
      /\ ~fails => latest'[home] = u
      /\ fails => latest'[home] = latest[home]
  BY <1>3, <1>4, <1>5, <1>6, <1>7
<1>9. \A room \in Rooms : Len(latest'[room]) <= RoomLatestMax
  BY <1>7, <1>8 DEF CacheInv
<1>10. \A room : room # home => PendingOf(tasks', room) = PendingOf(tasks, room)
  BY <1>1, PushRows
<1>11. ASSUME NEW room \in Rooms, room \notin mixed'
       PROVE  Cached(latest'[room], VisibleOf(table', tasks', room))
  <2>1. room \notin mixed /\ Cached(latest[room], VisibleOf(table, tasks, room))
    BY <1>4, <1>11 DEF CacheInv
  <2>2. CASE room # home
    <3>1. VisibleOf(table', tasks', room) = VisibleOf(table, tasks, room)
      BY <1>4, <1>10, <2>2 DEF VisibleOf
    <3>2. QED
      BY <1>8, <2>1, <2>2, <3>1
  <2>3. CASE room = home
    <3>1. ~fails /\ ~Overtaken(t.row) /\ t.row.id \in LiveIds(room)
      BY <1>2, <1>4, <1>11, <2>3
    <3>2. PICK r0 : /\ r0.id = t.row.id /\ r0.id \in Int
                    /\ \A r \in VisibleOf(table, tasks, room) : Before(r, r0)
                    /\ VisibleOf(table, tasks', room) = VisibleOf(table, tasks, room) \cup {r0}
      BY <1>1, <2>3, <3>1, PushedNewest
    <3>3. PICK V : V = VisibleOf(table, tasks, room)
      OBVIOUS
    <3>4. PICK L : L = latest[home]
      OBVIOUS
    <3>5. \A r \in V : r.id \in Int
      BY <1>3, <3>3, LiveTable DEF RowsOK, IsTable
    <3>6. Cached(L, V) /\ \A r \in V : Before(r, r0)
      BY <2>1, <2>3, <3>2, <3>3, <3>4
    <3>7. Cached(Pushed(L, <<id>>), V \cup {r0})
      BY <1>2, <3>2, <3>5, <3>6, CachedPush
    <3>8. QED
      BY <1>4, <1>6, <1>8, <2>3, <3>1, <3>2, <3>3, <3>4, <3>7
  <2>4. QED
    BY <2>2, <2>3
<1>12. ASSUME NEW i \in DOMAIN backfills'
       PROVE  \/ backfills'[i].room \in mixed'
              \/ latest'[backfills'[i].room] # <<>>
              \/ Fill(backfills'[i], table', tasks')
  <2>1. PICK b : b = backfills[i]
    OBVIOUS
  <2>2. b \in Fills /\ b.room \in Rooms /\ backfills'[i] = b
    <3>1. b \in Fills /\ backfills'[i] = b
      BY <1>4, <1>5, <1>12, <2>1
    <3>2. QED
      BY <3>1 DEF Fills
  <2>3. b.room \in mixed \/ latest[b.room] # <<>> \/ Fill(b, table, tasks)
    BY <1>4, <1>12, <2>1 DEF CacheInv
  <2>4. CASE b.room = home
    BY <1>4, <1>7, <1>8, <2>2, <2>4
  <2>5. CASE b.room # home
    <3>1. PendingOf(tasks', b.room) = PendingOf(tasks, b.room)
      BY <1>10, <2>5
    <3>2. Fill(b, table, tasks) => Fill(b, table, tasks')
      BY <3>1 DEF Fill
    <3>3. latest'[b.room] = latest[b.room] /\ (b.room \in mixed => b.room \in mixed')
      BY <1>4, <1>8, <2>2, <2>5
    <3>4. QED
      BY <1>4, <2>2, <2>3, <3>2, <3>3
  <2>6. QED
    BY <2>4, <2>5
<1>13. QED
  BY <1>4, <1>5, <1>8, <1>9, <1>11, <1>12 DEF CacheInv

\* A deletion takes its room out of the claim and leaves the others alone.
LEMMA CacheDelete ==
    ASSUME RowInv, CacheInv, NEW gone, NEW user, SoftDelete(gone, user)
    PROVE  CacheInv'
<1>1. /\ latest' = latest /\ backfills' = backfills /\ tasks' = tasks /\ mixed' = mixed \cup {gone}
  BY DEF SoftDelete
<1>2. \A room : room # gone => LiveOf(table', room) = LiveOf(table, room)
  BY DeleteRows
<1>3. ASSUME NEW room \in Rooms, room \notin mixed'
      PROVE  Cached(latest'[room], VisibleOf(table', tasks', room))
  <2>1. room \notin mixed /\ room # gone
    BY <1>1, <1>3
  <2>2. VisibleOf(table', tasks', room) = VisibleOf(table, tasks, room)
    BY <1>1, <1>2, <2>1 DEF VisibleOf
  <2>3. QED
    BY <1>1, <2>1, <2>2 DEF CacheInv
<1>4. ASSUME NEW i \in DOMAIN backfills'
      PROVE  \/ backfills'[i].room \in mixed'
             \/ latest'[backfills'[i].room] # <<>>
             \/ Fill(backfills'[i], table', tasks')
  <2>1. PICK b : b = backfills[i]
    OBVIOUS
  <2>2. b.room \in mixed \/ latest[b.room] # <<>> \/ Fill(b, table, tasks)
    BY <1>1, <1>4, <2>1 DEF CacheInv
  <2>3. CASE b.room = gone
    BY <1>1, <2>1, <2>3
  <2>4. CASE b.room # gone
    <3>1. Fill(b, table, tasks) => Fill(b, table', tasks)
      BY <1>2, <2>4 DEF Fill
    <3>2. QED
      BY <1>1, <2>1, <2>2, <3>1
  <2>5. QED
    BY <2>3, <2>4
<1>5. QED
  BY <1>1, <1>3, <1>4 DEF CacheInv

\* The list of a room expires: no backfill of the room is under way.
LEMMA CacheExpire ==
    ASSUME CacheInv, NEW gone \in Rooms, Expire(gone)
    PROVE  CacheInv'
<1>1. /\ latest' = [latest EXCEPT ![gone] = <<>>] /\ mixed' = mixed \ {gone}
      /\ backfills' = backfills /\ table' = table /\ tasks' = tasks
      /\ \A i \in DOMAIN backfills : backfills[i].room # gone
  BY DEF Expire
<1>2. latest \in [Rooms -> Seq(Int)] /\ backfills \in Seq(Fills)
  BY DEF CacheInv
<1>3. <<>> \in Seq(Int) /\ Len(<<>>) = 0
  OBVIOUS
<1>4. /\ latest' \in [Rooms -> Seq(Int)] /\ latest'[gone] = <<>>
      /\ \A room \in Rooms : room # gone => latest'[room] = latest[room]
  BY <1>1, <1>2, <1>3
<1>5. \A room \in Rooms : Len(latest'[room]) <= RoomLatestMax
  <2>1. 0 <= RoomLatestMax /\ \A room \in Rooms : Len(latest[room]) <= RoomLatestMax
    BY HistoryAssumption DEF CacheInv
  <2>2. Len(latest'[gone]) = 0
    BY <1>3, <1>4
  <2>3. QED
    BY <1>4, <2>1, <2>2
<1>6. ASSUME NEW room \in Rooms, room \notin mixed'
      PROVE  Cached(latest'[room], VisibleOf(table', tasks', room))
  <2>1. CASE room = gone
    BY <1>4, <2>1, CachedEmpty
  <2>2. CASE room # gone
    BY <1>1, <1>4, <1>6, <2>2 DEF CacheInv
  <2>3. QED
    BY <2>1, <2>2
<1>7. ASSUME NEW i \in DOMAIN backfills'
      PROVE  \/ backfills'[i].room \in mixed'
             \/ latest'[backfills'[i].room] # <<>>
             \/ Fill(backfills'[i], table', tasks')
  <2>1. PICK b : b = backfills[i]
    OBVIOUS
  <2>2. b \in Fills /\ b.room \in Rooms /\ b.room # gone
    <3>1. b \in Fills /\ b.room # gone
      BY <1>1, <1>2, <1>7, <2>1
    <3>2. QED
      BY <3>1 DEF Fills
  <2>3. b.room \in mixed \/ latest[b.room] # <<>> \/ Fill(b, table, tasks)
    BY <1>1, <1>7, <2>1 DEF CacheInv
  <2>4. QED
    BY <1>1, <1>4, <2>1, <2>2, <2>3
<1>8. QED
  BY <1>1, <1>2, <1>4, <1>5, <1>6, <1>7 DEF CacheInv

\* A limit that a request asks for is a positive one in the end.
LEMMA NormalizedPositive ==
    ASSUME NEW asked \in Int
    PROVE  Normalized(asked) \in Nat \ {0}
BY HistoryAssumption, MessageStoreAssumption DEF Normalized

\* The first page of either store.
LEMMA FirstPage ==
    ASSUME IsTable(table), NEW room, NEW k \in Nat, NEW p, p = GetHistoryByCursor(room, 0, k)
    PROVE  p = Newest(LiveOf(table, room), k)
<1>1. /\ mysqlBelow(table, LiveOf(table, room), 0) = LiveOf(table, room)
      /\ mongoBelow(table, LiveOf(table, room), 0) = LiveOf(table, room)
  BY DEF mysqlBelow, mongoBelow
<1>2. InRoom(mysqlLive(table), room) = LiveOf(table, room)
      /\ InRoom(notDeletedFilter(table), room) = LiveOf(table, room)
  BY DEF LiveOf, notDeletedFilter, mysqlLive
<1>3. QED
  BY <1>1, <1>2 DEF GetHistoryByCursor, mysqlGetHistoryByCursor, mongoGetHistoryByCursor

\* A first page from the store starts a backfill with the newest messages.
LEMMA CacheFirstPage ==
    ASSUME RowInv, CacheInv, NEW room \in Rooms, NEW asked \in Int, NEW fails \in BOOLEAN,
           FirstPageStored(room, asked, fails)
    PROVE  CacheInv'
<1>1. PICK k : k = Normalized(asked)
  OBVIOUS
<1>2. PICK p : p = GetHistoryByCursor(room, 0, k)
  OBVIOUS
<1>3. /\ latest' = latest /\ mixed' = mixed /\ table' = table /\ tasks' = tasks
      /\ backfills' = IF p = <<>> THEN backfills
                      ELSE Append(backfills, [room |-> room, ids |-> Ids(p)])
  BY <1>1, <1>2 DEF FirstPageStored
<1>4. CASE p = <<>>
  BY <1>3, <1>4, CacheOther
<1>5. CASE p # <<>>
  <2>1. PICK R : R = LiveOf(table, room)
    OBVIOUS
  <2>2. IsTable(R)
    BY <2>1, LiveTable DEF RowInv, RowsOK
  <2>3. k \in Nat /\ p = Newest(R, k)
    BY <1>1, <1>2, <2>1, NormalizedPositive, FirstPage DEF RowInv, RowsOK
  <2>4. /\ IsPage(p, R) /\ Len(p) \in Nat
        /\ Ids(p) \in Seq(Int) /\ Len(Ids(p)) = Len(p)
        /\ Cached(Reverse(Ids(p)), R)
    BY <2>2, <2>3, NewestPage
  <2>5. PICK ids : ids = Ids(p)
    OBVIOUS
  <2>6. PICK b : b = [room |-> room, ids |-> ids]
    OBVIOUS
  <2>7. ids \in Seq(Int) /\ ids # <<>>
    <3>1. p \in Seq(R)
      BY <2>4 DEF IsPage
    <3>2. Len(p) # 0
      BY <1>5, <3>1
    <3>3. QED
      BY <2>4, <2>5, <3>2
  <2>8. b \in Fills /\ b.room = room /\ b.ids = ids
    BY <2>6, <2>7 DEF Fills
  <2>9. Fill(b, table, tasks)
    BY <2>1, <2>4, <2>5, <2>8 DEF Fill
  <2>10. backfills \in Seq(Fills) /\ backfills' = Append(backfills, b)
    BY <1>3, <1>5, <2>5, <2>6 DEF CacheInv
  <2>11. PICK n : n = Len(backfills)
    OBVIOUS
  <2>12. /\ backfills' \in Seq(Fills) /\ n \in Nat /\ DOMAIN backfills = 1..n
         /\ DOMAIN backfills' = 1..(n + 1)
         /\ backfills'[n + 1] = b /\ \A i \in 1..n : backfills'[i] = backfills[i]
    BY <2>8, <2>10, <2>11
  <2>13. \A i \in 1..(n + 1) : i \in 1..n \/ i = n + 1
    BY <2>12
  <2>14. ASSUME NEW i \in DOMAIN backfills'
         PROVE  \/ backfills'[i].room \in mixed'
                \/ latest'[backfills'[i].room] # <<>>
                \/ Fill(backfills'[i], table', tasks')
    <3>1. CASE i = n + 1
      BY <1>3, <2>9, <2>12, <3>1
    <3>2. CASE i \in 1..n
      <4>1. i \in DOMAIN backfills /\ backfills'[i] = backfills[i]
        BY <2>12, <3>2
      <4>2. QED
        BY <1>3, <4>1 DEF CacheInv
    <3>3. QED
      BY <2>12, <2>13, <2>14, <3>1, <3>2
  <2>15. QED
    BY <1>3, <2>12, <2>14 DEF CacheInv
<1>6. QED
  BY <1>4, <1>5

\* RemoveAt leaves elements of the sequence.
LEMMA RemoveAtFacts ==
    ASSUME NEW S, NEW s \in Seq(S), NEW i \in DOMAIN s, NEW u, u = RemoveAt(s, i)
    PROVE  u \in Seq(S) /\ \A j \in DOMAIN u : \E k \in DOMAIN s : u[j] = s[k]
<1>1. PICK n : n = Len(s)
  OBVIOUS
<1>2. n \in Nat /\ DOMAIN s = 1..n /\ i \in 1..n /\ i \in Nat
  BY <1>1
<1>3. PICK a, b : a = SubSeq(s, 1, i - 1) /\ b = SubSeq(s, i + 1, n)
  OBVIOUS
<1>4. a \in Seq(S) /\ Len(a) = i - 1 /\ \A j \in 1..(i - 1) : a[j] = s[j]
  BY <1>1, <1>2, <1>3
<1>5. b \in Seq(S) /\ Len(b) = n - i /\ \A j \in 1..(n - i) : b[j] = s[i + j]
  <2>1. b \in Seq(S) /\ Len(b) = IF i + 1 <= n THEN n - (i + 1) + 1 ELSE 0
    BY <1>1, <1>2, <1>3
  <2>2. Len(b) = n - i
    BY <1>2, <2>1
  <2>3. ASSUME NEW j \in 1..(n - i) PROVE b[j] = s[i + j]
    <3>1. b[j] = s[(i + 1) + j - 1]
      BY <1>1, <1>2, <1>3
    <3>2. (i + 1) + j - 1 = i + j
      BY <1>2
    <3>3. QED
      BY <3>1, <3>2
  <2>4. QED
    BY <2>1, <2>2, <2>3
<1>6. u = a \o b
  BY <1>1, <1>3 DEF RemoveAt
<1>7. /\ u \in Seq(S) /\ \A j \in 1..Len(a) : u[j] = a[j]
      /\ \A j \in 1..Len(b) : u[Len(a) + j] = b[j]
      /\ \A j \in 1..Len(u) : j \in 1..Len(a) \/ \E k \in 1..Len(b) : j = Len(a) + k
  <2>1. a \in Seq(S) /\ b \in Seq(S)
    BY <1>4, <1>5
  <2>2. QED
    BY <1>6, <2>1, JoinFacts
<1>8. ASSUME NEW j \in DOMAIN u PROVE \E k \in 1..n : u[j] = s[k]
  <2>1. j \in 1..Len(u)
    BY <1>7, <1>8
  <2>2. CASE j \in 1..Len(a)
    <3>1. j \in 1..(i - 1) /\ j \in 1..n /\ u[j] = s[j]
      BY <1>2, <1>4, <1>7, <2>2
    <3>2. QED
      BY <3>1
  <2>3. CASE \E k \in 1..Len(b) : j = Len(a) + k
    <3>1. PICK k \in 1..Len(b) : j = Len(a) + k
      BY <2>3
    <3>2. k \in 1..(n - i) /\ u[j] = s[i + k]
      BY <1>5, <1>7, <3>1
    <3>3. i + k \in 1..n
      BY <1>2, <3>2
    <3>4. QED
      BY <3>2, <3>3
  <2>4. QED
    BY <1>7, <2>1, <2>2, <2>3
<1>9. QED
  BY <1>2, <1>7, <1>8

\* A backfill meets an empty list, or one in use, or its request is cancelled.
LEMMA CacheBackfill ==
    ASSUME RowInv, CacheInv, NEW i \in DOMAIN backfills, NEW fails \in BOOLEAN,
           BackfillRoomCache(i, fails)
    PROVE  CacheInv'
<1>1. PICK b : b = backfills[i]
  OBVIOUS
<1>2. PICK home, ids : home = b.room /\ ids = b.ids
  OBVIOUS
<1>3. latest \in [Rooms -> Seq(Int)] /\ backfills \in Seq(Fills)
  BY DEF CacheInv
<1>4. home \in Rooms /\ ids \in Seq(Int) /\ ids # <<>>
  <2>1. b \in Fills
    BY <1>1, <1>3
  <2>2. QED
    BY <1>2, <2>1 DEF Fills
<1>5. /\ backfills' = RemoveAt(backfills, i)
      /\ latest' = IF fails THEN latest ELSE [latest EXCEPT ![home] = Pushed(@, ids)]
      /\ mixed' = IF ~fails /\ (\/ latest[home] # <<>> \/ Pending(home) # {}
                              \/ ~(ToSet(ids) \subseteq LiveIds(home)))
                  THEN mixed \cup {home} ELSE mixed
      /\ table' = table /\ tasks' = tasks
  BY <1>1, <1>2 DEF BackfillRoomCache
<1>6. PICK left : left = backfills'
  OBVIOUS
<1>7. left \in Seq(Fills) /\ \A j \in DOMAIN left : \E k \in DOMAIN backfills : left[j] = backfills[k]
  BY <1>3, <1>5, <1>6, RemoveAtFacts
<1>8. PICK u : u = Pushed(latest[home], ids)
  OBVIOUS
<1>9. u \in Seq(Int) /\ Len(u) <= RoomLatestMax /\ u # <<>>
  <2>1. latest[home] \in Seq(Int)
    BY <1>3, <1>4
  <2>2. QED
    BY <1>4, <1>8, <2>1, PushedLength
<1>10. /\ latest' \in [Rooms -> Seq(Int)]
       /\ \A room \in Rooms : room # home => latest'[room] = latest[room]
       /\ ~fails => latest'[home] = u
       /\ fails => latest'[home] = latest[home]
  BY <1>3, <1>4, <1>5, <1>8, <1>9
<1>11. \A room \in Rooms : Len(latest'[room]) <= RoomLatestMax
  BY <1>9, <1>10 DEF CacheInv
<1>12. ASSUME NEW room \in Rooms, room \notin mixed'
       PROVE  Cached(latest'[room], VisibleOf(table', tasks', room))
  <2>1. room \notin mixed /\ Cached(latest[room], VisibleOf(table, tasks, room))
    BY <1>5, <1>12 DEF CacheInv
  <2>2. CASE room # home \/ fails
    BY <1>5, <1>10, <2>1, <2>2
  <2>3. CASE room = home /\ ~fails
    <3>1. latest[home] = <<>> /\ Pending(home) = {} /\ home \notin mixed
      BY <1>5, <1>12, <2>1, <2>3
    <3>2. Fill(b, table, tasks)
      BY <1>1, <1>2, <3>1 DEF CacheInv
    <3>3. PICK R \in SUBSET LiveOf(table, home) :
            /\ Cached(Reverse(ids), R)
            /\ \A r \in LiveOf(table, home) : r \in R \/ r.id \in PendingOf(tasks, home)
      BY <1>2, <3>2 DEF Fill
    <3>4. PendingOf(tasks, home) = {}
      BY <3>1 DEF Pending, PendingOf
    <3>5. R = LiveOf(table, home) /\ VisibleOf(table, tasks, home) = R
      BY <3>3, <3>4 DEF VisibleOf
    <3>6. \A r \in R : r.id \in Int
      BY <3>5, LiveTable DEF RowInv, RowsOK, IsTable
    <3>7. Cached(Pushed(<<>>, ids), R)
      BY <1>4, <3>3, <3>6, CachedFill
    <3>8. latest'[home] = Pushed(<<>>, ids)
      BY <1>8, <1>10, <2>3, <3>1
    <3>9. QED
      BY <1>5, <2>3, <3>5, <3>7, <3>8
  <2>4. QED
    BY <2>2, <2>3
<1>13. ASSUME NEW j \in DOMAIN left
       PROVE  \/ left[j].room \in mixed'
              \/ latest'[left[j].room] # <<>>
              \/ Fill(left[j], table', tasks')
  <2>1. PICK k \in DOMAIN backfills : left[j] = backfills[k]
    BY <1>7, <1>13
  <2>2. PICK c : c = backfills[k]
    OBVIOUS
  <2>3. c.room \in mixed \/ latest[c.room] # <<>> \/ Fill(c, table, tasks)
    BY <2>1, <2>2 DEF CacheInv
  <2>4. c.room \in Rooms
    <3>1. c \in Fills
      BY <1>3, <2>1, <2>2
    <3>2. QED
      BY <3>1 DEF Fills
  <2>5. (latest[c.room] # <<>> => latest'[c.room] # <<>>) /\ (c.room \in mixed => c.room \in mixed')
    BY <1>5, <1>9, <1>10, <2>4
  <2>6. QED
    BY <1>5, <2>1, <2>2, <2>3, <2>5
<1>14. QED
  BY <1>5, <1>6, <1>7, <1>10, <1>11, <1>12, <1>13 DEF CacheInv

\* Every step keeps the invariant of the cache.
LEMMA CacheStep ==
    ASSUME RowInv, CacheInv, [HistoryNext]_<<vars, hvars>>
    PROVE  CacheInv'
<1>1. CASE \/ \E m \in Messages : Stamp(m)
           \/ \E s \in stamped : WriteMessages(s)
           \/ \E room \in Rooms, asked \in 0..(MaxLimit + 1) : FirstPageCached(room, asked)
           \/ NextPage
           \/ Passes
           \/ UNCHANGED <<vars, hvars>>
  <2>1. /\ latest' = latest /\ backfills' = backfills /\ mixed' = mixed /\ table' = table
        /\ tasks' = tasks
    BY <1>1 DEF Stamp, WriteMessages, FirstPageCached, NextPage, Passes, hvars
  <2>2. QED
    BY <2>1, CacheOther
<1>2. CASE Assign
  <2>1. latest' = latest /\ backfills' = backfills /\ mixed' = mixed /\ table' = table
    BY <1>2 DEF Assign
  <2>2. IInv' /\ (Returns => last' > last)
    BY GeneratorStep, StepInvariant DEF RowInv
  <2>3. \A room : PendingOf(tasks', room) = PendingOf(tasks, room)
    BY <1>2, <2>2, AssignRows
  <2>4. QED
    BY <2>1, <2>3, CacheOther
<1>3. CASE \E t \in tasks : SaveMessage(t)
  BY <1>3, CacheSave
<1>4. CASE \E t \in tasks, fails \in BOOLEAN : pushLatestToRedis(t, fails)
  BY <1>4, CachePush
<1>5. CASE \E room \in Rooms, user \in Users : SoftDelete(room, user)
  BY <1>5, CacheDelete
<1>6. CASE \E room \in Rooms, asked \in 0..(MaxLimit + 1), fails \in BOOLEAN :
            FirstPageStored(room, asked, fails)
  <2>1. PICK room \in Rooms, asked \in 0..(MaxLimit + 1), fails \in BOOLEAN :
            FirstPageStored(room, asked, fails)
    BY <1>6
  <2>2. asked \in Int
    OBVIOUS
  <2>3. QED
    BY <2>1, <2>2, CacheFirstPage
<1>7. CASE \E i \in DOMAIN backfills, fails \in BOOLEAN : BackfillRoomCache(i, fails)
  BY <1>7, CacheBackfill
<1>8. CASE \E room \in Rooms : Expire(room)
  BY <1>8, CacheExpire
<1>9. QED
  BY <1>1, <1>2, <1>3, <1>4, <1>5, <1>6, <1>7, <1>8 DEF HistoryNext

\* The cache of a room that followed the store is its answer.
LEMMA CacheFollows ==
    ASSUME RowInv, CacheInv
    PROVE  LatestFollowsStore
<1> SUFFICES ASSUME NEW room \in Rooms \ mixed, Pending(room) = {}
             PROVE  latest[room] = Limit(Ids(Descending(InRoom(mysqlLive(table), room))),
                                         Len(latest[room]))
  BY DEF LatestFollowsStore
<1>1. PICK R : R = LiveOf(table, room)
  OBVIOUS
<1>2. VisibleOf(table, tasks, room) = R
  BY <1>1 DEF VisibleOf, Pending, PendingOf
<1>3. Cached(latest[room], R)
  BY <1>2 DEF CacheInv
<1>4. IsTable(R)
  BY <1>1, LiveTable DEF RowInv, RowsOK
<1>5. PICK L : L = latest[room]
  OBVIOUS
<1>6. L = Limit(Ids(Descending(R)), Len(L))
  BY <1>3, <1>4, <1>5, CachedIs
<1>7. QED
  BY <1>1, <1>5, <1>6 DEF LiveOf

----------------------------------------------------------------------------
(***************************************************************************)
(* The walk through a room: what it got is in order and still stored, and  *)
(* a message that it wants and has not got lies behind the cursor.         *)
(***************************************************************************)
WalkOK(got, room, want, more, cursor, tb) ==
    /\ got \in Seq(RowSet)
    /\ \A i, j \in 1..Len(got) : i < j => Before(got[i], got[j])
    /\ \A i \in 1..Len(got) : \E r \in tb : Same(r, got[i]) /\ r.room = room
    /\ \A id \in want : \E r \in tb : r.id = id
    /\ \A r \in LiveOf(tb, room) :
            r.id \in want => (\E i \in 1..Len(got) : got[i].id = r.id) \/ (more /\ Before(r, got[1]))
    /\ more => Len(got) > 0 /\ cursor = got[1].id

\* Messages that are stored or deleted during the walk do no harm.
LEMMA WalkGoesOn ==
    ASSUME NEW got, NEW room, NEW want, NEW more, NEW cursor, NEW tb,
           WalkOK(got, room, want, more, cursor, tb), NEW tb2,
           \A r \in tb : \E s \in tb2 : Same(s, r),
           \A s \in LiveOf(tb2, room) : s \in LiveOf(tb, room) \/ \A r \in tb : r.id # s.id
    PROVE  WalkOK(got, room, want, more, cursor, tb2)
<1>1. \A i \in 1..Len(got) : \E r \in tb2 : Same(r, got[i]) /\ r.room = room
  <2> SUFFICES ASSUME NEW i \in 1..Len(got) PROVE \E r \in tb2 : Same(r, got[i]) /\ r.room = room
    OBVIOUS
  <2>1. PICK r \in tb : Same(r, got[i]) /\ r.room = room
    BY DEF WalkOK
  <2>2. PICK s \in tb2 : Same(s, r)
    OBVIOUS
  <2>3. QED
    BY <2>1, <2>2 DEF Same
<1>2. \A id \in want : \E r \in tb2 : r.id = id
  <2> SUFFICES ASSUME NEW id \in want PROVE \E r \in tb2 : r.id = id
    OBVIOUS
  <2>1. PICK r \in tb : r.id = id
    BY DEF WalkOK
  <2>2. PICK s \in tb2 : Same(s, r)
    OBVIOUS
  <2>3. QED
    BY <2>1, <2>2 DEF Same
<1>3. ASSUME NEW s \in LiveOf(tb2, room), s.id \in want
      PROVE  (\E i \in 1..Len(got) : got[i].id = s.id) \/ (more /\ Before(s, got[1]))
  <2>1. \E r \in tb : r.id = s.id
    BY <1>3 DEF WalkOK
  <2>2. s \in LiveOf(tb, room)
    BY <2>1
  <2>3. QED
    BY <1>3, <2>2 DEF WalkOK
<1>4. /\ got \in Seq(RowSet)
      /\ \A i, j \in 1..Len(got) : i < j => Before(got[i], got[j])
      /\ more => Len(got) > 0 /\ cursor = got[1].id
  BY DEF WalkOK
<1>5. QED
  BY <1>1, <1>2, <1>3, <1>4 DEF WalkOK

\* A walk starts with a page of the rows R of the room.
LEMMA WalkStarts ==
    ASSUME NEW tb \in SUBSET RowSet, IsTable(tb), NEW room, NEW R \in SUBSET LiveOf(tb, room),
           NEW p, IsPage(p, R), NEW want, want = {r.id : r \in R}, NEW more,
           \A r \in R : (\E i \in 1..Len(p) : p[i] = r) \/ more,
           more => Len(p) > 0, NEW cursor, Len(p) > 0 => cursor = p[1].id
    PROVE  WalkOK(p, room, want, more, cursor, tb)
<1>1. p \in Seq(R) /\ Len(p) \in Nat /\ \A i \in 1..Len(p) : p[i] \in R
  BY DEF IsPage
<1>2. \A r \in R : r \in tb /\ r.room = room
  BY LiveRows
<1>3. p \in Seq(RowSet)
  <2>1. R \in SUBSET RowSet
    BY <1>2
  <2>2. QED
    BY <1>1, <2>1
<1>4. \A i, j \in 1..Len(p) : i < j => Before(p[i], p[j])
  BY DEF IsPage
<1>5. \A i \in 1..Len(p) : \E r \in tb : Same(r, p[i]) /\ r.room = room
  BY <1>1, <1>2 DEF Same
<1>6. \A id \in want : \E r \in tb : r.id = id
  BY <1>2
<1>7. ASSUME NEW r \in LiveOf(tb, room), r.id \in want
      PROVE  (\E i \in 1..Len(p) : p[i].id = r.id) \/ (more /\ Before(r, p[1]))
  <2>1. PICK s \in R : s.id = r.id
    BY <1>7
  <2>2. s = r
    BY <1>2, <2>1, LiveRows DEF IsTable
  <2>3. (\E i \in 1..Len(p) : p[i] = r) \/ (\A i \in 1..Len(p) : Before(r, p[i]))
    BY <2>2 DEF IsPage
  <2>4. (\E i \in 1..Len(p) : p[i] = r) \/ more
    BY <2>2
  <2>5. CASE \E i \in 1..Len(p) : p[i] = r
    BY <2>5
  <2>6. CASE more /\ \A i \in 1..Len(p) : Before(r, p[i])
    <3>1. 1 \in 1..Len(p)
      BY <1>1, <2>6
    <3>2. QED
      BY <2>6, <3>1
  <2>7. QED
    BY <2>3, <2>4, <2>5, <2>6
<1>8. QED
  BY <1>3, <1>4, <1>5, <1>6, <1>7 DEF WalkOK

\* The rows of the room before g.
Behind(tb, room, g) == {r \in LiveOf(tb, room) : Before(r, g)}

\* The next page, of the rows before the oldest one so far, goes in front.
LEMMA WalkExtends ==
    ASSUME NEW tb \in SUBSET RowSet, IsTable(tb), NEW got, NEW room, NEW want, NEW cursor,
           WalkOK(got, room, want, TRUE, cursor, tb),
           NEW B, B = Behind(tb, room, got[1]),
           NEW k \in Nat, k > 0, NEW p, p = Newest(B, k), NEW got2, got2 = p \o got,
           NEW more, more <=> Len(p) = k, NEW c2, Len(p) > 0 => c2 = p[1].id
    PROVE  WalkOK(got2, room, want, more, c2, tb)
<1>1. got \in Seq(RowSet) /\ Len(got) > 0 /\ Len(got) \in Nat /\ 1 \in 1..Len(got)
  BY DEF WalkOK
<1>2. \A i, j \in 1..Len(got) : i < j => Before(got[i], got[j])
  BY DEF WalkOK
<1>3. \A r \in B : r \in tb /\ r \in RowSet /\ r.room = room /\ Before(r, got[1])
  BY LiveRows DEF Behind
<1>4. IsTable(B)
  <2>1. B \in SUBSET tb
    BY <1>3
  <2>2. QED
    BY <2>1, PartOfTable
<1>5. /\ IsPage(p, B) /\ Len(p) \in Nat
      /\ \A r \in B : (\E i \in 1..Len(p) : p[i] = r) \/ Len(p) = k
  BY <1>4, NewestPage
<1>6. p \in Seq(B) /\ (\A i \in 1..Len(p) : p[i] \in B) /\ p \in Seq(RowSet)
  <2>1. p \in Seq(B) /\ B \in SUBSET RowSet
    BY <1>3, <1>5 DEF IsPage
  <2>2. QED
    BY <2>1
<1>7. /\ got2 \in Seq(RowSet) /\ Len(got2) = Len(p) + Len(got)
      /\ \A i \in 1..Len(p) : got2[i] = p[i]
      /\ \A i \in 1..Len(got) : got2[Len(p) + i] = got[i]
      /\ \A i \in 1..Len(got2) : i \in 1..Len(p) \/ \E j \in 1..Len(got) : i = Len(p) + j
  <2>1. PICK X : X = RowSet
    OBVIOUS
  <2>2. p \in Seq(X) /\ got \in Seq(X)
    BY <1>1, <1>6, <2>1
  <2>3. /\ got2 \in Seq(X) /\ Len(got2) = Len(p) + Len(got)
        /\ \A i \in 1..Len(p) : got2[i] = p[i]
    BY <2>2, JoinFacts
  <2>4. \A i \in 1..Len(got) : got2[Len(p) + i] = got[i]
    BY <2>2, JoinFacts
  <2>5. ASSUME NEW i \in 1..Len(got2), ~(i \in 1..Len(p))
        PROVE  \E j \in 1..Len(got) : i = Len(p) + j
    <3>1. i - Len(p) \in 1..Len(got) /\ i = Len(p) + (i - Len(p))
      BY <1>1, <1>5, <2>3, <2>5
    <3>2. QED
      BY <3>1
  <2>6. QED
    BY <2>1, <2>3, <2>4, <2>5
<1>8. \A i \in 1..Len(got) : Len(p) + i \in 1..Len(got2)
  BY <1>1, <1>5, <1>7
<1>9. \A i \in 1..Len(p) : i \in 1..Len(got2)
  BY <1>1, <1>5, <1>7
<1>10. \A i \in 1..Len(got) : got[i] \in RowSet /\ (i = 1 \/ Before(got[1], got[i]))
  BY <1>1, <1>2
<1>11. ASSUME NEW r \in B, NEW i \in 1..Len(got) PROVE Before(r, got[i])
  <2>1. r \in RowSet /\ got[1] \in RowSet /\ got[i] \in RowSet /\ Before(r, got[1])
    BY <1>1, <1>3, <1>10
  <2>2. \A s \in RowSet : s.id \in Int /\ s.at \in Int
    BY DEF RowSet
  <2>3. Before(got[1], got[i]) => Before(r, got[i])
    BY <2>1, <2>2 DEF Before
  <2>4. QED
    BY <1>10, <2>1, <2>3
<1>12. ASSUME NEW i \in 1..Len(got2), NEW j \in 1..Len(got2), i < j PROVE Before(got2[i], got2[j])
  <2>1. CASE i \in 1..Len(p) /\ j \in 1..Len(p)
    BY <1>5, <1>7, <1>12, <2>1 DEF IsPage
  <2>2. CASE i \in 1..Len(p) /\ \E m \in 1..Len(got) : j = Len(p) + m
    BY <1>6, <1>7, <1>11, <2>2
  <2>3. CASE (\E m \in 1..Len(got) : i = Len(p) + m) /\ (\E m \in 1..Len(got) : j = Len(p) + m)
    <3>1. PICK m \in 1..Len(got), n \in 1..Len(got) : i = Len(p) + m /\ j = Len(p) + n
      BY <2>3
    <3>2. m < n
      BY <1>5, <1>12, <3>1
    <3>3. QED
      BY <1>2, <1>7, <3>1, <3>2
  <2>4. CASE (\E m \in 1..Len(got) : i = Len(p) + m) /\ j \in 1..Len(p)
    BY <1>5, <1>12, <2>4
  <2>5. QED
    BY <1>7, <2>1, <2>2, <2>3, <2>4
<1>13. ASSUME NEW i \in 1..Len(got2) PROVE \E r \in tb : Same(r, got2[i]) /\ r.room = room
  <2>1. CASE i \in 1..Len(p)
    BY <1>3, <1>6, <1>7, <2>1 DEF Same
  <2>2. CASE \E j \in 1..Len(got) : i = Len(p) + j
    <3>1. PICK j \in 1..Len(got) : i = Len(p) + j
      BY <2>2
    <3>2. got2[i] = got[j]
      BY <1>7, <3>1
    <3>3. PICK r \in tb : Same(r, got[j]) /\ r.room = room
      BY DEF WalkOK
    <3>4. QED
      BY <3>2, <3>3
  <2>3. QED
    BY <1>7, <2>1, <2>2
<1>14. \A id \in want : \E r \in tb : r.id = id
  BY DEF WalkOK
<1>15. ASSUME more PROVE Len(got2) > 0 /\ c2 = got2[1].id /\ got2[1] = p[1] /\ 1 \in 1..Len(p)
  <2>1. Len(p) > 0 /\ 1 \in 1..Len(p)
    BY <1>5, <1>15
  <2>2. got2[1] = p[1]
    BY <1>7, <2>1
  <2>3. QED
    BY <1>1, <1>5, <1>7, <2>1, <2>2
<1>16. ASSUME NEW r \in LiveOf(tb, room), r.id \in want
       PROVE  (\E i \in 1..Len(got2) : got2[i].id = r.id) \/ (more /\ Before(r, got2[1]))
  <2>1. (\E i \in 1..Len(got) : got[i].id = r.id) \/ Before(r, got[1])
    BY <1>16 DEF WalkOK
  <2>2. CASE \E i \in 1..Len(got) : got[i].id = r.id
    <3>1. PICK i \in 1..Len(got) : got[i].id = r.id
      BY <2>2
    <3>2. Len(p) + i \in 1..Len(got2) /\ got2[Len(p) + i] = got[i]
      BY <1>7, <1>8
    <3>3. QED
      BY <3>1, <3>2
  <2>3. CASE Before(r, got[1])
    <3>1. r \in B
      BY <2>3 DEF Behind
    <3>2. (\E i \in 1..Len(p) : p[i] = r) \/ Len(p) = k
      BY <1>5, <3>1
    <3>3. (\E i \in 1..Len(p) : p[i] = r) \/ (\A i \in 1..Len(p) : Before(r, p[i]))
      BY <1>5, <3>1 DEF IsPage
    <3>4. CASE \E i \in 1..Len(p) : p[i] = r
      BY <1>7, <1>9, <3>4
    <3>5. CASE Len(p) = k /\ \A i \in 1..Len(p) : Before(r, p[i])
      BY <1>15, <3>5
    <3>6. QED
      BY <3>2, <3>3, <3>4, <3>5
  <2>4. QED
    BY <2>1, <2>2, <2>3
<1>17. QED
  BY <1>7, <1>12, <1>13, <1>14, <1>15, <1>16 DEF WalkOK

\* The page behind the cursor, when the store finds the cursor's row.
LEMMA PageBehind ==
    ASSUME RowInv, NEW room, NEW cursor, NEW k \in Nat, NEW g, cursor = g.id,
           NEW c \in table, Same(c, g), c.room = room,
           store = "mysql" => cursor \in LiveIds(room),
           NEW p, p = GetHistoryByCursor(room, cursor, k)
    PROVE  p = Newest(Behind(table, room, g), k)
<1>1. RowsOK(table, tasks, last) /\ IsTable(table)
  BY DEF RowInv, RowsOK
<1>2. c.id = cursor /\ cursor > 0 /\ c.at = g.at /\ c.id = g.id
  BY <1>1 DEF Same, RowsOK
<1>3. \A r : Before(r, c) <=> Before(r, g)
  BY <1>2 DEF Before
<1>4. {r \in table : r.id = cursor} = {c}
  BY <1>1, <1>2 DEF IsTable
<1>5. PICK R : R = LiveOf(table, room)
  OBVIOUS
<1>6. R = InRoom(mysqlLive(table), room) /\ R = InRoom(notDeletedFilter(table), room)
  BY <1>5 DEF LiveOf, notDeletedFilter, mysqlLive
<1>7. mongoBelow(table, R, cursor) = Behind(table, room, g)
  <2>1. mongoBelow(table, R, cursor) = {r \in R : \A x \in {c} : Before(r, x)}
    BY <1>2, <1>4 DEF mongoBelow
  <2>2. QED
    BY <1>3, <1>5, <2>1 DEF Behind
<1>8. ASSUME cursor \in LiveIds(room) PROVE mysqlBelow(table, R, cursor) = Behind(table, room, g)
  <2>1. PICK x \in LiveOf(table, room) : x.id = cursor
    BY <1>8 DEF LiveIds, LiveOf
  <2>2. x \in table /\ ~x.deleted
    BY <2>1, LiveRows
  <2>3. x = c
    BY <1>1, <1>2, <2>1, <2>2 DEF IsTable
  <2>4. {r \in mysqlLive(table) : r.id = cursor} = {c}
    BY <1>4, <2>2, <2>3 DEF mysqlLive
  <2>5. mysqlBelow(table, R, cursor) = {r \in R : \A y \in {c} : Before(r, y)}
    BY <1>2, <2>4 DEF mysqlBelow
  <2>6. QED
    BY <1>3, <1>5, <2>5 DEF Behind
<1>9. QED
  BY <1>6, <1>7, <1>8 DEF GetHistoryByCursor, mysqlGetHistoryByCursor, mongoGetHistoryByCursor

\* A walk is a record, and its page size is positive.
IsWalk(w) ==
    /\ w = [on |-> w.on, room |-> w.room, limit |-> w.limit, got |-> w.got, source |-> w.source,
            more |-> w.more, cursor |-> w.cursor, want |-> w.want, clean |-> w.clean]
    /\ w.limit \in Nat \ {0}
    /\ w.more \in BOOLEAN /\ w.clean \in BOOLEAN

WalkInv ==
    walk.on => /\ IsWalk(walk)
               /\ walk.clean =>
                    WalkOK(walk.got, walk.room, walk.want, walk.more, walk.cursor, table)

\* Stores and deletions while somebody walks.
LEMMA WalkSave ==
    ASSUME RowInv, RowInv', WalkInv, NEW t \in tasks, SaveMessage(t)
    PROVE  WalkInv'
<1>1. walk' = walk /\ table' = table \cup {t.row}
  BY DEF SaveMessage
<1>2. IsTable(table')
  BY DEF RowInv, RowsOK
<1>3. SUFFICES ASSUME walk.on, walk.clean
               PROVE  WalkOK(walk.got, walk.room, walk.want, walk.more, walk.cursor, table')
  BY <1>1 DEF WalkInv
<1>4. PICK tb, tb2 : tb = table /\ tb2 = table'
  OBVIOUS
<1>5. \A r \in tb : \E s \in tb2 : Same(s, r)
  BY <1>1, <1>4 DEF Same
<1>6. ASSUME NEW s \in LiveOf(tb2, walk.room)
      PROVE  s \in LiveOf(tb, walk.room) \/ \A r \in tb : r.id # s.id
  <2>1. s \in tb2 /\ ~s.deleted /\ s.room = walk.room
    BY LiveRows
  <2>2. s \in tb => s \in LiveOf(tb, walk.room)
    BY <2>1, LiveRows
  <2>3. s \notin tb => \A r \in tb : r.id # s.id
    BY <1>1, <1>2, <1>4, <2>1 DEF IsTable
  <2>4. QED
    BY <2>2, <2>3
<1>7. WalkOK(walk.got, walk.room, walk.want, walk.more, walk.cursor, tb)
  BY <1>3, <1>4 DEF WalkInv
<1>8. WalkOK(walk.got, walk.room, walk.want, walk.more, walk.cursor, tb2)
  BY <1>5, <1>6, <1>7, WalkGoesOn
<1>9. QED
  BY <1>4, <1>8

\* A deletion during the walk.
LEMMA WalkDelete ==
    ASSUME RowInv, WalkInv, NEW gone, NEW user, SoftDelete(gone, user)
    PROVE  WalkInv'
<1>1. walk' = walk
  BY DEF SoftDelete
<1>2. SUFFICES ASSUME walk.on, walk.clean
               PROVE  WalkOK(walk.got, walk.room, walk.want, walk.more, walk.cursor, table')
  BY <1>1 DEF WalkInv
<1>3. PICK tb, tb2 : tb = table /\ tb2 = table'
  OBVIOUS
<1>4. \A r \in tb : \E s \in tb2 : Same(s, r)
  BY <1>3, DeleteRows DEF DeletedIn
<1>5. \A s \in LiveOf(tb2, walk.room) : s \in LiveOf(tb, walk.room)
  BY <1>3, DeleteRows
<1>6. WalkOK(walk.got, walk.room, walk.want, walk.more, walk.cursor, tb)
  BY <1>2, <1>3 DEF WalkInv
<1>7. WalkOK(walk.got, walk.room, walk.want, walk.more, walk.cursor, tb2)
  BY <1>4, <1>5, <1>6, WalkGoesOn
<1>8. QED
  BY <1>3, <1>7

\* The parts of a walk that starts.
StartsWith(w, room, limit, page, source) ==
    /\ IsWalk(w) /\ w.got = page /\ w.room = room
    /\ w.more <=> Len(page) = limit
    /\ w.cursor = IF page = <<>> THEN 0 ELSE page[1].id
    /\ w.want = IF source = "store" THEN LiveIds(room) ELSE LiveIds(room) \ Pending(room)
    /\ w.clean <=> source = "store" \/ room \notin mixed

\* Started gives a walk these parts.
LEMMA StartedFacts ==
    ASSUME NEW room, NEW limit \in Nat \ {0}, NEW page, NEW source, NEW w,
           w = Started(room, limit, page, source)
    PROVE  StartsWith(w, room, limit, page, source)
<1>1. PICK m \in BOOLEAN : m <=> Len(page) = limit
  OBVIOUS
<1>2. PICK c \in BOOLEAN : c <=> source = "store" \/ room \notin mixed
  OBVIOUS
<1>3. PICK yes : yes = TRUE
  OBVIOUS
<1>4. PICK cu, wa : /\ cu = IF page = <<>> THEN 0 ELSE page[1].id
                    /\ wa = IF source = "store" THEN LiveIds(room) ELSE LiveIds(room) \ Pending(room)
  OBVIOUS
<1>5. m = (Len(page) = limit) /\ c = (source = "store" \/ room \notin mixed)
  BY <1>1, <1>2
<1>6. w = [on |-> yes, room |-> room, limit |-> limit, got |-> page, source |-> source,
           more |-> m, cursor |-> cu, want |-> wa, clean |-> c]
  BY <1>3, <1>4, <1>5 DEF Started
<1>7. /\ w.on = yes /\ w.room = room /\ w.limit = limit /\ w.got = page /\ w.source = source
      /\ w.more = m /\ w.cursor = cu /\ w.want = wa /\ w.clean = c
  BY <1>6
<1>8. IsWalk(w)
  BY <1>1, <1>2, <1>6, <1>7 DEF IsWalk
<1>9. QED
  BY <1>1, <1>2, <1>4, <1>7, <1>8 DEF StartsWith

\* A walk that starts in the store.
LEMMA WalkFirstStored ==
    ASSUME RowInv, NEW room \in Rooms, NEW asked \in Int, NEW fails,
           FirstPageStored(room, asked, fails)
    PROVE  WalkInv'
<1>1. PICK k : k = Normalized(asked)
  OBVIOUS
<1>2. PICK p : p = GetHistoryByCursor(room, 0, k)
  OBVIOUS
<1>3. PICK w : w = walk'
  OBVIOUS
<1>4. w = Started(room, k, p, "store") /\ table' = table
  BY <1>1, <1>2, <1>3 DEF FirstPageStored
<1>5. k \in Nat \ {0}
  BY <1>1, NormalizedPositive
<1>6. /\ IsWalk(w) /\ w.got = p /\ w.room = room
      /\ w.more <=> Len(p) = k
      /\ w.cursor = IF p = <<>> THEN 0 ELSE p[1].id
      /\ w.want = LiveIds(room)
  <2>1. PICK source : source = "store"
    OBVIOUS
  <2>2. w = Started(room, k, p, source)
    BY <1>4, <2>1
  <2>3. StartsWith(w, room, k, p, source)
    BY <1>5, <2>2, StartedFacts
  <2>4. QED
    BY <2>1, <2>3 DEF StartsWith
<1>7. table \in SUBSET RowSet /\ IsTable(table)
  BY DEF RowInv, RowsOK
<1>8. PICK R : R = LiveOf(table, room)
  OBVIOUS
<1>9. IsTable(R) /\ R \in SUBSET LiveOf(table, room)
  BY <1>7, <1>8, LiveTable
<1>10. p = Newest(R, k)
  BY <1>2, <1>5, <1>7, <1>8, FirstPage
<1>11. /\ IsPage(p, R) /\ Len(p) \in Nat /\ Len(p) <= k
       /\ \A r \in R : (\E i \in 1..Len(p) : p[i] = r) \/ Len(p) = k
  BY <1>5, <1>9, <1>10, NewestPage
<1>12. w.want = {r.id : r \in R}
  BY <1>6, <1>8 DEF LiveIds, LiveOf
<1>13. Len(p) > 0 => w.cursor = p[1].id
  BY <1>6
<1>14. \A r \in R : (\E i \in 1..Len(p) : p[i] = r) \/ w.more
  BY <1>6, <1>11
<1>15. w.more => Len(p) > 0
  BY <1>5, <1>6, <1>11
<1>16. WalkOK(p, room, w.want, w.more, w.cursor, table)
  BY <1>7, <1>9, <1>11, <1>12, <1>13, <1>14, <1>15, WalkStarts
<1>17. WalkOK(w.got, w.room, w.want, w.more, w.cursor, table)
  BY <1>6, <1>16
<1>18. QED
  BY <1>3, <1>4, <1>6, <1>17 DEF WalkInv

\* A walk that starts with the list of the room in Redis.
LEMMA WalkFirstCached ==
    ASSUME RowInv, CacheInv, NEW room \in Rooms, NEW asked \in Int, FirstPageCached(room, asked)
    PROVE  WalkInv'
<1>1. PICK k : k = Normalized(asked)
  OBVIOUS
<1>2. PICK C : C = GetLatestMessages(room, k)
  OBVIOUS
<1>3. PICK p : p = [i \in DOMAIN C |-> RowOf(C[i])]
  OBVIOUS
<1>4. PICK w : w = walk'
  OBVIOUS
<1>5. w = Started(room, k, p, "redis") /\ table' = table /\ Len(C) = k
  BY <1>1, <1>2, <1>3, <1>4 DEF FirstPageCached
<1>6. k \in Nat \ {0}
  BY <1>1, NormalizedPositive
<1>7. /\ IsWalk(w) /\ w.got = p /\ w.room = room
      /\ w.more <=> Len(p) = k
      /\ w.cursor = IF p = <<>> THEN 0 ELSE p[1].id
      /\ w.want = LiveIds(room) \ Pending(room)
      /\ w.clean => room \notin mixed
  <2>1. PICK source : source = "redis"
    OBVIOUS
  <2>2. w = Started(room, k, p, source)
    BY <1>5, <2>1
  <2>3. StartsWith(w, room, k, p, source)
    BY <1>6, <2>2, StartedFacts
  <2>4. QED
    BY <2>1, <2>3 DEF StartsWith
<1>8. SUFFICES ASSUME room \notin mixed
               PROVE  WalkOK(w.got, w.room, w.want, w.more, w.cursor, table)
  BY <1>4, <1>5, <1>7 DEF WalkInv
<1>9. table \in SUBSET RowSet /\ IsTable(table)
  BY DEF RowInv, RowsOK
<1>10. PICK V : V = VisibleOf(table, tasks, room)
  OBVIOUS
<1>11. V \in SUBSET LiveOf(table, room) /\ (\A r \in V : r.id \in Int) /\ \A r \in V : r \in table
  BY <1>9, <1>10, LiveRows DEF VisibleOf, IsTable
<1>12. PICK L : L = Limit(latest[room], k)
  OBVIOUS
<1>13. Cached(L, V)
  <2>1. Cached(latest[room], V)
    BY <1>8, <1>10 DEF CacheInv
  <2>2. QED
    BY <1>6, <1>11, <1>12, <2>1, CachedLimit
<1>14. PICK u : Leads(u, V) /\ L = Ids(u)
  BY <1>13 DEF Cached
<1>15. PICK q : q = Reverse(u)
  OBVIOUS
<1>16. IsPage(q, V) /\ Len(q) = Len(u) /\ Len(u) \in Nat /\ Reverse(Ids(q)) = Ids(u)
  BY <1>11, <1>14, <1>15, TurnedRound
<1>17. u \in Seq(V) /\ q \in Seq(V)
  BY <1>14, <1>16 DEF Leads, IsPage
<1>18. C = Ids(q)
  <2>1. C = Reverse(L)
    BY <1>2, <1>12 DEF GetLatestMessages
  <2>2. PICK K : K = Ids(q)
    OBVIOUS
  <2>3. PICK I : I = Int
    OBVIOUS
  <2>4. K \in Seq(Int)
    BY <1>11, <1>17, <2>2, IdsFacts
  <2>5. K \in Seq(I) /\ L = Reverse(K)
    BY <1>14, <1>16, <2>2, <2>3, <2>4
  <2>6. /\ L \in Seq(I) /\ Len(L) = Len(K) /\ Len(K) \in Nat
        /\ \A i \in 1..Len(K) : (Len(K) - i) + 1 \in 1..Len(K) /\ K[i] = L[(Len(K) - i) + 1]
    BY <2>5, ReverseFacts
  <2>7. C \in Seq(I) /\ Len(C) = Len(L) /\ \A i \in 1..Len(L) : C[i] = L[(Len(L) - i) + 1]
    BY <2>1, <2>6, ReverseFacts
  <2>8. \A i \in 1..Len(C) : C[i] = K[i]
    BY <2>6, <2>7
  <2>9. C = K
    BY <2>5, <2>6, <2>7, <2>8, SameSequence
  <2>10. QED
    BY <2>2, <2>9
<1>19. /\ C \in Seq(Int) /\ Len(C) = Len(q) /\ \A i \in 1..Len(q) : C[i] = q[i].id /\ q[i] \in V
  BY <1>11, <1>17, <1>18, IdsFacts
<1>20. \A i \in 1..Len(q) : RowOf(C[i]) = q[i]
  <2> SUFFICES ASSUME NEW i \in 1..Len(q) PROVE RowOf(C[i]) = q[i]
    OBVIOUS
  <2>1. q[i] \in table /\ q[i].id = C[i]
    BY <1>11, <1>19
  <2>2. RowOf(C[i]) \in table /\ RowOf(C[i]).id = C[i]
    BY <2>1 DEF RowOf
  <2>3. QED
    BY <1>9, <2>1, <2>2 DEF IsTable
<1>21. p = q
  <2>1. DOMAIN C = 1..Len(q) /\ DOMAIN q = 1..Len(q)
    BY <1>17, <1>19
  <2>2. QED
    BY <1>3, <1>17, <1>20, <2>1
<1>22. IsPage(p, V) /\ Len(p) = k /\ w.more /\ Len(p) > 0
  BY <1>5, <1>6, <1>7, <1>16, <1>19, <1>21
<1>23. w.want = {r.id : r \in V}
  <2>1. \A id : id \in Pending(room) <=> id \in PendingOf(tasks, room)
    BY DEF Pending, PendingOf
  <2>2. \A id : id \in LiveIds(room) <=> \E r \in LiveOf(table, room) : r.id = id
    BY DEF LiveIds, LiveOf
  <2>3. \A id : id \in w.want <=> \E r \in V : r.id = id
    BY <1>7, <1>10, <2>1, <2>2 DEF VisibleOf
  <2>4. QED
    BY <2>3
<1>24. w.cursor = p[1].id
  BY <1>7, <1>22
<1>25. WalkOK(p, room, w.want, w.more, w.cursor, table)
  BY <1>9, <1>11, <1>22, <1>23, <1>24, WalkStarts
<1>26. QED
  BY <1>7, <1>25

\* The next page of a walk.
LEMMA WalkNextPage ==
    ASSUME RowInv, WalkInv, NextPage
    PROVE  WalkInv'
<1>1. PICK w, w2 : w = walk /\ w2 = walk'
  OBVIOUS
<1>2. PICK p : p = GetHistoryByCursor(w.room, w.cursor, w.limit)
  OBVIOUS
<1>3. w.on /\ w.more /\ IsWalk(w) /\ table' = table
  BY <1>1 DEF NextPage, WalkInv
<1>4. PICK m \in BOOLEAN : m <=> Len(p) = w.limit
  OBVIOUS
<1>5. PICK c \in BOOLEAN : c <=> w.clean /\ (store = "mysql" => w.cursor \in LiveIds(w.room))
  OBVIOUS
<1>6. PICK cu, g : cu = (IF p = <<>> THEN 0 ELSE p[1].id) /\ g = p \o w.got
  OBVIOUS
<1>7. m = (Len(p) = w.limit) /\ c = (w.clean /\ (store = "mysql" => w.cursor \in LiveIds(w.room)))
  BY <1>3, <1>4, <1>5 DEF IsWalk
<1>8. w2 = [w EXCEPT !.got = g, !.more = m, !.cursor = cu, !.clean = c]
  BY <1>1, <1>2, <1>6, <1>7 DEF NextPage
<1>9. PICK on, room, limit, got, source, more, cursor, want, clean :
        /\ w = [on |-> on, room |-> room, limit |-> limit, got |-> got, source |-> source,
                more |-> more, cursor |-> cursor, want |-> want, clean |-> clean]
        /\ limit \in Nat \ {0}
  BY <1>3 DEF IsWalk
<1>10. w2 = [on |-> on, room |-> room, limit |-> limit, got |-> g, source |-> source,
             more |-> m, cursor |-> cu, want |-> want, clean |-> c]
  BY <1>8, <1>9
<1>11. /\ w.room = room /\ w.limit = limit /\ w.got = got /\ w.more = more /\ w.cursor = cursor
       /\ w.want = want /\ w.clean = clean
  BY <1>9
<1>12. /\ w2.on = on /\ w2.room = room /\ w2.limit = limit /\ w2.got = g /\ w2.source = source
       /\ w2.more = m /\ w2.cursor = cu /\ w2.want = want /\ w2.clean = c
  BY <1>10
<1>13. IsWalk(w2)
  BY <1>4, <1>5, <1>9, <1>10, <1>12 DEF IsWalk
<1>14. SUFFICES ASSUME c PROVE WalkOK(g, room, want, m, cu, table)
  BY <1>1, <1>3, <1>12, <1>13 DEF WalkInv
<1>15. clean /\ more /\ (store = "mysql" => cursor \in LiveIds(room))
  BY <1>3, <1>5, <1>11, <1>14
<1>16. WalkOK(got, room, want, more, cursor, table)
  BY <1>1, <1>3, <1>11, <1>15 DEF WalkInv
<1>17. WalkOK(got, room, want, TRUE, cursor, table)
  BY <1>15, <1>16 DEF WalkOK
<1>18. Len(got) > 0 /\ cursor = got[1].id /\ got \in Seq(RowSet)
  BY <1>17 DEF WalkOK
<1>19. 1 \in 1..Len(got)
  BY <1>18
<1>20. PICK x \in table : Same(x, got[1]) /\ x.room = room
  BY <1>17, <1>19 DEF WalkOK
<1>21. PICK B : B = Behind(table, room, got[1])
  OBVIOUS
<1>22. limit \in Nat /\ limit > 0
  BY <1>9
<1>23. p = Newest(B, limit)
  BY <1>2, <1>11, <1>15, <1>18, <1>20, <1>21, <1>22, PageBehind
<1>24. table \in SUBSET RowSet /\ IsTable(table)
  BY DEF RowInv, RowsOK
<1>25. (m <=> Len(p) = limit) /\ g = p \o got /\ (Len(p) > 0 => cu = p[1].id)
  BY <1>4, <1>6, <1>11
<1>26. QED
  BY <1>17, <1>21, <1>22, <1>23, <1>24, <1>25, WalkExtends

\* Every step keeps the invariant of the walk.
LEMMA WalkStep ==
    ASSUME RowInv, RowInv', CacheInv, WalkInv, [HistoryNext]_<<vars, hvars>>
    PROVE  WalkInv'
<1>1. CASE \/ \E m \in Messages : Stamp(m)
           \/ \E s \in stamped : WriteMessages(s)
           \/ Assign
           \/ \E t \in tasks, fails \in BOOLEAN : pushLatestToRedis(t, fails)
           \/ \E i \in DOMAIN backfills, fails \in BOOLEAN : BackfillRoomCache(i, fails)
           \/ \E room \in Rooms : Expire(room)
           \/ Passes
           \/ UNCHANGED <<vars, hvars>>
  <2>1. walk' = walk /\ table' = table
    BY <1>1 DEF Stamp, WriteMessages, Assign, pushLatestToRedis, BackfillRoomCache, Expire, Passes,
                hvars
  <2>2. QED
    BY <2>1 DEF WalkInv
<1>2. CASE \E t \in tasks : SaveMessage(t)
  BY <1>2, WalkSave
<1>3. CASE \E room \in Rooms, user \in Users : SoftDelete(room, user)
  BY <1>3, WalkDelete
<1>4. CASE \E room \in Rooms, asked \in 0..(MaxLimit + 1) : FirstPageCached(room, asked)
  <2>1. PICK room \in Rooms, asked \in 0..(MaxLimit + 1) : FirstPageCached(room, asked)
    BY <1>4
  <2>2. asked \in Int
    OBVIOUS
  <2>3. QED
    BY <2>1, <2>2, WalkFirstCached
<1>5. CASE \E room \in Rooms, asked \in 0..(MaxLimit + 1), fails \in BOOLEAN :
            FirstPageStored(room, asked, fails)
  <2>1. PICK room \in Rooms, asked \in 0..(MaxLimit + 1), fails \in BOOLEAN :
            FirstPageStored(room, asked, fails)
    BY <1>5
  <2>2. asked \in Int
    OBVIOUS
  <2>3. QED
    BY <2>1, <2>2, WalkFirstStored
<1>6. CASE NextPage
  BY <1>6, WalkNextPage
<1>7. QED
  BY <1>1, <1>2, <1>3, <1>4, <1>5, <1>6 DEF HistoryNext

\* A walk that has ended has got all that it wants.
LEMMA WalkGetsAll ==
    ASSUME RowInv, WalkInv
    PROVE  WalkComplete
<1> SUFFICES ASSUME walk.on, walk.clean
             PROVE  /\ \A i \in 1..(Len(walk.got) - 1) : Before(walk.got[i], walk.got[i + 1])
                    /\ ~walk.more => (walk.want \cap LiveIds(walk.room)) \subseteq ToSet(Ids(walk.got))
  BY DEF WalkComplete
<1>1. PICK got, room, want, more, cursor :
        /\ got = walk.got /\ room = walk.room /\ want = walk.want /\ more = walk.more
        /\ cursor = walk.cursor
  OBVIOUS
<1>2. WalkOK(got, room, want, more, cursor, table)
  BY <1>1 DEF WalkInv
<1>3. got \in Seq(RowSet) /\ \A i, j \in 1..Len(got) : i < j => Before(got[i], got[j])
  BY <1>2 DEF WalkOK
<1>4. ASSUME NEW i \in 1..(Len(got) - 1) PROVE Before(got[i], got[i + 1])
  <2>1. i \in 1..Len(got) /\ i + 1 \in 1..Len(got) /\ i < i + 1
    BY <1>3
  <2>2. QED
    BY <1>3, <2>1
<1>5. ASSUME ~more, NEW id \in want \cap LiveIds(room) PROVE id \in ToSet(Ids(got))
  <2>1. PICK r \in LiveOf(table, room) : r.id = id
    BY DEF LiveIds, LiveOf
  <2>2. PICK i \in 1..Len(got) : got[i].id = id
    BY <1>2, <1>5, <2>1 DEF WalkOK
  <2>3. PICK K : K = Ids(got)
    OBVIOUS
  <2>4. i \in DOMAIN K /\ K[i] = id
    BY <1>3, <2>2, <2>3 DEF Ids
  <2>5. QED
    BY <2>3, <2>4 DEF ToSet
<1>6. QED
  BY <1>1, <1>4, <1>5

\* The inductive invariant of the history.
HistoryInv == RowInv /\ CacheInv /\ WalkInv /\ store \in Stores

\* The invariant of rows, cache and walk holds at all times, for any messages,
\* rooms, page sizes, cache length and bounds.
THEOREM HistoryInvariance == HistorySpec => []HistoryInv
<1>1. HistoryInit => HistoryInv
  <2> SUFFICES ASSUME HistoryInit PROVE HistoryInv
    OBVIOUS
  <2>1. WalkInv
    BY DEF HistoryInit, NoWalk, WalkInv
  <2>2. store \in Stores
    BY DEF HistoryInit
  <2>3. QED
    BY <2>1, <2>2, RowInit, CacheInit DEF HistoryInv
<1>2. HistoryInv /\ [HistoryNext]_<<vars, hvars>> => HistoryInv'
  <2> SUFFICES ASSUME HistoryInv, [HistoryNext]_<<vars, hvars>> PROVE HistoryInv'
    OBVIOUS
  <2>1. RowInv /\ CacheInv /\ WalkInv /\ store \in Stores
    BY DEF HistoryInv
  <2>2. RowInv'
    BY <2>1, RowStep
  <2>3. CacheInv'
    BY <2>1, CacheStep
  <2>4. WalkInv'
    BY <2>1, <2>2, WalkStep
  <2>5. store' = store
    BY DEF HistoryNext, Stamp, WriteMessages, Assign, SaveMessage, pushLatestToRedis, SoftDelete,
           FirstPageCached, FirstPageStored, NextPage, BackfillRoomCache, Expire, Passes, hvars
  <2>6. QED
    BY <2>1, <2>2, <2>3, <2>4, <2>5 DEF HistoryInv
<1>3. QED
  BY <1>1, <1>2, PTL DEF HistorySpec

\* IDs are unique in the store and the lists in Redis keep their length.
THEOREM HistoryTypeCorrect == HistorySpec => []HistoryTypeOK
<1>1. HistoryInv => HistoryTypeOK
  <2> SUFFICES ASSUME HistoryInv PROVE HistoryTypeOK
    OBVIOUS
  <2>1. TypeOK
    BY DEF HistoryInv, RowInv, IInv
  <2>2. \A r, s \in table : r.id = s.id => r = s
    BY DEF HistoryInv, RowInv, RowsOK, IsTable
  <2>3. \A room \in Rooms : Len(latest[room]) <= RoomLatestMax
    BY DEF HistoryInv, CacheInv
  <2>4. QED
    BY <2>1, <2>2, <2>3 DEF HistoryInv, HistoryTypeOK
<1>2. QED
  BY <1>1, HistoryInvariance, PTL

\* Unless a push failed or was overtaken, a backfill met a list in use, or a message
\* was deleted, the list of a room in Redis is what the store would answer.
THEOREM LatestCorrect == HistorySpec => []LatestFollowsStore
<1>1. HistoryInv => LatestFollowsStore
  BY CacheFollows DEF HistoryInv
<1>2. QED
  BY <1>1, HistoryInvariance, PTL

\* A walk with next_cursor misses no message that was there when it began and has
\* not been deleted, shows none twice, and shows them in order.
THEOREM WalksComplete == HistorySpec => []WalkComplete
<1>1. HistoryInv => WalkComplete
  BY WalkGetsAll DEF HistoryInv
<1>2. QED
  BY <1>1, HistoryInvariance, PTL

\* The IDs that the archiver gives increase strictly.
THEOREM HistoryIncreasing == HistorySpec => IdsIncrease
<1>1. HistoryInv /\ [HistoryNext]_<<vars, hvars>> => [Returns => last' > last]_vars
  BY RowStep DEF HistoryInv
<1>2. QED
  BY <1>1, HistoryInvariance, PTL DEF HistorySpec, IdsIncrease

----------------------------------------------------------------------------
(***************************************************************************)
(* The two stores.  The filters of MySQL and MongoDB select the same rows; *)
(* where one is wider, a part of a finite set is not the larger one.       *)
(***************************************************************************)
\* deleted_at = 0, in both stores.
LEMMA SameFilters ==
    ASSUME NEW t
    PROVE  mysqlLive(t) = notDeletedFilter(t) /\ mysqlNotDeleted(t) = notDeletedFilter(t)
BY DEF mysqlLive, notDeletedFilter, mysqlNotDeleted

\* created_at >= start AND created_at < end, in both stores.
LEMMA SameWindow ==
    ASSUME NEW t, \A r \in t : r.at \in Int, NEW start \in Int, NEW end \in Int
    PROVE  Within(mysqlNotDeleted(t), start, end) = baseFilter(t, start, end)
<1>1. \A r \in t : r.at \in start..(end - 1) <=> start <= r.at /\ r.at < end
  OBVIOUS
<1>2. QED
  BY <1>1 DEF Within, mysqlNotDeleted, baseFilter, notDeletedFilter

\* The histories agree where the cursor's message is not deleted.
LEMMA SameHistory ==
    ASSUME NEW t, NEW room, NEW id, NEW limit, \A r \in t : r.id = id => ~r.deleted
    PROVE  HistoryAgrees(t, room, id, limit)
<1>1. {r \in mysqlLive(t) : r.id = id} = {r \in t : r.id = id}
  BY DEF mysqlLive
<1>2. PICK R : R = InRoom(mysqlLive(t), room)
  OBVIOUS
<1>3. R = InRoom(notDeletedFilter(t), room)
  BY <1>2, SameFilters
<1>4. mysqlBelow(t, R, id) = mongoBelow(t, R, id)
  BY <1>1 DEF mysqlBelow, mongoBelow
<1>5. QED
  BY <1>2, <1>3, <1>4 DEF HistoryAgrees, mysqlGetHistoryByCursor, mongoGetHistoryByCursor

\* Messages after an ID, and their number.
LEMMA SameRanges ==
    ASSUME NEW t, NEW room, NEW id, NEW limit
    PROVE  RangesAgree(t, room, id, limit)
BY SameFilters DEF RangesAgree, mysqlGetMessagesAfterID, mongoGetMessagesAfterID,
                   mysqlCountMessagesAfterID, mongoCountMessagesAfterID

\* The agent fetches the same messages, and none outside the range.
LEMMA SameFetch ==
    ASSUME NEW t, IsTable(t), NEW room, NEW start \in Int, NEW end \in Int, NEW limit \in Nat
    PROVE  FetchAgrees(t, room, start, end, limit)
<1>1. PICK S : S = {r \in InRoom(mysqlLive(t), room) : start <= r.at /\ r.at < end}
  OBVIOUS
<1>2. S = {r \in InRoom(notDeletedFilter(t), room) : r.at \in start..(end - 1)}
  <2>1. \A r \in t : r.at \in start..(end - 1) <=> start <= r.at /\ r.at < end
    BY DEF IsTable
  <2>2. QED
    BY <1>1, <2>1 DEF InRoom, mysqlLive, notDeletedFilter
<1>3. \A k : mysqlGetMessagesByTimeRange(t, room, start, end, k)
              = mongoGetMessagesByTimeRange(t, room, start, end, k)
  BY <1>1, <1>2 DEF mysqlGetMessagesByTimeRange, mongoGetMessagesByTimeRange
<1>4. PICK k : k = IF limit <= 0 \/ limit > FetchMax THEN FetchDefault ELSE limit
  OBVIOUS
<1>5. k \in Nat
  BY <1>4, MessageStoreAssumption
<1>6. PICK f : f = FetchMessages("mysql", t, room, start, end, limit)
  OBVIOUS
<1>7. f = IF end < start THEN <<>> ELSE mysqlGetMessagesByTimeRange(t, room, start, end, k)
  BY <1>4, <1>6 DEF FetchMessages
<1>8. f = FetchMessages("mongo", t, room, start, end, limit)
  BY <1>3, <1>4, <1>7 DEF FetchMessages
<1>9. ASSUME NEW i \in DOMAIN f PROVE start <= f[i].at /\ f[i].at < end
  <2>1. CASE end < start
    <3>1. DOMAIN f = {}
      BY <1>7, <2>1
    <3>2. QED
      BY <1>9, <3>1
  <2>2. CASE ~(end < start)
    <3>1. PICK a : a = Ascending(S)
      OBVIOUS
    <3>2. f = Limit(a, k)
      BY <1>1, <1>7, <2>2, <3>1 DEF mysqlGetMessagesByTimeRange
    <3>3. IsTable(S)
      <4>1. S \in SUBSET t
        BY <1>1 DEF InRoom, mysqlLive
      <4>2. QED
        BY <4>1, PartOfTable
    <3>4. Lists(a, S)
      BY <3>1, <3>3, AscendingLists
    <3>5. Cardinality(S) \in Nat
      BY <3>3, <3>4, ListShowsAll
    <3>6. a \in Seq(S)
      BY <3>4, <3>5 DEF Lists
    <3>7. f \in Seq(S)
      BY <1>5, <3>2, <3>6, LimitFacts
    <3>8. f[i] \in S
      BY <1>9, <3>7
    <3>9. QED
      BY <1>1, <3>8
  <2>3. QED
    BY <2>1, <2>2
<1>10. QED
  BY <1>3, <1>6, <1>8, <1>9 DEF FetchAgrees

\* Whatever part of the messages is indexed, a search finds something exactly if
\* the store does, and not more.
LEMMA SameSearch ==
    ASSUME NEW t, IsTable(t), NEW room, NEW p
    PROVE  SearchAgrees(t, room, p)
<1>1. PICK q : q = Requested(p)
  OBVIOUS
<1>2. PICK want : want = mysqlSearchMessages(t, room, q)
  OBVIOUS
<1>3. want = mongoSearchMessages(t, room, q)
  BY <1>2, SameFilters DEF mysqlSearchMessages, mongoSearchMessages
<1>4. PICK R : R = {r \in Between(InRoom(mysqlLive(t), room), q.start, q.end) :
                        /\ q.keyword # "" => q.keyword \in r.text
                        /\ q.sender > 0 => r.sender = q.sender}
  OBVIOUS
<1>5. want.total = Cardinality(R)
  BY <1>2, <1>4 DEF mysqlSearchMessages
<1>6. IsFiniteSet(R) /\ Cardinality(R) \in Nat
  <2>1. R \in SUBSET t
    BY <1>4 DEF Between, InRoom, mysqlLive
  <2>2. QED
    BY <2>1, FS_Subset, FS_CardinalityType DEF IsTable
<1>7. ASSUME NEW index \in SUBSET InRoom(mysqlLive(t), room)
      PROVE  LET found == SearchMessages("mysql", t, index, TRUE, room, p)
             IN  (found.total = 0) = (want.total = 0) /\ found.total <= want.total
  <2>1. PICK found, indexed : /\ found = SearchMessages("mysql", t, index, TRUE, room, p)
                              /\ indexed = esSearchMessages(index, room, q)
    OBVIOUS
  <2>2. PICK E : E = {r \in Between(InRoom(index, room), q.start, q.end) :
                        /\ ~r.deleted
                        /\ q.keyword # "" => q.keyword \in r.text \cap Tokens
                        /\ q.sender > 0 => r.sender = q.sender}
    OBVIOUS
  <2>3. indexed.total = Cardinality(E)
    BY <2>1, <2>2 DEF esSearchMessages
  <2>4. E \in SUBSET R
    BY <1>4, <2>2 DEF Between, InRoom
  <2>5. Cardinality(E) \in Nat /\ Cardinality(E) <= Cardinality(R)
    BY <1>6, <2>4, FS_Subset, FS_CardinalityType
  <2>6. found = IF indexed.total > 0 THEN indexed ELSE want
    BY <1>1, <1>2, <2>1 DEF SearchMessages
  <2>7. found.total = Cardinality(E) \/ found.total = Cardinality(R)
    BY <1>5, <2>3, <2>6
  <2>8. found.total <= Cardinality(R) /\ (found.total = 0 <=> Cardinality(R) = 0)
    <3>1. CASE indexed.total > 0
      BY <1>6, <2>3, <2>5, <2>6, <3>1
    <3>2. CASE ~(indexed.total > 0)
      BY <1>5, <1>6, <2>6, <3>2
    <3>3. QED
      BY <3>1, <3>2
  <2>9. (found.total = 0) = (want.total = 0) /\ found.total <= want.total
    BY <1>5, <2>8
  <2>10. QED
    BY <2>1, <2>9
<1>8. QED
  BY <1>1, <1>2, <1>3, <1>7 DEF SearchAgrees

\* The queries of the repository agree.
LEMMA SameRepositories ==
    ASSUME RowInv
    PROVE  RepositoriesAgree
<1> SUFFICES ASSUME NEW room \in Rooms, NEW limit \in 0..(MaxLimit + 1)
             PROVE  /\ \A id \in {0} \cup {r.id : r \in table} :
                          /\ (\A r \in table : r.id = id => ~r.deleted)
                                => HistoryAgrees(table, room, id, limit)
                          /\ RangesAgree(table, room, id, limit)
                    /\ \A start, end \in {0} \cup (IdEpoch + 1)..MaxClock :
                          /\ FetchAgrees(table, room, start, end, limit)
                          /\ \A k \in Keywords, user \in {0, Max(Users)} :
                                SearchAgrees(table, room,
                                             [keyword |-> k, sender |-> user, start |-> start,
                                              end |-> end, from |-> limit - 1, size |-> limit])
  BY DEF RepositoriesAgree
<1>1. IsTable(table)
  BY DEF RowInv, RowsOK
<1>2. \A id : (\A r \in table : r.id = id => ~r.deleted) => HistoryAgrees(table, room, id, limit)
  BY SameHistory
<1>3. \A id : RangesAgree(table, room, id, limit)
  BY SameRanges
<1>4. \A start, end \in {0} \cup (IdEpoch + 1)..MaxClock : FetchAgrees(table, room, start, end, limit)
  BY <1>1, SameFetch
<1>5. \A p : SearchAgrees(table, room, p)
  BY <1>1, SameSearch
<1>6. QED
  BY <1>2, <1>3, <1>4, <1>5

\* A table with the same messages in other rooms.
LEMMA OtherRooms ==
    ASSUME RowInv, NEW t \in Tables
    PROVE  t \in SUBSET RowSet /\ IsFiniteSet(t) /\ \A r \in t : r.at \in Int /\ r.room \in Rooms
<1>1. PICK f \in [table -> Rooms] : t = {[r EXCEPT !.room = f[r]] : r \in table}
  BY DEF Tables
<1>2. PICK g : g = [r \in table |-> [r EXCEPT !.room = f[r]]]
  OBVIOUS
<1>3. IsFiniteSet(table) /\ table \in SUBSET RowSet
  BY DEF RowInv, RowsOK, IsTable
<1>4. ASSUME NEW r \in table PROVE g[r] \in RowSet
  <2>1. r \in RowSet /\ f[r] \in Rooms
    BY <1>3
  <2>2. g[r] = [r EXCEPT !.room = f[r]]
    BY <1>2
  <2>3. QED
    BY <2>1, <2>2 DEF RowSet
<1>5. g \in Surjection(table, t)
  <2>1. g \in [table -> t]
    BY <1>1, <1>2
  <2>2. \A s \in t : \E r \in table : g[r] = s
    BY <1>1, <1>2
  <2>3. QED
    BY <2>1, <2>2 DEF Surjection
<1>6. IsFiniteSet(t)
  BY <1>3, <1>5, FS_Surjection
<1>7. t \in SUBSET RowSet
  BY <1>4, <1>5 DEF Surjection
<1>8. \A r \in t : r.at \in Int /\ r.room \in Rooms
  BY <1>7 DEF RowSet
<1>9. QED
  BY <1>6, <1>7, <1>8

\* The rows of a group.
OfKey(rows, field, k) == {r \in rows : r[field] = k}
KeysOf(rows, field) == {r[field] : r \in rows}

\* GROUP BY and COUNT(*): the keys.
LEMMA GroupKeys ==
    ASSUME NEW rows, NEW field, NEW c, c = GroupByField(rows, field)
    PROVE  DOMAIN c = KeysOf(rows, field)
BY DEF GroupByField, GroupBy, KeysOf

\* GROUP BY and COUNT(*): what a lookup finds.
LEMMA GroupCounts ==
    ASSUME NEW rows, NEW field, NEW c, c = GroupByField(rows, field), NEW k
    PROVE  Counted(c, k) = Cardinality(OfKey(rows, field, k))
<1>1. c = [j \in {r[field] : r \in rows} |-> Cardinality({r \in rows : r[field] = j})]
  BY DEF GroupByField, GroupBy
<1>2. DOMAIN c = {r[field] : r \in rows}
  BY <1>1
<1>3. CASE k \in DOMAIN c
  <2>1. c[k] = Cardinality(OfKey(rows, field, k))
    BY <1>1, <1>2, <1>3 DEF OfKey
  <2>2. QED
    BY <1>3, <2>1 DEF Counted
<1>4. CASE k \notin DOMAIN c
  <2>1. OfKey(rows, field, k) = {}
    BY <1>2, <1>4 DEF OfKey
  <2>2. QED
    BY <1>4, <2>1, FS_EmptySet DEF Counted
<1>5. QED
  BY <1>3, <1>4

\* The grouped count of a key that is asked for is the single count.
LEMMA KeyCounts ==
    ASSUME NEW rows, NEW keys, NEW field, NEW k \in keys
    PROVE  Counted(groupCountByKeys(rows, keys, field), k) = Cardinality(OfKey(rows, field, k))
<1>1. PICK T : T = {r \in rows : r[field] \in keys}
  OBVIOUS
<1>2. PICK c : c = GroupByField(T, field)
  OBVIOUS
<1>3. Counted(c, k) = Cardinality(OfKey(T, field, k))
  BY <1>2, GroupCounts
<1>4. OfKey(T, field, k) = OfKey(rows, field, k)
  BY <1>1 DEF OfKey
<1>5. QED
  BY <1>1, <1>2, <1>3, <1>4 DEF groupCountByKeys

\* No room has more messages than the one that tops the list.
LEMMA TopRoom ==
    ASSUME NEW t, IsFiniteSet(t), NEW start, NEW end,
           NEW top \in mongoTopRooms(t, start, end, 1), Len(top) = 1, NEW room
    PROVE  mongoCountByRoom(t, room, start, end) <= mongoCountByRoom(t, top[1], start, end)
<1>1. PICK B : B = baseFilter(t, start, end)
  OBVIOUS
<1>2. IsFiniteSet(B)
  <2>1. B \in SUBSET t
    BY <1>1 DEF baseFilter, notDeletedFilter
  <2>2. QED
    BY <2>1, FS_Subset
<1>3. PICK c : c = GroupByField(B, "room")
  OBVIOUS
<1>4. DOMAIN c = KeysOf(B, "room") /\ \A k : Counted(c, k) = Cardinality(OfKey(B, "room", k))
  BY <1>3, GroupKeys, GroupCounts
<1>5. \A k : mongoCountByRoom(t, k, start, end) = Counted(c, k)
  <2> SUFFICES ASSUME NEW k PROVE mongoCountByRoom(t, k, start, end) = Counted(c, k)
    OBVIOUS
  <2>1. InRoom(B, k) = OfKey(B, "room", k)
    BY DEF InRoom, OfKey
  <2>2. QED
    BY <1>1, <1>4, <2>1 DEF mongoCountByRoom
<1>6. \A k : Counted(c, k) \in Nat
  <2> SUFFICES ASSUME NEW k PROVE Counted(c, k) \in Nat
    OBVIOUS
  <2>1. PICK S : S = OfKey(B, "room", k)
    OBVIOUS
  <2>2. S \in SUBSET B
    BY <2>1 DEF OfKey
  <2>3. Cardinality(S) \in Nat
    BY <1>2, <2>2, FS_Subset, FS_CardinalityType
  <2>4. QED
    BY <1>4, <2>1, <2>3
<1>7. top \in Tops(c, 1)
  BY <1>1, <1>3 DEF mongoTopRooms, topKey
<1>8. PICK m : m = IF 1 < Cardinality(DOMAIN c) THEN 1 ELSE Cardinality(DOMAIN c)
  OBVIOUS
<1>9. /\ top \in [1..m -> DOMAIN c]
      /\ \A k \in DOMAIN c \ Range(top) : m > 0 => c[top[m]] >= c[k]
  BY <1>7, <1>8 DEF Tops
<1>10. m \in Nat
  <2>1. PICK h : h = [r \in B |-> r["room"]]
    OBVIOUS
  <2>2. PICK D : D = DOMAIN c
    OBVIOUS
  <2>3. h \in Surjection(B, D)
    BY <1>4, <2>1, <2>2 DEF Surjection, KeysOf
  <2>4. IsFiniteSet(D)
    BY <1>2, <2>3, FS_Surjection
  <2>5. Cardinality(D) \in Nat
    BY <2>4, FS_CardinalityType
  <2>6. QED
    BY <1>8, <2>2, <2>5
<1>11. m = 1
  <2>1. PICK D : D = DOMAIN c
    OBVIOUS
  <2>2. top \in [1..m -> D]
    BY <1>9, <2>1
  <2>3. top \in Seq(D) /\ DOMAIN top = 1..m
    BY <1>10, <2>2
  <2>4. DOMAIN top = 1..Len(top)
    BY <2>3
  <2>5. 1 \in DOMAIN top /\ \A i \in DOMAIN top : i = 1
    BY <2>4
  <2>6. QED
    BY <1>10, <2>3, <2>5
<1>12. 1 \in 1..m /\ DOMAIN top = 1..m /\ top[1] \in DOMAIN c /\ \A i \in 1..m : i = 1
  BY <1>9, <1>11
<1>13. Counted(c, top[1]) = c[top[1]]
  BY <1>12 DEF Counted
<1>14. CASE room \in DOMAIN c
  <2>1. Counted(c, room) = c[room]
    BY <1>14 DEF Counted
  <2>2. CASE room \in Range(top)
    <3>1. room = top[1]
      BY <1>12, <2>2 DEF Range
    <3>2. QED
      BY <1>5, <1>6, <3>1
  <2>3. CASE room \notin Range(top)
    <3>1. c[top[1]] >= c[room]
      BY <1>9, <1>11, <1>14, <2>3
    <3>2. c[top[1]] \in Nat /\ c[room] \in Nat
      BY <1>6, <1>13, <2>1
    <3>3. QED
      BY <1>5, <1>13, <2>1, <3>1, <3>2
  <2>4. QED
    BY <2>2, <2>3
<1>15. CASE room \notin DOMAIN c
  <2>1. Counted(c, room) = 0
    BY <1>15 DEF Counted
  <2>2. QED
    BY <1>5, <1>6, <2>1
<1>16. QED
  BY <1>14, <1>15

\* Private and group messages: the types of the rooms are 1 and 2.
LEMMA SamePrivateGroup ==
    ASSUME NEW t, \A r \in t : r.at \in Int, NEW start \in Int, NEW end \in Int,
           NEW rooms \in SUBSET Rooms, NEW types, types = Restrict(RoomTypes, rooms)
    PROVE  mysqlCountPrivateGroupMessages(t, types, start, end)
            = mongoCountPrivateGroupMessages(t, types, start, end)
<1>1. PICK B : B = baseFilter(t, start, end)
  OBVIOUS
<1>2. Within(mysqlNotDeleted(t), start, end) = B
  BY <1>1, SameWindow
<1>3. DOMAIN types = rooms /\ \A room \in rooms : types[room] \in {1, 2}
  BY HistoryAssumption DEF Restrict, Rooms
<1>4. PICK R : R = {r \in B : r.room \in DOMAIN types}
  OBVIOUS
<1>5. {r \in R : types[r.room] = 1} = {r \in B : r.room \in roomIDsByType(types, 1)}
  BY <1>4 DEF roomIDsByType
<1>6. {r \in R : types[r.room] # 1} = {r \in B : r.room \in roomIDsByType(types, 2)}
  BY <1>3, <1>4 DEF roomIDsByType
<1>7. mysqlCountPrivateGroupMessages(t, types, start, end)
       = [private |-> Cardinality({r \in R : types[r.room] = 1}),
          group |-> Cardinality({r \in R : types[r.room] # 1})]
  BY <1>2, <1>4 DEF mysqlCountPrivateGroupMessages
<1>8. mongoCountPrivateGroupMessages(t, types, start, end)
       = [private |-> Cardinality({r \in B : r.room \in roomIDsByType(types, 1)}),
          group |-> Cardinality({r \in B : r.room \in roomIDsByType(types, 2)})]
  BY <1>1 DEF mongoCountPrivateGroupMessages, countByRoomIDs
<1>9. QED
  BY <1>5, <1>6, <1>7, <1>8

\* The mentions that MySQL counts are a part of those that MongoDB counts.
LEMMA FewerMentions ==
    ASSUME NEW t, IsFiniteSet(t), \A r \in t : r.at \in Int, NEW start \in Int, NEW end \in Int
    PROVE  mysqlCountAgentMentions(t, start, end) <= mongoCountAgentMentions(t, start, end)
<1>1. PICK A, B :
        /\ A = {r \in Within(mysqlNotDeleted(t), start, end) : r.text \cap Mentions # {}}
        /\ B = {r \in t : r.at \in start..(end - 1) /\ r.text \cap Mentions # {}}
  OBVIOUS
<1>2. A \in SUBSET B /\ B \in SUBSET t
  BY <1>1 DEF Within, mysqlNotDeleted
<1>3. IsFiniteSet(B)
  BY <1>2, FS_Subset
<1>4. Cardinality(A) <= Cardinality(B)
  BY <1>2, <1>3, FS_Subset
<1>5. QED
  BY <1>1, <1>4 DEF mysqlCountAgentMentions, mongoCountAgentMentions

\* The counts of a period.
LEMMA SamePeriod ==
    ASSUME NEW t, \A r \in t : r.at \in Int, NEW start \in Int, NEW end \in Int
    PROVE  /\ mysqlCountMessages(t, start, end) = mongoCountMessages(t, start, end)
           /\ mysqlCountMessagesByType(t, start, end) = mongoCountMessagesByType(t, start, end)
           /\ mysqlHourlyCounts(t, start, end) = mongoHourlyCounts(t, start, end)
           /\ mysqlDailyCounts(t, start, end) = mongoDailyCounts(t, start, end)
           /\ mysqlActiveSenders(t, start) = mongoActiveSenders(t, start)
<1>1. Within(mysqlNotDeleted(t), start, end) = baseFilter(t, start, end)
  BY SameWindow
<1>2. mysqlNotDeleted(t) = notDeletedFilter(t)
  BY SameFilters
<1>3. mysqlCountMessages(t, start, end) = mongoCountMessages(t, start, end)
  BY <1>1 DEF mysqlCountMessages, mongoCountMessages
<1>4. mysqlCountMessagesByType(t, start, end) = mongoCountMessagesByType(t, start, end)
  BY <1>1 DEF mysqlCountMessagesByType, mongoCountMessagesByType
<1>5. mysqlHourlyCounts(t, start, end) = mongoHourlyCounts(t, start, end)
  BY <1>1 DEF mysqlHourlyCounts, mongoHourlyCounts, timeCounts
<1>6. mysqlDailyCounts(t, start, end) = mongoDailyCounts(t, start, end)
  BY <1>1 DEF mysqlDailyCounts, mongoDailyCounts, timeCounts
<1>7. mysqlActiveSenders(t, start) = mongoActiveSenders(t, start)
  BY <1>2 DEF mysqlActiveSenders, mongoActiveSenders
<1>8. QED
  BY <1>3, <1>4, <1>5, <1>6, <1>7

\* The counts of a room, single and grouped.
LEMMA SameRoomCounts ==
    ASSUME NEW t, \A r \in t : r.at \in Int, NEW start \in Int, NEW end \in Int, NEW room
    PROVE  /\ mysqlCountByRoom(t, room, start, end) = mongoCountByRoom(t, room, start, end)
           /\ mysqlCountByRoomTotal(t, room) = mongoCountByRoomTotal(t, room)
           /\ \A rooms : room \in rooms =>
                 /\ Counted(mongoCountsByRoomIDs(t, rooms, start, end), room)
                     = mongoCountByRoom(t, room, start, end)
                 /\ Counted(mongoCountsByRoomTotalIDs(t, rooms), room) = mongoCountByRoomTotal(t, room)
                 /\ Counted(mysqlCountsByRoomTotalIDs(t, rooms), room) = 0
<1>1. PICK B, N : B = baseFilter(t, start, end) /\ N = notDeletedFilter(t)
  OBVIOUS
<1>2. Within(mysqlNotDeleted(t), start, end) = B /\ mysqlNotDeleted(t) = N
  BY <1>1, SameWindow, SameFilters
<1>3. mysqlCountByRoom(t, room, start, end) = mongoCountByRoom(t, room, start, end)
  BY <1>1, <1>2 DEF mysqlCountByRoom, mongoCountByRoom
<1>4. mysqlCountByRoomTotal(t, room) = mongoCountByRoomTotal(t, room)
  BY <1>1, <1>2 DEF mysqlCountByRoomTotal, mongoCountByRoomTotal
<1>5. InRoom(B, room) = OfKey(B, "room", room) /\ InRoom(N, room) = OfKey(N, "room", room)
  BY DEF InRoom, OfKey
<1>6. ASSUME NEW rooms, room \in rooms
      PROVE  /\ Counted(mongoCountsByRoomIDs(t, rooms, start, end), room)
                  = mongoCountByRoom(t, room, start, end)
             /\ Counted(mongoCountsByRoomTotalIDs(t, rooms), room) = mongoCountByRoomTotal(t, room)
             /\ Counted(mysqlCountsByRoomTotalIDs(t, rooms), room) = 0
  <2>1. Counted(groupCountByKeys(B, rooms, "room"), room) = Cardinality(OfKey(B, "room", room))
    BY <1>6, KeyCounts
  <2>2. Counted(groupCountByKeys(N, rooms, "room"), room) = Cardinality(OfKey(N, "room", room))
    BY <1>6, KeyCounts
  <2>3. Counted(mongoCountsByRoomIDs(t, rooms, start, end), room)
          = mongoCountByRoom(t, room, start, end)
    BY <1>1, <1>5, <2>1 DEF mongoCountsByRoomIDs, mongoCountByRoom
  <2>4. Counted(mongoCountsByRoomTotalIDs(t, rooms), room) = mongoCountByRoomTotal(t, room)
    BY <1>1, <1>5, <2>2 DEF mongoCountsByRoomTotalIDs, mongoCountByRoomTotal
  <2>5. Counted(mysqlCountsByRoomTotalIDs(t, rooms), room) = 0
    BY DEF mysqlCountsByRoomTotalIDs, Counted, NilMap
  <2>6. QED
    BY <2>3, <2>4, <2>5
<1>7. QED
  BY <1>3, <1>4, <1>6

\* The counts of a sender, single and grouped.
LEMMA SameSenderCounts ==
    ASSUME NEW t, NEW senders, NEW user \in senders
    PROVE  /\ Counted(mongoCountsBySenderIDs(t, senders), user) = mongoCountBySender(t, user)
           /\ mysqlCountBySender(t, user) = mongoCountBySender(t, user)
<1>1. PICK N : N = notDeletedFilter(t)
  OBVIOUS
<1>2. {r \in N : r.sender = user} = OfKey(N, "sender", user)
  BY DEF OfKey
<1>3. Counted(groupCountByKeys(N, senders, "sender"), user) = Cardinality(OfKey(N, "sender", user))
  BY KeyCounts
<1>4. mongoCountBySender(t, user) = Cardinality(OfKey(N, "sender", user))
  BY <1>1, <1>2 DEF mongoCountBySender
<1>5. mysqlCountBySender(t, user) = mongoCountBySender(t, user)
  BY SameFilters DEF mysqlCountBySender, mongoCountBySender
<1>6. QED
  BY <1>1, <1>3, <1>4, <1>5 DEF mongoCountsBySenderIDs

\* The statistics of the admin service agree.
LEMMA SameStatistics ==
    ASSUME RowInv
    PROVE  StatisticsAgree
<1> SUFFICES ASSUME NEW t \in Tables,
                    NEW start \in (IdEpoch + 1)..(MaxClock + 1), NEW end \in (IdEpoch + 1)..(MaxClock + 1)
             PROVE  /\ mysqlCountMessages(t, start, end) = mongoCountMessages(t, start, end)
                    /\ mysqlCountMessagesByType(t, start, end) = mongoCountMessagesByType(t, start, end)
                    /\ mysqlHourlyCounts(t, start, end) = mongoHourlyCounts(t, start, end)
                    /\ mysqlDailyCounts(t, start, end) = mongoDailyCounts(t, start, end)
                    /\ mysqlActiveSenders(t, start) = mongoActiveSenders(t, start)
                    /\ \A top \in mongoTopRooms(t, start, end, 1), room \in Rooms :
                        Len(top) = 1 =>
                            mongoCountByRoom(t, room, start, end)
                             <= mongoCountByRoom(t, top[1], start, end)
                    /\ mysqlCountAgentMentions(t, start, end)
                        <= mongoCountAgentMentions(t, start, end)
                    /\ \A rooms \in SUBSET Rooms :
                        /\ mysqlCountPrivateGroupMessages(t, Restrict(RoomTypes, rooms), start, end)
                            = mongoCountPrivateGroupMessages(t, Restrict(RoomTypes, rooms), start, end)
                        /\ \A room \in rooms :
                            /\ Counted(mongoCountsByRoomIDs(t, rooms, start, end), room)
                                = mongoCountByRoom(t, room, start, end)
                            /\ Counted(mongoCountsByRoomTotalIDs(t, rooms), room)
                                = mongoCountByRoomTotal(t, room)
                            /\ Counted(mysqlCountsByRoomTotalIDs(t, rooms), room) = 0
                    /\ \A room \in Rooms :
                        /\ mysqlCountByRoom(t, room, start, end) = mongoCountByRoom(t, room, start, end)
                        /\ mysqlCountByRoomTotal(t, room) = mongoCountByRoomTotal(t, room)
                    /\ \A user \in Users :
                        /\ Counted(mongoCountsBySenderIDs(t, Users), user) = mongoCountBySender(t, user)
                        /\ mysqlCountBySender(t, user) = mongoCountBySender(t, user)
  BY Zenon DEF StatisticsAgree
<1>1. IsFiniteSet(t) /\ (\A r \in t : r.at \in Int) /\ start \in Int /\ end \in Int
  BY OtherRooms
<1>2. /\ mysqlCountMessages(t, start, end) = mongoCountMessages(t, start, end)
      /\ mysqlCountMessagesByType(t, start, end) = mongoCountMessagesByType(t, start, end)
      /\ mysqlHourlyCounts(t, start, end) = mongoHourlyCounts(t, start, end)
      /\ mysqlDailyCounts(t, start, end) = mongoDailyCounts(t, start, end)
      /\ mysqlActiveSenders(t, start) = mongoActiveSenders(t, start)
  BY <1>1, SamePeriod
<1>3. \A top \in mongoTopRooms(t, start, end, 1), room \in Rooms :
        Len(top) = 1 =>
            mongoCountByRoom(t, room, start, end) <= mongoCountByRoom(t, top[1], start, end)
  BY <1>1, TopRoom
<1>4. mysqlCountAgentMentions(t, start, end) <= mongoCountAgentMentions(t, start, end)
  BY <1>1, FewerMentions
<1>5. \A rooms \in SUBSET Rooms :
        mysqlCountPrivateGroupMessages(t, Restrict(RoomTypes, rooms), start, end)
         = mongoCountPrivateGroupMessages(t, Restrict(RoomTypes, rooms), start, end)
  BY <1>1, SamePrivateGroup
<1>6. ASSUME NEW room
      PROVE  /\ mysqlCountByRoom(t, room, start, end) = mongoCountByRoom(t, room, start, end)
             /\ mysqlCountByRoomTotal(t, room) = mongoCountByRoomTotal(t, room)
             /\ \A rooms : room \in rooms =>
                   /\ Counted(mongoCountsByRoomIDs(t, rooms, start, end), room)
                       = mongoCountByRoom(t, room, start, end)
                   /\ Counted(mongoCountsByRoomTotalIDs(t, rooms), room)
                       = mongoCountByRoomTotal(t, room)
                   /\ Counted(mysqlCountsByRoomTotalIDs(t, rooms), room) = 0
  BY <1>1, SameRoomCounts
<1>7. \A user \in Users :
        /\ Counted(mongoCountsBySenderIDs(t, Users), user) = mongoCountBySender(t, user)
        /\ mysqlCountBySender(t, user) = mongoCountBySender(t, user)
  BY SameSenderCounts
<1>8. QED
  BY <1>2, <1>3, <1>4, <1>5, <1>6, <1>7

\* MySQL and MongoDB answer the queries and count alike, whatever was stored and
\* deleted: but for a history whose cursor is deleted, and for the mentions.
THEOREM StoresAlike == HistorySpec => []StoresAgree
<1>1. HistoryInv => StoresAgree
  BY SameRepositories, SameStatistics DEF HistoryInv, StoresAgree
<1>2. QED
  BY <1>1, HistoryInvariance, PTL
=============================================================================
