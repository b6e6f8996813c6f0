------------------------- MODULE DashboardReadProofs -------------------------
(***************************************************************************)
(* The orders of the dashboard's answers, for any runs, samples and posts: *)
(* what is stored later never changes what came before what.               *)
(***************************************************************************)
EXTENDS DashboardRead, StoreProofs, Counting

ReadInv == TypeOK /\ IsFiniteSet(KnownRuns(db))

(* A stamp gives new entries the time of the clock and keeps the others.   *)
LEMMA StampEffect ==
  ASSUME NEW S, NEW known \in SUBSET S, NEW touched \in SUBSET S,
         NEW times \in [S -> Times \cup {Absent}], clock \in Times
  PROVE  /\ Stamp(times, known, touched) \in [S -> Times \cup {Absent}]
         /\ \A x \in touched \ known : Stamp(times, known, touched)[x] = clock
         /\ \A x \in S : x \notin touched \ known => Stamp(times, known, touched)[x] = times[x]
  BY DEF Stamp

LEMMA TimesAreNumbers == Times \subseteq Nat /\ Absent \notin Times
  BY ReadAssumption DEF Times

(* What a post adds to the runs and to the rows.                           *)
LEMMA PostAdds ==
  ASSUME NEW d \in Database, NEW q \in Post
  PROVE  /\ Apply(d, q) \in Database /\ q.run \in Runs
         /\ KnownRuns(Apply(d, q)) = KnownRuns(d) \cup {q.run}
         /\ IsMeasurement(q) => q.sample \in Samples
         /\ Rows(Apply(d, q)) =
              Rows(d) \cup (IF IsMeasurement(q) THEN {q.sample} ELSE {})
<1>1. Apply(d, q) \in Database /\ q.run \in Runs
  BY ApplyRows, PostKinds
<1>2. KnownRuns(Apply(d, q)) = KnownRuns(d) \cup {q.run}
  BY ApplyKnown
<1>3. CASE IsMeasurement(q)
  <2>1. q.sample \in Samples /\ \A s \in Samples \ {q.sample} : Apply(d, q).rows[s] = d.rows[s]
    BY <1>3, ApplyUpsert
  <2>2. q.sample \in Rows(Apply(d, q))
    BY <1>3, ApplyHolds DEF Holds, IsMeasurement
  <2> QED BY <1>1, <1>2, <1>3, <2>1, <2>2 DEF Rows
<1>4. CASE ~IsMeasurement(q)
  <2>1. Apply(d, q).rows = d.rows
    BY <1>4, ApplyRows, PostKinds DEF IsMeasurement
  <2> QED BY <1>1, <1>2, <1>4, <2>1 DEF Rows
<1> QED BY <1>3, <1>4

LEMMA InitReadInv == Init => ReadInv
<1> SUFFICES ASSUME Init PROVE ReadInv
  OBVIOUS
<1>1. KnownRuns(db) = {} /\ Rows(db) = {}
  BY DEF Init, EmptyDatabase, KnownRuns, Rows
<1>2. db \in Database
  BY DEF Init, EmptyDatabase, Database
<1>3. clock \in Times
  BY ReadAssumption DEF Init, Times
<1>4. IsFiniteSet(KnownRuns(db))
  BY <1>1, FS_EmptySet
<1> QED BY <1>1, <1>2, <1>3, <1>4 DEF Init, ReadInv, TypeOK

LEMMA StepReadInv == ReadInv /\ [Next]_vars => ReadInv'
<1> SUFFICES ASSUME ReadInv, [Next]_vars PROVE ReadInv'
  OBVIOUS
<1>1. CASE UNCHANGED vars
  BY <1>1 DEF vars, ReadInv, TypeOK, KnownRuns, Rows
<1>2. CASE Tick
  <2>1. clock' \in Times
    BY <1>2, ReadAssumption DEF Tick, ReadInv, TypeOK, Times
  <2> QED BY <1>2, <2>1 DEF Tick, ReadInv, TypeOK, KnownRuns, Rows
<1>3. ASSUME NEW q \in Posts, StorePost(q) PROVE ReadInv'
  <2> DEFINE measured == IF IsMeasurement(q) THEN {q.sample} ELSE {}
  <2>1. q \in Post /\ db \in Database
    BY ReadAssumption DEF ReadInv, TypeOK
  <2>2. /\ db' \in Database /\ q.run \in Runs /\ measured \subseteq Samples
        /\ KnownRuns(db)' = KnownRuns(db) \cup {q.run}
        /\ Rows(db)' = Rows(db) \cup measured
    BY <1>3, <2>1, PostAdds DEF StorePost
  <2>3. /\ started' = Stamp(started, KnownRuns(db), {q.run})
        /\ created' = Stamp(created, Rows(db), measured)
        /\ clock' = clock
    BY <1>3 DEF StorePost
  <2> HIDE DEF measured
  <2>4. IsFiniteSet(KnownRuns(db)')
    BY <2>2, FS_AddElement DEF ReadInv
  <2>5. /\ started' \in [Runs -> Times \cup {Absent}]
        /\ \A r \in Runs : started'[r] = Absent <=> r \notin KnownRuns(db)'
    <3>1. KnownRuns(db) \subseteq Runs /\ {q.run} \subseteq Runs
      BY <2>2 DEF KnownRuns
    <3> QED BY <2>2, <2>3, <3>1, StampEffect, TimesAreNumbers, SMTT(20) DEF ReadInv, TypeOK
  <2>6. /\ created' \in [Samples -> Times \cup {Absent}]
        /\ \A s \in Samples : created'[s] = Absent <=> s \notin Rows(db)'
    <3>1. Rows(db) \subseteq Samples
      BY DEF Rows
    <3> QED BY <2>2, <2>3, <3>1, StampEffect, TimesAreNumbers DEF ReadInv, TypeOK
  <2> QED BY <2>2, <2>3, <2>4, <2>5, <2>6 DEF ReadInv, TypeOK
<1> QED BY <1>1, <1>2, <1>3 DEF Next

LEMMA ReadInvariance == Spec => []ReadInv
  BY InitReadInv, StepReadInv, PTL DEF Spec

(* Every stored run has its start and every row its time, and nothing else *)
(* has one.                                                                *)
THEOREM ReadTypeCorrect == Spec => []TypeOK
<1>1. ReadInv => TypeOK
  BY DEF ReadInv
<1> QED BY <1>1, ReadInvariance, PTL


-----------------------------------------------------------------------------
LEMMA MinOfTwo ==
  ASSUME NEW a \in Nat, NEW b \in Nat
  PROVE  Min({a, b}) = IF a <= b THEN a ELSE b
<1>1. PICK m \in {a, b} : \A y \in {a, b} : m <= y
  OBVIOUS
<1>2. Min({a, b}) \in {a, b} /\ \A y \in {a, b} : Min({a, b}) <= y
  BY <1>1 DEF Min
<1> QED BY <1>2

(* The runs the page can show by default are those no known run is newer   *)
(* than, if it lists any.                                                  *)
LEMMA NewestOne ==
  ASSUME NEW set, IsFiniteSet(set), NEW times, NEW r
  PROVE  r \in UNION Newest(set, times, Min({1, RunLimit})) <=>
           /\ RunLimit # 0 /\ r \in set
           /\ \A y \in set \ {r} : times[r] >= times[y]
<1> DEFINE limit == Min({1, RunLimit})
           size == Min({Cardinality(set), limit})
<1>1. limit = IF RunLimit = 0 THEN 0 ELSE 1
  BY MinOfTwo, ReadAssumption
<1>2. Cardinality(set) \in Nat /\ (Cardinality(set) = 0 <=> set = {})
  BY FS_CardinalityType, FS_EmptySet
<1>3. size = IF RunLimit = 0 \/ set = {} THEN 0 ELSE 1
  BY <1>1, <1>2, MinOfTwo
<1>4. Newest(set, times, limit) =
        {top \in SUBSET set : /\ Cardinality(top) = size
                              /\ \A x \in top, y \in set \ top : times[x] >= times[y]}
  BY DEF Newest
<1> HIDE DEF limit, size
<1>5. CASE RunLimit = 0 \/ set = {}
  <2>1. ASSUME NEW top \in Newest(set, times, limit) PROVE top = {}
    BY <1>3, <1>4, <1>5, <2>1, FS_Subset, FS_EmptySet
  <2> QED BY <1>5, <2>1 DEF limit
<1>6. CASE RunLimit # 0 /\ set # {}
  <2>1. ASSUME NEW top \in Newest(set, times, limit), r \in top
        PROVE  r \in set /\ \A y \in set \ {r} : times[r] >= times[y]
    <3>1. top \in SUBSET set /\ Cardinality(top) = 1
      BY <1>3, <1>4, <1>6, <2>1
    <3>2. PICK x : top = {x}
      BY <3>1, FS_Subset, FS_Singleton
    <3> QED BY <1>4, <2>1, <3>1, <3>2
  <2>2. ASSUME r \in set, \A y \in set \ {r} : times[r] >= times[y]
        PROVE  {r} \in Newest(set, times, limit)
    BY <1>3, <1>4, <1>6, <2>2, FS_Singleton
  <2> QED BY <1>6, <2>1, <2>2 DEF limit
<1> QED BY <1>5, <1>6

(* What is shown first stays first: a stored run keeps its start, and so   *)
(* only a run that was not stored before can become the latest.            *)
THEOREM LatestStaysTheorem == Spec => LatestStays
<1> DEFINE Kept ==
      /\ \A r \in Defaults' : r \in Defaults \/ r \notin KnownRuns(db)
      /\ \A s, t \in Rows(db) : created[s] < created[t] => created'[s] < created'[t]
<1>1. ReadInv /\ ReadInv' /\ [Next]_vars => [Kept]_vars
  <2> SUFFICES ASSUME ReadInv, ReadInv', Next PROVE Kept
    OBVIOUS
  <2>1. CASE Tick
    <3>1. Defaults' = Defaults
      BY <2>1 DEF Tick, Defaults
    <3> QED BY <2>1, <3>1 DEF Tick
  <2>2. ASSUME NEW q \in Posts, StorePost(q) PROVE Kept
    <3> DEFINE measured == IF IsMeasurement(q) THEN {q.sample} ELSE {}
    <3>1. q \in Post /\ db \in Database
      BY ReadAssumption DEF ReadInv, TypeOK
    <3>2. /\ q.run \in Runs /\ measured \subseteq Samples
          /\ KnownRuns(db)' = KnownRuns(db) \cup {q.run}
      BY <2>2, <3>1, PostAdds DEF StorePost
    <3>3. /\ started' = Stamp(started, KnownRuns(db), {q.run})
          /\ created' = Stamp(created, Rows(db), measured)
      BY <2>2 DEF StorePost
    <3> HIDE DEF measured
    <3>4. \A r \in KnownRuns(db) : started'[r] = started[r]
      <4>1. KnownRuns(db) \subseteq Runs /\ {q.run} \subseteq Runs
        BY <3>2 DEF KnownRuns
      <4> QED BY <3>3, <4>1, StampEffect DEF ReadInv, TypeOK
    <3>5. \A s \in Rows(db) : created'[s] = created[s]
      <4>1. Rows(db) \subseteq Samples
        BY DEF Rows
      <4> QED BY <3>2, <3>3, <4>1, StampEffect DEF ReadInv, TypeOK
    <3>6. ASSUME NEW r \in Defaults', r \in KnownRuns(db) PROVE r \in Defaults
      <4>1. IsFiniteSet(KnownRuns(db)) /\ IsFiniteSet(KnownRuns(db)')
        BY DEF ReadInv
      <4>2. /\ RunLimit # 0
            /\ \A y \in KnownRuns(db)' \ {r} : started'[r] >= started'[y]
        BY <3>6, <4>1, NewestOne DEF Defaults
      <4>3. \A y \in KnownRuns(db) \ {r} : started[r] >= started[y]
        BY <3>2, <3>4, <3>6, <4>2
      <4> QED BY <3>6, <4>1, <4>2, <4>3, NewestOne DEF Defaults
    <3> QED BY <3>5, <3>6
  <2> QED BY <2>1, <2>2 DEF Next
<1> QED BY <1>1, ReadInvariance, PTL DEF Spec, LatestStays

-----------------------------------------------------------------------------
(* There is a k-th smallest of more than k values: the least one that more *)
(* than k are not above.                                                   *)
LEMMA OrderedIs ==
  ASSUME NEW D, IsFiniteSet(D), NEW f \in [D -> Nat], NEW k \in Nat, k < Cardinality(D)
  PROVE  /\ Ordered(f, k) \in Nat
         /\ \E x \in D : f[x] = Ordered(f, k)
         /\ Cardinality({x \in D : f[x] < Ordered(f, k)}) <= k
         /\ Cardinality({x \in D : f[x] <= Ordered(f, k)}) > k
<1> DEFINE R == Range(f)
           notAbove(v) == {x \in D : f[x] <= v}
           below(v) == {x \in D : f[x] < v}
           T == {v \in R : Cardinality(notAbove(v)) > k}
<1>1. R \in SUBSET Nat /\ IsFiniteSet(R) /\ R # {} /\ R = {f[x] : x \in D}
  <2>1. R = {f[x] : x \in D} /\ R \subseteq Nat
    BY DEF Range
  <2>2. D # {}
    BY FS_EmptySet
  <2>3. IsFiniteSet(R)
    <3> HIDE DEF R
    <3>1. f \in Surjection(D, R)
      BY <2>1 DEF Surjection
    <3> QED BY <3>1, FS_Surjection
  <2> QED BY <2>1, <2>2, <2>3
<1> HIDE DEF R
<1>2. PICK max \in R : \A y \in R : y <= max
  BY <1>1, GreatestNat
<1>3. notAbove(max) = D
  BY <1>1, <1>2
<1>4. T # {} /\ T \in SUBSET Nat
  BY <1>1, <1>2, <1>3
<1>5. PICK v \in T : \A y \in T : v <= y
  <2> HIDE DEF T
  <2> QED BY <1>4, LeastNat
<1>6. v \in R /\ v \in Nat /\ Cardinality(notAbove(v)) > k
  BY <1>1, <1>5
<1>7. Cardinality(below(v)) <= k
  <2> DEFINE U == {u \in R : u < v}
  <2>1. CASE U = {}
    <3>1. below(v) = {}
      BY <1>1, <2>1
    <3> QED BY <3>1, FS_EmptySet
  <2>2. CASE U # {}
    <3>1. U \in SUBSET Nat /\ IsFiniteSet(U)
      BY <1>1, FS_Subset
    <3>2. PICK m \in U : \A y \in U : y <= m
      <4> HIDE DEF U
      <4> QED BY <2>2, <3>1, GreatestNat
    <3>3. m \in R /\ m \in Nat /\ m < v
      BY <1>1, <3>2
    <3>4. below(v) = notAbove(m)
      <4>1. \A x \in D : f[x] \in R /\ f[x] \in Nat
        BY <1>1
      <4>2. \A x \in D : f[x] < v => f[x] <= m
        BY <3>2, <4>1
      <4>3. \A x \in D : f[x] <= m => f[x] < v
        BY <1>6, <3>3, <4>1
      <4> QED BY <4>2, <4>3
    <3>5. m \notin T
      BY <1>5, <1>6, <3>3
    <3>6. Cardinality(notAbove(m)) \in Nat
      BY FS_Subset, FS_CardinalityType
    <3>7. ~(Cardinality(notAbove(m)) > k)
      BY <3>3, <3>5
    <3> QED BY <3>4, <3>6, <3>7
  <2> QED BY <2>1, <2>2
<1> DEFINE IsKth(u) == /\ Cardinality(below(u)) <= k
                       /\ Cardinality(notAbove(u)) > k
<1>8. Ordered(f, k) = CHOOSE u \in R : IsKth(u)
  BY DEF Ordered, R
<1>9. IsKth(v)
  BY <1>6, <1>7
<1>10. Ordered(f, k) \in R /\ IsKth(Ordered(f, k))
  <2> HIDE DEF IsKth
  <2> QED BY <1>6, <1>8, <1>9
<1> QED BY <1>1, <1>10

(* The order of the values.                                                *)
LEMMA OrderedMonotone ==
  ASSUME NEW D, IsFiniteSet(D), NEW f \in [D -> Nat],
         NEW k \in Nat, NEW l \in Nat, k <= l, l < Cardinality(D)
  PROVE  Ordered(f, k) <= Ordered(f, l)
<1>1. Cardinality(D) \in Nat
  BY FS_CardinalityType
<1> DEFINE a == Ordered(f, k)
           b == Ordered(f, l)
           below == {x \in D : f[x] < a}
           notAbove == {x \in D : f[x] <= b}
<1>2. /\ a \in Nat /\ b \in Nat
      /\ Cardinality(below) <= k /\ Cardinality(notAbove) > l
  <2>1. k < Cardinality(D)
    BY <1>1
  <2> QED BY <2>1, OrderedIs, ZenonT(30)
<1>3. /\ IsFiniteSet(below) /\ Cardinality(below) \in Nat
      /\ IsFiniteSet(notAbove) /\ Cardinality(notAbove) \in Nat
  BY FS_Subset, FS_CardinalityType
<1> HIDE DEF a, b
<1>4. SUFFICES ASSUME b < a PROVE FALSE
  BY <1>2 DEF a, b
<1>5. notAbove \subseteq below
  BY <1>2, <1>4
<1>6. Cardinality(notAbove) <= Cardinality(below)
  <2> HIDE DEF notAbove, below
  <2> QED BY <1>3, <1>5, FS_Subset
<1> QED BY <1>2, <1>3, <1>6

(* What is interpolated lies between its neighbours, and moves up with the *)
(* weight.                                                                 *)
LEMMA Between ==
  ASSUME NEW a \in Nat, NEW b \in Nat, a <= b, NEW w \in 0..99
  PROVE  /\ a * (100 - w) + b * w \in Nat
         /\ 100 * a <= a * (100 - w) + b * w
         /\ a * (100 - w) + b * w <= 100 * b
         /\ \A u \in 0..w : a * (100 - u) + b * u <= a * (100 - w) + b * w
<1> DEFINE d == b - a
<1>1. d \in Nat /\ b = a + d
  OBVIOUS
<1>2. \A u \in 0..99 : a * (100 - u) + b * u = 100 * a + d * u
  <2> SUFFICES ASSUME NEW u \in 0..99 PROVE a * (100 - u) + b * u = 100 * a + d * u
    OBVIOUS
  <2>1. a * (100 - u) = 100 * a - a * u
    OBVIOUS
  <2>2. b * u = a * u + d * u
    BY <1>1
  <2> QED BY <2>1, <2>2, <1>1
<1> HIDE DEF d
<1>3. d * w \in Nat /\ d * w <= 100 * d /\ \A u \in 0..w : d * u <= d * w
  BY <1>1
<1> QED BY <1>1, <1>2, <1>3

(* Where a percentile is taken.                                            *)
LEMMA Position ==
  ASSUME NEW N \in Nat, NEW p \in 0..100
  PROVE  /\ (N * p) \div 100 \in 0..N
         /\ (N * p) % 100 \in 0..99
         /\ N * p = 100 * ((N * p) \div 100) + ((N * p) % 100)
         /\ (N * p) % 100 > 0 => (N * p) \div 100 < N
<1>1. N * p \in Nat /\ N * p <= 100 * N
  OBVIOUS
<1>2. ASSUME NEW x \in Nat, x <= 100 * N
      PROVE  /\ x \div 100 \in 0..N /\ x % 100 \in 0..99
             /\ x = 100 * (x \div 100) + (x % 100)
             /\ x % 100 > 0 => x \div 100 < N
  <2> DEFINE k == x \div 100
             w == x % 100
  <2>1. k \in Int /\ w \in 0..99 /\ x = 100 * k + w
    OBVIOUS
  <2> HIDE DEF k, w
  <2>2. k \in 0..N /\ (w > 0 => k < N)
    BY <1>2, <2>1
  <2>3. x \div 100 = k /\ x % 100 = w
    BY DEF k, w
  <2>4. x \div 100 \in 0..N /\ x % 100 \in 0..99
    BY <2>1, <2>2, <2>3
  <2>5. x = 100 * (x \div 100) + (x % 100)
    BY <2>1, <2>3
  <2>6. x % 100 > 0 => x \div 100 < N
    BY <2>2, <2>3
  <2> QED BY <2>4, <2>5, <2>6
<1> QED BY <1>1, <1>2

(* q is the k-th value or lies between it and the next.                    *)
Interpolates(f, N, q, k, w) ==
  \/ w = 0 /\ q = 100 * Ordered(f, k)
  \/ /\ w > 0 /\ k + 1 \in 0..N
     /\ q = Ordered(f, k) * (100 - w) + Ordered(f, k + 1) * w

LEMMA PercentileIs ==
  ASSUME NEW D, IsFiniteSet(D), D # {}, NEW f \in [D -> Nat], NEW p \in 0..100, NEW none,
         NEW N, N = Cardinality(D) - 1
  PROVE  /\ N \in Nat
         /\ \E k \in 0..N, w \in 0..99 :
              N * p = 100 * k + w /\ Interpolates(f, N, Percentile(f, p, none), k, w)
<1> DEFINE k == (N * p) \div 100
           w == (N * p) % 100
<1>1. N \in Nat
  BY FS_CardinalityType, FS_EmptySet
<1>2. Percentile(f, p, none) =
        IF w = 0 THEN 100 * Ordered(f, k)
        ELSE Ordered(f, k) * (100 - w) + Ordered(f, k + 1) * w
  BY DEF Percentile
<1>3. k \in 0..N /\ w \in 0..99 /\ N * p = 100 * k + w /\ (w > 0 => k < N)
  BY <1>1, Position, ZenonT(30)
<1> HIDE DEF k, w
<1>4. w > 0 => k + 1 \in 0..N
  BY <1>1, <1>3
<1>5. w = 0 \/ w > 0
  BY <1>3
<1>6. Interpolates(f, N, Percentile(f, p, none), k, w)
  BY <1>2, <1>4, <1>5 DEF Interpolates
<1> QED BY <1>1, <1>3, <1>6

(* At most the share p of the values is below the percentile and at most   *)
(* the rest above, and it is between two of them.                          *)
LEMMA PercentileBrackets ==
  ASSUME NEW D, IsFiniteSet(D), D # {}, NEW f \in [D -> Nat], NEW p \in 0..100, NEW none
  PROVE  /\ Percentile(f, p, none) \in Nat
         /\ Brackets(f, Percentile(f, p, none), p)
         /\ \E x \in D : 100 * f[x] <= Percentile(f, p, none)
         /\ \E x \in D : Percentile(f, p, none) <= 100 * f[x]
<1> DEFINE q == Percentile(f, p, none)
           below == {x \in D : 100 * f[x] < q}
           above == {x \in D : 100 * f[x] > q}
           Goal == /\ q \in Nat
                   /\ 100 * Cardinality(below) <= (Cardinality(D) - 1) * p + 99
                   /\ 100 * Cardinality(above) <= (Cardinality(D) - 1) * (100 - p) + 99
                   /\ \E x \in D : 100 * f[x] <= q
                   /\ \E x \in D : q <= 100 * f[x]
<1> DEFINE N == Cardinality(D) - 1
<1>0. N \in Nat /\ \E k \in 0..N, w \in 0..99 : N * p = 100 * k + w /\ Interpolates(f, N, q, k, w)
  BY PercentileIs
<1>1. PICK k, w :
        /\ N \in Nat /\ k \in 0..N /\ w \in 0..99
        /\ N * p = 100 * k + w
        /\ \/ w = 0 /\ q = 100 * Ordered(f, k)
           \/ /\ w > 0 /\ k + 1 \in 0..N
              /\ q = Ordered(f, k) * (100 - w) + Ordered(f, k + 1) * w
  <2> HIDE DEF q, N
  <2> QED BY <1>0 DEF Interpolates
<1> DEFINE a == Ordered(f, k)
           belowA == {x \in D : f[x] < a}
           notAboveA == {x \in D : f[x] <= a}
           aboveA == {x \in D : f[x] > a}
<1>2. /\ a \in Nat /\ \E x \in D : f[x] = a
      /\ Cardinality(belowA) <= k /\ Cardinality(notAboveA) > k
  <2>1. k \in Nat /\ k < Cardinality(D)
    BY <1>1, FS_CardinalityType
  <2> QED BY <2>1, OrderedIs
<1>3. /\ Cardinality(below) \in Nat /\ IsFiniteSet(below)
      /\ Cardinality(above) \in Nat /\ IsFiniteSet(above)
      /\ Cardinality(belowA) \in Nat /\ IsFiniteSet(belowA)
      /\ Cardinality(notAboveA) \in Nat /\ Cardinality(D) \in Nat
      /\ Cardinality(aboveA) \in Nat /\ IsFiniteSet(aboveA)
  <2> HIDE DEF q, a
  <2> QED BY FS_Subset, FS_CardinalityType
<1>4. Cardinality(aboveA) <= N - k
  <2>1. aboveA = D \ notAboveA
    BY <1>2
  <2>2. D \cap notAboveA = notAboveA
    OBVIOUS
  <2>3. Cardinality(D \ notAboveA) = Cardinality(D) - Cardinality(D \cap notAboveA)
    <3> HIDE DEF notAboveA
    <3> QED BY FS_Difference
  <2> HIDE DEF aboveA, notAboveA, a
  <2>4. Cardinality(aboveA) = Cardinality(D) - Cardinality(notAboveA)
    BY <2>1, <2>2, <2>3
  <2> QED BY <2>4, <1>1, <1>2, <1>3
<1>5. N * (100 - p) = 100 * N - (100 * k + w)
  <2>1. N * (100 - p) = 100 * N - N * p
    BY <1>1
  <2> QED BY <1>1, <2>1
<1>6. Goal
  <2>1. ASSUME w = 0, q = 100 * a PROVE Goal
    <3> HIDE DEF q, a
    <3>1. below = belowA /\ above = aboveA
      BY <1>2, <2>1
    <3>2. q \in Nat /\ \E x \in D : 100 * f[x] <= q /\ q <= 100 * f[x]
      BY <1>2, <2>1
    <3> HIDE DEF below, above, belowA, aboveA
    <3>3. 100 * Cardinality(below) <= N * p + 99
      BY <1>1, <1>2, <1>3, <2>1, <3>1
    <3>4. 100 * Cardinality(above) <= N * (100 - p) + 99
      BY <1>1, <1>3, <1>4, <1>5, <2>1, <3>1
    <3> HIDE DEF N
    <3>5. (\E x \in D : 100 * f[x] <= q) /\ \E x \in D : q <= 100 * f[x]
      BY <3>2
    <3> QED BY <3>2, <3>3, <3>4, <3>5 DEF N
  <2>2. ASSUME w > 0, k + 1 \in 0..N, q = a * (100 - w) + Ordered(f, k + 1) * w PROVE Goal
    <3> DEFINE b == Ordered(f, k + 1)
               belowB == {x \in D : f[x] < b}
    <3>1. b \in Nat /\ (\E x \in D : f[x] = b) /\ Cardinality(belowB) <= k + 1
      <4>1. k + 1 \in Nat /\ k + 1 < Cardinality(D)
        BY <1>1, <1>3, <2>2
      <4> QED BY <4>1, OrderedIs
    <3>2. a <= b
      <4>1. k \in Nat /\ k + 1 \in Nat /\ k <= k + 1 /\ k + 1 < Cardinality(D)
        BY <1>1, <1>3, <2>2
      <4> QED BY <4>1, OrderedMonotone
    <3>3. Cardinality(belowB) \in Nat /\ IsFiniteSet(belowB)
      <4> HIDE DEF b
      <4> QED BY FS_Subset, FS_CardinalityType
    <3> HIDE DEF a, b, q
    <3>4. q \in Nat /\ 100 * a <= q /\ q <= 100 * b
      <4>1. q = a * (100 - w) + b * w
        BY <2>2 DEF b
      <4> QED BY <4>1, <1>1, <1>2, <3>1, <3>2, Between, ZenonT(30)
    <3>5. below \subseteq belowB
      <4> SUFFICES ASSUME NEW x \in D, 100 * f[x] < q PROVE f[x] < b
        OBVIOUS
      <4> QED BY <3>1, <3>4
    <3>6. above \subseteq aboveA
      <4> SUFFICES ASSUME NEW x \in D, 100 * f[x] > q PROVE f[x] > a
        OBVIOUS
      <4> QED BY <1>2, <3>4
    <3>7. (\E x \in D : 100 * f[x] <= q) /\ \E x \in D : q <= 100 * f[x]
      BY <1>2, <3>1, <3>4
    <3> HIDE DEF below, above, belowA, aboveA, belowB
    <3>8. Cardinality(below) <= Cardinality(belowB) /\ Cardinality(above) <= Cardinality(aboveA)
      BY <1>3, <3>3, <3>5, <3>6, FS_Subset
    <3> QED BY <1>1, <1>3, <1>4, <1>5, <2>2, <3>1, <3>3, <3>4, <3>7, <3>8
  <2> HIDE DEF Goal, q
  <2> QED BY <1>1, <2>1, <2>2
<1> QED BY <1>6 DEF Brackets

(* Percentiles are in the order of their shares.                           *)
LEMMA PercentileMonotone ==
  ASSUME NEW D, IsFiniteSet(D), D # {}, NEW f \in [D -> Nat], NEW none,
         NEW p \in 0..100, NEW r \in 0..100, p <= r
  PROVE  Percentile(f, p, none) <= Percentile(f, r, none)
<1> DEFINE x(i) == Ordered(f, i)
           N == Cardinality(D) - 1
<1>1. N \in Nat
  BY FS_CardinalityType, FS_EmptySet
<1>2. /\ \A i \in 0..N : x(i) \in Nat
      /\ \A i, j \in 0..N : i <= j => x(i) <= x(j)
  <2>1. \A i \in 0..N : i \in Nat /\ i < Cardinality(D)
    BY <1>1, FS_CardinalityType
  <2>2. \A i \in 0..N : x(i) \in Nat
    BY <2>1, OrderedIs
  <2>3. ASSUME NEW i \in 0..N, NEW j \in 0..N, i <= j PROVE x(i) <= x(j)
    BY <2>1, <2>3, OrderedMonotone
  <2> QED BY <2>2, <2>3
<1>3. PICK k \in 0..N, w \in 0..99 :
        N * p = 100 * k + w /\ Interpolates(f, N, Percentile(f, p, none), k, w)
  BY PercentileIs
<1>4. PICK l \in 0..N, u \in 0..99 :
        N * r = 100 * l + u /\ Interpolates(f, N, Percentile(f, r, none), l, u)
  BY PercentileIs
<1>5. 100 * k + w <= 100 * l + u
  <2>1. N * p <= N * r
    BY <1>1
  <2> QED BY <1>3, <1>4, <2>1
<1>6. k < l \/ (k = l /\ w <= u)
  BY <1>3, <1>4, <1>5
<1> HIDE DEF x, N
<1>7. ASSUME NEW q, NEW i \in 0..N, NEW v \in 0..99, Interpolates(f, N, q, i, v)
      PROVE  /\ q \in Nat /\ 100 * x(i) <= q
             /\ i + 1 \in 0..N => q <= 100 * x(i + 1)
  <2>1. CASE v = 0
    <3>1. i + 1 \in 0..N => x(i) <= x(i + 1) /\ x(i + 1) \in Nat
      BY <1>1, <1>2
    <3> QED BY <1>2, <1>7, <2>1, <3>1 DEF Interpolates, x
  <2>2. CASE v # 0
    <3>1. /\ i + 1 \in 0..N /\ x(i) \in Nat /\ x(i + 1) \in Nat /\ x(i) <= x(i + 1)
          /\ q = x(i) * (100 - v) + x(i + 1) * v
      BY <1>1, <1>2, <1>7, <2>2 DEF Interpolates, x
    <3> QED BY <3>1, Between, ZenonT(30)
  <2> QED BY <2>1, <2>2
<1> DEFINE a == Percentile(f, p, none)
           b == Percentile(f, r, none)
<1>8. a \in Nat /\ b \in Nat /\ 100 * x(l) <= b /\ (k + 1 \in 0..N => a <= 100 * x(k + 1))
  BY <1>3, <1>4, <1>7
<1>9. CASE k < l
  <2>1. k + 1 \in 0..N /\ k + 1 <= l
    BY <1>1, <1>3, <1>4, <1>9
  <2>2. x(k + 1) <= x(l) /\ x(k + 1) \in Nat /\ x(l) \in Nat
    BY <1>2, <1>4, <2>1
  <2> HIDE DEF a, b
  <2>3. a <= b
    BY <1>8, <2>1, <2>2
  <2> QED BY <2>3 DEF a, b
<1>10. CASE k = l /\ w <= u
  <2>1. CASE w = 0
    BY <1>3, <1>8, <1>10, <2>1 DEF Interpolates, x
  <2>2. CASE w # 0
    <3>1. /\ w > 0 /\ u > 0
          /\ k + 1 \in 0..N /\ x(k) \in Nat /\ x(k + 1) \in Nat /\ x(k) <= x(k + 1)
      BY <1>1, <1>2, <1>3, <1>4, <1>10, <2>2
    <3>2. /\ a = x(k) * (100 - w) + x(k + 1) * w
          /\ b = x(k) * (100 - u) + x(k + 1) * u
      BY <1>3, <1>4, <1>10, <3>1 DEF Interpolates, x
    <3>3. w \in 0..u
      BY <1>3, <1>4, <1>10
    <3> HIDE DEF a, b
    <3>4. a <= b
      BY <1>4, <3>1, <3>2, <3>3, Between, ZenonT(30)
    <3> QED BY <3>4 DEF a, b
  <2> QED BY <2>1, <2>2
<1> QED BY <1>6, <1>9, <1>10

-----------------------------------------------------------------------------
(* The rows are finitely many, of a mode that is summarised, and their     *)
(* success is the client's verdict, or TRUE while there is none.           *)
RowsInv ==
  /\ IsFiniteSet(Rows(db))
  /\ \A s \in Rows(db) : db.rows[s].mode \in StoredModes
  /\ \A s \in Rows(db) :
       db.rows[s].client # Absent => db.rows[s].success = db.rows[s].client.ok
  /\ \A s \in Rows(db) : db.rows[s].client = Absent => db.rows[s].success

(* Neither upsert changes the mode of a row, and a new one has the mode of *)
(* the post.                                                               *)
LEMMA UpsertMode ==
  ASSUME NEW row \in Row \cup {Absent}
  PROVE  /\ \A q \in ServerPost : ServerUpsert(row, q).mode
                                   = IF row = Absent THEN q.mode ELSE row.mode
         /\ \A q \in ClientPost : ClientUpsert(row, q).mode
                                   = IF row = Absent THEN q.mode ELSE row.mode
  BY DEF ServerUpsert, ClientUpsert, Row

LEMMA InitRowsInv == Init => RowsInv
<1> SUFFICES ASSUME Init PROVE RowsInv
  OBVIOUS
<1>1. Rows(db) = {}
  BY DEF Init, EmptyDatabase, Rows
<1> QED BY <1>1, FS_EmptySet DEF RowsInv

LEMMA StepRowsInv == ReadInv /\ RowsInv /\ [Next]_vars => RowsInv'
<1> SUFFICES ASSUME ReadInv, RowsInv, [Next]_vars PROVE RowsInv'
  OBVIOUS
<1>1. ASSUME UNCHANGED db PROVE RowsInv'
  BY <1>1 DEF RowsInv, Rows
<1>2. ASSUME NEW q \in Posts, StorePost(q) PROVE RowsInv'
  <2>1. q \in Post /\ db \in Database
    BY ReadAssumption DEF ReadInv, TypeOK
  <2>2. db' = Apply(db, q) /\ ModeCheck(q)
    BY <1>2 DEF StorePost
  <2> DEFINE measured == IF IsMeasurement(q) THEN {q.sample} ELSE {}
  <2>3. IsFiniteSet(Rows(db)')
    <3>1. Rows(db)' = Rows(db) \cup measured
      BY <2>1, <2>2, PostAdds
    <3>2. IsFiniteSet(measured)
      BY FS_Singleton, FS_EmptySet
    <3> HIDE DEF measured
    <3> QED BY <3>1, <3>2, FS_Union DEF RowsInv
  <2>4. \A s \in Rows(Apply(db, q)) :
          Apply(db, q).rows[s].client # Absent =>
            Apply(db, q).rows[s].success = Apply(db, q).rows[s].client.ok
    BY <2>1, ApplyVerdict DEF RowsInv
  <2>5. \A s \in Rows(Apply(db, q)) :
          Apply(db, q).rows[s].client = Absent => Apply(db, q).rows[s].success
    BY <2>1, ApplyOptimistic DEF RowsInv
  <2>6. ASSUME NEW s \in Rows(Apply(db, q)) PROVE Apply(db, q).rows[s].mode \in StoredModes
    <3>1. s \in Samples /\ Apply(db, q).rows[s] # Absent /\ db.rows[s] \in Row \cup {Absent}
      BY <2>1 DEF Rows, Database
    <3>2. db.rows[s] # Absent => db.rows[s].mode \in StoredModes
      BY <3>1 DEF RowsInv, Rows
    <3>3. CASE Apply(db, q).rows[s] = db.rows[s]
      BY <3>1, <3>2, <3>3
    <3>4. CASE q \in ServerPost /\ Apply(db, q).rows[s] = ServerUpsert(db.rows[s], q)
      <4>1. q.mode \in StoredModes
        BY <2>2, <3>4 DEF ModeCheck, IsMeasurement, ServerPost
      <4> QED BY <3>1, <3>2, <3>4, <4>1, UpsertMode
    <3>5. CASE q \in ClientPost /\ Apply(db, q).rows[s] = ClientUpsert(db.rows[s], q)
      <4>1. q.mode \in StoredModes
        BY <2>2, <3>5 DEF ModeCheck, IsMeasurement, ClientPost
      <4> QED BY <3>1, <3>2, <3>5, <4>1, UpsertMode
    <3> QED BY <2>1, <3>1, <3>3, <3>4, <3>5, ApplyRow
  <2> QED BY <2>2, <2>3, <2>4, <2>5, <2>6 DEF RowsInv
<1> QED BY <1>1, <1>2 DEF Next, Tick, vars

LEMMA RowsInvariance == Spec => [](ReadInv /\ RowsInv)
  BY InitReadInv, StepReadInv, InitRowsInv, StepRowsInv, PTL DEF Spec

(* The rows of a mode.                                                     *)
Of(S, mode) == {s \in S : db.rows[s].mode = mode}

(* The dashboard that is read stores a post in one step of the ledger, and *)
(* the clock is none of its business.                                      *)
THEOREM ReadRefinement == Spec => ImplementsLedger
<1>1. Init => L!Init
  BY EmptyMapped DEF Init
<1>2. ReadInv /\ RowsInv /\ [Next]_vars => [L!Next]_L!vars
  <2> SUFFICES ASSUME ReadInv, RowsInv, [Next]_vars PROVE [L!Next]_L!vars
    OBVIOUS
  <2>1. CASE db' = db
    BY <2>1, StutterMapped
  <2>2. ASSUME NEW q \in Posts, StorePost(q) PROVE L!Next
    <3>1. q \in Post /\ db \in Database /\ SuccessUntilClient
      BY ReadAssumption DEF ReadInv, TypeOK, RowsInv, SuccessUntilClient
    <3>2. db' = Apply(db, q)
      BY <2>2 DEF StorePost
    <3> QED BY <3>1, <3>2, RequestMapped
  <2> QED BY <2>1, <2>2 DEF Next, Tick, vars
<1> QED BY <1>1, <1>2, RowsInvariance, PTL DEF Spec, ImplementsLedger, L!Spec

LEMMA ModesAddUp ==
  ASSUME RowsInv, NEW S \in SUBSET Rows(db)
  PROVE  /\ \A mode \in SummaryModes : Cardinality(Of(S, mode)) \in Nat
         /\ Cardinality(Of(S, "classical")) + Cardinality(Of(S, "hybrid"))
              + Cardinality(Of(S, "hybrid_p256")) = Cardinality(S)
<1> DEFINE A == Of(S, "classical")
           B == Of(S, "hybrid")
           C == Of(S, "hybrid_p256")
<1>1. IsFiniteSet(S)
  BY FS_Subset DEF RowsInv
<1>2. \A s \in S : db.rows[s].mode \in {"classical", "hybrid", "hybrid_p256"}
  BY SummaryAssumption DEF RowsInv, SummaryModes
<1>3. S = A \cup B \cup C /\ A \cap B = {} /\ A \cap C = {} /\ B \cap C = {}
  BY <1>2 DEF Of
<1> HIDE DEF A, B, C
<1>4. Cardinality(A) + Cardinality(B) + Cardinality(C) = Cardinality(S)
  BY <1>1, <1>3, ThreeParts
<1>5. /\ A \in SUBSET S /\ B \in SUBSET S /\ C \in SUBSET S
  BY <1>3
<1>6. Cardinality(A) \in Nat /\ Cardinality(B) \in Nat /\ Cardinality(C) \in Nat
  BY <1>1, <1>5, FS_Subset, FS_CardinalityType
<1> QED BY <1>4, <1>6 DEF A, B, C, SummaryModes

(* What summarize() counts of some stored rows: all of them, those that    *)
(* count as successes, and those whose client reported a failure.          *)
LEMMA SummaryTotals ==
  ASSUME RowsInv, NEW rows \in SUBSET Rows(db)
  PROVE  /\ Total(Summarize(rows), LAMBDA x : x.samples) = Cardinality(rows)
         /\ Total(Summarize(rows), LAMBDA x : x.successes)
              = Cardinality({s \in rows : db.rows[s].success})
         /\ Total(Summarize(rows), LAMBDA x : x.failures)
              = Cardinality({s \in rows : db.rows[s].client # Absent
                                             /\ ~db.rows[s].client.ok})
<1> DEFINE good == {s \in rows : db.rows[s].success}
           bad == {s \in rows : db.rows[s].client # Absent /\ ~db.rows[s].client.ok}
           c(S, mode) == Cardinality(Of(S, mode))
<1>1. \A S \in {rows, good} :
        /\ c(S, "classical") \in Nat /\ c(S, "hybrid") \in Nat /\ c(S, "hybrid_p256") \in Nat
        /\ c(S, "classical") + c(S, "hybrid") + c(S, "hybrid_p256") = Cardinality(S)
  BY ModesAddUp DEF SummaryModes
<1>2. /\ Total(Summarize(rows), LAMBDA x : x.samples)
           = c(rows, "classical") + c(rows, "hybrid") + c(rows, "hybrid_p256")
      /\ Total(Summarize(rows), LAMBDA x : x.successes)
           = c(good, "classical") + c(good, "hybrid") + c(good, "hybrid_p256")
      /\ Total(Summarize(rows), LAMBDA x : x.failures)
           = (c(rows, "classical") - c(good, "classical"))
               + (c(rows, "hybrid") - c(good, "hybrid"))
               + (c(rows, "hybrid_p256") - c(good, "hybrid_p256"))
  <2>1. ASSUME NEW mode
        PROVE  {s \in Of(rows, mode) : db.rows[s].success} = Of(good, mode)
    BY DEF Of
  <2>2. ASSUME NEW mode \in SummaryModes
        PROVE  /\ Summarize(rows)[mode].samples = c(rows, mode)
               /\ Summarize(rows)[mode].successes = c(good, mode)
               /\ Summarize(rows)[mode].failures = c(rows, mode) - c(good, mode)
    <3>1. Summarize(rows)[mode] = ModeSummary(rows, mode)
      BY DEF Summarize
    <3>2. /\ ModeSummary(rows, mode).samples = Cardinality(Of(rows, mode))
          /\ ModeSummary(rows, mode).successes
               = Cardinality({s \in Of(rows, mode) : db.rows[s].success})
          /\ ModeSummary(rows, mode).failures
               = Cardinality(Of(rows, mode))
                   - Cardinality({s \in Of(rows, mode) : db.rows[s].success})
      BY DEF ModeSummary, Of
    <3>3. {s \in Of(rows, mode) : db.rows[s].success} = Of(good, mode)
      BY <2>1
    <3> HIDE DEF good
    <3> QED BY <3>1, <3>2, <3>3
  <2> HIDE DEF c
  <2> QED BY <2>2 DEF Total, SummaryModes
<1>3. Cardinality(rows) - Cardinality(good) = Cardinality(bad)
  <2>1. rows \ good = bad
    BY DEF RowsInv
  <2>2. IsFiniteSet(rows) /\ good \in SUBSET rows
    BY FS_Subset DEF RowsInv
  <2> HIDE DEF good, bad
  <2> QED BY <2>1, <2>2, TwoParts
<1> HIDE DEF c, good, bad
<1>4. Total(Summarize(rows), LAMBDA x : x.failures) = Cardinality(rows) - Cardinality(good)
  BY <1>1, <1>2
<1> QED BY <1>1, <1>2, <1>3, <1>4 DEF good, bad

(* Which rows a page and a file are about.                                 *)
LEMMA PageRowsOf ==
  /\ \A r \in Runs : PageRows(r) = RowsOf(db, r) /\ CsvExport(r) = RowsOf(db, r)
  /\ PageRows(Absent) = {} /\ PageRows(Blank) = {}
  /\ CsvExport(Absent) = Rows(db)
  /\ \A run : PageRows(run) \subseteq Rows(db)
<1>1. \A r \in Runs : r \notin {Absent, Blank}
  BY StoreAssumption, ReadAssumption
<1> QED BY <1>1 DEF PageRows, CsvExport, Measurements, RowsOf

(* The recent rows are all of them, or none of the others is newer.        *)
LEMMA RecentRows ==
  ASSUME ReadInv, RowsInv, NEW run, NEW recent \in Recent(run)
  PROVE  /\ Cardinality(recent) < RecentLimit => recent = PageRows(run)
         /\ \A s \in PageRows(run) \ recent, t \in recent : created[s] <= created[t]
<1> DEFINE rows == PageRows(run)
<1>1. rows \subseteq Rows(db) /\ IsFiniteSet(rows)
  BY PageRowsOf, FS_Subset DEF RowsInv
<1> HIDE DEF rows
<1>2. /\ recent \in SUBSET rows
      /\ Cardinality(recent) = Min({Cardinality(rows), RecentLimit})
      /\ \A x \in recent, y \in rows \ recent : created[x] >= created[y]
  BY DEF Recent, Newest, rows
<1>3. Cardinality(recent) < RecentLimit => recent = rows
  <2>1. Cardinality(rows) \in Nat /\ RecentLimit \in Nat
    BY <1>1, FS_CardinalityType, ReadAssumption
  <2>2. Cardinality(recent) < RecentLimit => Cardinality(recent) = Cardinality(rows)
    BY <1>2, <2>1, MinOfTwo
  <2> QED BY <1>1, <1>2, <2>2, FS_Subset
<1>4. \A s \in Rows(db) : created[s] \in Nat
  <2>1. \A s \in Rows(db) : s \in Samples /\ created[s] \in Times
    BY DEF ReadInv, TypeOK, Rows
  <2> QED BY <2>1, TimesAreNumbers
<1>5. \A s \in rows \ recent, t \in recent : created[s] <= created[t]
  BY <1>1, <1>2, <1>4
<1> QED BY <1>3, <1>5 DEF rows

(* The listing, the summary, the recent rows and the CSV file of a run are *)
(* about the same rows, for any runs, rows, posts and limits.              *)
THEOREM AnswersAgreeTheorem == Spec => []AnswersAgree
<1>1. ReadInv /\ RowsInv => AnswersAgree
  <2> SUFFICES ASSUME ReadInv, RowsInv,
                      NEW asked \in Runs \cup {Absent, Blank}, NEW run \in Selected(asked)
               PROVE  LET rows == PageRows(run)
                          summary == Summarize(rows)
                      IN  /\ run \in Runs =>
                               /\ Total(summary, LAMBDA x : x.samples) = RunListing(run).samples
                               /\ Total(summary, LAMBDA x : x.successes) = RunListing(run).successes
                               /\ CsvExport(run) = rows
                          /\ Total(summary, LAMBDA x : x.failures) =
                               Cardinality({s \in rows : db.rows[s].client # Absent
                                                           /\ ~db.rows[s].client.ok})
                          /\ rows \subseteq CsvExport(asked)
                          /\ \A recent \in Recent(run) :
                               /\ Cardinality(recent) < RecentLimit => recent = rows
                               /\ \A s \in rows \ recent, t \in recent : created[s] <= created[t]
    BY DEF AnswersAgree
  <2> DEFINE rows == PageRows(run)
  <2>1. rows \in SUBSET Rows(db)
    BY PageRowsOf
  <2>2. /\ Total(Summarize(rows), LAMBDA x : x.samples) = Cardinality(rows)
        /\ Total(Summarize(rows), LAMBDA x : x.successes)
              = Cardinality({s \in rows : db.rows[s].success})
        /\ Total(Summarize(rows), LAMBDA x : x.failures)
              = Cardinality({s \in rows : db.rows[s].client # Absent
                                             /\ ~db.rows[s].client.ok})
    BY <2>1, SummaryTotals
  <2>3. ASSUME run \in Runs
        PROVE  /\ RunListing(run).samples = Cardinality(rows)
               /\ RunListing(run).successes = Cardinality({s \in rows : db.rows[s].success})
               /\ CsvExport(run) = rows
    BY <2>3, PageRowsOf DEF RunListing
  <2>4. rows \subseteq CsvExport(asked)
    <3>1. CASE asked = Absent
      BY <2>1, <3>1, PageRowsOf
    <3>2. CASE asked # Absent
      <4>1. run = asked
        BY <3>2 DEF Selected
      <4> QED BY <3>2, <4>1, PageRowsOf
    <3> QED BY <3>1, <3>2
  <2>5. \A recent \in Recent(run) :
          /\ Cardinality(recent) < RecentLimit => recent = rows
          /\ \A s \in rows \ recent, t \in recent : created[s] <= created[t]
    BY RecentRows
  <2> QED BY <2>2, <2>3, <2>4, <2>5
<1> QED BY <1>1, RowsInvariance, PTL

-----------------------------------------------------------------------------
(* The rows of a page that have a value of a metric in a mode.             *)
MeasuredRows(r, mode, metric) ==
  {s \in RowsOf(db, r) : /\ db.rows[s].mode = mode /\ db.rows[s].success
                         /\ Value(s, metric) # Absent}

(* What summarize() says of a metric is said of the values of these rows.  *)
LEMMA MetricIs ==
  ASSUME ReadInv, RowsInv, NEW r \in Runs, NEW mode \in SummaryModes, NEW metric \in Metric,
         NEW rows, rows = MeasuredRows(r, mode, metric),
         NEW values, values = [s \in rows |-> Value(s, metric)],
         NEW d, d = ModeSummary(PageRows(r), mode).metrics[metric]
  PROVE  /\ IsFiniteSet(rows) /\ values \in [rows -> Nat]
         /\ d.count = Cardinality(rows) /\ d.sum = SumFunction(values)
         /\ d.p50 = Percentile(values, 50, Absent)
         /\ d.p95 = Percentile(values, 95, Absent)
         /\ d.p99 = Percentile(values, 99, Absent)
         /\ rows # {} => d.min = Min(Range(values)) /\ d.max = Max(Range(values))
<1> DEFINE successful == {s \in {t \in PageRows(r) : db.rows[t].mode = mode} : db.rows[s].success}
           all == [s \in successful |-> Value(s, metric)]
           clean == RestrictValues(all, LAMBDA v : v # Absent)
<1>1. d = Describe(all, Absent)
  BY DEF ModeSummary
<1>2. rows = {s \in DOMAIN all : all[s] # Absent}
  BY PageRowsOf DEF MeasuredRows
<1>3. clean = values
  BY <1>2 DEF RestrictValues, Restrict
<1>4. IsFiniteSet(rows)
  <2>1. rows \in SUBSET Rows(db)
    BY DEF MeasuredRows, RowsOf
  <2> QED BY <2>1, FS_Subset DEF RowsInv
<1>5. ASSUME NEW s \in rows PROVE Value(s, metric) \in Nat
  <2>1. Value(s, metric) # Absent /\ db.rows[s] \in Row
    BY DEF MeasuredRows, RowsOf, Rows, ReadInv, TypeOK, Database
  <2>2. Value(s, metric) \in Conns
    BY <2>1 DEF Value, Row, ClientHalf, Metric
  <2> QED BY <2>2, ReadAssumption
<1>6. DOMAIN values = rows
  OBVIOUS
<1>7. /\ d.count = Cardinality(DOMAIN clean) /\ d.sum = SumFunction(clean)
      /\ d.p50 = Percentile(clean, 50, Absent)
      /\ d.p95 = Percentile(clean, 95, Absent)
      /\ d.p99 = Percentile(clean, 99, Absent)
      /\ DOMAIN clean # {} => d.min = Min(Range(clean)) /\ d.max = Max(Range(clean))
  <2> HIDE DEF all
  <2> QED BY <1>1 DEF Describe, RestrictValues, Restrict
<1> HIDE DEF clean
<1> QED BY <1>3, <1>4, <1>5, <1>6, <1>7

(* The least and the greatest of some values bound each of them.           *)
LEMMA RangeBounds ==
  ASSUME NEW D, IsFiniteSet(D), D # {}, NEW f \in [D -> Nat]
  PROVE  /\ Min(Range(f)) \in Nat /\ Max(Range(f)) \in Nat
         /\ \A x \in D : Min(Range(f)) <= f[x] /\ f[x] <= Max(Range(f))
<1> DEFINE R == Range(f)
<1>1. R = {f[x] : x \in D}
  BY DEF Range
<1>2. R \in SUBSET Nat /\ R # {} /\ \A x \in D : f[x] \in R
  BY <1>1
<1> HIDE DEF R
<1>3. IsFiniteSet(R)
  <2>1. f \in Surjection(D, R)
    BY <1>1 DEF Surjection
  <2> QED BY <2>1, FS_Surjection
<1>4. /\ Min(R) \in R /\ \A y \in R : Min(R) <= y
      /\ Max(R) \in R /\ \A y \in R : y <= Max(R)
  BY <1>2, <1>3, MinMax
<1> QED BY <1>2, <1>4 DEF R

(* The percentiles of every metric are where they should be among the      *)
(* values of the successful rows, and the mean between the extrema, for    *)
(* any number of rows.                                                     *)
THEOREM PercentilesBracketTheorem == Spec => []PercentilesBracket
<1>1. ReadInv /\ RowsInv => PercentilesBracket
  <2> SUFFICES ASSUME ReadInv, RowsInv, NEW r \in KnownRuns(db),
                      NEW mode \in SummaryModes, NEW metric \in Metric
               PROVE  LET d == ModeSummary(PageRows(r), mode).metrics[metric]
                          rows == MeasuredRows(r, mode, metric)
                          values == [s \in rows |-> Value(s, metric)]
                      IN  /\ d.count = Cardinality(rows)
                          /\ d.count > 0 =>
                               /\ Brackets(values, d.p50, 50)
                               /\ Brackets(values, d.p95, 95)
                               /\ Brackets(values, d.p99, 99)
                               /\ 100 * d.min <= d.p50 /\ d.p50 <= d.p95
                               /\ d.p95 <= d.p99 /\ d.p99 <= 100 * d.max
                               /\ d.count * d.min <= d.sum /\ d.sum <= d.count * d.max
    BY Zenon DEF PercentilesBracket, MeasuredRows
  <2> DEFINE d == ModeSummary(PageRows(r), mode).metrics[metric]
             rows == MeasuredRows(r, mode, metric)
             values == [s \in rows |-> Value(s, metric)]
  <2>1. /\ IsFiniteSet(rows) /\ values \in [rows -> Nat]
        /\ d.count = Cardinality(rows) /\ d.sum = SumFunction(values)
        /\ d.p50 = Percentile(values, 50, Absent)
        /\ d.p95 = Percentile(values, 95, Absent)
        /\ d.p99 = Percentile(values, 99, Absent)
        /\ rows # {} => d.min = Min(Range(values)) /\ d.max = Max(Range(values))
    <3>1. r \in Runs
      BY DEF KnownRuns
    <3> QED BY <3>1, MetricIs
  <2> HIDE DEF d, rows, values
  <2>2. CASE rows = {}
    <3>1. d.count = 0
      BY <2>1, <2>2, FS_EmptySet
    <3> QED BY <2>1, <3>1 DEF d, rows, values
  <2>3. CASE rows # {}
    <3>1. /\ d.min \in Nat /\ d.max \in Nat
          /\ \A x \in rows : d.min <= values[x] /\ values[x] <= d.max
      BY <2>1, <2>3, RangeBounds
    <3>2. /\ d.p50 \in Nat /\ Brackets(values, d.p50, 50)
          /\ \E x \in rows : 100 * values[x] <= d.p50
      BY <2>1, <2>3, PercentileBrackets
    <3>3. d.p95 \in Nat /\ Brackets(values, d.p95, 95)
      BY <2>1, <2>3, PercentileBrackets
    <3>4. /\ d.p99 \in Nat /\ Brackets(values, d.p99, 99)
          /\ \E x \in rows : d.p99 <= 100 * values[x]
      BY <2>1, <2>3, PercentileBrackets
    <3>5. d.p50 <= d.p95 /\ d.p95 <= d.p99
      <4>1. IsFiniteSet(rows) /\ values \in [rows -> Nat]
        BY <2>1
      <4>2. Percentile(values, 50, Absent) <= Percentile(values, 95, Absent)
        BY ONLY <2>3, <4>1, PercentileMonotone, SMTT(20)
      <4>3. Percentile(values, 95, Absent) <= Percentile(values, 99, Absent)
        BY ONLY <2>3, <4>1, PercentileMonotone, SMTT(20)
      <4> QED BY <2>1, <4>2, <4>3
    <3>6. 100 * d.min <= d.p50
      <4>1. PICK x \in rows : 100 * values[x] <= d.p50
        BY <3>2
      <4>2. d.min <= values[x] /\ values[x] \in Nat
        BY <2>1, <3>1
      <4> QED BY <3>1, <3>2, <4>1, <4>2
    <3>7. d.p99 <= 100 * d.max
      <4>1. PICK x \in rows : d.p99 <= 100 * values[x]
        BY <3>4
      <4>2. values[x] <= d.max /\ values[x] \in Nat
        BY <2>1, <3>1
      <4> QED BY <3>1, <3>4, <4>1, <4>2
    <3>8. d.count * d.min <= d.sum /\ d.sum <= d.count * d.max
      BY <2>1, <3>1, SumBounds
    <3> QED BY <2>1, <3>2, <3>3, <3>4, <3>5, <3>6, <3>7, <3>8 DEF d, rows, values
  <2> QED BY <2>2, <2>3
<1> QED BY <1>1, RowsInvariance, PTL

(* A comparison is shown for exactly the modes with a median on both       *)
(* sides, and its percentage never divides by zero, for any rows.          *)
THEOREM ComparisonDefinedTheorem == Spec => []ComparisonDefined
<1>1. ReadInv /\ RowsInv => ComparisonDefined
  <2> SUFFICES ASSUME ReadInv, RowsInv, NEW r \in KnownRuns(db),
                      NEW mode \in SummaryModes \ {"classical"}, NEW metric \in Metric,
                      NEW c, c = Comparison(PageRows(r), mode, metric)
               PROVE  LET measured(m) == ModeSummary(PageRows(r), m).metrics[metric].count > 0
                      IN  /\ c.delta # Absent <=> measured("classical") /\ measured(mode)
                          /\ c.of # Absent => c.delta # Absent /\ c.of > 0
                          /\ c.of = Absent /\ c.delta # Absent => c.delta >= 0
    BY DEF ComparisonDefined
  <2> DEFINE d(m) == ModeSummary(PageRows(r), m).metrics[metric]
  <2>1. ASSUME NEW m \in SummaryModes
        PROVE  /\ d(m).count > 0 => d(m).p50 \in Nat
               /\ ~(d(m).count > 0) => d(m).p50 = Absent
    <3> DEFINE rows == MeasuredRows(r, m, metric)
               values == [s \in rows |-> Value(s, metric)]
    <3>1. /\ IsFiniteSet(rows) /\ values \in [rows -> Nat]
          /\ d(m).count = Cardinality(rows) /\ d(m).p50 = Percentile(values, 50, Absent)
      <4>1. r \in Runs
        BY DEF KnownRuns
      <4> HIDE DEF rows
      <4> QED BY <4>1, MetricIs DEF rows
    <3>2. DOMAIN values = rows
      OBVIOUS
    <3> HIDE DEF rows, values, d
    <3>3. CASE rows = {}
      <4>1. Percentile(values, 50, Absent) = Absent
        BY <3>2, <3>3 DEF Percentile
      <4>2. d(m).count = 0
        BY <3>1, <3>3, FS_EmptySet
      <4> QED BY <3>1, <4>1, <4>2
    <3>4. CASE rows # {}
      <4>1. Percentile(values, 50, Absent) \in Nat
        BY <3>1, <3>4, PercentileBrackets
      <4>2. Cardinality(rows) \in Nat /\ Cardinality(rows) # 0
        BY <3>1, <3>4, FS_CardinalityType, FS_EmptySet
      <4> QED BY <3>1, <4>1, <4>2
    <3> QED BY <3>3, <3>4
  <2>2. c = Compare(d("classical").p50, d(mode).p50, Absent)
    BY DEF Comparison
  <2>3. "classical" \in SummaryModes /\ mode \in SummaryModes
    BY DEF SummaryModes
  <2> DEFINE a == d("classical").p50
             b == d(mode).p50
             measuredA == d("classical").count > 0
             measuredB == d(mode).count > 0
  <2>4. /\ (measuredA => a \in Nat) /\ (~measuredA => a = Absent)
        /\ (measuredB => b \in Nat) /\ (~measuredB => b = Absent)
    BY <2>1, <2>3
  <2>5. c = Compare(a, b, Absent)
    BY <2>2
  <2>6. Absent \notin Nat
    BY ReadAssumption
  <2> HIDE DEF a, b, measuredA, measuredB
  <2>7. ASSUME measuredA, measuredB
        PROVE  /\ c.delta # Absent
               /\ c.of # Absent => c.of > 0
               /\ c.of = Absent => c.delta >= 0
    <3>1. a \in Nat /\ b \in Nat /\ a # Absent /\ b # Absent
      BY <2>4, <2>6, <2>7
    <3>2. c.delta = b - a /\ c.of = IF a = 0 THEN Absent ELSE a
      BY <2>5, <3>1 DEF Compare
    <3>3. b - a # Absent
      BY <3>1, ReadAssumption
    <3> QED BY <3>1, <3>2, <3>3
  <2>8. ASSUME ~measuredA \/ ~measuredB PROVE c.delta = Absent /\ c.of = Absent
    BY <2>4, <2>5, <2>8 DEF Compare
  <2>9. /\ c.delta # Absent <=> measuredA /\ measuredB
        /\ c.of # Absent => c.delta # Absent /\ c.of > 0
        /\ c.of = Absent /\ c.delta # Absent => c.delta >= 0
    BY <2>7, <2>8, Zenon
  <2> QED BY <2>9 DEF measuredA, measuredB
<1> QED BY <1>1, RowsInvariance, PTL

CountIs ==
  \A r \in Runs, mode \in SummaryModes, metric \in Metric :
    /\ ModeSummary(PageRows(r), mode).metrics[metric].count
         = Cardinality(MeasuredRows(r, mode, metric))
    /\ IsFiniteSet(MeasuredRows(r, mode, metric))

LEMMA MetricCounts == ReadInv /\ RowsInv => CountIs
<1> SUFFICES ASSUME ReadInv, RowsInv,
                    NEW r \in Runs, NEW mode \in SummaryModes, NEW metric \in Metric
             PROVE  /\ ModeSummary(PageRows(r), mode).metrics[metric].count
                         = Cardinality(MeasuredRows(r, mode, metric))
                    /\ IsFiniteSet(MeasuredRows(r, mode, metric))
  BY DEF CountIs
<1> DEFINE d == ModeSummary(PageRows(r), mode).metrics[metric]
           rows == MeasuredRows(r, mode, metric)
           values == [s \in rows |-> Value(s, metric)]
<1>1. IsFiniteSet(rows) /\ d.count = Cardinality(rows)
  <2>1. values = [s \in rows |-> Value(s, metric)]
    OBVIOUS
  <2> HIDE DEF d, rows, values
  <2> QED BY <2>1, MetricIs DEF d, rows
<1> QED BY <1>1

(* A probe whose client has reported a failure is in no statistic, because *)
(* its row has the client's verdict whichever half came last; storing one  *)
(* of its halves therefore adds to none, for any rows.                     *)
THEOREM FailureMeasuresNothingTheorem == Spec => FailureMeasuresNothing
<1> DEFINE Kept ==
      \A s \in Samples, r \in Runs, mode \in SummaryModes, metric \in Metric :
        db'.rows[s] # db.rows[s]
          /\ db'.rows[s].client # Absent /\ ~db'.rows[s].client.ok
          /\ db'.rows[s].run = r /\ db'.rows[s].mode = mode =>
          ModeSummary(PageRows(r), mode)'.metrics[metric].count
            <= ModeSummary(PageRows(r), mode).metrics[metric].count
<1>1. (ReadInv /\ RowsInv)' => CountIs'
  BY MetricCounts, PTL
<1>2. /\ ReadInv /\ RowsInv /\ (ReadInv /\ RowsInv)' /\ [Next]_vars => [Kept]_vars
  <2> SUFFICES ASSUME ReadInv, RowsInv, RowsInv', CountIs, CountIs', Next,
                      NEW s \in Samples, NEW r \in Runs,
                      NEW mode \in SummaryModes, NEW metric \in Metric,
                      db'.rows[s] # db.rows[s],
                      db'.rows[s].client # Absent, ~db'.rows[s].client.ok
               PROVE  ModeSummary(PageRows(r), mode)'.metrics[metric].count
                        <= ModeSummary(PageRows(r), mode).metrics[metric].count
    BY <1>1, MetricCounts
  <2>1. \A x \in Samples \ {s} : db'.rows[x] = db.rows[x]
    <3>1. PICK q \in Posts : StorePost(q)
      BY DEF Next, Tick
    <3>2. q \in Post /\ db \in Database /\ db' = Apply(db, q)
      BY <3>1, ReadAssumption DEF StorePost, ReadInv, TypeOK
    <3>3. CASE IsMeasurement(q)
      BY <3>2, <3>3, ApplyUpsert
    <3>4. CASE ~IsMeasurement(q)
      <4>1. db'.rows = db.rows
        BY <3>2, <3>4, ApplyRows, PostKinds DEF IsMeasurement
      <4> QED BY <4>1
    <3> QED BY <3>3, <3>4
  <2>2. MeasuredRows(r, mode, metric)' \subseteq MeasuredRows(r, mode, metric)
    <3> SUFFICES ASSUME NEW x, x \in MeasuredRows(r, mode, metric)'
                 PROVE  x \in MeasuredRows(r, mode, metric)
      OBVIOUS
    <3>1. /\ x \in Samples /\ db'.rows[x] # Absent /\ db'.rows[x].run = r
          /\ db'.rows[x].mode = mode /\ db'.rows[x].success
          /\ Value(x, metric)' # Absent
      BY DEF MeasuredRows, RowsOf, Rows
    <3>2. x # s
      <4>1. ASSUME x = s PROVE db'.rows[s].success = db'.rows[s].client.ok
        BY <3>1, <4>1 DEF RowsInv, Rows
      <4> QED BY <3>1, <4>1
    <3>3. db'.rows[x] = db.rows[x]
      BY <2>1, <3>1, <3>2
    <3>4. Value(x, metric)' = Value(x, metric)
      BY <3>3 DEF Value
    <3> QED BY <3>1, <3>3, <3>4 DEF MeasuredRows, RowsOf, Rows
  <2>3. /\ ModeSummary(PageRows(r), mode)'.metrics[metric].count
             = Cardinality(MeasuredRows(r, mode, metric)')
        /\ ModeSummary(PageRows(r), mode).metrics[metric].count
             = Cardinality(MeasuredRows(r, mode, metric))
        /\ IsFiniteSet(MeasuredRows(r, mode, metric))
    BY DEF CountIs
  <2>4. ASSUME NEW a, NEW b, IsFiniteSet(b), a \subseteq b PROVE Cardinality(a) <= Cardinality(b)
    BY <2>4, FS_Subset
  <2> QED BY <2>2, <2>3, <2>4
<1> QED BY <1>2, RowsInvariance, PTL DEF Spec, FailureMeasuresNothing
=============================================================================
