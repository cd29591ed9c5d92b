--------------------------- MODULE InsightsProofs ---------------------------
(***************************************************************************)
(* Machine-checked facts about the insight algorithms, for every history   *)
(* of stored events and merged persons and every question: retention,      *)
(* lifecycle, stickiness, trends, paths and web analytics answer what      *)
(* their definitions say, although only some days of files are leased,     *)
(* buckets are computed in SQL or folded into masks, windows are split     *)
(* into islands and granules, sessions are numbered by their gaps, and     *)
(* persons are read partition by partition.                                *)
(***************************************************************************)
EXTENDS MCInsights, SequenceTheorems, FiniteSetTheorems, NaturalFacts, TLAPS

-----------------------------------------------------------------------------
(* Recursion, extrema and initial segments.                                 *)

\* A recursion over 0..N by the function G.
Recursive(h, N, X, b, G) ==
    h \in [0..N -> X] /\ h[0] = b /\ \A k \in 1..N : h[k] = G[<<h[k - 1], k>>]

\* It has a solution.
LEMMA Recursion ==
    ASSUME NEW N \in Nat, NEW X, NEW b \in X, NEW G \in [X \X (1..N) -> X]
    PROVE  \E h : Recursive(h, N, X, b, G)
<1> DEFINE Solves(h, n) == h \in [0..n -> X] /\ h[0] = b /\ \A k \in 1..n : h[k] = G[<<h[k - 1], k>>]
           Exists(n) == \E h : Solves(h, n)
           T == {n \in Nat : n <= N /\ ~Exists(n)}
<1> SUFFICES ASSUME T # {} PROVE FALSE
  <2> HIDE DEF Solves
  <2>1. Exists(N)
    <3> HIDE DEF Exists
    <3> QED OBVIOUS
  <2> QED BY <2>1 DEF Solves, Recursive
<1>1. PICK n \in T : \A m \in T : n <= m
  <2>1. T \subseteq Nat
    OBVIOUS
  <2> HIDE DEF T
  <2> QED BY <2>1, LeastNatural
<1>2. n \in Nat /\ n <= N /\ ~Exists(n)
  <2> HIDE DEF Exists
  <2> QED BY <1>1
<1>3. n # 0
  <2>1. Solves([k \in 0..0 |-> b], 0)
    OBVIOUS
  <2> HIDE DEF Solves
  <2> QED BY <1>2, <2>1
<1>4. Exists(n - 1)
  <2> HIDE DEF Exists
  <2> QED BY <1>1, <1>2, <1>3
<1>5. PICK h : Solves(h, n - 1)
  BY <1>4
<1> DEFINE e == [k \in 0..n |-> IF k = n THEN G[<<h[n - 1], n>>] ELSE h[k]]
<1>6. n - 1 \in 0..(n - 1) /\ n \in 1..N /\ h[n - 1] \in X
  BY <1>2, <1>3, <1>5
<1>7. G[<<h[n - 1], n>>] \in X
  BY <1>6
<1>8. e \in [0..n -> X] /\ e[0] = b
  BY <1>2, <1>3, <1>5, <1>7
<1>9. ASSUME NEW k \in 1..n PROVE e[k] = G[<<e[k - 1], k>>]
  <2>1. CASE k = n
    BY <1>2, <1>3, <2>1
  <2>2. CASE k # n
    <3>1. k \in 1..(n - 1) /\ k - 1 \in 0..(n - 1) /\ k - 1 # n
      BY <1>2, <2>2
    <3> QED BY <1>5, <2>2, <3>1
  <2> QED BY <2>1, <2>2
<1>10. Solves(e, n)
  <2> HIDE DEF e
  <2> QED BY <1>8, <1>9
<1> HIDE DEF Solves
<1> QED BY <1>2, <1>10

\* Max and Min name the one extreme member.
LEMMA MaxIs ==
    ASSUME NEW S, S \subseteq Int, NEW m \in S, \A y \in S : y <= m
    PROVE  Max(S) = m
<1>1. \A x \in S : (\A y \in S : x >= y) <=> x = m
  OBVIOUS
<1> QED BY <1>1 DEF Max

\* The least member is Min.
LEMMA MinIs ==
    ASSUME NEW S, S \subseteq Int, NEW m \in S, \A y \in S : m <= y
    PROVE  Min(S) = m
<1>1. \A x \in S : (\A y \in S : x <= y) <=> x = m
  OBVIOUS
<1> QED BY <1>1 DEF Min

\* A finite set of integers that is not empty has a least and a greatest member.
LEMMA FiniteMin ==
    ASSUME NEW S, S \subseteq Int, IsFiniteSet(S), S # {}
    PROVE  Min(S) \in S /\ \A y \in S : Min(S) <= y
<1> DEFINE T == {n \in Nat : \E U \in SUBSET S : U # {} /\ Cardinality(U) = n
                                /\ ~\E m \in U : \A y \in U : m <= y}
<1>1. \A U \in SUBSET S : IsFiniteSet(U) /\ Cardinality(U) \in Nat
  BY FS_Subset, FS_CardinalityType
<1>2. T = {}
  <2> SUFFICES ASSUME T # {} PROVE FALSE
    OBVIOUS
  <2>1. PICK n \in T : \A k \in T : n <= k
    <3>1. T \subseteq Nat
      OBVIOUS
    <3> HIDE DEF T
    <3> QED BY <3>1, LeastNatural
  <2>2. PICK U \in SUBSET S : U # {} /\ Cardinality(U) = n /\ ~\E m \in U : \A y \in U : m <= y
    BY <2>1
  <2>3. PICK u \in U : TRUE
    BY <2>2
  <2> DEFINE V == U \ {u}
  <2>4. V \in SUBSET S /\ IsFiniteSet(U)
    BY <1>1
  <2>5. Cardinality(V) = Cardinality(U) - 1 /\ n \in Nat
    BY <1>1, <2>2, <2>3, <2>4, FS_RemoveElement
  <2>6. V # {}
    <3> SUFFICES ASSUME V = {} PROVE FALSE
      OBVIOUS
    <3>1. U = {u}
      BY <2>3
    <3> QED BY <2>2, <3>1
  <2>7. Cardinality(V) \notin T
    <3> HIDE DEF T, V
    <3> QED BY <1>1, <2>1, <2>2, <2>4, <2>5
  <2>8. PICK m \in V : \A y \in V : m <= y
    <3> HIDE DEF V
    <3> QED BY <1>1, <2>4, <2>6, <2>7
  <2>9. CASE m <= u
    BY <2>2, <2>8, <2>9
  <2>10. CASE ~(m <= u)
    <3>1. \A y \in U : u <= y
      BY <2>3, <2>8, <2>10
    <3> QED BY <2>2, <2>3, <3>1
  <2> QED BY <2>9, <2>10
<1>3. Cardinality(S) \notin T /\ S \in SUBSET S
  <2> HIDE DEF T
  <2> QED BY <1>2
<1>4. PICK m \in S : \A y \in S : m <= y
  BY <1>1, <1>3
<1>5. Min(S) = m
  BY <1>4, MinIs
<1> QED BY <1>4, <1>5

\* A finite set of integers that is not empty has a greatest member.
LEMMA FiniteMax ==
    ASSUME NEW S, S \subseteq Int, IsFiniteSet(S), S # {}
    PROVE  Max(S) \in S /\ \A y \in S : y <= Max(S)
<1> DEFINE N == {-x : x \in S}
<1>1. IsFiniteSet(N)
  <2>1. [x \in S |-> -x] \in Surjection(S, N)
    BY DEF Surjection
  <2> QED BY <2>1, FS_Surjection
<1>2. N \subseteq Int /\ N # {}
  OBVIOUS
<1>3. Min(N) \in N /\ \A y \in N : Min(N) <= y
  <2> HIDE DEF N
  <2> QED BY <1>1, <1>2, FiniteMin
<1>4. PICK m \in S : Min(N) = -m
  BY <1>3
<1>5. ASSUME NEW y \in S PROVE y <= m
  <2>1. -y \in N
    OBVIOUS
  <2> HIDE DEF N
  <2>2. -m <= -y
    BY <1>3, <1>4, <2>1
  <2> QED BY <2>2
<1>6. Max(S) = m
  BY <1>5, MaxIs
<1> QED BY <1>5, <1>6

\* A set of naturals that holds everything below its members.
LEMMA Segment ==
    ASSUME NEW M \in Nat, NEW S, S \subseteq 0..M, \A k \in S : \A j \in 0..k : j \in S
    PROVE  Cardinality(S) \in Nat /\ IsFiniteSet(S) /\ S = 0..(Cardinality(S) - 1)
<1>1. CASE S = {}
  BY <1>1, FS_EmptySet
<1>2. CASE S # {}
  <2>1. PICK n \in S : \A k \in S : k <= n
    BY <1>2, GreatestNatural
  <2>2. n \in Nat /\ \A k \in S : k \in Nat /\ k <= n
    BY <2>1
  <2>3. S = 0..n
    <3>1. \A j \in 0..n : j \in S
      BY <2>1
    <3>2. \A k \in S : k \in 0..n
      BY <2>2
    <3> QED BY <3>1, <3>2
  <2>4. IsFiniteSet(0..n) /\ Cardinality(0..n) = n - 0 + 1
    BY <2>2, FS_Interval
  <2> QED BY <2>2, <2>3, <2>4
<1> QED BY <1>1, <1>2

-----------------------------------------------------------------------------
(* The calendar.                                                            *)

\* The months that hold an instant, and the one that follows.
LEMMA Months ==
    ASSUME NEW t \in Int
    PROVE  /\ \A m \in MonthStarts : m <= t /\ (\A n \in MonthStarts : n <= t => n <= m)
                                     => Max({n \in MonthStarts : n <= t}) = m
           /\ t >= -32 => \E m \in MonthStarts : m <= t /\ \A n \in MonthStarts : n <= t => n <= m
           /\ LET n == next_bucket(t, "month") IN
              /\ n \in Int /\ n \in MonthStarts \cup {MAX_US} /\ (n > t \/ n = MAX_US)
              /\ \A m \in MonthStarts : m > t => n <= m
           /\ LET p == previous_bucket(t, "month") IN p \in Int /\ p >= MIN_US /\ (t >= MIN_US => p <= t)
<1>1. \A m \in MonthStarts : m \in Int
  BY DEF MonthStarts
<1>2. ASSUME NEW m \in MonthStarts, m <= t, \A n \in MonthStarts : n <= t => n <= m
      PROVE  Max({n \in MonthStarts : n <= t}) = m
  <2> DEFINE S == {n \in MonthStarts : n <= t}
  <2>1. S \subseteq Int /\ m \in S /\ \A n \in S : n <= m
    BY <1>1, <1>2
  <2> HIDE DEF S
  <2>2. Max(S) = m
    BY <2>1, MaxIs
  <2> QED BY <2>2 DEF S
<1>3. ASSUME t >= -32 PROVE \E m \in MonthStarts : m <= t /\ \A n \in MonthStarts : n <= t => n <= m
  <2>1. CASE t < -26 BY <1>3, <2>1 DEF MonthStarts
  <2>2. CASE t >= -26 /\ t < -20 BY <2>2 DEF MonthStarts
  <2>3. CASE t >= -20 /\ t < -14 BY <2>3 DEF MonthStarts
  <2>4. CASE t >= -14 /\ t < -8 BY <2>4 DEF MonthStarts
  <2>5. CASE t >= -8 /\ t < -2 BY <2>5 DEF MonthStarts
  <2>6. CASE t >= -2 /\ t < 6 BY <2>6 DEF MonthStarts
  <2>7. CASE t >= 6 /\ t < 12 BY <2>7 DEF MonthStarts
  <2>8. CASE t >= 12 BY <2>8 DEF MonthStarts
  <2> QED BY <2>1, <2>2, <2>3, <2>4, <2>5, <2>6, <2>7, <2>8
<1>4. LET n == next_bucket(t, "month") IN
      /\ n \in Int /\ n \in MonthStarts \cup {MAX_US} /\ (n > t \/ n = MAX_US)
      /\ \A m \in MonthStarts : m > t => n <= m
  <2> DEFINE S == {m \in MonthStarts : m > t} \cup {MAX_US}
  <2>1. next_bucket(t, "month") = Min(S)
    BY DEF next_bucket
  <2>2. S \subseteq Int /\ S # {}
    BY <1>1 DEF MAX_US
  <2>3. IsFiniteSet(S)
    <3>1. IsFiniteSet(MIN_US..MAX_US)
      <4>1. MIN_US \in Int /\ MAX_US \in Int
        BY DEF MIN_US, MAX_US
      <4> QED BY <4>1, FS_Interval
    <3>2. S \in SUBSET (MIN_US..MAX_US)
      BY DEF MIN_US, MAX_US, MonthStarts
    <3> QED BY <3>1, <3>2, FS_Subset
  <2>4. \A m \in MonthStarts : m > t => m \in S
    OBVIOUS
  <2>5. \A x \in S : x \in MonthStarts \cup {MAX_US} /\ (x > t \/ x = MAX_US)
    OBVIOUS
  <2> HIDE DEF S
  <2>6. Min(S) \in S /\ \A y \in S : Min(S) <= y
    BY <2>2, <2>3, FiniteMin
  <2> QED BY <2>1, <2>2, <2>4, <2>5, <2>6
<1>5. LET p == previous_bucket(t, "month") IN p \in Int /\ p >= MIN_US /\ (t >= MIN_US => p <= t)
  <2> DEFINE S == {m \in MonthStarts : m < t} \cup {MIN_US}
  <2>1. previous_bucket(t, "month") = Max(S)
    BY DEF previous_bucket
  <2>2. S \subseteq Int /\ S # {}
    BY <1>1 DEF MIN_US
  <2>3. IsFiniteSet(S)
    <3>1. IsFiniteSet(MIN_US..MAX_US)
      <4>1. MIN_US \in Int /\ MAX_US \in Int
        BY DEF MIN_US, MAX_US
      <4> QED BY <4>1, FS_Interval
    <3>2. S \in SUBSET (MIN_US..MAX_US)
      BY DEF MIN_US, MAX_US, MonthStarts
    <3> QED BY <3>1, <3>2, FS_Subset
  <2>4. \A x \in S : x >= MIN_US /\ (t >= MIN_US => x <= t)
    BY <1>1 DEF MIN_US, MonthStarts
  <2> HIDE DEF S
  <2>5. Max(S) \in S
    BY <2>2, <2>3, FiniteMax
  <2> QED BY <2>1, <2>2, <2>4, <2>5
<1> QED BY <1>2, <1>3, <1>4, <1>5

\* A bucket start: where a bucket of the interval begins.
Start(s, i) ==
    CASE i = "hour" -> s \in Int
      [] i = "day" -> s \in Int /\ s % 2 = 0
      [] i = "week" -> s \in Int /\ (s + 2) % 4 = 0
      [] i = "month" -> s \in MonthStarts

\* The bucket of an instant: the start at or before it whose next is after it.
Holds(s, t, i) == Start(s, i) /\ s <= t /\ t < next_bucket(s, i)

\* The next bucket begins later, is a start again before the calendar ends, and no
\* start lies between.
LEMMA NextBucket ==
    ASSUME NEW i \in Intervals, NEW s, Start(s, i)
    PROVE  /\ s \in Int /\ next_bucket(s, i) \in Int
           /\ s < MAX_US => next_bucket(s, i) > s
           /\ next_bucket(s, i) < MAX_US => Start(next_bucket(s, i), i)
           /\ \A u : Start(u, i) /\ u > s => u >= next_bucket(s, i)
<1>1. CASE i = "month"
  <2>1. s \in Int /\ \A u : Start(u, i) => u \in MonthStarts
    BY <1>1 DEF Start, MonthStarts
  <2>2. MAX_US \in Int
    BY DEF MAX_US
  <2>3. \A m \in MonthStarts : m \in Int
    BY DEF MonthStarts
  <2>4. \A u \in MonthStarts : Start(u, i)
    BY <1>1 DEF Start
  <2> QED BY <1>1, <2>1, <2>2, <2>3, <2>4, Months
<1>2. CASE i = "hour"
  BY <1>2 DEF Start, next_bucket, HOUR_US, MAX_US
<1>3. CASE i = "day"
  BY <1>3 DEF Start, next_bucket, DAY_US, HOUR_US, MAX_US
<1>4. CASE i = "week"
  BY <1>4 DEF Start, next_bucket, WEEK_US, DAY_US, HOUR_US, MAX_US
<1> QED BY <1>1, <1>2, <1>3, <1>4 DEF Intervals

\* Of one bucket only.
LEMMA OneBucket ==
    ASSUME NEW i \in Intervals, NEW t \in Int, NEW s, NEW u, Holds(s, t, i), Holds(u, t, i)
    PROVE  s = u
<1>1. s \in Int /\ u \in Int /\ (u > s => u >= next_bucket(s, i)) /\ (s > u => s >= next_bucket(u, i))
  BY NextBucket DEF Holds
<1>2. next_bucket(s, i) \in Int /\ next_bucket(u, i) \in Int
  BY NextBucket DEF Holds
<1> QED BY <1>1, <1>2 DEF Holds

\* trunc, the SQL and the oracle find the bucket.
LEMMA Truncates ==
    ASSUME NEW i \in Intervals, NEW t \in Instants
    PROVE  /\ Holds(trunc(t, i), t, i)
           /\ bucket_expr(i, t) = trunc(t, i) /\ bucket_of(t, i) = trunc(t, i)
<1>1. t \in Int /\ -32 <= t /\ t < MAX_US
  BY DEF Instants, MAX_US
<1>2. Holds(trunc(t, i), t, i) /\ bucket_expr(i, t) = trunc(t, i)
  <2>1. CASE i = "month"
    <3>1. PICK m \in MonthStarts : m <= t /\ \A n \in MonthStarts : n <= t => n <= m
      BY <1>1, Months
    <3>2. Max({n \in MonthStarts : n <= t}) = m
      BY <1>1, <3>1, Months
    <3>3. trunc(t, i) = m /\ bucket_expr(i, t) = m
      BY <2>1, <3>2 DEF trunc, bucket_expr
    <3>4. m \in Int
      BY DEF MonthStarts
    <3>5. t < next_bucket(m, i)
      <4>1. next_bucket(m, i) \in MonthStarts \cup {MAX_US} /\ next_bucket(m, i) > m
        BY <1>1, <2>1, <3>1, <3>4, Months DEF MAX_US
      <4>2. MAX_US \in Int /\ \A n \in MonthStarts : n \in Int
        BY DEF MAX_US, MonthStarts
      <4> DEFINE n == next_bucket(m, i)
      <4>3. n \in MonthStarts \cup {MAX_US} /\ n > m /\ n \in Int
        BY <2>1, <4>1, <4>2
      <4> HIDE DEF n
      <4>4. SUFFICES ASSUME n <= t PROVE FALSE
        BY <1>1, <4>3 DEF n
      <4>5. n \in MonthStarts
        BY <1>1, <4>2, <4>3, <4>4
      <4> QED BY <3>1, <3>4, <4>3, <4>4, <4>5
    <3> QED BY <2>1, <3>1, <3>3, <3>5 DEF Holds, Start
  <2>2. CASE i = "hour"
    BY <1>1, <2>2 DEF Holds, Start, next_bucket, trunc, bucket_expr, floor_to, floor_expr, SqlRem, HOUR_US
  <2>3. CASE i = "day"
    BY <1>1, <2>3
    DEF Holds, Start, next_bucket, trunc, bucket_expr, floor_to, floor_expr, SqlRem, DAY_US, HOUR_US
  <2>4. CASE i = "week"
    BY <1>1, <2>4
    DEF Holds, Start, next_bucket, trunc, bucket_expr, floor_to, floor_expr, SqlRem,
        WEEK_ORIGIN_US, WEEK_US, DAY_US, HOUR_US
  <2> QED BY <2>1, <2>2, <2>3, <2>4 DEF Intervals
<1>3. \A s \in OracleStarts[i] : Start(s, i)
  <2>1. CASE i = "month"
    BY <2>1 DEF OracleStarts, Start, Intervals
  <2>2. CASE i = "hour"
    BY <2>2 DEF OracleStarts, Start, Intervals, MIN_US, MAX_US
  <2>3. CASE i = "day"
    BY <2>3 DEF OracleStarts, Start, Intervals, DAY_US, HOUR_US
  <2>4. CASE i = "week"
    BY <2>4 DEF OracleStarts, Start, Intervals, WEEK_ORIGIN_US, WEEK_US, DAY_US, HOUR_US
  <2> QED BY <2>1, <2>2, <2>3, <2>4 DEF Intervals
<1>4. trunc(t, i) \in OracleStarts[i]
  <2> DEFINE s == trunc(t, i)
  <2>1. Start(s, i) /\ s \in Int /\ s <= t /\ t < next_bucket(s, i)
    BY <1>2, NextBucket DEF Holds
  <2> SUFFICES s \in OracleStarts[i]
    OBVIOUS
  <2> HIDE DEF s
  <2>2. CASE i = "month"
    BY <2>1, <2>2 DEF OracleStarts, Start, Intervals
  <2>3. CASE i = "hour"
    BY <1>1, <2>1, <2>3 DEF OracleStarts, next_bucket, Intervals, MIN_US, MAX_US, HOUR_US
  <2>4. CASE i = "day"
    <3>1. s % 2 = 0 /\ s <= t /\ t < s + 2
      BY <2>1, <2>4 DEF Start, next_bucket, DAY_US, HOUR_US
    <3>2. s \div 2 \in -20..15 /\ s = (s \div 2) * DAY_US
      BY <1>1, <2>1, <3>1 DEF DAY_US, HOUR_US, MAX_US
    <3> QED BY <2>4, <3>2 DEF OracleStarts, Intervals
  <2>5. CASE i = "week"
    <3>1. (s + 2) % 4 = 0 /\ s <= t /\ t < s + 4
      BY <2>1, <2>5 DEF Start, next_bucket, WEEK_US, DAY_US, HOUR_US
    <3>2. (s + 2) \div 4 \in -10..7 /\ s = WEEK_ORIGIN_US + ((s + 2) \div 4) * WEEK_US
      BY <1>1, <2>1, <3>1 DEF WEEK_US, WEEK_ORIGIN_US, DAY_US, HOUR_US, MAX_US
    <3> QED BY <2>5, <3>2 DEF OracleStarts, Intervals
  <2> QED BY <2>2, <2>3, <2>4, <2>5 DEF Intervals
<1>5. \A s \in OracleStarts[i] : s <= t /\ t < next_bucket(s, i) <=> s = trunc(t, i)
  <2>1. ASSUME NEW s \in OracleStarts[i], s <= t, t < next_bucket(s, i) PROVE s = trunc(t, i)
    BY <1>1, <1>2, <1>3, <2>1, OneBucket DEF Holds
  <2> QED BY <1>2, <2>1 DEF Holds
<1>6. bucket_of(t, i) = trunc(t, i)
  BY <1>4, <1>5 DEF bucket_of
<1> QED BY <1>2, <1>6

\* The previous bucket is not later, and a month never leaves the calendar.
LEMMA PreviousBucket ==
    ASSUME NEW i \in Intervals, NEW s \in Int
    PROVE  /\ previous_bucket(s, i) \in Int
           /\ i = "month" => previous_bucket(s, i) >= MIN_US
           /\ i # "month" \/ s >= MIN_US => previous_bucket(s, i) <= s
<1>1. CASE i = "month"
  BY <1>1, Months
<1>2. CASE i # "month"
  BY <1>2 DEF previous_bucket, Intervals, WEEK_US, DAY_US, HOUR_US
<1> QED BY <1>1, <1>2

\* A sequence each of whose members is below the next one rises.
LEMMA Rises ==
    ASSUME NEW n \in Nat, NEW f, \A k \in 1..n : f[k] \in Int, \A k \in 1..(n - 1) : f[k] < f[k + 1]
    PROVE  \A j, k \in 1..n : j < k => f[j] < f[k]
<1> DEFINE T == {k \in 1..n : \E j \in 1..n : j < k /\ ~(f[j] < f[k])}
<1> SUFFICES ASSUME T # {} PROVE FALSE
  OBVIOUS
<1>1. PICK k \in T : \A m \in T : k <= m
  <2>1. T \subseteq Nat
    OBVIOUS
  <2> HIDE DEF T
  <2> QED BY <2>1, LeastNatural
<1>2. PICK j \in 1..n : j < k /\ ~(f[j] < f[k])
  BY <1>1
<1>3. k \in 1..n /\ k - 1 \in 1..(n - 1) /\ f[k - 1] < f[k]
  <2>1. k \in 1..n /\ k - 1 \in 1..(n - 1)
    BY <1>1, <1>2
  <2>2. f[k - 1] < f[(k - 1) + 1] /\ (k - 1) + 1 = k
    BY <2>1
  <2> QED BY <2>1, <2>2
<1>4. k - 1 \notin T
  <2> HIDE DEF T
  <2> QED BY <1>1, <1>3
<1>5. j = k - 1 \/ f[j] < f[k - 1]
  <2>1. k - 1 \in 1..n
    BY <1>3
  <2>2. j < k - 1 => f[j] < f[k - 1]
    BY <1>4, <2>1
  <2> QED BY <1>2, <1>3, <2>2
<1> QED BY <1>2, <1>3, <1>5

\* A range within the calendar.
RangeOK(r) ==
    r.interval \in Intervals /\ r.from \in Instants /\ r.to \in Int /\ r.from < r.to /\ r.to <= MAX_US

\* The next bucket of any instant.
LEMMA NextIsInt ==
    ASSUME NEW i \in Intervals, NEW s \in Int
    PROVE  next_bucket(s, i) \in Int /\ (s >= MAX_US => next_bucket(s, i) >= MAX_US)
<1>1. CASE i = "month"
  <2> DEFINE n == next_bucket(s, "month")
  <2>1. n \in Int /\ (n > s \/ n = MAX_US)
    BY Months
  <2> HIDE DEF n
  <2>2. n \in Int /\ (s >= MAX_US => n >= MAX_US)
    BY <2>1 DEF MAX_US
  <2> QED BY <1>1, <2>2 DEF n
<1>2. CASE i # "month"
  BY <1>2 DEF next_bucket, Intervals, WEEK_US, DAY_US, HOUR_US, MAX_US
<1> QED BY <1>1, <1>2

\* The starts from the bucket that holds the range's beginning on.
LEMMA StartsOf ==
    ASSUME NEW r, RangeOK(r)
    PROVE  LET at == bucket_starts(r) IN
           /\ at[0] = trunc(r.from, r.interval)
           /\ \A k \in 1..MaxBuckets : at[k] = next_bucket(at[k - 1], r.interval)
           /\ \A k \in 0..MaxBuckets : at[k] \in Int /\ (at[k] < MAX_US => Start(at[k], r.interval))
<1> DEFINE i == r.interval
           b == trunc(r.from, i)
           M == MaxBuckets
           G == [p \in Int \X (1..M) |-> next_bucket(p[1], i)]
           Row(f) == [k \in 0..M |-> IF k = 0 THEN b ELSE next_bucket(f[k - 1], i)]
           at == CHOOSE f : f = Row(f)
<1>1. i \in Intervals /\ M \in Nat /\ MAX_US \in Int
  BY SourceAssumption DEF RangeOK, MAX_US
<1>2. b \in Int /\ Start(b, i)
  <2>1. r.from \in Instants /\ Start(b, i)
    BY <1>1, Truncates DEF RangeOK, Holds
  <2> QED BY <1>1, <2>1, NextBucket
<1>3. bucket_starts(r) = at
  BY DEF bucket_starts
<1>4. G \in [Int \X (1..M) -> Int] /\ \A x \in Int, k \in 1..M : G[<<x, k>>] = next_bucket(x, i)
  <2>1. \A x \in Int : next_bucket(x, i) \in Int
    BY <1>1, NextIsInt
  <2> QED BY <2>1
<1> HIDE DEF G
<1>5. PICK h : h \in [0..M -> Int] /\ h[0] = b /\ \A k \in 1..M : h[k] = G[<<h[k - 1], k>>]
  <2>1. M \in Nat /\ b \in Int /\ G \in [Int \X (1..M) -> Int]
    BY <1>1, <1>2, <1>4
  <2> HIDE DEF b, M, at, Row, i
  <2>2. \E h : Recursive(h, M, Int, b, G)
    BY <2>1, Recursion
  <2> QED BY <2>2 DEF Recursive
<1>6. h = Row(h)
  <2>1. ASSUME NEW k \in 0..M, k # 0 PROVE h[k] = next_bucket(h[k - 1], i)
    <3>1. k \in 1..M /\ k - 1 \in 0..M
      BY <1>1, <2>1
    <3>2. h[k - 1] \in Int
      BY <1>5, <3>1
    <3> QED BY <1>4, <1>5, <3>1, <3>2
  <2>2. h = [k \in 0..M |-> h[k]]
    BY <1>5
  <2> HIDE DEF b, M, i
  <2> QED BY <1>5, <2>1, <2>2
<1>7. at = Row(at)
  <2> HIDE DEF Row
  <2> QED BY <1>6
<1>8. at[0] = b
  <2> HIDE DEF at, b
  <2> QED BY <1>1, <1>7
<1>9. \A k \in 1..M : at[k] = next_bucket(at[k - 1], i)
  <2> HIDE DEF at, b
  <2> QED BY <1>1, <1>7
<1> HIDE DEF at, b
<1>10. \A k \in 0..M : at[k] \in Int /\ (at[k] < MAX_US => Start(at[k], i))
  <2> DEFINE T == {k \in 0..M : ~(at[k] \in Int /\ (at[k] < MAX_US => Start(at[k], i)))}
  <2> SUFFICES ASSUME T # {} PROVE FALSE
    OBVIOUS
  <2>1. PICK k \in T : \A m \in T : k <= m
    <3>1. T \subseteq Nat
      OBVIOUS
    <3> HIDE DEF T
    <3> QED BY <3>1, LeastNatural
  <2>2. k # 0
    BY <1>2, <1>8, <2>1
  <2>3. k \in 1..M /\ k - 1 \in 0..M
    BY <1>1, <2>1, <2>2
  <2>4. k - 1 \notin T
    <3> HIDE DEF T
    <3> QED BY <2>1, <2>3
  <2>5. at[k - 1] \in Int /\ (at[k - 1] < MAX_US => Start(at[k - 1], i))
    BY <2>3, <2>4
  <2>6. at[k] = next_bucket(at[k - 1], i)
    BY <1>9, <2>3
  <2>7. at[k] \in Int /\ (at[k] < MAX_US => Start(at[k], i))
    <3>1. CASE at[k - 1] < MAX_US
      BY <1>1, <2>5, <2>6, <3>1, NextBucket
    <3>2. CASE ~(at[k - 1] < MAX_US)
      <4>1. at[k] \in Int /\ at[k] >= MAX_US
        <5>1. at[k - 1] \in Int /\ at[k - 1] >= MAX_US
          BY <1>1, <2>5, <3>2
        <5> HIDE DEF i
        <5> QED BY <1>1, <2>6, <5>1, NextIsInt
      <4> QED BY <1>1, <4>1
    <3> QED BY <3>1, <3>2
  <2> QED BY <2>1, <2>7
<1> HIDE DEF Row
<1> QED BY <1>3, <1>8, <1>9, <1>10 DEF b

\* The buckets of a range: starts of its interval, rising, from the one that holds the
\* range's beginning on.
LEMMA BucketsOf ==
    ASSUME NEW r, RangeOK(r)
    PROVE  LET bs == buckets(r) IN
           /\ Len(bs) \in Nat \ {0} /\ DOMAIN bs = 1..Len(bs) /\ bs = [k \in 1..Len(bs) |-> bs[k]]
           /\ bs[1] = trunc(r.from, r.interval)
           /\ \A k \in 1..Len(bs) : bs[k] \in Int /\ Start(bs[k], r.interval) /\ bs[k] < r.to
           /\ \A k \in 1..(Len(bs) - 1) : bs[k + 1] = next_bucket(bs[k], r.interval)
           /\ \A j, k \in 1..Len(bs) : j < k => bs[j] < bs[k]
<1> DEFINE i == r.interval
           at == bucket_starts(r)
           M == MaxBuckets
           S == {k \in 0..M : at[k] < r.to}
           n == Cardinality(S)
           bs == [k \in 1..n |-> at[k - 1]]
<1>1. i \in Intervals /\ M \in Nat /\ MAX_US \in Int /\ r.to \in Int /\ r.to <= MAX_US /\ r.from \in Int
  BY SourceAssumption DEF RangeOK, MAX_US, Instants
<1>2. buckets(r) = bs
  BY DEF buckets
<1>3. /\ at[0] = trunc(r.from, i)
      /\ \A k \in 1..M : at[k] = next_bucket(at[k - 1], i)
      /\ \A k \in 0..M : at[k] \in Int /\ (at[k] < MAX_US => Start(at[k], i))
  BY StartsOf
<1> HIDE DEF at
<1>4. \A k \in 1..M : at[k] < r.to => at[k - 1] < r.to /\ at[k - 1] < at[k]
  <2> SUFFICES ASSUME NEW k \in 1..M, at[k] < r.to PROVE at[k - 1] < r.to /\ at[k - 1] < at[k]
    OBVIOUS
  <2>1. k - 1 \in 0..M /\ k \in 0..M
    BY <1>1
  <2>2. at[k - 1] \in Int /\ at[k] = next_bucket(at[k - 1], i) /\ at[k] \in Int
    BY <1>3, <2>1
  <2>3. at[k - 1] < MAX_US
    BY <1>1, <2>2, NextIsInt
  <2>4. at[k - 1] < at[k]
    BY <1>1, <1>3, <2>1, <2>2, <2>3, NextBucket
  <2> QED BY <1>1, <2>2, <2>4
<1>5. \A k \in S : \A j \in 0..k : j \in S
  <2> DEFINE T == {d \in Nat : \E k \in S : d <= k /\ k - d \notin S}
  <2>1. T = {}
    <3> SUFFICES ASSUME T # {} PROVE FALSE
      OBVIOUS
    <3>1. PICK d \in T : \A m \in T : d <= m
      <4>1. T \subseteq Nat
        OBVIOUS
      <4> HIDE DEF T
      <4> QED BY <4>1, LeastNatural
    <3>2. PICK k \in S : d <= k /\ k - d \notin S
      BY <3>1
    <3>3. k \in 0..M /\ d \in Nat
      BY <3>1
    <3>4. d # 0
      <4>1. d = 0 => k - d = k
        BY <3>3
      <4> HIDE DEF S
      <4> QED BY <3>2, <4>1
    <3>5. k - (d - 1) \in S
      <4>1. d - 1 \in Nat /\ d - 1 <= k /\ ~(d <= d - 1)
        BY <3>2, <3>3, <3>4
      <4>2. d - 1 \notin T
        <5> HIDE DEF T
        <5> QED BY <3>1, <4>1
      <4> HIDE DEF S
      <4> QED BY <4>1, <4>2
    <3>6. k - (d - 1) \in 1..M /\ (k - (d - 1)) - 1 = k - d /\ k - d \in 0..M
      BY <1>1, <3>2, <3>3, <3>4
    <3>7. at[(k - (d - 1)) - 1] < r.to
      BY <1>4, <3>5, <3>6
    <3> QED BY <3>2, <3>6, <3>7
  <2> SUFFICES ASSUME NEW k \in S, NEW j \in 0..k PROVE j \in S
    OBVIOUS
  <2>2. k \in Nat /\ k - j \in Nat /\ k - j <= k /\ k - (k - j) = j
    <3>1. k \in 0..M
      OBVIOUS
    <3> HIDE DEF S
    <3> QED BY <1>1, <3>1
  <2>3. k - j \notin T
    <3> HIDE DEF T
    <3> QED BY <2>1
  <2> HIDE DEF S
  <2> QED BY <2>2, <2>3
<1>6. n \in Nat /\ S = 0..(n - 1)
  <2>1. S \subseteq 0..M
    OBVIOUS
  <2> HIDE DEF S
  <2> QED BY <1>1, <1>5, <2>1, Segment
<1>7. 0 \in S
  <2>1. at[0] <= r.from /\ at[0] \in Int
    <3>1. r.from \in Instants
      BY DEF RangeOK
    <3> QED BY <1>1, <1>3, <3>1, Truncates DEF Holds
  <2>2. at[0] < r.to
    BY <1>1, <2>1 DEF RangeOK
  <2> QED BY <1>1, <2>2
<1>8. n # 0
  BY <1>6, <1>7
<1>9. \A k \in 0..(n - 1) : k \in 0..M /\ at[k] < r.to
  <2>1. \A k \in S : k \in 0..M /\ at[k] < r.to
    OBVIOUS
  <2> HIDE DEF S, n
  <2> QED BY <1>6, <2>1
<1> HIDE DEF S, n
<1>10. Len(bs) = n /\ DOMAIN bs = 1..n
  BY <1>6
<1>11. \A k \in 1..n : bs[k] = at[k - 1] /\ bs[k] \in Int /\ Start(bs[k], i) /\ bs[k] < r.to
  <2> SUFFICES ASSUME NEW k \in 1..n
               PROVE  bs[k] = at[k - 1] /\ bs[k] \in Int /\ Start(bs[k], i) /\ bs[k] < r.to
    OBVIOUS
  <2>1. k - 1 \in 0..(n - 1) /\ bs[k] = at[k - 1]
    BY <1>6
  <2>2. k - 1 \in 0..M /\ at[k - 1] < r.to
    BY <1>9, <2>1
  <2>3. at[k - 1] \in Int /\ at[k - 1] < MAX_US
    BY <1>1, <1>3, <2>2
  <2> QED BY <1>3, <2>1, <2>2, <2>3
<1>12. \A k \in 1..(n - 1) : bs[k + 1] = next_bucket(bs[k], i) /\ bs[k] < bs[k + 1]
  <2> SUFFICES ASSUME NEW k \in 1..(n - 1) PROVE bs[k + 1] = next_bucket(bs[k], i) /\ bs[k] < bs[k + 1]
    OBVIOUS
  <2>1. k \in 1..n /\ k + 1 \in 1..n /\ (k + 1) - 1 = k /\ k \in 0..(n - 1)
    BY <1>6
  <2>2. bs[k + 1] = at[k] /\ bs[k] = at[k - 1]
    BY <2>1
  <2>3. k \in 1..M /\ at[k] < r.to
    BY <1>9, <2>1
  <2> QED BY <1>3, <1>4, <2>2, <2>3
<1>13. bs[1] = at[0]
  BY <1>6, <1>8
<1> HIDE DEF bs
<1>14. \A j, k \in 1..n : j < k => bs[j] < bs[k]
  BY <1>6, <1>11, <1>12, Rises
<1>15. bs = [k \in 1..n |-> bs[k]]
  BY <1>10 DEF bs
<1> HIDE DEF i
<1> QED BY <1>2, <1>3, <1>6, <1>8, <1>10, <1>11, <1>12, <1>13, <1>14, <1>15 DEF i

\* Every instant of a range that is not refused lies in one of its buckets.
LEMMA BucketsCover ==
    ASSUME NEW r, RangeOK(r), ~TooManyBuckets(r), NEW t \in Int, r.from <= t, t < r.to
    PROVE  \E k \in 1..Len(buckets(r)) : Holds(buckets(r)[k], t, r.interval)
<1> DEFINE i == r.interval
           at == bucket_starts(r)
           M == MaxBuckets
           bs == buckets(r)
           n == Len(bs)
           S == {k \in 1..n : bs[k] <= t}
<1>1. i \in Intervals /\ M \in Nat /\ MAX_US \in Int /\ r.to \in Int /\ r.to <= MAX_US /\ r.from \in Int
  BY SourceAssumption DEF RangeOK, MAX_US, Instants
<1>2. /\ n \in Nat \ {0} /\ bs[1] = trunc(r.from, i)
      /\ \A k \in 1..n : bs[k] \in Int /\ Start(bs[k], i) /\ bs[k] < r.to
      /\ \A k \in 1..(n - 1) : bs[k + 1] = next_bucket(bs[k], i)
  BY BucketsOf
<1>3. n <= M
  BY <1>1, <1>2 DEF TooManyBuckets
<1>4. n = Cardinality({k \in 0..M : at[k] < r.to}) /\ bs[n] = at[n - 1]
  <2> DEFINE c == Cardinality({k \in 0..M : at[k] < r.to})
  <2>1. bs = [k \in 1..c |-> at[k - 1]] /\ DOMAIN bs = 1..n
    BY BucketsOf DEF buckets
  <2> HIDE DEF c, bs
  <2>2. 1..c = 1..n
    BY <2>1
  <2>3. n \in 1..c
    <3>1. n \in 1..n
      BY <1>2
    <3> HIDE DEF n
    <3> QED BY <2>2, <3>1
  <2>4. bs[n] = at[n - 1]
    BY <2>1, <2>3
  <2>5. c = n
    <3>1. c \in Nat
      <4>1. {k \in 0..M : at[k] < r.to} \in SUBSET (0..M)
        OBVIOUS
      <4>2. IsFiniteSet(0..M)
        BY <1>1, FS_Interval
      <4> QED BY <4>1, <4>2, FS_Subset, FS_CardinalityType DEF c
    <3> QED BY <1>2, <2>2, <2>3, <3>1
  <2> QED BY <2>4, <2>5 DEF c
<1>5. next_bucket(bs[n], i) >= r.to
  <2>1. n \in 1..M /\ n \in 0..M
    BY <1>1, <1>2, <1>3
  <2>2. at[n] = next_bucket(at[n - 1], i) /\ at[n] \in Int
    BY <2>1, StartsOf
  <2> SUFFICES ASSUME at[n] < r.to PROVE FALSE
    BY <1>1, <1>4, <2>2
  <2> DEFINE U == {k \in 0..M : at[k] < r.to}
  <2> HIDE DEF at
  <2>3. n \in U
    BY <2>1
  <2>4. \A k \in 0..n : k \in U
    <3>1. \A k \in 1..n : at[k - 1] < r.to
      <4> SUFFICES ASSUME NEW k \in 1..n PROVE at[k - 1] < r.to
        OBVIOUS
      <4>1. bs[k] = at[k - 1]
        <5> DEFINE c == Cardinality(U)
        <5>1. bs = [j \in 1..c |-> at[j - 1]] /\ c = n
          BY <1>4 DEF buckets, at
        <5> HIDE DEF bs, c
        <5> QED BY <5>1
      <4> QED BY <1>2, <4>1
    <3>2. ASSUME NEW k \in 0..n PROVE k \in U
      <4>1. CASE k = n
        BY <2>3, <4>1
      <4>2. CASE k # n
        <5>1. k + 1 \in 1..n /\ (k + 1) - 1 = k /\ k \in 0..M
          BY <1>2, <1>3, <4>2, <1>1
        <5> QED BY <3>1, <5>1
      <4> QED BY <4>1, <4>2
    <3> QED BY <3>2
  <2>5. IsFiniteSet(0..M) /\ IsFiniteSet(0..n) /\ Cardinality(0..n) = n - 0 + 1
    BY <1>1, <1>2, FS_Interval
  <2>6. IsFiniteSet(U)
    <3>1. U \in SUBSET (0..M)
      OBVIOUS
    <3> QED BY <2>5, <3>1, FS_Subset
  <2>7. 0..n \in SUBSET U
    BY <2>4
  <2>8. Cardinality(0..n) <= Cardinality(U) /\ Cardinality(U) = n
    BY <1>4, <2>6, <2>7, FS_Subset DEF at
  <2> QED BY <1>2, <2>5, <2>8
<1> HIDE DEF bs, at
<1>6. 1 \in S /\ S \subseteq 0..n
  <2>1. bs[1] <= r.from
    <3>1. r.from \in Instants
      BY DEF RangeOK
    <3> QED BY <1>1, <1>2, <3>1, Truncates DEF Holds
  <2>2. 1 \in 1..n
    BY <1>2
  <2>3. bs[1] <= t
    BY <1>1, <1>2, <2>1, <2>2
  <2> QED BY <1>2, <2>2, <2>3
<1>7. PICK k \in S : \A j \in S : j <= k
  <2> HIDE DEF S
  <2> QED BY <1>2, <1>6, GreatestNatural
<1>8. k \in 1..n /\ bs[k] <= t
  BY <1>7
<1>9. t < next_bucket(bs[k], i)
  <2>1. CASE k = n
    <3>1. next_bucket(bs[n], i) \in Int
      BY <1>1, <1>2, <1>8, <2>1, NextIsInt
    <3> QED BY <1>1, <1>5, <2>1, <3>1
  <2>2. CASE k # n
    <3>1. k + 1 \in 1..n /\ k \in 1..(n - 1) /\ ~(k + 1 <= k)
      BY <1>2, <1>8, <2>2
    <3>2. k + 1 \notin S
      <4> HIDE DEF S
      <4> QED BY <1>7, <3>1
    <3>3. bs[k + 1] > t
      BY <1>2, <3>1, <3>2
    <3> QED BY <1>2, <3>1, <3>3
  <2> QED BY <2>1, <2>2
<1> QED BY <1>2, <1>8, <1>9 DEF Holds, bs

-----------------------------------------------------------------------------
(* The world, and what a query reads of it.                                 *)

\* The stored events are finitely many of the question's.
SourceInv ==
    /\ asking \in DOMAIN Questions
    /\ events \subseteq Questions[asking].events
    /\ IsFiniteSet(events)
    /\ \A id \in DOMAIN overrides : \E e \in Questions[asking].events : overrides[id] = e.id

\* Events are stored one at a time, and only those of the question.
LEMMA SourceHolds == InsightsSpec => []SourceInv
<1>1. InsightsInit => SourceInv
  BY FS_EmptySet DEF InsightsInit, SourceInit, SourceInv
<1>2. SourceInv /\ [InsightsNext]_insightVars => SourceInv'
  <2> SUFFICES ASSUME SourceInv, [InsightsNext]_insightVars PROVE SourceInv'
    OBVIOUS
  <2>1. CASE UNCHANGED sourceVars
    BY <2>1 DEF SourceInv, sourceVars
  <2>2. ASSUME NEW e \in Questions[asking].events \ events, Store(e) PROVE SourceInv'
    <3>1. IsFiniteSet(events \cup {e})
      BY FS_AddElement DEF SourceInv
    <3> QED BY <2>2, <3>1 DEF SourceInv, Store
  <2>3. ASSUME NEW e \in events, NEW f \in events, Merge(e.id, f.id) PROVE SourceInv'
    <3>1. f \in Questions[asking].events
      BY DEF SourceInv
    <3> QED BY <2>3, <3>1 DEF SourceInv, Merge
  <2>4. CASE NextProject
    BY <2>4, FS_EmptySet DEF SourceInv, NextProject
  <2>5. CASE SourceNext
    BY <2>2, <2>3, <2>4, <2>5 DEF SourceNext
  <2> QED BY <2>1, <2>5 DEF InsightsNext, insightVars
<1> QED BY <1>1, <1>2, PTL DEF InsightsSpec

\* The calendar covers what is stored.
LEMMA StoredAreInstants ==
    ASSUME SourceInv
    PROVE  \A e \in events : e.ts \in Instants
BY InstantsAssumption DEF SourceInv

\* The SQL of a filter keeps what the oracle keeps.
LEMMA FilterAgrees ==
    ASSUME NEW e, NEW f, f.operator \in Operators, f.operator = "gt" => \E v : f.values = {v}
    PROVE  filter(e, f) <=> OracleHolds(property_text(e, f.source), f)
<1> DEFINE text == property_text(e, f.source)
<1> HIDE DEF text
<1>1. CASE f.operator = "exact"
  BY <1>1 DEF filter, OracleHolds, SqlTest, NULL, text
<1>2. CASE f.operator = "is_not"
  BY <1>2 DEF filter, OracleHolds, SqlTest, SqlNot, negative, NULL, text
<1>3. CASE f.operator = "gt"
  <2>1. PICK v : f.values = {v}
    BY <1>3
  <2>2. OracleHolds(text, f) <=> text > 0 /\ text > v
    BY <1>3, <2>1 DEF OracleHolds
  <2>3. filter(e, f) <=> numeric_expr(text) # 0 /\ numeric_expr(text) > v
    BY <1>3, <2>1 DEF filter, SqlTest, NULL, text
  <2>4. numeric_expr(text) = IF text > 0 THEN text ELSE 0
    BY DEF numeric_expr, NULL
  <2>5. text > 0 => text # 0
    OBVIOUS
  <2> QED BY <2>2, <2>3, <2>4, <2>5 DEF text
<1>4. CASE f.operator = "is_set" \/ f.operator = "is_not_set"
  BY <1>4 DEF filter, OracleHolds, text
<1> QED BY <1>1, <1>2, <1>3, <1>4 DEF Operators

\* So does that of a node with the query's filters.
LEMMA PredicateAgrees ==
    ASSUME NEW e, NEW q, NEW node, FiltersOK(q.properties), FiltersOK(node.properties)
    PROVE  predicate(e, q, node) <=> OracleMatches(e, q, node)
<1>1. \A f \in node.properties \cup q.properties :
          filter(e, f) <=> OracleHolds(property_text(e, f.source), f)
  BY FilterAgrees DEF FiltersOK
<1> QED BY <1>1 DEF predicate, OracleMatches, event_match

\* The files of a span hold every event of the span.
LEMMA LeasedHoldTheSpan ==
    ASSUME SourceInv, NEW from \in Int, NEW to \in Int, NEW a \in Int, from <= a
    PROVE  relation(files([from |-> from, to |-> to]), a, to) = {e \in events : a <= e.ts /\ e.ts < to}
<1>1. ASSUME NEW e \in events, a <= e.ts, e.ts < to
      PROVE  day_of(e.ts) >= day_of(from) /\ day_of(e.ts) <= day_of(to - 1)
  <2>1. e.ts \in Int
    BY StoredAreInstants DEF Instants, MAX_US
  <2> QED BY <1>1, <2>1 DEF day_of, DAY_US, HOUR_US
<1> QED BY <1>1 DEF files, relation

-----------------------------------------------------------------------------
(* Retention.                                                               *)

\* A sequence that never rises is at its lowest at the end.
LEMMA Falls ==
    ASSUME NEW n \in Nat, NEW f, \A k \in 0..n : f[k] \in Int, \A k \in 1..n : f[k] <= f[k - 1]
    PROVE  \A k \in 0..n : f[n] <= f[k]
<1> DEFINE U == {d \in Nat : d <= n /\ ~(f[n] <= f[n - d])}
<1> SUFFICES ASSUME U # {} PROVE FALSE
  <2> SUFFICES ASSUME NEW k \in 0..n, U = {} PROVE f[n] <= f[k]
    OBVIOUS
  <2>1. n - k \in Nat /\ n - k <= n /\ n - (n - k) = k
    OBVIOUS
  <2>2. n - k \notin U
    <3> HIDE DEF U
    <3> QED OBVIOUS
  <2> QED BY <2>1, <2>2
<1>1. PICK d \in U : \A m \in U : d <= m
  <2>1. U \subseteq Nat
    OBVIOUS
  <2> HIDE DEF U
  <2> QED BY <2>1, LeastNatural
<1>2. d \in Nat /\ d <= n /\ ~(f[n] <= f[n - d])
  BY <1>1
<1>3. d # 0
  <2>1. n - 0 = n /\ n \in 0..n
    OBVIOUS
  <2>2. f[n] \in Int
    BY <2>1
  <2> QED BY <1>2, <2>1, <2>2
<1>4. d - 1 \in Nat /\ d - 1 <= n /\ ~(d <= d - 1)
  BY <1>2, <1>3
<1>5. d - 1 \notin U
  <2> HIDE DEF U
  <2> QED BY <1>1, <1>4
<1>6. f[n] <= f[n - (d - 1)]
  BY <1>4, <1>5
<1>7. n - (d - 1) \in 1..n /\ (n - (d - 1)) - 1 = n - d /\ n - d \in 0..n /\ n \in 0..n /\ n - (d - 1) \in 0..n
  BY <1>2, <1>3
<1>8. f[n - (d - 1)] <= f[n - d]
  BY <1>7
<1>9. f[n] \in Int /\ f[n - d] \in Int /\ f[n - (d - 1)] \in Int
  BY <1>7
<1> QED BY <1>2, <1>6, <1>8, <1>9

\* The periods of a retention query: integers, none before the first.
LEMMA PeriodsOf ==
    ASSUME NEW q, q.period \in Intervals, q.total_intervals \in Nat \ {0}
    PROVE  LET rplan == retention_plan(q) IN
           /\ DOMAIN rplan.starts = 1..q.total_intervals
           /\ \A k \in 1..q.total_intervals : rplan.starts[k] \in Int /\ rplan.starts[1] <= rplan.starts[k]
           /\ rplan.end = next_bucket(trunc(Now, q.period), q.period) /\ rplan.end \in Int
           /\ rplan.starts[1] <= rplan.end
           /\ rplan.first_time = q.first_time
<1> DEFINE i == q.period
           n == q.total_intervals
           current == trunc(Now, i)
           M == n - 1
           Row(f) == [k \in 0..n - 1 |-> IF k = 0 THEN current ELSE previous_bucket(f[k - 1], i)]
           back == CHOOSE f : f = Row(f)
           starts == [k \in 1..n |-> back[n - k]]
           rplan == retention_plan(q)
           G == [p \in Int \X (1..M) |-> previous_bucket(p[1], i)]
<1>1. i \in Intervals /\ n \in Nat /\ n # 0 /\ M \in Nat /\ Now \in Instants
  BY InstantsAssumption
<1>2. current \in Int /\ current >= -40 /\ next_bucket(current, i) \in Int /\ next_bucket(current, i) > current
  <2>1. Holds(current, Now, i) /\ Now \in Int /\ Now < MAX_US
    BY <1>1, Truncates DEF Instants, MAX_US
  <2>2. current \in Int /\ next_bucket(current, i) \in Int
    BY <1>1, <2>1, NextBucket DEF Holds
  <2>3. next_bucket(current, i) > current
    BY <1>1, <2>1, <2>2, NextBucket DEF Holds, MAX_US
  <2>4. current >= -40
    <3>1. CASE i = "month"
      BY <2>1, <3>1 DEF Holds, Start, MonthStarts
    <3>2. CASE i # "month"
      BY <1>1, <2>1, <2>2, <3>2
      DEF Holds, next_bucket, Intervals, Instants, WEEK_US, DAY_US, HOUR_US, MAX_US
    <3> QED BY <3>1, <3>2
  <2> QED BY <2>2, <2>3, <2>4
<1>3. rplan = [starts |-> starts, end |-> next_bucket(current, i), first_time |-> q.first_time]
  BY DEF retention_plan
<1>4. G \in [Int \X (1..M) -> Int] /\ \A x \in Int, k \in 1..M : G[<<x, k>>] = previous_bucket(x, i)
  <2>1. \A x \in Int : previous_bucket(x, i) \in Int
    BY <1>1, PreviousBucket
  <2> QED BY <2>1
<1> HIDE DEF G
<1>5. PICK h : h \in [0..M -> Int] /\ h[0] = current /\ \A k \in 1..M : h[k] = G[<<h[k - 1], k>>]
  <2>1. M \in Nat /\ current \in Int /\ G \in [Int \X (1..M) -> Int]
    BY <1>1, <1>2, <1>4
  <2> HIDE DEF current, M, back, Row, i, starts, rplan
  <2>2. \E h : Recursive(h, M, Int, current, G)
    BY <2>1, Recursion
  <2> QED BY <2>2 DEF Recursive
<1>6. h = Row(h)
  <2>1. ASSUME NEW k \in 0..M, k # 0 PROVE h[k] = previous_bucket(h[k - 1], i)
    <3>1. k \in 1..M /\ k - 1 \in 0..M
      BY <1>1, <2>1
    <3>2. h[k - 1] \in Int
      BY <1>5, <3>1
    <3> QED BY <1>4, <1>5, <3>1, <3>2
  <2>2. h = [k \in 0..M |-> h[k]]
    BY <1>5
  <2> HIDE DEF current, i
  <2> QED BY <1>5, <2>1, <2>2
<1>7. back = Row(back)
  <2> HIDE DEF Row
  <2> QED BY <1>6
<1>8. back[0] = current /\ \A k \in 1..M : back[k] = previous_bucket(back[k - 1], i)
  <2> HIDE DEF back, current
  <2> QED BY <1>1, <1>7
<1> HIDE DEF back, current, Row
<1> DEFINE Good(k) == back[k] \in Int /\ (i = "month" => back[k] >= -40)
<1>9. \A k \in 0..M : Good(k)
  <2> DEFINE T == {k \in 0..M : ~Good(k)}
  <2> SUFFICES ASSUME T # {} PROVE FALSE
    OBVIOUS
  <2>1. PICK k \in T : \A m \in T : k <= m
    <3>1. T \subseteq Nat
      OBVIOUS
    <3> HIDE DEF T
    <3> QED BY <3>1, LeastNatural
  <2>2. k # 0
    BY <1>2, <1>8, <2>1
  <2>3. k \in 1..M /\ k - 1 \in 0..M
    BY <1>1, <2>1, <2>2
  <2>4. k - 1 \notin T
    <3> HIDE DEF T
    <3> QED BY <2>1, <2>3
  <2>5. back[k - 1] \in Int /\ back[k] = previous_bucket(back[k - 1], i)
    BY <1>8, <2>3, <2>4
  <2>6. Good(k)
    BY <1>1, <2>5, PreviousBucket DEF MIN_US
  <2> QED BY <2>1, <2>6
<1>10. \A k \in 1..M : back[k] <= back[k - 1]
  <2> SUFFICES ASSUME NEW k \in 1..M PROVE back[k] <= back[k - 1]
    OBVIOUS
  <2>1. Good(k - 1) /\ back[k] = previous_bucket(back[k - 1], i)
    BY <1>1, <1>8, <1>9
  <2> QED BY <1>1, <2>1, PreviousBucket DEF MIN_US
<1>11. \A k \in 0..M : back[k] \in Int /\ back[M] <= back[k]
  <2>1. \A k \in 0..M : back[k] \in Int
    BY <1>9
  <2> HIDE DEF M, Good
  <2> QED BY <1>1, <1>10, <2>1, Falls
<1>12. \A k \in 1..n : starts[k] \in Int /\ starts[1] <= starts[k]
  <2> SUFFICES ASSUME NEW k \in 1..n PROVE starts[k] \in Int /\ starts[1] <= starts[k]
    OBVIOUS
  <2>1. n - k \in 0..M /\ starts[k] = back[n - k] /\ starts[1] = back[M]
    BY <1>1
  <2> QED BY <1>11, <2>1
<1>13. starts[1] <= next_bucket(current, i)
  <2>1. starts[n] = back[0] /\ n \in 1..n
    <3>1. n - n = 0 /\ n \in 1..n
      BY <1>1
    <3> QED BY <3>1
  <2> HIDE DEF starts
  <2>2. starts[n] = current /\ starts[1] <= starts[n] /\ starts[1] \in Int
    <3>1. 1 \in 1..n
      BY <1>1
    <3> QED BY <1>8, <1>12, <2>1, <3>1
  <2> QED BY <1>1, <1>2, <2>2
<1>14. DOMAIN starts = 1..n /\ rplan.starts = starts /\ rplan.end = next_bucket(current, i)
       /\ rplan.first_time = q.first_time
  BY <1>3
<1> HIDE DEF starts, rplan
<1>15. /\ DOMAIN rplan.starts = 1..n
       /\ \A k \in 1..n : rplan.starts[k] \in Int /\ rplan.starts[1] <= rplan.starts[k]
       /\ rplan.end = next_bucket(current, i) /\ rplan.end \in Int
       /\ rplan.starts[1] <= rplan.end /\ rplan.first_time = q.first_time
  BY <1>2, <1>12, <1>13, <1>14
<1> QED BY <1>15 DEF rplan, current

\* The people of a period's rows, and the oracle's.
PeopleAt(pairs, s) == {x[1] : x \in {x \in pairs : x[2] = s}}

Between(start, end) == {e \in events : start <= e.ts /\ e.ts < end}

Active(q, node, i, end, s) ==
    {person_id(e) : e \in {e \in events : e.ts < end /\ bucket_of(e.ts, i) = s /\ OracleMatches(e, q, node)}}

Joined(q, node, i, end, s) ==
    LET target == {e \in events : e.ts < end /\ OracleMatches(e, q, node)}
        first == {e \in target : \A f \in target : person_id(f) = person_id(e) => e.ts <= f.ts}
    IN {person_id(e) : e \in {e \in first : e.ts < end /\ bucket_of(e.ts, i) = s}}

\* Who is active in a period from the start on: the SQL's pairs and the oracle's events.
LEMMA PairsAreMembers ==
    ASSUME SourceInv, NEW q, NEW node, NEW i \in Intervals,
           FiltersOK(q.properties), FiltersOK(node.properties),
           NEW start \in Int, NEW end \in Int, NEW s \in Int, start <= s
    PROVE  PeopleAt(PairsOf(Between(start, end), q, node, i), s) = Active(q, node, i, end, s)
<1> DEFINE recent == Between(start, end)
           P == PairsOf(recent, q, node, i)
           L == {x[1] : x \in {x \in P : x[2] = s}}
           R == {e \in events : e.ts < end /\ bucket_of(e.ts, i) = s /\ OracleMatches(e, q, node)}
<1>1. \A e \in events : /\ bucket_expr(i, e.ts) = bucket_of(e.ts, i) /\ e.ts \in Int
                        /\ bucket_of(e.ts, i) = s => start <= e.ts
  <2> SUFFICES ASSUME NEW e \in events
               PROVE  /\ bucket_expr(i, e.ts) = bucket_of(e.ts, i) /\ e.ts \in Int
                      /\ bucket_of(e.ts, i) = s => start <= e.ts
    OBVIOUS
  <2>1. e.ts \in Instants /\ e.ts \in Int
    BY StoredAreInstants DEF Instants, MAX_US
  <2>2. bucket_expr(i, e.ts) = bucket_of(e.ts, i) /\ bucket_of(e.ts, i) <= e.ts
    BY <2>1, Truncates DEF Holds
  <2> QED BY <2>1, <2>2
<1>2. \A e \in events : predicate(e, q, node) <=> OracleMatches(e, q, node)
  BY PredicateAgrees
<1>3. ASSUME NEW p PROVE p \in L <=> \E e \in R : p = person_id(e)
  <2>1. p \in L <=> \E x \in P : x[2] = s /\ p = x[1]
    OBVIOUS
  <2>2. \A x : x \in P <=> \E e \in recent : predicate(e, q, node) /\ x = <<person_id(e), bucket_expr(i, e.ts)>>
    BY DEF PairsOf
  <2>3. p \in L <=> \E e \in recent : predicate(e, q, node) /\ bucket_expr(i, e.ts) = s /\ p = person_id(e)
    <3>1. \A c, d : <<c, d>>[1] = c /\ <<c, d>>[2] = d
      OBVIOUS
    <3>2. ASSUME p \in L
          PROVE  \E e \in recent : predicate(e, q, node) /\ bucket_expr(i, e.ts) = s /\ p = person_id(e)
      <4>1. PICK x \in P : x[2] = s /\ p = x[1]
        BY <2>1, <3>2
      <4>2. PICK e \in recent : predicate(e, q, node) /\ x = <<person_id(e), bucket_expr(i, e.ts)>>
        BY <2>2
      <4> HIDE DEF recent, P, L
      <4> QED BY <3>1, <4>1, <4>2
    <3>3. ASSUME NEW e \in recent, predicate(e, q, node), bucket_expr(i, e.ts) = s, p = person_id(e)
          PROVE  p \in L
      <4> DEFINE x == <<person_id(e), bucket_expr(i, e.ts)>>
      <4>1. x \in P /\ x[2] = s /\ x[1] = p
        BY <2>2, <3>3
      <4> HIDE DEF recent, P, L, x
      <4> QED BY <2>1, <4>1
    <3> QED BY <3>2, <3>3
  <2> QED BY <1>1, <1>2, <2>3 DEF Between
<1> HIDE DEF L, R
<1>4. L = {person_id(e) : e \in R}
  BY <1>3
<1> QED BY <1>4 DEF L, R, PeopleAt, Active

\* Who joined for the first time in a period.
LEMMA FirstPairsAreMembers ==
    ASSUME SourceInv, NEW q, NEW node, NEW i \in Intervals,
           FiltersOK(q.properties), FiltersOK(node.properties),
           NEW start \in Int, NEW end \in Int, NEW s \in Int, start <= s
    PROVE  PeopleAt(FirstPairs(Between(MIN_US, end), q, node, i, start), s) = Joined(q, node, i, end, s)
<1> DEFINE past == Between(MIN_US, end)
           target == {e \in events : e.ts < end /\ OracleMatches(e, q, node)}
           first == {e \in target : \A f \in target : person_id(f) = person_id(e) => e.ts <= f.ts}
           matching == {e \in past : predicate(e, q, node)}
           times(p) == {e.ts : e \in {e \in matching : person_id(e) = p}}
           P == FirstPairs(past, q, node, i, start)
           L == {x[1] : x \in {x \in P : x[2] = s}}
           R == {e \in first : e.ts < end /\ bucket_of(e.ts, i) = s}
<1>1. \A e \in events : e.ts \in Int /\ MIN_US <= e.ts /\ e.ts \in Instants
  BY StoredAreInstants DEF Instants, MAX_US, MIN_US
<1>2. matching = target
  <2>1. \A e \in events : predicate(e, q, node) <=> OracleMatches(e, q, node)
    BY PredicateAgrees
  <2> QED BY <1>1, <2>1 DEF Between
<1>3. \A p : times(p) \subseteq Int /\ IsFiniteSet(times(p))
  <2> SUFFICES ASSUME NEW p PROVE times(p) \subseteq Int /\ IsFiniteSet(times(p))
    OBVIOUS
  <2> DEFINE E == {e \in matching : person_id(e) = p}
  <2>1. IsFiniteSet(E) /\ \A e \in E : e.ts \in Int
    <3>1. E \in SUBSET events
      BY DEF Between
    <3> HIDE DEF E
    <3> QED BY <1>1, <3>1, FS_Subset DEF SourceInv
  <2> HIDE DEF E
  <2>2. [e \in E |-> e.ts] \in Surjection(E, {e.ts : e \in E})
    BY DEF Surjection
  <2>3. IsFiniteSet({e.ts : e \in E})
    BY <2>1, <2>2, FS_Surjection
  <2> QED BY <2>1, <2>3 DEF E
<1>4. ASSUME NEW e \in target
      PROVE  e \in first <=> Min(times(person_id(e))) = e.ts
  <2> DEFINE p == person_id(e)
  <2>1. e.ts \in times(p)
    BY <1>2
  <2>2. e \in first <=> \A t \in times(p) : e.ts <= t
    BY <1>2
  <2>3. (\A t \in times(p) : e.ts <= t) <=> Min(times(p)) = e.ts
    <3> HIDE DEF times, p
    <3>1. Min(times(p)) \in times(p) /\ \A t \in times(p) : Min(times(p)) <= t
      BY <1>3, <2>1, FiniteMin
    <3>2. ASSUME \A t \in times(p) : e.ts <= t PROVE Min(times(p)) = e.ts
      BY <1>3, <2>1, <3>2, MinIs
    <3> QED BY <3>1, <3>2
  <2> QED BY <2>2, <2>3
<1>5. ASSUME NEW e \in target PROVE \E f \in target : person_id(f) = person_id(e) /\ f.ts = Min(times(person_id(e)))
  <2> DEFINE p == person_id(e)
  <2>1. times(p) # {}
    BY <1>2
  <2>2. Min(times(p)) \in times(p)
    <3> HIDE DEF times, p
    <3> QED BY <1>3, <2>1, FiniteMin
  <2> QED BY <1>2, <2>2
<1>6. ASSUME NEW p
      PROVE  p \in L <=> \E e \in target : p = person_id(e) /\ Min(times(p)) >= start
                                           /\ bucket_expr(i, Min(times(p))) = s
  <2>1. p \in L <=> \E x \in P : x[2] = s /\ p = x[1]
    OBVIOUS
  <2>2. \A x : x \in P <=> \E e \in matching : /\ Min(times(person_id(e))) >= start
                                  /\ x = <<person_id(e), bucket_expr(i, Min(times(person_id(e))))>>
    BY DEF FirstPairs
  <2>3. \A c, d : <<c, d>>[1] = c /\ <<c, d>>[2] = d
    OBVIOUS
  <2>4. ASSUME p \in L
        PROVE  \E e \in target : p = person_id(e) /\ Min(times(p)) >= start /\ bucket_expr(i, Min(times(p))) = s
    <3>1. PICK x \in P : x[2] = s /\ p = x[1]
      BY <2>1, <2>4
    <3>2. PICK e \in matching : /\ Min(times(person_id(e))) >= start
                                /\ x = <<person_id(e), bucket_expr(i, Min(times(person_id(e))))>>
      BY <2>2
    <3>3. p = person_id(e) /\ bucket_expr(i, Min(times(person_id(e)))) = s
      <4> HIDE DEF P, L, target, matching, times
      <4> QED BY <2>3, <3>1, <3>2
    <3> HIDE DEF P, L, target, matching, times
    <3> QED BY <1>2, <3>2, <3>3
  <2>5. ASSUME NEW e \in target, p = person_id(e), Min(times(p)) >= start, bucket_expr(i, Min(times(p))) = s
        PROVE  p \in L
    <3> DEFINE x == <<p, bucket_expr(i, Min(times(p)))>>
    <3>1. x[1] = p /\ x[2] = s
      BY <2>5
    <3>2. x \in P
      <4> HIDE DEF P, L, target, matching, times
      <4> QED BY <1>2, <2>2, <2>5
    <3> HIDE DEF P, L, x
    <3> QED BY <2>1, <3>1, <3>2
  <2> QED BY <2>4, <2>5
<1>7. ASSUME NEW p PROVE p \in L <=> \E e \in R : p = person_id(e)
  <2>1. ASSUME p \in L PROVE \E e \in R : p = person_id(e)
    <3>1. PICK e \in target : p = person_id(e) /\ bucket_expr(i, Min(times(p))) = s
      BY <1>6, <2>1
    <3>2. PICK f \in target : person_id(f) = p /\ f.ts = Min(times(p))
      BY <1>5, <3>1
    <3>3. f \in first
      BY <1>4, <3>2
    <3>4. f.ts \in Instants /\ f.ts < end
      BY <1>1, <3>2
    <3>5. bucket_of(f.ts, i) = s
      BY <3>1, <3>2, <3>4, Truncates
    <3> QED BY <3>2, <3>3, <3>4, <3>5
  <2>2. ASSUME NEW e \in R, p = person_id(e) PROVE p \in L
    <3>1. e \in target /\ e \in first /\ bucket_of(e.ts, i) = s /\ e.ts \in Instants /\ e.ts \in Int
      BY <1>1
    <3>2. Min(times(p)) = e.ts
      BY <1>4, <2>2, <3>1
    <3>3. bucket_expr(i, e.ts) = s /\ s <= e.ts
      BY <3>1, Truncates DEF Holds
    <3> HIDE DEF times, L
    <3> QED BY <1>6, <2>2, <3>1, <3>2, <3>3
  <2> QED BY <2>1, <2>2
<1> HIDE DEF L, R
<1>8. L = {person_id(e) : e \in R}
  BY <1>7
<1> QED BY <1>8 DEF L, R, PeopleAt, Joined

\* Every cell of the retention table is the oracle's.
LEMMA RetentionExact == SourceInv => RetentionIsExact
<1> SUFFICES ASSUME SourceInv, asking = "retention", NEW q \in Questions[asking].queries
             PROVE  retention(q) = retention_cells(q)
  BY DEF RetentionIsExact
<1> DEFINE rplan == retention_plan(q)
           i == q.period
           n == q.total_intervals
           start == rplan.starts[1]
           end == rplan.end
           leased == files([from |-> retention_load_from(rplan), to |-> rplan.end])
           recent == relation(leased, start, rplan.end)
           past == relation(leased, MIN_US, rplan.end)
           targetPairs == IF rplan.first_time THEN FirstPairs(past, q, q.target, i, start)
                          ELSE PairsOf(recent, q, q.target, i)
           returned == PairsOf(recent, q, q.returning, i)
           by(pairs) == [k \in DOMAIN rplan.starts |-> {r[1] : r \in {r \in pairs : r[2] = rplan.starts[k]}}]
           target == {e \in events : e.ts < end /\ OracleMatches(e, q, q.target)}
           first == {e \in target : \A f \in target : person_id(f) = person_id(e) => e.ts <= f.ts}
           inPeriod(e, k) == e.ts < end /\ bucket_of(e.ts, i) = rplan.starts[k]
           members(k) == {person_id(e) : e \in {e \in IF q.first_time THEN first ELSE target : inPeriod(e, k)}}
           back(k) == {person_id(e) : e \in {e \in events : inPeriod(e, k) /\ OracleMatches(e, q, q.returning)}}
           act == activity(q, rplan)
<1>1. /\ i \in Intervals /\ n \in Nat \ {0}
      /\ FiltersOK(q.properties) /\ FiltersOK(q.target.properties) /\ FiltersOK(q.returning.properties)
  BY PeriodQuestionsAssumption DEF SourceInv
<1>2. /\ DOMAIN rplan.starts = 1..n
      /\ \A k \in 1..n : rplan.starts[k] \in Int /\ start <= rplan.starts[k]
      /\ end = next_bucket(trunc(Now, i), i) /\ end \in Int
      /\ start <= end /\ rplan.first_time = q.first_time
  BY <1>1, PeriodsOf
<1>3. start \in Int /\ MIN_US \in Int
  BY <1>1, <1>2 DEF MIN_US
<1>4. next_bucket(bucket_of(Now, i), i) = end
  BY <1>1, <1>2, InstantsAssumption, Truncates
<1>5. recent = Between(start, end)
  <2>1. CASE rplan.first_time
    <3>1. leased = files([from |-> MIN_US, to |-> end])
      BY <2>1 DEF retention_load_from
    <3>2. \A e \in events : MIN_US <= e.ts /\ e.ts \in Int
      BY StoredAreInstants DEF Instants, MAX_US, MIN_US
    <3>3. past = Between(MIN_US, end)
      <4>1. MIN_US <= MIN_US
        BY DEF MIN_US
      <4> HIDE DEF rplan
      <4> QED BY <1>2, <1>3, <3>1, <4>1, LeasedHoldTheSpan DEF Between
    <3>4. past = {e \in leased : e.ts < end}
      BY <3>2 DEF relation, files
    <3>5. \A e \in leased : e \in events
      BY DEF files
    <3>6. recent = {e \in leased : start <= e.ts /\ e.ts < end}
      BY DEF relation
    <3> HIDE DEF past, leased, recent, start, end
    <3> QED BY <3>2, <3>3, <3>4, <3>5, <3>6 DEF Between
  <2>2. CASE ~rplan.first_time
    <3>1. leased = files([from |-> start, to |-> end])
      BY <2>2 DEF retention_load_from
    <3>2. start <= start
      BY <1>3
    <3> HIDE DEF start, end, leased
    <3> QED BY <1>2, <1>3, <3>1, <3>2, LeasedHoldTheSpan DEF end, Between
  <2> QED BY <2>1, <2>2
<1>6. rplan.first_time => past = Between(MIN_US, end)
  <2>1. rplan.first_time => leased = files([from |-> MIN_US, to |-> end])
    BY DEF retention_load_from
  <2>2. MIN_US <= MIN_US
    BY DEF MIN_US
  <2> HIDE DEF rplan, leased
  <2> QED BY <1>2, <1>3, <2>1, <2>2, LeasedHoldTheSpan DEF Between
<1>7. act = [cohorts |-> by(targetPairs), returning |-> by(returned)]
  BY DEF activity
<1> HIDE DEF rplan, leased
<1>8. ASSUME NEW k \in 1..n
      PROVE  act.cohorts[k] = members(k) /\ act.returning[k] = back(k)
  <2> DEFINE s == rplan.starts[k]
  <2>1. s \in Int /\ start <= s /\ k \in DOMAIN rplan.starts
    BY <1>2
  <2>2. act.cohorts[k] = PeopleAt(targetPairs, s) /\ act.returning[k] = PeopleAt(returned, s)
    <3> HIDE DEF targetPairs, returned, act
    <3> QED BY <1>7, <2>1 DEF PeopleAt
  <2> HIDE DEF s, start, end
  <2>3. PeopleAt(returned, s) = Active(q, q.returning, i, end, s)
    BY <1>1, <1>2, <1>3, <1>5, <2>1, PairsAreMembers
  <2>4. back(k) = Active(q, q.returning, i, end, s)
    <3>1. {e \in events : inPeriod(e, k) /\ OracleMatches(e, q, q.returning)}
            = {e \in events : e.ts < end /\ bucket_of(e.ts, i) = s /\ OracleMatches(e, q, q.returning)}
      BY DEF s
    <3> QED BY <3>1 DEF Active
  <2>5. PeopleAt(targetPairs, s) = members(k)
    <3>1. CASE rplan.first_time
      <4>1. targetPairs = FirstPairs(Between(MIN_US, end), q, q.target, i, start)
        BY <1>6, <3>1
      <4>2. PeopleAt(FirstPairs(Between(MIN_US, end), q, q.target, i, start), s)
              = Joined(q, q.target, i, end, s)
        BY <1>1, <1>2, <1>3, <2>1, FirstPairsAreMembers
      <4>3. members(k) = Joined(q, q.target, i, end, s)
        BY <1>2, <3>1 DEF s, Joined
      <4> HIDE DEF targetPairs, members
      <4> QED BY <4>1, <4>2, <4>3
    <3>2. CASE ~rplan.first_time
      <4>1. targetPairs = PairsOf(Between(start, end), q, q.target, i)
        BY <1>5, <3>2
      <4>2. PeopleAt(PairsOf(Between(start, end), q, q.target, i), s) = Active(q, q.target, i, end, s)
        BY <1>1, <1>2, <1>3, <2>1, PairsAreMembers
      <4>3. {e \in IF q.first_time THEN first ELSE target : inPeriod(e, k)}
              = {e \in events : e.ts < end /\ bucket_of(e.ts, i) = s /\ OracleMatches(e, q, q.target)}
        BY <1>2, <3>2 DEF s
      <4>4. members(k) = Active(q, q.target, i, end, s)
        BY <4>3 DEF Active
      <4> HIDE DEF targetPairs, members
      <4> QED BY <4>1, <4>2, <4>4
    <3> QED BY <3>1, <3>2
  <2> HIDE DEF targetPairs, returned, act, members, back
  <2> QED BY <2>2, <2>3, <2>4, <2>5
<1> HIDE DEF act, members, back
<1> DEFINE cell(c, k) == IF k = 0 THEN act.cohorts[c] ELSE act.cohorts[c] \cap act.returning[c + k]
           oracle(c, k) == IF k = 0 THEN members(c) ELSE members(c) \cap back(c + k)
<1>9. retention(q) = [c \in 1..n |-> [k \in 0..n - c |-> cell(c, k)]]
  BY DEF retention, retention_cell, act, rplan
<1>10. retention_cells(q) = [c \in 1..n |-> [k \in 0..n - c |-> oracle(c, k)]]
  BY <1>4 DEF retention_cells, members, back, rplan
<1>11. \A c \in 1..n : \A k \in 0..n - c : cell(c, k) = oracle(c, k)
  <2> SUFFICES ASSUME NEW c \in 1..n, NEW k \in 0..n - c PROVE cell(c, k) = oracle(c, k)
    OBVIOUS
  <2>1. k # 0 => c + k \in 1..n
    BY <1>1
  <2> QED BY <1>8, <2>1
<1> HIDE DEF n, cell, oracle
<1> QED BY <1>9, <1>10, <1>11

-----------------------------------------------------------------------------
(* Lifecycle and stickiness.                                                *)

\* The first event's time, or that of the query, is in the calendar.
LEMMA Earliest ==
    ASSUME SourceInv
    PROVE  earliest \in Instants
<1>1. CASE events = {}
  BY <1>1, InstantsAssumption DEF earliest
<1>2. CASE events # {}
  <2> DEFINE S == {e.ts : e \in events}
  <2>1. S \subseteq Instants /\ S \subseteq Int /\ S # {}
    BY <1>2, StoredAreInstants DEF Instants, MAX_US
  <2>2. [e \in events |-> e.ts] \in Surjection(events, S)
    BY DEF Surjection
  <2>3. IsFiniteSet(S)
    BY <2>2, FS_Surjection DEF SourceInv
  <2> HIDE DEF S
  <2>4. Min(S) \in S
    BY <2>1, <2>3, FiniteMin
  <2> QED BY <1>2, <2>1, <2>4 DEF earliest, S
<1> QED BY <1>1, <1>2

\* A range that resolves lies in the calendar.
LEMMA Resolves ==
    ASSUME NEW dates, DatesOK(dates), NEW i \in Intervals, NEW first \in Instants,
           resolve(dates, i, first) # NoRange
    PROVE  RangeOK(resolve(dates, i, first)) /\ resolve(dates, i, first).interval = i
<1>1. \A t \in Instants : align_down(t, i) \in Instants /\ align_end(t, i) \in Int /\ align_end(t, i) <= MAX_US
  BY DEF align_down, align_end, trunc, floor_to, Instants, MAX_US, HOUR_US, DAY_US
<1>2. \A t \in Instants : t \in Int /\ t + 1 \in Int /\ t + 1 <= MAX_US
  BY DEF Instants, MAX_US
<1> DEFINE from == CASE dates.from.at = "exact" -> dates.from.us
                     [] dates.from.at = "calendar" -> align_down(dates.from.us, i)
                     [] dates.from.at = "all" -> align_down(first, i)
           to == IF dates.to.at = "exact" THEN dates.to.us + 1 ELSE align_end(dates.to.us, i)
<1>3. from \in Instants
  BY <1>1 DEF DatesOK
<1>4. to \in Int /\ to <= MAX_US
  BY <1>1, <1>2 DEF DatesOK
<1>5. resolve(dates, i, first) = IF from >= to THEN NoRange ELSE [from |-> from, to |-> to, interval |-> i]
  BY DEF resolve
<1> HIDE DEF from, to
<1>6. resolve(dates, i, first) = [from |-> from, to |-> to, interval |-> i] /\ from < to
  BY <1>2, <1>3, <1>4, <1>5
<1> QED BY <1>3, <1>4, <1>6 DEF RangeOK

\* What a query with a range reads, whether or not it leases every file.
LEMMA ReadsTheSpan ==
    ASSUME SourceInv, NEW dates, NEW from \in Int, NEW to \in Int
    PROVE  relation(leased_for(dates, [from |-> from, to |-> to]), from, to) = Between(from, to)
<1>1. from <= from
  OBVIOUS
<1>2. relation(files([from |-> from, to |-> to]), from, to) = Between(from, to)
  BY <1>1, LeasedHoldTheSpan DEF Between
<1>3. relation(events, from, to) = Between(from, to)
  BY DEF relation, Between
<1> QED BY <1>2, <1>3 DEF leased_for

\* The buckets before the range's first are not after any of its own.
LEMMA BucketsBefore ==
    ASSUME NEW r, RangeOK(r), NEW k \in 1..Len(buckets(r))
    PROVE  LET bs == buckets(r)
               p == previous_bucket(bs[1], r.interval)
           IN /\ p \in Int /\ bs[k] \in Int /\ p <= bs[k]
              /\ BucketBefore(bs, k, r.interval) \in Int /\ p <= BucketBefore(bs, k, r.interval)
<1> DEFINE bs == buckets(r)
           i == r.interval
           n == Len(bs)
           p == previous_bucket(bs[1], i)
<1>1. n \in Nat \ {0} /\ i \in Intervals
  BY BucketsOf DEF RangeOK
<1>2. \A j \in 1..n : bs[j] \in Int /\ bs[1] <= bs[j]
  <2>1. (\A j \in 1..n : bs[j] \in Int) /\ \A j, m \in 1..n : j < m => bs[j] < bs[m]
    BY BucketsOf
  <2> HIDE DEF bs, n
  <2>2. 1 \in 1..n
    BY <1>1
  <2>3. \A j \in 1..n : j = 1 \/ 1 < j
    BY <1>1
  <2> QED BY <2>1, <2>2, <2>3
<1>3. Start(bs[1], i) /\ bs[1] \in Int /\ 1 \in 1..n
  BY <1>1, BucketsOf
<1>4. i = "month" => bs[1] >= MIN_US
  BY <1>3 DEF Start, MonthStarts, MIN_US
<1> HIDE DEF bs, i
<1>5. p \in Int /\ p <= bs[1]
  BY <1>1, <1>3, <1>4, PreviousBucket
<1>6. bs[k] \in Int /\ p <= bs[k]
  BY <1>2, <1>3, <1>5 DEF bs
<1>7. BucketBefore(bs, k, i) \in Int /\ p <= BucketBefore(bs, k, i)
  <2>1. CASE k = 1
    BY <1>5, <2>1 DEF BucketBefore
  <2>2. CASE k # 1
    <3>1. k - 1 \in 1..n /\ k \in 1..n
      BY <1>1, <2>2 DEF bs
    <3> QED BY <1>2, <1>3, <1>5, <2>2, <3>1 DEF BucketBefore
  <2> QED BY <2>1, <2>2
<1> QED BY <1>5, <1>6, <1>7 DEF bs, i

\* Every status of every bucket is the oracle's, the bucket before the range included.
LEMMA LifecycleExact == SourceInv => LifecycleIsExact
<1> SUFFICES ASSUME SourceInv, asking = "lifecycle", NEW q \in Questions[asking].queries, Answered(q)
             PROVE  classify(q, RangeOf(q)) = lifecycle_cells(q, RangeOf(q))
  BY DEF LifecycleIsExact
<1> DEFINE r == RangeOf(q)
           i == r.interval
           bs == buckets(r)
           before == previous_bucket(bs[1], i)
           leased == leased_for(q.dates, lifecycle_span(r))
           m == {e \in relation(leased, MIN_US, r.to) : predicate(e, q, q.series)}
           om == {e \in events : e.ts < r.to /\ OracleMatches(e, q, q.series)}
           people == {person_id(e) : e \in om}
           mine(p) == {e.ts : e \in {e \in om : person_id(e) = p}}
           active(p) == {bucket_expr(i, t) : t \in {t \in mine(p) : t >= before}}
           oactive(p) == {bucket_of(e.ts, i) : e \in {e \in om : person_id(e) = p}}
           status(p, k) == StatusAt(active(p), trunc(Min(mine(p)), i), bs[k], BucketBefore(bs, k, i))
           now(p, k) == bs[k] \in oactive(p)
           ago(p, k) == BucketBefore(bs, k, i) \in oactive(p)
           new(p, k) == now(p, k) /\ bucket_of(Min(mine(p)), i) = bs[k]
           sql(p, k, s) == active(p) # {} /\ status(p, k) = s
           oracle(p, k, s) == CASE s = "new" -> new(p, k)
                                [] s = "returning" -> now(p, k) /\ ago(p, k) /\ ~new(p, k)
                                [] s = "resurrecting" -> now(p, k) /\ ~ago(p, k) /\ ~new(p, k)
                                [] s = "dormant" -> ~now(p, k) /\ ago(p, k)
<1>1. /\ q.interval \in Intervals /\ DatesOK(q.dates)
      /\ FiltersOK(q.properties) /\ FiltersOK(q.series.properties)
  BY PeriodQuestionsAssumption DEF SourceInv
<1>2. RangeOK(r)
  <2>1. earliest \in Instants
    BY Earliest
  <2> QED BY <1>1, <2>1, Resolves DEF RangeOf, Answered
<1>3. i \in Intervals /\ r.to \in Int
  BY <1>2 DEF RangeOK
<1>4. \A e \in events : e.ts \in Instants /\ e.ts \in Int /\ MIN_US <= e.ts
  BY StoredAreInstants DEF Instants, MAX_US, MIN_US
<1>5. m = om
  <2>1. relation(leased, MIN_US, r.to) = Between(MIN_US, r.to)
    <3>1. MIN_US \in Int
      BY DEF MIN_US
    <3> HIDE DEF r
    <3> QED BY <1>3, <3>1, ReadsTheSpan DEF lifecycle_span
  <2>2. \A e \in events : predicate(e, q, q.series) <=> OracleMatches(e, q, q.series)
    BY <1>1, PredicateAgrees
  <2> HIDE DEF r, leased
  <2> QED BY <1>4, <2>1, <2>2 DEF Between
<1>6. DOMAIN bs = 1..Len(bs)
  BY <1>2, BucketsOf
<1>7. \A p : mine(p) \subseteq Instants /\ mine(p) \subseteq Int
  BY <1>4
<1>8. ASSUME NEW p \in people PROVE Min(mine(p)) \in mine(p)
  <2> DEFINE E == {e \in om : person_id(e) = p}
  <2>1. IsFiniteSet(E)
    <3>1. E \in SUBSET events
      OBVIOUS
    <3> HIDE DEF E
    <3> QED BY <3>1, FS_Subset DEF SourceInv
  <2>2. E # {}
    OBVIOUS
  <2> HIDE DEF E
  <2>3. [e \in E |-> e.ts] \in Surjection(E, {e.ts : e \in E})
    BY DEF Surjection
  <2>4. IsFiniteSet({e.ts : e \in E})
    BY <2>1, <2>3, FS_Surjection
  <2>5. mine(p) = {e.ts : e \in E}
    BY DEF E
  <2>6. mine(p) # {}
    BY <2>2, <2>5
  <2> HIDE DEF mine
  <2> QED BY <1>7, <2>4, <2>5, <2>6, FiniteMin
<1>9. ASSUME NEW p \in people, NEW b \in Int, before \in Int, before <= b
      PROVE  b \in active(p) <=> b \in oactive(p)
  <2>1. \A t \in mine(p) : bucket_expr(i, t) = bucket_of(t, i) /\ bucket_of(t, i) \in Int /\ bucket_of(t, i) <= t
    <3> SUFFICES ASSUME NEW t \in mine(p)
                 PROVE  /\ bucket_expr(i, t) = bucket_of(t, i)
                        /\ bucket_of(t, i) \in Int /\ bucket_of(t, i) <= t
      OBVIOUS
    <3>1. t \in Instants
      BY <1>7
    <3> HIDE DEF mine, i
    <3>2. Holds(trunc(t, i), t, i) /\ bucket_expr(i, t) = trunc(t, i) /\ bucket_of(t, i) = trunc(t, i)
      BY <1>3, <3>1, Truncates DEF i
    <3> QED BY <1>3, <3>2, NextBucket DEF Holds, i
  <2>2. b \in oactive(p) <=> \E t \in mine(p) : b = bucket_of(t, i)
    OBVIOUS
  <2>3. b \in active(p) <=> \E t \in mine(p) : t >= before /\ b = bucket_expr(i, t)
    OBVIOUS
  <2>4. \A t \in mine(p) : t \in Int
    BY <1>7
  <2> HIDE DEF mine, active, oactive, before
  <2> QED BY <1>9, <2>1, <2>2, <2>3, <2>4
<1>10. ASSUME NEW p \in people, NEW k \in DOMAIN bs, NEW s \in Statuses
       PROVE  sql(p, k, s) <=> oracle(p, k, s)
  <2>1. /\ before \in Int /\ bs[k] \in Int /\ before <= bs[k]
        /\ BucketBefore(bs, k, i) \in Int /\ before <= BucketBefore(bs, k, i)
    BY <1>2, <1>6, BucketsBefore
  <2> HIDE DEF before
  <2>2. now(p, k) <=> bs[k] \in active(p)
    BY <1>9, <2>1
  <2>3. ago(p, k) <=> BucketBefore(bs, k, i) \in active(p)
    BY <1>9, <2>1
  <2>4. trunc(Min(mine(p)), i) = bucket_of(Min(mine(p)), i)
    <3>1. Min(mine(p)) \in Instants
      BY <1>7, <1>8
    <3> QED BY <1>3, <3>1, Truncates
  <2> DEFINE N == bs[k] \in active(p)
             A == BucketBefore(bs, k, i) \in active(p)
             W == trunc(Min(mine(p)), i) = bs[k]
  <2>5. status(p, k) = IF N THEN IF W THEN "new" ELSE IF A THEN "returning" ELSE "resurrecting"
                       ELSE IF A THEN "dormant" ELSE "none"
    BY DEF StatusAt
  <2>6. new(p, k) <=> N /\ W
    BY <2>2, <2>4
  <2>7. N \/ A => active(p) # {}
    OBVIOUS
  <2> HIDE DEF active, status, now, ago, new, N, A, W
  <2>8. now(p, k) <=> N
    BY <2>2 DEF N
  <2>9. ago(p, k) <=> A
    BY <2>3 DEF A
  <2> QED BY <2>5, <2>6, <2>7, <2>8, <2>9 DEF Statuses
<1>11. classify(q, r) = [k \in DOMAIN bs |-> [s \in Statuses |-> {p \in people : sql(p, k, s)}]]
  <2> HIDE DEF r
  <2> QED BY <1>5 DEF classify
<1>12. lifecycle_cells(q, r) = [k \in DOMAIN bs |-> [s \in Statuses |-> {p \in people : oracle(p, k, s)}]]
  <2> HIDE DEF r
  <2> QED BY DEF lifecycle_cells
<1> HIDE DEF sql, oracle, people
<1>13. \A k \in DOMAIN bs : \A s \in Statuses : {p \in people : sql(p, k, s)} = {p \in people : oracle(p, k, s)}
  BY <1>10
<1> HIDE DEF bs, r
<1> QED BY <1>11, <1>12, <1>13 DEF r

\* Nobody is active in more buckets than the range has bars.
LEMMA StickinessExact == SourceInv => StickinessIsExact
<1> SUFFICES ASSUME SourceInv, asking = "stickiness", NEW q \in Questions[asking].queries, Answered(q)
             PROVE  LET counts == sticky_counts(q, RangeOf(q))
                        bars == stickiness(q, RangeOf(q))
                    IN /\ UNION {bars[k] : k \in DOMAIN bars} = DOMAIN counts
                       /\ \A p \in DOMAIN counts : p \in bars[counts[p]]
  BY DEF StickinessIsExact
<1> DEFINE r == RangeOf(q)
           i == r.interval
           bs == buckets(r)
           n == Len(bs)
           ev == {e \in events : in_range(e, r) /\ OracleMatches(e, q, q.series)}
           people == {person_id(e) : e \in ev}
           active(p) == {bucket_of(e.ts, i) : e \in {e \in ev : person_id(e) = p}}
           counts == [p \in people |-> Cardinality(active(p))]
           leased == leased_for(q.dates, [from |-> r.from, to |-> r.to])
           lev == {e \in relation(leased, r.from, r.to) : predicate(e, q, q.series)}
           sql(p) == Cardinality({bucket_expr(i, e.ts) : e \in {e \in ev : person_id(e) = p}})
           lcounts == [p \in people |-> sql(p)]
           bars == [k \in DOMAIN bs |-> {p \in people : counts[p] = k}]
<1>1. /\ q.interval \in Intervals /\ DatesOK(q.dates)
      /\ FiltersOK(q.properties) /\ FiltersOK(q.series.properties)
  BY PeriodQuestionsAssumption DEF SourceInv
<1>2. RangeOK(r) /\ ~TooManyBuckets(r)
  <2>1. earliest \in Instants
    BY Earliest
  <2> QED BY <1>1, <2>1, Resolves DEF RangeOf, Answered
<1>3. i \in Intervals /\ r.to \in Int /\ r.from \in Int
  BY <1>2 DEF RangeOK, Instants, MAX_US
<1>4. \A e \in events : e.ts \in Instants /\ e.ts \in Int
  BY StoredAreInstants DEF Instants, MAX_US
<1>5. lev = ev
  <2>1. relation(leased, r.from, r.to) = Between(r.from, r.to)
    <3> HIDE DEF r
    <3> QED BY <1>3, ReadsTheSpan
  <2>2. \A e \in events : predicate(e, q, q.series) <=> OracleMatches(e, q, q.series)
    BY <1>1, PredicateAgrees
  <2> HIDE DEF r, leased
  <2> QED BY <2>1, <2>2 DEF Between, in_range
<1>6. n \in Nat /\ DOMAIN bs = 1..n
  BY <1>2, BucketsOf
<1>7. \A e \in ev : bucket_expr(i, e.ts) = bucket_of(e.ts, i)
  BY <1>3, <1>4, Truncates
<1>8. \A p : {bucket_expr(i, e.ts) : e \in {e \in ev : person_id(e) = p}} = active(p)
  <2> HIDE DEF ev
  <2> QED BY <1>7
<1>9. ASSUME NEW e \in ev PROVE \E k \in 1..n : bucket_of(e.ts, i) = bs[k]
  <2>1. e.ts \in Instants /\ e.ts \in Int /\ r.from <= e.ts /\ e.ts < r.to
    BY <1>4 DEF in_range
  <2>2. PICK k \in 1..n : Holds(bs[k], e.ts, i)
    <3> HIDE DEF r
    <3> QED BY <1>2, <2>1, BucketsCover
  <2>3. Holds(bucket_of(e.ts, i), e.ts, i)
    BY <1>3, <2>1, Truncates
  <2>4. bucket_of(e.ts, i) = bs[k]
    <3> DEFINE a == bucket_of(e.ts, i)
               b == bs[k]
    <3>1. Holds(a, e.ts, i) /\ Holds(b, e.ts, i)
      BY <2>2, <2>3
    <3> HIDE DEF a, b, r, i
    <3>2. a = b
      BY <1>3, <2>1, <3>1, OneBucket
    <3> QED BY <3>2 DEF a, b
  <2> QED BY <2>4
<1>10. ASSUME NEW p \in people PROVE counts[p] \in 1..n
  <2> DEFINE A == active(p)
             B == {bs[k] : k \in 1..n}
  <2>1. A \subseteq B
    BY <1>9
  <2>2. IsFiniteSet(B) /\ Cardinality(B) <= n
    <3>1. IsFiniteSet(1..n) /\ Cardinality(1..n) = n
      <4> HIDE DEF n
      <4>1. n \in Int /\ 1 \in Int
        BY <1>6
      <4> QED BY <1>6, <4>1, FS_Interval
    <3>2. [k \in 1..n |-> bs[k]] \in Surjection(1..n, B)
      BY DEF Surjection
    <3> HIDE DEF B
    <3>3. IsFiniteSet(B) /\ Cardinality(B) <= Cardinality(1..n)
      BY <3>1, <3>2, FS_Surjection
    <3> QED BY <3>1, <3>3
  <2>3. A # {}
    OBVIOUS
  <2> HIDE DEF A, B
  <2>4. A \in SUBSET B
    BY <2>1
  <2>5. IsFiniteSet(A) /\ Cardinality(A) <= Cardinality(B)
    BY <2>2, <2>4, FS_Subset
  <2>6. Cardinality(A) \in Nat /\ Cardinality(A) # 0 /\ Cardinality(B) \in Nat
    BY <2>2, <2>3, <2>5, FS_CardinalityType, FS_EmptySet
  <2>7. Cardinality(A) \in 1..n
    <3> HIDE DEF n
    <3> QED BY <1>6, <2>2, <2>5, <2>6
  <2> QED BY <2>7 DEF A
<1>11. sticky_counts(q, r) = counts
  <2> HIDE DEF r
  <2> QED BY DEF sticky_counts
<1>12. lcounts = counts
  <2> HIDE DEF active, ev, people
  <2> QED BY <1>8
<1>13. stickiness(q, r) = bars
  <2>1. stickiness(q, r) = [k \in DOMAIN bs |-> {p \in DOMAIN lcounts : lcounts[p] = k}]
    <3> HIDE DEF r
    <3> QED BY <1>5 DEF stickiness
  <2> HIDE DEF lcounts, bs, r, people
  <2>2. DOMAIN counts = people
    OBVIOUS
  <2> HIDE DEF counts
  <2> QED BY <1>12, <2>1, <2>2 DEF bars
<1>14. UNION {bars[k] : k \in DOMAIN bars} = DOMAIN counts
  <2> HIDE DEF people, active, bs, n
  <2>1. DOMAIN bars = 1..n /\ DOMAIN counts = people
    BY <1>6
  <2>2. \A k \in 1..n : bars[k] = {p \in people : counts[p] = k}
    BY <1>6
  <2> HIDE DEF bars, counts
  <2> QED BY <1>10, <2>1, <2>2
<1>15. \A p \in DOMAIN counts : p \in bars[counts[p]]
  <2> HIDE DEF people, active, bs, n
  <2>1. DOMAIN counts = people
    OBVIOUS
  <2>2. \A k \in 1..n : bars[k] = {p \in people : counts[p] = k}
    BY <1>6
  <2> HIDE DEF bars, counts
  <2> QED BY <1>10, <2>1, <2>2
<1> HIDE DEF counts, bars, r
<1> QED BY <1>11, <1>13, <1>14, <1>15 DEF r

\* Retention, lifecycle and stickiness give the reference answers over every stored
\* history, whatever days are leased and whoever was merged (query/retention.rs,
\* lifecycle.rs, stickiness.rs against oracle.rs).
THEOREM PeriodsExactAlways == InsightsSpec => []PeriodsExact
<1>1. SourceInv => PeriodsExact
  BY RetentionExact, LifecycleExact, StickinessExact DEF PeriodsExact
<1> QED BY <1>1, SourceHolds, PTL

-----------------------------------------------------------------------------
(* Islands.                                                                 *)

\* A window's end lies in at most one island of a person's granules, and in one exactly
\* when one granule covers it.
LEMMA IslandsCover ==
    ASSUME NEW gs, gs \subseteq Int, IsFiniteSet(gs), NEW span \in Nat \ {0}, NEW we \in Int
    PROVE  LET I == {i \in Islands(gs, span) : we > i.s /\ we <= i.e} IN
           /\ \A i, j \in I : i = j
           /\ I # {} <=> \E g \in gs : g < we /\ we <= g + span
<1> DEFINE starts == {g \in gs : \A h \in gs : h < g => g > h + span}
           members(s) == {g \in gs : g >= s /\ \A t \in starts : t <= g => t <= s}
           top(s) == Max(members(s))
           I == {i \in Islands(gs, span) : we > i.s /\ we <= i.e}
<1>1. \A i : i \in I <=> \E s \in starts : i = [s |-> s, e |-> top(s) + span] /\ we > s /\ we <= top(s) + span
  <2>1. Islands(gs, span) = {[s |-> s, e |-> top(s) + span] : s \in starts}
    BY DEF Islands
  <2>2. \A s, e : [s |-> s, e |-> e].s = s /\ [s |-> s, e |-> e].e = e
    OBVIOUS
  <2> HIDE DEF top, starts
  <2>3. ASSUME NEW i \in I
        PROVE  \E s \in starts : i = [s |-> s, e |-> top(s) + span] /\ we > s /\ we <= top(s) + span
    <3>1. PICK s \in starts : i = [s |-> s, e |-> top(s) + span] /\ we > i.s /\ we <= i.e
      BY <2>1, <2>3
    <3> QED BY <2>2, <3>1
  <2>4. ASSUME NEW s \in starts, we > s, we <= top(s) + span
        PROVE  [s |-> s, e |-> top(s) + span] \in I
    <3> DEFINE i == [s |-> s, e |-> top(s) + span]
    <3>1. i \in Islands(gs, span) /\ i.s = s /\ i.e = top(s) + span
      BY <2>1, <2>2
    <3> HIDE DEF i
    <3>2. i \in I
      BY <2>4, <3>1
    <3> QED BY <3>2 DEF i
  <2> HIDE DEF I
  <2> QED BY <2>3, <2>4
<1>2. \A s \in starts : s \in gs /\ s \in Int /\ s \in members(s)
  OBVIOUS
<1>3. \A U : U \subseteq gs => U \subseteq Int /\ IsFiniteSet(U)
  BY FS_Subset
<1>4. ASSUME NEW s \in starts
      PROVE  top(s) \in members(s) /\ \A g \in members(s) : g <= top(s)
  <2>1. members(s) \subseteq gs /\ members(s) # {}
    BY <1>2
  <2> HIDE DEF members
  <2> QED BY <1>3, <2>1, FiniteMax
<1>5. ASSUME NEW g \in gs PROVE \E s \in starts : g \in members(s)
  <2> DEFINE B == {t \in starts : t <= g}
             L == {x \in gs : x <= g}
  <2>1. B # {}
    <3>1. L # {} /\ L \subseteq gs
      OBVIOUS
    <3>2. PICK m \in L : \A x \in L : m <= x
      <4> HIDE DEF L
      <4> QED BY <1>3, <3>1, FiniteMin
    <3>3. \A h \in gs : ~(h < m)
      <4> SUFFICES ASSUME NEW h \in gs, h < m PROVE FALSE
        OBVIOUS
      <4>1. h \in L
        OBVIOUS
      <4> HIDE DEF L
      <4>2. m \in Int /\ h \in Int /\ m <= h
        BY <1>3, <3>1, <3>2, <4>1
      <4> QED BY <4>2
    <3>4. m \in starts /\ m <= g
      BY <3>2, <3>3
    <3> QED BY <3>4
  <2>2. B \subseteq gs
    OBVIOUS
  <2>3. PICK s \in B : \A t \in B : t <= s
    <3> HIDE DEF B
    <3> QED BY <1>3, <2>1, <2>2, FiniteMax
  <2>4. g \in members(s)
    <3>1. s \in starts /\ s <= g /\ s \in Int
      BY <1>2
    <3>2. \A t \in starts : t <= g => t <= s
      BY <2>3
    <3> QED BY <3>1, <3>2
  <2> QED BY <2>4
<1>6. ASSUME NEW s \in starts, we > s, we <= top(s) + span
      PROVE  \E g \in gs : g < we /\ we <= g + span
  <2> DEFINE B == {g \in members(s) : g < we}
             A == {g \in members(s) : g >= we}
  <2>1. B # {} /\ B \subseteq gs /\ A \subseteq gs
    BY <1>2, <1>6
  <2>2. PICK g \in B : \A x \in B : x <= g
    <3> HIDE DEF B
    <3> QED BY <1>3, <2>1, FiniteMax
  <2>3. g \in gs /\ g \in Int /\ g \in members(s) /\ g < we
    OBVIOUS
  <2>4. SUFFICES ASSUME we > g + span PROVE FALSE
    BY <2>3
  <2>5. A # {}
    <3>1. top(s) \in members(s) /\ top(s) \in Int
      BY <1>4
    <3>2. ~(top(s) <= g)
      BY <1>6, <2>3, <2>4, <3>1
    <3>3. top(s) \notin B
      BY <2>2, <3>2
    <3>4. top(s) \in A
      BY <3>1, <3>3
    <3> QED BY <3>4
  <2>6. PICK h \in A : \A x \in A : h <= x
    <3> HIDE DEF A
    <3> QED BY <1>3, <2>1, <2>5, FiniteMin
  <2>7. h \in gs /\ h \in Int /\ h \in members(s) /\ h >= we /\ h > g + span
    BY <2>3, <2>4
  <2>8. \A x \in gs : x < h => x <= g
    <3> SUFFICES ASSUME NEW x \in gs, x < h, ~(x <= g) PROVE FALSE
      OBVIOUS
    <3>1. x \in Int /\ s \in Int /\ s <= g
      BY <1>2, <2>3
    <3>2. x \in members(s)
      <4>1. x >= s
        BY <2>3, <3>1
      <4>2. \A t \in starts : t <= x => t <= s
        <5> SUFFICES ASSUME NEW t \in starts, t <= x PROVE t <= s
          OBVIOUS
        <5>1. t \in Int /\ t <= h
          BY <1>2, <2>7, <3>1
        <5> QED BY <2>7, <5>1
      <4> QED BY <4>1, <4>2
    <3>3. x \in B \/ x \in A
      BY <3>1, <3>2
    <3>4. x \notin B
      BY <2>2
    <3>5. x \notin A
      <4>1. ~(h <= x)
        BY <2>7, <3>1
      <4> QED BY <2>6, <4>1
    <3> QED BY <3>3, <3>4, <3>5
  <2>9. h \in starts
    <3> SUFFICES ASSUME NEW x \in gs, x < h PROVE h > x + span
      BY <2>7
    <3>1. x \in Int /\ x <= g
      BY <2>8
    <3> QED BY <2>3, <2>7, <3>1
  <2>10. h <= s /\ s \in Int
    BY <1>2, <2>7, <2>9
  <2> QED BY <1>6, <2>7, <2>10
<1>7. ASSUME NEW g \in gs, g < we, we <= g + span PROVE I # {}
  <2>1. PICK s \in starts : g \in members(s)
    BY <1>5
  <2>2. g <= top(s) /\ top(s) \in Int /\ s \in Int /\ s <= g /\ g \in Int
    BY <1>2, <1>4, <2>1
  <2>3. we > s /\ we <= top(s) + span
    <3> HIDE DEF top
    <3> QED BY <1>7, <2>2
  <2>4. [s |-> s, e |-> top(s) + span] \in I
    <3> HIDE DEF I, top, starts
    <3> QED BY <1>1, <2>3
  <2> HIDE DEF I
  <2> QED BY <2>4
<1>8. ASSUME NEW s \in starts, NEW t \in starts, s < t, we > t PROVE ~(we <= top(s) + span)
  <2>1. top(s) \in members(s) /\ top(s) \in gs /\ top(s) \in Int /\ s \in Int /\ t \in Int
    BY <1>2, <1>4
  <2>2. top(s) < t
    <3> SUFFICES ASSUME ~(top(s) < t) PROVE FALSE
      OBVIOUS
    <3>1. t <= top(s)
      BY <2>1
    <3>2. t <= s
      BY <2>1, <3>1
    <3> QED BY <1>8, <2>1, <3>2
  <2>3. t > top(s) + span
    BY <2>1, <2>2
  <2> HIDE DEF top
  <2> QED BY <1>8, <2>1, <2>3
<1>9. ASSUME NEW i \in I, NEW j \in I PROVE i = j
  <2>1. PICK s \in starts : i = [s |-> s, e |-> top(s) + span] /\ we > s /\ we <= top(s) + span
    BY <1>1
  <2>2. PICK t \in starts : j = [s |-> t, e |-> top(t) + span] /\ we > t /\ we <= top(t) + span
    BY <1>1
  <2>3. ~(s < t) /\ ~(t < s) /\ s \in Int /\ t \in Int
    <3> HIDE DEF top, I
    <3> QED BY <1>2, <1>8, <2>1, <2>2
  <2>4. s = t
    BY <2>3
  <2> QED BY <2>1, <2>2, <2>4
<1>10. I # {} <=> \E g \in gs : g < we /\ we <= g + span
  <2>1. ASSUME I # {} PROVE \E g \in gs : g < we /\ we <= g + span
    <3>1. PICK i \in I : TRUE
      BY <2>1
    <3>2. PICK s \in starts : we > s /\ we <= top(s) + span
      BY <1>1
    <3> HIDE DEF I, top, starts
    <3> QED BY <1>6, <3>2
  <2> HIDE DEF I
  <2> QED BY <1>7, <2>1
<1> HIDE DEF I
<1> QED BY <1>9, <1>10 DEF I

-----------------------------------------------------------------------------
(* What trends read.                                                        *)

\* A lease that covers a span holds every event of it.
LEMMA ReadsWithin ==
    ASSUME SourceInv, NEW dates, NEW from \in Int, NEW to \in Int, NEW a \in Int, NEW b \in Int,
           from <= a, b <= to
    PROVE  relation(leased_for(dates, [from |-> from, to |-> to]), a, b) = Between(a, b)
<1> DEFINE f == files([from |-> from, to |-> to])
<1>1. relation(f, a, to) = Between(a, to)
  BY LeasedHoldTheSpan DEF Between
<1>2. f \subseteq events
  BY DEF files
<1>3. \A e \in events : e.ts \in Int
  BY StoredAreInstants DEF Instants, MAX_US
<1> HIDE DEF f
<1>4. relation(f, a, b) = Between(a, b)
  BY <1>1, <1>2, <1>3 DEF relation, Between
<1>5. relation(events, a, b) = Between(a, b)
  BY DEF relation, Between
<1> QED BY <1>4, <1>5 DEF leased_for, f

\* Where the buckets of a range end: none before the first does.
LEMMA BucketEnds ==
    ASSUME NEW r, RangeOK(r), NEW k \in 1..Len(buckets(r))
    PROVE  LET bs == buckets(r) IN
           /\ bs[1] \in Int /\ bs[k] \in Int /\ next_bucket(bs[1], r.interval) \in Int
           /\ next_bucket(bs[k], r.interval) \in Int
           /\ bs[1] <= bs[k] /\ bs[k] < next_bucket(bs[k], r.interval)
           /\ next_bucket(bs[1], r.interval) <= next_bucket(bs[k], r.interval)
<1> DEFINE bs == buckets(r)
           i == r.interval
           n == Len(bs)
<1>1. i \in Intervals /\ r.to \in Int /\ r.to <= MAX_US /\ MAX_US \in Int
  BY DEF RangeOK, MAX_US
<1>2. n \in Nat \ {0} /\ k \in 1..n /\ 1 \in 1..n
  BY BucketsOf
<1>3. /\ \A j \in 1..n : bs[j] \in Int /\ Start(bs[j], i) /\ bs[j] < r.to
      /\ \A j \in 1..(n - 1) : bs[j + 1] = next_bucket(bs[j], i)
      /\ \A j, m \in 1..n : j < m => bs[j] < bs[m]
  BY BucketsOf
<1> HIDE DEF bs, i, n
<1>4. \A j \in 1..n : next_bucket(bs[j], i) \in Int /\ bs[j] < next_bucket(bs[j], i)
  <2> SUFFICES ASSUME NEW j \in 1..n PROVE next_bucket(bs[j], i) \in Int /\ bs[j] < next_bucket(bs[j], i)
    OBVIOUS
  <2>1. bs[j] \in Int /\ Start(bs[j], i) /\ bs[j] < MAX_US
    BY <1>1, <1>3
  <2> QED BY <1>1, <2>1, NextBucket
<1>5. bs[1] <= bs[k] /\ next_bucket(bs[1], i) <= next_bucket(bs[k], i)
  <2>1. CASE k = 1
    BY <1>2, <1>3, <1>4, <2>1
  <2>2. CASE k # 1
    <3>1. 1 \in 1..(n - 1) /\ 1 + 1 = 2 /\ 2 \in 1..n /\ 2 <= k /\ 1 < k
      BY <1>2, <2>2
    <3>2. bs[2] = next_bucket(bs[1], i) /\ bs[1] < bs[k]
      BY <1>2, <1>3, <3>1
    <3>3. bs[2] <= bs[k]
      <4>1. k = 2 \/ 2 < k
        BY <1>2, <3>1
      <4> QED BY <1>2, <1>3, <3>1, <4>1
    <3> QED BY <1>2, <1>3, <1>4, <3>1, <3>2, <3>3
  <2> QED BY <2>1, <2>2
<1> QED BY <1>2, <1>3, <1>4, <1>5 DEF bs, i, n

\* Trailing windows are whole days.
LEMMA WindowDays ==
    ASSUME NEW math
    PROVE  window_days(math) \in Nat /\ window_days(math) % 2 = 0
BY TrendsAssumption DEF window_days, WEEK_US, DAY_US, HOUR_US

\* Where the windows of a range's buckets begin.
LEMMA WindowsBegin ==
    ASSUME NEW r, RangeOK(r), NEW node
    PROVE  LET bs == buckets(r)
               wf == WindowsFrom(node, r, bs)
           IN /\ wf \in Int /\ wf <= r.from
              /\ \A k \in 1..Len(bs) : /\ WindowOf(node, r, bs, k).start \in Int
                                       /\ WindowOf(node, r, bs, k).end = next_bucket(bs[k], r.interval)
                                       /\ window_days(node.math) # 0 => wf <= WindowOf(node, r, bs, k).start
              /\ window_days(node.math) = 0 => wf = r.from
              /\ wf = r.from \/ wf >= next_bucket(bs[1], r.interval) - window_days(node.math)
<1> DEFINE bs == buckets(r)
           i == r.interval
           n == Len(bs)
           d == window_days(node.math)
           wf == WindowsFrom(node, r, bs)
           w(k) == WindowOf(node, r, bs, k)
           S == {w(k).start : k \in DOMAIN bs} \cup {r.from}
<1>1. DOMAIN bs = 1..n /\ n \in Nat
  BY BucketsOf
<1>2. r.from \in Int
  BY DEF RangeOK, Instants, MAX_US
<1>3. \A k \in 1..n : /\ bs[k] \in Int /\ next_bucket(bs[k], i) \in Int
                      /\ next_bucket(bs[1], i) \in Int /\ next_bucket(bs[1], i) <= next_bucket(bs[k], i)
  BY BucketEnds
<1>4. d \in Nat
  BY WindowDays
<1>5. \A k : w(k) = IF d = 0 THEN [start |-> bs[k], end |-> next_bucket(bs[k], i)]
                    ELSE [start |-> next_bucket(bs[k], i) - d, end |-> next_bucket(bs[k], i)]
  <2> HIDE DEF bs, d
  <2> QED BY DEF WindowOf, d
<1> HIDE DEF bs, d, i, n
<1>6. \A k \in 1..n : /\ w(k).start \in Int /\ w(k).end = next_bucket(bs[k], i)
                      /\ d # 0 => w(k).start >= next_bucket(bs[1], i) - d
  BY <1>3, <1>4, <1>5
<1>7. CASE d = 0
  <2>1. wf = r.from
    BY <1>7 DEF WindowsFrom, d
  <2> QED BY <1>2, <1>6, <1>7, <2>1 DEF bs, d, i, n
<1>8. CASE d # 0
  <2>1. wf = Min(S)
    BY <1>8 DEF WindowsFrom, d
  <2>2. S \subseteq Int /\ S # {}
    <3> HIDE DEF w
    <3> QED BY <1>1, <1>2, <1>6
  <2>3. IsFiniteSet(S)
    <3> DEFINE T == {w(k).start : k \in 1..n}
    <3>1. 1 \in Int /\ n \in Int
      BY <1>1
    <3>2. IsFiniteSet(1..n)
      BY <3>1, FS_Interval
    <3>3. [k \in 1..n |-> w(k).start] \in Surjection(1..n, T)
      BY DEF Surjection
    <3>4. IsFiniteSet(T)
      <4> HIDE DEF T, w
      <4> QED BY <3>2, <3>3, FS_Surjection
    <3>5. S = T \cup {r.from}
      <4> HIDE DEF w
      <4> QED BY <1>1
    <3> HIDE DEF T, S
    <3> QED BY <3>4, <3>5, FS_AddElement
  <2>4. \A k \in 1..n : w(k).start \in S
    BY <1>1
  <2>5. r.from \in S /\ \A x \in S : x = r.from \/ x >= next_bucket(bs[1], i) - d
    <3>1. \A x \in S : x = r.from \/ \E k \in 1..n : x = w(k).start
      BY <1>1
    <3> HIDE DEF w
    <3> QED BY <1>6, <1>8, <3>1
  <2> HIDE DEF S, w
  <2>6. Min(S) \in S /\ \A x \in S : Min(S) <= x
    BY <2>2, <2>3, FiniteMin
  <2>7. /\ wf \in Int /\ wf <= r.from
        /\ \A k \in 1..n : w(k).start \in Int /\ w(k).end = next_bucket(bs[k], i) /\ wf <= w(k).start
        /\ wf = r.from \/ wf >= next_bucket(bs[1], i) - d
    BY <1>6, <2>1, <2>2, <2>4, <2>5, <2>6
  <2> QED BY <1>8, <2>7 DEF w, bs, d, i, n
<1> QED BY <1>7, <1>8

\* A question about trends.
TrendQuestion(q) ==
    /\ q.interval \in Intervals /\ DatesOK(q.dates) /\ FiltersOK(q.properties)
    /\ DOMAIN q.series # {} /\ IsFiniteSet(DOMAIN q.series)
    /\ \A k \in DOMAIN q.series : q.series[k].math \in Maths /\ FiltersOK(q.series[k].properties)
    /\ q.compare =>
          \A first \in Instants :
              LET r == resolve(q.dates, q.interval, first)
              IN r # NoRange => previous(r).from \in Instants

\* The periods of a query lie in the calendar, the current one ends last, and what is
\* leased begins before any of them and any of their windows.
LEMMA PeriodsLeased ==
    ASSUME SourceInv, NEW q, TrendQuestion(q), TrendsAnswered(q), NEW p \in DOMAIN trends_plan(q).periods
    PROVE  LET tp == trends_plan(q)
               r == tp.periods[p]
               lf == trends_load_from(tp)
           IN /\ RangeOK(r) /\ r.to <= tp.range.to /\ RangeOK(tp.range)
              /\ lf \in Int /\ lf <= r.from
              /\ \A k \in DOMAIN q.series : lf <= WindowsFrom(q.series[k], r, buckets(r))
<1> DEFINE tp == trends_plan(q)
           c == resolve(q.dates, q.interval, earliest)
           r == tp.periods[p]
           lf == trends_load_from(tp)
           D == DOMAIN tp.periods
           days == {window_days(q.series[k].math) : k \in DOMAIN q.series}
           begin(x) == next_bucket(buckets(x)[1], x.interval) - tp.window
           reach(x) == {x.from} \cup (IF tp.window > 0 THEN {begin(x)} ELSE {})
           S == UNION {reach(tp.periods[k]) : k \in D}
<1>1. /\ tp.range = c /\ tp.window = Max(days)
      /\ tp.periods = IF q.compare THEN <<c, previous(c)>> ELSE <<c>>
  BY DEF trends_plan
<1>2. RangeOK(c) /\ c.interval = q.interval /\ c # NoRange /\ (q.compare => previous(c).from \in Instants)
  <2>1. c # NoRange
    BY DEF TrendsAnswered
  <2>2. earliest \in Instants
    BY Earliest
  <2> QED BY <2>1, <2>2, Resolves DEF TrendQuestion
<1>3. c.to \in Int /\ c.from \in Int /\ c.from < c.to /\ c.to <= MAX_US /\ MAX_US \in Int
  BY <1>2 DEF RangeOK, Instants, MAX_US
<1>4. q.compare => RangeOK(previous(c)) /\ previous(c).to <= c.to
  <2>1. c = [c EXCEPT !.from = c.from] \/ TRUE
    OBVIOUS
  <2>2. c = [from |-> c.from, to |-> c.to, interval |-> c.interval]
    BY <1>2 DEF resolve
  <2> DEFINE x == previous(c)
  <2>3. x = [from |-> c.from - (c.to - c.from), to |-> c.from, interval |-> c.interval]
    <3> HIDE DEF c
    <3>1. x = [[from |-> c.from, to |-> c.to, interval |-> c.interval]
                 EXCEPT !.from = c.from - (c.to - c.from), !.to = c.from]
      BY <2>2 DEF previous
    <3> QED BY <3>1
  <2> HIDE DEF c
  <2> QED BY <1>2, <1>3, <2>3 DEF RangeOK
<1> HIDE DEF c
<1>5. /\ D \subseteq {1, 2} /\ D # {} /\ IsFiniteSet(D)
      /\ \A k \in D : tp.periods[k] = c \/ (q.compare /\ tp.periods[k] = previous(c))
  <2>1. IsFiniteSet({1, 2})
    <3>1. IsFiniteSet({1})
      BY FS_Singleton
    <3>2. {1, 2} = {1} \cup {2}
      OBVIOUS
    <3> QED BY <3>1, <3>2, FS_AddElement
  <2>2. D \in SUBSET {1, 2} /\ D # {}
    <3> HIDE DEF tp
    <3> QED BY <1>1
  <2>3. \A k \in D : tp.periods[k] = c \/ (q.compare /\ tp.periods[k] = previous(c))
    <3> DEFINE ps == tp.periods
    <3>1. CASE q.compare
      <4>1. ps = <<c, previous(c)>>
        BY <1>1, <3>1
      <4>2. ps[1] = c /\ ps[2] = previous(c)
        <5> HIDE DEF ps
        <5> QED BY <4>1
      <4>3. \A k \in {1, 2} : ps[k] = c \/ ps[k] = previous(c)
        <5> HIDE DEF ps
        <5> QED BY <4>2
      <4> HIDE DEF ps, D
      <4>4. \A k \in D : ps[k] = c \/ ps[k] = previous(c)
        BY <2>2, <4>3
      <4> QED BY <3>1, <4>4 DEF ps
    <3>2. CASE ~q.compare
      <4>1. ps = <<c>>
        BY <1>1, <3>2
      <4>2. DOMAIN ps = {1} /\ ps[1] = c
        <5> HIDE DEF ps
        <5> QED BY <4>1
      <4>3. D = {1}
        BY <4>2
      <4> HIDE DEF ps, D
      <4>4. \A k \in D : ps[k] = c
        BY <4>2, <4>3
      <4> QED BY <4>4 DEF ps
    <3> QED BY <3>1, <3>2
  <2> HIDE DEF D
  <2> QED BY <2>1, <2>2, <2>3, FS_Subset
<1>6. \A k \in D : RangeOK(tp.periods[k]) /\ tp.periods[k].to <= c.to
  <2> HIDE DEF tp, D
  <2> QED BY <1>2, <1>3, <1>4, <1>5
<1>7. tp.window \in Nat /\ \A k \in DOMAIN q.series : window_days(q.series[k].math) <= tp.window
  <2>1. days \subseteq Int /\ days # {} /\ \A d \in days : d \in Nat
    BY WindowDays DEF TrendQuestion
  <2>2. [k \in DOMAIN q.series |-> window_days(q.series[k].math)] \in Surjection(DOMAIN q.series, days)
    BY DEF Surjection
  <2>3. IsFiniteSet(days)
    BY <2>2, FS_Surjection DEF TrendQuestion
  <2>4. \A k \in DOMAIN q.series : window_days(q.series[k].math) \in days
    OBVIOUS
  <2> HIDE DEF days
  <2>5. Max(days) \in days /\ \A d \in days : d <= Max(days)
    BY <2>1, <2>3, FiniteMax
  <2> QED BY <1>1, <2>1, <2>4, <2>5
<1>8. lf = Min(S)
  BY DEF trends_load_from
<1>9. \A k \in D : /\ tp.periods[k].from \in Int /\ begin(tp.periods[k]) \in Int
                   /\ IsFiniteSet(reach(tp.periods[k])) /\ reach(tp.periods[k]) \subseteq Int
  <2> SUFFICES ASSUME NEW k \in D
               PROVE  /\ tp.periods[k].from \in Int /\ begin(tp.periods[k]) \in Int
                      /\ IsFiniteSet(reach(tp.periods[k])) /\ reach(tp.periods[k]) \subseteq Int
    OBVIOUS
  <2> DEFINE x == tp.periods[k]
  <2>1. RangeOK(x) /\ x.from \in Int
    BY <1>6 DEF RangeOK, Instants, MAX_US
  <2>2. next_bucket(buckets(x)[1], x.interval) \in Int
    <3> HIDE DEF x
    <3>1. 1 \in 1..Len(buckets(x))
      BY <2>1, BucketsOf
    <3> QED BY <2>1, <3>1, BucketEnds
  <2>3. begin(x) \in Int
    <3> HIDE DEF x
    <3> QED BY <1>7, <2>2
  <2> HIDE DEF x, begin
  <2>4. IsFiniteSet({x.from}) /\ IsFiniteSet({x.from} \cup {begin(x)}) /\ {x.from} \cup {} = {x.from}
    BY FS_Singleton, FS_AddElement
  <2> QED BY <2>1, <2>3, <2>4 DEF x
<1>10. S \subseteq Int /\ IsFiniteSet(S) /\ S # {}
  <2>1. S = UNION {reach(tp.periods[k]) : k \in D}
    OBVIOUS
  <2>2. S \subseteq Int
    <3> HIDE DEF reach, D, tp
    <3> QED BY <1>9
  <2>3. S # {}
    <3>1. \A k \in D : tp.periods[k].from \in S
      OBVIOUS
    <3> HIDE DEF S, D, tp
    <3> QED BY <1>5, <3>1
  <2>4. IsFiniteSet(S)
    <3> DEFINE R == {reach(tp.periods[k]) : k \in D}
    <3>1. [k \in D |-> reach(tp.periods[k])] \in Surjection(D, R)
      BY DEF Surjection
    <3>2. IsFiniteSet(R)
      <4> HIDE DEF R, D
      <4> QED BY <1>5, <3>1, FS_Surjection
    <3>3. \A U \in R : IsFiniteSet(U)
      <4> HIDE DEF reach, D
      <4> QED BY <1>9
    <3> HIDE DEF R
    <3>4. IsFiniteSet(UNION R)
      BY <3>2, <3>3, FS_UNION
    <3> QED BY <3>4 DEF R
  <2> QED BY <2>2, <2>3, <2>4
<1>11. r.from \in S /\ (tp.window > 0 => begin(r) \in S)
  <2>1. p \in D /\ reach(r) \in {reach(tp.periods[k]) : k \in D}
    OBVIOUS
  <2>2. reach(r) \subseteq S
    <3> HIDE DEF reach
    <3> QED BY <2>1
  <2> HIDE DEF S
  <2> QED BY <2>2
<1>12. lf \in Int /\ lf <= r.from /\ (tp.window > 0 => lf <= begin(r))
  <2> HIDE DEF S, lf
  <2>1. Min(S) \in S /\ \A x \in S : Min(S) <= x
    BY <1>10, FiniteMin
  <2> QED BY <1>8, <1>10, <1>11, <2>1
<1>13. ASSUME NEW k \in DOMAIN q.series PROVE lf <= WindowsFrom(q.series[k], r, buckets(r))
  <2> DEFINE wf == WindowsFrom(q.series[k], r, buckets(r))
             d == window_days(q.series[k].math)
             b == next_bucket(buckets(r)[1], r.interval)
  <2>1. wf \in Int /\ (d = 0 => wf = r.from) /\ (wf = r.from \/ wf >= b - d)
    <3>1. RangeOK(r)
      BY <1>6
    <3> HIDE DEF r
    <3> QED BY <3>1, WindowsBegin
  <2>2. b \in Int
    <3>1. RangeOK(r)
      BY <1>6
    <3> HIDE DEF r
    <3>2. 1 \in 1..Len(buckets(r))
      BY <3>1, BucketsOf
    <3> QED BY <3>1, <3>2, BucketEnds
  <2>3. d \in Nat /\ d <= tp.window /\ tp.window \in Nat
    BY <1>7, WindowDays
  <2>4. begin(r) = b - tp.window
    OBVIOUS
  <2> HIDE DEF wf, d, b, begin, lf, tp
  <2> QED BY <1>12, <2>1, <2>2, <2>3, <2>4 DEF wf
<1> HIDE DEF D
<1>14. RangeOK(r) /\ r.to <= c.to
  BY <1>6 DEF D
<1> QED BY <1>1, <1>2, <1>12, <1>13, <1>14

\* The engine ranks breakdown values as the oracle does.
LEMMA TopsAgree ==
    ASSUME SourceInv, NEW q, FiltersOK(q.properties), NEW node, FiltersOK(node.properties),
           NEW r, NEW leased, relation(leased, r.from, r.to) = Between(r.from, r.to)
    PROVE  top_values(q, node, r, leased) = OracleRanking(q, node, r)
<1> DEFINE ev == {e \in relation(leased, r.from, r.to) : predicate(e, q, node)}
           oev == {e \in events : in_range(e, r) /\ OracleMatches(e, q, node)}
           values == {Text(e, q) : e \in oev}
           num(v) == Cardinality({e \in oev : Text(e, q) = v})
           counts == [v \in values |-> num(v)]
           above(v, w) == num(w) > num(v) \/ (num(w) = num(v) /\ w < v)
           before(v, w) == counts[v] > counts[w] \/ (counts[v] = counts[w] /\ v < w)
<1>1. ev = oev
  <2>1. \A e \in events : predicate(e, q, node) <=> OracleMatches(e, q, node)
    BY PredicateAgrees
  <2> QED BY <2>1 DEF Between, in_range
<1>2. top_values(q, node, r, leased)
        = [values |-> {v \in values : Cardinality({w \in values : above(v, w)}) < q.breakdown.limit},
           other |-> Cardinality(values) > q.breakdown.limit]
  BY <1>1 DEF top_values
<1>3. DOMAIN counts = values
  OBVIOUS
<1>4. OracleRanking(q, node, r)
        = [values |-> {v \in values : Cardinality({w \in values : before(w, v)}) < q.breakdown.limit},
           other |-> Cardinality(values) > q.breakdown.limit]
  BY <1>3 DEF OracleRanking
<1>5. \A v \in values : {w \in values : above(v, w)} = {w \in values : before(w, v)}
  <2>1. \A v \in values : counts[v] = num(v)
    OBVIOUS
  <2> HIDE DEF counts, num, values
  <2> QED BY <2>1
<1> HIDE DEF values, above, before
<1> QED BY <1>2, <1>4, <1>5

-----------------------------------------------------------------------------
(* The window plan.                                                         *)

\* Rows of people, and the people who have some.
RowsOfPeople(P, f) == UNION {{p} \X f[p] : p \in P}
PeopleWithRows(P, f) == {p \in P : f[p] # {}}

\* Rows of people with at most one each are as many as the people with one.
LEMMA PairsCount ==
    ASSUME NEW P, IsFiniteSet(P), NEW f, \A p \in P : \A i, j \in f[p] : i = j
    PROVE  Cardinality(RowsOfPeople(P, f)) = Cardinality(PeopleWithRows(P, f))
<1> DEFINE U == UNION {{p} \X f[p] : p \in P}
           Q == {p \in P : f[p] # {}}
           h == [p \in Q |-> <<p, CHOOSE i : i \in f[p]>>]
<1>1. IsFiniteSet(Q)
  BY FS_Subset
<1>2. \A x : x \in U <=> \E p \in P : \E i \in f[p] : x = <<p, i>>
  OBVIOUS
<1>3. \A p \in Q : (CHOOSE i : i \in f[p]) \in f[p] /\ h[p] = <<p, CHOOSE i : i \in f[p]>>
  OBVIOUS
<1>4. h \in [Q -> U]
  <2> HIDE DEF U
  <2>1. \A p \in Q : h[p] \in U
    BY <1>2, <1>3
  <2> QED BY <2>1
<1>5. \A p1, p2 \in Q : h[p1] = h[p2] => p1 = p2
  <2> HIDE DEF Q, h
  <2> QED BY <1>3
<1>6. \A x \in U : \E p \in Q : h[p] = x
  <2> SUFFICES ASSUME NEW x \in U PROVE \E p \in Q : h[p] = x
    OBVIOUS
  <2>0. PICK p \in P : \E i \in f[p] : x = <<p, i>>
    BY <1>2
  <2>1. PICK i \in f[p] : x = <<p, i>>
    BY <2>0
  <2>2. p \in Q
    BY <2>1
  <2>3. (CHOOSE j : j \in f[p]) = i
    BY <2>1
  <2>4. h[p] = x
    BY <1>3, <2>1, <2>2, <2>3
  <2> QED BY <2>2, <2>4
<1> HIDE DEF U, Q, h
<1>7. h \in Bijection(Q, U)
  <2>1. h \in Injection(Q, U)
    BY <1>4, <1>5 DEF Injection, IsInjective
  <2>2. h \in Surjection(Q, U)
    BY <1>4, <1>6 DEF Surjection
  <2> QED BY <2>1, <2>2 DEF Bijection
<1>8. Cardinality(U) = Cardinality(Q)
  BY <1>1, <1>7, FS_Bijection DEF ExistsBijection
<1> QED BY <1>8 DEF U, Q, RowsOfPeople, PeopleWithRows

\* Where a bucket of whole days ends, a day ends.
LEMMA EndsOnDays ==
    ASSUME NEW i \in Intervals, i # "hour", NEW s, Start(s, i)
    PROVE  next_bucket(s, i) % 2 = 0
<1>1. CASE i = "month"
  <2>1. s \in Int
    BY <1>1 DEF Start, MonthStarts
  <2>2. next_bucket(s, "month") \in MonthStarts \cup {MAX_US}
    BY <2>1, Months
  <2>3. \A m \in MonthStarts \cup {MAX_US} : m % 2 = 0
    BY DEF MonthStarts, MAX_US
  <2> QED BY <1>1, <2>2, <2>3
<1>2. CASE i = "day"
  BY <1>2 DEF Start, next_bucket, DAY_US, HOUR_US
<1>3. CASE i = "week"
  BY <1>3 DEF Start, next_bucket, WEEK_US, DAY_US, HOUR_US
<1> QED BY <1>1, <1>2, <1>3 DEF Intervals

\* A granule covers a window's end when the instant is in the window.
LEMMA GranuleCovers ==
    ASSUME NEW i \in Intervals, NEW t \in Instants, NEW we \in Int, NEW span \in Nat, span % 2 = 0,
           i # "hour" => we % 2 = 0
    PROVE  LET g == bucket_expr(granule(i), t) IN
           g \in Int /\ (g < we /\ we <= g + span <=> we - span <= t /\ t < we)
<1>1. granule(i) \in Intervals /\ t \in Int
  BY DEF granule, Intervals, Instants, MAX_US
<1>2. bucket_expr(granule(i), t) = trunc(t, granule(i))
  BY <1>1, Truncates
<1>3. CASE i = "hour"
  <2>1. trunc(t, granule(i)) = t
    BY <1>1, <1>3 DEF granule, trunc, floor_to, HOUR_US
  <2> QED BY <1>1, <1>2, <2>1
<1>4. CASE i # "hour"
  <2> DEFINE g == trunc(t, granule(i))
  <2>1. g \in Int /\ g % 2 = 0 /\ g <= t /\ t < g + 2
    BY <1>1, <1>4 DEF granule, trunc, floor_to, DAY_US, HOUR_US
  <2> HIDE DEF g
  <2>2. we % 2 = 0
    BY <1>4
  <2>3. g < we /\ we <= g + span <=> we - span <= t /\ t < we
    BY <1>1, <2>1, <2>2
  <2> QED BY <1>2, <2>1, <2>3 DEF g
<1> QED BY <1>3, <1>4

\* The people of some events.
PeopleOf(evs) == {person_id(e) : e \in evs}

\* The oracle's cell of a series and a key.
OracleCell(q, node, rk, key, r, bs) ==
    [data |-> [k \in DOMAIN bs |-> math_value(node.math, OraclePoint(q, node, rk, key, r, bs[k]))],
     aggregated |-> math_value(node.math, OracleEvents(q, node, rk, key, r.from, r.to))]

\* A series of people counts people.
LEMMA CountsPeople ==
    ASSUME NEW math \in Maths, needs_person(math), NEW evs
    PROVE  math_value(math, evs) = Cardinality(PeopleOf(evs))
BY DEF math_value, aggregate, PeopleOf

\* The smaller of two.
LEMMA MinOfTwo ==
    ASSUME NEW a \in Int, NEW b \in Int
    PROVE  Min({a, b}) \in {a, b} /\ Min({a, b}) <= a /\ Min({a, b}) <= b
<1>1. CASE a <= b
  <2>1. Min({a, b}) = a
    BY <1>1, MinIs
  <2> QED BY <1>1, <2>1
<1>2. CASE ~(a <= b)
  <2>1. Min({a, b}) = b
    BY <1>2, MinIs
  <2> QED BY <1>2, <2>1
<1> QED BY <1>1, <1>2

\* The events of a series and a key in a window, as far as the range reads.
Within(q, node, top, key, r, from, start, end) ==
    {e \in events : /\ from <= e.ts /\ e.ts < r.to /\ start <= e.ts /\ e.ts < end
                    /\ OracleMatches(e, q, node) /\ mapped_breakdown(e, q, top) = key}

\* The events of a point are those in the bucket's window, as far as the range reads.
LEMMA PointIs ==
    ASSUME SourceInv, NEW r, RangeOK(r), NEW q, NEW node, NEW top, NEW key, NEW k \in 1..Len(buckets(r))
    PROVE  OraclePoint(q, node, top, key, r, buckets(r)[k])
             = Within(q, node, top, key, r, WindowsFrom(node, r, buckets(r)),
                      WindowOf(node, r, buckets(r), k).start, WindowOf(node, r, buckets(r), k).end)
<1> DEFINE bs == buckets(r)
           i == r.interval
           d == window_days(node.math)
           we == next_bucket(bs[k], i)
           w == WindowOf(node, r, bs, k)
           wf == WindowsFrom(node, r, bs)
           point == OraclePoint(q, node, top, key, r, bs[k])
           fits(e) == OracleMatches(e, q, node) /\ mapped_breakdown(e, q, top) = key
           R == Within(q, node, top, key, r, wf, w.start, w.end)
<1>0. R = {e \in events : wf <= e.ts /\ e.ts < r.to /\ w.start <= e.ts /\ e.ts < w.end /\ fits(e)}
  <2> HIDE DEF bs, wf, w
  <2> QED BY DEF Within
<1> HIDE DEF R
<1>1. i \in Intervals /\ r.to \in Int /\ r.from \in Int /\ d \in Nat
  BY WindowDays DEF RangeOK, Instants, MAX_US
<1>2. \A e \in events : e.ts \in Instants /\ e.ts \in Int
  <2>1. \A e \in events : e.ts \in Instants
    BY StoredAreInstants
  <2>2. Instants \subseteq Int
    BY DEF Instants, MAX_US
  <2> QED BY <2>1, <2>2
<1>3. /\ wf \in Int /\ (d = 0 => wf = r.from) /\ (d # 0 => wf <= w.start)
      /\ w.start \in Int /\ w.end = we
  BY WindowsBegin
<1>4. bs[k] \in Int /\ Start(bs[k], i) /\ we \in Int
  BY BucketsOf, BucketEnds
<1>5. w.start = IF d = 0 THEN bs[k] ELSE we - d
  <2> HIDE DEF bs
  <2> QED BY DEF WindowOf, d, we, i
<1> HIDE DEF bs, wf, w, we, i
<1>6. CASE d = 0
  <2>1. \A e \in events : bucket_of(e.ts, i) = bs[k] <=> bs[k] <= e.ts /\ e.ts < we
    <3> SUFFICES ASSUME NEW e \in events
                 PROVE  bucket_of(e.ts, i) = bs[k] <=> bs[k] <= e.ts /\ e.ts < we
      OBVIOUS
    <3> DEFINE b == bs[k]
               t == e.ts
    <3>1. t \in Instants /\ t \in Int /\ Start(b, i)
      BY <1>2, <1>4
    <3>2. Holds(b, t, i) <=> b <= t /\ t < we
      BY <3>1 DEF Holds, we
    <3> HIDE DEF b, t
    <3>3. Holds(bucket_of(t, i), t, i)
      BY <1>1, <3>1, Truncates
    <3>4. bucket_of(t, i) = b <=> Holds(b, t, i)
      BY <1>1, <3>1, <3>3, OneBucket
    <3> QED BY <3>2, <3>4 DEF b, t
  <2>2. point = {e \in events : /\ r.from <= e.ts /\ e.ts < r.to /\ fits(e)
                                /\ bucket_of(e.ts, i) = bs[k]}
    BY <1>6 DEF OraclePoint, OracleEvents, i
  <2>3. point = R
    <3> HIDE DEF point, fits
    <3> QED BY <1>0, <1>3, <1>5, <1>6, <2>1, <2>2
  <2> QED BY <2>3 DEF bs, w, wf, R
<1>7. CASE d # 0
  <2> DEFINE m == Min({we, r.to})
  <2>1. m \in {we, r.to} /\ m <= we /\ m <= r.to
    BY <1>1, <1>4, MinOfTwo
  <2>2. \A e \in events : e.ts < m <=> e.ts < we /\ e.ts < r.to
    <3> HIDE DEF m
    <3> QED BY <1>1, <1>2, <1>4, <2>1
  <2>3. point = OracleEvents(q, node, top, key, we - d, m)
    BY <1>7 DEF OraclePoint, we, i
  <2>4. \A e \in events : w.start <= e.ts => wf <= e.ts
    BY <1>2, <1>3, <1>7
  <2>5. point = R
    <3> HIDE DEF m, point, d
    <3> QED BY <1>0, <1>3, <1>5, <1>7, <2>2, <2>3, <2>4 DEF OracleEvents
  <2> QED BY <2>5 DEF bs, w, wf, R
<1> QED BY <1>6, <1>7

\* Counting islands counts the people of each point.
LEMMA WindowPlanExact ==
    ASSUME SourceInv, NEW q, FiltersOK(q.properties), NEW node, FiltersOK(node.properties),
           node.math \in Maths, window_days(node.math) > 0,
           NEW r, RangeOK(r), NEW top, NEW leased,
           LET wf == WindowsFrom(node, r, buckets(r)) IN relation(leased, wf, r.to) = Between(wf, r.to)
    PROVE  WindowPlan(q, node, r, buckets(r), top, leased)
             = [key \in KeysOf(q, top) |-> OracleCell(q, node, top, key, r, buckets(r))]
<1> DEFINE bs == buckets(r)
           i == r.interval
           span == window_days(node.math)
           wf == WindowsFrom(node, r, bs)
           ev == {e \in relation(leased, wf, r.to) : predicate(e, q, node)}
           people == {person_id(e) : e \in ev}
           mine(p, key) == {e \in ev : person_id(e) = p /\ mapped_breakdown(e, q, top) = key}
           gs(p, key) == {bucket_expr(granule(i), e.ts) : e \in mine(p, key)}
           isl(p, key, we) == {x \in Islands(gs(p, key), span) : we > x.s /\ we <= x.e}
           hits(key, we) == UNION {{p} \X isl(p, key, we) : p \in people}
           whole(key) == {person_id(e) : e \in {e \in ev : e.ts >= r.from /\ mapped_breakdown(e, q, top) = key}}
           cell(key) == [data |-> [k \in DOMAIN bs |-> Cardinality(hits(key, next_bucket(bs[k], i)))],
                         aggregated |-> Cardinality(whole(key))]
<1>1. span \in Nat \ {0} /\ span % 2 = 0 /\ i \in Intervals /\ r.from \in Int /\ r.to \in Int
  BY WindowDays DEF RangeOK, Instants, MAX_US
<1>2. needs_person(node.math)
  BY DEF window_days, needs_person, Maths
<1>3. /\ DOMAIN bs = 1..Len(bs)
      /\ wf \in Int /\ wf <= r.from
      /\ \A k \in DOMAIN bs : /\ Start(bs[k], i) /\ next_bucket(bs[k], i) \in Int
                              /\ wf <= next_bucket(bs[k], i) - span
  <2>1. /\ DOMAIN bs = 1..Len(bs)
        /\ \A k \in 1..Len(bs) : Start(bs[k], i)
    BY BucketsOf
  <2>2. \A k \in 1..Len(bs) : next_bucket(bs[k], i) \in Int
    BY BucketEnds
  <2>3. /\ wf \in Int /\ wf <= r.from
        /\ \A k \in 1..Len(bs) : wf <= WindowOf(node, r, bs, k).start
    BY <1>1, WindowsBegin
  <2>4. \A k : WindowOf(node, r, bs, k).start = next_bucket(bs[k], i) - span
    <3> HIDE DEF bs
    <3> QED BY <1>1 DEF WindowOf
  <2> HIDE DEF bs, wf
  <2> QED BY <2>1, <2>2, <2>3, <2>4
<1>4. \A e \in events : e.ts \in Instants /\ e.ts \in Int
  BY StoredAreInstants DEF Instants, MAX_US
<1>5. ev = {e \in events : wf <= e.ts /\ e.ts < r.to /\ OracleMatches(e, q, node)}
  <2>1. \A e \in events : predicate(e, q, node) <=> OracleMatches(e, q, node)
    BY PredicateAgrees
  <2>2. relation(leased, wf, r.to) = Between(wf, r.to)
    OBVIOUS
  <2> HIDE DEF wf
  <2> QED BY <2>1, <2>2 DEF Between
<1>6. ev \subseteq events /\ IsFiniteSet(ev)
  <2>1. ev \in SUBSET events
    BY <1>5
  <2> HIDE DEF ev
  <2> QED BY <2>1, FS_Subset DEF SourceInv
<1> HIDE DEF ev
<1>7. IsFiniteSet(people)
  <2>1. [e \in ev |-> person_id(e)] \in Surjection(ev, people)
    BY DEF Surjection
  <2> HIDE DEF people
  <2> QED BY <1>6, <2>1, FS_Surjection
<1>8. ASSUME NEW p, NEW key PROVE gs(p, key) \subseteq Int /\ IsFiniteSet(gs(p, key))
  <2> DEFINE M == mine(p, key)
  <2>1. M \in SUBSET ev
    OBVIOUS
  <2>2. IsFiniteSet(M) /\ \A e \in M : e.ts \in Instants
    <3> HIDE DEF M
    <3> QED BY <1>4, <1>6, <2>1, FS_Subset
  <2>3. [e \in M |-> bucket_expr(granule(i), e.ts)] \in Surjection(M, gs(p, key))
    BY DEF Surjection
  <2> HIDE DEF M
  <2>4. IsFiniteSet(gs(p, key))
    <3> HIDE DEF gs
    <3> QED BY <2>2, <2>3, FS_Surjection
  <2>5. \A e \in M : bucket_expr(granule(i), e.ts) \in Int
    <3> SUFFICES ASSUME NEW e \in M PROVE bucket_expr(granule(i), e.ts) \in Int
      OBVIOUS
    <3>1. e.ts \in Instants /\ 0 \in Int /\ 0 \in Nat /\ 0 % 2 = 0
      BY <2>2
    <3> HIDE DEF i
    <3> QED BY <1>1, <3>1, GranuleCovers
  <2> QED BY <2>4, <2>5 DEF M
<1>9. ASSUME NEW key, NEW k \in DOMAIN bs
      PROVE  Cardinality(hits(key, next_bucket(bs[k], i)))
               = Cardinality(PeopleOf(OraclePoint(q, node, top, key, r, bs[k])))
  <2> DEFINE we == next_bucket(bs[k], i)
             f == [p \in people |-> isl(p, key, we)]
             Q == {p \in people : f[p] # {}}
             point == OraclePoint(q, node, top, key, r, bs[k])
  <2>1. we \in Int /\ wf <= we - span /\ (i # "hour" => we % 2 = 0)
    <3> HIDE DEF bs, i, wf, span
    <3> QED BY <1>1, <1>3, EndsOnDays
  <2>2. ASSUME NEW p \in people
        PROVE  /\ \A x, y \in isl(p, key, we) : x = y
               /\ isl(p, key, we) # {} <=> \E g \in gs(p, key) : g < we /\ we <= g + span
    <3> HIDE DEF gs, span, we
    <3> QED BY <1>1, <1>8, <2>1, IslandsCover
  <2>3. hits(key, we) = UNION {{p} \X f[p] : p \in people}
    <3>1. \A p \in people : f[p] = isl(p, key, we)
      OBVIOUS
    <3> HIDE DEF f, isl, people
    <3> QED BY <3>1
  <2>4. Cardinality(hits(key, we)) = Cardinality(Q)
    <3>1. \A p \in people : \A x, y \in f[p] : x = y
      BY <2>2
    <3>2. Cardinality(RowsOfPeople(people, f)) = Cardinality(PeopleWithRows(people, f))
      <4> HIDE DEF f, hits, people
      <4> QED BY <1>7, <3>1, PairsCount
    <3>3. hits(key, we) = RowsOfPeople(people, f) /\ Q = PeopleWithRows(people, f)
      <4> HIDE DEF f, hits, people
      <4> QED BY <2>3 DEF RowsOfPeople, PeopleWithRows
    <3> QED BY <3>2, <3>3
  <2>5. point = {e \in events : /\ wf <= e.ts /\ e.ts < r.to /\ we - span <= e.ts /\ e.ts < we
                                /\ OracleMatches(e, q, node) /\ mapped_breakdown(e, q, top) = key}
    <3>1. WindowOf(node, r, bs, k) = [start |-> we - span, end |-> we]
      <4> HIDE DEF bs
      <4> QED BY <1>1 DEF WindowOf
    <3>2. k \in 1..Len(bs)
      BY <1>3
    <3> HIDE DEF we
    <3>3. point = Within(q, node, top, key, r, wf, we - span, we)
      <4>1. point = Within(q, node, top, key, r, wf, WindowOf(node, r, bs, k).start, WindowOf(node, r, bs, k).end)
        BY <3>2, PointIs
      <4> HIDE DEF bs, wf, point, span
      <4> QED BY <3>1, <4>1
    <3> HIDE DEF point, wf, span
    <3> QED BY <3>3 DEF Within
  <2>6. \A e : e \in point <=> e \in ev /\ mapped_breakdown(e, q, top) = key /\ we - span <= e.ts /\ e.ts < we
    <3> HIDE DEF we, wf, point
    <3> QED BY <1>5, <2>5
  <2>8. \A e \in ev : LET g == bucket_expr(granule(i), e.ts)
                      IN g < we /\ we <= g + span <=> we - span <= e.ts /\ e.ts < we
    <3> SUFFICES ASSUME NEW e \in ev
                 PROVE  LET g == bucket_expr(granule(i), e.ts)
                        IN g < we /\ we <= g + span <=> we - span <= e.ts /\ e.ts < we
      OBVIOUS
    <3>1. e.ts \in Instants
      BY <1>4, <1>6
    <3> HIDE DEF we, span, i
    <3> QED BY <1>1, <2>1, <3>1, GranuleCovers
  <2>9. \A p \in people : p \in Q <=> \E e \in mine(p, key) : we - span <= e.ts /\ e.ts < we
    <3> SUFFICES ASSUME NEW p \in people
                 PROVE  p \in Q <=> \E e \in mine(p, key) : we - span <= e.ts /\ e.ts < we
      OBVIOUS
    <3>1. p \in Q <=> \E g \in gs(p, key) : g < we /\ we <= g + span
      BY <2>2
    <3>2. \A e \in mine(p, key) : e \in ev
      OBVIOUS
    <3> HIDE DEF we, span, Q, mine
    <3> QED BY <2>8, <3>1, <3>2
  <2>10. Q = PeopleOf(point)
    <3>1. \A p \in Q : p \in people
      OBVIOUS
    <3>2. \A p : p \in people <=> \E e \in ev : p = person_id(e)
      OBVIOUS
    <3>3. \A p, e : e \in mine(p, key) <=> e \in ev /\ person_id(e) = p /\ mapped_breakdown(e, q, top) = key
      OBVIOUS
    <3> HIDE DEF Q, point, people, mine, we
    <3>4. \A p : p \in Q <=> \E e \in point : p = person_id(e)
      BY <2>6, <2>9, <3>1, <3>2, <3>3
    <3> QED BY <3>4 DEF PeopleOf
  <2> HIDE DEF hits, Q
  <2> QED BY <2>4, <2>10
<1>10. ASSUME NEW key PROVE whole(key) = PeopleOf(OracleEvents(q, node, top, key, r.from, r.to))
  <2>1. {e \in ev : e.ts >= r.from /\ mapped_breakdown(e, q, top) = key}
          = OracleEvents(q, node, top, key, r.from, r.to)
    <3> HIDE DEF wf
    <3> QED BY <1>1, <1>3, <1>4, <1>5 DEF OracleEvents
  <2> QED BY <2>1 DEF PeopleOf
<1>11. \A key : cell(key) = OracleCell(q, node, top, key, r, bs)
  <2> SUFFICES ASSUME NEW key PROVE cell(key) = OracleCell(q, node, top, key, r, bs)
    OBVIOUS
  <2>1. \A evs : math_value(node.math, evs) = Cardinality(PeopleOf(evs))
    BY <1>2, CountsPeople
  <2> HIDE DEF hits, whole, bs
  <2> QED BY <1>9, <1>10, <2>1 DEF OracleCell
<1>12. WindowPlan(q, node, r, bs, top, leased) = [key \in KeysOf(q, top) |-> cell(key)]
  <2> HIDE DEF bs
  <2> QED BY DEF WindowPlan, ev, wf, bs
<1> HIDE DEF cell
<1> QED BY <1>11, <1>12

-----------------------------------------------------------------------------
(* The masks.                                                               *)

\* The words of a mask whose bits are those of some events.
MaskWords(n, bit, E) ==
    [w \in 0 .. (n - 1) \div WordBits |-> {bit[e] % WordBits : e \in {e \in E : bit[e] \div WordBits = w}}]

\* A span of a mask has a bit when an event has one there.
LEMMA BitsAreSet ==
    ASSUME NEW n \in Nat \ {0}, NEW E, NEW bit, \A e \in E : bit[e] \in 0 .. n - 1, NEW lo \in Int, NEW hi \in Int
    PROVE  span_has_bit(MaskWords(n, bit, E), lo, hi) <=> \E e \in E : lo <= bit[e] /\ bit[e] < hi
<1> DEFINE words == MaskWords(n, bit, E)
           W == WordBits
           D == 0 .. (n - 1) \div W
<1>1. W \in Nat \ {0}
  BY TrendsAssumption
<1>2. DOMAIN words = D /\ \A w \in D : words[w] = {bit[e] % W : e \in {e \in E : bit[e] \div W = w}}
  BY DEF MaskWords
<1> HIDE DEF words, W
<1>3. \A x \in 0 .. n - 1 : x \div W \in D /\ x % W \in Int /\ (x \div W) * W + (x % W) = x
  BY <1>1
<1> HIDE DEF D
<1>4. \A w, b : w \in D /\ b \in words[w] <=> \E e \in E : w = bit[e] \div W /\ b = bit[e] % W
  <2>1. \A e \in E : bit[e] \div W \in D
    BY <1>3
  <2>2. \A w \in D : \A b : b \in words[w] <=> \E e \in E : bit[e] \div W = w /\ b = bit[e] % W
    <3> SUFFICES ASSUME NEW w \in D, NEW b
                 PROVE  b \in words[w] <=> \E e \in E : bit[e] \div W = w /\ b = bit[e] % W
      OBVIOUS
    <3>1. words[w] = {bit[e] % W : e \in {e \in E : bit[e] \div W = w}}
      BY <1>2
    <3> QED BY <3>1
  <2> QED BY <2>1, <2>2
<1>5. span_has_bit(words, lo, hi) <=> \E e \in E : (bit[e] \div W) * W + (bit[e] % W) \in lo .. hi - 1
  <2>1. span_has_bit(words, lo, hi) <=> \E w \in D : \E b \in words[w] : w * W + b \in lo .. hi - 1
    BY <1>2 DEF span_has_bit, W
  <2> QED BY <1>4, <2>1
<1>6. \A e \in E : (bit[e] \div W) * W + (bit[e] % W) = bit[e] /\ bit[e] \in Int
  BY <1>3
<1>7. span_has_bit(words, lo, hi) <=> \E e \in E : bit[e] \in lo .. hi - 1
  BY <1>5, <1>6
<1> QED BY <1>6, <1>7 DEF words

\* The granules of a mask: days or weeks, from one that is no later than what is read.
LEMMA GranulesOf ==
    ASSUME NEW r, RangeOK(r), NEW q, NEW node, FitsMasks(q, node, r, buckets(r))
    PROVE  LET bs == buckets(r)
               g == Granules(node, r, bs)
           IN /\ g.interval \in {"day", "week"} /\ g.unit = IF g.interval = "day" THEN 2 ELSE 4
              /\ g.base \in Int /\ Start(g.base, g.interval) /\ g.base <= WindowsFrom(node, r, bs)
              /\ g.count \in Nat \ {0} /\ g.count >= (r.to - g.base + g.unit - 1) \div g.unit
<1> DEFINE bs == buckets(r)
           g == Granules(node, r, bs)
           wf == WindowsFrom(node, r, bs)
           dau == window_days(node.math) = 0
<1>1. r.to \in Int /\ r.from \in Instants /\ r.from \in Int /\ r.interval \in Intervals
  BY DEF RangeOK, Instants, MAX_US
<1>2. wf \in Int /\ (dau => wf = r.from)
  BY WindowsBegin
<1>3. bs[1] \in Int /\ Start(bs[1], r.interval) /\ bs[1] <= r.from
  <2>1. bs[1] = trunc(r.from, r.interval)
    BY BucketsOf
  <2>2. Holds(bs[1], r.from, r.interval)
    <3> HIDE DEF bs
    <3> QED BY <1>1, <2>1, Truncates
  <2> HIDE DEF bs
  <2>3. Start(bs[1], r.interval) /\ bs[1] <= r.from
    BY <2>2 DEF Holds
  <2> QED BY <1>1, <2>3, NextBucket
<1>4. /\ g.interval = (IF dau THEN r.interval ELSE "day")
      /\ g.base = (IF dau THEN bs[1] ELSE trunc(wf, "day"))
      /\ g.unit = (IF dau THEN next_bucket(bs[1], r.interval) - bs[1] ELSE DAY_US)
      /\ g.count = Max({(r.to - g.base + g.unit - 1) \div g.unit, 1})
  <2> HIDE DEF bs, wf, dau
  <2> QED BY DEF Granules, bs, wf, dau
<1>5. dau => r.interval \in {"day", "week"}
  BY DEF FitsMasks
<1> HIDE DEF bs, g, wf, dau
<1>6. /\ g.interval \in {"day", "week"} /\ g.unit = IF g.interval = "day" THEN 2 ELSE 4
      /\ g.base \in Int /\ Start(g.base, g.interval) /\ g.base <= wf
  <2>1. CASE ~dau
    <3>1. trunc(wf, "day") \in Int /\ trunc(wf, "day") % 2 = 0 /\ trunc(wf, "day") <= wf
      BY <1>2 DEF trunc, floor_to, DAY_US, HOUR_US
    <3> QED BY <1>4, <2>1, <3>1 DEF Start, DAY_US, HOUR_US
  <2>2. CASE dau /\ r.interval = "day"
    BY <1>2, <1>3, <1>4, <2>2 DEF next_bucket, DAY_US, HOUR_US
  <2>3. CASE dau /\ r.interval = "week"
    BY <1>2, <1>3, <1>4, <2>3 DEF next_bucket, WEEK_US, DAY_US, HOUR_US
  <2> QED BY <1>5, <2>1, <2>2, <2>3
<1>7. g.count \in Nat \ {0} /\ g.count >= (r.to - g.base + g.unit - 1) \div g.unit
  <2> DEFINE a == (r.to - g.base + g.unit - 1) \div g.unit
  <2>1. a \in Int
    BY <1>1, <1>6
  <2> HIDE DEF a
  <2>2. g.count = Max({a, 1})
    BY <1>4 DEF a
  <2>3. CASE a <= 1
    <3>1. Max({a, 1}) = 1
      BY <2>1, <2>3, MaxIs
    <3> QED BY <2>1, <2>2, <2>3, <3>1 DEF a
  <2>4. CASE ~(a <= 1)
    <3>1. Max({a, 1}) = a
      BY <2>1, <2>4, MaxIs
    <3> QED BY <2>1, <2>2, <2>4, <3>1 DEF a
  <2> QED BY <2>3, <2>4
<1> QED BY <1>6, <1>7 DEF bs, g, wf

\* The granule an instant's bit stands for.
BitAt(i, base, unit, t) == (bucket_expr(i, t) - base) \div unit

\* It is one of n, and within a span of granules when the instant is.
BitFits(i, base, unit, t, n) ==
    /\ BitAt(i, base, unit, t) \in 0 .. n - 1
    /\ \A s, e \in Int : (s - base) % unit = 0 /\ (e - base) % unit = 0
           => ((s - base) \div unit <= BitAt(i, base, unit, t)
                 /\ BitAt(i, base, unit, t) < (e - base) \div unit <=> s <= t /\ t < e)

\* The bit of an instant lies in the mask, and in a span of granules when the instant does.
LEMMA BitOf ==
    ASSUME NEW i \in {"day", "week"}, NEW unit, unit = (IF i = "day" THEN 2 ELSE 4),
           NEW base \in Int, Start(base, i), NEW to \in Int, NEW n \in Nat, n >= (to - base + unit - 1) \div unit,
           NEW t \in Instants, base <= t, t < to
    PROVE  BitFits(i, base, unit, t, n)
<1>1. t \in Int
  BY DEF Instants, MAX_US
<1> DEFINE b == bucket_expr(i, t)
<1>2. b \in Int /\ b <= t /\ t < b + unit /\ (b - base) % unit = 0
  <2>1. b = trunc(t, i)
    BY Truncates DEF Intervals
  <2>2. CASE i = "day"
    BY <1>1, <2>1, <2>2 DEF trunc, floor_to, Start, DAY_US, HOUR_US
  <2>3. CASE i = "week"
    BY <1>1, <2>1, <2>3 DEF trunc, floor_to, Start, WEEK_US, WEEK_ORIGIN_US, DAY_US, HOUR_US
  <2> QED BY <2>2, <2>3
<1> HIDE DEF b
<1>3. (b - base) \div unit \in 0 .. n - 1
  <2>1. CASE unit = 2
    BY <1>1, <1>2, <2>1
  <2>2. CASE unit = 4
    BY <1>1, <1>2, <2>2
  <2> QED BY <2>1, <2>2
<1>4. ASSUME NEW s \in Int, NEW e \in Int, (s - base) % unit = 0, (e - base) % unit = 0
      PROVE  (s - base) \div unit <= (b - base) \div unit /\ (b - base) \div unit < (e - base) \div unit
               <=> s <= t /\ t < e
  <2>1. CASE unit = 2
    BY <1>1, <1>2, <1>4, <2>1
  <2>2. CASE unit = 4
    BY <1>1, <1>2, <1>4, <2>2
  <2> QED BY <2>1, <2>2
<1> QED BY <1>3, <1>4 DEF b, BitAt, BitFits

\* The masks count the people of each point.
LEMMA MasksExact ==
    ASSUME SourceInv, NEW q, FiltersOK(q.properties), NEW node, FiltersOK(node.properties),
           node.math \in Maths, NEW r, RangeOK(r), FitsMasks(q, node, r, buckets(r)), NEW top, NEW leased,
           LET wf == WindowsFrom(node, r, buckets(r)) IN relation(leased, wf, r.to) = Between(wf, r.to)
    PROVE  active_masks(q, node, r, buckets(r), top, leased)
             = [key \in KeysOf(q, top) |-> OracleCell(q, node, top, key, r, buckets(r))]
<1> DEFINE bs == buckets(r)
           wd == window_days(node.math)
           wf == WindowsFrom(node, r, bs)
           g == Granules(node, r, bs)
           ev == {e \in relation(leased, wf, r.to) : predicate(e, q, node)}
           of(p, key) == {e \in ev : person_id(e) = p /\ mapped_breakdown(e, q, top) = key}
           bit(e) == (bucket_expr(g.interval, e.ts) - g.base) \div g.unit
           word(E) == [w \in 0 .. (g.count - 1) \div WordBits |->
                         {bit(e) % WordBits : e \in {e \in E : bit(e) \div WordBits = w}}]
           persons == {person_id(e) : e \in ev}
           people(key) == {p \in persons : of(p, key) # {}}
           span(k) == WindowOf(node, r, bs, k)
           lo(k) == (span(k).start - g.base) \div g.unit
           hi(k) == Min({(span(k).end - g.base) \div g.unit, g.count})
           counted(p, key) == wd = 0 \/ \E e \in of(p, key) : e.ts >= r.from
           hit(k, key) == {p \in people(key) : span_has_bit(word(of(p, key)), lo(k), hi(k))}
           whole(key) == {p \in people(key) : counted(p, key)}
           cell(key) == [data |-> [k \in DOMAIN bs |-> Cardinality(hit(k, key))],
                         aggregated |-> Cardinality(whole(key))]
<1>1. active_masks(q, node, r, bs, top, leased) = [key \in KeysOf(q, top) |-> cell(key)]
  <2> HIDE DEF bs
  <2> QED BY DEF active_masks
<1>2. needs_person(node.math) /\ DOMAIN bs = 1..Len(bs) /\ r.from \in Int /\ r.to \in Int
  <2>1. needs_person(node.math)
    BY DEF FitsMasks
  <2>2. DOMAIN bs = 1..Len(bs)
    BY BucketsOf
  <2>3. r.from \in Int /\ r.to \in Int
    BY DEF RangeOK, Instants, MAX_US
  <2> QED BY <2>1, <2>2, <2>3
<1>3. \A e \in events : e.ts \in Instants /\ e.ts \in Int
  <2>1. \A e \in events : e.ts \in Instants
    BY StoredAreInstants
  <2>2. Instants \subseteq Int
    BY DEF Instants, MAX_US
  <2> QED BY <2>1, <2>2
<1>4. ev = {e \in events : wf <= e.ts /\ e.ts < r.to /\ OracleMatches(e, q, node)}
  <2>1. \A e \in events : predicate(e, q, node) <=> OracleMatches(e, q, node)
    BY PredicateAgrees
  <2>2. relation(leased, wf, r.to) = Between(wf, r.to)
    OBVIOUS
  <2> HIDE DEF wf
  <2> QED BY <2>1, <2>2 DEF Between
<1>5. /\ g.interval \in {"day", "week"} /\ g.unit = IF g.interval = "day" THEN 2 ELSE 4
      /\ g.base \in Int /\ Start(g.base, g.interval) /\ g.base <= wf
      /\ g.count \in Nat \ {0} /\ g.count >= (r.to - g.base + g.unit - 1) \div g.unit
  BY GranulesOf
<1>6. /\ wf \in Int /\ wf <= r.from /\ (wd = 0 => wf = r.from)
      /\ \A k \in DOMAIN bs : /\ span(k).start \in Int
                              /\ span(k).end = next_bucket(bs[k], r.interval)
                              /\ next_bucket(bs[k], r.interval) \in Int
  <2>1. /\ wf \in Int /\ wf <= r.from /\ (wd = 0 => wf = r.from)
        /\ \A k \in 1..Len(bs) : /\ span(k).start \in Int
                                 /\ span(k).end = next_bucket(bs[k], r.interval)
    BY WindowsBegin
  <2>2. \A k \in 1..Len(bs) : next_bucket(bs[k], r.interval) \in Int
    BY BucketEnds
  <2> HIDE DEF bs, wf, wd, span
  <2> QED BY <1>2, <2>1, <2>2
<1>7. \A k \in DOMAIN bs : (span(k).start - g.base) % g.unit = 0 /\ (span(k).end - g.base) % g.unit = 0
  <2> HIDE DEF bs
  <2> QED BY DEF FitsMasks, bs
<1> HIDE DEF ev, bs, wf, wd, g
<1>8. \A e \in ev : e \in events /\ e.ts \in Instants /\ e.ts \in Int /\ wf <= e.ts /\ e.ts < r.to
  BY <1>3, <1>4
<1>9. ASSUME NEW e \in ev
      PROVE  /\ bit(e) \in 0 .. g.count - 1
             /\ \A s, t \in Int : (s - g.base) % g.unit = 0 /\ (t - g.base) % g.unit = 0
                    => ((s - g.base) \div g.unit <= bit(e) /\ bit(e) < (t - g.base) \div g.unit
                          <=> s <= e.ts /\ e.ts < t)
  <2> DEFINE t == e.ts
             i == g.interval
             unit == g.unit
             base == g.base
             to == r.to
             n == g.count
  <2>1. t \in Instants /\ base <= t /\ t < to /\ to \in Int
    BY <1>2, <1>5, <1>6, <1>8
  <2>2. /\ i \in {"day", "week"} /\ unit = (IF i = "day" THEN 2 ELSE 4) /\ base \in Int /\ Start(base, i)
        /\ n \in Nat /\ n >= (to - base + unit - 1) \div unit
    BY <1>5
  <2> HIDE DEF t, i, unit, base, to, n
  <2>3. BitFits(i, base, unit, t, n)
    BY <2>1, <2>2, BitOf
  <2> QED BY <2>3 DEF t, i, unit, base, to, n, BitAt, BitFits
<1>10. ASSUME NEW key, NEW k \in DOMAIN bs, NEW p
       PROVE  span_has_bit(word(of(p, key)), lo(k), hi(k))
                <=> \E e \in of(p, key) : span(k).start <= e.ts /\ e.ts < span(k).end
  <2> DEFINE f == [e \in ev |-> bit(e)]
             E == of(p, key)
             n == g.count
             h == (span(k).end - g.base) \div g.unit
             l == lo(k)
             m == hi(k)
  <2>1. E \subseteq ev /\ \A e \in E : f[e] = bit(e)
    OBVIOUS
  <2>2. span(k).start \in Int /\ span(k).end \in Int /\ n \in Nat \ {0} /\ g.base \in Int /\ g.unit \in {2, 4}
    BY <1>5, <1>6
  <2>3. l \in Int /\ h \in Int
    <3> HIDE DEF span
    <3>1. CASE g.unit = 2
      BY <2>2, <3>1
    <3>2. CASE g.unit = 4
      BY <2>2, <3>2
    <3> QED BY <2>2, <3>1, <3>2
  <2> HIDE DEF bit, E
  <2>4. word(E) = MaskWords(n, f, E)
    <3> HIDE DEF f
    <3> QED BY <2>1 DEF MaskWords
  <2>5. m = Min({h, n})
    OBVIOUS
  <2> HIDE DEF l, h, m, f, n, word
  <2>6. m \in {h, n} /\ m <= h /\ m <= n
    <3>1. n \in Int
      BY <2>2
    <3>2. Min({h, n}) \in {h, n} /\ Min({h, n}) <= h /\ Min({h, n}) <= n
      BY <2>3, <3>1, MinOfTwo
    <3> QED BY <2>5, <3>2
  <2>7. \A e \in E : f[e] \in 0 .. n - 1
    BY <1>9, <2>1 DEF n
  <2>8. span_has_bit(MaskWords(n, f, E), l, m) <=> \E e \in E : l <= f[e] /\ f[e] < m
    <3>1. m \in Int /\ n \in Nat \ {0}
      BY <2>2, <2>3, <2>6
    <3> QED BY <2>3, <2>7, <3>1, BitsAreSet
  <2>9. \A e \in E : l <= f[e] /\ f[e] < m <=> span(k).start <= e.ts /\ e.ts < span(k).end
    <3> SUFFICES ASSUME NEW e \in E
                 PROVE  l <= f[e] /\ f[e] < m <=> span(k).start <= e.ts /\ e.ts < span(k).end
      OBVIOUS
    <3>1. e \in ev /\ f[e] = bit(e) /\ f[e] \in Int /\ f[e] < n
      BY <2>1, <2>2, <2>7
    <3>2. (span(k).start - g.base) % g.unit = 0 /\ (span(k).end - g.base) % g.unit = 0
      BY <1>7
    <3>3. l <= bit(e) /\ bit(e) < h <=> span(k).start <= e.ts /\ e.ts < span(k).end
      <4> HIDE DEF span
      <4> QED BY <1>9, <2>2, <3>1, <3>2 DEF l, h
    <3>4. f[e] < m <=> f[e] < h
      BY <2>2, <2>3, <2>6, <3>1
    <3> QED BY <3>1, <3>3, <3>4
  <2>10. span_has_bit(word(E), l, m) <=> \E e \in E : span(k).start <= e.ts /\ e.ts < span(k).end
    BY <2>4, <2>8, <2>9
  <2> QED BY <2>10 DEF E, l, m
<1> HIDE DEF word, bit
<1>11. \A p, key, e : e \in of(p, key) <=> e \in ev /\ person_id(e) = p /\ mapped_breakdown(e, q, top) = key
  OBVIOUS
<1>12. \A p, key : p \in people(key) <=> of(p, key) # {}
  <2>1. \A e \in ev : person_id(e) \in persons
    OBVIOUS
  <2> HIDE DEF of, persons
  <2> QED BY <1>11, <2>1
<1> HIDE DEF of, people, persons
<1>13. ASSUME NEW key, NEW k \in DOMAIN bs
       PROVE  hit(k, key) = PeopleOf(OraclePoint(q, node, top, key, r, bs[k]))
  <2> DEFINE point == OraclePoint(q, node, top, key, r, bs[k])
  <2>1. point = Within(q, node, top, key, r, wf, span(k).start, span(k).end)
    <3>1. k \in 1..Len(bs)
      BY <1>2
    <3> QED BY <3>1, PointIs DEF bs, wf
  <2> HIDE DEF point, span
  <2>2. \A e : e \in point <=> /\ e \in ev /\ mapped_breakdown(e, q, top) = key
                               /\ span(k).start <= e.ts /\ e.ts < span(k).end
    BY <1>4, <2>1 DEF Within
  <2> HIDE DEF lo, hi
  <2>3. \A p : p \in hit(k, key) <=> \E e \in of(p, key) : span(k).start <= e.ts /\ e.ts < span(k).end
    BY <1>10, <1>12
  <2> HIDE DEF hit
  <2>4. \A p : p \in hit(k, key) <=> \E e \in point : p = person_id(e)
    BY <1>11, <2>2, <2>3
  <2> QED BY <2>4 DEF PeopleOf, point
<1>14. ASSUME NEW key PROVE whole(key) = PeopleOf(OracleEvents(q, node, top, key, r.from, r.to))
  <2> DEFINE evs == OracleEvents(q, node, top, key, r.from, r.to)
  <2>1. \A e : e \in evs <=> e \in ev /\ mapped_breakdown(e, q, top) = key /\ r.from <= e.ts
    BY <1>2, <1>3, <1>4, <1>6 DEF OracleEvents
  <2> HIDE DEF evs
  <2>2. \A e \in ev : e.ts >= r.from <=> r.from <= e.ts
    BY <1>2, <1>8
  <2>3. wd = 0 => \A e \in ev : r.from <= e.ts
    BY <1>6, <1>8
  <2>4. \A p : p \in whole(key) <=> \E e \in of(p, key) : r.from <= e.ts
    BY <1>11, <1>12, <2>2, <2>3
  <2> HIDE DEF whole
  <2>5. \A p : p \in whole(key) <=> \E e \in evs : p = person_id(e)
    BY <1>11, <2>1, <2>4
  <2> QED BY <2>5 DEF PeopleOf, evs
<1>15. \A key : cell(key) = OracleCell(q, node, top, key, r, bs)
  <2> SUFFICES ASSUME NEW key PROVE cell(key) = OracleCell(q, node, top, key, r, bs)
    OBVIOUS
  <2>1. \A evs : math_value(node.math, evs) = Cardinality(PeopleOf(evs))
    BY <1>2, CountsPeople
  <2> HIDE DEF hit, whole
  <2> QED BY <1>13, <1>14, <2>1 DEF OracleCell
<1> HIDE DEF cell
<1> QED BY <1>1, <1>15 DEF bs

\* One aggregate with grouping sets gives each point.
LEMMA GroupingSetsExact ==
    ASSUME SourceInv, NEW q, FiltersOK(q.properties), NEW node, FiltersOK(node.properties),
           node.math \in Maths, window_days(node.math) = 0, NEW r, RangeOK(r), NEW top, NEW leased,
           relation(leased, r.from, r.to) = Between(r.from, r.to)
    PROVE  GroupingSets(q, node, r, buckets(r), top, leased)
             = [key \in KeysOf(q, top) |-> OracleCell(q, node, top, key, r, buckets(r))]
<1> DEFINE bs == buckets(r)
           i == r.interval
           x == {e \in relation(leased, r.from, r.to) : predicate(e, q, node)}
           at(key) == {e \in x : mapped_breakdown(e, q, top) = key}
           here(key, k) == {e \in at(key) : bucket_expr(i, e.ts) = bs[k]}
           cell(key) == [data |-> [k \in DOMAIN bs |-> aggregate(node.math, here(key, k))],
                         aggregated |-> aggregate(node.math, at(key))]
<1>1. GroupingSets(q, node, r, bs, top, leased) = [key \in KeysOf(q, top) |-> cell(key)]
  <2> HIDE DEF bs
  <2> QED BY DEF GroupingSets
<1>2. \A key : at(key) = OracleEvents(q, node, top, key, r.from, r.to)
  <2>1. \A e \in events : predicate(e, q, node) <=> OracleMatches(e, q, node)
    BY PredicateAgrees
  <2> QED BY <2>1 DEF Between, OracleEvents
<1>3. \A e \in events : bucket_expr(i, e.ts) = bucket_of(e.ts, i)
  <2>1. \A e \in events : e.ts \in Instants
    BY StoredAreInstants
  <2>2. i \in Intervals
    BY DEF RangeOK
  <2> QED BY <2>1, <2>2, Truncates
<1>4. \A key : at(key) \subseteq events
  BY DEF Between
<1>5. \A key : \A k : here(key, k) = OraclePoint(q, node, top, key, r, bs[k])
  <2> SUFFICES ASSUME NEW key, NEW k PROVE here(key, k) = OraclePoint(q, node, top, key, r, bs[k])
    OBVIOUS
  <2> HIDE DEF at, bs
  <2> QED BY <1>2, <1>3, <1>4 DEF OraclePoint
<1>6. \A evs : math_value(node.math, evs) = aggregate(node.math, evs)
  BY TrendsAssumption DEF math_value, window_days, needs_person, Maths, WEEK_US, DAY_US, HOUR_US
<1>7. \A key : cell(key) = OracleCell(q, node, top, key, r, bs)
  <2> HIDE DEF here, at, bs
  <2> QED BY <1>2, <1>5, <1>6 DEF OracleCell
<1> HIDE DEF cell
<1> QED BY <1>1, <1>7 DEF bs

\* Whichever plan computes a series, it gives the oracle's cells.
LEMMA ComputeExact ==
    ASSUME SourceInv, NEW q, FiltersOK(q.properties), NEW node, FiltersOK(node.properties),
           node.math \in Maths, NEW r, RangeOK(r), NEW top, NEW leased,
           relation(leased, r.from, r.to) = Between(r.from, r.to),
           LET wf == WindowsFrom(node, r, buckets(r)) IN relation(leased, wf, r.to) = Between(wf, r.to)
    PROVE  compute(q, node, r, buckets(r), top, leased)
             = Shown([key \in KeysOf(q, top) |-> OracleCell(q, node, top, key, r, buckets(r))], top)
<1> DEFINE bs == buckets(r)
           cells == [key \in KeysOf(q, top) |-> OracleCell(q, node, top, key, r, bs)]
<1>1. CASE FitsMasks(q, node, r, bs)
  <2>1. active_masks(q, node, r, bs, top, leased) = cells
    BY <1>1, MasksExact
  <2> HIDE DEF bs, cells
  <2> QED BY <1>1, <2>1 DEF compute, cells, bs
<1>2. CASE ~FitsMasks(q, node, r, bs) /\ window_days(node.math) > 0
  <2>1. WindowPlan(q, node, r, bs, top, leased) = cells
    BY <1>2, WindowPlanExact
  <2> HIDE DEF bs, cells
  <2> QED BY <1>2, <2>1 DEF compute, cells, bs
<1>3. CASE ~FitsMasks(q, node, r, bs) /\ ~(window_days(node.math) > 0)
  <2>1. window_days(node.math) = 0
    <3>1. window_days(node.math) \in Nat
      BY WindowDays
    <3> QED BY <1>3, <3>1
  <2>2. GroupingSets(q, node, r, bs, top, leased) = cells
    BY <2>1, GroupingSetsExact
  <2> HIDE DEF bs, cells
  <2> QED BY <1>3, <2>2 DEF compute, cells, bs
<1> QED BY <1>1, <1>2, <1>3

\* What is leased holds what any period and any window of it reads.
LEMMA PeriodsRead ==
    ASSUME SourceInv, NEW q, TrendQuestion(q), TrendsAnswered(q), NEW p \in DOMAIN trends_plan(q).periods
    PROVE  LET leased == TrendsLeased(q, trends_plan(q))
               r == trends_plan(q).periods[p]
           IN /\ relation(leased, r.from, r.to) = Between(r.from, r.to)
              /\ \A k \in DOMAIN q.series :
                    LET wf == WindowsFrom(q.series[k], r, buckets(r))
                    IN relation(leased, wf, r.to) = Between(wf, r.to)
<1> DEFINE tp == trends_plan(q)
           r == tp.periods[p]
           lf == trends_load_from(tp)
           leased == TrendsLeased(q, tp)
<1>1. /\ RangeOK(r) /\ r.to <= tp.range.to /\ RangeOK(tp.range) /\ lf \in Int /\ lf <= r.from
      /\ \A k \in DOMAIN q.series : lf <= WindowsFrom(q.series[k], r, buckets(r))
  BY PeriodsLeased
<1>2. r.from \in Int /\ r.to \in Int /\ tp.range.to \in Int
  <2> HIDE DEF r, tp
  <2> QED BY <1>1 DEF RangeOK, Instants, MAX_US
<1>3. leased = leased_for(q.dates, [from |-> lf, to |-> tp.range.to])
  BY DEF TrendsLeased
<1> HIDE DEF r, lf, tp, leased
<1>4. \A a \in Int : lf <= a => relation(leased, a, r.to) = Between(a, r.to)
  BY <1>1, <1>2, <1>3, ReadsWithin
<1>5. \A k \in DOMAIN q.series : WindowsFrom(q.series[k], r, buckets(r)) \in Int
  BY <1>1, WindowsBegin
<1> QED BY <1>1, <1>2, <1>4, <1>5 DEF r, leased, tp

\* A question about trends, as asked.
LEMMA TrendsAsked ==
    ASSUME SourceInv, asking \in {"trends", "windows", "breakdowns"}, NEW q \in Questions[asking].queries
    PROVE  TrendQuestion(q)
BY TrendQuestionsAssumption DEF SourceInv, TrendQuestion

\* The current period and its ranking.
LEMMA TopsAreRankings ==
    ASSUME SourceInv, NEW q, TrendQuestion(q), TrendsAnswered(q)
    PROVE  LET r == resolve(q.dates, q.interval, earliest)
               tp == trends_plan(q)
           IN /\ tp.range = r /\ 1 \in DOMAIN tp.periods /\ tp.periods[1] = r
              /\ DOMAIN tp.periods = 1 .. (IF q.compare THEN 2 ELSE 1)
              /\ q.compare => tp.periods[2] = previous(r)
              /\ Tops(q, tp, TrendsLeased(q, tp)) = [k \in DOMAIN q.series |-> OracleRanking(q, q.series[k], r)]
<1> DEFINE tp == trends_plan(q)
           r == resolve(q.dates, q.interval, earliest)
           ps == tp.periods
           leased == TrendsLeased(q, tp)
<1>1. tp.range = r /\ ps = IF q.compare THEN <<r, previous(r)>> ELSE <<r>>
  BY DEF trends_plan
<1>2. /\ 1 \in DOMAIN ps /\ ps[1] = r /\ DOMAIN ps = 1 .. (IF q.compare THEN 2 ELSE 1)
      /\ q.compare => ps[2] = previous(r)
  <2> HIDE DEF ps, r
  <2>1. CASE q.compare
    BY <1>1, <2>1
  <2>2. CASE ~q.compare
    BY <1>1, <2>2
  <2> QED BY <2>1, <2>2
<1>3. relation(leased, r.from, r.to) = Between(r.from, r.to)
  <2>1. relation(leased, ps[1].from, ps[1].to) = Between(ps[1].from, ps[1].to)
    BY <1>2, PeriodsRead
  <2> HIDE DEF ps, r, leased
  <2> QED BY <1>2, <2>1
<1>4. Tops(q, tp, leased) = [k \in DOMAIN q.series |-> top_values(q, q.series[k], r, leased)]
  <2> HIDE DEF leased, tp, r
  <2> QED BY <1>1 DEF Tops
<1>5. \A k \in DOMAIN q.series : top_values(q, q.series[k], r, leased) = OracleRanking(q, q.series[k], r)
  <2> HIDE DEF leased, r
  <2> QED BY <1>3, TopsAgree DEF TrendQuestion
<1> HIDE DEF leased, r
<1> QED BY <1>1, <1>2, <1>4, <1>5 DEF leased, r, ps

\* One period, ranked alike, is the oracle's.
LEMMA PeriodExact ==
    ASSUME SourceInv, NEW q, TrendQuestion(q), TrendsAnswered(q), NEW p \in DOMAIN trends_plan(q).periods,
           NEW tops
    PROVE  LET r == trends_plan(q).periods[p]
           IN period_series(q, tops, r, buckets(r), TrendsLeased(q, trends_plan(q))) = trends_period(q, tops, r)
<1> DEFINE r == trends_plan(q).periods[p]
           bs == buckets(r)
           leased == TrendsLeased(q, trends_plan(q))
           cells(k) == [key \in KeysOf(q, tops[k]) |-> OracleCell(q, q.series[k], tops[k], key, r, bs)]
           empty(k) == q.breakdown.by # "no" /\ tops[k].values = {}
           ours == [k \in DOMAIN q.series |-> IF empty(k) THEN <<>>
                                              ELSE compute(q, q.series[k], r, bs, tops[k], leased)]
           theirs == [k \in DOMAIN q.series |-> IF empty(k) THEN <<>> ELSE Shown(cells(k), tops[k])]
<1>1. \A k \in DOMAIN q.series : compute(q, q.series[k], r, bs, tops[k], leased) = Shown(cells(k), tops[k])
  <2> SUFFICES ASSUME NEW k \in DOMAIN q.series
               PROVE  compute(q, q.series[k], r, bs, tops[k], leased) = Shown(cells(k), tops[k])
    OBVIOUS
  <2> DEFINE node == q.series[k]
             top == tops[k]
  <2>1. FiltersOK(q.properties) /\ FiltersOK(node.properties) /\ node.math \in Maths
    BY DEF TrendQuestion
  <2>2. /\ relation(leased, r.from, r.to) = Between(r.from, r.to)
        /\ LET wf == WindowsFrom(node, r, bs) IN relation(leased, wf, r.to) = Between(wf, r.to)
    BY PeriodsRead
  <2>3. RangeOK(r)
    BY PeriodsLeased
  <2>4. cells(k) = [key \in KeysOf(q, top) |-> OracleCell(q, node, top, key, r, bs)]
    OBVIOUS
  <2> HIDE DEF node, top, r, leased, cells
  <2>5. compute(q, node, r, bs, top, leased)
          = Shown([key \in KeysOf(q, top) |-> OracleCell(q, node, top, key, r, bs)], top)
    BY <2>1, <2>2, <2>3, ComputeExact
  <2> QED BY <2>4, <2>5 DEF node, top
<1>2. ours = theirs
  BY <1>1
<1>3. period_series(q, tops, r, bs, leased) = Results(q, ours, bs)
  <2> HIDE DEF r, bs, leased
  <2> QED BY DEF period_series
<1>4. trends_period(q, tops, r) = Results(q, theirs, bs)
  <2> HIDE DEF r
  <2> QED BY DEF trends_period, OracleCell
<1> HIDE DEF ours, theirs, bs, leased, r
<1> QED BY <1>2, <1>3, <1>4 DEF bs, leased, r

\* Trends are what the definition says, in every world.
LEMMA TrendsExact == SourceInv => TrendsAreExact
<1> SUFFICES ASSUME SourceInv, asking \in {"trends", "windows", "breakdowns"},
                    NEW q \in Questions[asking].queries, TrendsAnswered(q)
             PROVE  trends(q) = oracle_trends(q)
  BY DEF TrendsAreExact
<1> DEFINE tp == trends_plan(q)
           leased == TrendsLeased(q, tp)
           r == resolve(q.dates, q.interval, earliest)
           rk == [k \in DOMAIN q.series |-> OracleRanking(q, q.series[k], r)]
           tops == Tops(q, tp, leased)
           D == 1 .. (IF q.compare THEN 2 ELSE 1)
<1>1. TrendQuestion(q)
  BY TrendsAsked
<1>2. /\ DOMAIN tp.periods = D /\ tp.periods[1] = r /\ (q.compare => tp.periods[2] = previous(r)) /\ tops = rk
  BY <1>1, TopsAreRankings
<1>3. \A k \in D : period_series(q, tops, tp.periods[k], buckets(tp.periods[k]), leased)
                     = trends_period(q, tops, tp.periods[k])
  BY <1>1, <1>2, PeriodExact
<1>4. \A k \in D : tp.periods[k] = IF k = 1 THEN r ELSE previous(r)
  <2> HIDE DEF tp, r
  <2> QED BY <1>2
<1>5. trends(q) = [k \in DOMAIN tp.periods |->
                     period_series(q, tops, tp.periods[k], buckets(tp.periods[k]), leased)]
  BY DEF trends, EveryPeriod
<1>6. oracle_trends(q) = [k \in D |-> trends_period(q, rk, IF k = 1 THEN r ELSE previous(r))]
  <2> HIDE DEF r
  <2> QED BY DEF oracle_trends, r
<1> HIDE DEF tp, leased, r, rk, tops, D
<1> QED BY <1>2, <1>3, <1>4, <1>5, <1>6

\* The persons listed behind a point of people are those of the oracle's point.
LEMMA ActorsArePeople ==
    ASSUME SourceInv, NEW q, TrendQuestion(q), TrendsAnswered(q), NEW index \in DOMAIN q.series,
           needs_person(q.series[index].math), NEW key,
           NEW k \in DOMAIN buckets(trends_plan(q).range)
    PROVE  LET r == trends_plan(q).range
           IN trends_actors(q, index, k, key)
                = PeopleOf(OraclePoint(q, q.series[index], OracleRanking(q, q.series[index], r), key, r, buckets(r)[k]))
<1> DEFINE tp == trends_plan(q)
           r == tp.range
           leased == TrendsLeased(q, tp)
           node == q.series[index]
           bs == buckets(r)
           lf == trends_load_from(tp)
           wd == window_days(node.math)
           w == WindowOf(node, r, bs, k)
           rk == OracleRanking(q, node, r)
           point == OraclePoint(q, node, rk, key, r, bs[k])
           stop == Min({w.end, r.to})
           ev == IF wd > 0 THEN relation(leased, w.start, stop)
                 ELSE {e \in relation(leased, r.from, r.to) : bucket_expr(r.interval, e.ts) = bs[k]}
           chosen == {e \in ev : predicate(e, q, node) /\ mapped_breakdown(e, q, rk) = key}
<1>0. FiltersOK(q.properties) /\ FiltersOK(node.properties)
  BY DEF TrendQuestion
<1>1. /\ RangeOK(r) /\ lf \in Int /\ lf <= r.from /\ lf <= WindowsFrom(node, r, bs)
  <2>1. 1 \in DOMAIN tp.periods /\ tp.periods[1] = r
    BY TopsAreRankings
  <2>2. LET x == tp.periods[1] IN
        /\ RangeOK(x) /\ lf \in Int /\ lf <= x.from
        /\ \A j \in DOMAIN q.series : lf <= WindowsFrom(q.series[j], x, buckets(x))
    BY <2>1, PeriodsLeased
  <2> HIDE DEF r, lf, tp
  <2> QED BY <2>1, <2>2
<1>2. top_values(q, node, r, leased) = rk
  <2>1. r = resolve(q.dates, q.interval, earliest)
    BY DEF trends_plan
  <2>2. Tops(q, tp, leased) = [j \in DOMAIN q.series |-> OracleRanking(q, q.series[j], r)]
    BY <2>1, TopsAreRankings
  <2>3. Tops(q, tp, leased) = [j \in DOMAIN q.series |-> top_values(q, q.series[j], r, leased)]
    BY DEF Tops
  <2> HIDE DEF r, leased, tp
  <2>4. Tops(q, tp, leased)[index] = OracleRanking(q, q.series[index], r)
    BY <2>2
  <2>5. Tops(q, tp, leased)[index] = top_values(q, q.series[index], r, leased)
    BY <2>3
  <2> QED BY <2>4, <2>5
<1>3. leased = leased_for(q.dates, [from |-> lf, to |-> r.to])
  BY DEF TrendsLeased
<1>4. r.from \in Int /\ r.to \in Int /\ r.interval \in Intervals
  <2> HIDE DEF r
  <2> QED BY <1>1 DEF RangeOK, Instants, MAX_US
<1>5. /\ wd \in Nat /\ w.start \in Int /\ w.end \in Int
      /\ wd # 0 => WindowsFrom(node, r, bs) <= w.start /\ w.start = w.end - wd
      /\ w.end = next_bucket(bs[k], r.interval) /\ WindowsFrom(node, r, bs) \in Int
  <2>1. k \in 1..Len(bs)
    <3>1. k \in DOMAIN bs
      OBVIOUS
    <3> HIDE DEF r
    <3> QED BY <1>1, <3>1, BucketsOf
  <2>2. next_bucket(bs[k], r.interval) \in Int
    <3> HIDE DEF r
    <3> QED BY <1>1, <2>1, BucketEnds
  <2>3. /\ WindowsFrom(node, r, bs) \in Int /\ w.start \in Int /\ w.end = next_bucket(bs[k], r.interval)
        /\ wd # 0 => WindowsFrom(node, r, bs) <= w.start
    <3> HIDE DEF r
    <3> QED BY <1>1, <2>1, WindowsBegin
  <2>4. wd \in Nat
    BY WindowDays
  <2>5. wd # 0 => w.start = w.end - wd
    <3> HIDE DEF bs, r
    <3> QED BY DEF WindowOf
  <2> HIDE DEF w, wd, bs, r
  <2> QED BY <2>2, <2>3, <2>4, <2>5
<1>6. trends_actors(q, index, k, key) = PeopleOf(chosen)
  <2> DEFINE valued(e) == CASE node.math = "unique_session" -> e.text # NULL
                            [] node.math = "sum" -> numeric_expr(e.text) # NULL
                            [] OTHER -> TRUE
  <2>1. \A e : valued(e)
    BY DEF needs_person
  <2>2. trends_actors(q, index, k, key)
          = {person_id(e) : e \in {e \in ev : /\ predicate(e, q, node) /\ valued(e)
                                              /\ mapped_breakdown(e, q, rk) = key}}
    <3>1. trends_actors(q, index, k, key) = ActorsOf(q, r, leased, node, bs, k, key)
      BY DEF trends_actors
    <3> HIDE DEF r, leased, node, bs, rk
    <3> QED BY <1>2, <3>1 DEF ActorsOf, WindowEnd
  <2> HIDE DEF valued, ev, rk
  <2>3. {e \in ev : predicate(e, q, node) /\ valued(e) /\ mapped_breakdown(e, q, rk) = key} = chosen
    BY <2>1
  <2> QED BY <2>2, <2>3 DEF PeopleOf
<1>7. \A e \in events : predicate(e, q, node) <=> OracleMatches(e, q, node)
  BY <1>0, PredicateAgrees
<1>8. CASE wd > 0
  <2>1. stop \in Int /\ stop <= r.to
    <3>1. Min({w.end, r.to}) \in {w.end, r.to} /\ Min({w.end, r.to}) <= r.to
      BY <1>4, <1>5, MinOfTwo
    <3> HIDE DEF w
    <3> QED BY <1>4, <1>5, <3>1
  <2>2. ev = Between(w.start, stop)
    <3>1. lf <= w.start /\ w.start \in Int
      BY <1>1, <1>5, <1>8
    <3>2. ev = relation(leased, w.start, stop)
      BY <1>8
    <3> HIDE DEF ev, stop, w, leased, lf, r
    <3> QED BY <1>1, <1>3, <1>4, <2>1, <3>1, <3>2, ReadsWithin
  <2>3. point = OracleEvents(q, node, rk, key, w.start, stop)
    <3>1. w.start = w.end - wd /\ w.end = next_bucket(bs[k], r.interval) /\ wd # 0
      BY <1>5, <1>8
    <3> HIDE DEF bs, r, rk, w
    <3> QED BY <3>1 DEF OraclePoint
  <2> HIDE DEF ev, point, stop, w, rk
  <2>4. chosen = point
    BY <1>7, <2>2, <2>3 DEF Between, OracleEvents
  <2> QED BY <1>6, <2>4 DEF point, rk
<1>9. CASE ~(wd > 0)
  <2>1. relation(leased, r.from, r.to) = Between(r.from, r.to)
    <3> HIDE DEF leased, lf, r
    <3> QED BY <1>1, <1>3, <1>4, ReadsWithin
  <2>2. \A e \in events : bucket_expr(r.interval, e.ts) = bucket_of(e.ts, r.interval)
    <3>1. \A e \in events : e.ts \in Instants
      BY StoredAreInstants
    <3> QED BY <1>4, <3>1, Truncates
  <2>3. ev = {e \in Between(r.from, r.to) : bucket_of(e.ts, r.interval) = bs[k]}
    <3>1. ev = {e \in relation(leased, r.from, r.to) : bucket_expr(r.interval, e.ts) = bs[k]}
      BY <1>9
    <3> HIDE DEF ev, bs, leased, r
    <3> QED BY <2>1, <2>2, <3>1 DEF Between
  <2>4. point = {e \in OracleEvents(q, node, rk, key, r.from, r.to) : bucket_of(e.ts, r.interval) = bs[k]}
    <3>1. wd = 0
      BY <1>5, <1>9
    <3> HIDE DEF bs, r, rk
    <3> QED BY <3>1 DEF OraclePoint
  <2> HIDE DEF ev, point, bs, rk, r
  <2>5. chosen = point
    BY <1>7, <2>3, <2>4 DEF Between, OracleEvents
  <2> QED BY <1>6, <2>5 DEF point, rk, bs, r
<1> QED BY <1>8, <1>9

\* The persons listed behind a point are as many as the point counted, in every world.
LEMMA ActorsReconcile == SourceInv => TrendsActorsReconcile
<1> SUFFICES ASSUME SourceInv, asking \in {"windows", "breakdowns"}, NEW q \in Questions[asking].queries,
                    TrendsAnswered(q), ~q.formula, ~q.compare,
                    NEW index \in {j \in DOMAIN q.series : needs_person(q.series[j].math)},
                    NEW key \in DOMAIN trends(q)[1][index],
                    NEW k \in DOMAIN trends(q)[1][index][key].data
             PROVE  Cardinality(trends_actors(q, index, k, key)) = trends(q)[1][index][key].data[k]
  BY DEF TrendsActorsReconcile, CountedActors
<1> DEFINE r == trends_plan(q).range
           bs == buckets(r)
           node == q.series[index]
           rk == [j \in DOMAIN q.series |-> OracleRanking(q, q.series[j], r)]
           cells(j) == [x \in KeysOf(q, rk[j]) |-> OracleCell(q, q.series[j], rk[j], x, r, bs)]
           shown(j) == IF q.breakdown.by # "no" /\ rk[j].values = {} THEN <<>> ELSE Shown(cells(j), rk[j])
           current == trends(q)[1]
<1>1. TrendQuestion(q)
  BY TrendsAsked
<1>2. r = resolve(q.dates, q.interval, earliest)
  BY DEF trends_plan
<1>3. current = [j \in DOMAIN q.series |-> shown(j)]
  <2>1. trends(q) = oracle_trends(q)
    BY TrendsExact DEF TrendsAreExact
  <2>2. oracle_trends(q) = [j \in 1..1 |-> trends_period(q, rk, IF j = 1 THEN r ELSE previous(r))]
    <3> HIDE DEF r
    <3> QED BY <1>2 DEF oracle_trends
  <2>3. current = trends_period(q, rk, r)
    <3> HIDE DEF r, rk
    <3> QED BY <2>1, <2>2
  <2>4. trends_period(q, rk, r) = Results(q, [j \in DOMAIN q.series |-> shown(j)], bs)
    <3> HIDE DEF r, rk
    <3> QED BY DEF trends_period, OracleCell
  <2> QED BY <2>3, <2>4 DEF Results
<1>4. /\ current[index] = Shown(cells(index), rk[index]) /\ key \in DOMAIN cells(index)
      /\ current[index][key] = cells(index)[key]
  <2> HIDE DEF current, cells, rk
  <2>1. current[index] = shown(index)
    BY <1>3
  <2>2. key \in DOMAIN shown(index)
    BY <2>1 DEF current
  <2>3. shown(index) = Shown(cells(index), rk[index])
    BY <2>2
  <2>4. key \in DOMAIN cells(index) /\ Shown(cells(index), rk[index])[key] = cells(index)[key]
    BY <2>2, <2>3 DEF Shown
  <2> QED BY <2>1, <2>3, <2>4
<1>5. cells(index)[key] = OracleCell(q, node, rk[index], key, r, bs)
  BY <1>4
<1>6. /\ k \in DOMAIN bs
      /\ current[index][key].data[k] = math_value(node.math, OraclePoint(q, node, rk[index], key, r, bs[k]))
  <2>1. k \in DOMAIN OracleCell(q, node, rk[index], key, r, bs).data
    <3> HIDE DEF cells, r, bs, rk, node
    <3>1. k \in DOMAIN current[index][key].data
      OBVIOUS
    <3> HIDE DEF current
    <3> QED BY <1>4, <1>5, <3>1
  <2> HIDE DEF current, cells, r, bs, rk, node
  <2> QED BY <1>4, <1>5, <2>1 DEF OracleCell
<1>7. trends_actors(q, index, k, key) = PeopleOf(OraclePoint(q, node, rk[index], key, r, bs[k]))
  <2>1. rk[index] = OracleRanking(q, node, r)
    OBVIOUS
  <2>2. trends_actors(q, index, k, key) = PeopleOf(OraclePoint(q, node, OracleRanking(q, node, r), key, r, bs[k]))
    BY <1>1, <1>6, ActorsArePeople
  <2> QED BY <2>1, <2>2
<1>8. \A evs : math_value(node.math, evs) = Cardinality(PeopleOf(evs))
  <2>1. node.math \in Maths /\ needs_person(node.math)
    BY <1>1 DEF TrendQuestion
  <2> HIDE DEF node
  <2> QED BY <2>1, CountsPeople
<1> HIDE DEF r, bs, node, rk, cells
<1> QED BY <1>6, <1>7, <1>8

-----------------------------------------------------------------------------
(* ORDER BY.                                                                *)

\* R puts the members of S in one order.
Orders(R, S) ==
    /\ \A x \in S : <<x, x>> \notin R
    /\ \A x, y \in S : x = y \/ <<x, y>> \in R \/ <<y, x>> \in R
    /\ \A x, y, z \in S : <<x, y>> \in R /\ <<y, z>> \in R => <<x, z>> \in R

\* s lists the members of S in that order.
Sorts(s, m, R, S) ==
    /\ m \in Nat /\ s \in [1..m -> S] /\ \A x \in S : \E k \in 1..m : s[k] = x
    /\ \A j, k \in 1..m : j < k => <<s[j], s[k]>> \in R

\* How many come before.
Before(x, R, S) == Cardinality({y \in S : <<y, x>> \in R})

\* A member that comes before has fewer before it.
LEMMA FewerBefore ==
    ASSUME NEW S, IsFiniteSet(S), NEW R, Orders(R, S)
    PROVE  /\ \A x \in S : Before(x, R, S) \in 0 .. Cardinality(S) - 1
           /\ \A x, y \in S : <<x, y>> \in R => Before(x, R, S) < Before(y, R, S)
<1> DEFINE below(x) == {y \in S : <<y, x>> \in R}
<1>0. \A T \in SUBSET S : IsFiniteSet(T) /\ Cardinality(T) \in Nat
  BY FS_Subset, FS_CardinalityType
<1>1. \A T, U \in SUBSET S : \A x \in U : T \subseteq U /\ x \notin T => Cardinality(T) < Cardinality(U)
  <2> SUFFICES ASSUME NEW T \in SUBSET S, NEW U \in SUBSET S, NEW x \in U, T \subseteq U, x \notin T
               PROVE  Cardinality(T) < Cardinality(U)
    OBVIOUS
  <2>1. T \subseteq U /\ T # U /\ IsFiniteSet(U)
    BY <1>0
  <2>2. Cardinality(T) <= Cardinality(U) /\ Cardinality(T) # Cardinality(U)
    BY <2>1, FS_Subset
  <2> QED BY <1>0, <2>2
<1>2. \A x \in S : Before(x, R, S) \in 0 .. Cardinality(S) - 1
  <2> SUFFICES ASSUME NEW x \in S PROVE Before(x, R, S) \in 0 .. Cardinality(S) - 1
    OBVIOUS
  <2>1. below(x) \in SUBSET S /\ S \in SUBSET S /\ x \in S /\ x \notin below(x)
    BY DEF Orders
  <2> HIDE DEF below
  <2>2. Cardinality(below(x)) < Cardinality(S) /\ Cardinality(below(x)) \in Nat /\ Cardinality(S) \in Nat
    BY <1>0, <1>1, <2>1
  <2> QED BY <2>2 DEF Before, below
<1>3. ASSUME NEW x \in S, NEW y \in S, <<x, y>> \in R PROVE Before(x, R, S) < Before(y, R, S)
  <2>1. below(x) \in SUBSET S /\ below(y) \in SUBSET S /\ below(x) \subseteq below(y)
    BY <1>3 DEF Orders
  <2>2. x \in below(y) /\ x \notin below(x)
    BY <1>3 DEF Orders
  <2> HIDE DEF below
  <2>3. Cardinality(below(x)) < Cardinality(below(y))
    BY <1>1, <2>1, <2>2
  <2> QED BY <2>3 DEF Before, below
<1> QED BY <1>2, <1>3

\* What sorts a set is what ORDER BY gives.
LEMMA OrderedIs ==
    ASSUME NEW S, IsFiniteSet(S), NEW R, Orders(R, S), NEW m, NEW s, Sorts(s, m, R, S)
    PROVE  Cardinality(S) = m /\ Ordered(S, R) = s
<1>1. /\ m \in Nat /\ s \in [1..m -> S] /\ \A x \in S : \E k \in 1..m : s[k] = x
      /\ \A j, k \in 1..m : j < k => <<s[j], s[k]>> \in R
  BY DEF Sorts
<1>2. \A j, k \in 1..m : <<s[j], s[k]>> \in R <=> j < k
  <2> SUFFICES ASSUME NEW j \in 1..m, NEW k \in 1..m PROVE <<s[j], s[k]>> \in R <=> j < k
    OBVIOUS
  <2>1. s[j] \in S /\ s[k] \in S /\ (j = k \/ j < k \/ k < j)
    BY <1>1
  <2> QED BY <1>1, <2>1 DEF Orders
<1>3. \A j, k \in 1..m : s[j] = s[k] => j = k
  <2> SUFFICES ASSUME NEW j \in 1..m, NEW k \in 1..m, s[j] = s[k] PROVE j = k
    OBVIOUS
  <2>1. ~(j < k) /\ ~(k < j)
    BY <1>1, <1>2 DEF Orders
  <2> QED BY <2>1
<1>4. Cardinality(S) = m
  <2>1. s \in Bijection(1..m, S)
    BY <1>1, <1>3 DEF Bijection, Injection, IsInjective, Surjection
  <2>2. 1 \in Int /\ m \in Int /\ IsFiniteSet(1..m) /\ Cardinality(1..m) = IF 1 > m THEN 0 ELSE m - 1 + 1
    BY <1>1, FS_Interval
  <2>3. Cardinality(1..m) = m
    BY <1>1, <2>2
  <2> QED BY <2>1, <2>2, <2>3, FS_Bijection DEF ExistsBijection
<1>5. ASSUME NEW k \in 1..m PROVE Before(s[k], R, S) = k - 1
  <2> DEFINE B == {y \in S : <<y, s[k]>> \in R}
             h == [j \in 1..(k - 1) |-> s[j]]
  <2>1. \A j \in 1..(k - 1) : j \in 1..m /\ j < k
    BY <1>1
  <2>2. h \in [1..(k - 1) -> B]
    BY <1>1, <2>1
  <2>3. \A y \in B : \E j \in 1..(k - 1) : h[j] = y
    <3> SUFFICES ASSUME NEW y \in B PROVE \E j \in 1..(k - 1) : h[j] = y
      OBVIOUS
    <3>1. PICK j \in 1..m : s[j] = y
      BY <1>1
    <3>2. j < k
      BY <1>2, <3>1
    <3>3. j \in 1..(k - 1)
      BY <1>1, <3>2
    <3> QED BY <3>1, <3>3
  <2>4. \A i, j \in 1..(k - 1) : h[i] = h[j] => i = j
    BY <1>3, <2>1
  <2> HIDE DEF h, B
  <2>5. h \in Bijection(1..(k - 1), B)
    BY <2>2, <2>3, <2>4 DEF Bijection, Injection, IsInjective, Surjection
  <2>6. /\ 1 \in Int /\ k - 1 \in Int /\ IsFiniteSet(1..(k - 1))
        /\ Cardinality(1..(k - 1)) = IF 1 > k - 1 THEN 0 ELSE (k - 1) - 1 + 1
    <3>1. 1 \in Int /\ k - 1 \in Int
      BY <1>1
    <3> QED BY <3>1, FS_Interval
  <2>7. Cardinality(1..(k - 1)) = k - 1
    BY <1>1, <2>6
  <2>8. Cardinality(B) = k - 1
    BY <2>5, <2>6, <2>7, FS_Bijection DEF ExistsBijection
  <2> QED BY <2>8 DEF Before, B
<1>6. \A k \in 1..m : \A x \in S : Before(x, R, S) = k - 1 <=> x = s[k]
  <2> SUFFICES ASSUME NEW k \in 1..m, NEW x \in S PROVE Before(x, R, S) = k - 1 <=> x = s[k]
    OBVIOUS
  <2>1. PICK j \in 1..m : s[j] = x
    BY <1>1
  <2>2. Before(x, R, S) = j - 1
    BY <1>5, <2>1
  <2> QED BY <1>3, <2>1, <2>2
<1>7. Ordered(S, R) = [k \in 1..m |-> CHOOSE x \in S : Before(x, R, S) = k - 1]
  BY <1>4 DEF Ordered, Before
<1>8. \A k \in 1..m : (CHOOSE x \in S : Before(x, R, S) = k - 1) = s[k]
  <2> SUFFICES ASSUME NEW k \in 1..m PROVE (CHOOSE x \in S : Before(x, R, S) = k - 1) = s[k]
    OBVIOUS
  <2>1. s[k] \in S /\ \A x \in S : Before(x, R, S) = k - 1 <=> x = s[k]
    BY <1>1, <1>6
  <2> QED BY <2>1
<1>9. Ordered(S, R) = s
  BY <1>1, <1>7, <1>8
<1> QED BY <1>4, <1>9

\* Each member has a number of others before it that no other has, and each number is had.
LEMMA EachRank ==
    ASSUME NEW S, IsFiniteSet(S), NEW R, Orders(R, S)
    PROVE  /\ Cardinality(S) \in Nat
           /\ \A x \in S : Before(x, R, S) \in 0 .. Cardinality(S) - 1
           /\ \A x, y \in S : <<x, y>> \in R => Before(x, R, S) < Before(y, R, S)
           /\ \A x, y \in S : Before(x, R, S) = Before(y, R, S) => x = y
           /\ \A k \in 1 .. Cardinality(S) : \E x \in S : Before(x, R, S) = k - 1
<1> DEFINE n == Cardinality(S)
           f == [x \in S |-> Before(x, R, S) + 1]
<1>1. n \in Nat
  BY FS_CardinalityType
<1>2. /\ \A x \in S : Before(x, R, S) \in 0 .. n - 1
      /\ \A x, y \in S : <<x, y>> \in R => Before(x, R, S) < Before(y, R, S)
  BY FewerBefore
<1>3. \A x, y \in S : Before(x, R, S) = Before(y, R, S) => x = y
  <2> SUFFICES ASSUME NEW x \in S, NEW y \in S, Before(x, R, S) = Before(y, R, S), x # y PROVE FALSE
    OBVIOUS
  <2>1. <<x, y>> \in R \/ <<y, x>> \in R
    BY DEF Orders
  <2>2. ~(Before(x, R, S) < Before(y, R, S)) /\ ~(Before(y, R, S) < Before(x, R, S))
    BY <1>1, <1>2
  <2> QED BY <1>2, <2>1, <2>2
<1>4. \A k \in 1..n : \E x \in S : Before(x, R, S) = k - 1
  <2>1. f \in [S -> 1..n]
    BY <1>1, <1>2
  <2>2. \A x, y \in S : f[x] = f[y] => x = y
    <3> SUFFICES ASSUME NEW x \in S, NEW y \in S, f[x] = f[y] PROVE x = y
      OBVIOUS
    <3>1. Before(x, R, S) \in Int /\ Before(y, R, S) \in Int /\ Before(x, R, S) + 1 = Before(y, R, S) + 1
      BY <1>1, <1>2
    <3> QED BY <1>3, <3>1
  <2>3. f \in Injection(S, 1..n)
    <3> HIDE DEF f
    <3> QED BY <2>1, <2>2 DEF Injection, IsInjective
  <2> DEFINE T == {f[x] : x \in S}
  <2>4. f \in Bijection(S, T)
    <3> HIDE DEF f
    <3> QED BY <2>1, <2>2 DEF Bijection, Injection, IsInjective, Surjection
  <2>5. Cardinality(T) = n
    <3> HIDE DEF T
    <3> QED BY <2>4, FS_Bijection DEF ExistsBijection
  <2>6. T \in SUBSET (1..n)
    <3> HIDE DEF f
    <3> QED BY <2>1
  <2>7. IsFiniteSet(1..n) /\ Cardinality(1..n) = n
    <3>1. 1 \in Int /\ n \in Int
      BY <1>1
    <3>2. IsFiniteSet(1..n) /\ Cardinality(1..n) = IF 1 > n THEN 0 ELSE n - 1 + 1
      BY <3>1, FS_Interval
    <3> QED BY <1>1, <3>2
  <2> HIDE DEF T
  <2>8. T = 1..n
    BY <2>5, <2>6, <2>7, FS_Subset
  <2> SUFFICES ASSUME NEW k \in 1..n PROVE \E x \in S : Before(x, R, S) = k - 1
    OBVIOUS
  <2>9. PICK x \in S : f[x] = k
    BY <2>8 DEF T
  <2>10. Before(x, R, S) + 1 = k /\ Before(x, R, S) \in Int
    BY <1>1, <1>2, <2>9
  <2> QED BY <2>10
<1> HIDE DEF f
<1> QED BY <1>1, <1>2, <1>3, <1>4

\* ORDER BY sorts a finite set.
LEMMA OrderedSorts ==
    ASSUME NEW S, IsFiniteSet(S), NEW R, Orders(R, S)
    PROVE  Sorts(Ordered(S, R), Cardinality(S), R, S)
<1> DEFINE n == Cardinality(S)
           s == Ordered(S, R)
<1>1. n \in Nat
  BY EachRank
<1>2. /\ \A x \in S : Before(x, R, S) \in 0 .. n - 1
      /\ \A x, y \in S : <<x, y>> \in R => Before(x, R, S) < Before(y, R, S)
  BY EachRank
<1>3. \A x, y \in S : Before(x, R, S) = Before(y, R, S) => x = y
  BY EachRank
<1>4. \A k \in 1..n : \E x \in S : Before(x, R, S) = k - 1
  BY EachRank
<1>5. s = [k \in 1..n |-> CHOOSE x \in S : Before(x, R, S) = k - 1]
  BY DEF Ordered, Before
<1>6. \A k \in 1..n : s[k] \in S /\ Before(s[k], R, S) = k - 1
  <2> HIDE DEF n, s
  <2> QED BY <1>4, <1>5
<1>7. s \in [1..n -> S]
  <2> HIDE DEF n
  <2> QED BY <1>5, <1>6
<1> HIDE DEF s, n
<1>8. \A x \in S : \E k \in 1..n : s[k] = x
  <2> SUFFICES ASSUME NEW x \in S PROVE \E k \in 1..n : s[k] = x
    OBVIOUS
  <2>1. Before(x, R, S) + 1 \in 1..n /\ (Before(x, R, S) + 1) - 1 = Before(x, R, S)
    BY <1>1, <1>2
  <2>2. s[Before(x, R, S) + 1] = x
    BY <1>3, <1>6, <2>1
  <2> QED BY <2>1, <2>2
<1>9. ASSUME NEW j \in 1..n, NEW k \in 1..n, j < k PROVE <<s[j], s[k]>> \in R
  <2>1. s[j] \in S /\ s[k] \in S /\ Before(s[j], R, S) = j - 1 /\ Before(s[k], R, S) = k - 1
    BY <1>6
  <2>2. ~(Before(s[k], R, S) < Before(s[j], R, S)) /\ s[j] # s[k]
    BY <1>1, <1>9, <2>1
  <2>3. <<s[j], s[k]>> \in R \/ <<s[k], s[j]>> \in R
    BY <2>1, <2>2 DEF Orders
  <2> QED BY <1>2, <2>1, <2>2, <2>3
<1> QED BY <1>1, <1>7, <1>8, <1>9 DEF Sorts, s, n

-----------------------------------------------------------------------------
(* The scan of paths.                                                       *)

NodeAt(xs, k) == [node |-> xs[k].node, ts |-> xs[k].ts]

\* The nodes of some xs in a row, and the person they belong to.
Piece(xs, lo, hi) == [j \in 1 .. hi - lo + 1 |-> NodeAt(xs, lo - 1 + j)]
RunOf(xs, lo, hi) == [person |-> xs[lo].person, nodes |-> Piece(xs, lo, hi)]

\* Where a person's xs begin and end.
Begins(xs, lo) == lo = 1 \/ xs[lo - 1].person # xs[lo].person
Ends(xs, hi) == hi = Len(xs) \/ xs[hi + 1].person # xs[hi].person
SamePerson(xs, lo, hi) == \A j \in lo .. hi : xs[j].person = xs[lo].person

IsRun(xs, lo, hi) == lo <= hi /\ Begins(xs, lo) /\ Ends(xs, hi) /\ SamePerson(xs, lo, hi)

\* The runs that end before a row.
RunsBefore(xs, k) ==
    {RunOf(xs, x[1], x[2]) :
        x \in {x \in (1 .. Len(xs)) \X (1 .. Len(xs)) : x[2] < k /\ IsRun(xs, x[1], x[2])}}

\* One more row.
OneRow(acc, xs, k) ==
    IF acc.nodes # <<>> /\ acc.current = xs[k].person
    THEN [acc EXCEPT !.nodes = Append(@, NodeAt(xs, k))]
    ELSE [current |-> xs[k].person, nodes |-> <<NodeAt(xs, k)>>, out |-> Flush(acc)]

\* The scan takes the xs one by one.
LEMMA RowByRow ==
    ASSUME NEW xs, Len(xs) \in Nat
    PROVE  LET acc == handed(xs) IN
           /\ acc[0] = [current |-> "none", nodes |-> <<>>, out |-> {}]
           /\ \A k \in 1 .. Len(xs) : acc[k] = OneRow(acc[k - 1], xs, k)
<1> DEFINE n == Len(xs)
           P == {xs[k].person : k \in 1..n} \cup {"none"}
           N == {NodeAt(xs, k) : k \in 1..n}
           X == [current : P, nodes : Seq(N), out : SUBSET [person : P, nodes : Seq(N)]]
           b == [current |-> "none", nodes |-> <<>>, out |-> {}]
           G == [p \in X \X (1..n) |-> OneRow(p[1], xs, p[2])]
           Row(f) == [k \in 0..n |-> IF k = 0 THEN b ELSE OneRow(f[k - 1], xs, k)]
           at == CHOOSE f : f = Row(f)
<1>1. handed(xs) = at
  BY DEF handed, OneRow, NodeAt
<1>2. n \in Nat /\ b \in X
  OBVIOUS
<1>3. ASSUME NEW x \in X, NEW k \in 1..n PROVE OneRow(x, xs, k) \in X
  <2>1. NodeAt(xs, k) \in N /\ xs[k].person \in P
    OBVIOUS
  <2> HIDE DEF N, P
  <2>2. Append(x.nodes, NodeAt(xs, k)) \in Seq(N) /\ <<NodeAt(xs, k)>> \in Seq(N)
    BY <2>1
  <2>3. Flush(x) \in SUBSET [person : P, nodes : Seq(N)]
    BY DEF Flush
  <2> QED BY <2>1, <2>2, <2>3 DEF OneRow
<1>4. G \in [X \X (1..n) -> X] /\ \A x \in X, k \in 1..n : G[<<x, k>>] = OneRow(x, xs, k)
  <2> HIDE DEF X, n
  <2> QED BY <1>3
<1> HIDE DEF G, X, b
<1>5. PICK h : h \in [0..n -> X] /\ h[0] = b /\ \A k \in 1..n : h[k] = G[<<h[k - 1], k>>]
  <2> HIDE DEF n, at, Row
  <2>1. \E h : Recursive(h, n, X, b, G)
    BY <1>2, <1>4, Recursion
  <2> QED BY <2>1 DEF Recursive
<1>6. h = Row(h)
  <2>1. ASSUME NEW k \in 0..n, k # 0 PROVE h[k] = OneRow(h[k - 1], xs, k)
    <3>1. k \in 1..n /\ k - 1 \in 0..n
      BY <1>2, <2>1
    <3>2. h[k - 1] \in X
      BY <1>5, <3>1
    <3> QED BY <1>4, <1>5, <3>1, <3>2
  <2>2. h = [k \in 0..n |-> h[k]]
    BY <1>5
  <2> HIDE DEF n
  <2> QED BY <1>5, <2>1, <2>2
<1>7. at = Row(at)
  <2> HIDE DEF Row
  <2> QED BY <1>6
<1>8. at[0] = b /\ \A k \in 1..n : at[k] = OneRow(at[k - 1], xs, k)
  <2> HIDE DEF at, n
  <2> QED BY <1>2, <1>7
<1> HIDE DEF at, Row
<1> QED BY <1>1, <1>8 DEF b

\* What the scan holds after some xs: the last run so far, and the ones before it.
Holding(xs, k, acc) ==
    \E lo \in 1..k : /\ Begins(xs, lo) /\ SamePerson(xs, lo, k)
                     /\ acc = [current |-> xs[k].person, nodes |-> Piece(xs, lo, k), out |-> RunsBefore(xs, lo)]

\* A run that ends with the last row so far is the one before the next.
LEMMA RunEnds ==
    ASSUME NEW xs, Len(xs) \in Nat, NEW lo \in 1..Len(xs), NEW k \in 1..Len(xs), lo <= k,
           Begins(xs, lo), SamePerson(xs, lo, k), Ends(xs, k)
    PROVE  RunsBefore(xs, k + 1) = RunsBefore(xs, lo) \cup {RunOf(xs, lo, k)}
<1> DEFINE n == Len(xs)
           Q(j) == {x \in (1..n) \X (1..n) : x[2] < j /\ IsRun(xs, x[1], x[2])}
<1>1. Q(k + 1) = Q(lo) \cup {<<lo, k>>}
  <2>1. <<lo, k>> \in Q(k + 1)
    BY DEF IsRun
  <2>2. Q(lo) \subseteq Q(k + 1)
    OBVIOUS
  <2>3. ASSUME NEW a \in 1..n, NEW b \in 1..n, b < k + 1, IsRun(xs, a, b), ~(b < lo) PROVE a = lo /\ b = k
    <3>1. b \in lo..k /\ a <= b
      BY <2>3 DEF IsRun
    <3>2. b = k
      <4> SUFFICES ASSUME b # k PROVE FALSE
        OBVIOUS
      <4>1. b + 1 \in lo..k /\ b # n
        BY <3>1
      <4>2. xs[b + 1].person = xs[lo].person /\ xs[b].person = xs[lo].person
        BY <3>1, <4>1 DEF SamePerson
      <4> QED BY <2>3, <4>1, <4>2 DEF IsRun, Ends
    <3>3. ~(a < lo)
      <4> SUFFICES ASSUME a < lo PROVE FALSE
        OBVIOUS
      <4>1. lo - 1 \in a..b /\ lo \in a..b /\ lo # 1
        BY <3>1
      <4>2. xs[lo - 1].person = xs[lo].person
        BY <2>3, <4>1 DEF IsRun, SamePerson
      <4> QED BY <4>1, <4>2 DEF Begins
    <3>4. ~(lo < a)
      <4> SUFFICES ASSUME lo < a PROVE FALSE
        OBVIOUS
      <4>1. a - 1 \in lo..k /\ a \in lo..k /\ a # 1
        BY <3>1, <3>2
      <4>2. xs[a - 1].person = xs[a].person
        BY <4>1 DEF SamePerson
      <4> QED BY <2>3, <4>1, <4>2 DEF IsRun, Begins
    <3> QED BY <3>2, <3>3, <3>4
  <2>4. Q(k + 1) \subseteq Q(lo) \cup {<<lo, k>>}
    <3> SUFFICES ASSUME NEW x \in Q(k + 1) PROVE x \in Q(lo) \/ x = <<lo, k>>
      OBVIOUS
    <3>1. x = <<x[1], x[2]>> /\ x[1] \in 1..n /\ x[2] \in 1..n /\ x[2] < k + 1 /\ IsRun(xs, x[1], x[2])
      OBVIOUS
    <3>2. CASE x[2] < lo
      BY <3>1, <3>2
    <3>3. CASE ~(x[2] < lo)
      BY <2>3, <3>1, <3>3
    <3> QED BY <3>2, <3>3
  <2> QED BY <2>1, <2>2, <2>4
<1>2. \A j : RunsBefore(xs, j) = {RunOf(xs, x[1], x[2]) : x \in Q(j)}
  BY DEF RunsBefore
<1> DEFINE f(x) == RunOf(xs, x[1], x[2])
           c == <<lo, k>>
<1>3. f(c) = RunOf(xs, lo, k)
  OBVIOUS
<1>4. \A j : RunsBefore(xs, j) = {f(x) : x \in Q(j)}
  BY <1>2
<1>5. Q(k + 1) = Q(lo) \cup {c}
  BY <1>1
<1> HIDE DEF Q, f, c
<1>6. \A y : y \in RunsBefore(xs, k + 1) <=> y \in RunsBefore(xs, lo) \/ y = f(c)
  BY <1>4, <1>5
<1> QED BY <1>3, <1>6

\* A row more of the same person makes the piece one longer.
LEMMA PieceGrows ==
    ASSUME NEW xs, NEW lo \in Nat, NEW k \in Nat, lo <= k + 1
    PROVE  Append(Piece(xs, lo, k), NodeAt(xs, k + 1)) = Piece(xs, lo, k + 1)
<1> DEFINE s == Piece(xs, lo, k)
           S == {NodeAt(xs, lo - 1 + j) : j \in 1 .. k - lo + 2}
           e == NodeAt(xs, k + 1)
<1>1. k - lo + 1 \in Nat /\ (k + 1) - lo + 1 = (k - lo + 1) + 1
  OBVIOUS
<1>2. \A j \in 1 .. (k - lo + 1) + 1 : j \in 1 .. k - lo + 1 \/ (j = (k - lo + 1) + 1 /\ lo - 1 + j = k + 1)
  BY <1>1
<1>3. \A j \in 1 .. k - lo + 1 : j \in 1 .. k - lo + 2
  BY <1>1
<1>4. s \in [1 .. k - lo + 1 -> S]
  BY <1>3 DEF Piece
<1>5. \A j \in 1 .. k - lo + 1 : s[j] = NodeAt(xs, lo - 1 + j)
  BY DEF Piece
<1> HIDE DEF s, S, e
<1>6. s \in Seq(S) /\ Len(s) = k - lo + 1
  BY <1>1, <1>4
<1>7. Append(s, e) = [j \in 1 .. (k - lo + 1) + 1 |-> IF j \in 1 .. k - lo + 1 THEN s[j] ELSE e]
  <2> DEFINE t == Append(s, e)
  <2>1. e \in S
    <3>1. k - lo + 2 \in 1 .. k - lo + 2 /\ lo - 1 + (k - lo + 2) = k + 1
      BY <1>1
    <3> QED BY <3>1 DEF S, e
  <2>2. /\ t \in Seq(S) /\ Len(t) = (k - lo + 1) + 1
        /\ \A j \in 1 .. k - lo + 1 : t[j] = s[j]
        /\ t[(k - lo + 1) + 1] = e
    BY <1>6, <2>1, AppendProperties
  <2> HIDE DEF t
  <2>3. t = [j \in 1 .. Len(t) |-> t[j]]
    BY <2>2
  <2>4. \A j \in 1 .. (k - lo + 1) + 1 : t[j] = IF j \in 1 .. k - lo + 1 THEN s[j] ELSE e
    BY <1>1, <1>2, <2>2
  <2>5. t = [j \in 1 .. (k - lo + 1) + 1 |-> IF j \in 1 .. k - lo + 1 THEN s[j] ELSE e]
    BY <2>2, <2>3, <2>4
  <2> QED BY <2>5 DEF t
<1>8. Piece(xs, lo, k + 1) = [j \in 1 .. (k - lo + 1) + 1 |-> NodeAt(xs, lo - 1 + j)]
  BY <1>1 DEF Piece
<1>9. \A j \in 1 .. (k - lo + 1) + 1 : NodeAt(xs, lo - 1 + j) = IF j \in 1 .. k - lo + 1 THEN s[j] ELSE e
  BY <1>2, <1>5 DEF e
<1> QED BY <1>7, <1>8, <1>9 DEF s, e

\* The scan hands over the runs.
LEMMA RunsHanded ==
    ASSUME NEW xs, Len(xs) \in Nat
    PROVE  Flush(handed(xs)[Len(xs)]) = RunsBefore(xs, Len(xs) + 1)
<1> DEFINE n == Len(xs)
           acc == handed(xs)
<1>1. /\ n \in Nat /\ acc[0] = [current |-> "none", nodes |-> <<>>, out |-> {}]
      /\ \A k \in 1..n : acc[k] = OneRow(acc[k - 1], xs, k)
  BY RowByRow
<1> HIDE DEF acc
<1>2. RunsBefore(xs, 1) = {}
  <2>1. {x \in (1..n) \X (1..n) : x[2] < 1 /\ IsRun(xs, x[1], x[2])} = {}
    BY <1>1
  <2> QED BY <2>1 DEF RunsBefore
<1>3. ASSUME NEW lo \in 1..n, NEW k \in 1..n, lo <= k PROVE Piece(xs, lo, k) # <<>>
  <2>1. DOMAIN Piece(xs, lo, k) = 1 .. k - lo + 1 /\ 1 \in 1 .. k - lo + 1
    BY <1>3 DEF Piece
  <2>2. DOMAIN <<>> = {}
    OBVIOUS
  <2> QED BY <2>1, <2>2
<1>4. ASSUME n # 0 PROVE Holding(xs, 1, acc[1])
  <2>1. acc[1] = OneRow(acc[0], xs, 1)
    <3>1. 1 \in 1..n /\ 1 - 1 = 0
      BY <1>1, <1>4
    <3> QED BY <1>1, <3>1
  <2>2. acc[1] = [current |-> xs[1].person, nodes |-> <<NodeAt(xs, 1)>>, out |-> {}]
    BY <1>1, <2>1 DEF OneRow, Flush
  <2>3. Piece(xs, 1, 1) = <<NodeAt(xs, 1)>>
    <3>1. 1 - 1 + 1 = 1 /\ \A j \in 1..1 : 1 - 1 + j = 1
      OBVIOUS
    <3> QED BY <3>1 DEF Piece
  <2>4. acc[1] = [current |-> xs[1].person, nodes |-> Piece(xs, 1, 1), out |-> RunsBefore(xs, 1)]
    BY <1>2, <2>2, <2>3
  <2>5. Begins(xs, 1) /\ SamePerson(xs, 1, 1) /\ 1 \in 1..1
    BY DEF Begins, SamePerson
  <2> QED BY <2>4, <2>5 DEF Holding
<1>5. ASSUME NEW k \in 1..n, k + 1 \in 1..n, Holding(xs, k, acc[k]) PROVE Holding(xs, k + 1, acc[k + 1])
  <2>1. acc[k + 1] = OneRow(acc[k], xs, k + 1)
    BY <1>1, <1>5
  <2>2. PICK lo \in 1..k : /\ Begins(xs, lo) /\ SamePerson(xs, lo, k)
                           /\ acc[k] = [current |-> xs[k].person, nodes |-> Piece(xs, lo, k),
                                         out |-> RunsBefore(xs, lo)]
    BY <1>5 DEF Holding
  <2>3. lo \in 1..n /\ lo <= k /\ acc[k].nodes # <<>> /\ xs[k].person = xs[lo].person
    BY <1>1, <1>3, <2>2 DEF SamePerson
  <2>4. CASE xs[k].person = xs[k + 1].person
    <3>1. acc[k + 1] = [acc[k] EXCEPT !.nodes = Append(@, NodeAt(xs, k + 1))]
      BY <2>1, <2>2, <2>3, <2>4 DEF OneRow
    <3>2. Append(Piece(xs, lo, k), NodeAt(xs, k + 1)) = Piece(xs, lo, k + 1)
      BY <2>3, PieceGrows
    <3>3. SamePerson(xs, lo, k + 1)
      <4>1. \A j \in lo .. k + 1 : j \in lo .. k \/ j = k + 1
        BY <1>1, <2>3
      <4> QED BY <2>2, <2>3, <2>4, <4>1 DEF SamePerson
    <3>4. lo \in 1 .. k + 1
      BY <2>3
    <3>5. acc[k + 1] = [current |-> xs[k + 1].person, nodes |-> Piece(xs, lo, k + 1), out |-> RunsBefore(xs, lo)]
      <4>1. acc[k].nodes = Piece(xs, lo, k)
        BY <2>2
      <4>2. acc[k + 1] = [acc[k] EXCEPT !.nodes = Piece(xs, lo, k + 1)]
        BY <3>1, <3>2, <4>1
      <4> QED BY <2>2, <2>4, <4>2
    <3> QED BY <2>2, <3>3, <3>4, <3>5 DEF Holding
  <2>5. CASE xs[k].person # xs[k + 1].person
    <3>1. acc[k + 1] = [current |-> xs[k + 1].person, nodes |-> <<NodeAt(xs, k + 1)>>, out |-> Flush(acc[k])]
      BY <2>1, <2>2, <2>5 DEF OneRow
    <3>2. Flush(acc[k]) = RunsBefore(xs, lo) \cup {RunOf(xs, lo, k)}
      BY <2>2, <2>3 DEF Flush, RunOf
    <3>3. Flush(acc[k]) = RunsBefore(xs, k + 1)
      <4>1. Ends(xs, k)
        BY <2>5 DEF Ends
      <4> QED BY <2>2, <2>3, <3>2, <4>1, RunEnds
    <3>4. Piece(xs, k + 1, k + 1) = <<NodeAt(xs, k + 1)>>
      <4>1. (k + 1) - (k + 1) + 1 = 1 /\ \A j \in 1..1 : (k + 1) - 1 + j = k + 1
        BY <1>1
      <4> QED BY <4>1 DEF Piece
    <3>5. Begins(xs, k + 1) /\ SamePerson(xs, k + 1, k + 1) /\ k + 1 \in 1 .. k + 1
      <4>1. (k + 1) - 1 = k /\ \A j \in (k + 1) .. (k + 1) : j = k + 1
        BY <1>1
      <4> QED BY <1>1, <2>5, <4>1 DEF Begins, SamePerson
    <3> QED BY <3>1, <3>3, <3>4, <3>5 DEF Holding
  <2> QED BY <2>4, <2>5
<1>6. CASE n = 0
  <2>1. RunsBefore(xs, n + 1) = {}
    BY <1>2, <1>6
  <2>2. Flush(acc[0]) = {}
    BY <1>1 DEF Flush
  <2> QED BY <1>6, <2>1, <2>2 DEF acc
<1>7. CASE n # 0
  <2> DEFINE T == {k \in Nat : k \in 1..n /\ ~Holding(xs, k, acc[k])}
  <2>1. Holding(xs, n, acc[n])
    <3> SUFFICES ASSUME T # {} PROVE FALSE
      BY <1>1, <1>7
    <3>1. PICK k \in T : \A m \in T : k <= m
      <4>1. T \subseteq Nat
        OBVIOUS
      <4> HIDE DEF T
      <4> QED BY <4>1, LeastNatural
    <3>2. k # 1
      BY <1>4, <1>7
    <3>3. k - 1 \in 1..n /\ (k - 1) + 1 = k /\ k - 1 \in Nat /\ ~(k <= k - 1)
      BY <1>1, <3>2
    <3>4. k - 1 \notin T
      <4> HIDE DEF T
      <4> QED BY <3>1, <3>3
    <3>5. Holding(xs, k - 1, acc[k - 1])
      BY <3>3, <3>4
    <3> QED BY <1>5, <3>3, <3>5
  <2>2. PICK lo \in 1..n : /\ Begins(xs, lo) /\ SamePerson(xs, lo, n)
                           /\ acc[n] = [current |-> xs[n].person, nodes |-> Piece(xs, lo, n),
                                         out |-> RunsBefore(xs, lo)]
    BY <2>1 DEF Holding
  <2>3. n \in 1..n /\ lo <= n /\ acc[n].nodes # <<>> /\ xs[n].person = xs[lo].person
    BY <1>1, <1>3, <1>7, <2>2 DEF SamePerson
  <2>4. Flush(acc[n]) = RunsBefore(xs, lo) \cup {RunOf(xs, lo, n)}
    BY <2>2, <2>3 DEF Flush, RunOf
  <2>5. Ends(xs, n)
    BY DEF Ends
  <2> QED BY <2>2, <2>3, <2>4, <2>5, RunEnds DEF acc
<1> QED BY <1>6, <1>7

\* The events of a person that have a node, in order, and those nodes.
Chosen(evs, q, p) == {e \in evs : person_id(e) = p /\ node_of(e, q) # NoNode}
Earlier(S) == {x \in S \X S : x[1].ts < x[2].ts \/ (x[1].ts = x[2].ts /\ x[1].uuid < x[2].uuid)}
Mine(evs, q, p) == Ordered(Chosen(evs, q, p), Earlier(Chosen(evs, q, p)))
NodesOf(evs, q, p) ==
    [k \in 1 .. Cardinality(Chosen(evs, q, p)) |->
        [node |-> node_of(Mine(evs, q, p)[k], q), ts |-> Mine(evs, q, p)[k].ts]]

\* Events a scan reads.
Scannable(evs) ==
    /\ IsFiniteSet(evs)
    /\ \A e \in evs : e.ts \in Int /\ e.uuid \in Int /\ person_id(e) \in DOMAIN PersonRank
    /\ \A e, f \in evs : e.ts = f.ts /\ e.uuid = f.uuid => e = f

\* The row of an event.
RowOf(e, q) == [person |-> person_id(e), node |-> node_of(e, q), ts |-> e.ts, uuid |-> e.uuid]

\* The rows of a partition, and their order.
Asked(evs, q, n, of) == {x \in {RowOf(e, q) : e \in evs} : x.node # NoNode /\ InPartition(x.person, n, of)}
ByPerson(S) ==
    {x \in S \X S : \/ PersonRank[x[1].person] < PersonRank[x[2].person]
                    \/ x[1].person = x[2].person
                       /\ (x[1].ts < x[2].ts \/ (x[1].ts = x[2].ts /\ x[1].uuid < x[2].uuid))}

\* A person's events are in one order.
LEMMA EventsOrdered ==
    ASSUME NEW evs, Scannable(evs), NEW q, NEW p
    PROVE  IsFiniteSet(Chosen(evs, q, p)) /\ Orders(Earlier(Chosen(evs, q, p)), Chosen(evs, q, p))
<1> DEFINE S == Chosen(evs, q, p)
<1>1. S \in SUBSET evs
  BY DEF Chosen
<1> HIDE DEF S
<1>2. IsFiniteSet(S)
  BY <1>1, FS_Subset DEF Scannable
<1>3. /\ \A e \in S : e.ts \in Int /\ e.uuid \in Int
      /\ \A e, f \in S : e.ts = f.ts /\ e.uuid = f.uuid => e = f
  BY <1>1 DEF Scannable
<1>4. \A e, f \in S : <<e, f>> \in Earlier(S) <=> e.ts < f.ts \/ (e.ts = f.ts /\ e.uuid < f.uuid)
  BY DEF Earlier
<1>5. Orders(Earlier(S), S)
  BY <1>3, <1>4 DEF Orders
<1> QED BY <1>2, <1>5 DEF S

\* The rows of a partition are in one order, person by person.
LEMMA RowsOrdered ==
    ASSUME NEW evs, Scannable(evs), NEW q, NEW n, NEW of
    PROVE  LET A == Asked(evs, q, n, of) IN
           /\ IsFiniteSet(A) /\ Orders(ByPerson(A), A)
           /\ \A x \in A : \E e \in evs : x = RowOf(e, q) /\ x.node # NoNode /\ InPartition(x.person, n, of)
           /\ \A x, y \in A : <<x, y>> \in ByPerson(A)
                 <=> \/ PersonRank[x.person] < PersonRank[y.person]
                     \/ x.person = y.person /\ (x.ts < y.ts \/ (x.ts = y.ts /\ x.uuid < y.uuid))
<1> DEFINE A == Asked(evs, q, n, of)
           B == {RowOf(e, q) : e \in evs}
<1>1. IsFiniteSet(A)
  <2>1. [e \in evs |-> RowOf(e, q)] \in Surjection(evs, B)
    BY DEF Surjection
  <2>2. IsFiniteSet(B)
    <3> HIDE DEF B
    <3> QED BY <2>1, FS_Surjection DEF Scannable
  <2>3. A \in SUBSET B
    BY DEF Asked
  <2> HIDE DEF A, B
  <2> QED BY <2>2, <2>3, FS_Subset
<1>2. \A x \in A : \E e \in evs : x = RowOf(e, q) /\ x.node # NoNode /\ InPartition(x.person, n, of)
  BY DEF Asked
<1> HIDE DEF A
<1>3. \A x \in A : x.ts \in Int /\ x.uuid \in Int /\ x.person \in DOMAIN PersonRank /\ PersonRank[x.person] \in Int
  <2> SUFFICES ASSUME NEW x \in A
               PROVE  x.ts \in Int /\ x.uuid \in Int /\ x.person \in DOMAIN PersonRank /\ PersonRank[x.person] \in Int
    OBVIOUS
  <2>1. PICK e \in evs : x = RowOf(e, q)
    BY <1>2
  <2>2. x.ts = e.ts /\ x.uuid = e.uuid /\ x.person = person_id(e)
    BY <2>1 DEF RowOf
  <2> QED BY <2>2, PathsAssumption DEF Scannable
<1>4. \A x, y \in A : x.person = y.person /\ x.ts = y.ts /\ x.uuid = y.uuid => x = y
  <2> SUFFICES ASSUME NEW x \in A, NEW y \in A, x.ts = y.ts, x.uuid = y.uuid PROVE x = y
    OBVIOUS
  <2>1. PICK e \in evs : x = RowOf(e, q)
    BY <1>2
  <2>2. PICK f \in evs : y = RowOf(f, q)
    BY <1>2
  <2>3. e.ts = f.ts /\ e.uuid = f.uuid
    BY <2>1, <2>2 DEF RowOf
  <2> QED BY <2>1, <2>2, <2>3 DEF Scannable
<1>5. \A x, y \in A : <<x, y>> \in ByPerson(A)
         <=> \/ PersonRank[x.person] < PersonRank[y.person]
             \/ x.person = y.person /\ (x.ts < y.ts \/ (x.ts = y.ts /\ x.uuid < y.uuid))
  BY DEF ByPerson
<1>6. \A x, y \in A : PersonRank[x.person] = PersonRank[y.person] => x.person = y.person
  BY <1>3, PathsAssumption
<1>7. Orders(ByPerson(A), A)
  <2>1. \A x \in A : <<x, x>> \notin ByPerson(A)
    BY <1>3, <1>5
  <2>2. \A x, y \in A : x = y \/ <<x, y>> \in ByPerson(A) \/ <<y, x>> \in ByPerson(A)
    <3> SUFFICES ASSUME NEW x \in A, NEW y \in A, <<x, y>> \notin ByPerson(A), <<y, x>> \notin ByPerson(A)
                 PROVE  x = y
      OBVIOUS
    <3>1. x.person = y.person
      BY <1>3, <1>5, <1>6
    <3>2. x.ts = y.ts /\ x.uuid = y.uuid
      BY <1>3, <1>5, <3>1
    <3> QED BY <1>4, <3>1, <3>2
  <2>3. \A x, y, z \in A : <<x, y>> \in ByPerson(A) /\ <<y, z>> \in ByPerson(A) => <<x, z>> \in ByPerson(A)
    <3> SUFFICES ASSUME NEW x \in A, NEW y \in A, NEW z \in A, <<x, y>> \in ByPerson(A), <<y, z>> \in ByPerson(A)
                 PROVE  <<x, z>> \in ByPerson(A)
      OBVIOUS
    <3>1. \/ PersonRank[x.person] < PersonRank[y.person]
          \/ x.person = y.person /\ (x.ts < y.ts \/ (x.ts = y.ts /\ x.uuid < y.uuid))
      BY <1>5
    <3>2. \/ PersonRank[y.person] < PersonRank[z.person]
          \/ y.person = z.person /\ (y.ts < z.ts \/ (y.ts = z.ts /\ y.uuid < z.uuid))
      BY <1>5
    <3>3. \/ PersonRank[x.person] < PersonRank[z.person]
          \/ x.person = z.person /\ (x.ts < z.ts \/ (x.ts = z.ts /\ x.uuid < z.uuid))
      BY <1>3, <3>1, <3>2
    <3> QED BY <1>5, <3>3
  <2> QED BY <2>1, <2>2, <2>3 DEF Orders
<1> QED BY <1>1, <1>2, <1>5, <1>7 DEF A

\* A run is all the rows of its person.
LEMMA RunIsWhole ==
    ASSUME NEW xs, NEW m \in Nat, Len(xs) = m,
           \A k \in 1..m : xs[k].person \in DOMAIN PersonRank,
           \A j, k \in 1..m : j < k => PersonRank[xs[j].person] <= PersonRank[xs[k].person]
    PROVE  /\ \A a, b, c \in 1..m : IsRun(xs, a, b) /\ xs[c].person = xs[a].person => a <= c /\ c <= b
           /\ \A c \in 1..m : \E a, b \in 1..m : IsRun(xs, a, b) /\ xs[a].person = xs[c].person
<1> DEFINE rank(k) == PersonRank[xs[k].person]
<1>1. \A k \in 1..m : rank(k) \in Int
  BY PathsAssumption
<1>2. \A j, k \in 1..m : rank(j) = rank(k) => xs[j].person = xs[k].person
  BY PathsAssumption
<1>3. \A j, k \in 1..m : xs[j].person = xs[k].person => rank(j) = rank(k)
  OBVIOUS
<1>4. \A j, k \in 1..m : j <= k => rank(j) <= rank(k)
  <2> SUFFICES ASSUME NEW j \in 1..m, NEW k \in 1..m, j <= k PROVE rank(j) <= rank(k)
    OBVIOUS
  <2>1. CASE j < k
    BY <2>1
  <2>2. CASE j = k
    BY <1>1, <2>2
  <2> QED BY <2>1, <2>2
<1> HIDE DEF rank
<1>5. \A i, j, k \in 1..m : i <= j /\ j <= k /\ xs[i].person = xs[k].person => xs[j].person = xs[k].person
  <2> SUFFICES ASSUME NEW i \in 1..m, NEW j \in 1..m, NEW k \in 1..m, i <= j, j <= k, xs[i].person = xs[k].person
               PROVE  xs[j].person = xs[k].person
    OBVIOUS
  <2>1. rank(i) <= rank(j) /\ rank(j) <= rank(k) /\ rank(i) = rank(k)
    BY <1>3, <1>4
  <2>2. rank(j) = rank(k)
    BY <1>1, <2>1
  <2> QED BY <1>2, <2>2
<1>6. ASSUME NEW a \in 1..m, NEW b \in 1..m, NEW c \in 1..m, IsRun(xs, a, b), xs[c].person = xs[a].person
      PROVE  a <= c /\ c <= b
  <2>1. ~(c < a)
    <3> SUFFICES ASSUME c < a PROVE FALSE
      OBVIOUS
    <3>1. a - 1 \in 1..m /\ c <= a - 1 /\ a - 1 <= a /\ a # 1
      OBVIOUS
    <3>2. xs[a - 1].person = xs[a].person
      BY <1>5, <1>6, <3>1
    <3> QED BY <1>6, <3>1, <3>2 DEF IsRun, Begins
  <2>2. ~(b < c)
    <3> SUFFICES ASSUME b < c PROVE FALSE
      OBVIOUS
    <3>1. b + 1 \in 1..m /\ b + 1 <= c /\ b <= b + 1 /\ b # m
      OBVIOUS
    <3>2. xs[b].person = xs[a].person
      BY <1>6 DEF IsRun, SamePerson
    <3>3. xs[b + 1].person = xs[c].person
      BY <1>5, <1>6, <3>1, <3>2
    <3> QED BY <1>6, <3>1, <3>2, <3>3 DEF IsRun, Ends
  <2> QED BY <2>1, <2>2
<1>7. ASSUME NEW c \in 1..m PROVE \E a, b \in 1..m : IsRun(xs, a, b) /\ xs[a].person = xs[c].person
  <2> DEFINE T == {k \in 1..m : xs[k].person = xs[c].person}
  <2>1. T \subseteq Nat /\ T \subseteq 0..m /\ T # {}
    OBVIOUS
  <2>2. PICK a \in T : \A k \in T : a <= k
    <3> HIDE DEF T
    <3> QED BY <2>1, LeastNatural
  <2>3. PICK b \in T : \A k \in T : k <= b
    <3> HIDE DEF T
    <3> QED BY <2>1, GreatestNatural
  <2>4. a <= b /\ a \in 1..m /\ b \in 1..m
    BY <2>2
  <2>5. Begins(xs, a)
    <3> SUFFICES ASSUME a # 1, xs[a - 1].person = xs[a].person PROVE FALSE
      BY DEF Begins
    <3>1. a - 1 \in T
      BY <2>4
    <3> QED BY <2>2, <2>4, <3>1
  <2>6. Ends(xs, b)
    <3> SUFFICES ASSUME b # m, xs[b + 1].person = xs[b].person PROVE FALSE
      BY DEF Ends
    <3>1. b + 1 \in T
      BY <2>4
    <3> QED BY <2>3, <2>4, <3>1
  <2>7. SamePerson(xs, a, b)
    <3>1. \A j \in a..b : j \in 1..m /\ a <= j /\ j <= b
      BY <2>4
    <3>2. xs[a].person = xs[b].person
      OBVIOUS
    <3>3. \A j \in a..b : xs[j].person = xs[b].person
      BY <1>5, <2>4, <3>1, <3>2
    <3> QED BY <3>2, <3>3 DEF SamePerson
  <2> QED BY <2>4, <2>5, <2>6, <2>7 DEF IsRun
<1> QED BY <1>6, <1>7

\* A run in the sorted rows of a partition is the nodes of its person, in order.
LEMMA RunIsNodes ==
    ASSUME NEW evs, Scannable(evs), NEW q, NEW n, NEW of, NEW m, NEW xs,
           Sorts(xs, m, ByPerson(Asked(evs, q, n, of)), Asked(evs, q, n, of)), Len(xs) = m,
           NEW a \in 1..m, NEW b \in 1..m, IsRun(xs, a, b),
           \A c \in 1..m : xs[c].person = xs[a].person => a <= c /\ c <= b
    PROVE  /\ Piece(xs, a, b) = NodesOf(evs, q, xs[a].person)
           /\ Chosen(evs, q, xs[a].person) # {} /\ InPartition(xs[a].person, n, of)
<1> DEFINE A == Asked(evs, q, n, of)
           p == xs[a].person
           S == Chosen(evs, q, p)
           w == b - a + 1
           ev == [j \in 1..w |-> CHOOSE e \in S : RowOf(e, q) = xs[a - 1 + j]]
<1>1. /\ m \in Nat /\ xs \in [1..m -> A] /\ \A x \in A : \E k \in 1..m : xs[k] = x
      /\ \A j, k \in 1..m : j < k => <<xs[j], xs[k]>> \in ByPerson(A)
  BY DEF Sorts
<1>2. /\ \A x \in A : \E e \in evs : x = RowOf(e, q) /\ x.node # NoNode /\ InPartition(x.person, n, of)
      /\ \A x, y \in A : <<x, y>> \in ByPerson(A)
            <=> \/ PersonRank[x.person] < PersonRank[y.person]
                \/ x.person = y.person /\ (x.ts < y.ts \/ (x.ts = y.ts /\ x.uuid < y.uuid))
  BY RowsOrdered
<1>3. IsFiniteSet(S) /\ Orders(Earlier(S), S)
  BY EventsOrdered
<1>4. \A e \in S : e \in evs /\ person_id(e) = p /\ node_of(e, q) # NoNode
  BY DEF Chosen
<1>5. a <= b /\ w \in Nat /\ \A j \in 1..w : a - 1 + j \in 1..m /\ a - 1 + j \in a..b
  BY <1>1 DEF IsRun
<1>6. InPartition(p, n, of) /\ p \in DOMAIN PersonRank /\ PersonRank[p] \in Int
  <2>1. xs[a] \in A
    BY <1>1
  <2>2. PICK e \in evs : xs[a] = RowOf(e, q) /\ InPartition(xs[a].person, n, of)
    BY <1>2, <2>1
  <2>3. xs[a].person = person_id(e)
    BY <2>2 DEF RowOf
  <2> QED BY <2>2, <2>3, PathsAssumption DEF Scannable
<1>7. \A e, f : RowOf(e, q) = RowOf(f, q)
         => person_id(e) = person_id(f) /\ node_of(e, q) = node_of(f, q) /\ e.ts = f.ts /\ e.uuid = f.uuid
  BY DEF RowOf
<1>8. \A j \in 1..w : ev[j] \in S /\ RowOf(ev[j], q) = xs[a - 1 + j]
  <2> SUFFICES ASSUME NEW j \in 1..w PROVE \E e \in S : RowOf(e, q) = xs[a - 1 + j]
    <3> HIDE DEF S, w
    <3> QED OBVIOUS
  <2>1. xs[a - 1 + j] \in A /\ xs[a - 1 + j].person = p
    BY <1>1, <1>5 DEF IsRun, SamePerson
  <2>2. PICK e \in evs : xs[a - 1 + j] = RowOf(e, q) /\ xs[a - 1 + j].node # NoNode
    BY <1>2, <2>1
  <2>3. person_id(e) = xs[a - 1 + j].person /\ node_of(e, q) = xs[a - 1 + j].node
    BY <2>2 DEF RowOf
  <2>4. e \in S
    BY <2>1, <2>2, <2>3 DEF Chosen
  <2> QED BY <2>2, <2>4
<1>9. \A e, f \in S : RowOf(e, q) = RowOf(f, q) => e = f
  BY <1>4, <1>7 DEF Scannable
<1>10. ev \in [1..w -> S]
  <2> HIDE DEF S, w
  <2>1. ev = [j \in 1..w |-> ev[j]]
    OBVIOUS
  <2> HIDE DEF ev
  <2> QED BY <1>8, <2>1
<1> HIDE DEF ev, A
<1>11. \A e \in S : \E j \in 1..w : ev[j] = e
  <2> SUFFICES ASSUME NEW e \in S PROVE \E j \in 1..w : ev[j] = e
    OBVIOUS
  <2>1. RowOf(e, q) \in A
    <3>1. e \in evs /\ person_id(e) = p /\ node_of(e, q) # NoNode
      BY <1>4
    <3>2. RowOf(e, q).node # NoNode /\ RowOf(e, q).person = p
      BY <3>1 DEF RowOf
    <3> HIDE DEF p
    <3> QED BY <1>6, <3>1, <3>2 DEF Asked, A
  <2>2. PICK c \in 1..m : xs[c] = RowOf(e, q)
    BY <1>1, <2>1
  <2>3. xs[c].person = p
    BY <1>4, <2>2 DEF RowOf
  <2>4. a <= c /\ c <= b
    BY <2>3
  <2>5. c - a + 1 \in 1..w /\ a - 1 + (c - a + 1) = c
    BY <2>4, <1>1
  <2>6. ev[c - a + 1] = e
    BY <1>8, <1>9, <2>2, <2>5
  <2> QED BY <2>5, <2>6
<1>12. ASSUME NEW j \in 1..w, NEW k \in 1..w, j < k PROVE <<ev[j], ev[k]>> \in Earlier(S)
  <2>1. a - 1 + j \in 1..m /\ a - 1 + k \in 1..m /\ a - 1 + j < a - 1 + k
    BY <1>1, <1>5, <1>12
  <2>2. <<xs[a - 1 + j], xs[a - 1 + k]>> \in ByPerson(A) /\ xs[a - 1 + j] \in A /\ xs[a - 1 + k] \in A
    BY <1>1, <2>1
  <2>3. ev[j] \in S /\ ev[k] \in S /\ RowOf(ev[j], q) = xs[a - 1 + j] /\ RowOf(ev[k], q) = xs[a - 1 + k]
    BY <1>8
  <2>4. \/ PersonRank[person_id(ev[j])] < PersonRank[person_id(ev[k])]
        \/ ev[j].ts < ev[k].ts \/ (ev[j].ts = ev[k].ts /\ ev[j].uuid < ev[k].uuid)
    <3> DEFINE x == xs[a - 1 + j]
               y == xs[a - 1 + k]
    <3>1. /\ x.person = person_id(ev[j]) /\ x.ts = ev[j].ts /\ x.uuid = ev[j].uuid
          /\ y.person = person_id(ev[k]) /\ y.ts = ev[k].ts /\ y.uuid = ev[k].uuid
      BY <2>3 DEF RowOf
    <3>2. x \in A /\ y \in A /\ <<x, y>> \in ByPerson(A)
      BY <2>2
    <3> HIDE DEF x, y
    <3> QED BY <1>2, <3>1, <3>2 DEF A
  <2>5. person_id(ev[j]) = p /\ person_id(ev[k]) = p
    BY <1>4, <2>3
  <2>6. ev[j].ts < ev[k].ts \/ (ev[j].ts = ev[k].ts /\ ev[j].uuid < ev[k].uuid)
    BY <1>6, <2>4, <2>5
  <2> HIDE DEF S
  <2> QED BY <2>3, <2>6 DEF Earlier
<1>13. Cardinality(S) = w /\ Ordered(S, Earlier(S)) = ev
  <2>1. Sorts(ev, w, Earlier(S), S)
    BY <1>5, <1>10, <1>11, <1>12 DEF Sorts
  <2> HIDE DEF S, w
  <2> QED BY <1>3, <2>1, OrderedIs
<1>14. NodesOf(evs, q, p) = [k \in 1..w |-> [node |-> node_of(ev[k], q), ts |-> ev[k].ts]]
  <2>1. Cardinality(Chosen(evs, q, p)) = w /\ Mine(evs, q, p) = ev
    BY <1>13 DEF Mine
  <2> HIDE DEF p, w
  <2> QED BY <2>1 DEF NodesOf
<1>15. \A k \in 1..w : NodeAt(xs, a - 1 + k) = [node |-> node_of(ev[k], q), ts |-> ev[k].ts]
  <2> SUFFICES ASSUME NEW k \in 1..w
               PROVE  NodeAt(xs, a - 1 + k) = [node |-> node_of(ev[k], q), ts |-> ev[k].ts]
    OBVIOUS
  <2>1. RowOf(ev[k], q) = xs[a - 1 + k]
    BY <1>8
  <2>2. xs[a - 1 + k].node = node_of(ev[k], q) /\ xs[a - 1 + k].ts = ev[k].ts
    BY <2>1 DEF RowOf
  <2> QED BY <2>2 DEF NodeAt
<1>16. Piece(xs, a, b) = [k \in 1..w |-> NodeAt(xs, a - 1 + k)]
  BY DEF Piece
<1>17. S # {}
  <2>1. 1 \in 1..w
    BY <1>5
  <2> QED BY <1>8, <2>1
<1>18. Piece(xs, a, b) = NodesOf(evs, q, p)
  <2> HIDE DEF p, w
  <2> QED BY <1>14, <1>15, <1>16
<1> QED BY <1>6, <1>17, <1>18

\* The persons of a partition that have a node, each with its nodes.
Walkers(evs, q, n, of) ==
    {p \in {person_id(e) : e \in evs} : InPartition(p, n, of) /\ Chosen(evs, q, p) # {}}
Handed(evs, q, n, of) == {[person |-> p, nodes |-> NodesOf(evs, q, p)] : p \in Walkers(evs, q, n, of)}

\* A partition hands over its persons.
LEMMA PartitionScan ==
    ASSUME NEW evs, Scannable(evs), NEW q, NEW n, NEW of
    PROVE  LET xs == RowsOfPartition(evs, q, n, of) IN
           Flush(handed(xs)[Len(xs)]) = Handed(evs, q, n, of)
<1> DEFINE xs == RowsOfPartition(evs, q, n, of)
           A == Asked(evs, q, n, of)
           m == Cardinality(A)
<1>1. xs = Ordered(A, ByPerson(A))
  BY DEF RowsOfPartition, Asked, ByPerson, RowOf
<1>2. /\ IsFiniteSet(A) /\ Orders(ByPerson(A), A)
      /\ \A x \in A : \E e \in evs : x = RowOf(e, q) /\ x.node # NoNode /\ InPartition(x.person, n, of)
      /\ \A x, y \in A : <<x, y>> \in ByPerson(A)
            <=> \/ PersonRank[x.person] < PersonRank[y.person]
                \/ x.person = y.person /\ (x.ts < y.ts \/ (x.ts = y.ts /\ x.uuid < y.uuid))
  BY RowsOrdered
<1>3. Sorts(xs, m, ByPerson(A), A)
  BY <1>1, <1>2, OrderedSorts
<1>4. /\ m \in Nat /\ xs \in [1..m -> A] /\ \A x \in A : \E k \in 1..m : xs[k] = x
      /\ \A j, k \in 1..m : j < k => <<xs[j], xs[k]>> \in ByPerson(A)
  BY <1>3 DEF Sorts
<1> HIDE DEF xs, m, A
<1>5. Len(xs) = m
  BY <1>4
<1>6. ASSUME NEW x \in A
      PROVE  /\ x.person \in {person_id(e) : e \in evs} /\ InPartition(x.person, n, of)
             /\ x.person \in DOMAIN PersonRank /\ PersonRank[x.person] \in Int
             /\ Chosen(evs, q, x.person) # {}
  <2>1. PICK e \in evs : x = RowOf(e, q) /\ x.node # NoNode /\ InPartition(x.person, n, of)
    BY <1>2
  <2>2. x.person = person_id(e) /\ x.node = node_of(e, q)
    BY <2>1 DEF RowOf
  <2>3. e \in Chosen(evs, q, x.person)
    BY <2>1, <2>2 DEF Chosen
  <2> QED BY <2>1, <2>2, <2>3, PathsAssumption DEF Scannable
<1>7. \A k \in 1..m : xs[k] \in A /\ xs[k].person \in DOMAIN PersonRank
  BY <1>4, <1>6
<1>8. \A j, k \in 1..m : j < k => PersonRank[xs[j].person] <= PersonRank[xs[k].person]
  <2> SUFFICES ASSUME NEW j \in 1..m, NEW k \in 1..m, j < k
               PROVE  PersonRank[xs[j].person] <= PersonRank[xs[k].person]
    OBVIOUS
  <2>1. xs[j] \in A /\ xs[k] \in A /\ <<xs[j], xs[k]>> \in ByPerson(A)
    BY <1>4
  <2>2. PersonRank[xs[j].person] < PersonRank[xs[k].person] \/ xs[j].person = xs[k].person
    BY <1>2, <2>1
  <2>3. PersonRank[xs[j].person] \in Int /\ PersonRank[xs[k].person] \in Int
    BY <1>6, <2>1
  <2> QED BY <2>2, <2>3
<1>9. /\ \A a, b, c \in 1..m : IsRun(xs, a, b) /\ xs[c].person = xs[a].person => a <= c /\ c <= b
      /\ \A c \in 1..m : \E a, b \in 1..m : IsRun(xs, a, b) /\ xs[a].person = xs[c].person
  BY <1>4, <1>5, <1>7, <1>8, RunIsWhole, ZenonT(60)
<1>10. ASSUME NEW a \in 1..m, NEW b \in 1..m, IsRun(xs, a, b)
       PROVE  /\ RunOf(xs, a, b) = [person |-> xs[a].person, nodes |-> NodesOf(evs, q, xs[a].person)]
              /\ xs[a].person \in Walkers(evs, q, n, of)
  <2>1. \A c \in 1..m : xs[c].person = xs[a].person => a <= c /\ c <= b
    BY <1>9, <1>10
  <2>2. Piece(xs, a, b) = NodesOf(evs, q, xs[a].person)
    BY <1>3, <1>5, <1>10, <2>1, RunIsNodes DEF A
  <2>3. xs[a].person \in Walkers(evs, q, n, of)
    BY <1>6, <1>7 DEF Walkers
  <2> QED BY <2>2, <2>3 DEF RunOf
<1>11. ASSUME NEW p \in Walkers(evs, q, n, of) PROVE \E c \in 1..m : xs[c].person = p
  <2>1. PICK e \in Chosen(evs, q, p) : TRUE
    BY DEF Walkers
  <2>2. e \in evs /\ person_id(e) = p /\ node_of(e, q) # NoNode /\ InPartition(p, n, of)
    BY DEF Walkers, Chosen
  <2>3. RowOf(e, q).person = p /\ RowOf(e, q).node # NoNode
    BY <2>2 DEF RowOf
  <2>4. RowOf(e, q) \in A
    BY <2>2, <2>3 DEF Asked, A
  <2> QED BY <1>4, <2>3, <2>4
<1>12. Flush(handed(xs)[m]) = RunsBefore(xs, m + 1)
  BY <1>4, <1>5, RunsHanded
<1> DEFINE D == {x \in (1..m) \X (1..m) : x[2] < m + 1 /\ IsRun(xs, x[1], x[2])}
<1>13. \A y : y \in RunsBefore(xs, m + 1) <=> \E x \in D : y = RunOf(xs, x[1], x[2])
  BY <1>5 DEF RunsBefore
<1>14. \A y : (\E x \in D : y = RunOf(xs, x[1], x[2])) <=> \E a, b \in 1..m : IsRun(xs, a, b) /\ y = RunOf(xs, a, b)
  <2> SUFFICES ASSUME NEW y
               PROVE  (\E x \in D : y = RunOf(xs, x[1], x[2]))
                        <=> \E a, b \in 1..m : IsRun(xs, a, b) /\ y = RunOf(xs, a, b)
    OBVIOUS
  <2>1. ASSUME NEW a \in 1..m, NEW b \in 1..m, IsRun(xs, a, b)
        PROVE  <<a, b>> \in D /\ <<a, b>>[1] = a /\ <<a, b>>[2] = b
    BY <1>4, <2>1
  <2>2. \A x \in D : x[1] \in 1..m /\ x[2] \in 1..m /\ IsRun(xs, x[1], x[2])
    OBVIOUS
  <2> HIDE DEF D
  <2>3. ASSUME NEW x \in D, y = RunOf(xs, x[1], x[2])
        PROVE  \E a, b \in 1..m : IsRun(xs, a, b) /\ y = RunOf(xs, a, b)
    BY <2>2, <2>3
  <2>4. ASSUME NEW a \in 1..m, NEW b \in 1..m, IsRun(xs, a, b), y = RunOf(xs, a, b)
        PROVE  \E x \in D : y = RunOf(xs, x[1], x[2])
    <3>1. <<a, b>> \in D /\ y = RunOf(xs, <<a, b>>[1], <<a, b>>[2])
      BY <2>1, <2>4
    <3> QED BY <3>1
  <2> QED BY <2>3, <2>4
<1> HIDE DEF D
<1>15. \A y : y \in Handed(evs, q, n, of) <=> \E a, b \in 1..m : IsRun(xs, a, b) /\ y = RunOf(xs, a, b)
  <2> DEFINE hd(p) == [person |-> p, nodes |-> NodesOf(evs, q, p)]
             W == Walkers(evs, q, n, of)
  <2> SUFFICES ASSUME NEW y
               PROVE  y \in Handed(evs, q, n, of) <=> \E a, b \in 1..m : IsRun(xs, a, b) /\ y = RunOf(xs, a, b)
    OBVIOUS
  <2>1. y \in Handed(evs, q, n, of) <=> \E p \in W : y = hd(p)
    BY DEF Handed
  <2>2. \A a, b \in 1..m : IsRun(xs, a, b) => RunOf(xs, a, b) = hd(xs[a].person) /\ xs[a].person \in W
    BY <1>10
  <2>3. \A p \in W : \E c \in 1..m : xs[c].person = p
    BY <1>11
  <2> HIDE DEF hd, W
  <2>4. ASSUME NEW p \in W, y = hd(p) PROVE \E a, b \in 1..m : IsRun(xs, a, b) /\ y = RunOf(xs, a, b)
    <3>1. PICK c \in 1..m : xs[c].person = p
      BY <2>3
    <3>2. PICK a \in 1..m : \E b \in 1..m : IsRun(xs, a, b) /\ xs[a].person = xs[c].person
      BY <1>9
    <3>3. PICK b \in 1..m : IsRun(xs, a, b) /\ xs[a].person = p
      BY <3>1, <3>2
    <3> QED BY <2>2, <2>4, <3>3
  <2>5. ASSUME NEW a \in 1..m, NEW b \in 1..m, IsRun(xs, a, b), y = RunOf(xs, a, b)
        PROVE  \E p \in W : y = hd(p)
    BY <2>2, <2>5
  <2> QED BY <2>1, <2>4, <2>5
<1>16. RunsBefore(xs, m + 1) = Handed(evs, q, n, of)
  BY <1>13, <1>14, <1>15
<1> QED BY <1>5, <1>12, <1>16 DEF xs

\* The events a question is about, and the persons among them that have a node.
AskedOf(q, r) ==
    {e \in events : in_range(e, r) /\ \A f \in q.properties : OracleHolds(property_text(e, f.source), f)}
Walking(evs, q) == {p \in {person_id(e) : e \in evs} : Chosen(evs, q, p) # {}}

\* Every person is in one partition.
LEMMA PartitionsCover ==
    ASSUME NEW leased, IsFiniteSet(leased), NEW p \in DOMAIN PersonRank
    PROVE  \E n \in 0 .. person_partitions(leased) - 1 : InPartition(p, n, person_partitions(leased))
<1> DEFINE c == Cardinality(leased)
           d == (c + PathPartitionRows - 1) \div PathPartitionRows
           x == Max({d, 1})
           of == person_partitions(leased)
<1>1. c \in Nat /\ PathPartitionRows \in Nat \ {0} /\ PathMaxPartitions \in Nat \ {0} /\ PersonHash[p] \in Nat
  BY FS_CardinalityType, PathsAssumption
<1> HIDE DEF c
<1>2. d \in Int
  BY <1>1
<1> HIDE DEF d
<1>3. x \in Int /\ x >= 1
  <2>1. {d, 1} \subseteq Int /\ {d, 1} # {} /\ IsFiniteSet({d, 1})
    <3>1. IsFiniteSet({d}) /\ {d, 1} = {d} \cup {1}
      BY FS_Singleton
    <3>2. IsFiniteSet({d, 1})
      BY <3>1, FS_AddElement
    <3> QED BY <1>2, <3>2
  <2>2. x \in {d, 1} /\ \A y \in {d, 1} : y <= x
    BY <2>1, FiniteMax
  <2> QED BY <1>2, <2>2
<1>4. of = Min({x, PathMaxPartitions})
  BY DEF person_partitions, c, d
<1> HIDE DEF x, of
<1>5. of \in Nat \ {0}
  <2>1. of \in {x, PathMaxPartitions}
    <3>1. PathMaxPartitions \in Int
      BY <1>1
    <3> QED BY <1>3, <1>4, <3>1, MinOfTwo
  <2> QED BY <1>1, <1>3, <2>1
<1>6. PersonHash[p] % of \in 0 .. of - 1
  BY <1>1, <1>5
<1> QED BY <1>6 DEF InPartition, of

\* What a question about paths is.
LEMMA PathsAsked ==
    ASSUME SourceInv, asking = "paths", NEW q \in Questions[asking].queries,
           NEW r, r = resolve(q.dates, "day", earliest), r # NoRange
    PROVE  /\ RangeOK(r) /\ q.step_limit \in Nat /\ FiltersOK(q.properties)
           /\ Scannable(AskedOf(q, r))
<1>1. asking \in DOMAIN Questions \cap {"paths"}
  BY DEF SourceInv
<1>2. /\ \A e \in Questions[asking].events : e.id \in DOMAIN PersonRank /\ e.uuid \in Int
      /\ \A e, f \in Questions[asking].events : e.ts = f.ts /\ e.uuid = f.uuid => e = f
      /\ DatesOK(q.dates) /\ FiltersOK(q.properties) /\ q.step_limit \in Nat
  BY <1>1, PathsAssumption
<1>3. RangeOK(r)
  <2>1. earliest \in Instants /\ "day" \in Intervals
    BY Earliest DEF Intervals
  <2> QED BY <1>2, <2>1, Resolves
<1>4. \A e \in events : /\ e \in Questions[asking].events /\ e.ts \in Int
                        /\ person_id(e) \in DOMAIN PersonRank
  <2> SUFFICES ASSUME NEW e \in events
               PROVE  e \in Questions[asking].events /\ e.ts \in Int /\ person_id(e) \in DOMAIN PersonRank
    OBVIOUS
  <2>1. e \in Questions[asking].events
    BY DEF SourceInv
  <2>2. e.ts \in Int
    BY StoredAreInstants DEF Instants, MAX_US
  <2>3. CASE e.id \in DOMAIN overrides
    <3>1. \E f \in Questions[asking].events : overrides[e.id] = f.id
      BY <2>3 DEF SourceInv
    <3> QED BY <1>2, <2>1, <2>2, <2>3, <3>1 DEF person_id
  <2>4. CASE e.id \notin DOMAIN overrides
    BY <1>2, <2>1, <2>2, <2>4 DEF person_id
  <2> QED BY <2>3, <2>4
<1>5. AskedOf(q, r) \in SUBSET events
  BY DEF AskedOf
<1>6. IsFiniteSet(AskedOf(q, r))
  BY <1>5, FS_Subset DEF SourceInv
<1>7. Scannable(AskedOf(q, r))
  BY <1>2, <1>4, <1>5, <1>6 DEF Scannable
<1> QED BY <1>2, <1>3, <1>7

\* However the persons are partitioned, the scan hands over each of them once,
\* with the nodes of its events in order.
LEMMA ScanExact ==
    ASSUME SourceInv, asking = "paths", NEW q \in Questions[asking].queries,
           NEW r, r = resolve(q.dates, "day", earliest), r # NoRange
    PROVE  scan(q, r) = {[person |-> p, nodes |-> NodesOf(AskedOf(q, r), q, p)] : p \in Walking(AskedOf(q, r), q)}
<1> DEFINE leased == leased_for(q.dates, r)
           evs == {e \in relation(leased, r.from, r.to) : \A f \in q.properties : filter(e, f)}
           of == person_partitions(leased)
           listing(n) == RowsOfPartition(evs, q, n, of)
           asks == AskedOf(q, r)
           hd(p) == [person |-> p, nodes |-> NodesOf(asks, q, p)]
<1>1. RangeOK(r) /\ FiltersOK(q.properties) /\ Scannable(asks)
  BY PathsAsked
<1>2. r.from \in Int /\ r.to \in Int
  BY <1>1 DEF RangeOK, Instants, MAX_US
<1>3. leased = leased_for(q.dates, [from |-> r.from, to |-> r.to])
  BY DEF leased_for, files
<1>4. evs = asks
  <2>1. relation(leased, r.from, r.to) = Between(r.from, r.to)
    BY <1>2, <1>3, ReadsTheSpan
  <2>2. \A e : \A f \in q.properties : filter(e, f) <=> OracleHolds(property_text(e, f.source), f)
    BY <1>1, FilterAgrees DEF FiltersOK
  <2> HIDE DEF leased
  <2> QED BY <2>1, <2>2 DEF Between, AskedOf, in_range
<1>5. IsFiniteSet(leased)
  <2>1. leased \in SUBSET events
    BY DEF leased_for, files
  <2> QED BY <2>1, FS_Subset DEF SourceInv
<1> HIDE DEF leased, evs, asks
<1>6. \A n : Flush(handed(listing(n))[Len(listing(n))]) = Handed(asks, q, n, of)
  BY <1>1, <1>4, PartitionScan
<1>7. scan(q, r) = UNION {Flush(handed(listing(n))[Len(listing(n))]) : n \in 0 .. of - 1}
  BY DEF scan, evs, leased
<1> HIDE DEF listing
<1>8. scan(q, r) = UNION {Handed(asks, q, n, of) : n \in 0 .. of - 1}
  BY <1>6, <1>7
<1>9. \A n : \A y : y \in Handed(asks, q, n, of) <=> \E p \in Walking(asks, q) : InPartition(p, n, of) /\ y = hd(p)
  BY DEF Handed, Walkers, Walking
<1>10. \A p \in Walking(asks, q) : \E n \in 0 .. of - 1 : InPartition(p, n, of)
  <2> SUFFICES ASSUME NEW p \in Walking(asks, q) PROVE \E n \in 0 .. of - 1 : InPartition(p, n, of)
    OBVIOUS
  <2>1. p \in DOMAIN PersonRank
    BY <1>1 DEF Walking, Scannable
  <2> QED BY <1>5, <2>1, PartitionsCover
<1> HIDE DEF hd, of
<1>11. \A y : y \in scan(q, r) <=> \E p \in Walking(asks, q) : y = hd(p)
  <2>1. \A y : y \in scan(q, r) <=> \E n \in 0 .. of - 1 : y \in Handed(asks, q, n, of)
    BY <1>8
  <2> QED BY <1>9, <1>10, <2>1
<1>12. scan(q, r) = {hd(p) : p \in Walking(asks, q)}
  BY <1>11
<1> QED BY <1>12 DEF hd, asks

\* One more node, unless it repeats the last.
OneNode(path, ns, k) ==
    IF path # <<>> /\ Last(path).node = ns[k].node THEN path ELSE Append(path, ns[k])

\* The nodes are collapsed one by one.
LEMMA NodeByNode ==
    ASSUME NEW ns, Len(ns) \in Nat
    PROVE  LET path == collapsed(ns) IN
           path[0] = <<>> /\ \A k \in 1 .. Len(ns) : path[k] = OneNode(path[k - 1], ns, k)
<1> DEFINE n == Len(ns)
           N == {ns[k] : k \in 1..n}
           X == Seq(N)
           G == [p \in X \X (1..n) |-> OneNode(p[1], ns, p[2])]
           Row(f) == [k \in 0..n |-> IF k = 0 THEN <<>> ELSE OneNode(f[k - 1], ns, k)]
           at == CHOOSE f : f = Row(f)
<1>1. collapsed(ns) = at
  BY DEF collapsed, OneNode
<1>2. n \in Nat /\ <<>> \in X
  OBVIOUS
<1>3. ASSUME NEW x \in X, NEW k \in 1..n PROVE OneNode(x, ns, k) \in X
  <2>1. ns[k] \in N
    OBVIOUS
  <2> HIDE DEF N
  <2> QED BY <2>1 DEF OneNode
<1>4. G \in [X \X (1..n) -> X] /\ \A x \in X, k \in 1..n : G[<<x, k>>] = OneNode(x, ns, k)
  <2> HIDE DEF X, n
  <2> QED BY <1>3
<1> HIDE DEF G, X
<1>5. PICK h : h \in [0..n -> X] /\ h[0] = <<>> /\ \A k \in 1..n : h[k] = G[<<h[k - 1], k>>]
  <2> HIDE DEF n, at, Row
  <2>1. \E h : Recursive(h, n, X, <<>>, G)
    BY <1>2, <1>4, Recursion
  <2> QED BY <2>1 DEF Recursive
<1>6. h = Row(h)
  <2>1. ASSUME NEW k \in 0..n, k # 0 PROVE h[k] = OneNode(h[k - 1], ns, k)
    <3>1. k \in 1..n /\ k - 1 \in 0..n
      BY <1>2, <2>1
    <3>2. h[k - 1] \in X
      BY <1>5, <3>1
    <3> QED BY <1>4, <1>5, <3>1, <3>2
  <2>2. h = [k \in 0..n |-> h[k]]
    BY <1>5
  <2> HIDE DEF n
  <2> QED BY <1>5, <2>1, <2>2
<1>7. at = Row(at)
  <2> HIDE DEF Row
  <2> QED BY <1>6
<1>8. at[0] = <<>> /\ \A k \in 1..n : at[k] = OneNode(at[k - 1], ns, k)
  <2> HIDE DEF at, n
  <2> QED BY <1>2, <1>7
<1> HIDE DEF at, Row
<1> QED BY <1>1, <1>8

\* Numbers in order.
Less(S) == {x \in S \X S : x[1] < x[2]}

\* The nodes up to one that do not repeat the node before.
Kept(ns, k) == {j \in 1..k : j = 1 \/ ns[j].node # ns[j - 1].node}

\* The path up to a node is those kept, in order, and ends with that node.
Keeps(ns, k, path, w, o) ==
    /\ Sorts(o, w, Less(Kept(ns, k)), Kept(ns, k))
    /\ path = [j \in 1..w |-> ns[o[j]]]
    /\ k # 0 => w # 0 /\ ns[o[w]].node = ns[k].node

\* Each node is kept or repeats the last.
LEMMA KeepsOneMore ==
    ASSUME NEW ns, NEW k \in Nat, NEW path, NEW w, NEW o, Keeps(ns, k, path, w, o)
    PROVE  \E v, u : Keeps(ns, k + 1, OneNode(path, ns, k + 1), v, u)
<1> DEFINE K == Kept(ns, k)
<1>1. /\ w \in Nat /\ o \in [1..w -> K] /\ \A x \in K : \E j \in 1..w : o[j] = x
      /\ \A i, j \in 1..w : i < j => <<o[i], o[j]>> \in Less(K)
      /\ path = [j \in 1..w |-> ns[o[j]]]
      /\ k # 0 => w # 0 /\ ns[o[w]].node = ns[k].node
  BY DEF Keeps, Sorts
<1>2. path \in Seq({ns[o[j]] : j \in 1..w}) /\ Len(path) = w
  BY <1>1
<1>3. path # <<>> => Last(path) = ns[o[w]]
  BY <1>1, <1>2 DEF Last
<1>4. path = <<>> <=> w = 0
  <2>1. path = <<>> => w = 0
    BY <1>2
  <2>2. w = 0 => path = <<>>
    BY <1>2, EmptySeq
  <2> QED BY <2>1, <2>2
<1>5. \A x \in K : x \in 1..k
  BY DEF Kept
<1>6. w = 0 <=> k = 0
  <2>1. ASSUME k = 0, w # 0 PROVE FALSE
    <3>1. 1 \in 1..w
      BY <1>1, <2>1
    <3>2. o[1] \in 1..k
      BY <1>1, <1>5, <3>1
    <3> QED BY <2>1, <3>2
  <2> QED BY <1>1, <2>1
<1>7. CASE k # 0 /\ ns[k].node = ns[k + 1].node
  <2>1. OneNode(path, ns, k + 1) = path
    <3>1. path # <<>> /\ Last(path).node = ns[k + 1].node
      BY <1>1, <1>3, <1>4, <1>6, <1>7
    <3> QED BY <3>1 DEF OneNode
  <2>2. Kept(ns, k + 1) = K
    BY <1>7 DEF Kept
  <2>3. ns[o[w]].node = ns[k + 1].node /\ w # 0
    BY <1>1, <1>7
  <2> HIDE DEF K
  <2>4. Keeps(ns, k + 1, path, w, o)
    BY <1>1, <2>2, <2>3 DEF Keeps, Sorts
  <2> QED BY <2>1, <2>4
<1>8. CASE k = 0 \/ ns[k].node # ns[k + 1].node
  <2> DEFINE u == [j \in 1 .. w + 1 |-> IF j = w + 1 THEN k + 1 ELSE o[j]]
             L == Kept(ns, k + 1)
  <2>1. OneNode(path, ns, k + 1) = Append(path, ns[k + 1])
    BY <1>1, <1>3, <1>4, <1>6, <1>8 DEF OneNode
  <2>2. L = K \cup {k + 1}
    BY <1>8 DEF Kept
  <2>3. \A j \in 1 .. w + 1 : u[j] = IF j = w + 1 THEN k + 1 ELSE o[j]
    OBVIOUS
  <2>4. DOMAIN u = 1 .. w + 1 /\ u = [j \in 1 .. w + 1 |-> u[j]]
    OBVIOUS
  <2> HIDE DEF u, L, K
  <2>5. \A j \in 1 .. w + 1 : j = w + 1 \/ j \in 1..w
    BY <1>1
  <2>6. \A j \in 1..w : o[j] \in K /\ o[j] \in 1..k
    BY <1>1, <1>5
  <2>7. \A j \in 1 .. w + 1 : u[j] \in L
    BY <2>2, <2>3, <2>5, <2>6
  <2>8. u \in [1 .. w + 1 -> L]
    BY <2>4, <2>7
  <2>9. \A x \in L : \E j \in 1 .. w + 1 : u[j] = x
    <3> SUFFICES ASSUME NEW x \in L PROVE \E j \in 1 .. w + 1 : u[j] = x
      OBVIOUS
    <3>1. CASE x = k + 1
      <4>1. w + 1 \in 1 .. w + 1
        BY <1>1
      <4> QED BY <2>3, <3>1, <4>1
    <3>2. CASE x \in K
      <4>1. PICK j \in 1..w : o[j] = x
        BY <1>1, <3>2
      <4>2. j \in 1 .. w + 1 /\ j # w + 1
        BY <1>1
      <4> QED BY <2>3, <4>1, <4>2
    <3> QED BY <2>2, <3>1, <3>2
  <2>10. ASSUME NEW i \in 1 .. w + 1, NEW j \in 1 .. w + 1, i < j PROVE <<u[i], u[j]>> \in Less(L)
    <3>1. i \in 1..w /\ i # w + 1 /\ u[i] = o[i]
      BY <1>1, <2>3, <2>10
    <3>2. u[i] < u[j]
      <4>1. CASE j = w + 1
        <5>1. u[j] = k + 1 /\ o[i] \in 1..k
          BY <2>3, <2>6, <3>1, <4>1
        <5> QED BY <3>1, <5>1
      <4>2. CASE j # w + 1
        <5>1. j \in 1..w /\ u[j] = o[j]
          BY <2>3, <2>5, <4>2
        <5>2. <<o[i], o[j]>> \in Less(K)
          BY <1>1, <2>10, <3>1, <5>1
        <5> QED BY <3>1, <5>1, <5>2 DEF Less
      <4> QED BY <4>1, <4>2
    <3>3. u[i] \in L /\ u[j] \in L
      BY <2>7
    <3> QED BY <3>2, <3>3 DEF Less
  <2>11. w + 1 \in Nat
    BY <1>1
  <2>12. Sorts(u, w + 1, Less(L), L)
    BY <2>8, <2>9, <2>10, <2>11 DEF Sorts
  <2>13. Append(path, ns[k + 1]) = [j \in 1 .. w + 1 |-> ns[u[j]]]
    <3> DEFINE S == {ns[u[j]] : j \in 1 .. w + 1}
               t == Append(path, ns[k + 1])
    <3>1. \A j \in 1..w : j \in 1 .. w + 1 /\ u[j] = o[j] /\ path[j] = ns[u[j]]
      BY <1>1, <2>3
    <3>2. path \in Seq(S)
      <4>1. path = [j \in 1..w |-> ns[u[j]]]
        BY <1>1, <3>1
      <4>2. \A j \in 1..w : ns[u[j]] \in S
        BY <3>1
      <4> HIDE DEF S
      <4> QED BY <1>1, <4>1, <4>2
    <3>3. u[w + 1] = k + 1 /\ w + 1 \in 1 .. w + 1
      BY <1>1, <2>3
    <3>4. ns[k + 1] \in S
      BY <3>3
    <3> HIDE DEF S
    <3>5. t \in Seq(S) /\ Len(t) = w + 1 /\ (\A j \in 1..w : t[j] = path[j]) /\ t[w + 1] = ns[k + 1]
      BY <1>2, <3>2, <3>4, AppendProperties
    <3> HIDE DEF t
    <3>6. \A j \in 1 .. w + 1 : t[j] = ns[u[j]]
      BY <2>5, <3>1, <3>3, <3>5
    <3>7. t = [j \in 1 .. Len(t) |-> t[j]]
      BY <3>5
    <3>8. t = [j \in 1 .. w + 1 |-> ns[u[j]]]
      BY <3>5, <3>6, <3>7
    <3> QED BY <3>8 DEF t
  <2>14. w + 1 # 0 /\ u[w + 1] = k + 1
    BY <1>1, <2>3
  <2>15. Keeps(ns, k + 1, OneNode(path, ns, k + 1), w + 1, u)
    BY <2>1, <2>12, <2>13, <2>14 DEF Keeps, L
  <2> QED BY <2>15
<1> QED BY <1>7, <1>8

\* The nodes that do not repeat the one before.
LEMMA CollapsedKeeps ==
    ASSUME NEW ns, Len(ns) \in Nat
    PROVE  LET K == Kept(ns, Len(ns)) IN
           /\ collapsed(ns)[Len(ns)] = [j \in 1 .. Cardinality(K) |-> ns[Ordered(K, Less(K))[j]]]
           /\ Cardinality(K) \in Nat /\ DOMAIN Ordered(K, Less(K)) = 1 .. Cardinality(K)
           /\ \A j \in 1 .. Cardinality(K) : Ordered(K, Less(K))[j] \in K
<1> DEFINE n == Len(ns)
           path == collapsed(ns)
           T == {k \in Nat : k <= n /\ ~\E w, o : Keeps(ns, k, path[k], w, o)}
           K == Kept(ns, n)
<1>1. n \in Nat /\ path[0] = <<>> /\ \A k \in 1..n : path[k] = OneNode(path[k - 1], ns, k)
  BY NodeByNode
<1> HIDE DEF path
<1>2. Keeps(ns, 0, path[0], 0, <<>>)
  <2>1. Kept(ns, 0) = {}
    BY DEF Kept
  <2>2. path[0] = [j \in 1..0 |-> ns[<<>>[j]]]
    BY <1>1
  <2> QED BY <2>1, <2>2 DEF Keeps, Sorts
<1>3. \E w, o : Keeps(ns, n, path[n], w, o)
  <2> SUFFICES ASSUME T # {} PROVE FALSE
    BY <1>1
  <2>1. PICK k \in T : \A m \in T : k <= m
    <3>1. T \subseteq Nat
      OBVIOUS
    <3> HIDE DEF T
    <3> QED BY <3>1, LeastNatural
  <2>2. k # 0
    BY <1>2
  <2>3. k - 1 \in Nat /\ (k - 1) + 1 = k /\ k \in 1..n /\ k - 1 <= n /\ ~(k <= k - 1)
    BY <1>1, <2>2
  <2>4. k - 1 \notin T
    <3> HIDE DEF T
    <3> QED BY <2>1, <2>3
  <2>5. PICK w, o : Keeps(ns, k - 1, path[k - 1], w, o)
    BY <2>3, <2>4
  <2>6. \E v, u : Keeps(ns, (k - 1) + 1, OneNode(path[k - 1], ns, (k - 1) + 1), v, u)
    BY <2>3, <2>5, KeepsOneMore
  <2>7. \E v, u : Keeps(ns, k, path[k], v, u)
    BY <1>1, <2>3, <2>6
  <2> QED BY <2>7
<1>4. PICK w, o : Keeps(ns, n, path[n], w, o)
  BY <1>3
<1>5. Sorts(o, w, Less(K), K) /\ path[n] = [j \in 1..w |-> ns[o[j]]]
  BY <1>4 DEF Keeps
<1>6. IsFiniteSet(K) /\ \A x \in K : x \in Int
  <2>1. K \in SUBSET (1..n)
    BY DEF Kept
  <2>2. IsFiniteSet(1..n)
    <3>1. 1 \in Int /\ n \in Int
      BY <1>1
    <3> QED BY <3>1, FS_Interval
  <2>3. 1..n \subseteq Int
    BY <1>1
  <2> HIDE DEF K
  <2>4. IsFiniteSet(K)
    BY <2>1, <2>2, FS_Subset
  <2> QED BY <2>1, <2>3, <2>4
<1> HIDE DEF K
<1>7. Orders(Less(K), K)
  BY <1>6 DEF Orders, Less
<1>8. Cardinality(K) = w /\ Ordered(K, Less(K)) = o
  BY <1>5, <1>6, <1>7, OrderedIs
<1>9. w \in Nat /\ DOMAIN o = 1..w /\ \A j \in 1..w : o[j] \in K
  BY <1>5 DEF Sorts
<1> QED BY <1>5, <1>8, <1>9 DEF K, path

\* The path of a person is the one the definition gives.
LEMMA PathExact ==
    ASSUME NEW evs, Scannable(evs), NEW q, NEW p
    PROVE  LET ns == NodesOf(evs, q, p)
               path == collapsed(ns)[Len(ns)]
           IN path = OraclePath(p, evs, q) /\ Len(path) \in Nat /\ path = [k \in 1 .. Len(path) |-> path[k]]
<1> DEFINE S == Chosen(evs, q, p)
           mine == Mine(evs, q, p)
           m == Cardinality(S)
           ns == NodesOf(evs, q, p)
           K == Kept(ns, m)
           okept == {k \in DOMAIN mine : k = 1 \/ node_of(mine[k], q) # node_of(mine[k-1], q)}
           order == Ordered(K, Less(K))
<1>1. m \in Nat
  BY EventsOrdered, FS_CardinalityType
<1>2. DOMAIN mine = 1..m
  BY DEF Mine, Ordered
<1>3. ns = [k \in 1..m |-> [node |-> node_of(mine[k], q), ts |-> mine[k].ts]]
  BY DEF NodesOf
<1> HIDE DEF mine, m
<1>4. Len(ns) = m
  <2> HIDE DEF ns
  <2> QED BY <1>1, <1>3
<1>5. \A k \in 1..m : ns[k] = [node |-> node_of(mine[k], q), ts |-> mine[k].ts]
  <2> HIDE DEF ns
  <2> QED BY <1>3
<1>6. okept = K
  <2> HIDE DEF ns
  <2>1. \A k \in 1..m : k # 1 => k - 1 \in 1..m
    BY <1>1
  <2>2. \A k \in 1..m : ns[k].node = node_of(mine[k], q)
    <3> SUFFICES ASSUME NEW k \in 1..m PROVE ns[k].node = node_of(mine[k], q)
      OBVIOUS
    <3>1. ns[k] = [node |-> node_of(mine[k], q), ts |-> mine[k].ts]
      BY <1>5
    <3> QED BY <3>1
  <2> QED BY <1>2, <2>1, <2>2 DEF Kept
<1>7. OraclePath(p, evs, q)
        = [k \in DOMAIN Ordered(okept, Less(okept)) |->
              [node |-> node_of(mine[Ordered(okept, Less(okept))[k]], q),
               ts |-> mine[Ordered(okept, Less(okept))[k]].ts]]
  BY DEF OraclePath, Chosen, Earlier, Less, mine, Mine
<1>8. OraclePath(p, evs, q)
        = [k \in DOMAIN order |-> [node |-> node_of(mine[order[k]], q), ts |-> mine[order[k]].ts]]
  <2> HIDE DEF okept, K
  <2> QED BY <1>6, <1>7
<1> HIDE DEF okept, ns
<1>9. /\ collapsed(ns)[m] = [j \in 1 .. Cardinality(K) |-> ns[order[j]]]
      /\ Cardinality(K) \in Nat /\ DOMAIN order = 1 .. Cardinality(K)
      /\ \A j \in 1 .. Cardinality(K) : order[j] \in K
  <2> HIDE DEF m
  <2>1. Len(ns) \in Nat
    BY <1>1, <1>4
  <2> QED BY <1>4, <2>1, CollapsedKeeps
<1>10. \A x \in K : x \in 1..m
  BY DEF Kept
<1> HIDE DEF K, order
<1>11. \A j \in 1 .. Cardinality(K) :
          ns[order[j]] = [node |-> node_of(mine[order[j]], q), ts |-> mine[order[j]].ts]
  BY <1>5, <1>9, <1>10
<1>12. collapsed(ns)[m] = OraclePath(p, evs, q)
  BY <1>8, <1>9, <1>11
<1>13. /\ Len(collapsed(ns)[m]) = Cardinality(K)
       /\ collapsed(ns)[m] = [j \in 1 .. Cardinality(K) |-> collapsed(ns)[m][j]]
  BY <1>9
<1> QED BY <1>4, <1>9, <1>12, <1>13 DEF ns

\* A part of a path.
Stretch(path, a, b) == [j \in 1 .. b - a + 1 |-> path[a - 1 + j]]

\* A sequence of so many.
HasItems(s, n) == DOMAIN s = 1..n

\* A subsequence is a part.
LEMMA SubSeqIs ==
    ASSUME NEW s, NEW n \in Nat, HasItems(s, n), NEW a \in Nat \ {0}, NEW b \in Nat, b <= n, a <= b + 1
    PROVE  SubSeq(s, a, b) = Stretch(s, a, b) /\ Len(Stretch(s, a, b)) = b - a + 1
<1>0. DOMAIN s = 1..n
  BY DEF HasItems
<1> DEFINE S == {s[j] : j \in 1..n}
           t == SubSeq(s, a, b)
<1>1. a \in Int /\ b \in Int /\ \A i \in a..b : s[i] \in S
  BY <1>0
<1> HIDE DEF S
<1>2. /\ t \in Seq(S)
      /\ Len(t) = IF a <= b THEN b - a + 1 ELSE 0
      /\ \A i \in 1 .. b - a + 1 : t[i] = s[a + i - 1]
  BY <1>1, SubSeqProperties
<1> HIDE DEF t
<1>3. Len(t) = b - a + 1 /\ t = [j \in 1 .. Len(t) |-> t[j]]
  BY <1>2
<1>4. \A j \in 1 .. b - a + 1 : t[j] = s[a - 1 + j]
  <2>1. \A j \in 1 .. b - a + 1 : a + j - 1 = a - 1 + j
    OBVIOUS
  <2> QED BY <1>2, <2>1
<1>5. b - a + 1 \in Nat
  OBVIOUS
<1> QED BY <1>3, <1>4, <1>5 DEF t, Stretch

\* A path is a sequence.
IsPath(path, n) == path = [k \in 1..n |-> path[k]]

\* The links of a part of a path.
LinksIn(path, a, b) ==
    {[step |-> k - a + 1, source |-> path[k].node, target |-> path[k+1].node,
      micros |-> path[k+1].ts - path[k].ts] : k \in a .. b - 1}

\* Cut at the start point, the end point and the step limit, a path has the links
\* of the definition.
LEMMA LinksAre ==
    ASSUME NEW q, q.step_limit \in Nat, NEW ns, NEW path, path = collapsed(ns)[Len(ns)],
           NEW n, n = Len(path), n \in Nat, IsPath(path, n)
    PROVE  path_links(q, ns) = OracleLinks(path, q)
<1> DEFINE starts == {k \in DOMAIN path : q.start_point = NoNode \/ path[k].node = q.start_point}
           begin == IF q.start_point = NoNode THEN 1 ELSE Min(starts)
           ends == {k \in DOMAIN path : k >= begin /\ path[k].node = q.end_point}
           end == IF q.end_point = NoNode THEN Len(path) ELSE Min(ends)
           last == Min({end, begin + q.step_limit - 1})
           begun == IF q.start_point = NoNode THEN path
                    ELSE IF Has(path, q.start_point)
                         THEN SubSeq(path, First(path, q.start_point), Len(path)) ELSE <<>>
           ended == IF q.end_point = NoNode THEN begun
                    ELSE IF Has(begun, q.end_point)
                         THEN SubSeq(begun, 1, First(begun, q.end_point)) ELSE <<>>
           c == Min({Len(ended), q.step_limit})
           cut == SubSeq(ended, 1, c)
           none == starts = {} \/ (q.end_point # NoNode /\ ends = {})
<1>1. path_links(q, ns) = {[step |-> k, source |-> cut[k].node, target |-> cut[k+1].node,
                            micros |-> cut[k+1].ts - cut[k].ts] : k \in 1 .. Len(cut) - 1}
  BY DEF path_links
<1>2. OracleLinks(path, q) = IF none THEN {} ELSE LinksIn(path, begin, last)
  BY DEF OracleLinks, LinksIn
<1>0. DOMAIN path = 1..n
  BY DEF IsPath
<1>3. IsFiniteSet(starts) /\ IsFiniteSet(ends) /\ starts \subseteq 1..n /\ ends \subseteq 1..n
  <2>1. IsFiniteSet(1..n)
    <3>1. 1 \in Int /\ n \in Int
      OBVIOUS
    <3> QED BY <3>1, FS_Interval
  <2>2. starts \in SUBSET (1..n) /\ ends \in SUBSET (1..n)
    BY <1>0
  <2> HIDE DEF starts, ends
  <2> QED BY <2>1, <2>2, FS_Subset
<1>4. ASSUME NEW S, IsFiniteSet(S), S \subseteq 1..n, S # {}
      PROVE  Min(S) \in S /\ Min(S) \in 1..n /\ \A y \in S : Min(S) <= y
  <2>1. S \subseteq Int
    BY <1>4
  <2> QED BY <1>4, <2>1, FiniteMin
<1>5. starts # {} => begin \in 1..n
  <2>1. CASE q.start_point = NoNode
    BY <2>1
  <2>2. CASE q.start_point # NoNode
    <3>1. starts # {} => Min(starts) \in 1..n
      <4> HIDE DEF starts
      <4> QED BY <1>3, <1>4
    <3> QED BY <2>2, <3>1
  <2> QED BY <2>1, <2>2
<1>6. begun = IF starts = {} THEN <<>> ELSE Stretch(path, begin, n)
  <2>1. CASE q.start_point = NoNode
    <3>1. begun = path /\ begin = 1 /\ starts = 1..n
      BY <1>0, <2>1
    <3>2. starts = {} => n = 0
      <4>1. n # 0 => 1 \in 1..n
        OBVIOUS
      <4> HIDE DEF starts
      <4> QED BY <3>1, <4>1
    <3>3. Stretch(path, 1, n) = path
      <4>1. n - 1 + 1 = n /\ \A j \in 1..n : 1 - 1 + j = j
        OBVIOUS
      <4>2. path = [j \in 1..n |-> path[j]]
        BY DEF IsPath
      <4> QED BY <4>1, <4>2 DEF Stretch
    <3>4. n = 0 => path = <<>>
      <4>1. n = 0 => Stretch(path, 1, n) = <<>>
        BY DEF Stretch
      <4> QED BY <3>3, <4>1
    <3> HIDE DEF begun, starts, begin
    <3> QED BY <3>1, <3>2, <3>3, <3>4
  <2>2. CASE q.start_point # NoNode
    <3>1. starts = {k \in DOMAIN path : path[k].node = q.start_point}
      BY <2>2
    <3>2. Has(path, q.start_point) <=> starts # {}
      BY <3>1 DEF Has
    <3>3. First(path, q.start_point) = begin
      BY <2>2, <3>1 DEF First
    <3>4. starts # {} => SubSeq(path, begin, n) = Stretch(path, begin, n)
      <4> SUFFICES ASSUME starts # {} PROVE SubSeq(path, begin, n) = Stretch(path, begin, n)
        OBVIOUS
      <4> HIDE DEF begin, starts
      <4>1. begin \in Nat \ {0} /\ n <= n /\ begin <= n + 1
        BY <1>5
      <4>2. HasItems(path, n)
        BY <1>0 DEF HasItems
      <4> QED BY <4>1, <4>2, SubSeqIs
    <3> HIDE DEF begin, starts
    <3> QED BY <2>2, <3>2, <3>3, <3>4
  <2> QED BY <2>1, <2>2
<1>7. q.end_point # NoNode /\ starts # {} /\ ends # {} => end \in begin..n
  <2>1. ends # {} => Min(ends) \in ends
    <3> HIDE DEF ends
    <3> QED BY <1>3, <1>4
  <2> HIDE DEF begin, starts
  <2> QED BY <1>5, <2>1
<1>8. starts # {} /\ ~none => end \in begin..n
  <2> HIDE DEF begin, starts, ends, end
  <2>1. CASE q.end_point # NoNode
    BY <1>7, <2>1 DEF none
  <2>2. CASE q.end_point = NoNode
    BY <1>5, <2>2 DEF end
  <2> QED BY <2>1, <2>2
<1>9. ended = IF none THEN <<>> ELSE Stretch(path, begin, end)
  <2>1. CASE starts = {}
    <3>1. begun = <<>>
      <4> HIDE DEF begun
      <4> QED BY <1>6, <2>1
    <3>2. ~Has(<<>>, q.end_point)
      BY DEF Has
    <3> HIDE DEF begun
    <3> QED BY <2>1, <3>1, <3>2
  <2>2. CASE starts # {} /\ q.end_point = NoNode
    <3>1. begun = Stretch(path, begin, n)
      <4> HIDE DEF begun, begin, starts
      <4> QED BY <1>6, <2>2
    <3> HIDE DEF begun, begin, starts, ends
    <3> QED BY <2>2, <3>1
  <2>3. CASE starts # {} /\ q.end_point # NoNode
    <3> DEFINE w == n - begin + 1
               here == {k \in 1..w : path[begin - 1 + k].node = q.end_point}
    <3>1. begun = Stretch(path, begin, n) /\ begin \in 1..n
      <4> HIDE DEF begun, begin, starts
      <4> QED BY <1>5, <1>6, <2>3
    <3> HIDE DEF begun, begin
    <3>2. DOMAIN begun = 1..w /\ \A k \in 1..w : begun[k] = path[begin - 1 + k]
      BY <3>1 DEF Stretch
    <3>3. Has(begun, q.end_point) <=> here # {}
      BY <3>2 DEF Has
    <3>4. First(begun, q.end_point) = Min(here)
      <4>1. {k \in DOMAIN begun : begun[k].node = q.end_point} = here
        BY <3>2
      <4> QED BY <4>1 DEF First
    <3>5. \A k \in 1..w : begin - 1 + k \in 1..n /\ begin - 1 + k >= begin
      BY <3>1
    <3>6. \A k \in ends : k \in 1..n /\ k - begin + 1 \in 1..w /\ begin - 1 + (k - begin + 1) = k
      BY <3>1
    <3>7. \A k \in here : begin - 1 + k \in ends
      BY <3>5
    <3>8. \A k \in ends : k - begin + 1 \in here
      BY <3>6
    <3>9. here # {} <=> ends # {}
      BY <3>7, <3>8
    <3>10. ASSUME ends # {} PROVE Min(here) = end - begin + 1 /\ end \in begin..n
      <4>1. Min(ends) \in ends /\ Min(ends) \in 1..n /\ \A y \in ends : Min(ends) <= y
        <5> HIDE DEF ends
        <5> QED BY <1>3, <1>4, <3>10
      <4>2. end = Min(ends)
        BY <2>3
      <4>3. here \subseteq Int
        BY <3>1
      <4>4. end - begin + 1 \in here
        BY <3>8, <4>1, <4>2
      <4> HIDE DEF here, end
      <4>5. \A k \in here : end - begin + 1 <= k
        <5> SUFFICES ASSUME NEW k \in here PROVE end - begin + 1 <= k
          OBVIOUS
        <5>1. begin - 1 + k \in ends
          BY <3>7
        <5>2. end <= begin - 1 + k
          BY <4>1, <4>2, <5>1
        <5>3. end \in Int /\ k \in Int /\ begin \in Int
          BY <3>1, <4>1, <4>2, <4>3
        <5> QED BY <5>2, <5>3
      <4>6. end \in begin..n
        BY <4>1, <4>2
      <4> QED BY <4>3, <4>4, <4>5, <4>6, MinIs
    <3>11. ASSUME ends # {}
           PROVE  SubSeq(begun, 1, end - begin + 1) = Stretch(path, begin, end)
      <4> HIDE DEF end, ends
      <4>1. end \in begin..n /\ end - begin + 1 \in 1..w
        BY <3>1, <3>10, <3>11
      <4>2. SubSeq(begun, 1, end - begin + 1) = Stretch(begun, 1, end - begin + 1)
        <5> DEFINE z == end - begin + 1
        <5>1. w \in Nat /\ z \in Nat /\ z <= w /\ 1 <= z + 1 /\ 1 \in Nat \ {0}
          BY <3>1, <4>1
        <5>2. HasItems(begun, w)
          BY <3>2 DEF HasItems
        <5> HIDE DEF w, z
        <5>3. SubSeq(begun, 1, z) = Stretch(begun, 1, z)
          BY <5>1, <5>2, SubSeqIs
        <5> QED BY <5>3 DEF z
      <4>3. \A j \in 1 .. end - begin + 1 : j \in 1..w /\ 1 - 1 + j = j /\ begun[j] = path[begin - 1 + j]
        BY <3>1, <3>2, <4>1
      <4>4. (end - begin + 1) - 1 + 1 = end - begin + 1
        BY <3>1, <4>1
      <4> QED BY <4>2, <4>3, <4>4 DEF Stretch
    <3>12. none <=> ends = {}
      BY <2>3
    <3> HIDE DEF here, ends, starts, none, end
    <3> QED BY <2>3, <3>3, <3>4, <3>9, <3>10, <3>11, <3>12
  <2> QED BY <2>1, <2>2, <2>3
<1>10. CASE none
  <2>1. ended = <<>>
    <3> HIDE DEF ended, none
    <3> QED BY <1>9, <1>10
  <2>2. c = 0
    <3>1. Len(<<>>) = 0 /\ q.step_limit \in Int /\ 0 \in Int
      OBVIOUS
    <3>2. Min({0, q.step_limit}) \in {0, q.step_limit} /\ Min({0, q.step_limit}) <= 0
      BY <3>1, MinOfTwo
    <3>3. Min({0, q.step_limit}) = 0
      <4> DEFINE z == Min({0, q.step_limit})
      <4>1. z \in Nat /\ z <= 0
        BY <3>2
      <4> HIDE DEF z
      <4>2. z = 0
        BY <4>1
      <4> QED BY <4>2 DEF z
    <3> HIDE DEF ended
    <3> QED BY <2>1, <3>1, <3>3
  <2>3. cut = <<>>
    <3> HIDE DEF c
    <3> QED BY <2>2, SubSeqEmpty
  <2>4. Len(cut) - 1 < 1
    <3> HIDE DEF cut
    <3> QED BY <2>3
  <2>5. 1 .. Len(cut) - 1 = {}
    <3>1. Len(cut) - 1 \in Int
      <4> HIDE DEF cut
      <4> QED BY <2>3
    <3> HIDE DEF cut
    <3> QED BY <2>4, <3>1
  <2> HIDE DEF cut, none
  <2> QED BY <1>1, <1>2, <1>10, <2>5
<1>11. CASE ~none
  <2>1. begin \in 1..n /\ end \in begin..n
    <3>1. starts # {}
      BY <1>11
    <3> HIDE DEF begin, starts, end, none
    <3> QED BY <1>5, <1>8, <1>11, <3>1
  <2>2. ended = Stretch(path, begin, end)
    <3> HIDE DEF ended, none
    <3> QED BY <1>9, <1>11
  <2> HIDE DEF begin, end, ended, none
  <2>3. DOMAIN ended = 1 .. end - begin + 1 /\ Len(ended) = end - begin + 1
    <3>1. Len(ended) = end - begin + 1
      <4>1. begin \in Nat \ {0} /\ end \in Nat /\ end <= n /\ begin <= end + 1
        BY <2>1
      <4>2. HasItems(path, n)
        BY <1>0 DEF HasItems
      <4> QED BY <2>2, <4>1, <4>2, SubSeqIs
    <3> QED BY <2>2, <3>1 DEF Stretch
  <2>4. c \in {end - begin + 1, q.step_limit} /\ c <= end - begin + 1 /\ c <= q.step_limit
    <3>1. end - begin + 1 \in Int /\ q.step_limit \in Int
      BY <2>1
    <3> QED BY <2>3, <3>1, MinOfTwo
  <2>5. last = begin + c - 1
    <3>1. last \in {end, begin + q.step_limit - 1} /\ last <= end /\ last <= begin + q.step_limit - 1
      <4>1. end \in Int /\ begin + q.step_limit - 1 \in Int
        BY <2>1
      <4> QED BY <4>1, MinOfTwo
    <3> HIDE DEF last, c
    <3> QED BY <2>1, <2>4, <3>1
  <2> HIDE DEF last, c
  <2>6. c \in Nat /\ c <= end - begin + 1
    BY <2>1, <2>4
  <2>7. cut = Stretch(ended, 1, c) /\ Len(cut) = c
    <3> DEFINE z == end - begin + 1
    <3>1. z \in Nat /\ c <= z /\ 1 <= c + 1 /\ c - 1 + 1 = c /\ 1 \in Nat \ {0}
      BY <2>1, <2>6
    <3>2. HasItems(ended, z)
      BY <2>3 DEF HasItems
    <3>4. c \in Nat
      BY <2>6
    <3> HIDE DEF z, cut
    <3>3. SubSeq(ended, 1, c) = Stretch(ended, 1, c) /\ Len(Stretch(ended, 1, c)) = c - 1 + 1
      <4>1. z \in Nat
        BY <3>1
      <4>2. c <= z
        BY <3>1
      <4>3. 1 <= c + 1 /\ 1 \in Nat \ {0}
        BY <3>4
      <4>4. SubSeq(ended, 1, c) = Stretch(ended, 1, c)
        BY <3>2, <3>4, <4>1, <4>2, <4>3, SubSeqIs
      <4>5. Len(Stretch(ended, 1, c)) = c - 1 + 1
        BY <3>2, <3>4, <4>1, <4>2, <4>3, SubSeqIs
      <4> QED BY <4>4, <4>5
    <3> QED BY <3>1, <3>3 DEF cut
  <2>8. \A k \in 1..c : cut[k] = path[begin - 1 + k]
    <3> SUFFICES ASSUME NEW k \in 1..c PROVE cut[k] = path[begin - 1 + k]
      OBVIOUS
    <3>1. c - 1 + 1 = c /\ 1 - 1 + k = k /\ k \in 1 .. end - begin + 1
      BY <2>1, <2>6
    <3>2. cut[k] = ended[k]
      BY <2>7, <3>1 DEF Stretch
    <3> QED BY <2>2, <3>1, <3>2 DEF Stretch
  <2> HIDE DEF cut
  <2> DEFINE lk(k) == [step |-> k, source |-> cut[k].node, target |-> cut[k+1].node,
                       micros |-> cut[k+1].ts - cut[k].ts]
             ol(k) == [step |-> k - begin + 1, source |-> path[k].node, target |-> path[k+1].node,
                       micros |-> path[k+1].ts - path[k].ts]
  <2>9. \A k \in 1 .. c - 1 : begin - 1 + k \in begin .. last - 1 /\ lk(k) = ol(begin - 1 + k)
    <3> SUFFICES ASSUME NEW k \in 1 .. c - 1
                 PROVE  begin - 1 + k \in begin .. last - 1 /\ lk(k) = ol(begin - 1 + k)
      OBVIOUS
    <3>1. k \in 1..c /\ k + 1 \in 1..c
      BY <2>6
    <3>2. cut[k] = path[begin - 1 + k] /\ cut[k + 1] = path[begin - 1 + (k + 1)]
      BY <2>8, <3>1
    <3>3. begin - 1 + (k + 1) = (begin - 1 + k) + 1 /\ (begin - 1 + k) - begin + 1 = k
      BY <2>1
    <3>4. begin - 1 + k \in begin .. last - 1
      BY <2>1, <2>5, <2>6
    <3> QED BY <3>2, <3>3, <3>4
  <2>10. \A j \in begin .. last - 1 : j - begin + 1 \in 1 .. c - 1 /\ begin - 1 + (j - begin + 1) = j
    BY <2>1, <2>5, <2>6
  <2>11. path_links(q, ns) = {lk(k) : k \in 1 .. c - 1}
    BY <1>1, <2>7
  <2>12. OracleLinks(path, q) = {ol(k) : k \in begin .. last - 1}
    BY <1>2, <1>11 DEF LinksIn
  <2> HIDE DEF lk, ol
  <2>13. {lk(k) : k \in 1 .. c - 1} = {ol(k) : k \in begin .. last - 1}
    <3>1. ASSUME NEW k \in 1 .. c - 1 PROVE \E j \in begin .. last - 1 : lk(k) = ol(j)
      BY <2>9
    <3>2. ASSUME NEW j \in begin .. last - 1 PROVE \E k \in 1 .. c - 1 : ol(j) = lk(k)
      <4>1. j - begin + 1 \in 1 .. c - 1 /\ begin - 1 + (j - begin + 1) = j
        BY <2>10
      <4>2. lk(j - begin + 1) = ol(begin - 1 + (j - begin + 1))
        BY <2>9, <4>1
      <4> QED BY <4>1, <4>2
    <3> QED BY <3>1, <3>2
  <2> QED BY <2>11, <2>12, <2>13
<1> QED BY <1>10, <1>11

\* The links a person takes.
LinksFor(evs, q, p) == path_links(q, NodesOf(evs, q, p))

\* A person's links are those of the definition, at most one at each step, and none
\* without nodes.
LEMMA PersonLinks ==
    ASSUME NEW evs, Scannable(evs), NEW q, q.step_limit \in Nat, NEW p
    PROVE  /\ LinksFor(evs, q, p) = OracleLinks(OraclePath(p, evs, q), q)
           /\ \A l, m \in LinksFor(evs, q, p) : l.step = m.step => l = m
           /\ Chosen(evs, q, p) = {} => LinksFor(evs, q, p) = {}
<1> DEFINE ns == NodesOf(evs, q, p)
           path == collapsed(ns)[Len(ns)]
<1>1. path = OraclePath(p, evs, q) /\ Len(path) \in Nat /\ IsPath(path, Len(path))
  BY PathExact DEF IsPath
<1>2. path_links(q, ns) = OracleLinks(path, q)
  <2> DEFINE n == Len(path)
  <2>1. n \in Nat /\ IsPath(path, n)
    BY <1>1
  <2> HIDE DEF ns
  <2> QED BY <2>1, LinksAre
<1>3. \A l, m \in path_links(q, ns) : l.step = m.step => l = m
  <2> DEFINE lk(cut) == {[step |-> k, source |-> cut[k].node, target |-> cut[k+1].node,
                          micros |-> cut[k+1].ts - cut[k].ts] : k \in 1 .. Len(cut) - 1}
  <2>1. \E cut : path_links(q, ns) = lk(cut)
    <3> DEFINE begun == IF q.start_point = NoNode THEN path
                        ELSE IF Has(path, q.start_point)
                             THEN SubSeq(path, First(path, q.start_point), Len(path)) ELSE <<>>
               ended == IF q.end_point = NoNode THEN begun
                        ELSE IF Has(begun, q.end_point)
                             THEN SubSeq(begun, 1, First(begun, q.end_point)) ELSE <<>>
               here == SubSeq(ended, 1, Min({Len(ended), q.step_limit}))
    <3>1. path_links(q, ns) = lk(here)
      BY DEF path_links
    <3> HIDE DEF here, lk, ns
    <3> QED BY <3>1
  <2>2. PICK cut : path_links(q, ns) = lk(cut)
    BY <2>1
  <2> HIDE DEF ns
  <2> QED BY <2>2
<1>4. ASSUME Chosen(evs, q, p) = {} PROVE path_links(q, ns) = {}
  <2>1. Cardinality(Chosen(evs, q, p)) = 0
    BY <1>4, FS_EmptySet
  <2>2. ns = <<>>
    BY <2>1 DEF NodesOf
  <2>3. Len(ns) = 0
    <3> HIDE DEF ns
    <3> QED BY <2>2
  <2>4. path = <<>>
    <3>1. collapsed(ns)[0] = <<>>
      <4>1. Len(ns) \in Nat
        BY <2>3
      <4> HIDE DEF ns
      <4> QED BY <4>1, NodeByNode
    <3> HIDE DEF ns
    <3> QED BY <2>3, <3>1
  <2> HIDE DEF path, ns
  <2>5. OracleLinks(path, q) = {}
    <3>1. DOMAIN path = {}
      BY <2>4
    <3> QED BY <3>1 DEF OracleLinks
  <2> QED BY <1>2, <2>5
<1> QED BY <1>1, <1>2, <1>3, <1>4 DEF LinksFor

\* The key of a link taken, and who take the one of a key.
KeyOf(l) == <<l.step, l.source, l.target>>
TakersOf(T, k) == {t \in T : KeyOf(t.link) = k}

\* A link's value counts those that take it.
LEMMA ValuesCount ==
    ASSUME NEW T, NEW limit, NEW k \in DOMAIN finish(LinksOf(T), limit)
    PROVE  finish(LinksOf(T), limit)[k].value = Cardinality(TakersOf(T, k))
<1> DEFINE L == LinksOf(T)
           D == {KeyOf(t.link) : t \in T}
           g(x) == [value |-> Cardinality(TakersOf(T, x)), total |-> LinkMicros(TakersOf(T, x))]
<1>1. L = [x \in D |-> g(x)]
  BY DEF LinksOf, KeyOf, TakersOf
<1> DEFINE F == finish(L, limit)
<1>2. DOMAIN F \subseteq DOMAIN L /\ \A x \in DOMAIN F : F[x] = L[x]
  <2> HIDE DEF L
  <2> QED BY DEF finish
<1> HIDE DEF D, L, F
<1>3. F[k] = g(k) /\ k \in D
  BY <1>1, <1>2 DEF F, L
<1> QED BY <1>3 DEF F, L

\* The persons of a set with their links.
WithLinks(evs, q, P) == {[person |-> p, links |-> LinksFor(evs, q, p)] : p \in P}

\* The links shown are those of the definition, and behind each stand as many
\* persons as it counts.
LEMMA PathsExact == SourceInv => PathsAreExact
<1> SUFFICES ASSUME SourceInv, asking = "paths", NEW q \in Questions[asking].queries,
                    NEW r \in {resolve(q.dates, "day", earliest)} \ {NoRange}
             PROVE  LinksExact(q, r, paths(q, r))
  BY DEF PathsAreExact
<1> DEFINE evs == AskedOf(q, r)
           W == Walking(evs, q)
           people == {person_id(e) : e \in evs}
           hd(p) == [person |-> p, nodes |-> NodesOf(evs, q, p)]
           T == Takes(WithLinks(evs, q, W))
<1>1. r = resolve(q.dates, "day", earliest) /\ r # NoRange
  OBVIOUS
<1>2. scan(q, r) = {hd(p) : p \in W}
  BY <1>1, ScanExact
<1>3. Scannable(evs) /\ q.step_limit \in Nat
  BY <1>1, PathsAsked
<1>4. \A p : /\ LinksFor(evs, q, p) = OracleLinks(OraclePath(p, evs, q), q)
             /\ \A l, m \in LinksFor(evs, q, p) : l.step = m.step => l = m
             /\ Chosen(evs, q, p) = {} => LinksFor(evs, q, p) = {}
  BY <1>3, PersonLinks
<1>5. W = {p \in people : Chosen(evs, q, p) # {}}
  BY DEF Walking
<1>6. IsFiniteSet(W)
  <2>1. [e \in evs |-> person_id(e)] \in Surjection(evs, people)
    BY DEF Surjection
  <2>2. IsFiniteSet(people)
    <3> HIDE DEF people, evs
    <3> QED BY <1>3, <2>1, FS_Surjection DEF Scannable
  <2>3. W \in SUBSET people
    BY <1>5
  <2> HIDE DEF W, people
  <2> QED BY <2>2, <2>3, FS_Subset
<1>7. {[person |-> s.person, links |-> path_links(q, s.nodes)] : s \in scan(q, r)} = WithLinks(evs, q, W)
  <2> DEFINE out(s) == [person |-> s.person, links |-> path_links(q, s.nodes)]
             mine(p) == [person |-> p, links |-> LinksFor(evs, q, p)]
  <2>1. \A p : out(hd(p)) = mine(p)
    BY DEF LinksFor
  <2>2. WithLinks(evs, q, W) = {mine(p) : p \in W}
    BY DEF WithLinks
  <2> HIDE DEF hd, out, mine, W
  <2>3. {out(s) : s \in scan(q, r)} = {mine(p) : p \in W}
    BY <1>2, <2>1
  <2> QED BY <2>2, <2>3 DEF out
<1>8. paths(q, r) = finish(LinksOf(T), q.edge_limit)
  <2> HIDE DEF evs, W
  <2> QED BY <1>7 DEF paths
<1>9. oracle_paths(q, r) = finish(LinksOf(Takes(WithLinks(evs, q, people))), q.edge_limit)
  <2>1. oracle_paths(q, r)
          = finish(LinksOf(Takes({[person |-> p, links |-> OracleLinks(OraclePath(p, evs, q), q)] : p \in people})),
                   q.edge_limit)
    BY DEF oracle_paths, AskedOf
  <2> HIDE DEF evs, people
  <2>2. {[person |-> p, links |-> OracleLinks(OraclePath(p, evs, q), q)] : p \in people} = WithLinks(evs, q, people)
    BY <1>4 DEF WithLinks
  <2> QED BY <2>1, <2>2
<1> HIDE DEF evs, people, W
<1>10. \A P : \A t : t \in Takes(WithLinks(evs, q, P))
                 <=> \E p \in P : \E l \in LinksFor(evs, q, p) : t = [person |-> p, link |-> l]
  <2> SUFFICES ASSUME NEW P, NEW t
               PROVE  t \in Takes(WithLinks(evs, q, P))
                        <=> \E p \in P : \E l \in LinksFor(evs, q, p) : t = [person |-> p, link |-> l]
    OBVIOUS
  <2> DEFINE mine(p) == [person |-> p, links |-> LinksFor(evs, q, p)]
  <2>1. \A x : x \in WithLinks(evs, q, P) <=> \E p \in P : x = mine(p)
    BY DEF WithLinks
  <2>2. \A p : mine(p).person = p /\ mine(p).links = LinksFor(evs, q, p)
    OBVIOUS
  <2>3. t \in Takes(WithLinks(evs, q, P))
          <=> \E x \in WithLinks(evs, q, P) : \E l \in x.links : t = [person |-> x.person, link |-> l]
    BY DEF Takes
  <2> HIDE DEF mine
  <2>4. ASSUME NEW x \in WithLinks(evs, q, P), NEW l \in x.links, t = [person |-> x.person, link |-> l]
        PROVE  \E p \in P : \E m \in LinksFor(evs, q, p) : t = [person |-> p, link |-> m]
    <3>1. PICK p \in P : x = mine(p)
      BY <2>1
    <3>2. l \in LinksFor(evs, q, p) /\ t = [person |-> p, link |-> l]
      BY <2>2, <2>4, <3>1
    <3> QED BY <3>2
  <2>5. ASSUME NEW p \in P, NEW l \in LinksFor(evs, q, p), t = [person |-> p, link |-> l]
        PROVE  \E x \in WithLinks(evs, q, P) : \E m \in x.links : t = [person |-> x.person, link |-> m]
    <3>1. mine(p) \in WithLinks(evs, q, P)
      BY <2>1
    <3>2. l \in mine(p).links /\ t = [person |-> mine(p).person, link |-> l]
      BY <2>2, <2>5
    <3> QED BY <3>1, <3>2
  <2> QED BY <2>3, <2>4, <2>5
<1>11. T = Takes(WithLinks(evs, q, people))
  <2>1. \A p \in people : p \in W \/ LinksFor(evs, q, p) = {}
    BY <1>4, <1>5
  <2>2. \A p \in W : p \in people
    BY <1>5
  <2>3. \A t : t \in T <=> t \in Takes(WithLinks(evs, q, people))
    BY <1>10, <2>1, <2>2
  <2> QED BY <2>3
<1>12. paths(q, r) = oracle_paths(q, r)
  BY <1>8, <1>9, <1>11
<1>13. \A k : paths_actors(q, r, k) = {p \in W : \E l \in LinksFor(evs, q, p) : KeyOf(l) = k}
  <2> SUFFICES ASSUME NEW k
               PROVE  paths_actors(q, r, k) = {p \in W : \E l \in LinksFor(evs, q, p) : KeyOf(l) = k}
    OBVIOUS
  <2> DEFINE has(p) == \E l \in LinksFor(evs, q, p) : KeyOf(l) = k
             takes(s) == \E l \in path_links(q, s.nodes) : KeyOf(l) = k
  <2>1. paths_actors(q, r, k) = {s.person : s \in {s \in scan(q, r) : takes(s)}}
    BY DEF paths_actors, KeyOf
  <2>2. \A p : hd(p).person = p /\ (takes(hd(p)) <=> has(p))
    BY DEF LinksFor
  <2> HIDE DEF has, takes, hd
  <2>3. \A s : s \in scan(q, r) <=> \E p \in W : s = hd(p)
    BY <1>2
  <2>4. \A y : y \in paths_actors(q, r, k) <=> \E s \in scan(q, r) : takes(s) /\ y = s.person
    BY <2>1
  <2>5. \A y : y \in paths_actors(q, r, k) <=> y \in W /\ has(y)
    BY <2>2, <2>3, <2>4
  <2> QED BY <2>5 DEF has
<1>14. \A t : t \in T <=> \E p \in W : \E l \in LinksFor(evs, q, p) : t = [person |-> p, link |-> l]
  BY <1>10
<1> HIDE DEF T, hd
<1>15. ASSUME NEW k PROVE Cardinality(paths_actors(q, r, k)) = Cardinality(TakersOf(T, k))
  <2> DEFINE A == paths_actors(q, r, k)
             B == TakersOf(T, k)
             lk(p) == CHOOSE l \in LinksFor(evs, q, p) : KeyOf(l) = k
             f == [p \in A |-> [person |-> p, link |-> lk(p)]]
  <2>1. A = {p \in W : \E l \in LinksFor(evs, q, p) : KeyOf(l) = k}
    BY <1>13
  <2>2. IsFiniteSet(A)
    <3>1. A \in SUBSET W
      BY <2>1
    <3> HIDE DEF A
    <3> QED BY <1>6, <3>1, FS_Subset
  <2> HIDE DEF A
  <2>3. \A p \in A : p \in W /\ lk(p) \in LinksFor(evs, q, p) /\ KeyOf(lk(p)) = k
    BY <2>1
  <2> HIDE DEF lk
  <2>4. \A p \in A : f[p] = [person |-> p, link |-> lk(p)] /\ f[p].person = p
    OBVIOUS
  <2>5. \A p \in A : f[p] \in B
    <3> SUFFICES ASSUME NEW p \in A PROVE f[p] \in B
      OBVIOUS
    <3>1. f[p] = [person |-> p, link |-> lk(p)]
      BY <2>4
    <3>2. f[p] \in T
      BY <1>14, <2>3, <3>1
    <3>3. f[p].link = lk(p)
      BY <3>1
    <3> HIDE DEF f
    <3> QED BY <2>3, <3>2, <3>3 DEF TakersOf
  <2>6. \A t \in B : \E p \in A : f[p] = t
    <3> SUFFICES ASSUME NEW t \in B PROVE \E p \in A : f[p] = t
      OBVIOUS
    <3>1. t \in T /\ KeyOf(t.link) = k
      BY DEF TakersOf
    <3>2. PICK p \in W : \E l \in LinksFor(evs, q, p) : t = [person |-> p, link |-> l]
      BY <1>14, <3>1
    <3>8. PICK l \in LinksFor(evs, q, p) : t = [person |-> p, link |-> l]
      BY <3>2
    <3>3. KeyOf(l) = k
      <4>1. t.link = l
        BY <3>8
      <4> QED BY <3>1, <4>1
    <3>4. p \in A
      BY <2>1, <3>2, <3>3, <3>8
    <3>5. KeyOf(lk(p)) = k /\ lk(p) \in LinksFor(evs, q, p)
      BY <2>3, <3>4
    <3>6. lk(p).step = l.step
      BY <3>3, <3>5 DEF KeyOf
    <3>7. lk(p) = l
      BY <1>4, <3>5, <3>6, <3>8
    <3> QED BY <2>4, <3>4, <3>7, <3>8
  <2>7. \A p, o \in A : f[p] = f[o] => p = o
    BY <2>4
  <2>8. f \in [A -> B]
    <3>1. f = [p \in A |-> f[p]]
      OBVIOUS
    <3> HIDE DEF f, B
    <3> QED BY <2>5, <3>1
  <2>9. f \in Bijection(A, B)
    <3> HIDE DEF f, B
    <3> QED BY <2>6, <2>7, <2>8 DEF Bijection, Injection, IsInjective, Surjection
  <2> HIDE DEF f, B
  <2>10. Cardinality(A) = Cardinality(B)
    BY <2>2, <2>9, FS_Bijection DEF ExistsBijection
  <2> QED BY <2>10 DEF A, B
<1>16. \A k \in DOMAIN paths(q, r) : paths(q, r)[k].value = Cardinality(TakersOf(T, k))
  BY <1>8, ValuesCount
<1> QED BY <1>12, <1>15, <1>16 DEF LinksExact

\* For every history, trends, their windows, comparisons, breakdowns and formulas and
\* the paths of persons read in partitions are the oracle's, and the actors of a point
\* or a link are as many as it says (query/trends.rs, query/paths.rs, oracle.rs).
THEOREM TrendsAndPathsExactAlways == InsightsSpec => []TrendsAndPathsExact
<1>1. SourceInv => TrendsAndPathsExact
  BY TrendsExact, ActorsReconcile, PathsExact DEF TrendsAndPathsExact
<1> QED BY <1>1, SourceHolds, PTL

-----------------------------------------------------------------------------
(* Web analytics: the stored visits, dates and what a question reads.       *)

\* Visits are stored in the order of their time, and a person is one of the ids.
WebInv ==
    /\ visits \in Seq(SiteEvents)
    /\ \A i, j \in 1..Len(visits) : i <= j => visits[i].ts <= visits[j].ts
    /\ personOf \in [WebIds -> WebIds]

\* The next visit is not earlier than the last.
LEMMA VisitsHold == InsightsSpec => []WebInv
<1>1. InsightsInit => WebInv
  BY DEF InsightsInit, WebInit, WebInv
<1>2. WebInv /\ [InsightsNext]_insightVars => WebInv'
  <2> SUFFICES ASSUME WebInv, [InsightsNext]_insightVars PROVE WebInv'
    OBVIOUS
  <2>1. CASE UNCHANGED webVars
    BY <2>1 DEF WebInv, webVars
  <2>2. ASSUME NEW v \in SiteEvents, StoreVisit(v) PROVE WebInv'
    <3>1. visits' = Append(visits, v) /\ (visits # <<>> => visits[Len(visits)].ts <= v.ts) /\ personOf' = personOf
      BY <2>2 DEF StoreVisit
    <3>2. /\ visits \in Seq(SiteEvents) /\ Len(visits) \in Nat
          /\ visits' \in Seq(SiteEvents) /\ Len(visits') = Len(visits) + 1
      BY <3>1 DEF WebInv
    <3>3. /\ \A k \in 1..Len(visits) : visits'[k] = visits[k] /\ visits[k].ts \in Int
          /\ visits'[Len(visits) + 1] = v /\ v.ts \in Int
      <4>1. \A e \in SiteEvents : e.ts \in Int
        BY WebAssumption
      <4>2. \A k \in 1..Len(visits) : visits[k] \in SiteEvents
        BY <3>2
      <4> QED BY <3>1, <3>2, <4>1, <4>2
    <3>4. \A k \in 1..Len(visits) : visits[k].ts <= v.ts
      <4> SUFFICES ASSUME NEW k \in 1..Len(visits) PROVE visits[k].ts <= v.ts
        OBVIOUS
      <4>1. visits # <<>> /\ Len(visits) \in 1..Len(visits) /\ k <= Len(visits)
        BY <3>2
      <4>2. visits[k].ts <= visits[Len(visits)].ts /\ visits[Len(visits)].ts <= v.ts
        BY <3>1, <4>1 DEF WebInv
      <4> QED BY <3>3, <4>1, <4>2
    <3>5. ASSUME NEW i \in 1..Len(visits'), NEW j \in 1..Len(visits'), i <= j
          PROVE  visits'[i].ts <= visits'[j].ts
      <4>1. i \in 1..Len(visits) \/ i = Len(visits) + 1
        BY <3>2
      <4>2. j \in 1..Len(visits) \/ j = Len(visits) + 1
        BY <3>2
      <4>3. CASE j \in 1..Len(visits)
        <5>1. i \in 1..Len(visits)
          BY <3>2, <3>5, <4>3
        <5> QED BY <3>3, <3>5, <4>3, <5>1 DEF WebInv
      <4>4. CASE j = Len(visits) + 1
        BY <3>3, <3>4, <4>1, <4>4
      <4> QED BY <4>2, <4>3, <4>4
    <3> QED BY <3>1, <3>2, <3>5 DEF WebInv
  <2>3. ASSUME NEW a \in WebIds, NEW b \in WebIds, MergeVisitors(a, b) PROVE WebInv'
    BY <2>3 DEF MergeVisitors, WebInv
  <2>4. CASE NextSite
    BY <2>4 DEF NextSite, WebInv
  <2>5. CASE WebNext
    BY <2>2, <2>3, <2>4, <2>5 DEF WebNext
  <2> QED BY <2>1, <2>5 DEF InsightsNext, insightVars
<1> QED BY <1>1, <1>2, PTL DEF InsightsSpec

\* What is stored has a time, an id with a person, and an index.
LEMMA VisitsAre ==
    ASSUME WebInv
    PROVE  /\ DOMAIN visits = 1..Len(visits) /\ Len(visits) \in Nat
           /\ \A i \in DOMAIN visits : /\ i \in Int /\ visits[i] \in SiteEvents /\ visits[i].ts \in Nat
                                       /\ visits[i].id \in WebIds /\ Person(i) \in WebIds
           /\ \A i, j \in DOMAIN visits : i <= j => visits[i].ts <= visits[j].ts
           /\ IsFiniteSet(DOMAIN visits)
<1>1. DOMAIN visits = 1..Len(visits) /\ Len(visits) \in Nat
  BY DEF WebInv
<1>2. \A e \in SiteEvents : e.ts \in Nat /\ e.id \in WebIds
  <2>1. LastTick \in Nat
    BY WebAssumption
  <2>2. \A e \in SiteEvents : e.ts \in 0 .. LastTick /\ e.id \in WebIds
    BY WebAssumption
  <2> QED BY <2>1, <2>2
<1>3. \A i \in DOMAIN visits : i \in Int /\ visits[i] \in SiteEvents
  BY <1>1 DEF WebInv
<1>4. \A d \in WebIds : personOf[d] \in WebIds
  BY DEF WebInv
<1>5. IsFiniteSet(1..Len(visits))
  <2>1. 1 \in Int /\ Len(visits) \in Int
    BY <1>1
  <2> QED BY <2>1, FS_Interval
<1>6. \A i, j \in DOMAIN visits : i <= j => visits[i].ts <= visits[j].ts
  BY <1>1 DEF WebInv
<1> QED BY <1>1, <1>2, <1>3, <1>4, <1>5, <1>6 DEF Person

WebIntervals == {"hour", "day", "week", "month"}

\* Truncation finds a start that is not later, and starts stay where they are.
LEMMA TruncateIs ==
    ASSUME NEW i \in WebIntervals, NEW t \in Nat
    PROVE  /\ truncate(t, i) \in Nat /\ truncate(t, i) <= t
           /\ truncate(truncate(t, i), i) = truncate(t, i)
           /\ \A u \in Nat : u <= t /\ truncate(u, i) = u => u <= truncate(t, i)
<1>1. CASE i = "hour"
  BY <1>1 DEF truncate
<1>2. CASE i = "day"
  BY <1>2 DEF truncate, DayLength
<1>3. CASE i = "week"
  <2>1. \A a \in Nat : truncate(a, i) = a - (a % 4)
    BY <1>3 DEF truncate, DayLength
  <2> DEFINE s == t - (t % 4)
  <2>2. s \in Nat /\ s <= t /\ t < s + 4 /\ s % 4 = 0
    OBVIOUS
  <2> HIDE DEF s
  <2>3. truncate(t, i) = s
    BY <2>1 DEF s
  <2>4. truncate(s, i) = s
    BY <2>1, <2>2
  <2>5. ASSUME NEW u \in Nat, u <= t, truncate(u, i) = u PROVE u <= s
    <3>1. u - (u % 4) = u
      BY <2>1, <2>5
    <3>2. u % 4 = 0
      BY <3>1
    <3> QED BY <2>2, <2>5, <3>2
  <2> QED BY <2>2, <2>3, <2>4, <2>5
<1>4. CASE i = "month"
  <2> DEFINE M(a) == {m \in MonthsBegin : m <= a}
  <2>1. \A a \in Nat : M(a) \subseteq Int /\ M(a) \subseteq Nat /\ IsFiniteSet(M(a)) /\ M(a) # {}
    <3> SUFFICES ASSUME NEW a \in Nat
                 PROVE  M(a) \subseteq Int /\ M(a) \subseteq Nat /\ IsFiniteSet(M(a)) /\ M(a) # {}
      OBVIOUS
    <3>1. M(a) \in SUBSET Nat /\ \A m \in M(a) : m <= a
      BY WebAssumption
    <3>2. 0 \in M(a)
      BY WebAssumption
    <3> HIDE DEF M
    <3>3. IsFiniteSet(M(a))
      BY <3>1, FS_BoundedSetOfNaturals
    <3> QED BY <3>1, <3>2, <3>3
  <2>2. \A a \in Nat : Max(M(a)) \in M(a) /\ \A y \in M(a) : y <= Max(M(a))
    <3> HIDE DEF M
    <3> QED BY <2>1, FiniteMax
  <2>3. \A a : truncate(a, i) = Max(M(a))
    BY <1>4 DEF truncate
  <2>4. \A a \in Nat : /\ truncate(a, i) \in MonthsBegin /\ truncate(a, i) <= a
                       /\ truncate(a, i) \in Nat
                       /\ \A m \in MonthsBegin : m <= a => m <= truncate(a, i)
    BY <2>1, <2>2, <2>3
  <2> DEFINE s == truncate(t, i)
  <2>5. s \in MonthsBegin /\ s \in Nat /\ s <= t
    BY <2>4
  <2>6. truncate(s, i) \in Nat /\ truncate(s, i) <= s /\ s <= truncate(s, i)
    <3> HIDE DEF s
    <3> QED BY <2>4, <2>5
  <2>7. truncate(s, i) = s
    <3> HIDE DEF s
    <3> QED BY <2>5, <2>6
  <2>8. \A u \in Nat : u <= t /\ truncate(u, i) = u => u <= s
    BY <2>4
  <2> QED BY <2>5, <2>7, <2>8
<1> QED BY <1>1, <1>2, <1>3, <1>4 DEF WebIntervals

\* A plan covers some time, from the previous period on if there is one.
PlanOK(p) == p.from \in Nat /\ p.to \in Nat /\ p.from < p.to /\ Low(p) \in Nat /\ Low(p) <= p.from

\* "All" begins with a visit, or at a day's start.
LEMMA OldestIsTime ==
    ASSUME WebInv, NEW to \in Nat
    PROVE  oldest_event(to) \in Nat
<1> DEFINE days == day_files(0, Day(to - 1) + 1)
           T == {visits[i].ts : i \in days}
<1>1. oldest_event(to) = IF days = {} THEN truncate(to, "day") ELSE Min(T)
  BY DEF oldest_event
<1>2. truncate(to, "day") \in Nat
  BY TruncateIs DEF WebIntervals
<1>3. ASSUME days # {} PROVE Min(T) \in Nat
  <2>1. days \in SUBSET DOMAIN visits
    BY DEF day_files
  <2>2. IsFiniteSet(T)
    <3>1. T \in SUBSET (0 .. LastTick)
      BY WebAssumption DEF WebInv, day_files
    <3>2. 0 \in Int /\ LastTick \in Int
      BY WebAssumption
    <3>3. IsFiniteSet(0 .. LastTick)
      BY <3>2, FS_Interval
    <3> HIDE DEF T
    <3> QED BY <3>1, <3>3, FS_Subset
  <2>4. T \subseteq Nat /\ T # {}
    <3> HIDE DEF days
    <3> QED BY <1>3, <2>1, VisitsAre
  <2> HIDE DEF T, days
  <2>5. T \subseteq Int
    BY <2>4
  <2> QED BY <2>2, <2>4, <2>5, FiniteMin
<1> HIDE DEF days, T
<1> QED BY <1>1, <1>2, <1>3

\* A question that is not refused has a range, and the breakdown's is the same.
LEMMA PlanIs ==
    ASSUME WebInv, NEW q \in WebQueries, ~refused(q)
    PROVE  LET p == plan(q, TRUE)
               o == plan(q, FALSE)
           IN /\ PlanOK(p) /\ PlanOK(o)
              /\ o.from = p.from /\ o.to = p.to /\ o.filter = p.filter /\ Low(o) = o.from
<1> DEFINE from == IF q.from = -1 THEN oldest_event(q.to) ELSE q.from
           before == IF q.from # -1 /\ 2 * from - q.to >= 0 THEN 2 * from - q.to ELSE -1
           p == plan(q, TRUE)
           o == plan(q, FALSE)
<1>1. q.to \in Nat /\ from \in Nat
  <2>1. q.to \in Nat /\ q.from \in Nat \cup {-1}
    BY QuestionsAssumption
  <2> QED BY <2>1, OldestIsTime
<1>2. p.to = q.to /\ p.filter = q.filter /\ o.to = q.to /\ o.filter = q.filter /\ o.previous = -1
  BY DEF plan
<1>3. p.from \in Nat /\ o.from = p.from
  <2>1. p.from = from /\ o.from = from
    BY DEF plan
  <2> HIDE DEF o, p, from
  <2> QED BY <1>1, <2>1
<1>4. p.previous = -1 \/ (p.previous = 2 * p.from - p.to /\ 2 * p.from - p.to >= 0)
  <2>1. p.from = from /\ p.previous = before /\ p.to = q.to
    BY DEF plan
  <2> HIDE DEF from, p
  <2> QED BY <2>1
<1> HIDE DEF from, before, o, p
<1>5. p.from < p.to
  <2>1. refused(q) <=> o.from >= q.to
    BY DEF refused, o
  <2>2. ~(p.from >= p.to)
    BY <1>2, <1>3, <2>1
  <2> QED BY <1>1, <1>2, <1>3, <2>2
<1> DEFINE f == p.from
           t == p.to
           b == p.previous
<1>6. f \in Nat /\ t \in Nat /\ f < t /\ (b = -1 \/ (b = 2 * f - t /\ 2 * f - t >= 0))
  BY <1>1, <1>2, <1>3, <1>4, <1>5
<1>7. Low(p) = IF b = -1 THEN f ELSE b
  BY DEF Low
<1> HIDE DEF f, t, b
<1>8. Low(p) \in Nat /\ Low(p) <= f
  BY <1>6, <1>7
<1>9. PlanOK(p)
  BY <1>6, <1>8 DEF PlanOK, f, t
<1>10. Low(o) = o.from
  BY <1>2 DEF Low
<1>11. PlanOK(o)
  BY <1>2, <1>3, <1>6, <1>10 DEF PlanOK, f, t
<1> QED BY <1>2, <1>3, <1>9, <1>10, <1>11 DEF o, p

\* Its days of files hold every visit of a range.
LEMMA RowsAre ==
    ASSUME WebInv, NEW p, p.to \in Nat, NEW lo \in Nat
    PROVE  rows(p, lo) = {i \in DOMAIN visits : visits[i].ts \in lo .. p.to - 1 /\ compile(p.filter, visits[i])}
<1>1. \A i \in DOMAIN visits : visits[i].ts \in lo .. p.to - 1 => i \in SpanFiles(lo, p.to)
  <2> SUFFICES ASSUME NEW i \in DOMAIN visits, visits[i].ts \in lo .. p.to - 1 PROVE i \in SpanFiles(lo, p.to)
    OBVIOUS
  <2> DEFINE t == visits[i].ts
             to == p.to
  <2>1. t \in Nat /\ to \in Nat /\ lo <= t /\ t <= to - 1
    BY VisitsAre
  <2> HIDE DEF t, to
  <2>2. t \div 2 \in (lo \div 2) .. ((to - 1) \div 2 + 1) - 1
    BY <2>1
  <2> QED BY <2>2 DEF SpanFiles, day_files, Day, DayLength, t, to
<1>2. SpanFiles(lo, p.to) \subseteq DOMAIN visits
  BY DEF SpanFiles, day_files
<1> HIDE DEF SpanFiles
<1> QED BY <1>1, <1>2 DEF rows

\* The visits a question reads of a period: the current is 1.
PartOf(p, n) == {i \in DOMAIN visits : /\ visits[i].ts \in Low(p) .. p.to - 1 /\ compile(p.filter, visits[i])
                                       /\ (n = 1 <=> visits[i].ts >= p.from)}

\* They are what the SQL reads and tags.
LEMMA PartIs ==
    ASSUME WebInv, NEW p, PlanOK(p), NEW n \in {0, 1}
    PROVE  OfPeriod(p, rows(p, Low(p)), n) = PartOf(p, n)
<1> DEFINE R == rows(p, Low(p))
<1>1. R = {i \in DOMAIN visits : visits[i].ts \in Low(p) .. p.to - 1 /\ compile(p.filter, visits[i])}
  BY RowsAre DEF PlanOK
<1> HIDE DEF R
<1>2. \A i : period(p, i) = n <=> (n = 1 <=> visits[i].ts >= p.from)
  BY DEF period
<1>3. OfPeriod(p, R, n) = {i \in R : period(p, i) = n}
  BY DEF OfPeriod
<1>4. \A i : i \in PartOf(p, n) <=> i \in R /\ period(p, i) = n
  BY <1>1, <1>2 DEF PartOf
<1>5. \A i : i \in OfPeriod(p, R, n) <=> i \in R /\ period(p, i) = n
  BY <1>3
<1> HIDE DEF PartOf, period, OfPeriod
<1> QED BY <1>4, <1>5 DEF R

\* The parts are visits, and those of a breakdown are the current period's.
LEMMA PartsAre ==
    ASSUME WebInv, NEW p, PlanOK(p)
    PROVE  /\ \A n : PartOf(p, n) \subseteq DOMAIN visits
           /\ rows(p, Low(p)) = PartOf(p, 0) \cup PartOf(p, 1)
           /\ \A i \in PartOf(p, 1) : visits[i].ts \in Nat /\ p.from <= visits[i].ts /\ visits[i].ts < p.to
           /\ \A i \in PartOf(p, 0) : visits[i].ts \in Nat /\ visits[i].ts < p.from
           /\ \A o : PlanOK(o) /\ o.from = p.from /\ o.to = p.to /\ o.filter = p.filter /\ Low(o) = o.from
                       => rows(o, o.from) = PartOf(p, 1) /\ OfPeriod(o, PartOf(p, 1), 1) = PartOf(p, 1)
<1>1. \A n : PartOf(p, n) \subseteq DOMAIN visits
  BY DEF PartOf
<1>2. \A i \in DOMAIN visits : visits[i].ts \in Nat
  BY VisitsAre
<1>3. rows(p, Low(p)) = {i \in DOMAIN visits : visits[i].ts \in Low(p) .. p.to - 1 /\ compile(p.filter, visits[i])}
  BY RowsAre DEF PlanOK
<1>4. rows(p, Low(p)) = PartOf(p, 0) \cup PartOf(p, 1)
  BY <1>3 DEF PartOf
<1>5. /\ p.from \in Nat /\ p.to \in Nat /\ Low(p) \in Nat /\ Low(p) <= p.from
  BY DEF PlanOK
<1>6. \A i \in PartOf(p, 1) : visits[i].ts \in Nat /\ p.from <= visits[i].ts /\ visits[i].ts < p.to
  BY <1>2, <1>5 DEF PartOf
<1>7. \A i \in PartOf(p, 0) : visits[i].ts \in Nat /\ visits[i].ts < p.from
  BY <1>2, <1>5 DEF PartOf
<1>8. ASSUME NEW o, PlanOK(o), o.from = p.from, o.to = p.to, o.filter = p.filter, Low(o) = o.from
      PROVE  rows(o, o.from) = PartOf(p, 1) /\ OfPeriod(o, PartOf(p, 1), 1) = PartOf(p, 1)
  <2>1. rows(o, o.from) = {i \in DOMAIN visits : visits[i].ts \in o.from .. o.to - 1 /\ compile(o.filter, visits[i])}
    <3>1. o.to \in Nat /\ o.from \in Nat
      BY <1>8 DEF PlanOK
    <3> QED BY <3>1, RowsAre
  <2>2. \A i \in DOMAIN visits : visits[i].ts \in o.from .. o.to - 1
                                   <=> visits[i].ts \in Low(p) .. p.to - 1 /\ visits[i].ts >= p.from
    BY <1>2, <1>5, <1>8
  <2>3. \A i : i \in rows(o, o.from) <=> i \in PartOf(p, 1)
    BY <1>8, <2>1, <2>2 DEF PartOf
  <2>4. rows(o, o.from) = PartOf(p, 1)
    <3> HIDE DEF PartOf
    <3> QED BY <2>3
  <2>5. \A i \in PartOf(p, 1) : period(o, i) = 1
    <3> HIDE DEF PartOf
    <3> QED BY <1>5, <1>6, <1>8 DEF period
  <2>6. OfPeriod(o, PartOf(p, 1), 1) = PartOf(p, 1)
    <3> HIDE DEF PartOf, period
    <3> QED BY <2>5 DEF OfPeriod
  <2> QED BY <2>4, <2>6
<1> HIDE DEF PartOf, PlanOK
<1> QED BY <1>1, <1>4, <1>6, <1>7, <1>8

\* The live count misses no file.
LEMMA LiveExact ==
    ASSUME WebInv, NEW q \in WebQueries
    PROVE  LiveAgrees(q)
<1> DEFINE now == q.to - 1
           F == day_files(Day(now - LiveWindow), Day(now) + 2)
           L == {i \in Views(F) : visits[i].ts \in now - LiveWindow .. now /\ compile(q.filter, visits[i])}
           A == {i \in Views(DOMAIN visits) : compile(q.filter, visits[i]) /\ visits[i].ts \in now - LiveWindow .. now}
<1>1. now \in Int /\ LiveWindow \in Nat
  <2>1. q.to \in Nat
    BY QuestionsAssumption
  <2> QED BY <2>1, WebAssumption
<1> HIDE DEF now
<1>2. \A i \in DOMAIN visits : visits[i].ts \in now - LiveWindow .. now => i \in F
  <2> SUFFICES ASSUME NEW i \in DOMAIN visits, visits[i].ts \in now - LiveWindow .. now PROVE i \in F
    OBVIOUS
  <2> DEFINE t == visits[i].ts
             w == LiveWindow
  <2>1. t \in Nat /\ w \in Nat /\ now - w <= t /\ t <= now
    BY <1>1, VisitsAre
  <2> HIDE DEF t, w
  <2>2. t \div 2 \in ((now - w) \div 2) .. ((now \div 2) + 2) - 1
    BY <1>1, <2>1
  <2> QED BY <2>2 DEF day_files, Day, DayLength, t, w
<1>3. F \subseteq DOMAIN visits
  BY DEF day_files
<1> HIDE DEF F
<1>4. L = A
  BY <1>2, <1>3 DEF Views
<1>5. LiveAgrees(q) <=> Cardinality(Persons(L)) = Cardinality(Persons(A))
  <2> HIDE DEF Persons
  <2> QED BY DEF LiveAgrees, live_visitors, now, F
<1> HIDE DEF L, A
<1> QED BY <1>4, <1>5

-----------------------------------------------------------------------------
(* The buckets of web analytics.                                            *)

\* How many of the numbers in D are smaller.
RankIn(D, b) == Cardinality({c \in D : c < b})

\* The numbers of a finite set have the ranks from 0 on, each its own.
LEMMA RanksAre ==
    ASSUME NEW D, D \subseteq Int, IsFiniteSet(D)
    PROVE  /\ Cardinality(D) \in Nat
           /\ \A b \in D : RankIn(D, b) \in 0 .. Cardinality(D) - 1
           /\ \A b, c \in D : RankIn(D, b) = RankIn(D, c) => b = c
           /\ \A k \in 0 .. Cardinality(D) - 1 : \E b \in D : RankIn(D, b) = k
<1> DEFINE R == Less(D)
           n == Cardinality(D)
<1>1. Orders(R, D)
  BY DEF Orders, Less
<1>2. \A b \in D : RankIn(D, b) = Before(b, R, D)
  <2> SUFFICES ASSUME NEW b \in D PROVE RankIn(D, b) = Before(b, R, D)
    OBVIOUS
  <2>1. {c \in D : c < b} = {y \in D : <<y, b>> \in R}
    BY DEF Less
  <2> QED BY <2>1 DEF RankIn, Before
<1> HIDE DEF R
<1>3. n \in Nat /\ \A x \in D : Before(x, R, D) \in 0 .. n - 1
  BY <1>1, EachRank
<1>4. \A b, c \in D : Before(b, R, D) = Before(c, R, D) => b = c
  BY <1>1, EachRank
<1>5. \A k \in 1..n : \E b \in D : Before(b, R, D) = k - 1
  BY <1>1, EachRank
<1> HIDE DEF n
<1>6. ASSUME NEW k \in 0 .. n - 1 PROVE \E b \in D : Before(b, R, D) = k
  <2>1. k + 1 \in 1..n /\ (k + 1) - 1 = k
    BY <1>3
  <2> QED BY <1>5, <2>1
<1>7. \A b \in D : RankIn(D, b) \in 0 .. n - 1
  BY <1>2, <1>3
<1>8. \A b, c \in D : RankIn(D, b) = RankIn(D, c) => b = c
  BY <1>2, <1>4
<1>9. \A k \in 0 .. n - 1 : \E b \in D : RankIn(D, b) = k
  BY <1>2, <1>6
<1> QED BY <1>3, <1>7, <1>8, <1>9 DEF n

\* Every instant of a plan's range is in one of its buckets.
LEMMA BucketHolds ==
    ASSUME NEW p, PlanOK(p), NEW i \in WebIntervals
    PROVE  LET D == date_buckets(p.from, p.to, i) IN
           /\ D \subseteq Nat /\ D \subseteq Int /\ IsFiniteSet(D)
           /\ \A t \in Nat : p.from <= t /\ t < p.to =>
                /\ truncate(t, i) \in D
                /\ \A b \in D : (b <= t /\ \A c \in D : c > b => t < c) <=> b = truncate(t, i)
<1> DEFINE D == date_buckets(p.from, p.to, i)
           f == p.from
           e == p.to
           a == truncate(f, i)
<1>1. f \in Nat /\ e \in Nat /\ f < e
  BY DEF PlanOK
<1> HIDE DEF f, e
<1>2. D = {b \in a .. e - 1 : truncate(b, i) = b}
  BY DEF date_buckets, f, e
<1> HIDE DEF D
<1>3. a \in Nat /\ a <= f /\ truncate(a, i) = a
  BY <1>1, TruncateIs
<1> HIDE DEF a
<1>4. IsFiniteSet(D) /\ D \subseteq Nat /\ D \subseteq Int
  <2>1. a \in Int /\ e - 1 \in Int
    BY <1>1, <1>3
  <2>2. IsFiniteSet(a .. e - 1)
    BY <2>1, FS_Interval
  <2>3. D \in SUBSET (a .. e - 1)
    BY <1>2
  <2>4. IsFiniteSet(D)
    BY <2>2, <2>3, FS_Subset
  <2> QED BY <1>1, <1>3, <2>3, <2>4
<1>5. ASSUME NEW t \in Nat, f <= t, t < e
      PROVE  /\ truncate(t, i) \in D
             /\ \A b \in D : (b <= t /\ \A c \in D : c > b => t < c) <=> b = truncate(t, i)
  <2> DEFINE s == truncate(t, i)
  <2>1. s \in Nat /\ s <= t /\ truncate(s, i) = s /\ \A u \in Nat : u <= t /\ truncate(u, i) = u => u <= s
    BY TruncateIs
  <2> HIDE DEF s
  <2>2. a <= t
    BY <1>1, <1>3, <1>5
  <2>3. a <= s
    BY <1>3, <2>1, <2>2
  <2>4. s \in a .. e - 1
    BY <1>1, <1>3, <1>5, <2>1, <2>3
  <2>5. s \in D
    BY <1>2, <2>1, <2>4
  <2>6. ASSUME NEW c \in D, c <= t PROVE c <= s
    BY <1>2, <1>4, <2>1, <2>6
  <2>7. ASSUME NEW b \in D, b <= t, \A c \in D : c > b => t < c PROVE b = s
    <3>1. b <= s /\ b \in Nat
      BY <1>4, <2>6, <2>7
    <3>2. ~(s > b)
      <4> SUFFICES ASSUME s > b PROVE FALSE
        OBVIOUS
      <4>1. t < s
        BY <2>5, <2>7
      <4> QED BY <2>1, <4>1
    <3> QED BY <2>1, <3>1, <3>2
  <2>8. ASSUME NEW c \in D, c > s PROVE t < c
    <3>1. c \in Nat
      BY <1>4
    <3> QED BY <2>1, <2>6, <2>8, <3>1
  <2> QED BY <2>1, <2>5, <2>7, <2>8 DEF s
<1> QED BY <1>4, <1>5 DEF D, f, e

\* The pageviews of the k-th bucket.
ViewsAt(p, i, k) == {j \in Views(PartOf(p, 1)) :
                       RankIn(date_buckets(p.from, p.to, i), truncate(visits[j].ts, i)) = k}

\* The definition and the general SQL agree on them.
LEMMA SeriesAre ==
    ASSUME WebInv, NEW p, PlanOK(p), NEW i \in WebIntervals,
           NEW k \in 0 .. Cardinality(date_buckets(p.from, p.to, i)) - 1
    PROVE  LET D == date_buckets(p.from, p.to, i)
               in(b) == {j \in Views(PartOf(p, 1)) : b <= visits[j].ts /\ \A c \in D : c > b => visits[j].ts < c}
               nth == CHOOSE b \in D : Cardinality({c \in D : c < b}) = k
           IN /\ UNION {in(b) : b \in {c \in D : Cardinality({d \in D : d < c}) = k}} = ViewsAt(p, i, k)
              /\ {j \in Views(PartOf(p, 1)) : truncate(visits[j].ts, i) = nth} = ViewsAt(p, i, k)
<1> DEFINE D == date_buckets(p.from, p.to, i)
           V == Views(PartOf(p, 1))
           in(b) == {j \in V : b <= visits[j].ts /\ \A c \in D : c > b => visits[j].ts < c}
           nth == CHOOSE b \in D : Cardinality({c \in D : c < b}) = k
           ranked == {c \in D : RankIn(D, c) = k}
           W == ViewsAt(p, i, k)
           T(j) == truncate(visits[j].ts, i)
<1>1. D \subseteq Int /\ IsFiniteSet(D)
  BY BucketHolds
<1>2. \A j \in V : T(j) \in D /\ \A b \in D : (b <= visits[j].ts /\ \A c \in D : c > b => visits[j].ts < c) <=> b = T(j)
  <2>1. V \subseteq PartOf(p, 1)
    BY DEF Views
  <2>2. \A j \in V : visits[j].ts \in Nat /\ p.from <= visits[j].ts /\ visits[j].ts < p.to
    <3> HIDE DEF V
    <3> QED BY <2>1, PartsAre
  <2> HIDE DEF V
  <2> QED BY <2>2, BucketHolds
<1>3. W = {j \in V : RankIn(D, T(j)) = k}
  BY DEF ViewsAt
<1> HIDE DEF V, W, D
<1>4. /\ \A b, c \in D : RankIn(D, b) = RankIn(D, c) => b = c
      /\ \E b \in D : RankIn(D, b) = k
  <2>1. k \in 0 .. Cardinality(D) - 1
    BY DEF D
  <2> QED BY <1>1, <2>1, RanksAre
<1>5. nth = CHOOSE b \in D : RankIn(D, b) = k
  BY DEF RankIn
<1>6. nth \in D /\ \A b \in D : RankIn(D, b) = k <=> b = nth
  <2> HIDE DEF nth
  <2> QED BY <1>4, <1>5
<1> HIDE DEF nth
<1>7. {j \in V : T(j) = nth} = W
  <2> HIDE DEF T
  <2> QED BY <1>2, <1>3, <1>6
<1>8. UNION {in(b) : b \in ranked} = W
  <2>1. ranked = {nth}
    BY <1>6
  <2>2. \A j : j \in in(nth) <=> j \in V /\ T(j) = nth
    <3> HIDE DEF T
    <3> QED BY <1>2, <1>6
  <2>3. in(nth) = {j \in V : T(j) = nth}
    <3> HIDE DEF T, in
    <3> QED BY <2>2
  <2>4. UNION {in(b) : b \in ranked} = in(nth)
    <3> HIDE DEF in, ranked
    <3> QED BY <2>1
  <2> QED BY <1>7, <2>3, <2>4
<1>9. {c \in D : Cardinality({d \in D : d < c}) = k} = ranked
  BY DEF RankIn
<1> HIDE DEF ranked
<1> QED BY <1>7, <1>8, <1>9 DEF D, V, W, nth

-----------------------------------------------------------------------------
(* Sessions by gaps.                                                        *)

\* None of the person's visits after i, up to j, opens a session.
NoneOpens(S, i, j) == \A k \in S : Person(k) = Person(i) /\ i < k /\ k <= j => ~NewSession(S, k)

\* The visit of a person before another of theirs, which decides whether that one opens a session.
IsPrevious(S, h, k) ==
    /\ h \in S /\ Person(h) = Person(k) /\ h < k
    /\ \A m \in S : Person(m) = Person(k) /\ m < k => m <= h
    /\ NewSession(S, k) <=> visits[k].ts - visits[h].ts > SessionGap

\* There is one when the person was seen before.
LEMMA PreviousIs ==
    ASSUME WebInv, NEW S, S \subseteq DOMAIN visits, NEW k \in S, NEW j \in S, Person(j) = Person(k), j < k
    PROVE  \E h : IsPrevious(S, h, k)
<1> DEFINE B == {m \in S : Person(m) = Person(k) /\ m < k}
           h == Max(B)
<1>1. B \in SUBSET DOMAIN visits /\ B # {}
  OBVIOUS
<1>2. IsFiniteSet(B) /\ B \subseteq Int
  <2> HIDE DEF B
  <2> QED BY <1>1, VisitsAre, FS_Subset
<1>3. h \in B /\ \A y \in B : y <= h
  <2> HIDE DEF B
  <2> QED BY <1>1, <1>2, FiniteMax
<1>4. visits[k].ts \in Int /\ visits[h].ts \in Int /\ SessionGap \in Int
  <2>1. \A i \in DOMAIN visits : visits[i].ts \in Int
    BY VisitsAre
  <2> HIDE DEF h
  <2> QED BY <1>1, <1>3, <2>1, WebAssumption
<1>5. NewSession(S, k) <=> ~(visits[k].ts - visits[h].ts <= SessionGap)
  <2> HIDE DEF h
  <2>1. NewSession(S, k) = IF B = {} THEN TRUE ELSE ~(visits[k].ts - visits[h].ts <= SessionGap)
    BY DEF NewSession, h
  <2> HIDE DEF B
  <2> QED BY <1>1, <2>1
<1>6. h \in S /\ Person(h) = Person(k) /\ h < k /\ \A m \in S : Person(m) = Person(k) /\ m < k => m <= h
  <2> HIDE DEF h
  <2> QED BY <1>3
<1> HIDE DEF h, B
<1>7. NewSession(S, k) <=> visits[k].ts - visits[h].ts > SessionGap
  BY <1>4, <1>5
<1> QED BY <1>6, <1>7 DEF IsPrevious

\* The running count is the same when none between opens a session.
LEMMA NumbersAre ==
    ASSUME WebInv, NEW S, S \subseteq DOMAIN visits, NEW i \in S, NEW j \in S, i <= j, Person(i) = Person(j)
    PROVE  SessionNumber(S, i) = SessionNumber(S, j) <=> NoneOpens(S, i, j)
<1> DEFINE O(m) == {k \in S : Person(k) = Person(m) /\ k <= m /\ NewSession(S, k)}
<1>1. \A k \in S : k \in Int
  BY VisitsAre
<1>2. IsFiniteSet(O(j))
  <2>1. O(j) \in SUBSET DOMAIN visits
    OBVIOUS
  <2> HIDE DEF O
  <2> QED BY <2>1, VisitsAre, FS_Subset
<1>3. O(i) \in SUBSET O(j)
  BY <1>1
<1>4. SessionNumber(S, i) = Cardinality(O(i)) /\ SessionNumber(S, j) = Cardinality(O(j))
  BY DEF SessionNumber
<1>5. O(i) = O(j) <=> NoneOpens(S, i, j)
  <2>1. ASSUME NoneOpens(S, i, j), NEW k \in O(j) PROVE k \in O(i)
    <3>1. k \in Int /\ i \in Int /\ (k <= i \/ i < k)
      BY <1>1
    <3> QED BY <2>1, <3>1 DEF NoneOpens
  <2>2. ASSUME O(i) = O(j), NEW k \in S, Person(k) = Person(i), i < k, k <= j PROVE ~NewSession(S, k)
    <3>1. k \notin O(i)
      BY <1>1, <2>2
    <3>2. k \notin O(j)
      <4> HIDE DEF O
      <4> QED BY <2>2, <3>1
    <3> QED BY <2>2, <3>2
  <2> HIDE DEF O
  <2> QED BY <1>3, <2>1, <2>2 DEF NoneOpens
<1> HIDE DEF O
<1>6. Cardinality(O(i)) = Cardinality(O(j)) => O(i) = O(j)
  BY <1>2, <1>3, FS_Subset
<1> QED BY <1>4, <1>5, <1>6

\* The events from a time on, up to another, are each followed by one within the gap.
Follows(S, h, a, b) ==
    \A k \in S : Person(k) = h /\ a <= visits[k].ts /\ visits[k].ts < b
        => \E m \in S : Person(m) = h /\ visits[m].ts > visits[k].ts /\ visits[m].ts - visits[k].ts <= SessionGap

\* Two events are chained when those between are.
LEMMA ChainedIs ==
    ASSUME WebInv, NEW S, S \subseteq DOMAIN visits, NEW i \in S, NEW j \in S, i <= j
    PROVE  /\ Chained(S, i, j) <=> Person(i) = Person(j) /\ Follows(S, Person(i), visits[i].ts, visits[j].ts)
           /\ Chained(S, j, i) <=> Person(i) = Person(j) /\ Follows(S, Person(i), visits[i].ts, visits[j].ts)
<1> DEFINE a == visits[i].ts
           b == visits[j].ts
<1>1. a \in Int /\ b \in Int /\ a <= b
  BY VisitsAre
<1> HIDE DEF a, b
<1>2. Min({a, b}) = a
  BY <1>1, MinIs
<1>3. Max({a, b}) = b
  BY <1>1, MaxIs
<1>4. {b, a} = {a, b}
  OBVIOUS
<1>5. ASSUME NEW x, NEW y, Min({visits[x].ts, visits[y].ts}) = a, Max({visits[x].ts, visits[y].ts}) = b
      PROVE  Chained(S, x, y) <=> Person(x) = Person(y) /\ Follows(S, Person(x), a, b)
  BY <1>5 DEF Chained, Follows
<1>6. Chained(S, i, j) <=> Person(i) = Person(j) /\ Follows(S, Person(i), a, b)
  <2>1. Min({visits[i].ts, visits[j].ts}) = a /\ Max({visits[i].ts, visits[j].ts}) = b
    BY <1>2, <1>3 DEF a, b
  <2> HIDE DEF Chained, Follows
  <2> QED BY <1>5, <2>1
<1>7. Chained(S, j, i) <=> Person(j) = Person(i) /\ Follows(S, Person(j), a, b)
  <2>1. {visits[j].ts, visits[i].ts} = {a, b}
    BY <1>4 DEF a, b
  <2>2. Min({visits[j].ts, visits[i].ts}) = a /\ Max({visits[j].ts, visits[i].ts}) = b
    BY <1>2, <1>3, <2>1
  <2> HIDE DEF Chained, Follows
  <2> QED BY <1>5, <2>2
<1> HIDE DEF Chained, Follows
<1> QED BY <1>6, <1>7 DEF a, b

\* Nothing between two events opens a session when each of them is followed within the gap.
LEMMA FollowsIs ==
    ASSUME WebInv, NEW S, S \subseteq DOMAIN visits, NEW i \in S, NEW j \in S, i <= j, Person(i) = Person(j)
    PROVE  Follows(S, Person(i), visits[i].ts, visits[j].ts) <=> NoneOpens(S, i, j)
<1> DEFINE p == Person(i)
           t(k) == visits[k].ts
<1>1. /\ \A k \in S : k \in Int /\ t(k) \in Int
      /\ \A k, m \in S : k <= m => t(k) <= t(m)
      /\ SessionGap \in Int
  BY VisitsAre, WebAssumption
<1>2. ASSUME Follows(S, p, t(i), t(j)), NEW k \in S, Person(k) = p, i < k, k <= j, NewSession(S, k) PROVE FALSE
  <2>1. PICK h : IsPrevious(S, h, k)
    BY <1>2, PreviousIs
  <2>2. /\ h \in S /\ Person(h) = p /\ h < k /\ i <= h /\ t(k) - t(h) > SessionGap
        /\ \A m \in S : Person(m) = p /\ m < k => m <= h
    BY <1>2, <2>1 DEF IsPrevious
  <2>3. t(i) <= t(h) /\ t(h) <= t(k) /\ t(k) <= t(j)
    <3>1. h <= k
      BY <1>1, <2>2
    <3> HIDE DEF t
    <3> QED BY <1>1, <1>2, <2>2, <3>1
  <2>4. t(h) < t(j)
    <3>1. SessionGap >= 0
      BY WebAssumption
    <3>2. t(i) \in Int /\ t(h) \in Int /\ t(k) \in Int /\ t(j) \in Int
      BY <1>1, <2>2
    <3> HIDE DEF t
    <3> QED BY <1>1, <2>2, <2>3, <3>1, <3>2
  <2>5. PICK m \in S : Person(m) = p /\ t(m) > t(h) /\ t(m) - t(h) <= SessionGap
    BY <1>2, <2>2, <2>3, <2>4 DEF Follows
  <2> HIDE DEF t
  <2>6. t(m) \in Int /\ t(h) \in Int /\ t(k) \in Int /\ m \in Int /\ k \in Int /\ h \in Int
    BY <1>1, <2>2
  <2>7. ~(k <= m)
    <3>1. t(m) < t(k)
      BY <1>1, <2>2, <2>5, <2>6
    <3> QED BY <1>1, <2>6, <3>1
  <2>8. m <= h
    BY <2>2, <2>5, <2>6, <2>7
  <2>9. t(m) <= t(h)
    BY <1>1, <2>2, <2>8
  <2> QED BY <2>5, <2>6, <2>9
<1>3. ASSUME NoneOpens(S, i, j), NEW k \in S, Person(k) = p, t(i) <= t(k), t(k) < t(j)
      PROVE  \E m \in S : Person(m) = p /\ t(m) > t(k) /\ t(m) - t(k) <= SessionGap
  <2> DEFINE L == {m \in S : Person(m) = p /\ t(m) > t(k)}
  <2>1. j \in L
    BY <1>1, <1>3
  <2>2. L \in SUBSET Nat
    BY VisitsAre
  <2>3. PICK m \in L : \A o \in L : m <= o
    <3> HIDE DEF L
    <3> QED BY <2>1, <2>2, LeastNatural
  <2>4. m \in S /\ Person(m) = p /\ t(m) > t(k) /\ m <= j
    BY <2>1, <2>3
  <2>5. t(m) \in Int /\ t(k) \in Int /\ m \in Int /\ k \in Int /\ i \in Int /\ t(i) \in Int
    BY <1>1, <2>4
  <2>6. k < m /\ i < m
    <3> HIDE DEF t, L
    <3>1. ~(m <= k) /\ ~(m <= i)
      BY <1>1, <1>3, <2>4, <2>5
    <3> QED BY <2>5, <3>1
  <2>7. PICK h : IsPrevious(S, h, m)
    BY <1>3, <2>4, <2>6, PreviousIs
  <2>8. /\ h \in S /\ Person(h) = p /\ h < m /\ k <= h
        /\ NewSession(S, m) <=> t(m) - t(h) > SessionGap
    BY <1>3, <2>4, <2>6, <2>7 DEF IsPrevious
  <2>9. ~NewSession(S, m)
    BY <1>3, <2>4, <2>6 DEF NoneOpens
  <2>10. h \in Int /\ t(h) \in Int
    BY <1>1, <2>8
  <2>11. ~(t(h) > t(k))
    <3>1. ~(m <= h)
      BY <2>5, <2>8, <2>10
    <3> QED BY <2>3, <2>8, <3>1
  <2>12. t(k) <= t(h)
    BY <1>1, <2>8
  <2> HIDE DEF t, L
  <2>13. t(m) - t(k) <= SessionGap
    BY <1>1, <2>5, <2>8, <2>9, <2>10, <2>11, <2>12
  <2> QED BY <2>4, <2>13
<1> QED BY <1>2, <1>3 DEF Follows, NoneOpens

\* The gaps cut where the definition does.
LEMMA GapsAgree ==
    ASSUME WebInv, NEW S, S \subseteq DOMAIN visits
    PROVE  ByGaps(S) = {{j \in S : Chained(S, i, j)} : i \in S}
<1>1. ASSUME NEW i \in S, NEW j \in S
      PROVE  Chained(S, i, j) <=> Person(j) = Person(i) /\ SessionNumber(S, j) = SessionNumber(S, i)
  <2>1. i \in Int /\ j \in Int
    BY VisitsAre
  <2>2. CASE i <= j
    <3>1. Chained(S, i, j) <=> Person(i) = Person(j) /\ Follows(S, Person(i), visits[i].ts, visits[j].ts)
      BY <2>2, ChainedIs
    <3>2. Person(i) = Person(j) =>
            (Follows(S, Person(i), visits[i].ts, visits[j].ts) <=> SessionNumber(S, i) = SessionNumber(S, j))
      BY <2>2, FollowsIs, NumbersAre
    <3> QED BY <3>1, <3>2
  <2>3. CASE j <= i
    <3>1. Chained(S, i, j) <=> Person(j) = Person(i) /\ Follows(S, Person(j), visits[j].ts, visits[i].ts)
      BY <2>3, ChainedIs
    <3>2. Person(j) = Person(i) =>
            (Follows(S, Person(j), visits[j].ts, visits[i].ts) <=> SessionNumber(S, j) = SessionNumber(S, i))
      BY <2>3, FollowsIs, NumbersAre
    <3> QED BY <3>1, <3>2
  <2> QED BY <2>1, <2>2, <2>3
<1>2. \A i \in S : {j \in S : Chained(S, i, j)}
                     = {j \in S : Person(j) = Person(i) /\ SessionNumber(S, j) = SessionNumber(S, i)}
  BY <1>1
<1> QED BY <1>2 DEF ByGaps

-----------------------------------------------------------------------------
(* Which sessions count.                                                    *)

\* Without pageviews no session by gaps counts.
LEMMA NoneCounted ==
    ASSUME NEW S, Views(S) = {}
    PROVE  Counted(ByGaps(S)) = {}
<1> SUFFICES ASSUME NEW s \in Counted(ByGaps(S)) PROVE FALSE
  OBVIOUS
<1>1. s \in ByGaps(S) /\ Views(s) # {}
  BY DEF Counted
<1>2. s \subseteq S
  BY <1>1 DEF ByGaps
<1> QED BY <1>1, <1>2 DEF Views

\* The sessions of a part, as defined.
SessionsOf(S) == Counted(WithId(S)) \cup DefinedSessions(Sessionless(S))

\* Both plans find them.
LEMMA SessionsAgree ==
    ASSUME WebInv, NEW p, PlanOK(p), NEW n \in {0, 1}
    PROVE  /\ session_ctes(p, rows(p, Low(p)), n) = SessionsOf(PartOf(p, n))
           /\ FastSessions(p, rows(p, Low(p)), n) = SessionsOf(PartOf(p, n))
<1> DEFINE R == rows(p, Low(p))
           S == PartOf(p, n)
           L == Sessionless(S)
           less == Views(Sessionless(R)) # {}
<1>1. OfPeriod(p, R, n) = S /\ S \subseteq R /\ S \subseteq DOMAIN visits
  <2>1. OfPeriod(p, R, n) = S
    BY PartIs
  <2>2. OfPeriod(p, R, n) \subseteq R
    BY DEF OfPeriod
  <2> HIDE DEF R, S
  <2>3. S \subseteq DOMAIN visits
    BY PartsAre DEF S
  <2> QED BY <2>1, <2>2, <2>3
<1> HIDE DEF R, S
<1>2. L \subseteq DOMAIN visits /\ Views(L) \subseteq Views(Sessionless(R))
  BY <1>1 DEF Sessionless, Views
<1>3. Counted(ByGaps(L)) = DefinedSessions(L)
  <2> HIDE DEF L
  <2>1. ByGaps(L) = {{j \in L : Chained(L, i, j)} : i \in L}
    BY <1>2, GapsAgree
  <2> HIDE DEF Chained, ByGaps
  <2> QED BY <2>1 DEF DefinedSessions
<1>4. session_ctes(p, R, n) = Counted(WithId(S) \cup ByGaps(L))
  BY <1>1 DEF session_ctes, tagged
<1>5. FastSessions(p, R, n) = Counted(WithId(S)) \cup (IF less THEN Counted(ByGaps(L)) ELSE {})
  BY <1>1 DEF FastSessions
<1>6. ~less => Counted(ByGaps(L)) = {}
  <2> HIDE DEF L
  <2> QED BY <1>2, NoneCounted
<1>7. \A G, H : Counted(G \cup H) = Counted(G) \cup Counted(H)
  BY DEF Counted
<1> HIDE DEF L, less
<1>8. SessionsOf(S) = Counted(WithId(S)) \cup DefinedSessions(L)
  BY DEF SessionsOf, L
<1>9. session_ctes(p, R, n) = SessionsOf(S)
  BY <1>3, <1>4, <1>7, <1>8
<1>10. FastSessions(p, R, n) = SessionsOf(S)
  BY <1>3, <1>5, <1>6, <1>8
<1> QED BY <1>9, <1>10 DEF R, S

\* A session is visits of the part, no visit is in two, and every pageview is in one.
LEMMA SessionsPart ==
    ASSUME WebInv, NEW S, S \subseteq DOMAIN visits
    PROVE  /\ \A s \in SessionsOf(S) : s \subseteq S /\ Views(s) # {}
           /\ \A s, u \in SessionsOf(S) : s \cap u # {} => s = u
           /\ UNION {Views(s) : s \in SessionsOf(S)} = Views(S)
<1> DEFINE L == Sessionless(S)
           A == WithId(S)
           B == ByGaps(L)
           session(i) == visits[i].session
           number(i) == SessionNumber(L, i)
           cls(i) == {j \in L : Person(j) = Person(i) /\ number(j) = number(i)}
<1>1. SessionsOf(S) = Counted(A \cup B)
  <2>1. L \subseteq DOMAIN visits
    BY DEF Sessionless
  <2> HIDE DEF L
  <2>2. B = {{j \in L : Chained(L, i, j)} : i \in L}
    BY <2>1, GapsAgree
  <2>3. DefinedSessions(L) = Counted(B)
    <3> HIDE DEF Chained, B
    <3> QED BY <2>2 DEF DefinedSessions
  <2> HIDE DEF A, B
  <2> QED BY <2>3 DEF SessionsOf, Counted, L, A
<1>2. L = {i \in S : session(i) = Missing}
  BY DEF Sessionless
<1> HIDE DEF L
<1>3. \A s : s \in A <=> \E i \in S : session(i) # Missing /\ s = {j \in S : session(j) = session(i)}
  <2> SUFFICES ASSUME NEW s
               PROVE  s \in A <=> \E i \in S : session(i) # Missing /\ s = {j \in S : session(j) = session(i)}
    OBVIOUS
  <2> DEFINE sid(x) == {j \in S : visits[j].session = x}
             I == {visits[i].session : i \in S}
  <2>1. s \in A <=> \E x \in I : x # Missing /\ s = sid(x)
    BY DEF WithId
  <2> HIDE DEF sid
  <2>2. (\E x \in I : x # Missing /\ s = sid(x)) <=> \E i \in S : session(i) # Missing /\ s = sid(session(i))
    OBVIOUS
  <2> QED BY <2>1, <2>2 DEF sid
<1>4. \A s : s \in B <=> \E i \in L : s = cls(i)
  BY DEF ByGaps
<1> HIDE DEF A, B, number
<1>5. \A s : s \in SessionsOf(S) <=> (s \in A \/ s \in B) /\ Views(s) # {}
  BY <1>1 DEF Counted
<1>6. \A s \in A : s \subseteq S /\ \A i \in s : session(i) # Missing /\ s = {j \in S : session(j) = session(i)}
  <2> SUFFICES ASSUME NEW s \in A
               PROVE  s \subseteq S /\ \A i \in s : session(i) # Missing /\ s = {j \in S : session(j) = session(i)}
    OBVIOUS
  <2>1. PICK k \in S : session(k) # Missing /\ s = {j \in S : session(j) = session(k)}
    BY <1>3
  <2> QED BY <2>1
<1>7. \A s \in B : s \subseteq S /\ \A i \in s : session(i) = Missing /\ i \in L /\ s = cls(i)
  <2> SUFFICES ASSUME NEW s \in B PROVE s \subseteq S /\ \A i \in s : session(i) = Missing /\ i \in L /\ s = cls(i)
    OBVIOUS
  <2>1. PICK k \in L : s = cls(k)
    BY <1>4
  <2>2. s \subseteq S
    BY <1>2, <2>1
  <2>3. ASSUME NEW i \in s PROVE session(i) = Missing /\ i \in L /\ s = cls(i)
    <3>1. i \in L /\ Person(i) = Person(k) /\ number(i) = number(k)
      BY <2>1
    <3> QED BY <1>2, <2>1, <3>1
  <2> QED BY <2>2, <2>3
<1> HIDE DEF cls
<1>8. \A s \in SessionsOf(S) : s \subseteq S /\ Views(s) # {}
  BY <1>5, <1>6, <1>7
<1>9. ASSUME NEW s \in SessionsOf(S), NEW u \in SessionsOf(S), NEW i \in s \cap u PROVE s = u
  <2>1. (s \in A \/ s \in B) /\ (u \in A \/ u \in B) /\ i \in s /\ i \in u
    BY <1>5, <1>9
  <2>2. CASE s \in A /\ u \in A
    <3>1. s = {j \in S : session(j) = session(i)} /\ u = {j \in S : session(j) = session(i)}
      BY <1>6, <2>1, <2>2
    <3> QED BY <3>1
  <2>3. CASE s \in B /\ u \in B
    <3>1. s = cls(i) /\ u = cls(i)
      BY <1>7, <2>1, <2>3
    <3> QED BY <3>1
  <2>4. s \in A => session(i) # Missing
    BY <1>6, <2>1
  <2>5. u \in A => session(i) # Missing
    BY <1>6, <2>1
  <2>6. s \in B => session(i) = Missing
    BY <1>7, <2>1
  <2>7. u \in B => session(i) = Missing
    BY <1>7, <2>1
  <2> HIDE DEF session
  <2> QED BY <2>1, <2>2, <2>3, <2>4, <2>5, <2>6, <2>7
<1>10. \A i \in S : \E s \in A \cup B : i \in s
  <2> SUFFICES ASSUME NEW i \in S PROVE \E s \in A \cup B : i \in s
    OBVIOUS
  <2>1. CASE session(i) = Missing
    <3>1. i \in L /\ i \in cls(i)
      BY <1>2, <2>1 DEF cls
    <3> QED BY <1>4, <3>1
  <2>2. CASE session(i) # Missing
    <3> DEFINE s == {j \in S : session(j) = session(i)}
    <3>1. i \in s /\ s \in A
      BY <1>3, <2>2
    <3> QED BY <3>1
  <2> QED BY <2>1, <2>2
<1>11. \A s : Views(s) = {i \in s : visits[i].event = "$pageview"}
  BY DEF Views
<1>12. \A i \in Views(S) : \E s \in SessionsOf(S) : i \in Views(s)
  <2> SUFFICES ASSUME NEW i \in Views(S) PROVE \E s \in SessionsOf(S) : i \in Views(s)
    OBVIOUS
  <2>1. i \in S /\ visits[i].event = "$pageview"
    BY <1>11
  <2>2. PICK s \in A \cup B : i \in s
    BY <1>10, <2>1
  <2>3. i \in Views(s)
    BY <1>11, <2>1, <2>2
  <2> QED BY <1>5, <2>2, <2>3
<1>13. \A s \in SessionsOf(S) : Views(s) \subseteq Views(S)
  BY <1>8, <1>11
<1>14. UNION {Views(s) : s \in SessionsOf(S)} = Views(S)
  <2> HIDE DEF Views
  <2> QED BY <1>12, <1>13
<1> QED BY <1>8, <1>9, <1>14

-----------------------------------------------------------------------------
(* Sums over sets.                                                          *)

OneOf(s) == CHOOSE x \in s : TRUE

\* Each part is finite, counted, and apart from the others.
CountedParts(S, v, P) ==
    /\ IsFiniteSet(S) /\ \A x \in S : IsFiniteSet(P[x]) /\ v[x] = Cardinality(P[x])
    /\ \A x, y \in S : P[x] \cap P[y] # {} => x = y

Together(P, s) == UNION {P[x] : x \in s}

\* One part more.
LEMMA OnePart ==
    ASSUME NEW S, NEW v, NEW P, CountedParts(S, v, P), NEW s \in SUBSET S, NEW x \in s
    PROVE  /\ IsFiniteSet(Together(P, s)) /\ Cardinality(Together(P, s)) \in Nat /\ v[x] \in Nat
           /\ Cardinality(Together(P, s \ {x})) \in Nat
           /\ Cardinality(Together(P, s)) = v[x] + Cardinality(Together(P, s \ {x}))
<1> DEFINE A == Together(P, s)
           B == Together(P, s \ {x})
           C == P[x]
<1>0. IsFiniteSet(S) /\ \A y \in S : IsFiniteSet(P[y]) /\ v[y] = Cardinality(P[y])
  BY DEF CountedParts
<1>1. \A t \in SUBSET S : IsFiniteSet(Together(P, t))
  <2> SUFFICES ASSUME NEW t \in SUBSET S PROVE IsFiniteSet(Together(P, t))
    OBVIOUS
  <2> DEFINE T == {P[y] : y \in t}
             h == [y \in t |-> P[y]]
  <2>1. IsFiniteSet(t)
    BY <1>0, FS_Subset
  <2>2. h \in Surjection(t, T)
    BY DEF Surjection
  <2>3. IsFiniteSet(T)
    <3> HIDE DEF h, T
    <3> QED BY <2>1, <2>2, FS_Surjection
  <2>4. \A c \in T : IsFiniteSet(c)
    BY <1>0
  <2> HIDE DEF T
  <2> QED BY <2>3, <2>4, FS_UNION DEF Together, T
<1>2. IsFiniteSet(A) /\ IsFiniteSet(B) /\ IsFiniteSet(C) /\ v[x] = Cardinality(C)
  <2>1. s \ {x} \in SUBSET S /\ x \in S
    OBVIOUS
  <2> QED BY <1>0, <1>1, <2>1
<1>3. A = B \cup C
  BY DEF Together
<1>4. B \cap C = {}
  BY DEF Together, CountedParts
<1> HIDE DEF A, B, C
<1>5. /\ Cardinality(B \cup C) = Cardinality(B) + Cardinality(C) - Cardinality(B \cap C)
      /\ Cardinality(B) \in Nat /\ Cardinality(C) \in Nat
  BY <1>2, FS_Union, FS_CardinalityType
<1>6. Cardinality(B \cap C) = 0
  BY <1>4, FS_EmptySet
<1>7. Cardinality(A) = Cardinality(C) + Cardinality(B)
  BY <1>3, <1>5, <1>6
<1> QED BY <1>2, <1>5, <1>7 DEF A, B

\* What a sum over S computes, subset by subset.
Adds(f, S, v) == \A s \in SUBSET S : f[s] = IF s = {} THEN 0 ELSE v[OneOf(s)] + f[s \ {OneOf(s)}]

\* It counts the parts together.
LEMMA AddsUp ==
    ASSUME NEW S, NEW v, NEW P, CountedParts(S, v, P), NEW f, Adds(f, S, v)
    PROVE  f[S] = Cardinality(Together(P, S))
<1> DEFINE T == {s \in SUBSET S : f[s] # Cardinality(Together(P, s))}
<1>1. T = {}
  <2> SUFFICES ASSUME T # {} PROVE FALSE
    OBVIOUS
  <2>1. PICK s \in T : \A x \in s : s \ {x} \notin T
    <3>1. T \subseteq SUBSET S /\ IsFiniteSet(S)
      BY DEF CountedParts
    <3> HIDE DEF T
    <3> QED BY <3>1, SmallestSubset
  <2>2. s \in SUBSET S /\ f[s] # Cardinality(Together(P, s))
    OBVIOUS
  <2>3. CASE s = {}
    <3>1. Together(P, s) = {}
      BY <2>3 DEF Together
    <3>2. Cardinality({}) = 0
      BY FS_EmptySet
    <3> QED BY <2>2, <2>3, <3>1, <3>2 DEF Adds
  <2>4. CASE s # {}
    <3> DEFINE x == OneOf(s)
    <3>1. x \in s
      BY <2>4 DEF OneOf
    <3>2. f[s] = v[x] + f[s \ {x}]
      BY <2>2, <2>4 DEF Adds
    <3> HIDE DEF x
    <3>3. f[s \ {x}] = Cardinality(Together(P, s \ {x}))
      BY <2>1, <2>2, <3>1
    <3>4. Cardinality(Together(P, s)) = v[x] + Cardinality(Together(P, s \ {x}))
      <4> HIDE DEF T
      <4> QED BY <2>2, <3>1, OnePart
    <3> HIDE DEF T
    <3> QED BY <2>2, <3>2, <3>3, <3>4
  <2> QED BY <2>3, <2>4
<1>2. S \in SUBSET S
  OBVIOUS
<1> QED BY <1>1, <1>2

\* The sum of a function over a set.
LEMMA MappedSum ==
    ASSUME NEW S, NEW v, NEW P, CountedParts(S, v, P)
    PROVE  MapThenSumSet(LAMBDA s : v[s], S) = Cardinality(Together(P, S))
<1> DEFINE Row(f, s) == IF s = {} THEN 0 ELSE v[OneOf(s)] + f[s \ {OneOf(s)}]
           Is(f) == f = [s \in SUBSET S |-> Row(f, s)]
           f == CHOOSE f : Is(f)
           g == [s \in SUBSET S |-> Cardinality(Together(P, s))]
<1>1. MapThenSumSet(LAMBDA s : v[s], S) = f[S]
  BY DEF MapThenSumSet, MapThenFoldSet, OneOf
<1>2. ASSUME NEW s \in SUBSET S PROVE g[s] = Row(g, s)
  <2>1. CASE s = {}
    <3>1. Together(P, s) = {}
      BY <2>1 DEF Together
    <3>2. Cardinality({}) = 0
      BY FS_EmptySet
    <3> QED BY <2>1, <3>1, <3>2
  <2>2. CASE s # {}
    <3>1. OneOf(s) \in s /\ s \ {OneOf(s)} \in SUBSET S
      BY <2>2 DEF OneOf
    <3>2. Cardinality(Together(P, s)) = v[OneOf(s)] + Cardinality(Together(P, s \ {OneOf(s)}))
      BY <3>1, OnePart
    <3> QED BY <2>2, <3>1, <3>2
  <2> QED BY <2>1, <2>2
<1>3. Is(g)
  <2>1. g = [s \in SUBSET S |-> g[s]]
    OBVIOUS
  <2> HIDE DEF g, Row
  <2> QED BY <1>2, <2>1
<1>4. Is(f)
  <2> HIDE DEF Is
  <2> QED BY <1>3
<1>5. \A s \in SUBSET S : f[s] = Row(f, s)
  <2> HIDE DEF Row, f
  <2> QED BY <1>4
<1> HIDE DEF f
<1>6. Adds(f, S, v)
  BY <1>5 DEF Adds
<1> HIDE DEF Row
<1>7. f[S] = Cardinality(Together(P, S))
  BY <1>6, AddsUp
<1> QED BY <1>1, <1>7

\* The views of some rows together.
LEMMA TotalIs ==
    ASSUME NEW S, NEW P, CountedParts(S, [r \in S |-> r.views], P)
    PROVE  Total(S) = Cardinality(Together(P, S))
<1> DEFINE v == [r \in S |-> r.views]
           Row(f, s) == IF s = {} THEN 0 ELSE f[s \ {OneOf(s)}] + OneOf(s).views
           Is(f) == f = [s \in SUBSET S |-> Row(f, s)]
           f == CHOOSE f : Is(f)
           g == [s \in SUBSET S |-> Cardinality(Together(P, s))]
<1>1. Total(S) = f[S]
  BY DEF Total, FoldSet, MapThenFoldSet, OneOf
<1>2. ASSUME NEW s \in SUBSET S PROVE g[s] = Row(g, s)
  <2>1. CASE s = {}
    <3>1. Together(P, s) = {}
      BY <2>1 DEF Together
    <3>2. Cardinality({}) = 0
      BY FS_EmptySet
    <3> QED BY <2>1, <3>1, <3>2
  <2>2. CASE s # {}
    <3> DEFINE x == OneOf(s)
               a == Cardinality(Together(P, s \ {x}))
    <3>1. x \in s /\ s \ {x} \in SUBSET S
      BY <2>2 DEF OneOf
    <3> HIDE DEF x
    <3>2. v[x] = x.views
      BY <3>1
    <3>3. Cardinality(Together(P, s)) = v[x] + a
      BY <3>1, OnePart
    <3>4. v[x] \in Nat
      BY <3>1, OnePart
    <3>5. a \in Nat
      BY <3>1, OnePart
    <3> HIDE DEF a, v
    <3>6. Cardinality(Together(P, s)) = a + x.views
      BY <3>2, <3>3, <3>4, <3>5
    <3> QED BY <2>2, <3>1, <3>6 DEF a, x
  <2> QED BY <2>1, <2>2
<1>3. Is(g)
  <2>1. g = [s \in SUBSET S |-> g[s]]
    OBVIOUS
  <2> HIDE DEF g, Row
  <2> QED BY <1>2, <2>1
<1>4. Is(f)
  <2> HIDE DEF Is
  <2> QED BY <1>3
<1>5. \A s \in SUBSET S : f[s] = Row(f, s)
  <2> HIDE DEF Row, f
  <2> QED BY <1>4
<1>6. f[S] = Cardinality(Together(P, S))
  <2> DEFINE T == {s \in SUBSET S : f[s] # Cardinality(Together(P, s))}
  <2> SUFFICES ASSUME T # {} PROVE FALSE
    <3> HIDE DEF f
    <3> QED OBVIOUS
  <2>1. PICK s \in T : \A x \in s : s \ {x} \notin T
    <3>1. T \subseteq SUBSET S /\ IsFiniteSet(S)
      BY DEF CountedParts
    <3> HIDE DEF T
    <3> QED BY <3>1, SmallestSubset
  <2>2. s \in SUBSET S /\ f[s] # Cardinality(Together(P, s))
    OBVIOUS
  <2> HIDE DEF f
  <2>3. f[s] = Row(f, s) /\ g[s] = Row(g, s)
    <3> HIDE DEF Row, g
    <3> QED BY <1>2, <1>5, <2>2
  <2>4. s # {} => OneOf(s) \in s
    BY DEF OneOf
  <2>5. s # {} => f[s \ {OneOf(s)}] = g[s \ {OneOf(s)}]
    BY <2>1, <2>2, <2>4
  <2>6. Row(f, s) = Row(g, s)
    <3> HIDE DEF g, T
    <3> QED BY <2>5
  <2> HIDE DEF Row, T
  <2> QED BY <2>2, <2>3, <2>6
<1> HIDE DEF f
<1> QED BY <1>1, <1>6

-----------------------------------------------------------------------------
(* The breakdowns.                                                          *)

\* What f gives for a finite set is finite.
LEMMA ImageFinite ==
    ASSUME NEW S, IsFiniteSet(S), NEW f, NEW T, T \subseteq {f[x] : x \in S}
    PROVE  IsFiniteSet(T)
<1> DEFINE I == {f[x] : x \in S}
           h == [x \in S |-> f[x]]
<1>1. h \in Surjection(S, I)
  BY DEF Surjection
<1> HIDE DEF h, I
<1>2. IsFiniteSet(I)
  BY <1>1, FS_Surjection
<1> QED BY <1>2, FS_Subset DEF I

\* Rows that tell apart their values, each with the views of its value, show the views of all values.
LEMMA RowsTotal ==
    ASSUME NEW T, IsFiniteSet(T), NEW Q, \A r, o \in T : r.value = o.value => r = o,
           \A r \in T : IsFiniteSet(Q[r.value]) /\ r.views = Cardinality(Q[r.value]),
           \A r, o \in T : Q[r.value] \cap Q[o.value] # {} => r.value = o.value
    PROVE  Total(T) = Cardinality(UNION {Q[r.value] : r \in T})
<1> DEFINE P == [r \in T |-> Q[r.value]]
           v == [r \in T |-> r.views]
<1>1. CountedParts(T, v, P)
  BY DEF CountedParts
<1>2. Total(T) = Cardinality(Together(P, T))
  <2> HIDE DEF P
  <2> QED BY <1>1, TotalIs
<1>3. Together(P, T) = UNION {Q[r.value] : r \in T}
  BY DEF Together
<1> HIDE DEF P
<1> QED BY <1>2, <1>3

\* Every pageview is in the row of one page.
LEMMA PagesTotal ==
    ASSUME WebInv, NEW S, S \subseteq DOMAIN visits
    PROVE  Total(PageRows(S)) = Cardinality(Views(S))
<1> DEFINE V == Views(S)
           col(i) == visits[i].col
           at(c) == {i \in V : col(i) = c}
           row(c) == [value |-> c, views |-> Cardinality(at(c)), visitors |-> Cardinality(Persons(at(c)))]
           C == {col(i) : i \in V}
           T == PageRows(S)
           Q == [c \in C |-> at(c)]
<1>1. V \in SUBSET DOMAIN visits
  BY DEF Views
<1>2. IsFiniteSet(V)
  <2> HIDE DEF V
  <2> QED BY <1>1, VisitsAre, FS_Subset
<1>3. T = {row(c) : c \in C}
  BY DEF PageRows
<1> HIDE DEF T, V
<1>4. IsFiniteSet(C)
  <2> DEFINE f == [i \in V |-> col(i)]
  <2>1. C \subseteq {f[i] : i \in V}
    OBVIOUS
  <2> HIDE DEF f, C
  <2> QED BY <1>2, <2>1, ImageFinite
<1>5. IsFiniteSet(T)
  <2> DEFINE f == [c \in C |-> row(c)]
  <2>1. T \subseteq {f[c] : c \in C}
    <3> HIDE DEF C, row
    <3> QED BY <1>3
  <2> HIDE DEF f, C
  <2> QED BY <1>4, <2>1, ImageFinite
<1>6. \A r \in T : r.value \in C /\ r = row(r.value) /\ r.views = Cardinality(at(r.value))
  <2> HIDE DEF C, at
  <2> QED BY <1>3
<1>7. \A c \in C : IsFiniteSet(at(c)) /\ Q[c] = at(c)
  <2> SUFFICES ASSUME NEW c \in C PROVE IsFiniteSet(at(c)) /\ Q[c] = at(c)
    OBVIOUS
  <2>1. at(c) \in SUBSET V
    OBVIOUS
  <2> HIDE DEF at, C
  <2> QED BY <1>2, <2>1, FS_Subset
<1>8. \A c \in C : row(c) \in T /\ row(c).value = c
  <2> HIDE DEF C, at
  <2> QED BY <1>3
<1>9. UNION {Q[r.value] : r \in T} = V
  <2>1. \A r \in T : Q[r.value] \subseteq V
    BY <1>6, <1>7
  <2>2. \A i \in V : \E r \in T : i \in Q[r.value]
    <3> SUFFICES ASSUME NEW i \in V PROVE \E r \in T : i \in Q[r.value]
      OBVIOUS
    <3>1. col(i) \in C /\ i \in at(col(i))
      OBVIOUS
    <3> HIDE DEF C, at, Q, row
    <3>2. i \in Q[row(col(i)).value] /\ row(col(i)) \in T
      BY <1>7, <1>8, <3>1
    <3> QED BY <3>2
  <2> HIDE DEF Q, at, C
  <2> QED BY <2>1, <2>2
<1>10. \A c, d \in C : Q[c] \cap Q[d] # {} => c = d
  BY <1>7
<1> HIDE DEF Q, C, row, at
<1>11. \A r, o \in T : r.value = o.value => r = o
  BY <1>6
<1>12. \A r \in T : IsFiniteSet(Q[r.value]) /\ r.views = Cardinality(Q[r.value])
  BY <1>6, <1>7
<1>13. \A r, o \in T : Q[r.value] \cap Q[o.value] # {} => r.value = o.value
  BY <1>6, <1>10
<1>14. Total(T) = Cardinality(UNION {Q[r.value] : r \in T})
  BY <1>5, <1>11, <1>12, <1>13, RowsTotal
<1> QED BY <1>9, <1>14 DEF T, V

\* Every session is in the row of one value.
LEMMA SessionRowsTotal ==
    ASSUME NEW G, NEW views, NEW P, CountedParts(G, views, P), NEW value, DOMAIN value = G
    PROVE  Total(SessionRows(value, views)) = Cardinality(Together(P, G))
<1> DEFINE of(c) == {s \in G : value[s] = c}
           row(c) == [value |-> c, views |-> MapThenSumSet(LAMBDA s : views[s], of(c)),
                      visitors |-> Cardinality({Person(Min(Views(s))) : s \in of(c)})]
           C == {value[s] : s \in G}
           T == SessionRows(value, views)
           Q == [c \in C |-> Together(P, of(c))]
<1>1. IsFiniteSet(G) /\ \A x, y \in G : P[x] \cap P[y] # {} => x = y
  BY DEF CountedParts
<1>2. T = {row(c) : c \in C}
  BY DEF SessionRows
<1> HIDE DEF T
<1>3. IsFiniteSet(C)
  <2>1. C \subseteq {value[s] : s \in G}
    OBVIOUS
  <2> HIDE DEF C
  <2> QED BY <1>1, <2>1, ImageFinite
<1>4. IsFiniteSet(T)
  <2> DEFINE f == [c \in C |-> row(c)]
  <2>1. T \subseteq {f[c] : c \in C}
    <3> HIDE DEF C, row
    <3> QED BY <1>2
  <2> HIDE DEF f, C
  <2> QED BY <1>3, <2>1, ImageFinite
<1>5. \A c \in C : CountedParts(of(c), views, P)
  <2> SUFFICES ASSUME NEW c \in C PROVE CountedParts(of(c), views, P)
    OBVIOUS
  <2>1. of(c) \in SUBSET G
    OBVIOUS
  <2> HIDE DEF of
  <2>2. IsFiniteSet(of(c))
    BY <1>1, <2>1, FS_Subset
  <2> QED BY <2>1, <2>2 DEF CountedParts
<1>6. \A c \in C : row(c).value = c /\ row(c).views = Cardinality(Together(P, of(c)))
  <2> SUFFICES ASSUME NEW c \in C PROVE row(c).value = c /\ row(c).views = Cardinality(Together(P, of(c)))
    OBVIOUS
  <2> DEFINE g == of(c)
  <2>1. CountedParts(g, views, P)
    BY <1>5
  <2> HIDE DEF of, C, g
  <2>2. MapThenSumSet(LAMBDA s : views[s], g) = Cardinality(Together(P, g))
    BY <2>1, MappedSum
  <2>3. row(c).value = c /\ row(c).views = MapThenSumSet(LAMBDA s : views[s], g)
    BY DEF g
  <2> QED BY <2>2, <2>3 DEF g
<1>7. \A c \in C : IsFiniteSet(Q[c]) /\ Q[c] = Together(P, of(c))
  <2> SUFFICES ASSUME NEW c \in C PROVE IsFiniteSet(Q[c]) /\ Q[c] = Together(P, of(c))
    OBVIOUS
  <2> DEFINE g == of(c)
  <2>0. Q[c] = Together(P, g)
    OBVIOUS
  <2>1. CountedParts(g, views, P) /\ IsFiniteSet(g)
    BY <1>5 DEF CountedParts
  <2> DEFINE U == {P[s] : s \in g}
             f == [s \in g |-> P[s]]
  <2>2. U \subseteq {f[s] : s \in g}
    <3> HIDE DEF g
    <3> QED OBVIOUS
  <2>3. \A u \in U : IsFiniteSet(u)
    <3> HIDE DEF g
    <3> QED BY <2>1 DEF CountedParts
  <2>4. IsFiniteSet(U)
    <3> HIDE DEF U, f, g
    <3> QED BY <2>1, <2>2, ImageFinite
  <2>5. IsFiniteSet(Together(P, g))
    <3> HIDE DEF g
    <3> HIDE DEF U
    <3> QED BY <2>3, <2>4, FS_UNION DEF Together, U
  <2> HIDE DEF Q, of, C
  <2> QED BY <2>0, <2>5 DEF g
<1> HIDE DEF row
<1>8. \A r \in T : r.value \in C /\ r = row(r.value)
  <2> HIDE DEF C, of
  <2> QED BY <1>2, <1>6
<1>9. \A c \in C : row(c) \in T
  <2> HIDE DEF C
  <2> QED BY <1>2
<1>10. \A c : \A x : x \in Together(P, of(c)) <=> \E s \in G : value[s] = c /\ x \in P[s]
  BY DEF Together
<1>11. \A x : x \in Together(P, G) <=> \E s \in G : x \in P[s]
  BY DEF Together
<1>12. \A s \in G : value[s] \in C
  OBVIOUS
<1> HIDE DEF C, Q, of
<1>13. UNION {Q[r.value] : r \in T} = Together(P, G)
  <2>1. \A r \in T : Q[r.value] \subseteq Together(P, G)
    BY <1>7, <1>8, <1>10, <1>11
  <2>2. \A x \in Together(P, G) : \E r \in T : x \in Q[r.value]
    <3> SUFFICES ASSUME NEW x \in Together(P, G) PROVE \E r \in T : x \in Q[r.value]
      OBVIOUS
    <3>1. PICK s \in G : x \in P[s]
      BY <1>11
    <3>2. value[s] \in C /\ x \in Q[value[s]]
      BY <1>7, <1>10, <1>12, <3>1
    <3>3. row(value[s]) \in T /\ row(value[s]).value = value[s]
      BY <1>6, <1>9, <3>2
    <3> QED BY <3>2, <3>3
  <2> QED BY <2>1, <2>2
<1>14. ASSUME NEW c \in C, NEW d \in C, NEW x \in Q[c] \cap Q[d] PROVE c = d
  <2>1. PICK s \in G : value[s] = c /\ x \in P[s]
    BY <1>7, <1>10, <1>14
  <2>2. PICK u \in G : value[u] = d /\ x \in P[u]
    BY <1>7, <1>10, <1>14
  <2>3. s = u
    BY <1>1, <2>1, <2>2
  <2> QED BY <2>1, <2>2, <2>3
<1>15. \A r, o \in T : r.value = o.value => r = o
  BY <1>8
<1>16. \A r \in T : IsFiniteSet(Q[r.value]) /\ r.views = Cardinality(Q[r.value])
  BY <1>6, <1>7, <1>8
<1>17. \A r, o \in T : Q[r.value] \cap Q[o.value] # {} => r.value = o.value
  BY <1>8, <1>14
<1>18. Total(T) = Cardinality(UNION {Q[r.value] : r \in T})
  BY <1>4, <1>15, <1>16, <1>17, RowsTotal
<1> QED BY <1>13, <1>18 DEF T

\* The breakdowns of a question add up to the pageviews and the sessions of its range.
LEMMA BreakdownTotals ==
    ASSUME WebInv, NEW q \in WebQueries, ~refused(q)
    PROVE  LET S == PartOf(plan(q, TRUE), 1) IN
           /\ \A d \in {"page", "other"} : Total(breakdown(q, d)) = Cardinality(Views(S))
           /\ \A d \in {"entry_page", "exit_page"} : Total(breakdown(q, d)) = Cardinality(SessionsOf(S))
<1> DEFINE p == plan(q, TRUE)
           o == plan(q, FALSE)
           S == PartOf(p, 1)
           G == SessionsOf(S)
           entries == [s \in G |-> EntryOf(s)]
           exits == [s \in G |-> ExitOf(s)]
           one == [s \in G |-> 1]
           views == [s \in G |-> Cardinality(Views(s))]
<1>1. PlanOK(p) /\ PlanOK(o) /\ o.from = p.from /\ o.to = p.to /\ o.filter = p.filter /\ Low(o) = o.from
  BY PlanIs
<1> HIDE DEF p, o
<1>2. S \subseteq DOMAIN visits /\ rows(o, o.from) = S /\ OfPeriod(o, S, 1) = S
  BY <1>1, PartsAre
<1> HIDE DEF S
<1>3. session_ctes(o, S, 1) = G
  <2>1. session_ctes(o, rows(o, Low(o)), 1) = SessionsOf(PartOf(o, 1))
    BY <1>1, SessionsAgree
  <2>2. OfPeriod(o, rows(o, Low(o)), 1) = PartOf(o, 1)
    BY <1>1, PartIs
  <2>3. PartOf(o, 1) = S
    BY <1>1, <1>2, <2>2
  <2> QED BY <1>1, <1>2, <2>1, <2>3
<1> HIDE DEF G
<1>4. /\ breakdown(q, "page") = PageRows(S)
      /\ breakdown(q, "entry_page") = SessionRows(entries, one)
      /\ breakdown(q, "exit_page") = SessionRows(exits, one)
      /\ breakdown(q, "other") = SessionRows(entries, views)
  BY <1>2, <1>3 DEF breakdown, o
<1>5. /\ \A s \in G : s \subseteq S /\ Views(s) # {}
      /\ \A s, u \in G : s \cap u # {} => s = u
      /\ UNION {Views(s) : s \in G} = Views(S)
  BY <1>2, SessionsPart DEF G
<1>6. IsFiniteSet(S) /\ IsFiniteSet(G)
  <2>1. IsFiniteSet(S)
    BY <1>2, VisitsAre, FS_Subset
  <2>2. IsFiniteSet(SUBSET S)
    BY <2>1, FS_SUBSET
  <2>3. G \in SUBSET SUBSET S
    BY <1>5
  <2> QED BY <2>1, <2>2, <2>3, FS_Subset
<1>7. Total(PageRows(S)) = Cardinality(Views(S))
  BY <1>2, PagesTotal
<1> DEFINE P == [s \in G |-> {s}]
           W == [s \in G |-> Views(s)]
<1>8. CountedParts(G, one, P)
  <2>1. \A s \in G : IsFiniteSet({s}) /\ Cardinality({s}) = 1
    BY FS_Singleton
  <2> QED BY <1>6, <2>1 DEF CountedParts
<1>9. CountedParts(G, views, W)
  <2>1. \A s \in G : Views(s) \in SUBSET S /\ Views(s) \subseteq s
    BY <1>5 DEF Views
  <2>2. \A s \in G : IsFiniteSet(Views(s))
    BY <1>6, <2>1, FS_Subset
  <2>3. \A s, u \in G : Views(s) \cap Views(u) # {} => s = u
    BY <1>5, <2>1
  <2> HIDE DEF Views
  <2> QED BY <1>6, <2>2, <2>3 DEF CountedParts
<1>10. Together(P, G) = G
  BY DEF Together
<1>11. Together(W, G) = Views(S)
  <2>1. Together(W, G) = UNION {Views(s) : s \in G}
    BY DEF Together
  <2> QED BY <1>5, <2>1
<1> HIDE DEF P, W, one, views
<1>12. DOMAIN entries = G /\ DOMAIN exits = G
  OBVIOUS
<1> HIDE DEF entries, exits
<1>13. Total(SessionRows(entries, one)) = Cardinality(G)
  BY <1>8, <1>10, <1>12, SessionRowsTotal
<1>14. Total(SessionRows(exits, one)) = Cardinality(G)
  BY <1>8, <1>10, <1>12, SessionRowsTotal
<1>15. Total(SessionRows(entries, views)) = Cardinality(Views(S))
  BY <1>9, <1>11, <1>12, SessionRowsTotal
<1>16. \A d \in {"page", "other"} : Total(breakdown(q, d)) = Cardinality(Views(S))
  BY <1>4, <1>7, <1>15
<1>17. \A d \in {"entry_page", "exit_page"} : Total(breakdown(q, d)) = Cardinality(G)
  BY <1>4, <1>13, <1>14
<1> QED BY <1>16, <1>17 DEF G, S, p

-----------------------------------------------------------------------------
(* The masks of the overview.                                               *)

\* In buckets of equal length, the index is the rank.
LEMMA IndexIsRank ==
    ASSUME NEW p, PlanOK(p), NEW i \in {"hour", "day", "week"}, NEW t \in Nat, p.from <= t, t < p.to
    PROVE  (t - truncate(p.from, i)) \div Units(i) = RankIn(date_buckets(p.from, p.to, i), truncate(t, i))
<1> DEFINE D == date_buckets(p.from, p.to, i)
           f == p.from
           e == p.to
           u == Units(i)
           a == truncate(f, i)
           b == truncate(t, i)
           K == (t - a) \div u
           B == {c \in D : c < b}
<1>1. f \in Nat /\ e \in Nat /\ f <= t /\ t < e
  BY DEF PlanOK
<1> HIDE DEF f, e
<1>2. D = {c \in a .. e - 1 : truncate(c, i) = c}
  BY DEF date_buckets, f, e
<1>3. u \in {1, 2, 4} /\ \A x \in Nat : truncate(x, i) = x - (x % u)
  <2>1. CASE i = "hour"
    <3>1. u = 1 /\ \A x \in Nat : truncate(x, i) = x
      BY <2>1 DEF truncate, Units
    <3>2. \A x \in Nat : x % 1 = 0
      OBVIOUS
    <3> HIDE DEF u
    <3> QED BY <3>1, <3>2
  <2>2. CASE i = "day"
    BY <2>2 DEF truncate, Units, DayLength
  <2>3. CASE i = "week"
    <3>1. u = 4 /\ \A x \in Nat : truncate(x, i) = x - (x % 4)
      BY <2>3 DEF truncate, Units, DayLength
    <3> HIDE DEF u
    <3> QED BY <3>1
  <2> QED BY <2>1, <2>2, <2>3
<1> HIDE DEF u, D
<1>4. a = f - (f % u) /\ b = t - (t % u)
  BY <1>1, <1>3
<1>5. /\ a \in Nat /\ b \in Nat /\ a <= b /\ b <= t /\ K \in Nat /\ a + u * K = b
      /\ \A k \in 0 .. K - 1 : a + u * k \in Nat /\ a + u * k < b /\ (a + u * k) % u = 0 /\ a <= a + u * k
      /\ \A c \in Nat : c % u = 0 /\ a <= c /\ c < b => \E k \in 0 .. K - 1 : c = a + u * k
  <2> HIDE DEF a, b
  <2>0. a % u = 0 /\ b % u = 0 /\ a \in Nat /\ b \in Nat /\ a <= b /\ b <= t /\ t < b + u
    <3>1. CASE u = 1
      BY <1>1, <1>4, <3>1
    <3>2. CASE u = 2
      BY <1>1, <1>4, <3>2
    <3>3. CASE u = 4
      BY <1>1, <1>4, <3>3
    <3> QED BY <1>3, <3>1, <3>2, <3>3
  <2>1. ASSUME NEW c \in Nat, c % u = 0, a <= c, c < b PROVE \E k \in 0 .. K - 1 : c = a + u * k
    <3> DEFINE k == (c - a) \div u
    <3>1. k \in 0 .. K - 1 /\ c = a + u * k
      <4>1. CASE u = 1
        BY <2>0, <2>1, <4>1
      <4>2. CASE u = 2
        BY <2>0, <2>1, <4>2
      <4>3. CASE u = 4
        BY <2>0, <2>1, <4>3
      <4> QED BY <1>3, <4>1, <4>2, <4>3
    <3> HIDE DEF k
    <3> QED BY <3>1
  <2>2. K \in Nat /\ a + u * K = b
    <3>1. CASE u = 1
      BY <2>0, <3>1
    <3>2. CASE u = 2
      BY <2>0, <3>2
    <3>3. CASE u = 4
      BY <2>0, <3>3
    <3> QED BY <1>3, <3>1, <3>2, <3>3
  <2> HIDE DEF K
  <2>3. ASSUME NEW k \in 0 .. K - 1
        PROVE  a + u * k \in Nat /\ a + u * k < b /\ (a + u * k) % u = 0 /\ a <= a + u * k
    <3>1. CASE u = 1
      BY <2>0, <2>2, <3>1
    <3>2. CASE u = 2
      BY <2>0, <2>2, <3>2
    <3>3. CASE u = 4
      BY <2>0, <2>2, <3>3
    <3> QED BY <1>3, <3>1, <3>2, <3>3
  <2> QED BY <2>0, <2>1, <2>2, <2>3
<1> HIDE DEF a, b, K
<1>6. \A c : c \in B <=> c \in Nat /\ c % u = 0 /\ a <= c /\ c < b
  <2>1. \A c \in Nat : truncate(c, i) = c <=> c % u = 0
    <3> SUFFICES ASSUME NEW c \in Nat PROVE truncate(c, i) = c <=> c % u = 0
      OBVIOUS
    <3>1. truncate(c, i) = c - (c % u) /\ c % u \in Int
      BY <1>3
    <3> QED BY <3>1
  <2>2. \A c : c \in B <=> c \in a .. e - 1 /\ truncate(c, i) = c /\ c < b
    BY <1>2
  <2>3. \A c : c \in a .. e - 1 => c \in Nat /\ a <= c
    BY <1>1, <1>5
  <2>4. \A c \in Nat : a <= c /\ c < b => c \in a .. e - 1
    BY <1>1, <1>5
  <2> HIDE DEF B
  <2> QED BY <2>1, <2>2, <2>3, <2>4
<1> HIDE DEF B
<1>7. Cardinality(B) = K
  <2> DEFINE h == [k \in 0 .. K - 1 |-> a + u * k]
  <2>1. h \in [0 .. K - 1 -> B]
    BY <1>5, <1>6
  <2>2. \A j, k \in 0 .. K - 1 : h[j] = h[k] => j = k
    <3>1. CASE u = 1
      BY <1>5, <3>1
    <3>2. CASE u = 2
      BY <1>5, <3>2
    <3>3. CASE u = 4
      BY <1>5, <3>3
    <3> QED BY <1>3, <3>1, <3>2, <3>3
  <2>3. \A c \in B : \E k \in 0 .. K - 1 : h[k] = c
    BY <1>5, <1>6
  <2> HIDE DEF h
  <2>4. h \in Bijection(0 .. K - 1, B)
    BY <2>1, <2>2, <2>3 DEF Bijection, Injection, IsInjective, Surjection
  <2>5. IsFiniteSet(0 .. K - 1) /\ Cardinality(0 .. K - 1) = K
    <3>1. 0 \in Int /\ K - 1 \in Int
      BY <1>5
    <3>2. IsFiniteSet(0 .. K - 1) /\ Cardinality(0 .. K - 1) = IF 0 > K - 1 THEN 0 ELSE (K - 1) - 0 + 1
      BY <3>1, FS_Interval
    <3> QED BY <1>5, <3>2
  <2> QED BY <2>4, <2>5, FS_Bijection DEF ExistsBijection
<1>8. RankIn(D, b) = Cardinality(B)
  BY DEF RankIn, B
<1> QED BY <1>7, <1>8 DEF K, D, b, a, u, f, e

\* Where a bucket's bit is.
LEMMA WordsHold ==
    ASSUME NEW n \in Nat, NEW k \in 0 .. n - 1
    PROVE  /\ Words(n) \in Nat /\ k \div MaskBits \in 0 .. Words(n) - 1 /\ k % MaskBits \in Int
           /\ (k \div MaskBits) * MaskBits \in Int /\ (k \div MaskBits + 1) * MaskBits \in Int
           /\ (k \div MaskBits) * MaskBits <= k /\ k < (k \div MaskBits + 1) * MaskBits
           /\ k % MaskBits = k - (k \div MaskBits) * MaskBits
<1> DEFINE m == MaskBits
           d == k \div m
           r == k % m
<1>1. m \in Nat \ {0}
  BY WebAssumption
<1> HIDE DEF m
<1>2. n \in Nat \ {0} /\ k \in Nat /\ k < n
  OBVIOUS
<1>3. d \in Nat /\ r \in Nat /\ r < m /\ k = d * m + r
  BY <1>1, <1>2
<1>4. Words(n) = (n + m - 1) \div m
  BY <1>2 DEF Words, m
<1>5. d <= Words(n) - 1 /\ Words(n) \in Nat
  <2> DEFINE w == (n + m - 1) \div m
             x == (n + m - 1) % m
  <2>1. w \in Int /\ x \in Int /\ x < m /\ n + m - 1 = w * m + x
    BY <1>1, <1>2
  <2> HIDE DEF w, x, d, r
  <2>2. d * m < w * m
    <3>1. d * m \in Int /\ w * m \in Int
      BY <1>1, <1>3, <2>1
    <3> DEFINE y == d * m
               z == w * m
    <3> HIDE DEF y, z
    <3>2. y \in Int /\ z \in Int /\ k = y + r /\ n + m - 1 = z + x
      BY <1>3, <2>1, <3>1 DEF y, z
    <3>3. y < z
      BY <1>1, <1>2, <1>3, <2>1, <3>2
    <3> QED BY <3>3 DEF y, z
  <2>3. d < w
    <3> SUFFICES ASSUME w <= d PROVE FALSE
      BY <1>3, <2>1
    <3>1. w * m <= d * m
      BY <1>1, <1>3, <2>1
    <3> QED BY <1>1, <1>3, <2>1, <2>2, <3>1
  <2> QED BY <1>3, <1>4, <2>1, <2>3 DEF w
<1>6. d * m \in Int /\ (d + 1) * m \in Int /\ (d + 1) * m = d * m + m
  <2> HIDE DEF d
  <2> QED BY <1>1, <1>3
<1> HIDE DEF d, r
<1>7. d * m <= k /\ k < (d + 1) * m /\ r = k - d * m
  <2> DEFINE y == d * m
             z == (d + 1) * m
  <2>1. y \in Int /\ z \in Int /\ z = y + m /\ k = y + r
    BY <1>3, <1>6
  <2> HIDE DEF y, z
  <2>2. y <= k /\ k < z /\ r = k - y
    BY <1>1, <1>2, <1>3, <2>1
  <2> QED BY <2>2 DEF y, z
<1> QED BY <1>3, <1>5, <1>6, <1>7 DEF d, r, m

\* What the fold of R keeps of each person: the previous flag, and a bit of each bucket.
FoldKeeps(p, i, R, n) ==
    LET who == Folded(p, i, R, Words(n)) IN
    /\ {h \in DOMAIN who : who[h].prev} = Persons({j \in R : BucketIndex(p, i, j) < 0})
    /\ {h \in DOMAIN who : \E w \in 0 .. Words(n) - 1 : who[h].mask[w] # {}}
         = Persons({j \in R : BucketIndex(p, i, j) >= 0})
    /\ \A k \in 0 .. n - 1 : {h \in DOMAIN who : (k % MaskBits) \in who[h].mask[k \div MaskBits]}
                               = Persons({j \in R : BucketIndex(p, i, j) = k})

\* The bits of a person are the buckets of their pageviews.
LEMMA FoldedIs ==
    ASSUME WebInv, NEW p, NEW i, NEW R, R \subseteq DOMAIN visits, NEW n \in Nat,
           \A j \in R : BucketIndex(p, i, j) = -1 \/ BucketIndex(p, i, j) \in 0 .. n - 1
    PROVE  FoldKeeps(p, i, R, n)
<1> DEFINE who == Folded(p, i, R, Words(n))
           m == MaskBits
           N == 0 .. Words(n) - 1
           bi(j) == BucketIndex(p, i, j)
           ids(h) == {visits[x].id : x \in {y \in R : Person(y) = h}}
           of(d) == {y \in R : visits[y].id = d}
           wordOf(d, w) == {k - w * m : k \in {x \in {bi(y) : y \in of(d)} : x >= w * m /\ x < (w + 1) * m}}
           theirs(h) == {y \in R : Person(y) = h}
<1>1. DOMAIN who = Persons(R)
  BY DEF Folded
<1>2. \A h \in Persons(R) : \A w \in N : who[h].mask[w] = UNION {wordOf(d, w) : d \in ids(h)}
  <2> SUFFICES ASSUME NEW h \in Persons(R), NEW w \in N
               PROVE  who[h].mask[w] = UNION {wordOf(d, w) : d \in ids(h)}
    OBVIOUS
  <2> HIDE DEF N
  <2>1. who[h].mask = [v \in N |-> UNION {Mask(p, i, of(d), Words(n))[v] : d \in ids(h)}]
    BY DEF Folded, N
  <2>2. \A d : Mask(p, i, of(d), Words(n))[w] = wordOf(d, w)
    BY DEF Mask, N
  <2> HIDE DEF wordOf, ids, of, who
  <2> QED BY <2>1, <2>2
<1>3. \A h \in Persons(R) : who[h].prev <=> \E d \in ids(h) : \E y \in of(d) : bi(y) < 0
  <2> HIDE DEF bi
  <2> QED BY DEF Folded, bi
<1>4. \A h, y : y \in theirs(h) <=> \E d \in ids(h) : y \in of(d)
  <2> SUFFICES ASSUME NEW h, NEW y PROVE y \in theirs(h) <=> \E d \in ids(h) : y \in of(d)
    OBVIOUS
  <2>1. ASSUME y \in theirs(h) PROVE \E d \in ids(h) : y \in of(d)
    BY <2>1
  <2>2. ASSUME NEW d \in ids(h), y \in of(d) PROVE y \in theirs(h)
    <3>1. PICK x \in R : Person(x) = h /\ visits[x].id = d
      OBVIOUS
    <3>2. Person(y) = Person(x) /\ y \in R
      BY <2>2, <3>1 DEF Person
    <3> QED BY <3>1, <3>2
  <2> QED BY <2>1, <2>2
<1> HIDE DEF bi, of, ids, who, N
<1>5. \A h : h \in Persons(R) <=> \E y \in R : Person(y) = h
  BY DEF Persons
<1>6. \A h \in Persons(R) : \A w \in N : \A b :
          b \in who[h].mask[w] <=> \E y \in theirs(h) : bi(y) >= w * m /\ bi(y) < (w + 1) * m /\ b = bi(y) - w * m
  <2> SUFFICES ASSUME NEW h \in Persons(R), NEW w \in N, NEW b
               PROVE  b \in who[h].mask[w]
                        <=> \E y \in theirs(h) : bi(y) >= w * m /\ bi(y) < (w + 1) * m /\ b = bi(y) - w * m
    OBVIOUS
  <2> DEFINE Test(y) == bi(y) >= w * m /\ bi(y) < (w + 1) * m /\ b = bi(y) - w * m
  <2>1. \A d : b \in wordOf(d, w) <=> \E y \in of(d) : Test(y)
    <3> SUFFICES ASSUME NEW d PROVE b \in wordOf(d, w) <=> \E y \in of(d) : Test(y)
      OBVIOUS
    <3> DEFINE I == {bi(y) : y \in of(d)}
               J == {x \in I : x >= w * m /\ x < (w + 1) * m}
    <3>1. b \in wordOf(d, w) <=> \E k \in J : b = k - w * m
      BY DEF wordOf
    <3>2. \A k : k \in J <=> \E y \in of(d) : k = bi(y) /\ k >= w * m /\ k < (w + 1) * m
      OBVIOUS
    <3> HIDE DEF J, I, wordOf, m
    <3> QED BY <3>1, <3>2
  <2>2. b \in who[h].mask[w] <=> \E d \in ids(h) : b \in wordOf(d, w)
    <3>1. who[h].mask[w] = UNION {wordOf(d, w) : d \in ids(h)}
      BY <1>2
    <3> HIDE DEF wordOf
    <3> QED BY <3>1
  <2> HIDE DEF Test, wordOf, theirs
  <2>3. b \in who[h].mask[w] <=> \E y \in theirs(h) : Test(y)
    BY <1>4, <2>1, <2>2
  <2> QED BY <2>3 DEF Test
<1>7. \A y \in R : bi(y) = -1 \/ bi(y) \in 0 .. n - 1
  BY DEF bi
<1>8. {h \in DOMAIN who : who[h].prev} = Persons({j \in R : bi(j) < 0})
  <2>1. \A h \in Persons(R) : who[h].prev <=> \E y \in theirs(h) : bi(y) < 0
    <3> HIDE DEF theirs
    <3> QED BY <1>3, <1>4
  <2> QED BY <1>1, <2>1 DEF Persons
<1>9. m \in Nat \ {0} /\ \A w \in N : w \in Nat /\ w * m \in Nat
  <2>1. m \in Nat \ {0}
    BY WebAssumption
  <2> HIDE DEF m
  <2>2. \A w \in N : w \in Nat
    BY DEF N
  <2> QED BY <2>1, <2>2
<1>10. \A k \in 0 .. n - 1 : /\ k \div m \in N /\ k % m = k - (k \div m) * m
                             /\ (k \div m) * m \in Int /\ (k \div m + 1) * m \in Int
                             /\ (k \div m) * m <= k /\ k < (k \div m + 1) * m
  BY WordsHold DEF N, m
<1> HIDE DEF m
<1>11. {h \in DOMAIN who : \E w \in N : who[h].mask[w] # {}} = Persons({j \in R : bi(j) >= 0})
  <2>1. ASSUME NEW h \in Persons(R), NEW w \in N, who[h].mask[w] # {}
        PROVE  \E y \in R : Person(y) = h /\ bi(y) >= 0
    <3>1. PICK b : b \in who[h].mask[w]
      BY <2>1
    <3>2. PICK y \in theirs(h) : bi(y) >= w * m
      BY <1>6, <3>1
    <3>3. y \in R /\ Person(y) = h
      OBVIOUS
    <3>4. bi(y) \in Int /\ w * m \in Nat
      BY <1>7, <1>9, <3>3
    <3>5. bi(y) >= 0
      BY <3>2, <3>4
    <3> QED BY <3>3, <3>5
  <2>2. ASSUME NEW y \in R, bi(y) >= 0 PROVE \E w \in N : who[Person(y)].mask[w] # {}
    <3> DEFINE k == bi(y)
               w == k \div m
    <3>1. k \in 0 .. n - 1
      BY <1>7, <2>2
    <3>2. w \in N /\ w * m <= k /\ k < (w + 1) * m /\ w * m \in Int /\ k \in Int
      BY <1>10, <3>1
    <3>3. Person(y) \in Persons(R) /\ y \in theirs(Person(y))
      BY <1>5
    <3> HIDE DEF w, theirs
    <3>4. bi(y) - w * m \in who[Person(y)].mask[w]
      BY <1>6, <3>2, <3>3
    <3> QED BY <3>2, <3>4
  <2> DEFINE X == {h \in DOMAIN who : \E w \in N : who[h].mask[w] # {}}
             Y == Persons({j \in R : bi(j) >= 0})
  <2>3. \A h : h \in Y <=> \E y \in R : Person(y) = h /\ bi(y) >= 0
    BY DEF Persons
  <2>4. \A h : h \in X <=> h \in Persons(R) /\ \E w \in N : who[h].mask[w] # {}
    BY <1>1
  <2> HIDE DEF X, Y, theirs
  <2>5. \A h : h \in X => h \in Y
    BY <2>1, <2>3, <2>4
  <2>6. \A h : h \in Y => h \in X
    BY <1>5, <2>2, <2>3, <2>4
  <2> QED BY <2>5, <2>6 DEF X, Y
<1>12. ASSUME NEW k \in 0 .. n - 1
       PROVE  {h \in DOMAIN who : (k % m) \in who[h].mask[k \div m]} = Persons({j \in R : bi(j) = k})
  <2> DEFINE w == k \div m
             x == w * m
             z == (w + 1) * m
  <2>1. w \in N /\ x \in Int /\ z \in Int /\ k % m = k - x /\ x <= k /\ k < z /\ k \in Int
    BY <1>10
  <2> HIDE DEF w
  <2>2. \A h \in Persons(R) : (k % m) \in who[h].mask[w]
                                <=> \E y \in theirs(h) : bi(y) >= x /\ bi(y) < z /\ k % m = bi(y) - x
    BY <1>6, <2>1
  <2> HIDE DEF x, z
  <2>3. \A y \in R : bi(y) >= x /\ bi(y) < z /\ k % m = bi(y) - x <=> bi(y) = k
    <3> SUFFICES ASSUME NEW y \in R PROVE bi(y) >= x /\ bi(y) < z /\ k % m = bi(y) - x <=> bi(y) = k
      OBVIOUS
    <3>1. bi(y) \in Int
      BY <1>7
    <3> QED BY <2>1, <3>1
  <2>4. \A h \in Persons(R) : (k % m) \in who[h].mask[w] <=> \E y \in R : Person(y) = h /\ bi(y) = k
    BY <2>2, <2>3
  <2>5. {h \in DOMAIN who : (k % m) \in who[h].mask[w]} = Persons({j \in R : bi(j) = k})
    BY <1>1, <2>4 DEF Persons
  <2> QED BY <2>5 DEF w
<1> HIDE DEF theirs
<1> QED BY <1>8, <1>11, <1>12 DEF bi, who, N, m, FoldKeeps

\* The index of the mask path separates the periods, and is the rank of the bucket.
LEMMA IndexesAre ==
    ASSUME WebInv, NEW p, PlanOK(p), NEW i \in {"hour", "day", "week"}
    PROVE  LET n == Cardinality(date_buckets(p.from, p.to, i))
               V == Views(rows(p, Low(p)))
           IN /\ n \in Nat /\ V \subseteq DOMAIN visits
              /\ \A j \in V : BucketIndex(p, i, j) = -1 \/ BucketIndex(p, i, j) \in 0 .. n - 1
              /\ {j \in V : BucketIndex(p, i, j) < 0} = Views(PartOf(p, 0))
              /\ {j \in V : BucketIndex(p, i, j) >= 0} = Views(PartOf(p, 1))
              /\ \A k \in 0 .. n - 1 : {j \in V : BucketIndex(p, i, j) = k} = ViewsAt(p, i, k)
<1> DEFINE D == date_buckets(p.from, p.to, i)
           n == Cardinality(D)
           R == rows(p, Low(p))
           V == Views(R)
           A == PartOf(p, 0)
           B == PartOf(p, 1)
           bi(j) == BucketIndex(p, i, j)
           rank(j) == RankIn(D, truncate(visits[j].ts, i))
<1>1. /\ R = A \cup B /\ A \subseteq DOMAIN visits /\ B \subseteq DOMAIN visits
      /\ \A j \in B : visits[j].ts \in Nat /\ p.from <= visits[j].ts /\ visits[j].ts < p.to
      /\ \A j \in A : visits[j].ts \in Nat /\ visits[j].ts < p.from
  BY PartsAre
<1>2. /\ D \subseteq Int /\ IsFiniteSet(D)
      /\ \A t \in Nat : p.from <= t /\ t < p.to => truncate(t, i) \in D
  BY BucketHolds DEF WebIntervals
<1>3. n \in Nat /\ \A b \in D : RankIn(D, b) \in 0 .. n - 1
  <2> HIDE DEF D
  <2> QED BY <1>2, RanksAre
<1>4. \A j \in B : bi(j) = rank(j)
  <2> SUFFICES ASSUME NEW j \in B PROVE bi(j) = rank(j)
    OBVIOUS
  <2>1. visits[j].ts \in Nat /\ p.from <= visits[j].ts /\ visits[j].ts < p.to
    BY <1>1
  <2>2. (visits[j].ts - truncate(p.from, i)) \div Units(i) = rank(j)
    BY <2>1, IndexIsRank
  <2>3. visits[j].ts >= p.from
    BY <2>1 DEF PlanOK
  <2>4. bi(j) = (visits[j].ts - truncate(p.from, i)) \div Units(i)
    BY <2>3 DEF BucketIndex
  <2> HIDE DEF bi, rank
  <2> QED BY <2>2, <2>4
<1>5. \A j \in B : rank(j) \in 0 .. n - 1
  <2> HIDE DEF D, n, B
  <2> QED BY <1>1, <1>2, <1>3
<1>6. \A j \in A : bi(j) = -1
  <2> SUFFICES ASSUME NEW j \in A PROVE bi(j) = -1
    OBVIOUS
  <2>1. ~(visits[j].ts >= p.from)
    BY <1>1 DEF PlanOK
  <2> QED BY <2>1 DEF BucketIndex
<1>7. Views(A) = {j \in V : j \in A} /\ Views(B) = {j \in V : j \in B} /\ V \subseteq A \cup B
  <2> HIDE DEF A, B, R
  <2> QED BY <1>1 DEF Views
<1>8. \A k : ViewsAt(p, i, k) = {j \in Views(B) : rank(j) = k}
  BY DEF ViewsAt
<1>9. V \subseteq DOMAIN visits
  <2> HIDE DEF A, B, R, V
  <2> QED BY <1>1, <1>7
<1> HIDE DEF D, n, R, V, A, B, bi, rank
<1>10. \A j \in V : bi(j) = -1 \/ bi(j) \in 0 .. n - 1
  BY <1>4, <1>5, <1>6, <1>7
<1>11. {j \in V : bi(j) < 0} = Views(A)
  <2>1. \A j \in V : bi(j) < 0 <=> j \in A
    BY <1>3, <1>4, <1>5, <1>6, <1>7
  <2> QED BY <1>7, <2>1
<1>12. {j \in V : bi(j) >= 0} = Views(B)
  <2>1. \A j \in V : bi(j) >= 0 <=> j \in B
    BY <1>3, <1>4, <1>5, <1>6, <1>7
  <2> QED BY <1>7, <2>1
<1>13. \A k \in 0 .. n - 1 : {j \in V : bi(j) = k} = ViewsAt(p, i, k)
  <2> SUFFICES ASSUME NEW k \in 0 .. n - 1 PROVE {j \in V : bi(j) = k} = ViewsAt(p, i, k)
    OBVIOUS
  <2>1. \A j \in V : bi(j) = k <=> j \in B /\ rank(j) = k
    BY <1>3, <1>4, <1>5, <1>6, <1>7
  <2> QED BY <1>7, <1>8, <2>1
<1> QED BY <1>3, <1>9, <1>10, <1>11, <1>12, <1>13 DEF n, D, V, R, A, B, bi

\* The numbers that an overview of the plan shows.
Shows(o, p, i) ==
    /\ o.visitors[1] = Cardinality(Persons(Views(PartOf(p, 0))))
    /\ o.visitors[2] = Cardinality(Persons(Views(PartOf(p, 1))))
    /\ o.pageviews[1] = Cardinality(Views(PartOf(p, 0)))
    /\ o.pageviews[2] = Cardinality(Views(PartOf(p, 1)))
    /\ o.sessions[1] = SessionStats(SessionsOf(PartOf(p, 0)))
    /\ o.sessions[2] = SessionStats(SessionsOf(PartOf(p, 1)))
    /\ o.visitors_series = [k \in 0 .. Cardinality(date_buckets(p.from, p.to, i)) - 1 |->
                              Cardinality(Persons(ViewsAt(p, i, k)))]
    /\ o.pageviews_series = [k \in 0 .. Cardinality(date_buckets(p.from, p.to, i)) - 1 |->
                               Cardinality(ViewsAt(p, i, k))]

\* The mask path shows them,
LEMMA FastShows ==
    ASSUME WebInv, NEW p, PlanOK(p), NEW i \in {"hour", "day", "week"}
    PROVE  Shows(overview_fast(p, i), p, i)
<1> DEFINE n == Cardinality(date_buckets(p.from, p.to, i))
           R == rows(p, Low(p))
           V == Views(R)
           who == Folded(p, i, V, Words(n))
           o == overview_fast(p, i)
<1>1. /\ n \in Nat /\ V \subseteq DOMAIN visits
      /\ \A j \in V : BucketIndex(p, i, j) = -1 \/ BucketIndex(p, i, j) \in 0 .. n - 1
      /\ {j \in V : BucketIndex(p, i, j) < 0} = Views(PartOf(p, 0))
      /\ {j \in V : BucketIndex(p, i, j) >= 0} = Views(PartOf(p, 1))
      /\ \A k \in 0 .. n - 1 : {j \in V : BucketIndex(p, i, j) = k} = ViewsAt(p, i, k)
  BY IndexesAre
<1>2. /\ FastSessions(p, R, 0) = SessionsOf(PartOf(p, 0))
      /\ FastSessions(p, R, 1) = SessionsOf(PartOf(p, 1))
  BY SessionsAgree
<1>3. /\ o.visitors = <<Cardinality({h \in DOMAIN who : who[h].prev}),
                        Cardinality({h \in DOMAIN who : \E w \in 0 .. Words(n) - 1 : who[h].mask[w] # {}})>>
      /\ o.pageviews = <<Cardinality({j \in V : BucketIndex(p, i, j) < 0}),
                         Cardinality({j \in V : BucketIndex(p, i, j) >= 0})>>
      /\ o.sessions = <<SessionStats(FastSessions(p, R, 0)), SessionStats(FastSessions(p, R, 1))>>
      /\ o.visitors_series = [k \in 0 .. n - 1 |->
                                Cardinality({h \in DOMAIN who : (k % MaskBits) \in who[h].mask[k \div MaskBits]})]
      /\ o.pageviews_series = [k \in 0 .. n - 1 |-> Cardinality({j \in V : BucketIndex(p, i, j) = k})]
  BY DEF overview_fast
<1> HIDE DEF n, V, R, o
<1>4. /\ {h \in DOMAIN who : who[h].prev} = Persons({j \in V : BucketIndex(p, i, j) < 0})
      /\ {h \in DOMAIN who : \E w \in 0 .. Words(n) - 1 : who[h].mask[w] # {}}
           = Persons({j \in V : BucketIndex(p, i, j) >= 0})
      /\ \A k \in 0 .. n - 1 : {h \in DOMAIN who : (k % MaskBits) \in who[h].mask[k \div MaskBits]}
                                 = Persons({j \in V : BucketIndex(p, i, j) = k})
  <2>1. n \in Nat /\ V \subseteq DOMAIN visits
    BY <1>1
  <2>2. \A j \in V : BucketIndex(p, i, j) = -1 \/ BucketIndex(p, i, j) \in 0 .. n - 1
    BY <1>1
  <2>3. FoldKeeps(p, i, V, n)
    BY <2>1, <2>2, FoldedIs
  <2> QED BY <2>3 DEF FoldKeeps
<1> HIDE DEF who
<1> DEFINE seen(k) == {h \in DOMAIN who : (k % MaskBits) \in who[h].mask[k \div MaskBits]}
           at(k) == {j \in V : BucketIndex(p, i, j) = k}
<1>5. o.visitors_series = [k \in 0 .. n - 1 |-> Cardinality(Persons(ViewsAt(p, i, k)))]
  <2>1. \A k \in 0 .. n - 1 : seen(k) = Persons(ViewsAt(p, i, k))
    BY <1>1, <1>4
  <2>2. o.visitors_series = [k \in 0 .. n - 1 |-> Cardinality(seen(k))]
    BY <1>3
  <2> HIDE DEF seen
  <2> QED BY <2>1, <2>2
<1>6. o.pageviews_series = [k \in 0 .. n - 1 |-> Cardinality(ViewsAt(p, i, k))]
  <2>1. \A k \in 0 .. n - 1 : at(k) = ViewsAt(p, i, k)
    BY <1>1
  <2>2. o.pageviews_series = [k \in 0 .. n - 1 |-> Cardinality(at(k))]
    BY <1>3
  <2> HIDE DEF at
  <2> QED BY <2>1, <2>2
<1>7. /\ o.visitors = <<Cardinality(Persons(Views(PartOf(p, 0)))), Cardinality(Persons(Views(PartOf(p, 1))))>>
      /\ o.pageviews = <<Cardinality(Views(PartOf(p, 0))), Cardinality(Views(PartOf(p, 1)))>>
      /\ o.sessions = <<SessionStats(SessionsOf(PartOf(p, 0))), SessionStats(SessionsOf(PartOf(p, 1)))>>
  <2>1. o.visitors = <<Cardinality(Persons(Views(PartOf(p, 0)))), Cardinality(Persons(Views(PartOf(p, 1))))>>
    BY <1>1, <1>3, <1>4
  <2>2. o.pageviews = <<Cardinality(Views(PartOf(p, 0))), Cardinality(Views(PartOf(p, 1)))>>
    BY <1>1, <1>3
  <2>3. o.sessions = <<SessionStats(SessionsOf(PartOf(p, 0))), SessionStats(SessionsOf(PartOf(p, 1)))>>
    BY <1>2, <1>3
  <2> QED BY <2>1, <2>2, <2>3
<1> QED BY <1>5, <1>6, <1>7 DEF Shows, n, o

\* the general SQL shows them,
LEMMA GeneralShows ==
    ASSUME WebInv, NEW p, PlanOK(p), NEW i \in WebIntervals
    PROVE  Shows(overview_general(p, i), p, i)
<1> DEFINE D == date_buckets(p.from, p.to, i)
           n == Cardinality(D)
           R == rows(p, Low(p))
           nth(k) == CHOOSE b \in D : Cardinality({c \in D : c < b}) = k
           at(k) == {j \in Views(OfPeriod(p, R, 1)) : truncate(visits[j].ts, i) = nth(k)}
           o == overview_general(p, i)
<1>1. OfPeriod(p, R, 0) = PartOf(p, 0) /\ OfPeriod(p, R, 1) = PartOf(p, 1)
  BY PartIs
<1>2. /\ session_ctes(p, R, 0) = SessionsOf(PartOf(p, 0))
      /\ session_ctes(p, R, 1) = SessionsOf(PartOf(p, 1))
  BY SessionsAgree
<1>3. /\ o.visitors = <<Cardinality(Persons(Views(OfPeriod(p, R, 0)))),
                        Cardinality(Persons(Views(OfPeriod(p, R, 1))))>>
      /\ o.pageviews = <<Cardinality(Views(OfPeriod(p, R, 0))), Cardinality(Views(OfPeriod(p, R, 1)))>>
      /\ o.sessions = <<SessionStats(session_ctes(p, R, 0)), SessionStats(session_ctes(p, R, 1))>>
      /\ o.visitors_series = [k \in 0 .. n - 1 |-> Cardinality(Persons(at(k)))]
      /\ o.pageviews_series = [k \in 0 .. n - 1 |-> Cardinality(at(k))]
  BY DEF overview_general
<1>4. \A k \in 0 .. n - 1 : at(k) = ViewsAt(p, i, k)
  <2> SUFFICES ASSUME NEW k \in 0 .. n - 1 PROVE at(k) = ViewsAt(p, i, k)
    OBVIOUS
  <2>1. {j \in Views(PartOf(p, 1)) : truncate(visits[j].ts, i) = nth(k)} = ViewsAt(p, i, k)
    BY SeriesAre
  <2>2. at(k) = {j \in Views(PartOf(p, 1)) : truncate(visits[j].ts, i) = nth(k)}
    <3> HIDE DEF nth, D, R
    <3> QED BY <1>1
  <2> HIDE DEF at
  <2> QED BY <2>1, <2>2
<1> HIDE DEF at, R, o
<1>5. /\ o.visitors_series = [k \in 0 .. n - 1 |-> Cardinality(Persons(ViewsAt(p, i, k)))]
      /\ o.pageviews_series = [k \in 0 .. n - 1 |-> Cardinality(ViewsAt(p, i, k))]
  <2> HIDE DEF n, D
  <2> QED BY <1>3, <1>4
<1>6. /\ o.visitors = <<Cardinality(Persons(Views(PartOf(p, 0)))), Cardinality(Persons(Views(PartOf(p, 1))))>>
      /\ o.pageviews = <<Cardinality(Views(PartOf(p, 0))), Cardinality(Views(PartOf(p, 1)))>>
      /\ o.sessions = <<SessionStats(SessionsOf(PartOf(p, 0))), SessionStats(SessionsOf(PartOf(p, 1)))>>
  <2> HIDE DEF n, D
  <2> QED BY <1>1, <1>2, <1>3
<1> QED BY <1>5, <1>6 DEF Shows, n, D, o

\* and the definitions do.
LEMMA DefinedShows ==
    ASSUME WebInv, NEW p, PlanOK(p), NEW i \in WebIntervals
    PROVE  Shows(Defined(p, i), p, i)
<1> DEFINE kept == {j \in DOMAIN visits : visits[j].ts \in Low(p) .. p.to - 1 /\ compile(p.filter, visits[j])}
           side(m) == {j \in kept : (m = 1) <=> visits[j].ts >= p.from}
           D == date_buckets(p.from, p.to, i)
           n == Cardinality(D)
           in(b) == {j \in Views(side(1)) : b <= visits[j].ts /\ \A c \in D : c > b => visits[j].ts < c}
           ranked(k) == {c \in D : Cardinality({d \in D : d < c}) = k}
           at(k) == UNION {in(b) : b \in ranked(k)}
           sessions(m) == Counted(WithId(side(m))) \cup DefinedSessions(Sessionless(side(m)))
           o == Defined(p, i)
<1>1. \A m : side(m) = PartOf(p, m)
  BY DEF PartOf
<1>2. /\ o.visitors = [m \in 1 .. 2 |-> Cardinality(Persons(Views(side(m - 1))))]
      /\ o.pageviews = [m \in 1 .. 2 |-> Cardinality(Views(side(m - 1)))]
      /\ o.sessions = [m \in 1 .. 2 |-> SessionStats(sessions(m - 1))]
      /\ o.visitors_series = [k \in 0 .. n - 1 |-> Cardinality(Persons(at(k)))]
      /\ o.pageviews_series = [k \in 0 .. n - 1 |-> Cardinality(at(k))]
  BY DEF Defined
<1>3. \A k \in 0 .. n - 1 : at(k) = ViewsAt(p, i, k)
  <2> SUFFICES ASSUME NEW k \in 0 .. n - 1 PROVE at(k) = ViewsAt(p, i, k)
    OBVIOUS
  <2> DEFINE of(b) == {j \in Views(PartOf(p, 1)) : b <= visits[j].ts /\ \A c \in D : c > b => visits[j].ts < c}
  <2>1. UNION {of(b) : b \in ranked(k)} = ViewsAt(p, i, k)
    BY SeriesAre
  <2>2. \A b : in(b) = of(b)
    <3> HIDE DEF D, side
    <3> QED BY <1>1
  <2> HIDE DEF in, of, ranked
  <2> QED BY <2>1, <2>2
<1>4. \A m : sessions(m) = SessionsOf(PartOf(p, m))
  <2> HIDE DEF side
  <2> QED BY <1>1 DEF SessionsOf
<1> HIDE DEF at, sessions, side, o
<1>5. /\ o.visitors_series = [k \in 0 .. n - 1 |-> Cardinality(Persons(ViewsAt(p, i, k)))]
      /\ o.pageviews_series = [k \in 0 .. n - 1 |-> Cardinality(ViewsAt(p, i, k))]
  <2> HIDE DEF n, D
  <2> QED BY <1>2, <1>3
<1>6. /\ o.visitors[1] = Cardinality(Persons(Views(PartOf(p, 0))))
      /\ o.visitors[2] = Cardinality(Persons(Views(PartOf(p, 1))))
      /\ o.pageviews[1] = Cardinality(Views(PartOf(p, 0)))
      /\ o.pageviews[2] = Cardinality(Views(PartOf(p, 1)))
      /\ o.sessions[1] = SessionStats(SessionsOf(PartOf(p, 0)))
      /\ o.sessions[2] = SessionStats(SessionsOf(PartOf(p, 1)))
  <2>1. /\ o.visitors[1] = Cardinality(Persons(Views(side(0)))) /\ o.visitors[2] = Cardinality(Persons(Views(side(1))))
        /\ o.pageviews[1] = Cardinality(Views(side(0))) /\ o.pageviews[2] = Cardinality(Views(side(1)))
        /\ o.sessions[1] = SessionStats(sessions(0)) /\ o.sessions[2] = SessionStats(sessions(1))
    <3> HIDE DEF n, D
    <3>1. 1 \in 1 .. 2 /\ 2 \in 1 .. 2 /\ 1 - 1 = 0 /\ 2 - 1 = 1
      OBVIOUS
    <3> QED BY <1>2, <3>1
  <2> HIDE DEF n, D
  <2> QED BY <1>1, <1>4, <2>1
<1> QED BY <1>5, <1>6 DEF Shows, n, D, o

\* Hiding a previous period that there is none of leaves the rest.
LEMMA OverviewShows ==
    ASSUME WebInv, NEW p, PlanOK(p), NEW q, NEW i \in WebIntervals
    PROVE  LET o == overview(q, p, i)
               d == Defined(p, i)
           IN /\ o.visitors[2] = d.visitors[2] /\ o.pageviews[2] = d.pageviews[2]
              /\ o.sessions[2] = d.sessions[2]
              /\ p.previous # -1 => /\ o.visitors[1] = d.visitors[1]
                                    /\ o.pageviews[1] = d.pageviews[1]
                                    /\ o.sessions[1] = d.sessions[1]
              /\ o.visitors_series = d.visitors_series
              /\ o.pageviews_series = d.pageviews_series
              /\ o.pageviews[2] = Cardinality(Views(PartOf(p, 1)))
              /\ o.sessions[2].sessions = Cardinality(SessionsOf(PartOf(p, 1)))
<1> DEFINE shown == IF FastApplies(p, i) THEN overview_fast(p, i) ELSE overview_general(p, i)
           o == overview(q, p, i)
           d == Defined(p, i)
           none == SessionStats({})
<1>1. Shows(d, p, i)
  BY DefinedShows
<1>2. Shows(shown, p, i)
  <2>1. ASSUME FastApplies(p, i) PROVE i \in {"hour", "day", "week"}
    BY <2>1 DEF FastApplies, WebIntervals
  <2>2. CASE FastApplies(p, i)
    BY <2>1, <2>2, FastShows
  <2>3. CASE ~FastApplies(p, i)
    BY <2>3, GeneralShows
  <2> QED BY <2>2, <2>3
<1>3. /\ o = IF p.previous # -1 THEN shown
             ELSE [shown EXCEPT !.visitors[1] = 0, !.pageviews[1] = 0, !.sessions[1] = none]
      /\ \E a, b, c, e, f, g, v, w :
           shown = [visitors |-> <<a, b>>, pageviews |-> <<c, e>>, sessions |-> <<f, g>>,
                    visitors_series |-> v, pageviews_series |-> w]
  <2>1. o = WithPrevious(p, shown)
    BY DEF overview
  <2>2. \E a, b, c, e, f, g, v, w :
           overview_fast(p, i) = [visitors |-> <<a, b>>, pageviews |-> <<c, e>>, sessions |-> <<f, g>>,
                                  visitors_series |-> v, pageviews_series |-> w]
    BY ZenonT(30) DEF overview_fast
  <2>3. \E a, b, c, e, f, g, v, w :
           overview_general(p, i) = [visitors |-> <<a, b>>, pageviews |-> <<c, e>>, sessions |-> <<f, g>>,
                                     visitors_series |-> v, pageviews_series |-> w]
    BY ZenonT(30) DEF overview_general
  <2> HIDE DEF o, none
  <2>4. o = IF p.previous # -1 THEN shown
            ELSE [shown EXCEPT !.visitors[1] = 0, !.pageviews[1] = 0, !.sessions[1] = none]
    BY <2>1 DEF WithPrevious, none
  <2> QED BY <2>2, <2>3, <2>4
<1> HIDE DEF shown, o, d, none
<1>4. /\ o.visitors[2] = shown.visitors[2] /\ o.pageviews[2] = shown.pageviews[2]
      /\ o.sessions[2] = shown.sessions[2]
      /\ o.visitors_series = shown.visitors_series /\ o.pageviews_series = shown.pageviews_series
      /\ p.previous # -1 => o = shown
  BY <1>3
<1>5. SessionStats(SessionsOf(PartOf(p, 1))).sessions = Cardinality(SessionsOf(PartOf(p, 1)))
  BY DEF SessionStats
<1> QED BY <1>1, <1>2, <1>4, <1>5 DEF Shows, o, d

\* The interval is one of the four.
LEMMA IntervalIs ==
    ASSUME NEW requested \in {"hour", "day", "week", "month", "auto"}, NEW from, NEW to,
           choose_interval(requested, from, to) # "none"
    PROVE  choose_interval(requested, from, to) \in WebIntervals
<1> DEFINE first == IF to - from <= 2 * DayLength THEN "hour" ELSE "day"
           order == IF requested = "auto" THEN <<first, "day", "week", "month">> ELSE <<requested>>
           fitting == {k \in DOMAIN order : Fits(from, to, order[k])}
<1>1. choose_interval(requested, from, to) = IF fitting = {} THEN "none" ELSE order[Min(fitting)]
  BY DEF choose_interval
<1>2. \E n \in {1, 4} : DOMAIN order = 1 .. n /\ \A k \in 1 .. n : order[k] \in WebIntervals
  <2>1. first \in WebIntervals
    BY DEF WebIntervals
  <2> HIDE DEF first
  <2>2. CASE requested = "auto"
    <3>1. order = <<first, "day", "week", "month">>
      BY <2>2
    <3> HIDE DEF order
    <3>2. DOMAIN order = 1 .. 4 /\ \A k \in 1 .. 4 : order[k] \in WebIntervals
      BY <2>1, <3>1 DEF WebIntervals
    <3> QED BY <3>2
  <2>3. CASE requested # "auto"
    <3>1. order = <<requested>> /\ requested \in WebIntervals
      BY <2>3 DEF WebIntervals
    <3> HIDE DEF order
    <3>2. DOMAIN order = 1 .. 1 /\ \A k \in 1 .. 1 : order[k] \in WebIntervals
      BY <3>1
    <3> QED BY <3>2
  <2> QED BY <2>2, <2>3
<1> HIDE DEF order
<1>3. IsFiniteSet(DOMAIN order) /\ DOMAIN order \subseteq Int
  <2>1. \A n \in {1, 4} : IsFiniteSet(1 .. n)
    <3> SUFFICES ASSUME NEW n \in {1, 4} PROVE IsFiniteSet(1 .. n)
      OBVIOUS
    <3>1. 1 \in Int /\ n \in Int
      OBVIOUS
    <3> QED BY <3>1, FS_Interval
  <2> QED BY <1>2, <2>1
<1>4. IsFiniteSet(fitting) /\ fitting \subseteq Int /\ fitting \subseteq DOMAIN order
  <2>1. fitting \subseteq DOMAIN order
    OBVIOUS
  <2> HIDE DEF fitting
  <2> QED BY <1>3, <2>1, FS_Subset
<1> HIDE DEF fitting
<1>5. fitting # {}
  BY <1>1
<1>6. Min(fitting) \in fitting
  BY <1>4, <1>5, FiniteMin
<1>7. order[Min(fitting)] \in WebIntervals
  BY <1>2, <1>4, <1>6
<1> QED BY <1>1, <1>5, <1>7

\* Every answer of web analytics is the definitions'.
LEMMA WebAgrees == WebInv => WebAnswersAgree
<1> SUFFICES ASSUME WebInv, NEW q \in WebQueries, ~refused(q)
             PROVE  \A p \in {plan(q, TRUE)} :
                      \A i \in {choose_interval(q.interval, p.from, p.to)} \ {"none"} :
                        LiveAgrees(q) /\ Agree(q, p, overview(q, p, i), Defined(p, i))
  BY DEF WebAnswersAgree
<1> DEFINE p == plan(q, TRUE)
<1>1. PlanOK(p)
  BY PlanIs
<1>2. /\ \A d \in {"page", "other"} : Total(breakdown(q, d)) = Cardinality(Views(PartOf(p, 1)))
      /\ \A d \in {"entry_page", "exit_page"} :
           Total(breakdown(q, d)) = Cardinality(SessionsOf(PartOf(p, 1)))
  BY BreakdownTotals
<1> HIDE DEF p
<1>3. LiveAgrees(q)
  BY LiveExact
<1>4. ASSUME NEW i \in {choose_interval(q.interval, p.from, p.to)} \ {"none"}
      PROVE  Agree(q, p, overview(q, p, i), Defined(p, i))
  <2>1. q.interval \in {"hour", "day", "week", "month", "auto"}
    BY QuestionsAssumption
  <2>2. i = choose_interval(q.interval, p.from, p.to) /\ i # "none"
    BY <1>4
  <2>3. i \in WebIntervals
    BY <2>1, <2>2, IntervalIs
  <2> DEFINE o == overview(q, p, i)
             s == Defined(p, i)
  <2>4. /\ o.visitors[2] = s.visitors[2] /\ o.pageviews[2] = s.pageviews[2]
        /\ o.sessions[2] = s.sessions[2]
        /\ p.previous # -1 => /\ o.visitors[1] = s.visitors[1]
                              /\ o.pageviews[1] = s.pageviews[1]
                              /\ o.sessions[1] = s.sessions[1]
        /\ o.visitors_series = s.visitors_series
        /\ o.pageviews_series = s.pageviews_series
        /\ o.pageviews[2] = Cardinality(Views(PartOf(p, 1)))
        /\ o.sessions[2].sessions = Cardinality(SessionsOf(PartOf(p, 1)))
    BY <1>1, <2>3, OverviewShows
  <2> HIDE DEF o, s
  <2>5. Agree(q, p, o, s)
    BY <1>2, <2>4 DEF Agree
  <2> QED BY <2>5 DEF o, s
<1>5. \A i \in {choose_interval(q.interval, p.from, p.to)} \ {"none"} :
        LiveAgrees(q) /\ Agree(q, p, overview(q, p, i), Defined(p, i))
  BY <1>3, <1>4
<1>6. \A x \in {p} : x = p
  OBVIOUS
<1> DEFINE Right(x) == \A i \in {choose_interval(q.interval, x.from, x.to)} \ {"none"} :
                         LiveAgrees(q) /\ Agree(q, x, overview(q, x, i), Defined(x, i))
<1>7. Right(p)
  BY <1>5
<1> HIDE DEF Right
<1>8. \A x \in {p} : Right(x)
  BY <1>7
<1> QED BY <1>8 DEF Right, p

\* The masks and the general SQL show what the definitions of web.rs say, the
\* live count misses no file, and the breakdowns add up to the totals
\* (overview_fast, overview, live_visitors, breakdown).
THEOREM WebExactAlways == InsightsSpec => []WebExact
<1>1. WebInv => WebExact
  BY WebAgrees DEF WebExact
<1> QED BY <1>1, VisitsHold, PTL

=============================================================================
