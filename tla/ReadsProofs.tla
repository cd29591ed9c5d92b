---------------------------- MODULE ReadsProofs ----------------------------
(***************************************************************************)
(* Machine-checked facts about the query engine, the explore gate,         *)
(* capture, the publication backlog and the forwarder, for any number of   *)
(* requests, connections, tokens, bodies, batches and projects and any     *)
(* limits: whoever is admitted finds a connection, no answer is older than *)
(* its request, a captured body is stored whole under its own projects or  *)
(* refused, a status without lag is true, what is forwarded is counted and *)
(* in order, and the lists of events and persons leave nothing out.        *)
(***************************************************************************)
EXTENDS MCReads, Forwarder, SequenceTheorems, FiniteSetTheorems, NaturalFacts, TLAPS

-----------------------------------------------------------------------------
(* Folds over sequences.                                                    *)

\* The greatest of a range's top.
LEMMA TopIsMax ==
    ASSUME NEW n \in Nat, n # 0, NEW s, s \subseteq 1..n, n \in s
    PROVE  Max(s) = n
<1>1. \A y \in s : y <= n /\ y \in Nat
  OBVIOUS
<1>2. \E x \in s : \A y \in s : x >= y
  BY <1>1
<1>3. \A x \in s : (\A y \in s : x >= y) => x = n
  BY <1>1
<1> QED BY <1>2, <1>3 DEF Max

\* The evictions of a put, one for each entry.
EvictAll(c, s) == FoldLeft(EvictOldest, c, s)

\* h[k] is the cache after k of them.
Evictions(h, c, s, N) == h[0] = c /\ \A k \in 1..N : h[k] = EvictOldest(h[k - 1], s[k])

\* Eviction goes over the entries one after the other.
LEMMA EvictionSteps ==
    ASSUME NEW c, NEW s, NEW N \in Nat, DOMAIN s = 1..N
    PROVE  \E h : Evictions(h, c, s, N) /\ EvictAll(c, s) = h[N]
<1> DEFINE Op(x, y) == EvictOldest(x, y)
           Row(f, t) == IF t = {} THEN c ELSE Op(f[t \ {Max(t)}], s[Max(t)])
           Folds(f, n) == f = [t \in SUBSET (1..n) |-> Row(f, t)]
           Exists(n) == \E f : Folds(f, n)
           f == CHOOSE f : Folds(f, N)
<1>1. EvictAll(c, s) = f[1..N]
  BY DEF EvictAll, FoldLeft, MapThenFoldSet
<1> HIDE DEF Op
<1>2. Exists(N)
  <2> DEFINE T == {n \in Nat : n <= N /\ ~Exists(n)}
  <2> SUFFICES ASSUME T # {} PROVE FALSE
    <3> HIDE DEF Exists
    <3> QED OBVIOUS
  <2>1. PICK n \in T : \A m \in T : n <= m
    <3>1. T \subseteq Nat
      OBVIOUS
    <3> HIDE DEF T
    <3> QED BY <3>1, LeastNatural
  <2>2. n \in Nat /\ n <= N /\ ~Exists(n)
    <3> HIDE DEF Exists
    <3> QED BY <2>1
  <2>3. CASE n = 0
    <3> DEFINE z == [t \in SUBSET (1..0) |-> c]
    <3>1. \A t \in SUBSET (1..0) : t = {}
      OBVIOUS
    <3>2. \A t \in SUBSET (1..0) : Row(z, t) = c
      BY <3>1
    <3>3. Folds(z, 0)
      BY <3>2
    <3>4. Exists(0)
      BY <3>3
    <3> HIDE DEF Exists
    <3> QED BY <2>2, <2>3, <3>4
  <2>4. CASE n # 0
    <3>1. Exists(n - 1)
      <4> HIDE DEF Exists
      <4> QED BY <2>1, <2>2, <2>4
    <3>2. PICK g : Folds(g, n - 1)
      BY <3>1
    <3> DEFINE e == [t \in SUBSET (1..n) |-> IF n \in t THEN Op(g[t \ {n}], s[n]) ELSE g[t]]
    <3>3. \A t \in SUBSET (1..n) : e[t] = Row(e, t)
      <4> SUFFICES ASSUME NEW t \in SUBSET (1..n) PROVE e[t] = Row(e, t)
        OBVIOUS
      <4>1. CASE n \in t
        <5>1. Max(t) = n /\ t # {}
          BY <2>2, <2>4, <4>1, TopIsMax
        <5>2. t \ {n} \in SUBSET (1..n) /\ n \notin t \ {n}
          OBVIOUS
        <5>3. e[t \ {n}] = g[t \ {n}] /\ e[t] = Op(g[t \ {n}], s[n])
          BY <4>1, <5>2
        <5> HIDE DEF e
        <5> QED BY <5>1, <5>3
      <4>2. CASE n \notin t
        <5>1. t \in SUBSET (1..(n - 1))
          BY <2>2, <2>4, <4>2
        <5>2. e[t] = g[t] /\ g[t] = Row(g, t)
          <6>1. e[t] = g[t]
            BY <4>2
          <6>2. g[t] = Row(g, t)
            <7> HIDE DEF Row, e
            <7> QED BY <3>2, <5>1
          <6> QED BY <6>1, <6>2
        <5>3. t # {} => e[t \ {Max(t)}] = g[t \ {Max(t)}]
          BY <4>2
        <5> HIDE DEF e
        <5> QED BY <5>2, <5>3
      <4> QED BY <4>1, <4>2
    <3>4. e = [t \in SUBSET (1..n) |-> e[t]]
      OBVIOUS
    <3>5. Folds(e, n)
      <4> HIDE DEF Row, e
      <4> QED BY <3>3, <3>4
    <3>6. Exists(n)
      <4> HIDE DEF Folds
      <4> QED BY <3>5
    <3> HIDE DEF Exists
    <3> QED BY <2>2, <3>6
  <2> QED BY <2>3, <2>4
<1>3. Folds(f, N)
  BY <1>2
<1> HIDE DEF f
<1> DEFINE h == [k \in 0..N |-> f[1..k]]
<1>4. h[0] = c
  <2>1. 1..0 \in SUBSET (1..N) /\ 1..0 = {}
    OBVIOUS
  <2>2. f[1..0] = Row(f, 1..0)
    <3> HIDE DEF Row
    <3> QED BY <1>3, <2>1
  <2> QED BY <2>1, <2>2
<1>5. ASSUME NEW k \in 1..N PROVE h[k] = Op(h[k - 1], s[k])
  <2>1. 1..k \in SUBSET (1..N) /\ k \in 1..k /\ k \in Nat /\ k # 0 /\ 1..k \subseteq 1..k
    OBVIOUS
  <2>2. f[1..k] = Row(f, 1..k)
    <3> HIDE DEF Row
    <3> QED BY <1>3, <2>1
  <2>3. Max(1..k) = k /\ 1..k # {}
    <3> DEFINE t == 1..k
    <3>1. t \subseteq 1..k /\ k \in t
      BY <2>1
    <3> HIDE DEF t
    <3>2. Max(t) = k
      BY <2>1, <3>1, TopIsMax
    <3> QED BY <3>1, <3>2 DEF t
  <2>4. (1..k) \ {k} = 1..(k - 1)
    OBVIOUS
  <2>5. f[1..k] = Op(f[1..(k - 1)], s[k])
    BY <2>2, <2>3, <2>4
  <2>6. k \in 0..N /\ k - 1 \in 0..N
    OBVIOUS
  <2> QED BY <2>5, <2>6
<1>6. h[N] = f[1..N]
  OBVIOUS
<1> HIDE DEF h
<1> QED BY <1>1, <1>4, <1>5, <1>6 DEF Op, Evictions

\* The bytes of a sequence of entries are added up one after the other.
LEMMA SumSteps ==
    ASSUME NEW s, NEW N \in Nat, DOMAIN s = 1..N
    PROVE  \E h : /\ h[0] = 0
                  /\ \A k \in 1..N : h[k] = h[k - 1] + s[k].bytes
                  /\ BytesOf(s) = h[N]
<1> DEFINE Op(x, y) == x + y.bytes
           Row(f, t) == IF t = {} THEN 0 ELSE Op(f[t \ {Max(t)}], s[Max(t)])
           Folds(f, n) == f = [t \in SUBSET (1..n) |-> Row(f, t)]
           Exists(n) == \E f : Folds(f, n)
           f == CHOOSE f : Folds(f, N)
<1>1. BytesOf(s) = f[1..N]
  BY DEF BytesOf, FoldLeft, MapThenFoldSet
<1> HIDE DEF Op
<1>2. Exists(N)
  <2> DEFINE T == {n \in Nat : n <= N /\ ~Exists(n)}
  <2> SUFFICES ASSUME T # {} PROVE FALSE
    <3> HIDE DEF Exists
    <3> QED OBVIOUS
  <2>1. PICK n \in T : \A m \in T : n <= m
    <3>1. T \subseteq Nat
      OBVIOUS
    <3> HIDE DEF T
    <3> QED BY <3>1, LeastNatural
  <2>2. n \in Nat /\ n <= N /\ ~Exists(n)
    <3> HIDE DEF Exists
    <3> QED BY <2>1
  <2>3. CASE n = 0
    <3> DEFINE z == [t \in SUBSET (1..0) |-> 0]
    <3>1. \A t \in SUBSET (1..0) : t = {}
      OBVIOUS
    <3>2. \A t \in SUBSET (1..0) : Row(z, t) = 0
      BY <3>1
    <3>3. Folds(z, 0)
      BY <3>2
    <3>4. Exists(0)
      BY <3>3
    <3> HIDE DEF Exists
    <3> QED BY <2>2, <2>3, <3>4
  <2>4. CASE n # 0
    <3>1. Exists(n - 1)
      <4> HIDE DEF Exists
      <4> QED BY <2>1, <2>2, <2>4
    <3>2. PICK g : Folds(g, n - 1)
      BY <3>1
    <3> DEFINE e == [t \in SUBSET (1..n) |-> IF n \in t THEN Op(g[t \ {n}], s[n]) ELSE g[t]]
    <3>3. \A t \in SUBSET (1..n) : e[t] = Row(e, t)
      <4> SUFFICES ASSUME NEW t \in SUBSET (1..n) PROVE e[t] = Row(e, t)
        OBVIOUS
      <4>1. CASE n \in t
        <5>1. Max(t) = n /\ t # {}
          BY <2>2, <2>4, <4>1, TopIsMax
        <5>2. t \ {n} \in SUBSET (1..n) /\ n \notin t \ {n}
          OBVIOUS
        <5>3. e[t \ {n}] = g[t \ {n}] /\ e[t] = Op(g[t \ {n}], s[n])
          BY <4>1, <5>2
        <5> HIDE DEF e
        <5> QED BY <5>1, <5>3
      <4>2. CASE n \notin t
        <5>1. t \in SUBSET (1..(n - 1))
          BY <2>2, <2>4, <4>2
        <5>2. e[t] = g[t] /\ g[t] = Row(g, t)
          <6>1. e[t] = g[t]
            BY <4>2
          <6>2. g[t] = Row(g, t)
            <7> HIDE DEF Row, e
            <7> QED BY <3>2, <5>1
          <6> QED BY <6>1, <6>2
        <5>3. t # {} => e[t \ {Max(t)}] = g[t \ {Max(t)}]
          BY <4>2
        <5> HIDE DEF e
        <5> QED BY <5>2, <5>3
      <4> QED BY <4>1, <4>2
    <3>4. e = [t \in SUBSET (1..n) |-> e[t]]
      OBVIOUS
    <3>5. Folds(e, n)
      <4> HIDE DEF Row, e
      <4> QED BY <3>3, <3>4
    <3>6. Exists(n)
      <4> HIDE DEF Folds
      <4> QED BY <3>5
    <3> HIDE DEF Exists
    <3> QED BY <2>2, <3>6
  <2> QED BY <2>3, <2>4
<1>3. Folds(f, N)
  BY <1>2
<1> HIDE DEF f
<1> DEFINE h == [k \in 0..N |-> f[1..k]]
<1>4. h[0] = 0
  <2>1. 1..0 \in SUBSET (1..N) /\ 1..0 = {}
    OBVIOUS
  <2>2. f[1..0] = Row(f, 1..0)
    <3> HIDE DEF Row
    <3> QED BY <1>3, <2>1
  <2> QED BY <2>1, <2>2
<1>5. ASSUME NEW k \in 1..N PROVE h[k] = Op(h[k - 1], s[k])
  <2>1. 1..k \in SUBSET (1..N) /\ k \in 1..k /\ k \in Nat /\ k # 0 /\ 1..k \subseteq 1..k
    OBVIOUS
  <2>2. f[1..k] = Row(f, 1..k)
    <3> HIDE DEF Row
    <3> QED BY <1>3, <2>1
  <2>3. Max(1..k) = k /\ 1..k # {}
    <3> DEFINE t == 1..k
    <3>1. t \subseteq 1..k /\ k \in t
      BY <2>1
    <3> HIDE DEF t
    <3>2. Max(t) = k
      BY <2>1, <3>1, TopIsMax
    <3> QED BY <3>1, <3>2 DEF t
  <2>4. (1..k) \ {k} = 1..(k - 1)
    OBVIOUS
  <2>5. f[1..k] = Op(f[1..(k - 1)], s[k])
    BY <2>2, <2>3, <2>4
  <2>6. k \in 0..N /\ k - 1 \in 0..N
    OBVIOUS
  <2> QED BY <2>5, <2>6
<1>6. h[N] = f[1..N]
  OBVIOUS
<1> HIDE DEF h
<1> QED BY <1>1, <1>4, <1>5, <1>6 DEF Op

-----------------------------------------------------------------------------
(* The query engine.                                                        *)

Version == [epoch : Nat, seq : Nat]
Born == [dv : Nat, seq : Nat]
CacheKey == [kind : QKinds, dv : Nat, epoch : Nat, seq : Nat]
QueryValue == [dv : Nat, seen : SUBSET Nat, age : Nat]
CacheEntry == [key : CacheKey, value : QueryValue, bytes : Nat, ttl : BOOLEAN, expired : BOOLEAN]

Outside == [pc : {"out", "end"}, queue : BOOLEAN, exec : BOOLEAN, conn : BOOLEAN]
Asking == [pc : {"queued", "sync", "fetch"}, kind : QKinds, refresh : BOOLEAN, born : Born,
           queue : BOOLEAN, exec : BOOLEAN, conn : BOOLEAN]
Synced == [pc : {"connect", "lookup"}, kind : QKinds, refresh : BOOLEAN, born : Born,
           queue : BOOLEAN, exec : BOOLEAN, conn : BOOLEAN, version : Version]
Computing == [pc : {"run"}, kind : QKinds, born : Born, queue : BOOLEAN, exec : BOOLEAN,
              conn : BOOLEAN, key : CacheKey, read : Nat, seen : SUBSET Nat, age : Nat]
Answered == [pc : {"served"}, kind : QKinds, born : Born, queue : BOOLEAN, exec : BOOLEAN,
             conn : BOOLEAN, value : QueryValue]

QueryTypes ==
    /\ econf \in [connections : Nat, max_queued : Nat]
    /\ world \in [dv : Nat, epoch : Nat, seq : Nat]
    /\ sync \in [holder : QRequests \union {Free}, epoch : Nat, seq : Nat, rows : Nat]
    /\ sess \in [QRequests -> Outside \union Asking \union Synced \union Computing \union Answered]

\* A connection is in the hands of a task, which holds its execution permit until
\* the connection is back; and there are as many permits as connections.
PermitsOK ==
    /\ \A r \in QRequests :
         /\ sess[r].conn => sess[r].exec
         /\ sess[r].pc \in {"sync", "fetch", "connect"} => sess[r].exec /\ ~sess[r].conn
         /\ sess[r].pc \in {"out", "queued", "end"} => ~sess[r].conn
    /\ Cardinality(Holding("exec")) <= econf.connections

CacheOK ==
    /\ qcache = [entries |-> qcache.entries, bytes |-> qcache.bytes]
    /\ qcache.entries \in Seq(CacheEntry)
    /\ CacheAccountsExactly

EngineInv == QueryTypes /\ PermitsOK /\ CacheOK

\* The limits are numbers, and sets of requests are finite.
LEMMA QueryLimits ==
    /\ IsFiniteSet(QRequests) /\ CacheEntries \in Nat /\ CacheBytes \in Nat /\ ResultSizes \subseteq Nat
    /\ \A S \in SUBSET QRequests : IsFiniteSet(S) /\ Cardinality(S) \in Nat
<1>1. /\ IsFiniteSet(QRequests) /\ CacheEntries \in Nat /\ CacheBytes \in Nat /\ ResultSizes \subseteq Nat
  BY QueryAssumption
<1>2. ASSUME NEW S \in SUBSET QRequests PROVE IsFiniteSet(S) /\ Cardinality(S) \in Nat
  BY <1>1, FS_Subset, FS_CardinalityType
<1> QED BY <1>1, <1>2

-----------------------------------------------------------------------------
(* The cache's bytes.                                                       *)

\* h[k] is the sum of the first k entries.
PartialSums(h, s) ==
    /\ h \in [0..Len(s) -> Nat] /\ h[0] = 0
    /\ \A k \in 1..Len(s) : h[k] = h[k - 1] + s[k].bytes

\* The sum of a sequence is the last of its partial sums.
LEMMA LastPartialSum ==
    ASSUME NEW s \in Seq(CacheEntry)
    PROVE  \E h : PartialSums(h, s) /\ BytesOf(s) = h[Len(s)]
<1> DEFINE N == Len(s)
<1>1. N \in Nat /\ DOMAIN s = 1..N /\ \A k \in 1..N : s[k] \in CacheEntry
  OBVIOUS
<1> HIDE DEF N
<1>2. PICK g : g[0] = 0 /\ (\A k \in 1..N : g[k] = g[k - 1] + s[k].bytes) /\ BytesOf(s) = g[N]
  BY <1>1, SumSteps
<1>3. \A k \in 0..N : g[k] \in Nat
  <2> DEFINE T == {k \in 0..N : g[k] \notin Nat}
  <2> SUFFICES ASSUME T # {} PROVE FALSE
    OBVIOUS
  <2>1. PICK k \in T : \A m \in T : k <= m
    <3>1. T \subseteq Nat
      BY <1>1
    <3> HIDE DEF T
    <3> QED BY <3>1, LeastNatural
  <2>2. k # 0 => k \in 1..N /\ k - 1 \in 0..N /\ g[k - 1] \in Nat
    BY <1>1, <2>1
  <2>3. k # 0 => s[k].bytes \in Nat
    BY <1>1, <2>2 DEF CacheEntry
  <2> QED BY <1>1, <1>2, <2>1, <2>2, <2>3
<1> DEFINE h == [k \in 0..N |-> g[k]]
<1>4. h \in [0..N -> Nat]
  BY <1>3
<1>5. h[0] = 0 /\ BytesOf(s) = h[N] /\ \A k \in 1..N : h[k] = h[k - 1] + s[k].bytes
  BY <1>1, <1>2
<1> HIDE DEF h
<1> QED BY <1>4, <1>5 DEF N, PartialSums

\* Partial sums of sequences that agree up to a place agree there.
LEMMA SameSums ==
    ASSUME NEW s \in Seq(CacheEntry), NEW t \in Seq(CacheEntry), NEW g, NEW h,
           PartialSums(g, s), PartialSums(h, t),
           NEW n \in Nat, n <= Len(s), n <= Len(t), \A k \in 1..n : s[k].bytes = t[k].bytes
    PROVE  \A k \in 0..n : g[k] = h[k]
<1> DEFINE T == {k \in 0..n : g[k] # h[k]}
<1> SUFFICES ASSUME T # {} PROVE FALSE
  OBVIOUS
<1>1. PICK k \in T : \A j \in T : k <= j
  <2>1. T \subseteq Nat
    OBVIOUS
  <2> HIDE DEF T
  <2> QED BY <2>1, LeastNatural
<1>2. k # 0 /\ k \in 1..n /\ k \in 1..Len(s) /\ k \in 1..Len(t) /\ k - 1 \in 0..n
  BY <1>1 DEF PartialSums
<1>3. g[k - 1] = h[k - 1]
  BY <1>1, <1>2
<1>4. g[k] = g[k - 1] + s[k].bytes /\ h[k] = h[k - 1] + t[k].bytes /\ s[k].bytes = t[k].bytes
  BY <1>2 DEF PartialSums
<1> QED BY <1>1, <1>3, <1>4

\* The sum of nothing, and of one entry more.
LEMMA SumOfAppend ==
    /\ BytesOf(<<>>) = 0
    /\ \A s \in Seq(CacheEntry) : BytesOf(s) \in Nat
    /\ \A s \in Seq(CacheEntry), e \in CacheEntry : BytesOf(Append(s, e)) = BytesOf(s) + e.bytes
<1>1. BytesOf(<<>>) = 0
  <2>1. <<>> \in Seq(CacheEntry) /\ Len(<<>>) = 0
    OBVIOUS
  <2> QED BY <2>1, LastPartialSum DEF PartialSums
<1>2. ASSUME NEW s \in Seq(CacheEntry) PROVE BytesOf(s) \in Nat
  <2>1. PICK h : PartialSums(h, s) /\ BytesOf(s) = h[Len(s)]
    BY LastPartialSum
  <2>2. Len(s) \in 0..Len(s)
    OBVIOUS
  <2> QED BY <2>1, <2>2 DEF PartialSums
<1>3. ASSUME NEW s \in Seq(CacheEntry), NEW e \in CacheEntry
      PROVE  BytesOf(Append(s, e)) = BytesOf(s) + e.bytes
  <2> DEFINE n == Len(s)
             t == Append(s, e)
  <2>1. n \in Nat /\ t \in Seq(CacheEntry) /\ Len(t) = n + 1 /\ t[n + 1] = e /\ \A k \in 1..n : t[k] = s[k]
    OBVIOUS
  <2>2. PICK h : PartialSums(h, s) /\ BytesOf(s) = h[n]
    BY LastPartialSum
  <2> HIDE DEF t
  <2>3. PICK g : PartialSums(g, t) /\ BytesOf(t) = g[Len(t)]
    BY <2>1, LastPartialSum
  <2>4. g[n] = h[n]
    <3>1. n <= Len(t) /\ n <= n /\ \A k \in 1..n : t[k].bytes = s[k].bytes
      BY <2>1
    <3>2. \A k \in 0..n : g[k] = h[k]
      BY <2>1, <2>2, <2>3, <3>1, SameSums
    <3> QED BY <2>1, <3>2
  <2>5. g[n + 1] = g[n] + e.bytes
    <3>1. n + 1 \in 1..(n + 1) /\ (n + 1) - 1 = n
      BY <2>1
    <3> QED BY <2>1, <2>3, <3>1 DEF PartialSums
  <2> QED BY <2>1, <2>2, <2>3, <2>4, <2>5 DEF t
<1> QED BY <1>1, <1>2, <1>3

\* Sequences of the same bytes, entry by entry, have the same sum.
LEMMA SumOfSame ==
    ASSUME NEW s \in Seq(CacheEntry), NEW t \in Seq(CacheEntry), Len(s) = Len(t),
           \A k \in 1..Len(s) : s[k].bytes = t[k].bytes
    PROVE  BytesOf(s) = BytesOf(t)
<1>1. PICK h : PartialSums(h, s) /\ BytesOf(s) = h[Len(s)]
  BY LastPartialSum
<1>2. PICK g : PartialSums(g, t) /\ BytesOf(t) = g[Len(t)]
  BY LastPartialSum
<1>3. Len(s) \in Nat /\ Len(s) <= Len(s) /\ Len(s) <= Len(t) /\ Len(s) \in 0..Len(s)
  OBVIOUS
<1>4. \A k \in 0..Len(s) : h[k] = g[k]
  BY <1>1, <1>2, <1>3, SameSums
<1> QED BY <1>1, <1>2, <1>3, <1>4

\* Removing an entry.
LEMMA Removed ==
    ASSUME NEW S, NEW s \in Seq(S), NEW i \in 1..Len(s)
    PROVE  /\ RemoveAt(s, i) \in Seq(S) /\ Len(RemoveAt(s, i)) = Len(s) - 1
           /\ \A k \in 1..(i - 1) : RemoveAt(s, i)[k] = s[k]
           /\ \A k \in i..(Len(s) - 1) : RemoveAt(s, i)[k] = s[k + 1]
<1> DEFINE n == Len(s)
           a == SubSeq(s, 1, i - 1)
           b == SubSeq(s, i + 1, n)
<1>1. n \in Nat /\ i \in Nat /\ 1 <= i /\ i <= n
  OBVIOUS
<1>2. a \in Seq(S) /\ Len(a) = i - 1 /\ \A k \in 1..(i - 1) : a[k] = s[k]
  BY <1>1
<1>3. b \in Seq(S) /\ Len(b) = n - i /\ \A k \in 1..(n - i) : b[k] = s[k + i]
  BY <1>1
<1>4. RemoveAt(s, i) = a \o b
  BY DEF RemoveAt
<1> HIDE DEF a, b
<1>5. a \o b \in Seq(S) /\ Len(a \o b) = n - 1
  <2>1. a \o b \in Seq(S) /\ Len(a \o b) = Len(a) + Len(b)
    BY <1>2, <1>3, ConcatProperties
  <2> QED BY <1>1, <1>2, <1>3, <2>1
<1>6. \A k \in 1..(i - 1) : (a \o b)[k] = s[k]
  BY <1>1, <1>2, <1>3
<1>7. ASSUME NEW k \in i..(n - 1) PROVE (a \o b)[k] = s[k + 1]
  <2>1. k > Len(a) /\ k <= Len(a) + Len(b) /\ k - Len(a) \in 1..(n - i)
    BY <1>1, <1>2, <1>3
  <2>2. (a \o b)[k] = b[k - Len(a)]
    BY <1>2, <1>3, <2>1
  <2> QED BY <1>1, <1>2, <1>3, <2>1, <2>2
<1> QED BY <1>4, <1>5, <1>6, <1>7

\* Removing an entry takes its bytes off the sum.
LEMMA SumOfRemove ==
    ASSUME NEW s \in Seq(CacheEntry), NEW i \in 1..Len(s)
    PROVE  BytesOf(RemoveAt(s, i)) = BytesOf(s) - s[i].bytes
<1> DEFINE n == Len(s)
           t == RemoveAt(s, i)
<1>1. /\ t \in Seq(CacheEntry) /\ Len(t) = n - 1 /\ n \in Nat /\ i \in 1..n
      /\ \A k \in 1..(i - 1) : t[k] = s[k]
      /\ \A k \in i..(n - 1) : t[k] = s[k + 1]
      /\ s[i].bytes \in Nat
  <2>1. n \in Nat /\ i \in 1..n /\ s[i] \in CacheEntry
    OBVIOUS
  <2>2. s[i].bytes \in Nat
    BY <2>1 DEF CacheEntry
  <2> HIDE DEF CacheEntry
  <2> QED BY <2>1, <2>2, Removed
<1> HIDE DEF t
<1>2. PICK h : PartialSums(h, s) /\ BytesOf(s) = h[n]
  BY LastPartialSum
<1>3. PICK g : PartialSums(g, t) /\ BytesOf(t) = g[n - 1]
  BY <1>1, LastPartialSum
<1>4. \A k \in 0..(i - 1) : g[k] = h[k]
  <2>1. i - 1 \in Nat /\ i - 1 <= Len(t) /\ i - 1 <= Len(s)
    BY <1>1
  <2>2. \A k \in 1..(i - 1) : t[k].bytes = s[k].bytes
    BY <1>1
  <2> HIDE DEF n
  <2>3. PICK j : j = i - 1
    OBVIOUS
  <2>4. j \in Nat /\ j <= Len(t) /\ j <= Len(s) /\ \A k \in 1..j : t[k].bytes = s[k].bytes
    BY <2>1, <2>2, <2>3
  <2>5. \A k \in 0..j : g[k] = h[k]
    BY <1>1, <1>2, <1>3, <2>4, SameSums
  <2> QED BY <2>3, <2>5
<1>7. /\ h \in [0..n -> Nat] /\ \A k \in 1..n : h[k] = h[k - 1] + s[k].bytes
      /\ \A k \in 1..(n - 1) : g[k] = g[k - 1] + t[k].bytes
  BY <1>1, <1>2, <1>3 DEF PartialSums
<1> HIDE DEF n
<1>5. \A k \in i..n : g[k - 1] = h[k] - s[i].bytes
  <2> DEFINE T == {k \in i..n : g[k - 1] # h[k] - s[i].bytes}
  <2> SUFFICES ASSUME T # {} PROVE FALSE
    OBVIOUS
  <2>1. PICK k \in T : \A j \in T : k <= j
    <3>1. T \subseteq Nat
      BY <1>1
    <3> HIDE DEF T
    <3> QED BY <3>1, LeastNatural
  <2>2. k \in 1..n /\ h[k] = h[k - 1] + s[k].bytes /\ k - 1 \in 0..n /\ h[k - 1] \in Nat /\ h[k] \in Nat
    BY <1>1, <1>7, <2>1
  <2>3. CASE k = i
    <3>1. g[k - 1] = h[k - 1]
      BY <1>1, <1>4, <2>3
    <3>2. h[k] = g[k - 1] + s[i].bytes
      BY <2>2, <2>3, <3>1
    <3>3. g[k - 1] = h[k] - s[i].bytes
      BY <1>1, <2>2, <3>1, <3>2
    <3> QED BY <2>1, <3>3
  <2>4. CASE k # i
    <3>1. k - 1 \in i..n /\ k - 1 \in 1..(n - 1) /\ k - 1 \in i..(n - 1)
      BY <1>1, <2>1, <2>4
    <3>2. k - 1 \notin T
      BY <2>1, <2>2
    <3>3. g[(k - 1) - 1] = h[k - 1] - s[i].bytes
      BY <3>1, <3>2
    <3>4. g[k - 1] = g[(k - 1) - 1] + t[k - 1].bytes
      BY <1>7, <3>1
    <3>5. t[k - 1] = s[k]
      <4>1. (k - 1) + 1 = k
        BY <2>2
      <4> QED BY <1>1, <3>1, <4>1
    <3>6. s[k].bytes \in Nat
      <4>1. s[k] \in CacheEntry
        BY <2>2 DEF n
      <4> QED BY <4>1 DEF CacheEntry
    <3>7. g[k - 1] = (h[k - 1] - s[i].bytes) + s[k].bytes
      BY <3>3, <3>4, <3>5
    <3>8. h[k] = h[k - 1] + s[k].bytes /\ h[k - 1] \in Nat
      BY <2>2
    <3>9. g[k - 1] = h[k] - s[i].bytes
      <4> HIDE DEF CacheEntry
      <4> QED BY <1>1, <3>6, <3>7, <3>8
    <3> QED BY <2>1, <3>9
  <2> QED BY <2>3, <2>4
<1>6. g[n - 1] = h[n] - s[i].bytes
  BY <1>1, <1>5
<1> QED BY <1>2, <1>3, <1>6 DEF t

\* The keys of entries are their own.
KeysDiffer(s) == \A i, j \in DOMAIN s : s[i].key = s[j].key => i = j
\* A cache that counts its bytes.
Accounts(c) ==
    /\ c = [entries |-> c.entries, bytes |-> c.bytes]
    /\ c.entries \in Seq(CacheEntry) /\ KeysDiffer(c.entries)
    /\ c.bytes = BytesOf(c.entries)
Within(c) == c.bytes <= CacheBytes /\ Len(c.entries) <= CacheEntries
\* Every entry of d is one of c's.
DrawnFrom(d, c) == \A i \in DOMAIN d.entries : \E j \in DOMAIN c.entries : d.entries[i] = c.entries[j]

\* What CacheAccountsExactly says of the cache.
LEMMA CacheIs == CacheOK <=> Accounts(qcache) /\ Within(qcache)
BY DEF CacheOK, CacheAccountsExactly, Accounts, Within, KeysDiffer

\* An entry goes with its bytes.
LEMMA EntryRemoved ==
    ASSUME NEW c, Accounts(c), NEW i \in DOMAIN c.entries
    PROVE  LET d == RemoveEntry(c, i)
           IN /\ Accounts(d) /\ DrawnFrom(d, c) /\ Len(d.entries) = Len(c.entries) - 1
              /\ d.bytes <= c.bytes /\ \A k \in DOMAIN d.entries : d.entries[k].key # c.entries[i].key
<1> DEFINE s == c.entries
           d == RemoveEntry(c, i)
<1>1. s \in Seq(CacheEntry) /\ i \in 1..Len(s) /\ Len(s) \in Nat /\ DOMAIN s = 1..Len(s)
  BY DEF Accounts
<1>2. d.entries = RemoveAt(s, i) /\ d.bytes = c.bytes - s[i].bytes /\ d = [entries |-> d.entries, bytes |-> d.bytes]
  BY DEF RemoveEntry
<1>3. KeysDiffer(s) /\ c.bytes = BytesOf(s)
  BY DEF Accounts
<1>4. s[i] \in CacheEntry
  BY <1>1
<1>5. s[i].bytes \in Nat /\ BytesOf(s) \in Nat
  BY <1>1, <1>4, SumOfAppend DEF CacheEntry
<1> DEFINE t == RemoveAt(s, i)
<1> HIDE DEF s, d
<1>6. /\ t \in Seq(CacheEntry) /\ Len(t) = Len(s) - 1
      /\ \A k \in 1..(i - 1) : t[k] = s[k]
      /\ \A k \in i..(Len(s) - 1) : t[k] = s[k + 1]
  BY <1>1, Removed
<1>7. BytesOf(t) = BytesOf(s) - s[i].bytes
  BY <1>1, SumOfRemove
<1> HIDE DEF t
<1>8. DOMAIN t = 1..(Len(s) - 1)
  BY <1>1, <1>6
<1> DEFINE from(k) == IF k < i THEN k ELSE k + 1
<1>9. \A k \in DOMAIN t : from(k) \in DOMAIN s /\ from(k) # i /\ t[k] = s[from(k)]
  BY <1>1, <1>6, <1>8
<1>10. \A k, l \in DOMAIN t : from(k) = from(l) => k = l
  BY <1>1, <1>8
<1> HIDE DEF from
<1>11. KeysDiffer(t)
  BY <1>3, <1>9, <1>10 DEF KeysDiffer
<1>12. \A k \in DOMAIN t : t[k].key # s[i].key
  BY <1>1, <1>3, <1>9 DEF KeysDiffer
<1>13. d.entries = t /\ d.bytes = BytesOf(t)
  BY <1>2, <1>3, <1>7 DEF t
<1>14. Accounts(d)
  BY <1>2, <1>6, <1>11, <1>13 DEF Accounts
<1>15. DrawnFrom(d, c)
  BY <1>9, <1>13 DEF DrawnFrom, s
<1>16. d.bytes <= c.bytes
  BY <1>3, <1>5, <1>7, <1>13
<1> QED BY <1>6, <1>12, <1>13, <1>14, <1>15, <1>16 DEF s, d

\* put clears the key's entry first.
LEMMA KeyCleared ==
    ASSUME NEW c, Accounts(c), Within(c), NEW key
    PROVE  LET d == Without(c, key)
           IN /\ Accounts(d) /\ Within(d) /\ DrawnFrom(d, c)
              /\ \A k \in DOMAIN d.entries : d.entries[k].key # key
<1> DEFINE d == Without(c, key)
<1>1. CASE At(c, key) = {}
  <2>1. d = c
    BY <1>1 DEF Without
  <2>2. \A k \in DOMAIN c.entries : c.entries[k].key # key
    BY <1>1 DEF At, Accounts
  <2> QED BY <2>1, <2>2 DEF DrawnFrom
<1>2. CASE At(c, key) # {}
  <2>1. PICK i \in At(c, key) : d = RemoveEntry(c, i)
    BY <1>2 DEF Without
  <2>2. i \in DOMAIN c.entries /\ c.entries[i].key = key
    BY <2>1 DEF At, Accounts
  <2>3. /\ Accounts(d) /\ DrawnFrom(d, c) /\ Len(d.entries) = Len(c.entries) - 1 /\ d.bytes <= c.bytes
        /\ \A k \in DOMAIN d.entries : d.entries[k].key # key
    BY <2>1, <2>2, EntryRemoved
  <2>4. /\ c.bytes \in Nat /\ d.bytes \in Nat /\ Len(c.entries) \in Nat
        /\ c.bytes <= CacheBytes /\ Len(c.entries) <= CacheEntries
    BY <2>3, SumOfAppend DEF Accounts, Within
  <2> HIDE DEF d
  <2>5. Within(d)
    BY <2>3, <2>4, QueryLimits DEF Within
  <2> QED BY <2>3, <2>5 DEF d
<1> QED BY <1>1, <1>2

\* One eviction: the limits hold already, or an entry goes.
LEMMA OneEvicted ==
    ASSUME NEW c, Accounts(c), NEW e
    PROVE  LET d == EvictOldest(c, e)
           IN /\ Accounts(d) /\ DrawnFrom(d, c)
              /\ Within(c) => Within(d)
              /\ ~Within(c) => Len(d.entries) = Len(c.entries) - 1
<1> DEFINE d == EvictOldest(c, e)
<1>1. Len(c.entries) \in Nat /\ c.bytes \in Nat
  BY SumOfAppend DEF Accounts
<1>2. CASE Len(c.entries) > CacheEntries \/ c.bytes > CacheBytes
  <2>1. Len(c.entries) # 0
    <3> SUFFICES ASSUME Len(c.entries) = 0 PROVE FALSE
      OBVIOUS
    <3>1. c.entries = <<>>
      BY DEF Accounts
    <3>2. c.bytes = 0
      BY <3>1, SumOfAppend DEF Accounts
    <3> QED BY <1>2, <3>2, QueryLimits
  <2>2. 1 \in DOMAIN c.entries
    <3>1. DOMAIN c.entries = 1..Len(c.entries)
      BY DEF Accounts
    <3> QED BY <1>1, <2>1, <3>1
  <2>3. d = RemoveEntry(c, 1)
    BY <1>2 DEF EvictOldest
  <2>4. ~Within(c)
    BY <1>1, <1>2, QueryLimits DEF Within
  <2> QED BY <2>2, <2>3, <2>4, EntryRemoved
<1>3. CASE ~(Len(c.entries) > CacheEntries \/ c.bytes > CacheBytes)
  <2>1. d = c
    BY <1>3 DEF EvictOldest
  <2>2. Within(c)
    BY <1>1, <1>3, QueryLimits DEF Within
  <2> QED BY <2>1, <2>2 DEF DrawnFrom
<1> QED BY <1>2, <1>3

\* As many evictions as there are entries reach the limits.
LEMMA Evicted ==
    ASSUME NEW c, Accounts(c)
    PROVE  LET d == EvictAll(c, c.entries)
           IN Accounts(d) /\ Within(d) /\ DrawnFrom(d, c)
<1> DEFINE s == c.entries
           N == Len(s)
           d == EvictAll(c, s)
<1>1. N \in Nat /\ DOMAIN s = 1..N
  BY DEF Accounts
<1> HIDE DEF s, N, d
<1>2. PICK h : h[0] = c /\ (\A k \in 1..N : h[k] = EvictOldest(h[k - 1], s[k])) /\ d = h[N]
  <2>1. PICK h : Evictions(h, c, s, N) /\ EvictAll(c, s) = h[N]
    BY <1>1, EvictionSteps
  <2> QED BY <2>1 DEF d, Evictions
<1> DEFINE Good(k) == /\ Accounts(h[k]) /\ DrawnFrom(h[k], c)
                      /\ Within(h[k]) \/ Len(h[k].entries) = N - k
<1>3. Good(N)
  <2> DEFINE T == {k \in 0..N : ~Good(k)}
  <2> SUFFICES ASSUME T # {} PROVE FALSE
    BY <1>1
  <2>1. PICK k \in T : \A m \in T : k <= m
    <3>1. T \subseteq Nat
      BY <1>1
    <3> HIDE DEF T
    <3> QED BY <3>1, LeastNatural
  <2>2. CASE k = 0
    <3>1. Good(0)
      BY <1>1, <1>2 DEF DrawnFrom, N, s
    <3> HIDE DEF Good
    <3> QED BY <2>1, <2>2, <3>1
  <2>3. CASE k # 0
    <3>1. k \in 1..N /\ k - 1 \in 0..N /\ k \in Nat
      BY <1>1, <2>1, <2>3
    <3>2. Good(k - 1)
      <4> HIDE DEF Good
      <4> QED BY <1>1, <2>1, <3>1
    <3>3. h[k] = EvictOldest(h[k - 1], s[k])
      BY <1>2, <3>1
    <3>4. /\ Accounts(h[k]) /\ DrawnFrom(h[k], h[k - 1])
          /\ Within(h[k - 1]) => Within(h[k])
          /\ ~Within(h[k - 1]) => Len(h[k].entries) = Len(h[k - 1].entries) - 1
      BY <3>2, <3>3, OneEvicted
    <3>5. DrawnFrom(h[k], c)
      BY <3>2, <3>4 DEF DrawnFrom
    <3>6. ~Within(h[k]) => Len(h[k].entries) = N - k
      <4> SUFFICES ASSUME ~Within(h[k]) PROVE Len(h[k].entries) = N - k
        OBVIOUS
      <4>1. Len(h[k].entries) = Len(h[k - 1].entries) - 1 /\ Len(h[k - 1].entries) = N - (k - 1)
        BY <3>2, <3>4
      <4> QED BY <1>1, <3>1, <4>1
    <3>7. Good(k)
      BY <3>4, <3>5, <3>6
    <3> HIDE DEF Good
    <3> QED BY <2>1, <3>7
  <2> QED BY <2>2, <2>3
<1>4. Within(d)
  <2> SUFFICES ASSUME Len(d.entries) = 0 PROVE Within(d)
    BY <1>1, <1>2, <1>3
  <2>1. Accounts(d)
    BY <1>2, <1>3
  <2>2. d.entries = <<>>
    BY <2>1 DEF Accounts
  <2>3. d.bytes = 0
    BY <2>1, <2>2, SumOfAppend DEF Accounts
  <2> QED BY <2>3, QueryLimits DEF Within
<1> QED BY <1>2, <1>3, <1>4 DEF d, s

\* put keeps the account and the limits, and adds at most the entry it was given.
LEMMA PutKeeps ==
    ASSUME NEW c, Accounts(c), Within(c), NEW key \in CacheKey, NEW value \in QueryValue,
           NEW bytes \in Nat, NEW ttl \in BOOLEAN
    PROVE  LET d == put(c, key, value, bytes, ttl)
               e == [key |-> key, value |-> value, bytes |-> bytes, ttl |-> ttl, expired |-> FALSE]
           IN /\ Accounts(d) /\ Within(d)
              /\ \A i \in DOMAIN d.entries :
                   d.entries[i] = e \/ \E j \in DOMAIN c.entries : d.entries[i] = c.entries[j]
<1> DEFINE d == put(c, key, value, bytes, ttl)
           e == [key |-> key, value |-> value, bytes |-> bytes, ttl |-> ttl, expired |-> FALSE]
           w == Without(c, key)
           a == Append(w.entries, e)
           f == [entries |-> a, bytes |-> w.bytes + bytes]
<1>1. Accounts(w) /\ Within(w) /\ DrawnFrom(w, c) /\ \A k \in DOMAIN w.entries : w.entries[k].key # key
  BY KeyCleared
<1>2. e \in CacheEntry /\ e.key = key /\ e.bytes = bytes
  BY DEF CacheEntry
<1>3. d = IF CacheEntries = 0 \/ bytes > CacheBytes THEN w ELSE EvictAll(f, f.entries)
  BY DEF put, EvictAll
<1> HIDE DEF d, e, w
<1>4. /\ a \in Seq(CacheEntry) /\ Len(a) = Len(w.entries) + 1 /\ Len(w.entries) \in Nat
      /\ DOMAIN a = 1..(Len(w.entries) + 1) /\ DOMAIN w.entries = 1..Len(w.entries)
      /\ a[Len(w.entries) + 1] = e /\ \A k \in 1..Len(w.entries) : a[k] = w.entries[k]
  BY <1>1, <1>2 DEF Accounts
<1>5. \A k \in DOMAIN a : k = Len(w.entries) + 1 \/ k \in DOMAIN w.entries
  BY <1>4
<1>6. BytesOf(a) = w.bytes + bytes
  BY <1>1, <1>2, SumOfAppend DEF Accounts
<1> HIDE DEF a
<1>7. KeysDiffer(a)
  BY <1>1, <1>2, <1>4, <1>5 DEF KeysDiffer, Accounts
<1>8. Accounts(f)
  BY <1>4, <1>6, <1>7 DEF Accounts
<1>9. \A i \in DOMAIN f.entries : f.entries[i] = e \/ \E j \in DOMAIN c.entries : f.entries[i] = c.entries[j]
  BY <1>1, <1>4, <1>5 DEF DrawnFrom
<1> HIDE DEF f
<1>10. CASE CacheEntries = 0 \/ bytes > CacheBytes
  BY <1>1, <1>3, <1>10 DEF DrawnFrom, d, e
<1>11. CASE ~(CacheEntries = 0 \/ bytes > CacheBytes)
  <2>1. d = EvictAll(f, f.entries)
    BY <1>3, <1>11
  <2>2. Accounts(d) /\ Within(d) /\ DrawnFrom(d, f)
    BY <1>8, <2>1, Evicted
  <2>3. ASSUME NEW i \in DOMAIN d.entries
        PROVE  d.entries[i] = e \/ \E j \in DOMAIN c.entries : d.entries[i] = c.entries[j]
    <3>1. PICK k \in DOMAIN f.entries : d.entries[i] = f.entries[k]
      BY <2>2 DEF DrawnFrom
    <3> QED BY <1>9, <3>1
  <2> QED BY <2>2, <2>3 DEF d, e
<1> QED BY <1>10, <1>11

\* get drops an expired entry, and moves the others behind.
LEMMA GetKeeps ==
    ASSUME NEW c, Accounts(c), Within(c), NEW i \in DOMAIN c.entries
    PROVE  LET d == get(c, i) IN Accounts(d) /\ Within(d) /\ DrawnFrom(d, c)
<1> DEFINE d == get(c, i)
           s == c.entries
           w == RemoveEntry(c, i)
<1>1. /\ Accounts(w) /\ DrawnFrom(w, c) /\ Len(w.entries) = Len(s) - 1 /\ w.bytes <= c.bytes
      /\ \A k \in DOMAIN w.entries : w.entries[k].key # s[i].key
  BY EntryRemoved
<1>2. /\ c.bytes \in Nat /\ w.bytes \in Nat /\ Len(s) \in Nat /\ c.bytes <= CacheBytes
      /\ Len(s) <= CacheEntries /\ s[i] \in CacheEntry /\ s \in Seq(CacheEntry)
  BY <1>1, SumOfAppend DEF Accounts, Within
<1>3. w.entries = RemoveAt(s, i) /\ w.bytes = c.bytes - s[i].bytes
  BY DEF RemoveEntry
<1>4. CASE s[i].expired
  <2>1. d = w
    BY <1>4 DEF get
  <2> HIDE DEF d, w, s
  <2>2. Within(w)
    BY <1>1, <1>2, QueryLimits DEF Within
  <2> QED BY <1>1, <2>1, <2>2 DEF d
<1>5. CASE ~s[i].expired
  <2> DEFINE a == Append(w.entries, s[i])
  <2>1. d = [c EXCEPT !.entries = a]
    BY <1>3, <1>5 DEF get
  <2>2. c = [entries |-> s, bytes |-> c.bytes]
    BY DEF Accounts
  <2>3. d = [entries |-> a, bytes |-> c.bytes]
    BY <2>1, <2>2
  <2> HIDE DEF d, w, s
  <2>4. /\ a \in Seq(CacheEntry) /\ Len(a) = Len(w.entries) + 1 /\ Len(w.entries) \in Nat
        /\ DOMAIN a = 1..(Len(w.entries) + 1) /\ DOMAIN w.entries = 1..Len(w.entries)
        /\ a[Len(w.entries) + 1] = s[i] /\ \A k \in 1..Len(w.entries) : a[k] = w.entries[k]
    BY <1>1, <1>2 DEF Accounts
  <2>5. \A k \in DOMAIN a : k = Len(w.entries) + 1 \/ k \in DOMAIN w.entries
    BY <2>4
  <2>6. BytesOf(a) = w.bytes + s[i].bytes
    BY <1>1, <1>2, SumOfAppend DEF Accounts
  <2>7. s[i].bytes \in Nat
    BY <1>2 DEF CacheEntry
  <2>8. BytesOf(a) = c.bytes
    BY <1>2, <1>3, <2>6, <2>7
  <2> HIDE DEF a
  <2>9. KeysDiffer(a)
    BY <1>1, <2>4, <2>5 DEF KeysDiffer, Accounts
  <2>10. Accounts(d)
    BY <2>3, <2>4, <2>8, <2>9 DEF Accounts
  <2>11. Within(d)
    <3>1. d.entries = a /\ d.bytes = c.bytes /\ Len(a) = Len(s)
      <4>1. Len(a) = (Len(s) - 1) + 1
        BY <1>1, <2>4
      <4> QED BY <1>2, <2>3, <4>1
    <3> QED BY <1>2, <3>1 DEF Within
  <2>12. DrawnFrom(d, c)
    <3>1. i \in DOMAIN c.entries /\ s[i] = c.entries[i]
      BY DEF s
    <3>2. d.entries = a
      BY <2>3
    <3>3. ASSUME NEW k \in DOMAIN a PROVE \E j \in DOMAIN c.entries : a[k] = c.entries[j]
      <4>1. CASE k = Len(w.entries) + 1
        BY <2>4, <3>1, <4>1
      <4>2. CASE k \in DOMAIN w.entries
        <5>1. a[k] = w.entries[k]
          BY <2>4, <4>2
        <5> QED BY <1>1, <4>2, <5>1 DEF DrawnFrom
      <4> QED BY <2>5, <3>3, <4>1, <4>2
    <3> QED BY <3>2, <3>3 DEF DrawnFrom
  <2> QED BY <2>10, <2>11, <2>12 DEF d
<1> QED BY <1>4, <1>5

TaskState == Outside \union Asking \union Synced \union Computing \union Answered

\* What PermitsOK says of one task.
HoldsWell(w) ==
    /\ w.conn => w.exec
    /\ w.pc \in {"sync", "fetch", "connect"} => w.exec /\ ~w.conn
    /\ w.pc \in {"out", "queued", "end"} => ~w.conn

\* A step of one task keeps the permits, if it takes none or one that is free.
LEMMA TaskMoves ==
    ASSUME EngineInv, NEW r \in QRequests, NEW w \in TaskState, HoldsWell(w), UNCHANGED econf,
           sess' = [sess EXCEPT ![r] = w],
           w.exec => sess[r].exec \/ Cardinality(Holding("exec")) < econf.connections
    PROVE  sess' \in [QRequests -> TaskState] /\ PermitsOK'
<1>1. QueryTypes /\ PermitsOK
  BY DEF EngineInv
<1>2. sess \in [QRequests -> TaskState] /\ econf.connections \in Nat
  BY <1>1 DEF QueryTypes, TaskState
<1>3. sess' \in [QRequests -> TaskState] /\ sess'[r] = w /\ \A q \in QRequests : q # r => sess'[q] = sess[q]
  BY <1>2
<1>4. ASSUME NEW q \in QRequests PROVE HoldsWell(sess'[q])
  <2>1. CASE q = r
    BY <1>3, <2>1
  <2>2. CASE q # r
    BY <1>1, <1>3, <2>2 DEF PermitsOK, HoldsWell
  <2> QED BY <2>1, <2>2
<1> DEFINE H == {q \in QRequests : sess[q].exec}
           I == {q \in QRequests : sess'[q].exec}
<1>5. Holding("exec") = H /\ Holding("exec")' = I
  BY DEF Holding
<1>6. H \subseteq QRequests /\ I \subseteq QRequests /\ I \subseteq H \union {r} /\ (~w.exec \/ r \in H => I \subseteq H)
  BY <1>3
<1>7. Cardinality(H) <= econf.connections
  BY <1>1, <1>5 DEF PermitsOK
<1>8. w.exec => r \in H \/ Cardinality(H) < econf.connections
  BY <1>5
<1> HIDE DEF H, I
<1>9. IsFiniteSet(H) /\ IsFiniteSet(I) /\ Cardinality(H) \in Nat /\ Cardinality(I) \in Nat
  BY <1>6, QueryLimits
<1>10. Cardinality(I) <= econf.connections
  <2>1. CASE I \subseteq H
    <3>1. Cardinality(I) <= Cardinality(H)
      BY <1>9, <2>1, FS_Subset
    <3> QED BY <1>2, <1>7, <1>9, <3>1
  <2>2. CASE Cardinality(H) < econf.connections
    <3> DEFINE J == H \union {r}
    <3>0. IsFiniteSet(J) /\ (Cardinality(J) = Cardinality(H) \/ Cardinality(J) = Cardinality(H) + 1)
      BY <1>9, FS_AddElement
    <3>1. IsFiniteSet(J) /\ Cardinality(J) <= Cardinality(H) + 1
      BY <1>9, <3>0
    <3>2. Cardinality(I) <= Cardinality(J) /\ Cardinality(J) \in Nat
      BY <1>6, <3>1, FS_Subset, FS_CardinalityType
    <3> QED BY <1>2, <1>9, <2>2, <3>1, <3>2
  <2> QED BY <1>6, <1>8, <2>1, <2>2
<1>11. PermitsOK'
  BY <1>4, <1>5, <1>10 DEF PermitsOK, HoldsWell
<1> QED BY <1>3, <1>11

\* The same, when the rest of the engine keeps its types.
LEMMA TaskMovesAlone ==
    ASSUME EngineInv, NEW r \in QRequests, NEW w \in TaskState, HoldsWell(w),
           UNCHANGED <<econf, world>>,
           sync' \in [holder : QRequests \union {Free}, epoch : Nat, seq : Nat, rows : Nat], CacheOK',
           sess' = [sess EXCEPT ![r] = w],
           w.exec => sess[r].exec \/ Cardinality(Holding("exec")) < econf.connections
    PROVE  EngineInv'
<1>1. sess' \in [QRequests -> TaskState] /\ PermitsOK'
  BY TaskMoves
<1>2. QueryTypes
  BY DEF EngineInv
<1>3. QueryTypes'
  BY <1>1, <1>2 DEF QueryTypes, TaskState
<1> QED BY <1>1, <1>3 DEF EngineInv

\* The parts of the invariant a step may leave alone.
LEMMA CacheIsNext == CacheOK' <=> Accounts(qcache') /\ Within(qcache')
BY DEF CacheOK, CacheAccountsExactly, Accounts, Within, KeysDiffer

\* An untouched cache stays in order.
LEMMA CacheStays == CacheOK /\ UNCHANGED qcache => CacheOK'
BY CacheIs, CacheIsNext

\* What the invariant says of a task in each place of the pipeline.
LEMMA Tasks ==
    ASSUME EngineInv
    PROVE  /\ sync \in [holder : QRequests \union {Free}, epoch : Nat, seq : Nat, rows : Nat]
           /\ world \in [dv : Nat, epoch : Nat, seq : Nat] /\ CacheOK
           /\ \A r \in QRequests :
                /\ sess[r] \in TaskState /\ HoldsWell(sess[r])
                /\ sess[r].pc \in {"queued", "sync", "fetch"} => sess[r] \in Asking
                /\ sess[r].pc \in {"connect", "lookup"} => sess[r] \in Synced
                /\ sess[r].pc = "run" => sess[r] \in Computing
                /\ sess[r].pc = "served" => sess[r] \in Answered
                /\ sess[r].queue \in BOOLEAN /\ sess[r].exec \in BOOLEAN /\ sess[r].conn \in BOOLEAN
<1>1. QueryTypes /\ PermitsOK /\ CacheOK
  BY DEF EngineInv
<1>2. \A r \in QRequests : sess[r] \in TaskState /\ HoldsWell(sess[r])
  BY <1>1 DEF QueryTypes, PermitsOK, TaskState, HoldsWell
<1>3. ASSUME NEW w \in TaskState
      PROVE  /\ w.pc \in {"queued", "sync", "fetch"} => w \in Asking
             /\ w.pc \in {"connect", "lookup"} => w \in Synced
             /\ w.pc = "run" => w \in Computing
             /\ w.pc = "served" => w \in Answered
             /\ w.queue \in BOOLEAN /\ w.exec \in BOOLEAN /\ w.conn \in BOOLEAN
  BY DEF TaskState, Outside, Asking, Synced, Computing, Answered
<1> QED BY <1>1, <1>2, <1>3 DEF QueryTypes

\* The engine starts empty.
LEMMA EngineStarts == QueryInit => EngineInv
<1> SUFFICES ASSUME QueryInit PROVE EngineInv
  OBVIOUS
<1>1. QueryTypes
  <2>1. OutOfEngine \in Outside
    BY DEF OutOfEngine, Outside
  <2> QED BY <2>1, QueryAssumption DEF QueryInit, QueryTypes
<1>2. PermitsOK
  <2>1. Holding("exec") = {}
    BY DEF QueryInit, Holding, OutOfEngine
  <2>2. Cardinality({}) = 0
    BY FS_EmptySet
  <2>3. \A r \in QRequests : sess[r] = OutOfEngine
    BY DEF QueryInit
  <2>4. Cardinality(Holding("exec")) <= econf.connections
    BY <1>1, <2>1, <2>2, SMTT(30) DEF QueryTypes
  <2>5. \A r \in QRequests : ~sess[r].conn /\ sess[r].pc = "out"
    BY <2>3 DEF OutOfEngine
  <2> QED BY <2>4, <2>5 DEF PermitsOK
<1>3. Accounts(qcache) /\ Within(qcache)
  <2>1. qcache.entries = <<>> /\ qcache.bytes = 0 /\ qcache = [entries |-> <<>>, bytes |-> 0]
    BY DEF QueryInit
  <2>2. <<>> \in Seq(CacheEntry) /\ Len(<<>>) = 0
    OBVIOUS
  <2> QED BY <2>1, <2>2, SumOfAppend, QueryLimits DEF Accounts, Within, KeysDiffer
<1> QED BY <1>1, <1>2, <1>3, CacheIs DEF EngineInv

\* An admission takes a queue permit, which is free.
LEMMA EngineAdmit ==
    ASSUME EngineInv, NEW r \in QRequests, NEW kind \in QKinds, NEW refresh \in BOOLEAN,
           admit(r, kind, refresh)
    PROVE  EngineInv'
<1> DEFINE w == [pc |-> "queued", kind |-> kind, refresh |-> refresh, born |-> [dv |-> world.dv, seq |-> world.seq],
                 queue |-> TRUE, exec |-> FALSE, conn |-> FALSE]
<1>1. w \in TaskState /\ HoldsWell(w) /\ ~w.exec
  BY Tasks DEF TaskState, Asking, Born, HoldsWell
<1>2. sess' = [sess EXCEPT ![r] = w] /\ UNCHANGED <<econf, world, sync, qcache>>
  BY DEF admit
<1> HIDE DEF w
<1> QED BY <1>1, <1>2, Tasks, CacheStays, TaskMovesAlone

\* A queued task that takes an execution permit.
LEMMA EngineExecute ==
    ASSUME EngineInv, NEW r \in QRequests, Execute(r)
    PROVE  EngineInv'
<1> DEFINE s == sess[r]
           w == [pc |-> "sync", kind |-> s.kind, refresh |-> s.refresh, born |-> s.born,
                 queue |-> s.queue, exec |-> TRUE, conn |-> s.conn]
<1>1. s \in Asking /\ ~s.conn
  BY Tasks DEF Execute, HoldsWell
<1>2. w \in TaskState /\ HoldsWell(w)
  BY <1>1 DEF TaskState, Asking, HoldsWell
<1>3. sess' = [sess EXCEPT ![r] = w]
  <2>1. sess \in [QRequests -> TaskState]
    BY DEF EngineInv, QueryTypes, TaskState
  <2>2. sess' = [[sess EXCEPT ![r].pc = "sync"] EXCEPT ![r].exec = TRUE]
    BY Zenon DEF Execute
  <2>3. [[s EXCEPT !.pc = "sync"] EXCEPT !.exec = TRUE] = w
    <3>1. s = [pc |-> s.pc, kind |-> s.kind, refresh |-> s.refresh, born |-> s.born,
               queue |-> s.queue, exec |-> s.exec, conn |-> s.conn]
      BY <1>1 DEF Asking
    <3> HIDE DEF s
    <3> DEFINE v == [s EXCEPT !.pc = "sync"]
    <3>2. v = [pc |-> "sync", kind |-> s.kind, refresh |-> s.refresh, born |-> s.born,
               queue |-> s.queue, exec |-> s.exec, conn |-> s.conn]
      BY <3>1
    <3> HIDE DEF v
    <3> DEFINE t == TRUE
    <3>3. [v EXCEPT !.exec = t] = [pc |-> "sync", kind |-> s.kind, refresh |-> s.refresh,
               born |-> s.born, queue |-> s.queue, exec |-> t, conn |-> s.conn]
      <4> HIDE DEF t
      <4> QED BY <3>2
    <3> QED BY <3>3 DEF v
  <2> QED BY <2>1, <2>2, <2>3
<1>4. UNCHANGED <<econf, world, sync, qcache>> /\ Cardinality(Holding("exec")) < econf.connections
  BY DEF Execute
<1> HIDE DEF w
<1> QED BY <1>2, <1>3, <1>4, Tasks, CacheStays, TaskMovesAlone

\* A task that leaves the engine gives everything back.
LEMMA EngineGiveUp ==
    ASSUME EngineInv, NEW r \in QRequests, GiveUpWaiting(r) \/ EndTask(r)
    PROVE  EngineInv'
<1>1. OutOfEngine \in TaskState /\ HoldsWell(OutOfEngine) /\ ~OutOfEngine.exec
  BY DEF OutOfEngine, TaskState, Outside, HoldsWell
<1>2. sess' = [sess EXCEPT ![r] = OutOfEngine] /\ UNCHANGED <<econf, world, sync, qcache>>
  BY DEF GiveUpWaiting, EndTask
<1> QED BY <1>1, <1>2, Tasks, CacheStays, TaskMovesAlone

\* A client that leaves does not stop its task.
LEMMA EngineLeaves ==
    ASSUME EngineInv, NEW r \in QRequests, ClientLeaves(r)
    PROVE  EngineInv'
<1>1. sess' = [sess EXCEPT ![r] = sess[r]] /\ UNCHANGED <<econf, world, sync, qcache>>
  BY DEF ClientLeaves, Disconnected
<1> QED BY <1>1, Tasks, CacheStays, TaskMovesAlone

\* A task takes the lock of the identity sync.
LEMMA EngineLock ==
    ASSUME EngineInv, NEW r \in QRequests, LockIdentity(r)
    PROVE  EngineInv'
<1> DEFINE s == sess[r]
           w == [pc |-> "fetch", kind |-> s.kind, refresh |-> s.refresh, born |-> s.born,
                 queue |-> s.queue, exec |-> s.exec, conn |-> s.conn]
<1>1. s \in Asking /\ s.exec /\ ~s.conn
  BY Tasks DEF LockIdentity, HoldsWell
<1>2. w \in TaskState /\ HoldsWell(w) /\ (w.exec => sess[r].exec)
  BY <1>1 DEF TaskState, Asking, HoldsWell
<1>3. sess' = [sess EXCEPT ![r] = w]
  <2>1. sess \in [QRequests -> TaskState]
    BY DEF EngineInv, QueryTypes, TaskState
  <2>2. [s EXCEPT !.pc = "fetch"] = w
    <3>1. s = [pc |-> s.pc, kind |-> s.kind, refresh |-> s.refresh, born |-> s.born,
               queue |-> s.queue, exec |-> s.exec, conn |-> s.conn]
      BY <1>1 DEF Asking
    <3> HIDE DEF s
    <3> QED BY <3>1
  <2> QED BY <2>1, <2>2 DEF LockIdentity, QGo
<1>4. UNCHANGED <<econf, world, qcache>> /\ sync' = [sync EXCEPT !.holder = r]
  BY DEF LockIdentity
<1>5. sync' \in [holder : QRequests \union {Free}, epoch : Nat, seq : Nat, rows : Nat]
  BY <1>4, Tasks
<1> HIDE DEF w
<1> QED BY <1>2, <1>3, <1>4, <1>5, Tasks, CacheStays, TaskMovesAlone

\* A batch of overrides arrives.
LEMMA EngineSync ==
    ASSUME EngineInv, NEW r \in QRequests, sync_batch(r)
    PROVE  EngineInv'
<1> DEFINE s == sess[r]
           w == [pc |-> "connect", kind |-> s.kind, refresh |-> s.refresh, born |-> s.born,
                 queue |-> s.queue, exec |-> s.exec, conn |-> FALSE,
                 version |-> [epoch |-> world.epoch, seq |-> world.seq]]
           SyncType == [holder : QRequests \union {Free}, epoch : Nat, seq : Nat, rows : Nat]
<1>1. s \in Asking /\ s.exec /\ ~s.conn
  BY Tasks DEF sync_batch, HoldsWell
<1>2. w \in TaskState /\ HoldsWell(w) /\ (w.exec => sess[r].exec)
  BY <1>1, Tasks DEF TaskState, Asking, Synced, Version, HoldsWell
<1>3. sess[r] \in TaskState /\ HoldsWell(sess[r])
  BY Tasks
<1>4. sess' = [sess EXCEPT ![r] = w] \/ sess' = [sess EXCEPT ![r] = sess[r]]
  <2>1. sess \in [QRequests -> TaskState]
    BY DEF EngineInv, QueryTypes, TaskState
  <2>2. CASE UNCHANGED sess
    BY <2>1, <2>2
  <2>3. CASE sess' = [sess EXCEPT ![r] = w]
    BY <2>3
  <2>4. UNCHANGED sess \/ sess' = [sess EXCEPT ![r] = w]
    BY DEF sync_batch
  <2> QED BY <2>2, <2>3, <2>4
<1>5. sync' \in SyncType
  <2>1. CASE sync.epoch # world.epoch /\ sync.seq # 0
    <3>1. sync' = [holder |-> sync.holder, epoch |-> world.epoch, seq |-> 0, rows |-> 0]
      <4>1. sync' = [[[sync EXCEPT !.epoch = world.epoch] EXCEPT !.seq = 0] EXCEPT !.rows = 0]
        BY <2>1, Zenon DEF sync_batch
      <4> QED BY <4>1, Tasks
    <3> QED BY <3>1, Tasks
  <2>2. CASE ~(sync.epoch # world.epoch /\ sync.seq # 0)
    <3>1. PICK n \in sync.seq..world.seq :
            sync' = [epoch |-> world.epoch, seq |-> n, rows |-> n,
                     holder |-> IF n = world.seq THEN Free ELSE r]
      BY <2>2 DEF sync_batch
    <3> QED BY <3>1, Tasks
  <2> QED BY <2>1, <2>2
<1>6. UNCHANGED <<econf, world, qcache>>
  BY DEF sync_batch
<1> HIDE DEF w
<1> QED BY <1>2, <1>3, <1>4, <1>5, <1>6, Tasks, CacheStays, TaskMovesAlone

\* A task whose sync fails, or whose connection went back, ends.
LEMMA EngineEnding ==
    ASSUME EngineInv, NEW r \in QRequests, SyncError(r) \/ ReturnConnection(r)
    PROVE  EngineInv'
<1>1. Ending(sess[r]) \in TaskState /\ HoldsWell(Ending(sess[r])) /\ (Ending(sess[r]).exec => sess[r].exec)
  BY Tasks DEF Ending, TaskState, Outside, HoldsWell
<1>2. sess' = [sess EXCEPT ![r] = Ending(sess[r])] /\ UNCHANGED <<econf, world, qcache>>
      /\ (sync' = [sync EXCEPT !.holder = Free] \/ UNCHANGED sync)
  BY DEF SyncError, ReturnConnection
<1>3. sync' \in [holder : QRequests \union {Free}, epoch : Nat, seq : Nat, rows : Nat]
  BY <1>2, Tasks
<1> QED BY <1>1, <1>2, <1>3, Tasks, CacheStays, TaskMovesAlone

\* A connection is checked out by a task with an execution permit.
LEMMA EngineConnection ==
    ASSUME EngineInv, NEW r \in QRequests, connection(r)
    PROVE  EngineInv'
<1> DEFINE s == sess[r]
           w == [pc |-> "lookup", kind |-> s.kind, refresh |-> s.refresh, born |-> s.born,
                 queue |-> s.queue, exec |-> s.exec, conn |-> TRUE, version |-> s.version]
<1>1. s \in Synced /\ s.exec
  BY Tasks DEF connection, HoldsWell
<1>2. w \in TaskState /\ HoldsWell(w) /\ (w.exec => sess[r].exec)
  BY <1>1 DEF TaskState, Synced, HoldsWell
<1>3. sess' = [sess EXCEPT ![r] = w]
  <2>1. sess \in [QRequests -> TaskState]
    BY DEF EngineInv, QueryTypes, TaskState
  <2>2. sess' = [[sess EXCEPT ![r].pc = "lookup"] EXCEPT ![r].conn = TRUE]
    BY Zenon DEF connection
  <2>3. [[s EXCEPT !.pc = "lookup"] EXCEPT !.conn = TRUE] = w
    <3>1. s = [pc |-> s.pc, kind |-> s.kind, refresh |-> s.refresh, born |-> s.born,
               queue |-> s.queue, exec |-> s.exec, conn |-> s.conn, version |-> s.version]
      BY <1>1 DEF Synced
    <3> HIDE DEF s
    <3> DEFINE v == [s EXCEPT !.pc = "lookup"]
    <3>2. v = [pc |-> "lookup", kind |-> s.kind, refresh |-> s.refresh, born |-> s.born,
               queue |-> s.queue, exec |-> s.exec, conn |-> s.conn, version |-> s.version]
      BY <3>1
    <3> HIDE DEF v
    <3> DEFINE t == TRUE
    <3>3. [v EXCEPT !.conn = t] = [pc |-> "lookup", kind |-> s.kind, refresh |-> s.refresh,
               born |-> s.born, queue |-> s.queue, exec |-> s.exec, conn |-> t, version |-> s.version]
      <4> HIDE DEF t
      <4> QED BY <3>2
    <3> QED BY <3>3 DEF v
  <2> QED BY <2>1, <2>2, <2>3
<1>4. UNCHANGED <<econf, world, sync, qcache>>
  BY DEF connection
<1> HIDE DEF w
<1> QED BY <1>2, <1>3, <1>4, Tasks, CacheStays, TaskMovesAlone

\* What a cache entry holds has its type, and so has a key.
LEMMA CacheHolds ==
    ASSUME EngineInv
    PROVE  /\ Accounts(qcache) /\ Within(qcache) /\ DOMAIN qcache.entries = 1..Len(qcache.entries)
           /\ \A i \in DOMAIN qcache.entries :
                qcache.entries[i] \in CacheEntry /\ qcache.entries[i].value \in QueryValue
           /\ \A key : At(qcache, key) = {i \in DOMAIN qcache.entries : qcache.entries[i].key = key}
<1>1. Accounts(qcache) /\ Within(qcache)
  BY CacheIs DEF EngineInv
<1>2. qcache.entries \in Seq(CacheEntry) /\ DOMAIN qcache.entries = 1..Len(qcache.entries)
  BY <1>1 DEF Accounts
<1>3. \A i \in DOMAIN qcache.entries : qcache.entries[i] \in CacheEntry
  BY <1>2
<1>4. \A i \in DOMAIN qcache.entries : qcache.entries[i].value \in QueryValue
  BY <1>3 DEF CacheEntry
<1> QED BY <1>1, <1>2, <1>3, <1>4 DEF At

\* The key of a cached result is a key.
LEMMA KeyTyped ==
    ASSUME EngineInv, NEW s \in Synced
    PROVE  cache_key(s.kind, world.dv, s.version) \in CacheKey
BY Tasks DEF cache_key, Synced, Version, CacheKey

\* A hit answers from the cache, and moves its entry to the end.
LEMMA EngineHit ==
    ASSUME EngineInv, NEW r \in QRequests, CacheHit(r)
    PROVE  EngineInv'
<1> DEFINE s == sess[r]
<1>1. s \in Synced /\ (s.conn => s.exec)
  BY Tasks DEF CacheHit, HoldsWell
<1>2. PICK i \in DOMAIN qcache.entries :
        qcache' = get(qcache, i) /\ sess' = [sess EXCEPT ![r] = Answering(s, qcache.entries[i].value)]
  BY CacheHolds DEF CacheHit
<1>3. Accounts(qcache') /\ Within(qcache')
  BY <1>2, CacheHolds, GetKeeps
<1> DEFINE w == Answering(s, qcache.entries[i].value)
<1>4. w \in TaskState /\ HoldsWell(w) /\ (w.exec => s.exec)
  BY <1>1, CacheHolds DEF Answering, TaskState, Answered, Synced, HoldsWell
<1>5. sess' = [sess EXCEPT ![r] = w] /\ UNCHANGED <<econf, world, sync>>
  BY <1>2 DEF CacheHit
<1> HIDE DEF w
<1> QED BY <1>3, <1>4, <1>5, Tasks, CacheIsNext, TaskMovesAlone

\* Property names that were loaded enter the cache.
LEMMA EngineLoad ==
    ASSUME EngineInv, NEW r \in QRequests, load_person_property(r)
    PROVE  EngineInv'
<1> DEFINE s == sess[r]
           key == cache_key(s.kind, world.dv, s.version)
           asked == IF Cacheable(s.kind) /\ ~s.refresh THEN At(qcache, key) ELSE {}
           w == [pc |-> "run", kind |-> s.kind, born |-> s.born, queue |-> s.queue, exec |-> s.exec,
                 conn |-> s.conn, key |-> key, read |-> 0, seen |-> {}, age |-> 0]
<1>1. s \in Synced /\ (s.conn => s.exec)
  BY Tasks DEF load_person_property, HoldsWell
<1>2. key \in CacheKey
  BY <1>1, KeyTyped
<1>3. /\ qcache' = IF asked = {} THEN qcache ELSE get(qcache, CHOOSE i \in asked : TRUE)
      /\ sess' = [sess EXCEPT ![r] = w] /\ UNCHANGED <<econf, world, sync>>
  BY DEF load_person_property
<1>4. asked \subseteq DOMAIN qcache.entries
  BY CacheHolds
<1> HIDE DEF asked, key
<1>5. w \in TaskState /\ HoldsWell(w) /\ (w.exec => s.exec)
  BY <1>1, <1>2 DEF TaskState, Computing, Synced, HoldsWell
<1>6. Accounts(qcache') /\ Within(qcache')
  BY <1>3, <1>4, CacheHolds, GetKeeps
<1> HIDE DEF w
<1> QED BY <1>3, <1>5, <1>6, Tasks, CacheIsNext, TaskMovesAlone

\* A record of a running task, field by field.
LEMMA ComputingForm ==
    ASSUME NEW s \in Computing
    PROVE  /\ s = [pc |-> s.pc, kind |-> s.kind, born |-> s.born, queue |-> s.queue, exec |-> s.exec,
                   conn |-> s.conn, key |-> s.key, read |-> s.read, seen |-> s.seen, age |-> s.age]
           /\ s.pc = "run" /\ s.kind \in QKinds /\ s.born \in Born /\ s.queue \in BOOLEAN
           /\ s.exec \in BOOLEAN /\ s.conn \in BOOLEAN /\ s.key \in CacheKey /\ s.read \in Nat
           /\ s.seen \subseteq Nat /\ s.age \in Nat
BY DEF Computing

\* A statement reads the overrides of its moment.
LEMMA ReadForm ==
    ASSUME EngineInv, NEW r \in QRequests, RunStatement(r)
    PROVE  /\ sess[r] \in Computing
           /\ sess' = [sess EXCEPT ![r] =
                 [pc |-> "run", kind |-> sess[r].kind, born |-> sess[r].born, queue |-> sess[r].queue,
                  exec |-> sess[r].exec, conn |-> sess[r].conn, key |-> sess[r].key,
                  read |-> sess[r].read + 1, seen |-> sess[r].seen \union {sync.rows}, age |-> sess[r].age]]
<1> DEFINE s == sess[r]
           n == s.read + 1
           seen == s.seen \union {sync.rows}
           w == [pc |-> "run", kind |-> s.kind, born |-> s.born, queue |-> s.queue, exec |-> s.exec,
                 conn |-> s.conn, key |-> s.key, read |-> n, seen |-> seen, age |-> s.age]
<1>1. s \in Computing
  BY Tasks DEF RunStatement
<1>2. sess \in [QRequests -> TaskState]
  BY DEF EngineInv, QueryTypes, TaskState
<1>3. sess' = [[sess EXCEPT ![r].read = n] EXCEPT ![r].seen = seen]
  <2>1. sess' = [sess EXCEPT ![r].read = @ + 1, ![r].seen = @ \union {sync.rows}]
    BY DEF RunStatement
  <2>2. [sess EXCEPT ![r].read = @ + 1, ![r].seen = @ \union {sync.rows}]
        = [[sess EXCEPT ![r].read = @ + 1] EXCEPT ![r].seen = @ \union {sync.rows}]
    BY Zenon
  <2>3. [sess EXCEPT ![r].read = @ + 1] = [sess EXCEPT ![r].read = n]
    OBVIOUS
  <2>4. [sess EXCEPT ![r].read = n][r].seen = s.seen
    <3>1. s.seen = [s EXCEPT !.read = n].seen
      BY <1>1, ComputingForm
    <3> QED BY <1>2, <3>1
  <2> QED BY <2>1, <2>2, <2>3, <2>4
<1>4. [[s EXCEPT !.read = n] EXCEPT !.seen = seen] = w
  <2>1. s = [pc |-> "run", kind |-> s.kind, born |-> s.born, queue |-> s.queue, exec |-> s.exec,
             conn |-> s.conn, key |-> s.key, read |-> s.read, seen |-> s.seen, age |-> s.age]
    BY <1>1, ComputingForm
  <2> HIDE DEF s, n, seen
  <2> DEFINE v == [s EXCEPT !.read = n]
  <2>2. v = [pc |-> "run", kind |-> s.kind, born |-> s.born, queue |-> s.queue, exec |-> s.exec,
             conn |-> s.conn, key |-> s.key, read |-> n, seen |-> s.seen, age |-> s.age]
    BY <2>1
  <2> HIDE DEF v
  <2>3. [v EXCEPT !.seen = seen] = w
    BY <2>2
  <2> QED BY <2>3 DEF v
<1>5. sess' = [sess EXCEPT ![r] = w]
  <2> HIDE DEF n, seen, w
  <2> QED BY <1>2, <1>3, <1>4
<1> QED BY <1>1, <1>5

\* One statement of a session runs.
LEMMA EngineRun ==
    ASSUME EngineInv, NEW r \in QRequests, RunStatement(r)
    PROVE  EngineInv'
<1> DEFINE s == sess[r]
           w == [pc |-> "run", kind |-> s.kind, born |-> s.born, queue |-> s.queue, exec |-> s.exec,
                 conn |-> s.conn, key |-> s.key, read |-> s.read + 1,
                 seen |-> s.seen \union {sync.rows}, age |-> s.age]
<1>1. s \in Computing /\ (s.conn => s.exec) /\ sess' = [sess EXCEPT ![r] = w]
  BY ReadForm, Tasks DEF HoldsWell
<1>2. w \in TaskState /\ HoldsWell(w) /\ (w.exec => s.exec)
  BY <1>1, Tasks DEF TaskState, Computing, HoldsWell
<1>3. UNCHANGED <<econf, world, sync, qcache>>
  BY DEF RunStatement
<1> HIDE DEF w
<1> QED BY <1>1, <1>2, <1>3, Tasks, CacheStays, TaskMovesAlone

\* The result of a session enters the cache.
LEMMA EngineFinish ==
    ASSUME EngineInv, NEW r \in QRequests, Finish(r)
    PROVE  EngineInv'
<1> DEFINE s == sess[r]
           w == Answering(s, Computed(s))
<1>1. s \in Computing /\ (s.conn => s.exec)
  BY Tasks DEF Finish, HoldsWell
<1>2. Computed(s) \in QueryValue /\ s.key \in CacheKey
  BY <1>1 DEF Computed, QueryValue, Computing, CacheKey
<1>3. w \in TaskState /\ HoldsWell(w) /\ (w.exec => s.exec)
  BY <1>1, <1>2 DEF Answering, TaskState, Answered, Computing, HoldsWell
<1>4. sess' = [sess EXCEPT ![r] = w] /\ UNCHANGED <<econf, world, sync>>
  BY DEF Finish
<1>5. Accounts(qcache') /\ Within(qcache')
  <2>1. CASE UNCHANGED qcache
    BY <2>1, CacheHolds
  <2>2. CASE \E bytes \in ResultSizes : qcache' = put(qcache, s.key, Computed(s), bytes, HasTtl(s.kind))
    <3>1. PICK bytes \in ResultSizes : qcache' = put(qcache, s.key, Computed(s), bytes, HasTtl(s.kind))
      BY <2>2
    <3>2. bytes \in Nat /\ HasTtl(s.kind) \in BOOLEAN
      BY QueryLimits DEF HasTtl, ReadsProperties
    <3> QED BY <1>2, <3>1, <3>2, CacheHolds, PutKeeps
  <2> QED BY <2>1, <2>2 DEF Finish
<1> HIDE DEF w
<1> QED BY <1>3, <1>4, <1>5, Tasks, CacheIsNext, TaskMovesAlone

\* A session that fails caches nothing.
LEMMA EngineFails ==
    ASSUME EngineInv, NEW r \in QRequests, SessionFails(r)
    PROVE  EngineInv'
<1> DEFINE s == sess[r]
           w == Answering(s, NoAnswer)
<1>1. s \in Computing /\ (s.conn => s.exec)
  BY Tasks DEF SessionFails, HoldsWell
<1>2. w \in TaskState /\ HoldsWell(w) /\ (w.exec => s.exec)
  BY <1>1 DEF Answering, NoAnswer, QueryValue, TaskState, Answered, Computing, HoldsWell
<1>3. sess' = [sess EXCEPT ![r] = w] /\ UNCHANGED <<econf, world, sync, qcache>>
  BY DEF SessionFails
<1> HIDE DEF w
<1> QED BY <1>2, <1>3, Tasks, CacheStays, TaskMovesAlone

-----------------------------------------------------------------------------
(* Time.                                                                    *)

Aged(s) == IF s.pc = "run" /\ ReadsProperties(s.kind) THEN [s EXCEPT !.age = 1] ELSE s
Older(e) ==
    IF ReadsProperties(e.key.kind)
    THEN [e EXCEPT !.expired = e.ttl, !.value.age = IF @ < TooOld THEN @ + 1 ELSE @]
    ELSE e

\* A task that reads properties grows older, and changes nothing else.
LEMMA TaskAges ==
    ASSUME NEW s \in TaskState
    PROVE  /\ Aged(s) \in TaskState
           /\ HoldsWell(s) => HoldsWell(Aged(s))
           /\ Aged(s).exec = s.exec
           /\ s.pc # "run" => Aged(s) = s
           /\ s.pc = "run" =>
                /\ Aged(s).kind = s.kind /\ Aged(s).born = s.born /\ Aged(s).key = s.key
                /\ Aged(s).seen = s.seen /\ Aged(s).pc = "run"
                /\ Aged(s).age = IF ReadsProperties(s.kind) THEN 1 ELSE s.age
<1>1. CASE s.pc = "run" /\ ReadsProperties(s.kind)
  <2>1. s \in Computing
    BY <1>1 DEF TaskState, Outside, Asking, Synced, Answered
  <2>2. [s EXCEPT !.age = 1] = [pc |-> "run", kind |-> s.kind, born |-> s.born, queue |-> s.queue,
           exec |-> s.exec, conn |-> s.conn, key |-> s.key, read |-> s.read, seen |-> s.seen, age |-> 1]
    <3> DEFINE one == 1
    <3>1. [s EXCEPT !.age = one] = [pc |-> "run", kind |-> s.kind, born |-> s.born, queue |-> s.queue,
           exec |-> s.exec, conn |-> s.conn, key |-> s.key, read |-> s.read, seen |-> s.seen, age |-> one]
      <4> HIDE DEF one
      <4> QED BY <2>1, ComputingForm
    <3> QED BY <3>1
  <2>3. Aged(s) = [pc |-> "run", kind |-> s.kind, born |-> s.born, queue |-> s.queue,
           exec |-> s.exec, conn |-> s.conn, key |-> s.key, read |-> s.read, seen |-> s.seen, age |-> 1]
    BY <1>1, <2>2 DEF Aged
  <2>4. Aged(s) \in TaskState
    BY <2>1, <2>3, ComputingForm DEF TaskState, Computing
  <2> QED BY <1>1, <2>3, <2>4 DEF HoldsWell
<1>2. CASE ~(s.pc = "run" /\ ReadsProperties(s.kind))
  BY <1>2 DEF Aged
<1> QED BY <1>1, <1>2

\* So does an entry of property names, which expires.
LEMMA EntryAges ==
    ASSUME NEW e \in CacheEntry
    PROVE  /\ Older(e) \in CacheEntry
           /\ Older(e).key = e.key /\ Older(e).bytes = e.bytes /\ Older(e).ttl = e.ttl
           /\ Older(e).value.dv = e.value.dv /\ Older(e).value.seen = e.value.seen
           /\ ReadsProperties(e.key.kind) => Older(e).expired = e.ttl
           /\ ~ReadsProperties(e.key.kind) => Older(e) = e
<1>1. CASE ReadsProperties(e.key.kind)
  <2> DEFINE n == IF e.value.age < TooOld THEN e.value.age + 1 ELSE e.value.age
             v == [dv |-> e.value.dv, seen |-> e.value.seen, age |-> n]
             w == [key |-> e.key, value |-> v, bytes |-> e.bytes, ttl |-> e.ttl, expired |-> e.ttl]
  <2>1. /\ e = [key |-> e.key, value |-> e.value, bytes |-> e.bytes, ttl |-> e.ttl, expired |-> e.expired]
        /\ e.value = [dv |-> e.value.dv, seen |-> e.value.seen, age |-> e.value.age]
        /\ e.value \in QueryValue /\ e.key \in CacheKey /\ e.bytes \in Nat /\ e.ttl \in BOOLEAN
    BY DEF CacheEntry, QueryValue
  <2>2. n \in Nat /\ v \in QueryValue
    BY <2>1 DEF QueryValue, TooOld
  <2>3. Older(e) = [[e EXCEPT !.expired = e.ttl] EXCEPT !.value.age = IF @ < TooOld THEN @ + 1 ELSE @]
    BY <1>1, Zenon DEF Older
  <2> DEFINE f == [key |-> e.key, value |-> e.value, bytes |-> e.bytes, ttl |-> e.ttl, expired |-> e.ttl]
  <2>4. [e EXCEPT !.expired = e.ttl] = f
    BY <2>1
  <2>5. [f EXCEPT !.value.age = IF @ < TooOld THEN @ + 1 ELSE @] = [f EXCEPT !.value.age = n]
    OBVIOUS
  <2>6. [f EXCEPT !.value.age = n] = w
    <3> HIDE DEF n
    <3> QED BY <2>1
  <2>7. Older(e) = w
    <3> HIDE DEF n, f, w
    <3> QED BY <2>3, <2>4, <2>5, <2>6
  <2>8. w \in CacheEntry
    <3> HIDE DEF n, v
    <3> QED BY <2>1, <2>2 DEF CacheEntry
  <2> QED BY <1>1, <2>7, <2>8
<1>2. CASE ~ReadsProperties(e.key.kind)
  BY <1>2 DEF Older
<1> QED BY <1>1, <1>2

\* Time makes every task and entry older.
LEMMA TickForm ==
    ASSUME EngineInv, Tick
    PROVE  /\ sess' = [r \in QRequests |-> Aged(sess[r])]
           /\ qcache'.entries \in Seq(CacheEntry) /\ qcache'.bytes = qcache.bytes
           /\ qcache' = [entries |-> qcache'.entries, bytes |-> qcache'.bytes]
           /\ DOMAIN qcache'.entries = DOMAIN qcache.entries /\ Len(qcache'.entries) = Len(qcache.entries)
           /\ \A i \in DOMAIN qcache.entries : qcache'.entries[i] = Older(qcache.entries[i])
<1> DEFINE s == qcache.entries
           t == [i \in DOMAIN s |-> Older(s[i])]
<1>1. sess' = [r \in QRequests |-> Aged(sess[r])]
  BY DEF Tick, Aged
<1>2. qcache' = [qcache EXCEPT !.entries = t]
  BY DEF Tick, Older
<1>3. qcache = [entries |-> qcache.entries, bytes |-> qcache.bytes]
  BY CacheHolds DEF Accounts
<1>4. qcache' = [entries |-> t, bytes |-> qcache.bytes]
  <2> HIDE DEF t
  <2> QED BY <1>2, <1>3
<1>5. s \in Seq(CacheEntry) /\ DOMAIN s = 1..Len(s) /\ Len(s) \in Nat /\ \A i \in DOMAIN s : s[i] \in CacheEntry
  BY CacheHolds DEF Accounts
<1> HIDE DEF s
<1>6. t \in [1..Len(s) -> CacheEntry]
  BY <1>5, EntryAges
<1>7. t \in Seq(CacheEntry) /\ DOMAIN t = 1..Len(s) /\ Len(t) = Len(s)
  <2> HIDE DEF t
  <2>1. t \in Seq(CacheEntry)
    BY <1>5, <1>6
  <2> QED BY <1>5, <1>6, <2>1
<1>8. \A i \in DOMAIN s : t[i] = Older(s[i])
  OBVIOUS
<1> HIDE DEF t
<1> QED BY <1>1, <1>4, <1>5, <1>7, <1>8 DEF s

\* Time takes no permit and frees no bytes.
LEMMA EngineTick ==
    ASSUME EngineInv, Tick
    PROVE  EngineInv'
<1>1. sess' = [r \in QRequests |-> Aged(sess[r])] /\ UNCHANGED <<econf, world, sync>>
  BY TickForm DEF Tick
<1>2. \A r \in QRequests : sess'[r] = Aged(sess[r]) /\ sess[r] \in TaskState /\ HoldsWell(sess[r])
  BY <1>1, Tasks
<1>3. \A r \in QRequests : sess'[r] \in TaskState /\ HoldsWell(sess'[r]) /\ sess'[r].exec = sess[r].exec
  BY <1>2, TaskAges
<1>4. QueryTypes'
  BY <1>1, <1>3 DEF EngineInv, QueryTypes, TaskState
<1>5. PermitsOK'
  <2>1. Holding("exec")' = Holding("exec")
    BY <1>3 DEF Holding
  <2> QED BY <1>1, <1>3, <2>1 DEF EngineInv, PermitsOK, HoldsWell
<1> DEFINE s == qcache.entries
           t == qcache'.entries
<1>6. /\ s \in Seq(CacheEntry) /\ KeysDiffer(s) /\ qcache.bytes = BytesOf(s) /\ DOMAIN s = 1..Len(s)
      /\ \A i \in DOMAIN s : s[i] \in CacheEntry
  BY CacheHolds DEF Accounts
<1>7. /\ t \in Seq(CacheEntry) /\ Len(t) = Len(s) /\ DOMAIN t = DOMAIN s
      /\ \A i \in DOMAIN s : t[i].key = s[i].key /\ t[i].bytes = s[i].bytes
  BY <1>6, TickForm, EntryAges
<1> HIDE DEF s, t
<1>8. BytesOf(s) = BytesOf(t)
  BY <1>6, <1>7, SumOfSame
<1>9. Accounts(qcache')
  BY <1>6, <1>7, <1>8, TickForm DEF Accounts, KeysDiffer, t
<1>10. Within(qcache')
  BY <1>7, TickForm, CacheHolds DEF Within, s, t
<1> QED BY <1>4, <1>5, <1>9, <1>10, CacheIsNext DEF EngineInv

\* Publications, merges and erasures do not touch the engine.
LEMMA EngineWorld ==
    ASSUME EngineInv, Publish \/ MergePersons \/ EraseSomeone
    PROVE  EngineInv'
<1>1. UNCHANGED <<econf, sync, sess, qcache>>
  BY DEF Publish, MergePersons, EraseSomeone, World
<1>2. world' \in [dv : Nat, epoch : Nat, seq : Nat]
  BY Tasks DEF Publish, MergePersons, EraseSomeone, World
<1>3. CacheOK'
  BY <1>1, Tasks, CacheStays
<1> QED BY <1>1, <1>2, <1>3 DEF EngineInv, QueryTypes, PermitsOK, Holding

\* Every step of the engine keeps its invariant.
LEMMA EngineStep == EngineInv /\ [QueryNext]_queryVars => EngineInv'
<1> SUFFICES ASSUME EngineInv, [QueryNext]_queryVars PROVE EngineInv'
  OBVIOUS
<1>1. ASSUME Publish \/ MergePersons \/ EraseSomeone \/ Tick PROVE EngineInv'
  BY <1>1, EngineWorld, EngineTick
<1>2. ASSUME NEW r \in QRequests, NEW kind \in QKinds,
             admit(r, kind, FALSE) \/ (Cacheable(kind) /\ admit(r, kind, TRUE))
      PROVE  EngineInv'
  BY <1>2, EngineAdmit
<1>3. ASSUME NEW r \in QRequests, Execute(r) \/ GiveUpWaiting(r) \/ ClientLeaves(r) \/ session(r)
      PROVE  EngineInv'
  BY <1>3, EngineExecute, EngineGiveUp, EngineLeaves, EngineLock, EngineSync, EngineEnding,
     EngineConnection, EngineHit, EngineLoad, EngineRun, EngineFinish, EngineFails DEF session
<1>4. CASE UNCHANGED queryVars
  <2>1. UNCHANGED <<econf, world, sync, sess, qcache>>
    BY <1>4 DEF queryVars
  <2>2. CacheOK'
    BY <2>1, Tasks, CacheStays
  <2> QED BY <2>1, <2>2 DEF EngineInv, QueryTypes, PermitsOK, Holding
<1> QED BY <1>1, <1>2, <1>3, <1>4 DEF QueryNext

\* Whoever waits for a connection holds a permit and no connection.
LEMMA EngineAdmits == EngineInv => AdmittedFindsConnection /\ CacheAccountsExactly
<1> SUFFICES ASSUME EngineInv PROVE AdmittedFindsConnection
  BY DEF EngineInv, CacheOK
<1> SUFFICES ASSUME NEW r \in QRequests, sess[r].pc = "connect"
             PROVE  Cardinality(Holding("conn")) < econf.connections
  BY DEF AdmittedFindsConnection
<1> DEFINE H == {q \in QRequests : sess[q].exec}
           C == {q \in QRequests : sess[q].conn}
<1>1. r \in H /\ r \notin C /\ C \subseteq H /\ H \subseteq QRequests /\ C \subseteq QRequests
  BY DEF EngineInv, PermitsOK
<1>2. Cardinality(H) <= econf.connections /\ econf.connections \in Nat /\ Holding("conn") = C
  BY DEF EngineInv, PermitsOK, Holding, QueryTypes
<1> HIDE DEF H, C
<1>3. IsFiniteSet(H) /\ IsFiniteSet(C) /\ Cardinality(H) \in Nat /\ Cardinality(C) \in Nat
  BY <1>1, QueryLimits
<1>4. Cardinality(C) <= Cardinality(H) /\ (Cardinality(C) = Cardinality(H) => C = H)
  BY <1>1, <1>3, FS_Subset
<1> QED BY <1>1, <1>2, <1>3, <1>4

\* Without erasures the overrides' epoch stays, and the table only gains rows.
TableOK ==
    /\ world.epoch = 0 /\ sync.epoch = 0
    /\ sync.rows = sync.seq /\ sync.seq <= world.seq

\* A value was computed from this event data and these overrides, or newer ones.
AtLeast(value, dv, seq) == value.dv >= dv /\ \A rows \in value.seen : rows >= seq

EntryFresh(e) ==
    /\ AtLeast(e.value, e.key.dv, e.key.seq)
    /\ ReadsProperties(e.key.kind) => e.ttl /\ (~e.expired => e.value.age < TooOld)

EntriesFresh == \A i \in DOMAIN qcache.entries : EntryFresh(qcache.entries[i])

\* A task's version and key are not older than its request; what it has read is not
\* older than its key.
Fresh(s, w, y) ==
    /\ s.pc \notin {"out", "end"} => s.born.dv <= w.dv /\ s.born.seq <= w.seq
    /\ s.pc \in {"connect", "lookup"} => s.version.seq >= s.born.seq /\ s.version.seq <= y.seq
    /\ s.pc = "run" =>
         /\ s.key.kind = s.kind /\ s.key.dv >= s.born.dv
         /\ s.key.seq >= s.born.seq /\ s.key.seq <= y.seq
         /\ \A rows \in s.seen : rows >= s.key.seq
         /\ s.age < TooOld
    /\ s.pc = "served" /\ s.value.seen # {} =>
         /\ AtLeast(s.value, s.born.dv, s.born.seq)
         /\ ReadsProperties(s.kind) => s.value.age < TooOld
TasksFresh == \A r \in QRequests : Fresh(sess[r], world, sync)

FreshInv == EngineInv /\ TableOK /\ EntriesFresh /\ TasksFresh

\* The versions only grow.
Newest(w, y) == w.dv \in Nat /\ w.seq \in Nat /\ y.seq \in Nat
Later(w, y, v, z) == v.dv >= w.dv /\ v.seq >= w.seq /\ z.seq >= y.seq

\* What was fresh stays so.
LEMMA StaysFresh ==
    ASSUME NEW s \in TaskState, NEW w, NEW y, NEW v, NEW z, Newest(w, y), Newest(v, z),
           Later(w, y, v, z), Fresh(s, w, y)
    PROVE  Fresh(s, v, z)
<1>1. /\ w.dv \in Nat /\ w.seq \in Nat /\ y.seq \in Nat
      /\ v.dv \in Nat /\ v.seq \in Nat /\ z.seq \in Nat
      /\ v.dv >= w.dv /\ v.seq >= w.seq /\ z.seq >= y.seq
  BY DEF Newest, Later
<1>2. s.pc \notin {"out", "end"} => s.born.dv \in Nat /\ s.born.seq \in Nat
  BY DEF TaskState, Outside, Asking, Synced, Computing, Answered, Born
<1>3. s.pc \in {"connect", "lookup"} => s.version.seq \in Nat
  BY DEF TaskState, Outside, Asking, Synced, Computing, Answered, Version
<1>4. s.pc = "run" => s.key.seq \in Nat
  BY DEF TaskState, Outside, Asking, Synced, Computing, Answered, CacheKey
<1> QED BY <1>1, <1>2, <1>3, <1>4 DEF Fresh

\* The versions of the lake and of the overrides are numbers.
LEMMA Versions ==
    /\ EngineInv => Newest(world, sync)
    /\ EngineInv' => Newest(world', sync')
BY DEF EngineInv, QueryTypes, Newest

\* A step of one task.
LEMMA OneTaskFresh ==
    ASSUME FreshInv, EngineInv', NEW r \in QRequests, NEW w, sess' = [sess EXCEPT ![r] = w],
           Fresh(w, world', sync'), Later(world, sync, world', sync')
    PROVE  TasksFresh'
<1>1. sess \in [QRequests -> TaskState]
  BY DEF FreshInv, EngineInv, QueryTypes, TaskState
<1>2. ASSUME NEW q \in QRequests PROVE Fresh(sess'[q], world', sync')
  <2>1. CASE q = r
    <3>1. sess'[q] = w
      BY <1>1, <2>1
    <3> QED BY <3>1
  <2>2. CASE q # r
    <3>1. sess'[q] = sess[q] /\ sess[q] \in TaskState
      BY <1>1, <2>2
    <3>2. Fresh(sess[q], world, sync) /\ EngineInv
      BY DEF FreshInv, TasksFresh
    <3> QED BY <3>1, <3>2, StaysFresh, Versions
  <2> QED BY <2>1, <2>2
<1> QED BY <1>2 DEF TasksFresh

\* A step that leaves the world and the table alone, or moves them on.
LEMMA SameWorld ==
    ASSUME EngineInv, UNCHANGED <<world, sync>>
    PROVE  Later(world, sync, world', sync')
BY Versions DEF Later, Newest

\* A step of one task that leaves the cache and the world alone.
LEMMA QuietStep ==
    ASSUME FreshInv, EngineInv', NEW r \in QRequests, NEW w, sess' = [sess EXCEPT ![r] = w],
           Fresh(w, world, sync), UNCHANGED <<world, qcache>>, UNCHANGED sync
    PROVE  FreshInv'
<1>1. TasksFresh'
  BY OneTaskFresh, SameWorld DEF FreshInv
<1> QED BY <1>1 DEF FreshInv, TableOK, EntriesFresh

\* Nothing is stale at the start.
LEMMA FreshStarts == QueryInit => FreshInv
<1> SUFFICES ASSUME QueryInit PROVE FreshInv
  OBVIOUS
<1>1. EngineInv
  BY EngineStarts
<1>2. TableOK
  BY DEF QueryInit, TableOK
<1>3. EntriesFresh
  <2>1. qcache.entries = <<>>
    BY DEF QueryInit
  <2> QED BY <2>1 DEF EntriesFresh
<1>4. TasksFresh
  <2>1. \A r \in QRequests : sess[r].pc = "out"
    BY DEF QueryInit, OutOfEngine
  <2> QED BY <2>1 DEF TasksFresh, Fresh
<1> QED BY <1>1, <1>2, <1>3, <1>4 DEF FreshInv

\* A request is as new as the moment of its admission.
LEMMA FreshAdmit ==
    ASSUME FreshInv, EngineInv', NEW r \in QRequests, NEW kind, NEW refresh, admit(r, kind, refresh)
    PROVE  FreshInv'
<1> DEFINE w == [pc |-> "queued", kind |-> kind, refresh |-> refresh, born |-> [dv |-> world.dv, seq |-> world.seq],
                 queue |-> TRUE, exec |-> FALSE, conn |-> FALSE]
<1>1. sess' = [sess EXCEPT ![r] = w] /\ UNCHANGED <<world, sync, qcache>>
  BY DEF admit
<1>2. Fresh(w, world, sync)
  BY Versions DEF Fresh, FreshInv, Newest
<1> HIDE DEF w
<1> QED BY <1>1, <1>2, QuietStep

\* A task that only changes its place before the lookup, or its connection.
LEMMA FreshMoves ==
    ASSUME FreshInv, EngineInv', NEW r \in QRequests,
           Execute(r) \/ GiveUpWaiting(r) \/ ClientLeaves(r) \/ connection(r) \/ ReturnConnection(r) \/ EndTask(r)
    PROVE  FreshInv'
<1>1. sess \in [QRequests -> TaskState] /\ Fresh(sess[r], world, sync)
  BY DEF FreshInv, EngineInv, QueryTypes, TaskState, TasksFresh
<1>2. UNCHANGED <<world, qcache>> /\ UNCHANGED sync
  BY DEF Execute, GiveUpWaiting, ClientLeaves, connection, ReturnConnection, EndTask
<1> DEFINE w == sess'[r]
<1>3. CASE GiveUpWaiting(r) \/ ReturnConnection(r) \/ EndTask(r)
  <2>1. PICK v \in {OutOfEngine, Ending(sess[r])} : sess' = [sess EXCEPT ![r] = v]
    BY <1>3 DEF GiveUpWaiting, ReturnConnection, EndTask
  <2>2. Fresh(v, world, sync)
    BY DEF Fresh, OutOfEngine, Ending
  <2> QED BY <1>2, <2>1, <2>2, QuietStep
<1>4. CASE ClientLeaves(r)
  <2>1. sess' = [sess EXCEPT ![r] = sess[r]]
    BY <1>4 DEF ClientLeaves, Disconnected
  <2> QED BY <1>1, <1>2, <2>1, QuietStep
<1>5. CASE Execute(r)
  <2>1. sess' = [[sess EXCEPT ![r].pc = "sync"] EXCEPT ![r].exec = TRUE]
    BY <1>5, Zenon DEF Execute
  <2> DEFINE v == [[sess[r] EXCEPT !.pc = "sync"] EXCEPT !.exec = TRUE]
  <2>2. sess' = [sess EXCEPT ![r] = v]
    BY <1>1, <2>1
  <2>3. sess[r] \in Asking /\ sess[r].pc = "queued"
    BY <1>5, Tasks DEF Execute, FreshInv
  <2>4. v.pc = "sync" /\ v.born = sess[r].born
    BY <2>3 DEF Asking
  <2> HIDE DEF v
  <2>5. Fresh(v, world, sync)
    BY <1>1, <2>3, <2>4 DEF Fresh
  <2> QED BY <1>2, <2>2, <2>5, QuietStep
<1>6. CASE connection(r)
  <2>1. sess' = [[sess EXCEPT ![r].pc = "lookup"] EXCEPT ![r].conn = TRUE]
    BY <1>6, Zenon DEF connection
  <2> DEFINE v == [[sess[r] EXCEPT !.pc = "lookup"] EXCEPT !.conn = TRUE]
  <2>2. sess' = [sess EXCEPT ![r] = v]
    BY <1>1, <2>1
  <2>3. sess[r] \in Synced /\ sess[r].pc = "connect"
    BY <1>6, Tasks DEF connection, FreshInv
  <2>4. v.pc = "lookup" /\ v.born = sess[r].born /\ v.version = sess[r].version
    BY <2>3 DEF Synced
  <2> HIDE DEF v
  <2>5. Fresh(v, world, sync)
    BY <1>1, <2>3, <2>4 DEF Fresh
  <2> QED BY <1>2, <2>2, <2>5, QuietStep
<1> QED BY <1>3, <1>4, <1>5, <1>6

\* A task that waits for the sync, or loses it, has read nothing.
LEMMA FreshLock ==
    ASSUME FreshInv, EngineInv', NEW r \in QRequests, LockIdentity(r) \/ SyncError(r)
    PROVE  FreshInv'
<1>1. sess \in [QRequests -> TaskState] /\ Fresh(sess[r], world, sync) /\ EngineInv
  BY DEF FreshInv, EngineInv, QueryTypes, TaskState, TasksFresh
<1>2. /\ UNCHANGED <<world, qcache>>
      /\ sync'.epoch = sync.epoch /\ sync'.seq = sync.seq /\ sync'.rows = sync.rows
  BY <1>1, Tasks DEF LockIdentity, SyncError
<1>3. Later(world, sync, world', sync')
  BY <1>1, <1>2, Versions DEF Later, Newest
<1> DEFINE v == [sess[r] EXCEPT !.pc = "fetch"]
<1>4. PICK w : sess' = [sess EXCEPT ![r] = w] /\ (w = Ending(sess[r]) \/ (w = v /\ sess[r].pc = "sync"))
  BY <1>1 DEF LockIdentity, SyncError, QGo
<1>5. sess[r].pc = "sync" => v.pc = "fetch" /\ v.born = sess[r].born
  <2>1. sess[r].pc = "sync" => sess[r] \in Asking
    BY <1>1, Tasks
  <2> QED BY <2>1 DEF Asking
<1> HIDE DEF v
<1>6. Fresh(w, world', sync')
  <2>1. CASE w = Ending(sess[r])
    BY <2>1 DEF Fresh, Ending
  <2>2. CASE w = v /\ sess[r].pc = "sync"
    BY <1>1, <1>2, <1>5, <2>2 DEF Fresh
  <2> QED BY <1>4, <2>1, <2>2
<1>7. TasksFresh'
  BY <1>3, <1>4, <1>6, OneTaskFresh
<1> QED BY <1>2, <1>7 DEF FreshInv, TableOK, EntriesFresh

\* After the sync the version of a task is that of the table.
LEMMA FreshSync ==
    ASSUME FreshInv, EngineInv', NEW r \in QRequests, sync_batch(r)
    PROVE  FreshInv'
<1>1. sess \in [QRequests -> TaskState] /\ Fresh(sess[r], world, sync) /\ EngineInv /\ TableOK
  BY DEF FreshInv, EngineInv, QueryTypes, TaskState, TasksFresh
<1>2. UNCHANGED <<world, qcache>> /\ world.dv \in Nat /\ world.seq \in Nat /\ sync.seq \in Nat
  BY <1>1, Versions DEF sync_batch, Newest
<1> DEFINE s == sess[r]
           w == [pc |-> "connect", kind |-> s.kind, refresh |-> s.refresh, born |-> s.born,
                 queue |-> s.queue, exec |-> s.exec, conn |-> FALSE,
                 version |-> [epoch |-> world.epoch, seq |-> world.seq]]
<1>3. PICK n \in sync.seq..world.seq :
        /\ sync' = [epoch |-> world.epoch, seq |-> n, rows |-> n, holder |-> IF n = world.seq THEN Free ELSE r]
        /\ sess' = IF n < world.seq THEN sess ELSE [sess EXCEPT ![r] = w]
  BY <1>1 DEF sync_batch, TableOK
<1>4. n \in Nat /\ n >= sync.seq /\ n <= world.seq /\ sync'.epoch = world.epoch /\ sync'.seq = n /\ sync'.rows = n
  BY <1>2, <1>3
<1>5. TableOK'
  BY <1>1, <1>2, <1>4 DEF TableOK
<1>6. Later(world, sync, world', sync')
  BY <1>2, <1>4 DEF Later
<1>7. TasksFresh'
  <2>1. CASE n < world.seq
    <3>1. sess' = [sess EXCEPT ![r] = sess[r]]
      BY <1>1, <1>3, <2>1
    <3>2. Fresh(sess[r], world', sync')
      <4>1. sess[r] \in TaskState
        BY <1>1
      <4> QED BY <1>1, <1>6, <4>1, StaysFresh, Versions
    <3> QED BY <1>6, <3>1, <3>2, OneTaskFresh
  <2>2. CASE ~(n < world.seq)
    <3>1. sess' = [sess EXCEPT ![r] = w] /\ n = world.seq
      BY <1>2, <1>3, <1>4, <2>2
    <3>2. s.pc = "fetch"
      BY DEF sync_batch
    <3>3. w.pc = "connect" /\ w.born = s.born /\ w.version.seq = world.seq
      OBVIOUS
    <3>4. w.born.seq <= world.seq /\ w.born.dv <= world.dv
      BY <1>1, <3>2, <3>3 DEF Fresh
    <3>5. w.version.seq >= w.born.seq
      <4>1. s \in Asking
        BY <1>1, <3>2, Tasks
      <4>2. s.born.seq \in Nat
        BY <4>1 DEF Asking, Born
      <4> QED BY <1>2, <3>3, <3>4, <4>2
    <3> HIDE DEF w
    <3>6. Fresh(w, world', sync')
      BY <1>2, <1>4, <3>1, <3>3, <3>4, <3>5 DEF Fresh
    <3> QED BY <1>6, <3>1, <3>6, OneTaskFresh
  <2> QED BY <2>1, <2>2
<1> QED BY <1>2, <1>5, <1>7 DEF FreshInv, EntriesFresh

\* A hit is of the same key, so it is as new as the key.
LEMMA FreshHit ==
    ASSUME FreshInv, EngineInv', NEW r \in QRequests, CacheHit(r)
    PROVE  FreshInv'
<1> DEFINE s == sess[r]
           key == cache_key(s.kind, world.dv, s.version)
<1>1. EngineInv /\ Fresh(s, world, sync) /\ EntriesFresh /\ TableOK
  BY DEF FreshInv, TasksFresh
<1>2. s \in Synced /\ s.pc = "lookup"
  BY <1>1, Tasks DEF CacheHit
<1>3. PICK i \in DOMAIN qcache.entries :
        /\ qcache.entries[i].key = key /\ ~qcache.entries[i].expired
        /\ qcache' = get(qcache, i) /\ sess' = [sess EXCEPT ![r] = Answering(s, qcache.entries[i].value)]
  <2>1. PICK i \in At(qcache, key) :
          /\ ~qcache.entries[i].expired
          /\ qcache' = get(qcache, i) /\ sess' = [sess EXCEPT ![r] = Answering(s, qcache.entries[i].value)]
    BY DEF CacheHit
  <2> HIDE DEF key
  <2>2. i \in DOMAIN qcache.entries /\ qcache.entries[i].key = key
    BY <1>1, <2>1, CacheHolds
  <2> QED BY <2>1, <2>2
<1>4. UNCHANGED <<world, sync>>
  BY DEF CacheHit
<1> DEFINE e == qcache.entries[i]
           w == Answering(s, e.value)
<1>5. EntryFresh(e) /\ e.key = key /\ ~e.expired /\ e.value \in QueryValue
  BY <1>1, <1>3, CacheHolds DEF EntriesFresh
<1>6. key.kind = s.kind /\ key.dv = world.dv /\ key.seq = s.version.seq
  BY DEF cache_key
<1> HIDE DEF e, key
<1>7. /\ s.born.dv <= world.dv /\ s.born.seq <= world.seq /\ s.version.seq >= s.born.seq
      /\ s.born.dv \in Nat /\ s.born.seq \in Nat /\ s.version.seq \in Nat
      /\ world.dv \in Nat /\ e.value.dv \in Nat /\ \A rows \in e.value.seen : rows \in Nat
  BY <1>1, <1>2, <1>5, Versions DEF Fresh, Newest, Synced, Born, Version, QueryValue
<1>8. AtLeast(e.value, s.born.dv, s.born.seq)
  BY <1>5, <1>6, <1>7 DEF EntryFresh, AtLeast
<1>9. ReadsProperties(s.kind) => e.value.age < TooOld
  BY <1>5, <1>6 DEF EntryFresh
<1>10. w.pc = "served" /\ w.born = s.born /\ w.kind = s.kind /\ w.value = e.value
  BY DEF Answering
<1>11. sess' = [sess EXCEPT ![r] = w]
  BY <1>3 DEF e
<1> HIDE DEF w
<1>12. Fresh(w, world', sync')
  BY <1>4, <1>7, <1>8, <1>9, <1>10 DEF Fresh
<1>13. TasksFresh'
  BY <1>1, <1>4, <1>11, <1>12, SameWorld, OneTaskFresh
<1>14. EntriesFresh'
  <2>1. DrawnFrom(qcache', qcache)
    BY <1>1, <1>3, CacheHolds, GetKeeps
  <2> QED BY <1>1, <2>1 DEF DrawnFrom, EntriesFresh
<1> QED BY <1>1, <1>4, <1>13, <1>14 DEF FreshInv, TableOK

\* Loaded property names are new.
LEMMA FreshLoad ==
    ASSUME FreshInv, EngineInv', NEW r \in QRequests, load_person_property(r)
    PROVE  FreshInv'
<1> DEFINE s == sess[r]
           key == cache_key(s.kind, world.dv, s.version)
           asked == IF Cacheable(s.kind) /\ ~s.refresh THEN At(qcache, key) ELSE {}
           w == [pc |-> "run", kind |-> s.kind, born |-> s.born, queue |-> s.queue, exec |-> s.exec,
                 conn |-> s.conn, key |-> key, read |-> 0, seen |-> {}, age |-> 0]
<1>1. EngineInv /\ Fresh(s, world, sync) /\ EntriesFresh /\ TableOK
  BY DEF FreshInv, TasksFresh
<1>2. s \in Synced /\ s.pc = "lookup"
  BY <1>1, Tasks DEF load_person_property
<1>3. /\ qcache' = IF asked = {} THEN qcache ELSE get(qcache, CHOOSE i \in asked : TRUE)
      /\ sess' = [sess EXCEPT ![r] = w] /\ UNCHANGED <<world, sync>>
  BY DEF load_person_property
<1>4. asked \subseteq DOMAIN qcache.entries
  BY <1>1, CacheHolds
<1>5. key.kind = s.kind /\ key.dv = world.dv /\ key.seq = s.version.seq
  BY DEF cache_key
<1> HIDE DEF asked, key
<1>6. w.pc = "run" /\ w.kind = s.kind /\ w.born = s.born /\ w.key = key /\ w.seen = {} /\ w.age = 0
  OBVIOUS
<1> HIDE DEF w
<1>7. Fresh(w, world, sync)
  BY <1>1, <1>2, <1>5, <1>6 DEF Fresh, TooOld
<1>8. TasksFresh'
  BY <1>1, <1>3, <1>7, SameWorld, OneTaskFresh
<1>9. EntriesFresh'
  <2>1. CASE asked = {}
    BY <1>1, <1>3, <2>1 DEF EntriesFresh
  <2>2. CASE asked # {}
    <3>1. DrawnFrom(qcache', qcache)
      BY <1>1, <1>3, <1>4, <2>2, CacheHolds, GetKeeps
    <3> QED BY <1>1, <3>1 DEF DrawnFrom, EntriesFresh
  <2> QED BY <2>1, <2>2
<1> QED BY <1>1, <1>3, <1>8, <1>9 DEF FreshInv, TableOK

\* A statement sees the table of its moment, which is not older than the key.
LEMMA FreshRun ==
    ASSUME FreshInv, EngineInv', NEW r \in QRequests, RunStatement(r)
    PROVE  FreshInv'
<1> DEFINE s == sess[r]
           w == [pc |-> "run", kind |-> s.kind, born |-> s.born, queue |-> s.queue, exec |-> s.exec,
                 conn |-> s.conn, key |-> s.key, read |-> s.read + 1,
                 seen |-> s.seen \union {sync.rows}, age |-> s.age]
<1>1. EngineInv /\ Fresh(s, world, sync) /\ TableOK
  BY DEF FreshInv, TasksFresh
<1>2. s \in Computing /\ sess' = [sess EXCEPT ![r] = w] /\ s.pc = "run"
  BY <1>1, ReadForm DEF Computing
<1>3. UNCHANGED <<world, qcache>> /\ UNCHANGED sync
  BY DEF RunStatement
<1>4. w.pc = "run" /\ w.kind = s.kind /\ w.born = s.born /\ w.key = s.key /\ w.age = s.age
      /\ w.seen = s.seen \union {sync.rows}
  OBVIOUS
<1> HIDE DEF w
<1>5. \A rows \in w.seen : rows >= s.key.seq
  <2>1. sync.rows >= s.key.seq
    BY <1>1, <1>2, Versions DEF Fresh, TableOK, Newest, Computing, CacheKey
  <2>2. \A rows \in s.seen : rows >= s.key.seq
    BY <1>1, <1>2 DEF Fresh
  <2> QED BY <1>4, <2>1, <2>2
<1>6. Fresh(w, world, sync)
  BY <1>1, <1>2, <1>4, <1>5 DEF Fresh
<1> QED BY <1>2, <1>3, <1>6, QuietStep

\* A result is as new as its key when it is cached.
LEMMA FreshFinish ==
    ASSUME FreshInv, EngineInv', NEW r \in QRequests, Finish(r)
    PROVE  FreshInv'
<1> DEFINE s == sess[r]
           w == Answering(s, Computed(s))
<1>1. EngineInv /\ Fresh(s, world, sync) /\ EntriesFresh /\ TableOK
  BY DEF FreshInv, TasksFresh
<1>2. s \in Computing /\ s.pc = "run"
  BY <1>1, Tasks DEF Finish
<1>3. sess' = [sess EXCEPT ![r] = w] /\ UNCHANGED <<world, sync>>
  BY DEF Finish
<1>4. /\ Computed(s).dv = s.key.dv /\ Computed(s).seen = s.seen /\ Computed(s).age = s.age
      /\ Computed(s) \in QueryValue /\ s.key \in CacheKey
  BY <1>2 DEF Computed, QueryValue, Computing, CacheKey
<1>5. /\ s.key.kind = s.kind /\ s.key.dv >= s.born.dv /\ s.key.seq >= s.born.seq
      /\ (\A rows \in s.seen : rows >= s.key.seq) /\ s.age < TooOld
      /\ s.born.dv <= world.dv /\ s.born.seq <= world.seq
  BY <1>1, <1>2 DEF Fresh
<1>6. /\ s.key.seq \in Nat /\ s.key.dv \in Nat /\ s.born.seq \in Nat /\ \A rows \in s.seen : rows \in Nat
  BY <1>2 DEF Computing, CacheKey, Born
<1>7. AtLeast(Computed(s), s.key.dv, s.key.seq) /\ AtLeast(Computed(s), s.born.dv, s.born.seq)
  BY <1>4, <1>5, <1>6 DEF AtLeast
<1>8. w.pc = "served" /\ w.born = s.born /\ w.kind = s.kind /\ w.value = Computed(s)
  BY DEF Answering
<1> HIDE DEF w
<1>9. Fresh(w, world, sync)
  BY <1>4, <1>5, <1>7, <1>8 DEF Fresh
<1>10. TasksFresh'
  BY <1>1, <1>3, <1>9, SameWorld, OneTaskFresh
<1>11. EntriesFresh'
  <2>1. CASE UNCHANGED qcache
    BY <1>1, <2>1 DEF EntriesFresh
  <2>2. CASE \E bytes \in ResultSizes : qcache' = put(qcache, s.key, Computed(s), bytes, HasTtl(s.kind))
    <3>1. PICK bytes \in ResultSizes : qcache' = put(qcache, s.key, Computed(s), bytes, HasTtl(s.kind))
      BY <2>2
    <3>2. bytes \in Nat /\ HasTtl(s.kind) \in BOOLEAN
      BY QueryLimits DEF HasTtl, ReadsProperties
    <3> DEFINE e == [key |-> s.key, value |-> Computed(s), bytes |-> bytes, ttl |-> HasTtl(s.kind), expired |-> FALSE]
    <3>3. \A i \in DOMAIN qcache'.entries :
            qcache'.entries[i] = e \/ \E j \in DOMAIN qcache.entries : qcache'.entries[i] = qcache.entries[j]
      BY <1>1, <1>4, <3>1, <3>2, CacheHolds, PutKeeps
    <3>4. EntryFresh(e)
      BY <1>4, <1>5, <1>7 DEF EntryFresh, HasTtl
    <3> HIDE DEF e
    <3> QED BY <1>1, <3>3, <3>4 DEF EntriesFresh
  <2> QED BY <2>1, <2>2 DEF Finish
<1> QED BY <1>1, <1>3, <1>10, <1>11 DEF FreshInv, TableOK

\* A session that fails answers nothing.
LEMMA FreshFails ==
    ASSUME FreshInv, EngineInv', NEW r \in QRequests, SessionFails(r)
    PROVE  FreshInv'
<1> DEFINE s == sess[r]
           w == Answering(s, NoAnswer)
<1>1. EngineInv /\ Fresh(s, world, sync) /\ s.pc = "run"
  BY DEF FreshInv, TasksFresh, SessionFails
<1>2. sess' = [sess EXCEPT ![r] = w] /\ UNCHANGED <<world, qcache>> /\ UNCHANGED sync
  BY DEF SessionFails
<1>3. w.pc = "served" /\ w.born = s.born /\ w.value.seen = {}
  BY DEF Answering, NoAnswer
<1> HIDE DEF w
<1>4. Fresh(w, world, sync)
  BY <1>1, <1>3 DEF Fresh
<1> QED BY <1>2, <1>4, QuietStep

\* Time makes only the property names older, within their TTL.
LEMMA FreshTick ==
    ASSUME FreshInv, EngineInv', Tick
    PROVE  FreshInv'
<1>1. EngineInv /\ TasksFresh /\ EntriesFresh /\ TableOK
  BY DEF FreshInv
<1>2. UNCHANGED <<world, sync>> /\ \A r \in QRequests : sess'[r] = Aged(sess[r])
  BY <1>1, TickForm DEF Tick
<1>3. ASSUME NEW r \in QRequests PROVE Fresh(sess'[r], world', sync')
  <2> DEFINE s == sess[r]
  <2>1. s \in TaskState /\ Fresh(s, world, sync) /\ sess'[r] = Aged(s)
    BY <1>1, <1>2, Tasks DEF TasksFresh
  <2>2. CASE s.pc = "run"
    <3>1. /\ Aged(s).kind = s.kind /\ Aged(s).born = s.born /\ Aged(s).key = s.key
          /\ Aged(s).seen = s.seen /\ Aged(s).pc = "run"
          /\ Aged(s).age = IF ReadsProperties(s.kind) THEN 1 ELSE s.age
      BY <2>1, <2>2, TaskAges
    <3>2. Aged(s).age < TooOld
      BY <2>1, <2>2, <3>1 DEF Fresh, TooOld
    <3> QED BY <1>2, <2>1, <2>2, <3>1, <3>2 DEF Fresh
  <2>3. CASE s.pc # "run"
    <3>1. Aged(s) = s
      BY <2>1, <2>3, TaskAges
    <3> QED BY <1>2, <2>1, <3>1
  <2> QED BY <2>2, <2>3
<1>4. ASSUME NEW i \in DOMAIN qcache'.entries PROVE EntryFresh(qcache'.entries[i])
  <2>1. i \in DOMAIN qcache.entries /\ qcache'.entries[i] = Older(qcache.entries[i])
    BY <1>1, TickForm
  <2> DEFINE e == qcache.entries[i]
  <2>2. e \in CacheEntry /\ EntryFresh(e)
    BY <1>1, <2>1, CacheHolds DEF EntriesFresh
  <2> HIDE DEF e
  <2>3. /\ Older(e).key = e.key /\ Older(e).ttl = e.ttl
        /\ Older(e).value.dv = e.value.dv /\ Older(e).value.seen = e.value.seen
        /\ ReadsProperties(e.key.kind) => Older(e).expired = e.ttl
    BY <2>2, EntryAges
  <2>4. EntryFresh(Older(e))
    BY <2>2, <2>3 DEF EntryFresh, AtLeast
  <2> QED BY <2>1, <2>4 DEF e
<1> QED BY <1>1, <1>2, <1>3, <1>4 DEF FreshInv, TableOK, TasksFresh, EntriesFresh

\* Publications and merges raise the versions.
LEMMA FreshWorld ==
    ASSUME FreshInv, EngineInv', MaxErasures = 0, Publish \/ MergePersons \/ EraseSomeone
    PROVE  FreshInv'
<1>1. EngineInv /\ TasksFresh /\ EntriesFresh /\ TableOK
  BY DEF FreshInv
<1>2. UNCHANGED <<econf, sync, sess, qcache>>
  BY DEF Publish, MergePersons, EraseSomeone, World
<1>3. world'.epoch = world.epoch /\ world'.dv >= world.dv /\ world'.seq >= world.seq
  BY <1>1, Tasks DEF Publish, MergePersons, EraseSomeone, World, TableOK
<1>4. Later(world, sync, world', sync') /\ Newest(world, sync) /\ Newest(world', sync')
  BY <1>1, <1>2, <1>3, Versions DEF Later, Newest
<1>5. ASSUME NEW r \in QRequests PROVE Fresh(sess'[r], world', sync')
  <2>1. sess'[r] = sess[r] /\ sess[r] \in TaskState /\ Fresh(sess[r], world, sync)
    BY <1>1, <1>2, Tasks DEF TasksFresh
  <2> QED BY <1>4, <2>1, StaysFresh
<1>6. TableOK'
  BY <1>1, <1>2, <1>3, <1>4 DEF TableOK, Newest
<1> QED BY <1>1, <1>2, <1>5, <1>6 DEF FreshInv, EntriesFresh, TasksFresh

\* Every step of the engine keeps answers fresh.
LEMMA FreshStep ==
    ASSUME FreshInv, MaxErasures = 0, [QueryNext]_queryVars
    PROVE  FreshInv'
<1>1. EngineInv'
  BY EngineStep DEF FreshInv
<1>2. ASSUME Publish \/ MergePersons \/ EraseSomeone \/ Tick PROVE FreshInv'
  BY <1>1, <1>2, FreshWorld, FreshTick
<1>3. ASSUME NEW r \in QRequests, NEW kind \in QKinds,
             admit(r, kind, FALSE) \/ (Cacheable(kind) /\ admit(r, kind, TRUE))
      PROVE  FreshInv'
  BY <1>1, <1>3, FreshAdmit
<1>4. ASSUME NEW r \in QRequests, Execute(r) \/ GiveUpWaiting(r) \/ ClientLeaves(r) \/ session(r)
      PROVE  FreshInv'
  BY <1>1, <1>4, FreshMoves, FreshLock, FreshSync, FreshHit, FreshLoad, FreshRun, FreshFinish,
     FreshFails DEF session
<1>5. CASE UNCHANGED queryVars
  BY <1>1, <1>5 DEF queryVars, FreshInv, TableOK, EntriesFresh, TasksFresh
<1> QED BY <1>2, <1>3, <1>4, <1>5 DEF QueryNext

\* The properties follow.
LEMMA FreshAnswers == FreshInv => ServedIsFresh /\ PropertiesWithinTtl
BY DEF FreshInv, TasksFresh, Fresh, AtLeast, ServedIsFresh, PropertiesWithinTtl, Served

-----------------------------------------------------------------------------
(* The explore gate.                                                        *)

GateTypes ==
    /\ caller \in [Queries -> {"idle", "queued", "waiting", "interrupting", "done"}]
    /\ task \in [Queries -> {"none", "starting", "working", "clearing", "returning"}]
    /\ {conn, slot, handle} \subseteq [Queries -> Connections \union {NoConnection}]
    /\ idle \subseteq Connections /\ IsFiniteSet(idle)

\* A query that waits has no task.  A task holds a connection from its start to its return, and the handle in the
\* slot, or in the caller's hand, is that of the connection the task still uses.
HandlesOK ==
    \A q \in Queries :
        /\ caller[q] \in {"idle", "queued"} => task[q] = "none"
        /\ task[q] \in {"working", "clearing", "returning"} <=> conn[q] # NoConnection
        /\ slot[q] # NoConnection => slot[q] = conn[q] /\ task[q] \in {"working", "clearing"}
        /\ caller[q] = "interrupting" =>
             handle[q] = conn[q] /\ task[q] \in {"working", "clearing"}

GateInv == GateTypes /\ HandlesOK /\ DeadlinesHitOwnQuery

\* The running permits count what runs, whoever has left.
LEMMA GateLimits ==
    /\ IsFiniteSet(Queries) /\ MaxConcurrent \in Nat /\ MaxConcurrent > 0 /\ NoConnection \notin Connections
    /\ \A S \in SUBSET Queries : IsFiniteSet(S) /\ Cardinality(S) \in Nat
<1>1. /\ IsFiniteSet(Queries) /\ MaxConcurrent \in Nat /\ MaxConcurrent > 0 /\ NoConnection \notin Connections
  BY GateAssumption
<1>2. ASSUME NEW S \in SUBSET Queries PROVE IsFiniteSet(S) /\ Cardinality(S) \in Nat
  BY <1>1, FS_Subset, FS_CardinalityType
<1> QED BY <1>1, <1>2

\* The gate starts empty.
LEMMA GateStarts == GateInit => GateInv
<1> SUFFICES ASSUME GateInit PROVE GateInv
  OBVIOUS
<1>1. {q \in Queries : Running(q)} = {}
  BY DEF GateInit, Running
<1>2. Cardinality({}) = 0
  BY FS_EmptySet
<1>3. GateTypes /\ HandlesOK
  BY <1>2, GateLimits, FS_EmptySet DEF GateInit, GateTypes, HandlesOK
<1>4. DeadlinesHitOwnQuery
  BY <1>1, <1>2, GateLimits DEF GateInit, DeadlinesHitOwnQuery
<1> QED BY <1>3, <1>4 DEF GateInv

\* A query that does not start keeps the number of those that run.
LEMMA FewerRun ==
    ASSUME GateInv, \A q \in Queries : task'[q] # "none" => task[q] # "none"
    PROVE  Cardinality({q \in Queries : Running(q)})' <= MaxConcurrent
<1> DEFINE R == {q \in Queries : task[q] # "none"}
           S == {q \in Queries : task'[q] # "none"}
<1>1. S \subseteq R /\ R \subseteq Queries /\ S \subseteq Queries
  OBVIOUS
<1>2. Cardinality(R) <= MaxConcurrent
  BY DEF GateInv, DeadlinesHitOwnQuery, Running
<1>3. {q \in Queries : Running(q)}' = S
  BY DEF Running
<1> HIDE DEF R, S
<1>4. Cardinality(S) <= Cardinality(R) /\ Cardinality(S) \in Nat /\ Cardinality(R) \in Nat
  BY <1>1, GateLimits, FS_Subset
<1> QED BY <1>2, <1>3, <1>4, GateLimits

\* A step that starts nothing, moves no connection and reaches no stray one keeps
\* what DeadlinesHitOwnQuery says.
LEMMA SameConnections ==
    ASSUME GateInv, UNCHANGED <<conn, idle>>, ~stray',
           \A q \in Queries : task'[q] # "none" => task[q] # "none"
    PROVE  DeadlinesHitOwnQuery'
<1>1. Cardinality({q \in Queries : Running(q)})' <= MaxConcurrent
  BY FewerRun
<1>2. DeadlinesHitOwnQuery
  BY DEF GateInv
<1> QED BY <1>1, <1>2 DEF DeadlinesHitOwnQuery

\* A query is queued.
LEMMA GateAdmit ==
    ASSUME GateInv, NEW q \in Queries, Admit(q)
    PROVE  GateInv'
<1>1. GateTypes /\ HandlesOK /\ ~stray
  BY DEF GateInv, DeadlinesHitOwnQuery
<1>2. GateTypes'
  BY <1>1, GateLimits DEF GateTypes, HandlesOK, Admit
<1>3. HandlesOK'
  BY <1>1, GateLimits DEF GateTypes, HandlesOK, Admit
<1>4. UNCHANGED <<conn, idle>> /\ ~stray' /\ \A p \in Queries : task'[p] # "none" => task[p] # "none"
  BY <1>1, GateLimits DEF GateTypes, HandlesOK, Admit
<1>5. DeadlinesHitOwnQuery'
  BY <1>4, SameConnections
<1> QED BY <1>2, <1>3, <1>5 DEF GateInv

\* The work of a task is over.
LEMMA GateWorkReturns ==
    ASSUME GateInv, NEW q \in Queries, WorkReturns(q)
    PROVE  GateInv'
<1>1. GateTypes /\ HandlesOK /\ ~stray
  BY DEF GateInv, DeadlinesHitOwnQuery
<1>2. GateTypes'
  BY <1>1, GateLimits DEF GateTypes, HandlesOK, WorkReturns
<1>3. HandlesOK'
  BY <1>1, GateLimits DEF GateTypes, HandlesOK, WorkReturns
<1>4. UNCHANGED <<conn, idle>> /\ ~stray' /\ \A p \in Queries : task'[p] # "none" => task[p] # "none"
  BY <1>1, GateLimits DEF GateTypes, HandlesOK, WorkReturns
<1>5. DeadlinesHitOwnQuery'
  BY <1>4, SameConnections
<1> QED BY <1>2, <1>3, <1>5 DEF GateInv

\* The task clears the slot, so that no deadline finds the handle any more.
LEMMA GateClearSlot ==
    ASSUME GateInv, NEW q \in Queries, ClearSlot(q)
    PROVE  GateInv'
<1>1. GateTypes /\ HandlesOK /\ ~stray
  BY DEF GateInv, DeadlinesHitOwnQuery
<1>2. GateTypes'
  BY <1>1, GateLimits DEF GateTypes, HandlesOK, ClearSlot, SlotFree
<1>3. HandlesOK'
  BY <1>1, GateLimits DEF GateTypes, HandlesOK, ClearSlot, SlotFree
<1>4. UNCHANGED <<conn, idle>> /\ ~stray' /\ \A p \in Queries : task'[p] # "none" => task[p] # "none"
  BY <1>1, GateLimits DEF GateTypes, HandlesOK, ClearSlot
<1>5. DeadlinesHitOwnQuery'
  BY <1>4, SameConnections
<1> QED BY <1>2, <1>3, <1>5 DEF GateInv

\* The caller has its answer before the deadline.
LEMMA GateAnswerInTime ==
    ASSUME GateInv, NEW q \in Queries, AnswerInTime(q)
    PROVE  GateInv'
<1>1. GateTypes /\ HandlesOK /\ ~stray
  BY DEF GateInv, DeadlinesHitOwnQuery
<1>2. GateTypes'
  BY <1>1, GateLimits DEF GateTypes, HandlesOK, AnswerInTime
<1>3. HandlesOK'
  BY <1>1, GateLimits DEF GateTypes, HandlesOK, AnswerInTime
<1>4. UNCHANGED <<conn, idle>> /\ ~stray' /\ \A p \in Queries : task'[p] # "none" => task[p] # "none"
  BY <1>1, GateLimits DEF GateTypes, HandlesOK, AnswerInTime
<1>5. DeadlinesHitOwnQuery'
  BY <1>4, SameConnections
<1> QED BY <1>2, <1>3, <1>5 DEF GateInv

\* The deadline takes the handle out of the slot.
LEMMA GateTimeout ==
    ASSUME GateInv, NEW q \in Queries, Timeout(q)
    PROVE  GateInv'
<1>1. GateTypes /\ HandlesOK /\ ~stray
  BY DEF GateInv, DeadlinesHitOwnQuery
<1>2. GateTypes'
  BY <1>1, GateLimits DEF GateTypes, HandlesOK, Timeout
<1>3. HandlesOK'
  BY <1>1, GateLimits DEF GateTypes, HandlesOK, Timeout
<1>4. UNCHANGED <<conn, idle>> /\ ~stray' /\ \A p \in Queries : task'[p] # "none" => task[p] # "none"
  BY <1>1, GateLimits DEF GateTypes, HandlesOK, Timeout
<1>5. DeadlinesHitOwnQuery'
  BY <1>4, SameConnections
<1> QED BY <1>2, <1>3, <1>5 DEF GateInv

\* The deadline interrupts the connection of the handle it took, which its own task still uses.
LEMMA GateInterrupt ==
    ASSUME GateInv, NEW q \in Queries, Interrupt(q)
    PROVE  GateInv'
<1>1. GateTypes /\ HandlesOK /\ ~stray
  BY DEF GateInv, DeadlinesHitOwnQuery
<1>2. GateTypes'
  BY <1>1, GateLimits DEF GateTypes, HandlesOK, Interrupt
<1>3. HandlesOK'
  BY <1>1, GateLimits DEF GateTypes, HandlesOK, Interrupt
<1>4. UNCHANGED <<conn, idle>> /\ ~stray' /\ \A p \in Queries : task'[p] # "none" => task[p] # "none"
  BY <1>1, GateLimits DEF GateTypes, HandlesOK, Interrupt
<1>5. DeadlinesHitOwnQuery'
  BY <1>4, SameConnections
<1> QED BY <1>2, <1>3, <1>5 DEF GateInv

\* A client leaves, and its task stays.
LEMMA GateLeave ==
    ASSUME GateInv, NEW q \in Queries, Leave(q)
    PROVE  GateInv'
<1>1. GateTypes /\ HandlesOK /\ ~stray
  BY DEF GateInv, DeadlinesHitOwnQuery
<1>2. GateTypes'
  BY <1>1, GateLimits DEF GateTypes, HandlesOK, Leave
<1>3. HandlesOK'
  BY <1>1, GateLimits DEF GateTypes, HandlesOK, Leave
<1>4. UNCHANGED <<conn, idle>> /\ ~stray' /\ \A p \in Queries : task'[p] # "none" => task[p] # "none"
  BY <1>1, GateLimits DEF GateTypes, HandlesOK, Leave
<1>5. DeadlinesHitOwnQuery'
  BY <1>4, SameConnections
<1> QED BY <1>2, <1>3, <1>5 DEF GateInv

\* A caller that was answered asks again when its task has ended.
LEMMA GateAskAgain ==
    ASSUME GateInv, NEW q \in Queries, AskAgain(q)
    PROVE  GateInv'
<1>1. GateTypes /\ HandlesOK /\ ~stray
  BY DEF GateInv, DeadlinesHitOwnQuery
<1>2. GateTypes'
  BY <1>1, GateLimits DEF GateTypes, HandlesOK, AskAgain
<1>3. HandlesOK'
  BY <1>1, GateLimits DEF GateTypes, HandlesOK, AskAgain
<1>4. UNCHANGED <<conn, idle>> /\ ~stray' /\ \A p \in Queries : task'[p] # "none" => task[p] # "none"
  BY <1>1, GateLimits DEF GateTypes, HandlesOK, AskAgain
<1>5. DeadlinesHitOwnQuery'
  BY <1>4, SameConnections
<1> QED BY <1>2, <1>3, <1>5 DEF GateInv

\* A permit is taken and the task is spawned.
LEMMA GateSpawn ==
    ASSUME GateInv, NEW q \in Queries, Spawn(q)
    PROVE  GateInv'
<1>1. GateTypes /\ HandlesOK /\ DeadlinesHitOwnQuery
  BY DEF GateInv
<1>2. GateTypes'
  BY <1>1, GateLimits DEF GateTypes, HandlesOK, Spawn
<1>3. HandlesOK'
  BY <1>1, GateLimits DEF GateTypes, HandlesOK, Spawn
<1> DEFINE R == {p \in Queries : task[p] # "none"}
           S == {p \in Queries : task'[p] # "none"}
<1>4. Cardinality(R) < MaxConcurrent
  <2>1. RunningPermits > 0 /\ Cardinality(R) \in Nat
    BY GateLimits DEF Spawn, RunPermits
  <2>2. RunningPermits = MaxConcurrent - Cardinality(R)
    BY DEF RunningPermits, Running
  <2> HIDE DEF R
  <2> QED BY <2>1, <2>2, GateLimits
<1>5. S \subseteq R \union {q}
  BY <1>1 DEF Spawn, GateTypes
<1>6. Cardinality(S) <= MaxConcurrent
  <2>1. R \subseteq Queries /\ R \union {q} \subseteq Queries
    OBVIOUS
  <2> HIDE DEF R, S
  <2>2. IsFiniteSet(R) /\ IsFiniteSet(R \union {q}) /\ Cardinality(R) \in Nat
    BY <2>1, GateLimits
  <2>3. Cardinality(R \union {q}) <= Cardinality(R) + 1 /\ Cardinality(R \union {q}) \in Nat
    BY <2>2, FS_AddElement, FS_CardinalityType
  <2>4. Cardinality(S) <= Cardinality(R \union {q}) /\ Cardinality(S) \in Nat
    BY <1>5, <2>2, FS_Subset, FS_CardinalityType
  <2> QED BY <1>4, <2>2, <2>3, <2>4, GateLimits
<1>7. {p \in Queries : Running(p)}' = S
  BY DEF Running
<1>8. DeadlinesHitOwnQuery'
  <2> HIDE DEF S
  <2> QED BY <1>1, <1>6, <1>7 DEF DeadlinesHitOwnQuery, Spawn
<1> QED BY <1>2, <1>3, <1>8 DEF GateInv

\* The task takes a free connection, or a new one.
LEMMA GateConnection ==
    ASSUME GateInv, NEW q \in Queries, with_connection(q)
    PROVE  GateInv'
<1>1. GateTypes /\ HandlesOK /\ DeadlinesHitOwnQuery
  BY DEF GateInv
<1>2. PICK c \in Connections :
          /\ IF idle # {} THEN c \in idle ELSE \A r \in Queries : conn[r] # c
          /\ conn' = [conn EXCEPT ![q] = c]
          /\ slot' = [slot EXCEPT ![q] = c]
          /\ idle' = idle \ {c}
  BY DEF with_connection
<1>3. task[q] = "starting" /\ caller[q] # "interrupting" /\ task' = [task EXCEPT ![q] = "working"]
      /\ UNCHANGED <<caller, handle, stray>>
  BY DEF with_connection
<1>4. \A r \in Queries : conn[r] # c
  BY <1>1, <1>2 DEF DeadlinesHitOwnQuery
<1>5. IsFiniteSet(idle') /\ Cardinality(idle') <= Cardinality(idle)
  <2>1. IsFiniteSet(idle) /\ idle' \subseteq idle
    BY <1>1, <1>2 DEF GateTypes
  <2> QED BY <2>1, FS_Subset
<1>6. GateTypes'
  BY <1>1, <1>2, <1>3, <1>5 DEF GateTypes
<1>7. HandlesOK'
  BY <1>1, <1>2, <1>3, GateLimits DEF GateTypes, HandlesOK
<1>8. Cardinality({p \in Queries : Running(p)})' <= MaxConcurrent
  <2>1. \A p \in Queries : task'[p] # "none" => task[p] # "none"
    BY <1>1, <1>3 DEF GateTypes
  <2> QED BY <2>1, FewerRun
<1>9. Cardinality(idle') <= MaxConcurrent + 1
  <2>1. Cardinality(idle) <= MaxConcurrent + 1 /\ Cardinality(idle) \in Nat /\ Cardinality(idle') \in Nat
    BY <1>1, <1>5, FS_CardinalityType DEF GateTypes, DeadlinesHitOwnQuery
  <2> QED BY <1>5, <2>1, GateLimits
<1>10. \A p, r \in Queries : p # r /\ conn'[p] # NoConnection => conn'[p] # conn'[r]
  BY <1>1, <1>2, <1>4 DEF GateTypes, DeadlinesHitOwnQuery
<1>11. \A p \in Queries : conn'[p] \notin idle'
  BY <1>1, <1>2, <1>4 DEF GateTypes, DeadlinesHitOwnQuery
<1>12. ~stray'
  BY <1>1, <1>3 DEF DeadlinesHitOwnQuery
<1>13. DeadlinesHitOwnQuery'
  BY <1>8, <1>9, <1>10, <1>11, <1>12 DEF DeadlinesHitOwnQuery
<1> QED BY <1>6, <1>7, <1>13 DEF GateInv

\* The task returns its connection.
LEMMA GateReturn ==
    ASSUME GateInv, NEW q \in Queries, ReturnToPool(q)
    PROVE  GateInv'
<1>1. GateTypes /\ HandlesOK /\ DeadlinesHitOwnQuery
  BY DEF GateInv
<1>2. /\ task[q] = "returning" /\ task' = [task EXCEPT ![q] = "none"]
      /\ idle' = IF Cardinality(idle) < MaxConcurrent + 1 THEN idle \union {conn[q]} ELSE idle
      /\ conn' = [conn EXCEPT ![q] = NoConnection]
      /\ UNCHANGED <<caller, slot, handle, stray>>
  BY DEF ReturnToPool
<1>3. conn[q] \in Connections
  BY <1>1, <1>2 DEF GateTypes, HandlesOK
<1>4. IsFiniteSet(idle') /\ Cardinality(idle') <= MaxConcurrent + 1
  <2>1. IsFiniteSet(idle) /\ Cardinality(idle) \in Nat /\ Cardinality(idle) <= MaxConcurrent + 1
    BY <1>1, FS_CardinalityType DEF GateTypes, DeadlinesHitOwnQuery
  <2>2. CASE Cardinality(idle) < MaxConcurrent + 1
    <3>1. IsFiniteSet(idle \union {conn[q]}) /\ Cardinality(idle \union {conn[q]}) <= Cardinality(idle) + 1
      BY <2>1, FS_AddElement
    <3>2. Cardinality(idle \union {conn[q]}) \in Nat
      BY <3>1, FS_CardinalityType
    <3> QED BY <1>2, <2>1, <2>2, <3>1, <3>2, GateLimits
  <2>3. CASE ~(Cardinality(idle) < MaxConcurrent + 1)
    BY <1>2, <2>1, <2>3
  <2> QED BY <2>2, <2>3
<1>5. idle' \subseteq idle \union {conn[q]}
  BY <1>2
<1>6. GateTypes'
  BY <1>1, <1>2, <1>3, <1>4, <1>5 DEF GateTypes
<1>7. HandlesOK'
  BY <1>1, <1>2, GateLimits DEF GateTypes, HandlesOK
<1>8. Cardinality({p \in Queries : Running(p)})' <= MaxConcurrent
  <2>1. \A p \in Queries : task'[p] # "none" => task[p] # "none"
    BY <1>1, <1>2 DEF GateTypes
  <2> QED BY <2>1, FewerRun
<1>9. \A p, r \in Queries : p # r /\ conn'[p] # NoConnection => conn'[p] # conn'[r]
  BY <1>1, <1>2 DEF GateTypes, DeadlinesHitOwnQuery
<1>10. \A p \in Queries : conn'[p] \notin idle'
  <2> SUFFICES ASSUME NEW p \in Queries PROVE conn'[p] \notin idle \union {conn[q]}
    BY <1>5
  <2>1. CASE p = q
    BY <1>1, <1>2, <1>3, <2>1, GateLimits DEF GateTypes
  <2>2. CASE p # q
    BY <1>1, <1>2, <1>3, <2>2, GateLimits DEF GateTypes, DeadlinesHitOwnQuery
  <2> QED BY <2>1, <2>2
<1>11. ~stray'
  BY <1>1, <1>2 DEF DeadlinesHitOwnQuery
<1>12. DeadlinesHitOwnQuery'
  BY <1>4, <1>8, <1>9, <1>10, <1>11 DEF DeadlinesHitOwnQuery
<1> QED BY <1>6, <1>7, <1>12 DEF GateInv

\* Every step of the gate keeps its invariant.
LEMMA GateStep == GateInv /\ [GateNext]_gateVars => GateInv'
<1> SUFFICES ASSUME GateInv, [GateNext]_gateVars PROVE GateInv'
  OBVIOUS
<1>1. ASSUME NEW q \in Queries,
             \/ Admit(q) \/ Spawn(q) \/ with_connection(q) \/ WorkReturns(q) \/ ClearSlot(q)
             \/ ReturnToPool(q) \/ AnswerInTime(q) \/ Timeout(q) \/ Interrupt(q) \/ Leave(q) \/ AskAgain(q)
      PROVE  GateInv'
  BY <1>1, GateAdmit, GateSpawn, GateConnection, GateWorkReturns, GateClearSlot, GateReturn,
     GateAnswerInTime, GateTimeout, GateInterrupt, GateLeave, GateAskAgain
<1>2. CASE UNCHANGED gateVars
  BY <1>2 DEF gateVars, GateInv, GateTypes, HandlesOK, DeadlinesHitOwnQuery, Running
<1> QED BY <1>1, <1>2 DEF GateNext

-----------------------------------------------------------------------------
(* The publication backlog.                                                 *)

WriterPlace == [at : {"idle", "group", "sealed", "counted", "swapped"}, n : Nat, segment : Nat]
PublisherPlace == [at : {"idle", "published", "measured", "stored"}, n : Nat, segment : Nat]

BacklogTypes ==
    /\ segmentOf \in Seq(Nat) /\ active \in Nat /\ sealedOldest \in Seq(Nat)
    /\ ackedTo \in 0 .. Written /\ publishedTo \in Nat /\ activeOldest \in BOOLEAN
    /\ writerAt \in WriterPlace /\ publisherAt \in PublisherPlace

\* Segments are numbered along the log.
SegmentsOrdered ==
    /\ \A i, j \in 1 .. Written : i <= j => segmentOf[i] <= segmentOf[j]
    /\ \A b \in 1 .. Written : segmentOf[b] <= active

\* A clock that runs covers every batch that is acknowledged and not published: the
\* active one, the one in note_sealed's hands, or one stored with its segment or a
\* later one.
ClocksCover ==
    \A b \in 1 .. ackedTo : b > publishedTo =>
        \/ activeOldest
        \/ writerAt.at = "swapped" /\ segmentOf[b] <= writerAt.segment
        \/ \E k \in DOMAIN sealedOldest : segmentOf[b] <= sealedOldest[k]

\* A seal carries the number of the last segment; a publication, that of a segment
\* which no batch is behind that it did not publish.
CarriedOK ==
    /\ writerAt.at \in {"sealed", "counted", "swapped"} =>
         \A b \in 1 .. Written : segmentOf[b] <= writerAt.segment
    /\ publisherAt.at # "idle" =>
         /\ publisherAt.segment <= active
         /\ \A b \in 1 .. Written : b > publishedTo => publisherAt.segment <= segmentOf[b]

BacklogInv == BacklogTypes /\ SegmentsOrdered /\ ClocksCover /\ CarriedOK

\* The places at which the threads start.
LEMMA PlaceForm ==
    /\ Place("idle") \in WriterPlace /\ Place("group") \in WriterPlace /\ Place("idle") \in PublisherPlace
    /\ Place("idle").at = "idle" /\ Place("group").at = "group"
BY DEF Place, WriterPlace, PublisherPlace

\* Nothing is behind at the start.
LEMMA BacklogStarts == BacklogInit => BacklogInv
<1> SUFFICES ASSUME BacklogInit PROVE BacklogInv
  OBVIOUS
<1>1. /\ segmentOf = <<>> /\ sealedOldest = <<>> /\ active = 1 /\ ackedTo = 0 /\ publishedTo = 0
      /\ activeOldest = FALSE /\ writerAt = Place("idle") /\ publisherAt = Place("idle")
  BY DEF BacklogInit
<1>2. segmentOf \in Seq(Nat) /\ sealedOldest \in Seq(Nat) /\ Written = 0
  BY <1>1 DEF Written
<1>3. BacklogTypes
  <2>1. active \in Nat /\ publishedTo \in Nat /\ activeOldest \in BOOLEAN
    BY <1>1
  <2>2. ackedTo \in 0 .. Written
    BY <1>1, <1>2
  <2> QED BY <1>1, <1>2, <2>1, <2>2, PlaceForm DEF BacklogTypes
<1>4. 1 .. Written = {} /\ 1 .. ackedTo = {}
  BY <1>1, <1>2
<1> QED BY <1>1, <1>3, <1>4, PlaceForm DEF BacklogInv, SegmentsOrdered, ClocksCover, CarriedOK

\* The batches of the active segment are the last ones.
LEMMA ActiveIsSuffix ==
    ASSUME BacklogInv
    PROVE  /\ SealedTo \in Int /\ SealedTo <= Written /\ ActiveBytes \in Nat
           /\ \A b \in 1 .. Written : b > SealedTo => segmentOf[b] = active
<1> DEFINE N == Len(segmentOf)
           A == {b \in 1 .. N : segmentOf[b] = active}
<1>1. /\ N \in Nat /\ \A b \in 1 .. N : segmentOf[b] \in Nat /\ segmentOf[b] <= active
      /\ \A i, j \in 1 .. N : i <= j => segmentOf[i] <= segmentOf[j]
      /\ active \in Nat
  BY DEF BacklogInv, BacklogTypes, SegmentsOrdered, Written
<1>2. Written = N /\ ActiveBytes = Cardinality(A) /\ SealedTo = N - Cardinality(A)
  BY DEF Written, ActiveBytes, InSegment, SealedTo
<1> HIDE DEF N
<1>3. A \subseteq 1 .. N
  OBVIOUS
<1>4. IsFiniteSet(1 .. N) /\ Cardinality(1 .. N) = N
  BY <1>1, FS_Interval
<1>5. IsFiniteSet(A) /\ Cardinality(A) \in Nat
  BY <1>3, <1>4, FS_Subset, FS_CardinalityType
<1>6. ASSUME NEW b \in 1 .. N, b > N - Cardinality(A), segmentOf[b] # active PROVE FALSE
  <2>1. A \subseteq (b + 1) .. N
    BY <1>1, <1>6
  <2>2. IsFiniteSet((b + 1) .. N) /\ Cardinality((b + 1) .. N) = N - b
    <3>1. b + 1 \in Int /\ N \in Int /\ (b + 1 <= N \/ b = N)
      BY <1>1
    <3>2. CASE b + 1 <= N
      BY <1>1, <3>1, <3>2, FS_Interval
    <3>3. CASE b = N
      <4>1. (b + 1) .. N = {}
        BY <1>1, <3>3
      <4> QED BY <1>1, <3>3, <4>1, FS_EmptySet
    <3> QED BY <3>1, <3>2, <3>3
  <2>3. Cardinality(A) <= N - b
    BY <2>1, <2>2, FS_Subset, ZenonT(60)
  <2> HIDE DEF A
  <2> QED BY <1>1, <1>5, <1>6, <2>3
<1> HIDE DEF A
<1> QED BY <1>1, <1>2, <1>5, <1>6

\* A written batch is in the last segment, and not acknowledged.
LEMMA BacklogWrite == ASSUME BacklogInv, Write PROVE BacklogInv'
<1>1. BacklogTypes /\ SegmentsOrdered /\ ClocksCover /\ CarriedOK
  BY DEF BacklogInv
<1>2. PICK s \in {active, active + 1} : active' = s /\ segmentOf' = Append(segmentOf, s)
  BY DEF Write
<1>3. /\ writerAt.at \in {"idle", "group"} /\ writerAt' = Place("group")
      /\ UNCHANGED <<ackedTo, publishedTo, activeOldest, sealedOldest, publisherAt>>
  BY DEF Write
<1> DEFINE N == Len(segmentOf)
<1>4. /\ N \in Nat /\ Len(segmentOf') = N + 1 /\ segmentOf' \in Seq(Nat) /\ segmentOf'[N + 1] = s
      /\ s \in Nat /\ s >= active /\ active \in Nat
      /\ \A b \in 1 .. N : segmentOf'[b] = segmentOf[b] /\ segmentOf[b] \in Nat
  BY <1>1, <1>2 DEF BacklogTypes
<1> HIDE DEF N
<1>5. Written = N /\ Written' = N + 1
  BY <1>4 DEF Written, N
<1>6. BacklogTypes'
  BY <1>1, <1>2, <1>3, <1>4, <1>5, PlaceForm DEF BacklogTypes
<1>7. SegmentsOrdered'
  BY <1>1, <1>2, <1>4, <1>5 DEF SegmentsOrdered
<1>8. ackedTo \in 0 .. N /\ publishedTo \in Nat
  BY <1>1, <1>5 DEF BacklogTypes
<1>9. ClocksCover'
  BY <1>1, <1>3, <1>4, <1>5, <1>8 DEF ClocksCover
<1>10. CarriedOK'
  BY <1>1, <1>2, <1>3, <1>4, <1>5, <1>8, PlaceForm DEF CarriedOK, BacklogTypes, PublisherPlace
<1> QED BY <1>6, <1>7, <1>9, <1>10 DEF BacklogInv

\* Acknowledged batches are covered by the clock of the active segment.
LEMMA BacklogAck == ASSUME BacklogInv, note_acked PROVE BacklogInv'
<1>1. BacklogTypes /\ SegmentsOrdered /\ ClocksCover /\ CarriedOK
  BY DEF BacklogInv
<1>2. /\ ackedTo' = Written /\ activeOldest' = TRUE /\ writerAt' = Place("idle")
      /\ UNCHANGED <<segmentOf, active, publishedTo, sealedOldest, publisherAt>>
  BY DEF note_acked
<1>3. Written' = Written /\ Written \in Nat
  BY <1>1, <1>2 DEF Written, BacklogTypes
<1>4. BacklogTypes'
  BY <1>1, <1>2, <1>3, PlaceForm DEF BacklogTypes
<1>5. ClocksCover'
  BY <1>2 DEF ClocksCover
<1> QED BY <1>1, <1>2, <1>3, <1>4, <1>5, PlaceForm DEF BacklogInv, SegmentsOrdered, CarriedOK

\* A seal carries the number of the segment that was active.
LEMMA BacklogSeal == ASSUME BacklogInv, Seal PROVE BacklogInv'
<1>1. BacklogTypes /\ SegmentsOrdered /\ ClocksCover /\ CarriedOK
  BY DEF BacklogInv
<1>2. /\ writerAt.at = "idle" /\ writerAt' = [at |-> "sealed", n |-> ActiveBytes, segment |-> active]
      /\ active' = active + 1
      /\ UNCHANGED <<segmentOf, ackedTo, publishedTo, activeOldest, sealedOldest, publisherAt>>
  BY DEF Seal
<1>3. Written' = Written /\ \A b \in 1 .. Written : segmentOf[b] \in Nat
  BY <1>1, <1>2 DEF Written, BacklogTypes
<1>4. BacklogTypes'
  BY <1>1, <1>2, <1>3, ActiveIsSuffix DEF BacklogTypes, WriterPlace
<1>5. SegmentsOrdered'
  BY <1>1, <1>2, <1>3 DEF SegmentsOrdered, BacklogTypes
<1>6. ClocksCover'
  <2>1. writerAt.at # "swapped" /\ writerAt'.at = "sealed"
    BY <1>2
  <2>2. \A b \in 1 .. ackedTo : b > publishedTo =>
            activeOldest \/ \E k \in DOMAIN sealedOldest : segmentOf[b] <= sealedOldest[k]
    BY <1>1, <2>1 DEF ClocksCover
  <2>3. /\ ackedTo' = ackedTo /\ publishedTo' = publishedTo /\ activeOldest' = activeOldest
        /\ sealedOldest' = sealedOldest /\ segmentOf' = segmentOf
    BY <1>2
  <2> QED BY <2>2, <2>3 DEF ClocksCover
<1>7. CarriedOK'
  BY <1>1, <1>2, <1>3 DEF CarriedOK, SegmentsOrdered, BacklogTypes, PublisherPlace
<1> QED BY <1>4, <1>5, <1>6, <1>7 DEF BacklogInv

\* Counting the sealed bytes moves no clock.
LEMMA BacklogCount == ASSUME BacklogInv, AddSealed PROVE BacklogInv'
<1>1. BacklogTypes /\ SegmentsOrdered /\ ClocksCover /\ CarriedOK
  BY DEF BacklogInv
<1>2. /\ writerAt.at = "sealed" /\ writerAt' = [writerAt EXCEPT !.at = "counted"]
      /\ UNCHANGED <<segmentOf, active, ackedTo, publishedTo, activeOldest, sealedOldest, publisherAt>>
  BY DEF AddSealed
<1>3. writerAt' \in WriterPlace /\ writerAt'.at = "counted" /\ writerAt'.segment = writerAt.segment
  BY <1>1, <1>2 DEF BacklogTypes, WriterPlace
<1> QED BY <1>1, <1>2, <1>3
       DEF BacklogInv, BacklogTypes, SegmentsOrdered, ClocksCover, CarriedOK, Written

\* The swapped clock is in note_sealed's hands.
LEMMA BacklogSwap == ASSUME BacklogInv, SwapClock PROVE BacklogInv'
<1>1. BacklogTypes /\ SegmentsOrdered /\ ClocksCover /\ CarriedOK
  BY DEF BacklogInv
<1>2. /\ writerAt.at = "counted" /\ activeOldest' = FALSE
      /\ writerAt' = IF activeOldest THEN [writerAt EXCEPT !.at = "swapped"] ELSE Place("idle")
      /\ UNCHANGED <<segmentOf, active, ackedTo, publishedTo, sealedOldest, publisherAt>>
  BY DEF SwapClock
<1>3. Written' = Written /\ \A b \in 1 .. Written : segmentOf[b] <= writerAt.segment
  BY <1>1, <1>2 DEF CarriedOK, Written
<1>4. CASE activeOldest
  <2>1. writerAt' \in WriterPlace /\ writerAt'.at = "swapped" /\ writerAt'.segment = writerAt.segment
    BY <1>1, <1>2, <1>4 DEF BacklogTypes, WriterPlace
  <2>2. BacklogTypes'
    BY <1>1, <1>2, <1>3, <2>1 DEF BacklogTypes
  <2>3. ClocksCover'
    <3>1. \A b \in 1 .. ackedTo : b \in 1 .. Written
      BY <1>1 DEF BacklogTypes, Written
    <3>2. \A b \in 1 .. ackedTo : writerAt'.at = "swapped" /\ segmentOf[b] <= writerAt'.segment
      BY <1>3, <2>1, <3>1
    <3> QED BY <1>2, <3>2 DEF ClocksCover
  <2> QED BY <1>1, <1>2, <1>3, <2>1, <2>2, <2>3 DEF BacklogInv, SegmentsOrdered, CarriedOK
<1>5. CASE ~activeOldest
  <2>1. writerAt' = Place("idle")
    BY <1>2, <1>5
  <2>2. BacklogTypes'
    BY <1>1, <1>2, <1>3, <2>1, PlaceForm DEF BacklogTypes
  <2>3. ClocksCover'
    BY <1>1, <1>2, <1>5 DEF ClocksCover
  <2> QED BY <1>1, <1>2, <1>3, <2>1, <2>2, <2>3, PlaceForm DEF BacklogInv, SegmentsOrdered, CarriedOK
<1> QED BY <1>4, <1>5

\* The pushed clock is stored under a segment that no batch it covers is behind.
LEMMA BacklogPush == ASSUME BacklogInv, PushClock PROVE BacklogInv'
<1>1. BacklogTypes /\ SegmentsOrdered /\ ClocksCover /\ CarriedOK
  BY DEF BacklogInv
<1> DEFINE g == writerAt.segment
<1>2. /\ writerAt.at = "swapped" /\ sealedOldest' = Append(sealedOldest, g) /\ writerAt' = Place("idle")
      /\ UNCHANGED <<segmentOf, active, ackedTo, publishedTo, activeOldest, publisherAt>>
  BY DEF PushClock
<1>3. Written' = Written /\ g \in Nat /\ sealedOldest \in Seq(Nat)
  BY <1>1, <1>2 DEF Written, BacklogTypes, WriterPlace
<1> HIDE DEF g
<1> DEFINE M == Len(sealedOldest)
<1>4. /\ sealedOldest' \in Seq(Nat) /\ M \in Nat /\ DOMAIN sealedOldest' = 1 .. (M + 1)
      /\ DOMAIN sealedOldest = 1 .. M
      /\ sealedOldest'[M + 1] = g /\ \A k \in 1 .. M : sealedOldest'[k] = sealedOldest[k]
  BY <1>2, <1>3
<1>5. BacklogTypes'
  BY <1>1, <1>2, <1>3, <1>4, PlaceForm DEF BacklogTypes
<1> HIDE DEF M
<1>6. ASSUME NEW b \in 1 .. ackedTo, b > publishedTo, ~activeOldest
      PROVE  \E k \in DOMAIN sealedOldest' : segmentOf[b] <= sealedOldest'[k]
  <2>1. CASE segmentOf[b] <= g
    <3>1. M + 1 \in DOMAIN sealedOldest'
      BY <1>4
    <3> QED BY <1>4, <2>1, <3>1
  <2>2. CASE \E k \in DOMAIN sealedOldest : segmentOf[b] <= sealedOldest[k]
    <3>1. PICK k \in 1 .. M : segmentOf[b] <= sealedOldest[k]
      BY <1>4, <2>2
    <3>2. k \in 1 .. (M + 1)
      BY <1>4
    <3> QED BY <1>4, <3>1, <3>2
  <2> QED BY <1>1, <1>6, <2>1, <2>2 DEF ClocksCover, g
<1>7. ClocksCover'
  BY <1>2, <1>6 DEF ClocksCover
<1> QED BY <1>1, <1>2, <1>3, <1>5, <1>7, PlaceForm DEF BacklogInv, SegmentsOrdered, CarriedOK

\* A publication passes over batches of earlier segments only.
LEMMA BacklogPublish == ASSUME BacklogInv, PublishBatches PROVE BacklogInv'
<1>1. BacklogTypes /\ SegmentsOrdered /\ ClocksCover /\ CarriedOK
  BY DEF BacklogInv
<1>2. PICK n \in publishedTo .. SealedTo :
         publishedTo' = n /\ publisherAt' = [at |-> "published", n |-> 0, segment |-> CheckpointSegment(n)]
  BY DEF PublishBatches
<1>3. UNCHANGED <<segmentOf, active, ackedTo, activeOldest, sealedOldest, writerAt>>
  BY DEF PublishBatches
<1>4. /\ n \in Nat /\ n >= publishedTo /\ publishedTo \in Nat /\ n <= SealedTo /\ SealedTo \in Int
      /\ Written \in Nat /\ SealedTo <= Written /\ Written' = Written
      /\ \A b \in 1 .. Written : segmentOf[b] \in Nat
  BY <1>1, <1>2, <1>3, ActiveIsSuffix DEF BacklogTypes, Written
<1> DEFINE c == CheckpointSegment(n)
<1>5. c \in Nat /\ c <= active /\ \A b \in 1 .. Written : b > n => c <= segmentOf[b]
  <2>1. CASE n < SealedTo
    <3>1. c = segmentOf[n + 1] /\ n + 1 \in 1 .. Written
      BY <1>4, <2>1 DEF CheckpointSegment
    <3>2. \A b \in 1 .. Written : b > n => n + 1 <= b
      BY <1>4
    <3> HIDE DEF c
    <3> QED BY <1>1, <1>4, <3>1, <3>2 DEF SegmentsOrdered
  <2>2. CASE ~(n < SealedTo)
    <3>1. c = active /\ n = SealedTo
      BY <1>4, <2>2 DEF CheckpointSegment
    <3>2. \A b \in 1 .. Written : b > n => segmentOf[b] = active
      BY <3>1, ActiveIsSuffix
    <3> HIDE DEF c
    <3> QED BY <1>1, <3>1, <3>2 DEF BacklogTypes
  <2> QED BY <2>1, <2>2
<1> HIDE DEF c
<1>6. publisherAt' = [at |-> "published", n |-> 0, segment |-> c]
  BY <1>2 DEF c
<1>7. BacklogTypes'
  BY <1>1, <1>2, <1>3, <1>4, <1>5, <1>6 DEF BacklogTypes, PublisherPlace
<1>8. ClocksCover'
  BY <1>1, <1>2, <1>3, <1>4 DEF ClocksCover, BacklogTypes
<1>9. CarriedOK'
  BY <1>1, <1>2, <1>3, <1>4, <1>5, <1>6 DEF CarriedOK
<1> QED BY <1>1, <1>3, <1>4, <1>7, <1>8, <1>9 DEF BacklogInv, SegmentsOrdered

\* Measuring the directory moves no clock.
LEMMA BacklogMeasure == ASSUME BacklogInv, ReadDisk \/ StoreSealed PROVE BacklogInv'
<1>1. BacklogTypes /\ SegmentsOrdered /\ ClocksCover /\ CarriedOK
  BY DEF BacklogInv
<1>2. /\ UNCHANGED <<segmentOf, active, ackedTo, publishedTo, activeOldest, sealedOldest, writerAt>>
      /\ publisherAt.at \in {"published", "measured"}
  BY DEF ReadDisk, StoreSealed
<1>3. publisherAt' \in PublisherPlace /\ publisherAt'.segment = publisherAt.segment
  <2>1. CASE StoreSealed
    BY <1>1, <2>1 DEF StoreSealed, BacklogTypes, PublisherPlace
  <2>2. CASE ReadDisk
    <3> DEFINE S == {b \in 1 .. SealedTo : segmentOf[b] >= publisherAt.segment}
               m == Cardinality(S)
    <3>1. publisherAt' = [[publisherAt EXCEPT !.at = "measured"] EXCEPT !.n = m]
      BY <2>2, Zenon DEF ReadDisk
    <3>2. m \in Nat
      <4>1. SealedTo \in Int /\ S \subseteq 1 .. SealedTo
        BY ActiveIsSuffix
      <4>2. IsFiniteSet(1 .. SealedTo)
        BY <4>1, FS_Interval
      <4> HIDE DEF S
      <4> QED BY <4>1, <4>2, FS_Subset, FS_CardinalityType
    <3> HIDE DEF m
    <3> QED BY <1>1, <3>1, <3>2 DEF BacklogTypes, PublisherPlace
  <2> QED BY <2>1, <2>2
<1> QED BY <1>1, <1>2, <1>3 DEF BacklogInv, BacklogTypes, SegmentsOrdered, ClocksCover, CarriedOK, Written

\* The clocks that are dropped are of segments that are wholly published.
LEMMA BacklogNote == ASSUME BacklogInv, note_published PROVE BacklogInv'
<1>1. BacklogTypes /\ SegmentsOrdered /\ ClocksCover /\ CarriedOK
  BY DEF BacklogInv
<1> DEFINE c == publisherAt.segment
           s == sealedOldest
           M == Len(s)
           gone == {k \in DOMAIN s : \A j \in 1 .. k : WhollyPublished(s[j], c)}
           m == Cardinality(gone)
           t == SubSeq(s, m + 1, M)
<1>2. /\ publisherAt.at = "stored" /\ publisherAt' = Place("idle") /\ sealedOldest' = t
      /\ UNCHANGED <<segmentOf, active, ackedTo, publishedTo, activeOldest, writerAt>>
  BY DEF note_published
<1>3. /\ s \in Seq(Nat) /\ M \in Nat /\ DOMAIN s = 1 .. M /\ c \in Nat
      /\ \A k \in 1 .. M : s[k] \in Nat
  BY <1>1 DEF BacklogTypes, PublisherPlace
<1> HIDE DEF M
<1>4. gone \subseteq 1 .. M /\ IsFiniteSet(1 .. M) /\ Cardinality(1 .. M) = M
  <2>1. gone \subseteq 1 .. M
    BY <1>3
  <2>2. 1 \in Int /\ M \in Int /\ 1 <= M + 1
    BY <1>3
  <2>3. IsFiniteSet(1 .. M)
    BY <2>2, FS_Interval
  <2>4. Cardinality(1 .. M) = M
    <3> HIDE DEF gone
    <3>1. CASE M = 0
      BY <3>1, FS_EmptySet
    <3>2. CASE 1 <= M
      <4>1. M - 1 + 1 = M
        BY <1>3
      <4> QED BY <2>2, <3>2, <4>1, FS_Interval
    <3> QED BY <1>3, <3>1, <3>2
  <2> QED BY <2>1, <2>3, <2>4
<1> HIDE DEF s, c
<1>5. m \in Nat /\ m <= M
  <2> HIDE DEF gone
  <2>1. IsFiniteSet(gone) /\ Cardinality(gone) <= Cardinality(1 .. M)
    BY <1>4, FS_Subset
  <2> QED BY <1>4, <2>1, FS_CardinalityType
<1>6. ASSUME NEW k \in 1 .. M, s[k] >= c PROVE k > m
  <2>1. gone \subseteq 1 .. (k - 1)
    BY <1>3, <1>6 DEF WhollyPublished
  <2>2. IsFiniteSet(1 .. (k - 1)) /\ Cardinality(1 .. (k - 1)) = k - 1
    BY <1>3, FS_Interval
  <2>3. Cardinality(gone) <= k - 1
    BY <2>1, <2>2, FS_Subset
  <2> HIDE DEF gone
  <2> QED BY <1>3, <1>5, <2>3
<1> HIDE DEF m
<1>7. /\ t \in Seq(Nat) /\ DOMAIN t = 1 .. (M - m)
      /\ \A k \in 1 .. (M - m) : t[k] = s[k + m]
  BY <1>3, <1>5 DEF M
<1> HIDE DEF t
<1>8. Written' = Written /\ BacklogTypes'
  BY <1>1, <1>2, <1>7, PlaceForm DEF BacklogTypes, Written
<1>9. ASSUME NEW b \in 1 .. ackedTo, b > publishedTo, NEW k \in 1 .. M, segmentOf[b] <= s[k]
      PROVE  \E i \in DOMAIN t : segmentOf[b] <= t[i]
  <2>1. b \in 1 .. Written /\ segmentOf[b] \in Nat /\ c <= segmentOf[b]
    <3>1. Written \in Nat /\ ackedTo \in 0 .. Written /\ publisherAt.at # "idle"
          /\ \A i \in 1 .. Written : segmentOf[i] \in Nat
      BY <1>1, <1>2 DEF BacklogTypes, Written
    <3>2. b \in 1 .. Written
      BY <1>9, <3>1
    <3> QED BY <1>1, <1>9, <3>1, <3>2 DEF CarriedOK, c
  <2>2. k > m
    BY <1>3, <1>6, <1>9, <2>1
  <2>3. k - m \in 1 .. (M - m) /\ (k - m) + m = k
    BY <1>3, <1>5, <2>2
  <2> QED BY <1>7, <1>9, <2>3
<1>10. ClocksCover'
  <2>1. DOMAIN sealedOldest = 1 .. M /\ s = sealedOldest
    BY <1>3 DEF s
  <2> QED BY <1>1, <1>2, <1>9, <2>1 DEF ClocksCover
<1> QED BY <1>1, <1>2, <1>8, <1>10, PlaceForm DEF BacklogInv, SegmentsOrdered, CarriedOK

\* Every step of the two threads keeps the invariant.
LEMMA BacklogStep == BacklogInv /\ [BacklogNext]_backlogVars => BacklogInv'
<1> SUFFICES ASSUME BacklogInv, [BacklogNext]_backlogVars PROVE BacklogInv'
  OBVIOUS
<1>1. CASE UNCHANGED backlogVars
  BY <1>1 DEF backlogVars, BacklogInv, BacklogTypes, SegmentsOrdered, ClocksCover, CarriedOK, Written
<1>2. CASE BacklogNext
  BY <1>2, BacklogWrite, BacklogAck, BacklogSeal, BacklogCount, BacklogSwap, BacklogPush,
     BacklogPublish, BacklogMeasure, BacklogNote DEF BacklogNext
<1> QED BY <1>1, <1>2

\* The property follows.
LEMMA LagIsHonest == BacklogInv => LagHonest
<1> SUFFICES ASSUME BacklogInv, LagIsZero, writerAt.at # "swapped" PROVE ackedTo <= publishedTo
  BY DEF LagHonest
<1>1. ackedTo \in Nat /\ publishedTo \in Nat
  BY DEF BacklogInv, BacklogTypes, Written
<1>2. ~(ackedTo > publishedTo)
  <2> SUFFICES ASSUME ackedTo > publishedTo PROVE FALSE
    OBVIOUS
  <2>1. ackedTo \in 1 .. ackedTo
    BY <1>1
  <2>2. DOMAIN sealedOldest = {} /\ ~activeOldest
    BY DEF LagIsZero
  <2> QED BY <2>1, <2>2 DEF BacklogInv, ClocksCover
<1> QED BY <1>1, <1>2

-----------------------------------------------------------------------------
(* Folds over finite sets.                                                  *)

\* The element a fold over a set takes.
Pick(s) == CHOOSE x \in s : TRUE

\* Pick takes a member.
LEMMA PickOne == ASSUME NEW s, s # {} PROVE Pick(s) \in s
BY DEF Pick

\* What a fold over the subsets of S computes: f[s] is the fold over s.
FoldRow(f, o, base, s) == IF s = {} THEN base ELSE o[Pick(s)][f[s \ {Pick(s)}]]

\* f holds the fold over each subset of S, with values in B.
Folded(f, S, B, o, base) ==
    f \in [SUBSET S -> B] /\ \A s \in SUBSET S : f[s] = FoldRow(f, o, base, s)

\* A fold over a finite set has a value.
LEMMA FoldExists ==
    ASSUME NEW S, IsFiniteSet(S), NEW B, NEW base \in B,
           NEW o, \A x \in S : \A b \in B : o[x][b] \in B
    PROVE  \E f : Folded(f, S, B, o, base)
<1> DEFINE Upto(n) == {s \in SUBSET S : Cardinality(s) <= n}
           Folds(f, n) == f \in [Upto(n) -> B] /\ \A s \in Upto(n) : f[s] = FoldRow(f, o, base, s)
           Exists(n) == \E f : Folds(f, n)
           T == {n \in Nat : ~Exists(n)}
<1>1. \A s \in SUBSET S : IsFiniteSet(s) /\ Cardinality(s) \in Nat /\ Cardinality(s) <= Cardinality(S)
  BY FS_Subset, FS_CardinalityType
<1>2. ASSUME T # {} PROVE FALSE
  <2>1. PICK n \in T : \A m \in T : n <= m
    <3>1. T \subseteq Nat
      OBVIOUS
    <3> HIDE DEF T
    <3> QED BY <1>2, <3>1, LeastNatural
  <2>2. n \in Nat /\ ~Exists(n)
    OBVIOUS
  <2>3. CASE n = 0
    <3> DEFINE z == [s \in Upto(0) |-> base]
    <3>1. \A s \in Upto(0) : s = {}
      BY <1>1, FS_EmptySet
    <3>2. Folds(z, 0)
      BY <3>1 DEF FoldRow
    <3> HIDE DEF Folds, z
    <3> QED BY <2>2, <2>3, <3>2
  <2>4. CASE n # 0
    <3>1. n - 1 \in Nat /\ n - 1 < n
      BY <2>2, <2>4
    <3>2. Exists(n - 1)
      <4> HIDE DEF Exists
      <4> QED BY <2>1, <3>1
    <3>3. PICK g : Folds(g, n - 1)
      BY <3>2
    <3> DEFINE e == [s \in Upto(n) |-> FoldRow(g, o, base, s)]
    <3>4. ASSUME NEW s \in Upto(n), s # {}
          PROVE  s \ {Pick(s)} \in Upto(n - 1) /\ Pick(s) \in S /\ g[s \ {Pick(s)}] \in B
      <4>1. Pick(s) \in s
        BY <3>4, PickOne
      <4>2. Cardinality(s \ {Pick(s)}) = Cardinality(s) - 1 /\ Cardinality(s) \in Nat
        BY <1>1, <4>1, FS_RemoveElement
      <4>3. s \ {Pick(s)} \in Upto(n - 1)
        BY <2>2, <4>2
      <4> QED BY <3>3, <4>1, <4>3
    <3>5. ASSUME NEW s \in Upto(n - 1) PROVE s \in Upto(n) /\ e[s] = g[s]
      <4>1. s \in Upto(n)
        BY <1>1, <2>2, <3>1
      <4> QED BY <3>3, <4>1
    <3>6. ASSUME NEW s \in Upto(n) PROVE e[s] \in B /\ e[s] = FoldRow(e, o, base, s)
      <4>1. CASE s = {}
        BY <4>1 DEF FoldRow
      <4>2. CASE s # {}
        <5>1. e[s \ {Pick(s)}] = g[s \ {Pick(s)}]
          BY <3>4, <3>5, <4>2
        <5>2. e[s] = FoldRow(g, o, base, s)
          OBVIOUS
        <5> HIDE DEF e
        <5> QED BY <3>4, <4>2, <5>1, <5>2 DEF FoldRow
      <4> QED BY <4>1, <4>2
    <3>7. Folds(e, n)
      <4>1. e \in [Upto(n) -> B]
        BY <3>6
      <4> HIDE DEF e
      <4> QED BY <3>6, <4>1
    <3> HIDE DEF Folds, e
    <3> QED BY <2>2, <3>7
  <2> QED BY <2>3, <2>4
<1>3. Cardinality(S) \in Nat /\ Upto(Cardinality(S)) = SUBSET S
  BY <1>1, FS_CardinalityType
<1>4. Exists(Cardinality(S))
  <2> HIDE DEF Exists
  <2> QED BY <1>2, <1>3
<1> QED BY <1>3, <1>4 DEF Folded

\* h[s] is the sum of fun over s.
SumsOver(h, fun, S) ==
    /\ h \in [SUBSET S -> Nat]
    /\ \A s \in SUBSET S : h[s] = IF s = {} THEN 0 ELSE fun[Pick(s)] + h[s \ {Pick(s)}]

\* The sum of a function is reached subset by subset.
LEMMA FunctionSumSteps ==
    ASSUME NEW S, IsFiniteSet(S), NEW fun \in [S -> Nat]
    PROVE  \E h : SumsOver(h, fun, S) /\ SumFunction(fun) = h[S]
<1> DEFINE Row(f, s) == IF s = {} THEN 0 ELSE fun[Pick(s)] + f[s \ {Pick(s)}]
           Folds(f) == f = [s \in SUBSET S |-> Row(f, s)]
           f == CHOOSE f : Folds(f)
           o == [x \in S |-> [n \in Nat |-> fun[x] + n]]
<1>1. SumFunction(fun) = f[S]
  BY DEF SumFunction, SumFunctionOnSet, FoldFunctionOnSet, MapThenFoldSet, Pick
<1>2. PICK g : Folded(g, S, Nat, o, 0)
  <2>1. \A x \in S : \A b \in Nat : o[x][b] \in Nat
    OBVIOUS
  <2>2. 0 \in Nat
    OBVIOUS
  <2> HIDE DEF o
  <2> QED BY <2>1, <2>2, FoldExists
<1>3. ASSUME NEW s \in SUBSET S, NEW h \in [SUBSET S -> Nat] PROVE FoldRow(h, o, 0, s) = Row(h, s)
  <2>1. CASE s = {}
    BY <2>1 DEF FoldRow
  <2>2. CASE s # {}
    <3>1. Pick(s) \in S /\ s \ {Pick(s)} \in SUBSET S
      BY <2>2, PickOne
    <3> QED BY <2>2, <3>1 DEF FoldRow
  <2> QED BY <2>1, <2>2
<1> HIDE DEF o
<1>4. Folds(g)
  <2>1. g \in [SUBSET S -> Nat]
    BY <1>2 DEF Folded
  <2>2. \A s \in SUBSET S : g[s] = Row(g, s)
    BY <1>2, <1>3 DEF Folded
  <2> HIDE DEF Row
  <2> QED BY <2>1, <2>2
<1>5. Folds(f)
  <2> HIDE DEF Folds
  <2> QED BY <1>4
<1>6. \A s \in SUBSET S : f[s] = Row(f, s)
  <2> HIDE DEF Row, f
  <2> QED BY <1>5
<1> DEFINE T == {s \in SUBSET S : f[s] # g[s]}
<1>7. T = {}
  <2> SUFFICES ASSUME T # {} PROVE FALSE
    OBVIOUS
  <2>1. PICK s \in T : \A x \in s : s \ {x} \notin T
    <3>1. T \subseteq SUBSET S
      OBVIOUS
    <3> HIDE DEF T
    <3> QED BY <3>1, SmallestSubset
  <2>2. s \in SUBSET S /\ f[s] # g[s]
    OBVIOUS
  <2>3. g[s] = Row(g, s) /\ f[s] = Row(f, s)
    BY <1>2, <1>3, <1>6 DEF Folded
  <2>4. s # {}
    BY <2>2, <2>3
  <2>5. Pick(s) \in s
    BY <2>4, PickOne
  <2>6. f[s \ {Pick(s)}] = g[s \ {Pick(s)}]
    BY <2>1, <2>2, <2>5
  <2> HIDE DEF f, T
  <2> QED BY <2>2, <2>3, <2>6
<1>8. f[S] = g[S]
  <2> HIDE DEF f
  <2> QED BY <1>7
<1>9. SumsOver(g, fun, S)
  BY <1>2, <1>3 DEF SumsOver, Folded
<1> HIDE DEF f
<1> QED BY <1>1, <1>8, <1>9

\* The order of the elements does not matter to a sum.
LEMMA SumRemoves ==
    ASSUME NEW S, IsFiniteSet(S), NEW fun \in [S -> Nat], NEW h, SumsOver(h, fun, S)
    PROVE  \A s \in SUBSET S : \A x \in s : h[s] = h[s \ {x}] + fun[x]
<1> DEFINE Bad(s) == \E x \in s : h[s] # h[s \ {x}] + fun[x]
           T == {s \in SUBSET S : Bad(s)}
<1> SUFFICES ASSUME T # {} PROVE FALSE
  OBVIOUS
<1>1. PICK s \in T : \A x \in s : s \ {x} \notin T
  <2>1. T \subseteq SUBSET S
    OBVIOUS
  <2> HIDE DEF T
  <2> QED BY <2>1, SmallestSubset
<1>2. PICK x \in s : h[s] # h[s \ {x}] + fun[x]
  OBVIOUS
<1> DEFINE c == Pick(s)
<1>3. c \in s /\ s \in SUBSET S
  BY <1>2, PickOne
<1>4. h[s] = fun[c] + h[s \ {c}]
  BY <1>2, <1>3 DEF SumsOver, Folded
<1> HIDE DEF c
<1>5. \A t \in SUBSET S : h[t] \in Nat
  BY DEF SumsOver
<1>6. x # c
  <2>1. s \ {c} \in SUBSET S /\ fun[c] \in Nat
    BY <1>3
  <2> HIDE DEF T
  <2> DEFINE a == h[s \ {c}]
             b == fun[c]
  <2>2. a \in Nat /\ b \in Nat /\ h[s] = b + a
    BY <1>4, <1>5, <2>1
  <2>3. x = c => h[s] # a + b
    BY <1>2
  <2> HIDE DEF a, b
  <2> QED BY <2>2, <2>3
<1>7. x \in s \ {c} /\ c \in s \ {x} /\ s \ {c} \in SUBSET S /\ s \ {x} \in SUBSET S
  BY <1>3, <1>6
<1>8. ~Bad(s \ {c}) /\ ~Bad(s \ {x})
  BY <1>1, <1>3, <1>7
<1> DEFINE u == (s \ {c}) \ {x}
<1>9. u = (s \ {x}) \ {c}
  OBVIOUS
<1>10. h[s \ {c}] = h[u] + fun[x]
  BY <1>7, <1>8
<1>11. h[s \ {x}] = h[u] + fun[c]
  BY <1>7, <1>8, <1>9
<1>12. u \in SUBSET S /\ fun[x] \in Nat /\ fun[c] \in Nat
  BY <1>3, <1>7
<1> HIDE DEF u, T
<1> QED BY <1>2, <1>4, <1>5, <1>10, <1>11, <1>12

\* A sum over less is no greater, by what is left out.
LEMMA SumGrows ==
    ASSUME NEW S, IsFiniteSet(S), NEW fun \in [S -> Nat], NEW h, SumsOver(h, fun, S),
           NEW t \in SUBSET S
    PROVE  h[t] <= h[S]
<1> DEFINE T == {s \in SUBSET S : t \subseteq s /\ ~(h[t] <= h[s])}
<1>1. \A s \in SUBSET S : h[s] \in Nat
  BY DEF SumsOver
<1>2. T = {}
  <2> SUFFICES ASSUME T # {} PROVE FALSE
    OBVIOUS
  <2>1. PICK s \in T : \A x \in s : s \ {x} \notin T
    <3>1. T \subseteq SUBSET S
      OBVIOUS
    <3> HIDE DEF T
    <3> QED BY <3>1, SmallestSubset
  <2>2. s \in SUBSET S /\ t \subseteq s /\ ~(h[t] <= h[s])
    OBVIOUS
  <2>3. PICK x \in s : x \notin t
    <3>1. CASE s = t
      BY <1>1, <2>2, <3>1
    <3> HIDE DEF T
    <3> QED BY <2>2, <3>1
  <2>4. s \ {x} \in SUBSET S /\ h[t] <= h[s \ {x}]
    BY <2>1, <2>2, <2>3
  <2>5. h[s] = h[s \ {x}] + fun[x] /\ fun[x] \in Nat
    BY <2>2, <2>3, SumRemoves
  <2> HIDE DEF T
  <2> QED BY <1>1, <2>2, <2>4, <2>5
<1> QED BY <1>2

\* The sum of a part of a function.
LEMMA SumOfPart ==
    ASSUME NEW S, IsFiniteSet(S), NEW fun \in [S -> Nat], NEW some \in SUBSET S,
           NEW g, g = [x \in some |-> fun[x]]
    PROVE  /\ SumFunction(g) \in Nat /\ SumFunction(fun) \in Nat /\ SumFunction(g) <= SumFunction(fun)
           /\ \A x \in S : x \notin some => SumFunction(g) + fun[x] <= SumFunction(fun)
<1>1. PICK h : SumsOver(h, fun, S) /\ SumFunction(fun) = h[S]
  BY FunctionSumSteps
<1>2. IsFiniteSet(some) /\ g \in [some -> Nat]
  BY FS_Subset
<1>3. PICK k : SumsOver(k, g, some) /\ SumFunction(g) = k[some]
  BY <1>2, FunctionSumSteps
<1> DEFINE T == {s \in SUBSET some : k[s] # h[s]}
<1>4. T = {}
  <2> SUFFICES ASSUME T # {} PROVE FALSE
    OBVIOUS
  <2>1. PICK s \in T : \A x \in s : s \ {x} \notin T
    <3>1. T \subseteq SUBSET some
      OBVIOUS
    <3> HIDE DEF T
    <3> QED BY <1>2, <3>1, SmallestSubset
  <2>2. s \in SUBSET some /\ s \in SUBSET S /\ k[s] # h[s]
    OBVIOUS
  <2> DEFINE c == Pick(s)
             u == s \ {c}
  <2>3. /\ h[s] = IF s = {} THEN 0 ELSE fun[c] + h[u]
        /\ k[s] = IF s = {} THEN 0 ELSE g[c] + k[u]
    BY <1>1, <1>3, <2>2 DEF SumsOver
  <2>4. s # {} /\ c \in s
    BY <2>2, <2>3, PickOne
  <2>5. k[u] = h[u] /\ g[c] = fun[c]
    BY <2>1, <2>2, <2>4
  <2> HIDE DEF c, u, T
  <2> QED BY <2>2, <2>3, <2>4, <2>5
<1>5. SumFunction(g) = h[some]
  BY <1>3, <1>4
<1>6. h[some] \in Nat /\ h[S] \in Nat /\ h[some] <= h[S]
  BY <1>1, SumGrows DEF SumsOver
<1>7. ASSUME NEW x \in S, x \notin some PROVE h[some] + fun[x] <= h[S]
  <2> DEFINE w == some \cup {x}
  <2>1. w \in SUBSET S /\ x \in w /\ w \ {x} = some
    BY <1>7
  <2>2. h[w] = h[some] + fun[x]
    BY <1>1, <2>1, SumRemoves
  <2>3. h[w] <= h[S]
    BY <1>1, <2>1, SumGrows
  <2> QED BY <2>2, <2>3
<1> QED BY <1>1, <1>5, <1>6, <1>7

-----------------------------------------------------------------------------
(* Capture.                                                                 *)

Places == {"gate", "budget", "decoding", "authorize", "access", "acking", "acked", "failed", "done"}
Early == {"gate", "budget", "decoding", "authorize", "access"}
Statuses == {"none", "200", "400", "401", "413", "429", "503", "gone"}
CallerRequest ==
    [at : Places, status : Statuses, body : Bodies, now : Nat, limited : BOOLEAN,
     projects : SUBSET CaptureTokens, asked : CaptureTokens \union {NoToken}, found : BOOLEAN]
Batch == [by : Callers, body : Bodies, projects : SUBSET CaptureTokens]
LimiterWindow == [second : Nat, counts : [CaptureTokens -> Nat]]
Limit == [ok : BOOLEAN, w : LimiterWindow]

\* A body has finitely many tokens, and counts of them.
LEMMA TokensCounted ==
    ASSUME NEW body \in Bodies
    PROVE  /\ IsFiniteSet(TokensOf(body)) /\ \A t : CountOf(body, t) \in Nat
           /\ Kept(body) # {} => TokensOf(body) # {}
<1>1. PICK n \in Nat : DOMAIN body.events = 1 .. n
  <2>1. body \in BodyType
    BY IntakeAssumption
  <2> QED BY <2>1 DEF BodyType
<1>2. IsFiniteSet(Kept(body))
  <2>1. IsFiniteSet(1 .. n) /\ Kept(body) \subseteq 1 .. n
    BY <1>1, FS_Interval DEF Kept
  <2> QED BY <2>1, FS_Subset
<1>3. ASSUME NEW t PROVE CountOf(body, t) \in Nat
  <2> DEFINE s == {i \in Kept(body) : resolve_token(body, body.events[i]) = t}
  <2>1. s \subseteq Kept(body) /\ CountOf(body, t) = Cardinality(s)
    BY DEF CountOf
  <2> HIDE DEF s
  <2> QED BY <1>2, <2>1, FS_Subset, FS_CardinalityType
<1>4. IsFiniteSet(TokensOf(body))
  <2> DEFINE f == [i \in Kept(body) |-> resolve_token(body, body.events[i])]
  <2>1. f \in Surjection(Kept(body), TokensOf(body))
    BY DEF Surjection, TokensOf
  <2> HIDE DEF f
  <2> QED BY <1>2, <2>1, FS_Surjection
<1>5. Kept(body) # {} => TokensOf(body) # {}
  BY DEF TokensOf
<1> QED BY <1>3, <1>4, <1>5

\* A body that parsed names a token for every event.
LEMMA ParsedTokens ==
    ASSUME NEW body \in Bodies, parse_body(body) = "parsed"
    PROVE  TokensOf(body) \subseteq CaptureTokens
<1>1. body \in BodyType
  BY IntakeAssumption
<1>2. ASSUME NEW i \in Kept(body) PROVE resolve_token(body, body.events[i]) \in CaptureTokens
  <2>1. resolve_token(body, body.events[i]) # NoToken
    BY DEF parse_body
  <2>2. i \in DOMAIN body.events
    BY DEF Kept
  <2>3. body.events[i].token \in CaptureTokens \union {NoToken} /\ body.batchToken \in CaptureTokens \union {NoToken}
    <3> DEFINE E == [token : CaptureTokens \union {NoToken}, shape : {"good", "malformed", "performance"}]
    <3>1. body.events \in Seq(E) /\ body.batchToken \in CaptureTokens \union {NoToken}
      BY <1>1 DEF BodyType
    <3>2. body.events[i] \in E
      <4> HIDE DEF E
      <4> QED BY <2>2, <3>1
    <3> QED BY <3>1, <3>2
  <2> QED BY <2>1, <2>3 DEF resolve_token
<1> QED BY <1>2 DEF TokensOf

\* What allow does to the table.
LEMMA AllowStep ==
    ASSUME NEW w \in LimiterWindow, NEW t \in CaptureTokens, NEW n \in Nat, NEW now \in Nat
    PROVE  /\ WindowAt(w, now) \in LimiterWindow /\ WindowAt(w, now).second = now
           /\ allow(w, t, n, now) \in Limit /\ allow(w, t, n, now).w.second = now
           /\ \A u \in CaptureTokens : allow(w, t, n, now).w.counts[u]
                 <= WindowAt(w, now).counts[u] + (IF u = t THEN n ELSE 0)
           /\ ~ allow(w, t, n, now).ok => allow(w, t, n, now).w.counts[t] > MaxPerSecond
<1> DEFINE v == WindowAt(w, now)
           a == allow(w, t, n, now)
           kept == Cardinality(Tracked(v)) >= MaxTracked /\ v.counts[t] = 0
           counts == [v.counts EXCEPT ![t] = @ + n]
           ok == v.counts[t] + n <= MaxPerSecond
<1>1. v \in LimiterWindow /\ v.second = now
  BY DEF WindowAt, LimiterWindow
<1>2. a = IF kept THEN [ok |-> TRUE, w |-> v] ELSE [ok |-> ok, w |-> [v EXCEPT !.counts = counts]]
  BY Zenon DEF allow
<1> HIDE DEF v, kept, a
<1>3. v = [second |-> v.second, counts |-> v.counts] /\ v.counts \in [CaptureTokens -> Nat] /\ v.second = now
  BY <1>1 DEF LimiterWindow
<1>4. CASE kept
  <2> DEFINE yes == TRUE
  <2>1. a = [ok |-> yes, w |-> v] /\ yes \in BOOLEAN /\ yes
    BY <1>2, <1>4
  <2> HIDE DEF yes
  <2>2. a \in Limit /\ a.w = v /\ a.ok
    BY <1>1, <2>1 DEF Limit
  <2>3. \A u \in CaptureTokens : v.counts[u] <= v.counts[u] + (IF u = t THEN n ELSE 0)
    BY <1>3
  <2> QED BY <1>1, <1>3, <2>2, <2>3 DEF v, a
<1>5. CASE ~kept
  <2>1. counts \in [CaptureTokens -> Nat]
        /\ \A u \in CaptureTokens : counts[u] = v.counts[u] + (IF u = t THEN n ELSE 0)
    BY <1>3
  <2>2. ok \in BOOLEAN /\ (~ ok => counts[t] > MaxPerSecond)
    BY <1>3, IntakeAssumption
  <2> HIDE DEF ok, counts
  <2>3. [v EXCEPT !.counts = counts] = [second |-> now, counts |-> counts]
    BY <1>3
  <2>4. a = [ok |-> ok, w |-> [second |-> now, counts |-> counts]]
    BY <1>2, <1>5, <2>3
  <2>5. a \in Limit /\ a.w.second = now /\ a.w.counts = counts /\ a.ok = ok
    BY <2>1, <2>2, <2>4 DEF Limit, LimiterWindow
  <2>6. \A u \in CaptureTokens : counts[u] <= v.counts[u] + (IF u = t THEN n ELSE 0)
    BY <1>3, <2>1
  <2> QED BY <1>1, <2>2, <2>5, <2>6 DEF v, a
<1> QED BY <1>4, <1>5

\* What the limiter of a batch leaves, whatever the order of its tokens.
LEMMA LimitBatchHolds ==
    ASSUME NEW r, requests[r].body \in Bodies, requests[r].now \in Nat, window \in LimiterWindow,
           TokensOf(requests[r].body) \subseteq CaptureTokens
    PROVE  LET body == requests[r].body
               now == requests[r].now
               L == LimitBatch(r)
           IN  /\ L \in Limit
               /\ TokensOf(body) = {} => L.ok /\ L.w = window
               /\ TokensOf(body) # {} =>
                    /\ L.w.second = now
                    /\ \A u \in CaptureTokens :
                         L.w.counts[u] <= WindowAt(window, now).counts[u] + CountOf(body, u)
               /\ ~ L.ok => \E u \in TokensOf(body) : L.w.counts[u] > MaxPerSecond
<1> DEFINE body == requests[r].body
           now == requests[r].now
           S == TokensOf(body)
           L == LimitBatch(r)
           base == [ok |-> TRUE, w |-> window]
           Op(t, acc) == IF ~acc.ok THEN acc ELSE allow(acc.w, t, CountOf(body, t), now)
           Row(f, s) == IF s = {} THEN base ELSE Op(Pick(s), f[s \ {Pick(s)}])
           Folds(f) == f = [s \in SUBSET S |-> Row(f, s)]
           f == CHOOSE f : Folds(f)
           o == [t \in S |-> [acc \in Limit |-> Op(t, acc)]]
<1>1. L = f[S]
  BY DEF LimitBatch, FoldSet, MapThenFoldSet, Pick
<1>2. base \in Limit /\ base.ok /\ base.w = window
  BY DEF Limit
<1> HIDE DEF base
<1>3. IsFiniteSet(S) /\ \A t \in CaptureTokens : CountOf(body, t) \in Nat
  BY TokensCounted
<1>4. now \in Nat /\ window \in LimiterWindow /\ S \subseteq CaptureTokens
  OBVIOUS
<1> HIDE DEF S, body, now, L
<1>5. ASSUME NEW t \in S, NEW acc \in Limit PROVE Op(t, acc) \in Limit
  <2>1. acc.w \in LimiterWindow /\ t \in CaptureTokens /\ CountOf(body, t) \in Nat
    BY <1>3, <1>4 DEF Limit
  <2>2. allow(acc.w, t, CountOf(body, t), now) \in Limit
    BY <1>4, <2>1, AllowStep
  <2> QED BY <2>2
<1>6. PICK g : Folded(g, S, Limit, o, base)
  <2>1. \A t \in S : \A acc \in Limit : o[t][acc] \in Limit
    <3> HIDE DEF Op
    <3> QED BY <1>5
  <2> HIDE DEF o
  <2> QED BY <1>2, <1>3, <2>1, FoldExists
<1>7. g \in [SUBSET S -> Limit] /\ \A s \in SUBSET S : g[s] = FoldRow(g, o, base, s)
  BY <1>6 DEF Folded
<1> HIDE DEF Op
<1>8. \A s \in SUBSET S : g[s] = Row(g, s)
  <2> SUFFICES ASSUME NEW s \in SUBSET S PROVE g[s] = Row(g, s)
    OBVIOUS
  <2>1. CASE s = {}
    BY <1>7, <2>1 DEF FoldRow
  <2>2. CASE s # {}
    <3>1. Pick(s) \in S /\ s \ {Pick(s)} \in SUBSET S
      BY <2>2, PickOne
    <3> QED BY <1>7, <2>2, <3>1 DEF FoldRow
  <2> QED BY <2>1, <2>2
<1>9. Folds(g)
  <2> HIDE DEF Row
  <2> QED BY <1>7, <1>8
<1>10. Folds(f)
  <2> HIDE DEF Folds
  <2> QED BY <1>9
<1>11. \A s \in SUBSET S : f[s] = Row(f, s)
  <2> HIDE DEF Row, f
  <2> QED BY <1>10
<1> HIDE DEF f
<1> DEFINE start == WindowAt(window, now)
           Good(s) ==
             /\ f[s] \in Limit
             /\ s = {} => f[s].ok /\ f[s].w = window
             /\ s # {} =>
                  /\ f[s].w.second = now
                  /\ \A u \in CaptureTokens :
                       f[s].w.counts[u] <= start.counts[u] + (IF u \in s THEN CountOf(body, u) ELSE 0)
             /\ ~ f[s].ok => \E u \in s : f[s].w.counts[u] > MaxPerSecond
           T == {s \in SUBSET S : ~ Good(s)}
<1>12. start \in LimiterWindow
  BY <1>4 DEF WindowAt, LimiterWindow
<1> HIDE DEF start
<1>13. T = {}
  <2> SUFFICES ASSUME T # {} PROVE FALSE
    OBVIOUS
  <2>1. PICK s \in T : \A x \in s : s \ {x} \notin T
    <3>1. T \subseteq SUBSET S
      OBVIOUS
    <3> HIDE DEF T
    <3> QED BY <1>3, <3>1, SmallestSubset
  <2>2. s \in SUBSET S /\ ~ Good(s)
    <3> HIDE DEF Good
    <3> QED OBVIOUS
  <2>3. f[s] = Row(f, s)
    BY <1>11, <2>2
  <2>4. CASE s = {}
    BY <1>2, <2>2, <2>3, <2>4
  <2>5. CASE s # {}
    <3> DEFINE t == Pick(s)
               p == s \ {t}
               acc == f[p]
               a == allow(acc.w, t, CountOf(body, t), now)
    <3>1. t \in s /\ p \in SUBSET S /\ t \in CaptureTokens /\ s = p \union {t} /\ t \notin p
      BY <1>4, <2>2, <2>5, PickOne
    <3>2. Good(p)
      <4> HIDE DEF Good
      <4> QED BY <2>1, <3>1
    <3>3. f[s] = IF ~ acc.ok THEN acc ELSE a
      BY <2>3, <2>5 DEF Op
    <3> HIDE DEF p, t
    <3>4. CASE ~ acc.ok
      <4>1. f[s] = acc /\ p # {}
        BY <3>2, <3>3, <3>4
      <4>2. \A u \in CaptureTokens : /\ CountOf(body, u) \in Nat /\ start.counts[u] \in Nat
                                     /\ acc.w.counts[u] \in Nat
        BY <1>3, <1>12, <3>2 DEF Limit, LimiterWindow
      <4> HIDE DEF acc
      <4>3. \A u \in CaptureTokens :
              acc.w.counts[u] <= start.counts[u] + (IF u \in s THEN CountOf(body, u) ELSE 0)
        <5>1. \A u \in CaptureTokens :
                acc.w.counts[u] <= start.counts[u] + (IF u \in p THEN CountOf(body, u) ELSE 0)
          BY <3>2, <4>1 DEF acc
        <5>2. \A u \in p : u \in s
          BY <3>1
        <5> QED BY <4>2, <5>1, <5>2
      <4>4. /\ acc \in Limit /\ acc.w.second = now
            /\ \E u \in s : acc.w.counts[u] > MaxPerSecond
        BY <3>1, <3>2, <3>4, <4>1 DEF acc
      <4> QED BY <2>2, <2>5, <4>1, <4>3, <4>4
    <3>5. CASE acc.ok
      <4> DEFINE v == WindowAt(acc.w, now)
                 n == CountOf(body, t)
      <4>1. acc \in Limit /\ acc.w \in LimiterWindow /\ f[s] = a /\ n \in Nat
        BY <1>3, <3>1, <3>2, <3>3, <3>5 DEF Limit
      <4>2. /\ v \in LimiterWindow /\ a \in Limit /\ a.w.second = now
            /\ \A u \in CaptureTokens : a.w.counts[u] <= v.counts[u] + (IF u = t THEN n ELSE 0)
            /\ ~ a.ok => a.w.counts[t] > MaxPerSecond
        <5>1. PICK w \in LimiterWindow, m \in Nat : w = acc.w /\ m = n
          BY <4>1
        <5>2. now \in Nat /\ t \in CaptureTokens
          BY <1>4, <3>1
        <5>3. /\ WindowAt(w, now) \in LimiterWindow
              /\ allow(w, t, m, now) \in Limit /\ allow(w, t, m, now).w.second = now
              /\ \A u \in CaptureTokens : allow(w, t, m, now).w.counts[u]
                    <= WindowAt(w, now).counts[u] + (IF u = t THEN m ELSE 0)
              /\ ~ allow(w, t, m, now).ok => allow(w, t, m, now).w.counts[t] > MaxPerSecond
          BY <5>2, AllowStep
        <5>4. a = allow(w, t, m, now) /\ v = WindowAt(w, now)
          BY <5>1
        <5> HIDE DEF a, v
        <5> QED BY <5>1, <5>3, <5>4
      <4>3. \A u \in CaptureTokens :
              v.counts[u] <= start.counts[u] + (IF u \in p THEN CountOf(body, u) ELSE 0)
        <5>1. CASE p = {}
          <6>1. v = start
            BY <3>2, <5>1 DEF start
          <6>2. \A u \in CaptureTokens : start.counts[u] \in Nat
            BY <1>12 DEF LimiterWindow
          <6> HIDE DEF v
          <6> QED BY <5>1, <6>1, <6>2
        <5>2. CASE p # {}
          <6>1. v = acc.w
            BY <3>2, <5>2 DEF WindowAt
          <6> HIDE DEF v
          <6> QED BY <3>2, <5>2, <6>1
        <5> QED BY <5>1, <5>2
      <4>4. \A u \in CaptureTokens : /\ CountOf(body, u) \in Nat /\ start.counts[u] \in Nat
                                     /\ v.counts[u] \in Nat /\ a.w.counts[u] \in Nat
        BY <1>3, <1>12, <4>2 DEF Limit, LimiterWindow
      <4> HIDE DEF acc, a, v
      <4>5. \A u \in CaptureTokens :
              a.w.counts[u] <= start.counts[u] + (IF u \in s THEN CountOf(body, u) ELSE 0)
        <5> SUFFICES ASSUME NEW u \in CaptureTokens
                     PROVE  a.w.counts[u] <= start.counts[u] + (IF u \in s THEN CountOf(body, u) ELSE 0)
          OBVIOUS
        <5>1. CASE u = t
          <6>1. u \in s /\ u \notin p
            BY <3>1, <5>1
          <6>2. v.counts[u] <= start.counts[u] + 0
            BY <4>3, <6>1
          <6>3. a.w.counts[u] <= v.counts[u] + CountOf(body, u)
            BY <4>2, <5>1
          <6> QED BY <4>4, <6>1, <6>2, <6>3
        <5>2. CASE u # t
          <6>1. u \in s <=> u \in p
            BY <3>1, <5>2
          <6>2. a.w.counts[u] <= v.counts[u] + 0
            BY <4>2, <5>2
          <6>3. v.counts[u] <= start.counts[u] + (IF u \in s THEN CountOf(body, u) ELSE 0)
            BY <4>3, <6>1
          <6> QED BY <4>4, <6>2, <6>3
        <5> QED BY <5>1, <5>2
      <4> QED BY <2>2, <2>5, <3>1, <4>1, <4>2, <4>5
    <3> QED BY <3>4, <3>5
  <2> QED BY <2>4, <2>5
<1>14. Good(S)
  <2> HIDE DEF Good
  <2> QED BY <1>13
<1>15. \A u \in CaptureTokens : /\ CountOf(body, u) \in Nat /\ start.counts[u] \in Nat
                                /\ f[S].w.counts[u] \in Nat
  BY <1>3, <1>12, <1>14 DEF Limit, LimiterWindow
<1>16. S # {} => \A u \in CaptureTokens : L.w.counts[u] <= start.counts[u] + CountOf(body, u)
  <2> SUFFICES ASSUME S # {}, NEW u \in CaptureTokens
               PROVE  L.w.counts[u] <= start.counts[u] + CountOf(body, u)
    OBVIOUS
  <2>1. L.w.counts[u] <= start.counts[u] + (IF u \in S THEN CountOf(body, u) ELSE 0)
    BY <1>1, <1>14
  <2> QED BY <1>1, <1>15, <2>1
<1>17. /\ L \in Limit /\ (S = {} => L.ok /\ L.w = window) /\ (S # {} => L.w.second = now)
       /\ (~ L.ok => \E u \in S : L.w.counts[u] > MaxPerSecond)
  BY <1>1, <1>14
<1> QED BY <1>16, <1>17 DEF S, L, body, now, start

RequestTypes == requests \in [Callers -> {Idle} \union CallerRequest]

\* The count of a second grows with the requests of it the limiter has seen.
LEMMA EventsGrow ==
    ASSUME RequestTypes, RequestTypes', NEW t, NEW s,
           \A q \in Limited(s) : q \in Limited(s)' /\ requests'[q].body = requests[q].body
    PROVE  /\ EventsLimited(t, s) \in Nat /\ EventsLimited(t, s)' \in Nat
           /\ EventsLimited(t, s) <= EventsLimited(t, s)'
           /\ \A r \in Limited(s)' : r \notin Limited(s) =>
                EventsLimited(t, s) + CountOf(requests'[r].body, t) <= EventsLimited(t, s)'
<1> DEFINE S == Limited(s)'
           seen == Limited(s)
           fun == [q \in S |-> CountOf(requests'[q].body, t)]
           g == [q \in seen |-> CountOf(requests[q].body, t)]
<1>1. IsFiniteSet(S)
  <2>1. S \subseteq Callers
    BY DEF Limited
  <2> HIDE DEF S
  <2> QED BY <2>1, IntakeAssumption, FS_Subset
<1>2. ASSUME NEW q \in S PROVE CountOf(requests'[q].body, t) \in Nat
  <2>1. q \in Callers /\ requests'[q].at # "idle"
    BY DEF Limited, Where
  <2>2. requests'[q] \in CallerRequest
    BY <2>1 DEF RequestTypes, Idle
  <2>3. requests'[q].body \in Bodies
    BY <2>2 DEF CallerRequest
  <2> QED BY <2>3, TokensCounted
<1>3. EventsLimited(t, s)' = SumFunction(fun) /\ EventsLimited(t, s) = SumFunction(g)
  BY DEF EventsLimited
<1>4. seen \in SUBSET S /\ \A q \in seen : requests'[q].body = requests[q].body
  OBVIOUS
<1> HIDE DEF S, seen
<1>5. fun \in [S -> Nat]
  BY <1>2
<1>6. g = [q \in seen |-> fun[q]]
  BY <1>4
<1>7. \A q \in S : fun[q] = CountOf(requests'[q].body, t)
  OBVIOUS
<1> HIDE DEF fun, g
<1>8. /\ SumFunction(g) \in Nat /\ SumFunction(fun) \in Nat /\ SumFunction(g) <= SumFunction(fun)
      /\ \A x \in S : x \notin seen => SumFunction(g) + fun[x] <= SumFunction(fun)
  BY <1>1, <1>4, <1>5, <1>6, SumOfPart
<1> QED BY <1>3, <1>7, <1>8 DEF S, seen

IntakeTypes ==
    /\ second \in Nat /\ RequestTypes /\ registered \subseteq CaptureTokens
    /\ tokenCache \in [CaptureTokens -> [known : {"none", "yes", "no"}, at : Nat]]
    /\ window \in LimiterWindow
    /\ writerQueue \in Seq(Batch) /\ durable \subseteq Batch

\* What the cache and the requests know of a token is so.
AuthorizedOK ==
    /\ \A t \in CaptureTokens : tokenCache[t].known = "yes" => t \in registered
    /\ \A r \in Callers : Where(r) \in {"authorize", "access"} =>
         /\ TokensOf(requests[r].body) \subseteq CaptureTokens
         /\ requests[r].projects \subseteq TokensOf(requests[r].body) \intersect registered
    /\ \A r \in Callers : Where(r) = "access" =>
         /\ requests[r].asked \in TokensOf(requests[r].body)
         /\ requests[r].found => requests[r].asked \in registered
    /\ \A r \in Callers : Where(r) \in Early => ~ requests[r].limited

Own(b) == b.projects = TokensOf(b.body) /\ b.projects \subseteq registered
Left(r) == Where(r) = "done" /\ requests[r].status = "gone"
WasTold(r) ==
    \/ Where(r) \in {"acked", "failed"}
    \/ Where(r) = "done" /\ requests[r].status \in {"200", "503", "gone"}

\* A batch is its tokens'; the request of a queued one waits or is gone, that of a
\* durable one was told, and no request has two in the queue.
BatchesOK ==
    /\ \A k \in DOMAIN writerQueue :
         Own(writerQueue[k]) /\ (Where(writerQueue[k].by) = "acking" \/ Left(writerQueue[k].by))
    /\ \A j, k \in DOMAIN writerQueue : writerQueue[j].by = writerQueue[k].by => j = k
    /\ \A b \in durable : Own(b) /\ WasTold(b.by)

Success(r) ==
    \/ Where(r) = "acked"
    \/ Where(r) = "done" /\ requests[r].status = "200" /\ Kept(requests[r].body) # {}

\* Success is only of what is durable.
AnswersOK ==
    /\ \A r \in Callers : Success(r) => \E b \in durable : b.by = r
    /\ mirrored \subseteq {b.by : b \in durable}

Refused(r) == Where(r) = "done" /\ requests[r].status = "429"

\* The limiter's table holds no more than the requests of its second brought.
LimiterOK ==
    /\ \A s \in Nat : s = window.second =>
         \A t \in CaptureTokens : window.counts[t] <= EventsLimited(t, s)
    /\ \A r \in Callers, s \in Nat : Refused(r) /\ requests[r].now = s =>
         \E t \in TokensOf(requests[r].body) : EventsLimited(t, s) > MaxPerSecond

IntakeInv == IntakeTypes /\ AuthorizedOK /\ BatchesOK /\ AnswersOK /\ LimiterOK

\* The properties follow.
LEMMA IntakeAnswers == IntakeInv => StoredWholeAndOwn /\ LimiterSparesTheQuiet
<1> SUFFICES ASSUME IntakeInv PROVE StoredWholeAndOwn /\ LimiterSparesTheQuiet
  OBVIOUS
<1>1. LimiterSparesTheQuiet
  <2> SUFFICES ASSUME NEW r \in Callers, Refused(r)
               PROVE  \E t \in TokensOf(requests[r].body) : EventsLimited(t, requests[r].now) > MaxPerSecond
    BY DEF LimiterSparesTheQuiet, Refused
  <2>1. requests[r] \in CallerRequest
    BY DEF IntakeInv, IntakeTypes, RequestTypes, Refused, Where, Idle
  <2>2. requests[r].now \in Nat
    BY <2>1 DEF CallerRequest
  <2> QED BY <2>2 DEF IntakeInv, LimiterOK
<1>2. \A b \in durable : b.projects = TokensOf(b.body) /\ b.projects \subseteq registered
  BY DEF IntakeInv, BatchesOK, Own
<1>3. ASSUME NEW r \in Callers, Where(r) = "done"
      PROVE  /\ requests[r].status \in {"400", "401", "413", "429"} => {b \in durable : b.by = r} = {}
             /\ requests[r].status = "200" /\ Kept(requests[r].body) # {} => {b \in durable : b.by = r} # {}
  <2>1. ASSUME NEW b \in durable, b.by = r PROVE requests[r].status \in {"200", "503", "gone"}
    BY <1>3, <2>1 DEF IntakeInv, BatchesOK, WasTold
  <2>2. requests[r].status = "200" /\ Kept(requests[r].body) # {} => \E b \in durable : b.by = r
    BY <1>3 DEF IntakeInv, AnswersOK, Success
  <2> QED BY <2>1, <2>2
<1>4. mirrored \subseteq {b.by : b \in durable}
  BY DEF IntakeInv, AnswersOK
<1> QED BY <1>1, <1>2, <1>3, <1>4 DEF StoredWholeAndOwn

\* Everybody the limiter has seen stays, and nobody is refused anew.
LEMMA LimiterStays ==
    ASSUME LimiterOK, RequestTypes, RequestTypes', window \in LimiterWindow, window' = window,
           \A x \in Callers : Where(x) # "idle" /\ requests[x].limited =>
              /\ requests'[x].at # "idle" /\ requests'[x].limited
              /\ requests'[x].now = requests[x].now /\ requests'[x].body = requests[x].body,
           \A x \in Callers : Refused(x)' =>
              /\ Refused(x)
              /\ requests'[x].now = requests[x].now /\ requests'[x].body = requests[x].body
    PROVE  LimiterOK'
<1>1. ASSUME NEW s PROVE \A q \in Limited(s) : q \in Limited(s)' /\ requests'[q].body = requests[q].body
  BY DEF Limited, Where
<1>2. \A t, s : EventsLimited(t, s) \in Nat /\ EventsLimited(t, s)' \in Nat
                /\ EventsLimited(t, s) <= EventsLimited(t, s)'
  BY <1>1, EventsGrow
<1>3. ASSUME NEW s \in Nat, s = window.second, NEW t \in CaptureTokens
      PROVE  window.counts[t] <= EventsLimited(t, s)'
  <2>1. window.counts[t] <= EventsLimited(t, s)
    BY <1>3 DEF LimiterOK
  <2>2. window.counts[t] \in Nat
    BY DEF LimiterWindow
  <2> QED BY <1>2, <2>1, <2>2
<1>4. ASSUME NEW r \in Callers, NEW s \in Nat, Refused(r)', requests'[r].now = s
      PROVE  \E t \in TokensOf(requests'[r].body) : EventsLimited(t, s)' > MaxPerSecond
  <2>1. PICK t \in TokensOf(requests[r].body) : EventsLimited(t, s) > MaxPerSecond
    BY <1>4 DEF LimiterOK
  <2>2. EventsLimited(t, s)' > MaxPerSecond
    <3>1. MaxPerSecond \in Nat
      BY IntakeAssumption
    <3> QED BY <1>2, <2>1, <3>1
  <2> QED BY <1>4, <2>1, <2>2
<1>5. LimiterOK'
  BY <1>3, <1>4 DEF LimiterOK
<1> QED BY <1>5

\* A step of the clock or of what no request shows changes nothing.
LEMMA RequestsStay ==
    ASSUME IntakeInv, second' \in Nat,
           UNCHANGED <<requests, tokenCache, registered, window, writerQueue, durable, mirrored>>
    PROVE  IntakeInv'
<1>1. IntakeTypes /\ AuthorizedOK /\ BatchesOK /\ AnswersOK /\ LimiterOK
  BY DEF IntakeInv
<1>2. RequestTypes'
  BY <1>1 DEF IntakeTypes, RequestTypes
<1>3. IntakeTypes'
  BY <1>1, <1>2 DEF IntakeTypes
<1>4. AuthorizedOK'
  BY <1>1 DEF AuthorizedOK, Where
<1>5. BatchesOK'
  BY <1>1 DEF BatchesOK, Own, Left, WasTold, Where
<1>6. AnswersOK'
  BY <1>1 DEF AnswersOK, Success, Where
<1>7. LimiterOK'
  BY <1>1, <1>2, LimiterStays DEF IntakeTypes, Refused, Where
<1> QED BY <1>3, <1>4, <1>5, <1>6, <1>7 DEF IntakeInv

\* A request moves that has not come to the queue.
LEMMA EarlyMoves ==
    ASSUME IntakeInv, NEW r \in Callers, Where(r) \in Early \union {"idle"},
           NEW q \in CallerRequest, requests' = [requests EXCEPT ![r] = q],
           UNCHANGED <<second, registered, window, writerQueue, durable, mirrored>>,
           tokenCache' \in [CaptureTokens -> [known : {"none", "yes", "no"}, at : Nat]],
           \A t \in CaptureTokens : tokenCache'[t].known = "yes" => t \in registered,
           q.at \in Early \union {"done"}, q.at \in Early => ~ q.limited,
           q.at \in {"authorize", "access"} =>
              /\ TokensOf(q.body) \subseteq CaptureTokens
              /\ q.projects \subseteq TokensOf(q.body) \intersect registered,
           q.at = "access" => q.asked \in TokensOf(q.body) /\ (q.found => q.asked \in registered),
           q.at = "done" => q.status \in {"200", "400", "401", "413", "503", "gone"},
           q.at = "done" /\ q.status = "200" => Kept(q.body) = {}
    PROVE  IntakeInv'
<1>1. IntakeTypes /\ AuthorizedOK /\ BatchesOK /\ AnswersOK /\ LimiterOK
  BY DEF IntakeInv
<1>2. requests'[r] = q /\ \A x \in Callers : x # r => requests'[x] = requests[x]
  BY <1>1 DEF IntakeTypes, RequestTypes
<1>3. Where(r) \notin {"acking", "acked", "failed", "done"}
  BY DEF Early
<1>4. IntakeTypes'
  <2>1. RequestTypes'
    BY <1>1 DEF IntakeTypes, RequestTypes
  <2> QED BY <1>1, <2>1 DEF IntakeTypes
<1>5. AuthorizedOK'
  BY <1>1, <1>2 DEF AuthorizedOK, Where
<1>6. (\A k \in DOMAIN writerQueue : writerQueue[k].by # r) /\ (\A b \in durable : b.by # r)
  BY <1>1, <1>3 DEF BatchesOK, Left, WasTold
<1>7. (\A k \in DOMAIN writerQueue : writerQueue[k].by \in Callers) /\ (\A b \in durable : b.by \in Callers)
  <2>1. \A b \in Batch : b.by \in Callers
    BY DEF Batch
  <2>2. \A k \in DOMAIN writerQueue : writerQueue[k] \in Batch
    BY <1>1 DEF IntakeTypes
  <2>3. \A b \in durable : b \in Batch
    BY <1>1 DEF IntakeTypes
  <2> QED BY <2>1, <2>2, <2>3
<1>8. BatchesOK'
  BY <1>1, <1>2, <1>6, <1>7 DEF BatchesOK, Own, Left, WasTold, Where
<1>9. AnswersOK'
  BY <1>1, <1>2 DEF AnswersOK, Success, Where, Early
<1>10. LimiterOK'
  <2>1. \A x \in Callers : Where(x) # "idle" /\ requests[x].limited => x # r
    BY <1>1 DEF AuthorizedOK
  <2>2. \A x \in Callers : Refused(x)' => x # r
    BY <1>2 DEF Refused, Where, Early
  <2>3. \A x \in Callers : Refused(x)' => Refused(x)
    BY <1>2, <2>2 DEF Refused, Where
  <2> QED BY <1>1, <1>2, <1>4, <2>1, <2>2, <2>3, LimiterStays DEF IntakeTypes, Where
<1> QED BY <1>4, <1>5, <1>8, <1>9, <1>10 DEF IntakeInv

\* A request is a record of its fields.
LEMMA RequestForm ==
    ASSUME RequestTypes, NEW r \in Callers, Where(r) # "idle"
    PROVE  /\ requests[r] \in CallerRequest
           /\ requests = [x \in Callers |-> requests[x]]
<1> QED BY DEF RequestTypes, Where, Idle

\* A request that goes on keeps what it brought.
LEMMA GoMoves ==
    ASSUME RequestTypes, NEW r \in Callers, Where(r) # "idle", NEW to \in Places, Go(r, to)
    PROVE  \E q \in CallerRequest :
             /\ requests' = [requests EXCEPT ![r] = q]
             /\ q = [at |-> to, status |-> requests[r].status, body |-> requests[r].body,
                     now |-> requests[r].now, limited |-> requests[r].limited,
                     projects |-> requests[r].projects, asked |-> requests[r].asked,
                     found |-> requests[r].found]
<1> DEFINE c == requests[r]
           q == [c EXCEPT !.at = to]
<1>1. c \in CallerRequest /\ requests = [x \in Callers |-> requests[x]]
  BY RequestForm
<1>2. requests' = [requests EXCEPT ![r] = q]
  BY <1>1 DEF Go
<1> HIDE DEF c
<1>3. c = [at |-> c.at, status |-> c.status, body |-> c.body, now |-> c.now, limited |-> c.limited,
           projects |-> c.projects, asked |-> c.asked, found |-> c.found]
  BY <1>1 DEF CallerRequest
<1>4. q = [at |-> to, status |-> c.status, body |-> c.body, now |-> c.now, limited |-> c.limited,
           projects |-> c.projects, asked |-> c.asked, found |-> c.found]
  BY <1>3
<1> HIDE DEF q
<1>5. q \in CallerRequest
  BY <1>1, <1>4 DEF CallerRequest
<1> QED BY <1>2, <1>4, <1>5 DEF c

\* So does one that is answered.
LEMMA AnswerMoves ==
    ASSUME RequestTypes, NEW r \in Callers, Where(r) # "idle", NEW s \in Statuses, Answer(r, s)
    PROVE  \E q \in CallerRequest :
             /\ requests' = [requests EXCEPT ![r] = q]
             /\ q.at = "done" /\ q.status = s /\ q.body = requests[r].body
             /\ q.now = requests[r].now /\ q.limited = requests[r].limited
<1> DEFINE c == requests[r]
           d == "done"
           no == FALSE
           e == {}
           p1 == [c EXCEPT !.at = d]
           p2 == [p1 EXCEPT !.status = s]
           p3 == [p2 EXCEPT !.projects = e]
           p4 == [p3 EXCEPT !.asked = NoToken]
           q == [p4 EXCEPT !.found = no]
<1>1. c \in CallerRequest /\ requests = [x \in Callers |-> requests[x]]
  BY RequestForm
<1>2. requests' = [[[[[requests EXCEPT ![r].at = d] EXCEPT ![r].status = s] EXCEPT ![r].projects = e]
                    EXCEPT ![r].asked = NoToken] EXCEPT ![r].found = no]
  BY Zenon DEF Answer
<1>3. d \in Places /\ no \in BOOLEAN /\ e \in SUBSET CaptureTokens
  BY DEF Places
<1>4. d = "done"
  OBVIOUS
<1> HIDE DEF d, no, e
<1>5. requests' = [requests EXCEPT ![r] = q]
  BY <1>1, <1>2
<1> HIDE DEF c
<1>6. c = [at |-> c.at, status |-> c.status, body |-> c.body, now |-> c.now, limited |-> c.limited,
           projects |-> c.projects, asked |-> c.asked, found |-> c.found]
  BY <1>1 DEF CallerRequest
<1>7. q = [at |-> d, status |-> s, body |-> c.body, now |-> c.now, limited |-> c.limited,
           projects |-> e, asked |-> NoToken, found |-> no]
  <2>1. p1 = [at |-> d, status |-> c.status, body |-> c.body, now |-> c.now, limited |-> c.limited,
              projects |-> c.projects, asked |-> c.asked, found |-> c.found]
    BY <1>6
  <2> HIDE DEF p1
  <2>2. p2 = [at |-> d, status |-> s, body |-> c.body, now |-> c.now, limited |-> c.limited,
              projects |-> c.projects, asked |-> c.asked, found |-> c.found]
    BY <2>1
  <2> HIDE DEF p2
  <2>3. p3 = [at |-> d, status |-> s, body |-> c.body, now |-> c.now, limited |-> c.limited,
              projects |-> e, asked |-> c.asked, found |-> c.found]
    BY <2>2
  <2> HIDE DEF p3
  <2>4. p4 = [at |-> d, status |-> s, body |-> c.body, now |-> c.now, limited |-> c.limited,
              projects |-> e, asked |-> NoToken, found |-> c.found]
    BY <2>3
  <2> HIDE DEF p4
  <2> QED BY <2>4
<1> HIDE DEF q
<1>8. q \in CallerRequest
  BY <1>1, <1>3, <1>7 DEF CallerRequest
<1> QED BY <1>4, <1>5, <1>7, <1>8 DEF c

\* A request as the handler makes it anew.
LEMMA RequestMade ==
    ASSUME NEW body \in Bodies, NEW at \in Places, NEW status \in Statuses, second \in Nat
    PROVE  /\ Request(body, at, status) \in CallerRequest
           /\ Request(body, at, status).at = at /\ Request(body, at, status).status = status
           /\ Request(body, at, status).body = body /\ ~ Request(body, at, status).limited
           /\ Request(body, at, status).projects = {}
<1> DEFINE no == FALSE
           e == {}
           q == Request(body, at, status)
<1>1. no \in BOOLEAN /\ ~no /\ e \in SUBSET CaptureTokens /\ e = {}
  OBVIOUS
<1>2. q = [at |-> at, status |-> status, body |-> body, now |-> second, limited |-> no,
           projects |-> e, asked |-> NoToken, found |-> no]
  BY DEF Request
<1> HIDE DEF no, e, q
<1>3. q \in CallerRequest
  BY <1>1, <1>2 DEF CallerRequest
<1>4. q.at = at /\ q.status = status /\ q.body = body /\ ~q.limited /\ q.projects = {}
  BY <1>1, <1>2
<1> QED BY <1>3, <1>4 DEF q

\* A token cache nobody changed.
LEMMA CacheKept ==
    ASSUME IntakeInv, tokenCache' = tokenCache
    PROVE  /\ tokenCache' \in [CaptureTokens -> [known : {"none", "yes", "no"}, at : Nat]]
           /\ \A t \in CaptureTokens : tokenCache'[t].known = "yes" => t \in registered
BY DEF IntakeInv, IntakeTypes, AuthorizedOK

\* A request that ends before the queue, with nothing stored.
LEMMA EarlyEnds ==
    ASSUME IntakeInv, NEW r \in Callers, Where(r) \in Early,
           NEW s \in {"400", "401", "413", "503", "gone"}, Answer(r, s),
           UNCHANGED <<second, registered, window, writerQueue, durable, mirrored>>,
           tokenCache' \in [CaptureTokens -> [known : {"none", "yes", "no"}, at : Nat]],
           \A t \in CaptureTokens : tokenCache'[t].known = "yes" => t \in registered
    PROVE  IntakeInv'
<1>1. RequestTypes /\ Where(r) # "idle" /\ s \in Statuses
  BY DEF IntakeInv, IntakeTypes, Early, Statuses
<1>2. PICK q \in CallerRequest :
        /\ requests' = [requests EXCEPT ![r] = q]
        /\ q.at = "done" /\ q.status = s
  BY <1>1, AnswerMoves
<1>3. "done" \notin Early
  BY DEF Early
<1> QED BY <1>2, <1>3, EarlyMoves

\* A body arrives.
LEMMA IntakeArrives == ASSUME IntakeInv, NEW r \in Callers, NEW body \in Bodies, Arrive(r, body) PROVE IntakeInv'
<1> DEFINE late == IF body.expands THEN "gate" ELSE IF body.decodes = "text" THEN "budget" ELSE "done"
           status == IF late = "done" THEN Undecoded(body) ELSE "none"
           q == Request(body, late, status)
<1>1. late \in Places /\ status \in Statuses /\ second \in Nat
  BY DEF Places, Statuses, Undecoded, IntakeInv, IntakeTypes
<1>2. late \in {"gate", "budget", "done"} /\ (late = "done" => status \in {"400", "413"})
  BY DEF Undecoded
<1>3. requests' = [requests EXCEPT ![r] = q]
  BY DEF Arrive
<1> HIDE DEF late, status
<1>4. q \in CallerRequest /\ q.at = late /\ q.status = status /\ q.body = body /\ ~q.limited
  BY <1>1, RequestMade
<1>5. Where(r) = "idle" /\ UNCHANGED <<second, tokenCache, registered, window, writerQueue, durable, mirrored>>
  BY DEF Arrive
<1> HIDE DEF q
<1>6. /\ tokenCache' \in [CaptureTokens -> [known : {"none", "yes", "no"}, at : Nat]]
      /\ \A t \in CaptureTokens : tokenCache'[t].known = "yes" => t \in registered
  BY <1>5, CacheKept
<1>7. /\ q.at \in Early \union {"done"} /\ q.at \notin {"authorize", "access"}
      /\ (q.at = "done" => q.status \in {"400", "413"})
  BY <1>2, <1>4 DEF Early
<1> QED BY <1>3, <1>4, <1>5, <1>6, <1>7, EarlyMoves

\* A request enters the decoding gate.
LEMMA IntakeEntersGate == ASSUME IntakeInv, NEW r \in Callers, EnterGate(r) PROVE IntakeInv'
<1>1. RequestTypes /\ Where(r) = "gate" /\ Go(r, "decoding") /\ "decoding" \in Places
  BY DEF IntakeInv, IntakeTypes, EnterGate, Places
<1>2. PICK q \in CallerRequest :
        /\ requests' = [requests EXCEPT ![r] = q] /\ q.at = "decoding" /\ q.limited = requests[r].limited
  BY <1>1, GoMoves
<1>3. UNCHANGED <<second, tokenCache, registered, window, writerQueue, durable, mirrored>>
  BY DEF EnterGate
<1>4. Where(r) \in Early /\ ~q.limited /\ q.at \in Early
  BY <1>1, <1>2 DEF IntakeInv, AuthorizedOK, Early
<1> QED BY <1>2, <1>3, <1>4, CacheKept, EarlyMoves

\* A body is decoded, or refused.
LEMMA IntakeDecodes == ASSUME IntakeInv, NEW r \in Callers, DecodeEnds(r) PROVE IntakeInv'
<1>1. UNCHANGED <<second, tokenCache, registered, window, writerQueue, durable, mirrored>>
  BY DEF DecodeEnds
<1>2. RequestTypes
  BY DEF IntakeInv, IntakeTypes
<1>3. CASE Where(r) # "decoding"
  <2>1. requests' = requests
    BY <1>3 DEF DecodeEnds
  <2>2. second' \in Nat
    BY <1>1 DEF IntakeInv, IntakeTypes
  <2> QED BY <1>1, <2>1, <2>2, RequestsStay
<1>4. CASE Where(r) = "decoding" /\ requests[r].body.decodes = "text"
  <2>1. Go(r, "budget") /\ "budget" \in Places
    BY <1>4 DEF DecodeEnds, Places
  <2>2. PICK q \in CallerRequest :
          /\ requests' = [requests EXCEPT ![r] = q] /\ q.at = "budget" /\ q.limited = requests[r].limited
    BY <1>2, <1>4, <2>1, GoMoves
  <2>3. Where(r) \in Early /\ ~q.limited /\ q.at \in Early
    BY <1>4, <2>2 DEF IntakeInv, AuthorizedOK, Early
  <2>4. /\ tokenCache' \in [CaptureTokens -> [known : {"none", "yes", "no"}, at : Nat]]
        /\ \A t \in CaptureTokens : tokenCache'[t].known = "yes" => t \in registered
    BY <1>1, CacheKept
  <2>5. q.at \notin {"authorize", "access", "done"}
    BY <2>2
  <2> QED BY <1>1, <2>2, <2>3, <2>4, <2>5, EarlyMoves
<1>5. CASE Where(r) = "decoding" /\ requests[r].body.decodes # "text"
  <2> DEFINE s == Undecoded(requests[r].body)
  <2>1. s \in {"400", "413"} /\ Answer(r, s)
    BY <1>5 DEF DecodeEnds, Undecoded
  <2>2. Where(r) \in Early
    BY <1>5 DEF Early
  <2> HIDE DEF s
  <2> QED BY <1>1, <2>1, <2>2, CacheKept, EarlyEnds
<1> QED BY <1>3, <1>4, <1>5

\* A request reserves its share of the memory budget.
LEMMA IntakeReserves == ASSUME IntakeInv, NEW r \in Callers, Reserve(r) PROVE IntakeInv'
<1> DEFINE body == requests[r].body
           parsed == parse_body(body)
           late == IF parsed = "parsed" /\ Kept(body) # {} THEN "authorize" ELSE "done"
           status == IF parsed # "parsed" THEN parsed ELSE IF Kept(body) = {} THEN "200" ELSE "none"
           q == Request(body, late, status)
<1>1. RequestTypes /\ Where(r) = "budget" /\ second \in Nat
      /\ UNCHANGED <<second, tokenCache, registered, window, writerQueue, durable, mirrored>>
  BY DEF IntakeInv, IntakeTypes, Reserve
<1>2. body \in Bodies
  BY <1>1, RequestForm DEF CallerRequest
<1>3. parsed \in {"parsed", "400", "401"}
  BY DEF parse_body
<1>4. requests' = [requests EXCEPT ![r] = q]
  BY DEF Reserve
<1>5. parsed = "parsed" => TokensOf(body) \subseteq CaptureTokens
  BY <1>2, ParsedTokens
<1> HIDE DEF body, parsed
<1>6. late \in Places /\ status \in Statuses
  BY <1>3 DEF Places, Statuses
<1>7. /\ late \in {"authorize", "done"}
      /\ late = "authorize" => TokensOf(body) \subseteq CaptureTokens
      /\ late = "done" => status \in {"400", "401", "200"}
      /\ late = "done" /\ status = "200" => Kept(body) = {}
  BY <1>3, <1>5
<1> HIDE DEF late, status
<1>8. /\ q \in CallerRequest /\ q.at = late /\ q.status = status /\ q.body = body /\ ~q.limited
      /\ q.projects = {}
  BY <1>1, <1>2, <1>6, RequestMade
<1> HIDE DEF q
<1>9. Where(r) \in Early /\ q.at \in Early \union {"done"} /\ q.at # "access"
  BY <1>1, <1>7, <1>8 DEF Early
<1> QED BY <1>1, <1>4, <1>7, <1>8, <1>9, CacheKept, EarlyMoves

\* A request that waited too long for the budget is refused.
LEMMA IntakeTimesOut == ASSUME IntakeInv, NEW r \in Callers, BudgetTimeout(r) PROVE IntakeInv'
<1>1. /\ Where(r) \in Early /\ Answer(r, "503")
      /\ UNCHANGED <<second, tokenCache, registered, window, writerQueue, durable, mirrored>>
  BY DEF BudgetTimeout, Early
<1> QED BY <1>1, CacheKept, EarlyEnds

\* A cached answer about a token is a true one.
LEMMA IntakeUsesCache == ASSUME IntakeInv, NEW r \in Callers, AuthorizeCached(r) PROVE IntakeInv'
<1>1. RequestTypes /\ Where(r) = "authorize" /\ tokenCache' = tokenCache
      /\ UNCHANGED <<second, registered, window, writerQueue, durable, mirrored>>
  BY DEF IntakeInv, IntakeTypes, AuthorizeCached
<1>2. /\ tokenCache' \in [CaptureTokens -> [known : {"none", "yes", "no"}, at : Nat]]
      /\ \A t \in CaptureTokens : tokenCache'[t].known = "yes" => t \in registered
  BY <1>1, CacheKept
<1>3. PICK t \in Pending(r) :
         \/ cached(t) = "yes" /\ requests' = [requests EXCEPT ![r].projects = @ \union {t}]
         \/ cached(t) = "no" /\ Answer(r, "401")
  BY DEF AuthorizeCached
<1>4. Where(r) \in Early
  BY <1>1 DEF Early
<1>5. CASE Answer(r, "401")
  BY <1>1, <1>2, <1>4, <1>5, EarlyEnds
<1>6. CASE cached(t) = "yes" /\ requests' = [requests EXCEPT ![r].projects = @ \union {t}]
  <2> DEFINE c == requests[r]
             ps == c.projects \union {t}
             q == [c EXCEPT !.projects = ps]
  <2>1. c \in CallerRequest /\ requests = [x \in Callers |-> requests[x]]
    BY <1>1, RequestForm
  <2>2. requests' = [requests EXCEPT ![r] = q]
    BY <1>6, <2>1
  <2>3. /\ TokensOf(c.body) \subseteq CaptureTokens /\ c.projects \subseteq TokensOf(c.body) \intersect registered
        /\ ~ c.limited
    BY <1>1 DEF IntakeInv, AuthorizedOK, Early
  <2>4. t \in TokensOf(c.body)
    BY <1>3 DEF Pending, Unauthorized
  <2>5. t \in registered
    <3>1. tokenCache[t].known = "yes"
      BY <1>6 DEF cached
    <3> QED BY <1>1, <1>2, <2>3, <2>4, <3>1
  <2>6. ps \subseteq TokensOf(c.body) \intersect registered /\ ps \in SUBSET CaptureTokens
    BY <2>3, <2>4, <2>5
  <2>7. c.at = "authorize"
    BY <1>1 DEF Where
  <2> HIDE DEF c, ps
  <2>8. c = [at |-> c.at, status |-> c.status, body |-> c.body, now |-> c.now, limited |-> c.limited,
             projects |-> c.projects, asked |-> c.asked, found |-> c.found]
    BY <2>1 DEF CallerRequest
  <2>9. q = [at |-> c.at, status |-> c.status, body |-> c.body, now |-> c.now, limited |-> c.limited,
             projects |-> ps, asked |-> c.asked, found |-> c.found]
    BY <2>8
  <2> HIDE DEF q
  <2>10. q \in CallerRequest /\ q.at = "authorize" /\ q.body = c.body /\ q.projects = ps /\ q.limited = c.limited
    BY <2>1, <2>6, <2>7, <2>9 DEF CallerRequest
  <2>11. q.at \in Early \union {"done"} /\ q.at # "access" /\ q.at # "done"
    BY <2>10 DEF Early
  <2> QED BY <1>1, <1>2, <1>4, <2>2, <2>3, <2>6, <2>10, <2>11, EarlyMoves
<1> QED BY <1>3, <1>5, <1>6

\* The access store is asked about a token.
LEMMA IntakeAsks == ASSUME IntakeInv, NEW r \in Callers, AskAccess(r) PROVE IntakeInv'
<1>1. RequestTypes /\ Where(r) = "authorize" /\ tokenCache' = tokenCache
      /\ UNCHANGED <<second, registered, window, writerQueue, durable, mirrored>>
  BY DEF IntakeInv, IntakeTypes, AskAccess
<1>2. /\ tokenCache' \in [CaptureTokens -> [known : {"none", "yes", "no"}, at : Nat]]
      /\ \A t \in CaptureTokens : tokenCache'[t].known = "yes" => t \in registered
  BY <1>1, CacheKept
<1>3. PICK t \in Pending(r) :
         requests' = [requests EXCEPT ![r].at = "access", ![r].asked = t, ![r].found = t \in registered]
  BY DEF AskAccess
<1> DEFINE c == requests[r]
           d == "access"
           known == t \in registered
           p1 == [c EXCEPT !.at = d]
           p2 == [p1 EXCEPT !.asked = t]
           q == [p2 EXCEPT !.found = known]
<1>4. c \in CallerRequest /\ requests = [x \in Callers |-> requests[x]]
  BY <1>1, RequestForm
<1>5. requests' = [[[requests EXCEPT ![r].at = d] EXCEPT ![r].asked = t] EXCEPT ![r].found = known]
  BY <1>3, Zenon
<1>6. d = "access" /\ d \in Places /\ known \in BOOLEAN /\ (known => t \in registered)
  BY DEF Places
<1>7. /\ TokensOf(c.body) \subseteq CaptureTokens /\ c.projects \subseteq TokensOf(c.body) \intersect registered
      /\ ~ c.limited /\ t \in TokensOf(c.body)
  BY <1>1, <1>3 DEF IntakeInv, AuthorizedOK, Early, Pending, Unauthorized
<1> HIDE DEF d, known
<1>8. requests' = [requests EXCEPT ![r] = q]
  BY <1>4, <1>5
<1> HIDE DEF c
<1>9. c = [at |-> c.at, status |-> c.status, body |-> c.body, now |-> c.now, limited |-> c.limited,
           projects |-> c.projects, asked |-> c.asked, found |-> c.found]
  BY <1>4 DEF CallerRequest
<1>10. q = [at |-> d, status |-> c.status, body |-> c.body, now |-> c.now, limited |-> c.limited,
            projects |-> c.projects, asked |-> t, found |-> known]
  <2>1. p1 = [at |-> d, status |-> c.status, body |-> c.body, now |-> c.now, limited |-> c.limited,
              projects |-> c.projects, asked |-> c.asked, found |-> c.found]
    BY <1>9
  <2> HIDE DEF p1
  <2>2. p2 = [at |-> d, status |-> c.status, body |-> c.body, now |-> c.now, limited |-> c.limited,
              projects |-> c.projects, asked |-> t, found |-> c.found]
    BY <2>1
  <2> HIDE DEF p2
  <2> QED BY <2>2
<1> HIDE DEF q
<1>11. /\ q \in CallerRequest /\ q.at = d /\ q.body = c.body /\ q.projects = c.projects
       /\ q.limited = c.limited /\ q.asked = t /\ q.found = known
  BY <1>4, <1>6, <1>7, <1>10 DEF CallerRequest
<1>12. Where(r) \in Early /\ q.at \in Early /\ q.at # "done"
  BY <1>1, <1>6, <1>11 DEF Early
<1> QED BY <1>1, <1>2, <1>6, <1>7, <1>8, <1>11, <1>12, EarlyMoves

\* What remember leaves.
LEMMA Remembers ==
    ASSUME IntakeInv, NEW t \in CaptureTokens, NEW known \in {"yes", "no"}, known = "yes" => t \in registered,
           tokenCache' = remember(t, known)
    PROVE  /\ tokenCache' \in [CaptureTokens -> [known : {"none", "yes", "no"}, at : Nat]]
           /\ \A u \in CaptureTokens : tokenCache'[u].known = "yes" => u \in registered
<1>1. /\ tokenCache \in [CaptureTokens -> [known : {"none", "yes", "no"}, at : Nat]] /\ second \in Nat
      /\ \A u \in CaptureTokens : tokenCache[u].known = "yes" => u \in registered
  BY DEF IntakeInv, IntakeTypes, AuthorizedOK
<1>2. PICK kept : tokenCache' = [u \in CaptureTokens |->
           IF u = t THEN [known |-> known, at |-> second]
           ELSE IF u \in kept THEN tokenCache[u] ELSE [known |-> "none", at |-> 0]]
  BY DEF remember
<1>3. ASSUME NEW u \in CaptureTokens
      PROVE  /\ tokenCache'[u] \in [known : {"none", "yes", "no"}, at : Nat]
             /\ tokenCache'[u].known = "yes" => u \in registered
  <2>1. CASE u = t
    BY <1>1, <1>2, <2>1
  <2>2. CASE u # t /\ u \in kept
    BY <1>1, <1>2, <2>2
  <2>3. CASE u # t /\ u \notin kept
    BY <1>1, <1>2, <2>3
  <2> QED BY <2>1, <2>2, <2>3
<1>4. tokenCache' = [u \in CaptureTokens |-> tokenCache'[u]]
  BY <1>2
<1> QED BY <1>3, <1>4

\* The store's answer is cached, and was true when it was read.
LEMMA IntakeIsAnswered == ASSUME IntakeInv, NEW r \in Callers, AccessAnswers(r) PROVE IntakeInv'
<1> DEFINE c == requests[r]
           t == c.asked
<1>1. RequestTypes /\ Where(r) = "access" /\ UNCHANGED <<second, registered, window, writerQueue, durable, mirrored>>
  BY DEF IntakeInv, IntakeTypes, AccessAnswers
<1>2. /\ TokensOf(c.body) \subseteq CaptureTokens /\ c.projects \subseteq TokensOf(c.body) \intersect registered
      /\ ~ c.limited /\ t \in TokensOf(c.body) /\ (c.found => t \in registered)
  BY <1>1 DEF IntakeInv, AuthorizedOK, Early
<1>3. t \in CaptureTokens /\ Where(r) \in Early
  BY <1>1, <1>2 DEF Early
<1>4. CASE tokenCache' = tokenCache /\ Answer(r, "401")
  BY <1>1, <1>3, <1>4, CacheKept, EarlyEnds
<1>5. CASE tokenCache' = remember(t, "no") /\ Answer(r, "401")
  <2>1. /\ tokenCache' \in [CaptureTokens -> [known : {"none", "yes", "no"}, at : Nat]]
        /\ \A u \in CaptureTokens : tokenCache'[u].known = "yes" => u \in registered
    <3> HIDE DEF t
    <3> QED BY <1>3, <1>5, Remembers
  <2> QED BY <1>1, <1>3, <1>5, <2>1, EarlyEnds
<1>6. CASE /\ c.found /\ tokenCache' = remember(t, "yes")
           /\ requests' = [requests EXCEPT ![r].at = "authorize", ![r].asked = NoToken,
                                           ![r].found = FALSE, ![r].projects = @ \union {t}]
  <2> DEFINE d == "authorize"
             no == FALSE
             ps == c.projects \union {t}
             p1 == [c EXCEPT !.at = d]
             p2 == [p1 EXCEPT !.asked = NoToken]
             p3 == [p2 EXCEPT !.found = no]
             q == [p3 EXCEPT !.projects = ps]
  <2>1. /\ tokenCache' \in [CaptureTokens -> [known : {"none", "yes", "no"}, at : Nat]]
        /\ \A u \in CaptureTokens : tokenCache'[u].known = "yes" => u \in registered
    <3> HIDE DEF t
    <3> QED BY <1>2, <1>3, <1>6, Remembers
  <2>2. c \in CallerRequest /\ requests = [x \in Callers |-> requests[x]]
    BY <1>1, RequestForm
  <2>3. requests' = [[[[requests EXCEPT ![r].at = d] EXCEPT ![r].asked = NoToken] EXCEPT ![r].found = no]
                      EXCEPT ![r].projects = @ \union {t}]
    BY <1>6, Zenon
  <2>4. d = "authorize" /\ d \in Places /\ no \in BOOLEAN /\ ps \in SUBSET CaptureTokens
        /\ ps \subseteq TokensOf(c.body) \intersect registered
    BY <1>2, <1>6 DEF Places
  <2> HIDE DEF d, no, t
  <2>5. requests' = [requests EXCEPT ![r] = q]
    BY <2>2, <2>3, ZenonT(60)
  <2> HIDE DEF c, ps
  <2>6. c = [at |-> c.at, status |-> c.status, body |-> c.body, now |-> c.now, limited |-> c.limited,
             projects |-> c.projects, asked |-> c.asked, found |-> c.found]
    BY <2>2 DEF CallerRequest
  <2>7. q = [at |-> d, status |-> c.status, body |-> c.body, now |-> c.now, limited |-> c.limited,
             projects |-> ps, asked |-> NoToken, found |-> no]
    <3>1. p1 = [at |-> d, status |-> c.status, body |-> c.body, now |-> c.now, limited |-> c.limited,
                projects |-> c.projects, asked |-> c.asked, found |-> c.found]
      BY <2>6
    <3> HIDE DEF p1
    <3>2. p2 = [at |-> d, status |-> c.status, body |-> c.body, now |-> c.now, limited |-> c.limited,
                projects |-> c.projects, asked |-> NoToken, found |-> c.found]
      BY <3>1
    <3> HIDE DEF p2
    <3>3. p3 = [at |-> d, status |-> c.status, body |-> c.body, now |-> c.now, limited |-> c.limited,
                projects |-> c.projects, asked |-> NoToken, found |-> no]
      BY <3>2
    <3> HIDE DEF p3
    <3> QED BY <3>3
  <2> HIDE DEF q
  <2>8. q \in CallerRequest /\ q.at = d /\ q.body = c.body /\ q.projects = ps /\ q.limited = c.limited
    BY <2>2, <2>4, <2>7 DEF CallerRequest
  <2>9. q.at \in Early /\ q.at # "access" /\ q.at # "done"
    BY <2>4, <2>8 DEF Early
  <2> QED BY <1>1, <1>2, <1>3, <2>1, <2>4, <2>5, <2>8, <2>9, EarlyMoves
<1> QED BY <1>4, <1>5, <1>6 DEF AccessAnswers

\* No batch is of a request before the queue.
LEMMA EarlyHasNoBatch ==
    ASSUME IntakeInv, NEW r \in Callers, Where(r) \in Early \union {"idle"}
    PROVE  (\A k \in DOMAIN writerQueue : writerQueue[k].by # r) /\ (\A b \in durable : b.by # r)
<1>1. Where(r) \notin {"acking", "acked", "failed", "done"}
  BY DEF Early
<1> QED BY <1>1 DEF IntakeInv, BatchesOK, Left, WasTold

\* The batches there are have their types.
LEMMA BatchTypes ==
    ASSUME IntakeTypes
    PROVE  /\ \A k \in DOMAIN writerQueue : writerQueue[k] \in Batch /\ writerQueue[k].by \in Callers
           /\ \A b \in durable : b \in Batch /\ b.by \in Callers
<1>1. \A b \in Batch : b.by \in Callers
  BY DEF Batch
<1>2. \A k \in DOMAIN writerQueue : writerQueue[k] \in Batch
  BY DEF IntakeTypes
<1>3. \A b \in durable : b \in Batch
  BY DEF IntakeTypes
<1> QED BY <1>1, <1>2, <1>3

\* What a request becomes that the limiter and the queue decided on.
LEMMA SubmitMoves ==
    ASSUME IntakeInv, NEW r \in Callers, Submit(r)
    PROVE  LET L == LimitBatch(r)
               c == requests[r]
           IN  \E q \in CallerRequest :
                 /\ requests' = [requests EXCEPT ![r] = q]
                 /\ q.body = c.body /\ q.now = c.now /\ q.limited
                 /\ \/ q.at = "done" /\ q.status = "429" /\ ~L.ok /\ writerQueue' = writerQueue
                    \/ q.at = "done" /\ q.status = "503" /\ writerQueue' = writerQueue
                    \/ /\ q.at = "acking"
                       /\ writerQueue' = Append(writerQueue, [by |-> r, body |-> c.body, projects |-> c.projects])
<1> DEFINE c == requests[r]
           L == LimitBatch(r)
           room == QueueHeld + SizeOf(c.body) <= QueueEventsMax
           yes == TRUE
           e == {}
           late == IF L.ok /\ room THEN "acking" ELSE "done"
           status == IF ~L.ok THEN "429" ELSE IF ~room THEN "503" ELSE "none"
           p1 == [c EXCEPT !.limited = yes]
           p2 == [p1 EXCEPT !.projects = e]
           p3 == [p2 EXCEPT !.at = late]
           q == [p3 EXCEPT !.status = status]
<1>1. c \in CallerRequest /\ requests = [x \in Callers |-> requests[x]]
  <2>1. RequestTypes /\ Where(r) # "idle"
    BY DEF IntakeInv, IntakeTypes, Submit
  <2> QED BY <2>1, RequestForm
<1>2. requests' = [[[[requests EXCEPT ![r].limited = yes] EXCEPT ![r].projects = e] EXCEPT ![r].at = late]
                   EXCEPT ![r].status = status]
  BY Zenon DEF Submit
<1>3. writerQueue' = IF L.ok /\ room THEN Append(writerQueue, [by |-> r, body |-> c.body, projects |-> c.projects])
                     ELSE writerQueue
  BY DEF Submit
<1>4. yes /\ yes \in BOOLEAN /\ e \in SUBSET CaptureTokens /\ late \in Places /\ status \in Statuses
  BY DEF Places, Statuses
<1> HIDE DEF room, L
<1>5. \/ late = "done" /\ status = "429" /\ ~L.ok /\ ~(L.ok /\ room)
      \/ late = "done" /\ status = "503" /\ ~(L.ok /\ room)
      \/ late = "acking" /\ L.ok /\ room
  OBVIOUS
<1> HIDE DEF yes, e, late, status
<1>6. requests' = [requests EXCEPT ![r] = q]
  BY <1>1, <1>2
<1> HIDE DEF c
<1>7. c = [at |-> c.at, status |-> c.status, body |-> c.body, now |-> c.now, limited |-> c.limited,
           projects |-> c.projects, asked |-> c.asked, found |-> c.found]
  BY <1>1 DEF CallerRequest
<1>8. q = [at |-> late, status |-> status, body |-> c.body, now |-> c.now, limited |-> yes,
           projects |-> e, asked |-> c.asked, found |-> c.found]
  <2>1. p1 = [at |-> c.at, status |-> c.status, body |-> c.body, now |-> c.now, limited |-> yes,
              projects |-> c.projects, asked |-> c.asked, found |-> c.found]
    BY <1>7
  <2> HIDE DEF p1
  <2>2. p2 = [at |-> c.at, status |-> c.status, body |-> c.body, now |-> c.now, limited |-> yes,
              projects |-> e, asked |-> c.asked, found |-> c.found]
    BY <2>1
  <2> HIDE DEF p2
  <2>3. p3 = [at |-> late, status |-> c.status, body |-> c.body, now |-> c.now, limited |-> yes,
              projects |-> e, asked |-> c.asked, found |-> c.found]
    BY <2>2
  <2> HIDE DEF p3
  <2> QED BY <2>3
<1> HIDE DEF q
<1>9. /\ q \in CallerRequest /\ q.at = late /\ q.status = status /\ q.body = c.body
      /\ q.now = c.now /\ q.limited
  BY <1>1, <1>4, <1>8 DEF CallerRequest
<1> QED BY <1>3, <1>5, <1>6, <1>9 DEF c, L

\* The limiter counts the body; what passes is queued whole, under the projects of its tokens.
LEMMA IntakeSubmits == ASSUME IntakeInv, NEW r \in Callers, Submit(r) PROVE IntakeInv'
<1> DEFINE c == requests[r]
           L == LimitBatch(r)
           T == TokensOf(c.body)
           b == [by |-> r, body |-> c.body, projects |-> c.projects]
<1>1. IntakeTypes /\ AuthorizedOK /\ BatchesOK /\ AnswersOK /\ LimiterOK
  BY DEF IntakeInv
<1>2. /\ Where(r) = "authorize" /\ Pending(r) = {} /\ window' = L.w
      /\ UNCHANGED <<second, tokenCache, registered, durable, mirrored>>
  BY DEF Submit
<1>3. PICK q \in CallerRequest :
        /\ requests' = [requests EXCEPT ![r] = q]
        /\ q.body = c.body /\ q.now = c.now /\ q.limited
        /\ \/ q.at = "done" /\ q.status = "429" /\ ~L.ok /\ writerQueue' = writerQueue
           \/ q.at = "done" /\ q.status = "503" /\ writerQueue' = writerQueue
           \/ q.at = "acking" /\ writerQueue' = Append(writerQueue, b)
  BY SubmitMoves
<1>4. c \in CallerRequest /\ Where(r) \in Early
  BY <1>1, <1>2, RequestForm DEF IntakeTypes, Early
<1>5. requests'[r] = q /\ \A x \in Callers : x # r => requests'[x] = requests[x]
  BY <1>1, <1>3 DEF IntakeTypes, RequestTypes
<1>6. (\A k \in DOMAIN writerQueue : writerQueue[k].by # r) /\ (\A d \in durable : d.by # r)
  BY <1>4, EarlyHasNoBatch
<1>7. T \subseteq CaptureTokens /\ c.projects = T /\ T \subseteq registered /\ ~c.limited
  BY <1>1, <1>2 DEF AuthorizedOK, Pending, Unauthorized, Early
<1>8. c.body \in Bodies /\ c.now \in Nat /\ window \in LimiterWindow
  BY <1>1, <1>4 DEF IntakeTypes, CallerRequest
<1>9. /\ L \in Limit
      /\ T = {} => L.ok /\ L.w = window
      /\ T # {} =>
           /\ L.w.second = c.now
           /\ \A u \in CaptureTokens : L.w.counts[u] <= WindowAt(window, c.now).counts[u] + CountOf(c.body, u)
      /\ ~ L.ok => \E u \in T : L.w.counts[u] > MaxPerSecond
  BY <1>7, <1>8, LimitBatchHolds
<1> HIDE DEF L
<1>10. L.w \in LimiterWindow
  BY <1>9 DEF Limit
<1>11. b \in Batch /\ b.by = r /\ b.body = c.body /\ b.projects = c.projects
  BY <1>7, <1>8 DEF Batch
<1>12. RequestTypes'
  BY <1>1, <1>3 DEF IntakeTypes, RequestTypes
<1> HIDE DEF b
<1>13. IntakeTypes'
  <2>1. writerQueue' \in Seq(Batch)
    BY <1>1, <1>3, <1>11 DEF IntakeTypes
  <2> QED BY <1>1, <1>2, <1>10, <1>12, <2>1 DEF IntakeTypes
<1>14. AuthorizedOK'
  <2>1. q.at \notin Early
    BY <1>3 DEF Early
  <2>2. "authorize" \in Early /\ "access" \in Early
    BY DEF Early
  <2> QED BY <1>1, <1>2, <1>5, <2>1, <2>2 DEF AuthorizedOK, Where
<1>15. BatchesOK'
  <2>1. /\ \A k \in DOMAIN writerQueue : writerQueue[k].by \in Callers
        /\ \A d \in durable : d.by \in Callers
    BY <1>1, BatchTypes
  <2>2. \A d \in durable : (Own(d) /\ WasTold(d.by))'
    BY <1>1, <1>2, <1>5, <1>6, <2>1 DEF BatchesOK, Own, WasTold, Where
  <2>3. ASSUME NEW k \in DOMAIN writerQueue
        PROVE  /\ writerQueue[k].projects = TokensOf(writerQueue[k].body)
               /\ writerQueue[k].projects \subseteq registered /\ writerQueue[k].by # r
               /\ \/ requests'[writerQueue[k].by].at = "acking"
                  \/ /\ requests'[writerQueue[k].by].at = "done"
                     /\ requests'[writerQueue[k].by].status = "gone"
    BY <1>1, <1>5, <1>6, <2>1 DEF BatchesOK, Own, Left, Where
  <2>4. CASE writerQueue' = writerQueue
    BY <1>1, <1>2, <2>2, <2>3, <2>4 DEF BatchesOK, Own, Left, Where
  <2>5. CASE q.at = "acking" /\ writerQueue' = Append(writerQueue, b)
    <3> DEFINE n == Len(writerQueue)
    <3>1. /\ n \in Nat /\ DOMAIN writerQueue = 1 .. n /\ DOMAIN writerQueue' = 1 .. (n + 1)
          /\ writerQueue'[n + 1] = b /\ \A k \in 1 .. n : writerQueue'[k] = writerQueue[k]
      BY <1>1, <2>5 DEF IntakeTypes
    <3> HIDE DEF n
    <3>2. ASSUME NEW k \in 1 .. (n + 1)
          PROVE  /\ writerQueue'[k].projects = TokensOf(writerQueue'[k].body)
                 /\ writerQueue'[k].projects \subseteq registered
                 /\ \/ requests'[writerQueue'[k].by].at = "acking"
                    \/ /\ requests'[writerQueue'[k].by].at = "done"
                       /\ requests'[writerQueue'[k].by].status = "gone"
      <4>1. CASE k \in 1 .. n
        BY <2>3, <3>1, <4>1
      <4>2. CASE k = n + 1
        BY <1>5, <1>7, <1>11, <2>5, <3>1, <4>2
      <4> QED BY <3>1, <4>1, <4>2
    <3>3. ASSUME NEW j \in 1 .. (n + 1), NEW k \in 1 .. (n + 1), writerQueue'[j].by = writerQueue'[k].by
          PROVE  j = k
      <4>1. CASE j \in 1 .. n /\ k \in 1 .. n
        BY <1>1, <3>1, <3>3, <4>1 DEF BatchesOK
      <4>2. CASE j \in 1 .. n /\ k = n + 1
        BY <1>6, <1>11, <3>1, <3>3, <4>2
      <4>3. CASE j = n + 1 /\ k \in 1 .. n
        BY <1>6, <1>11, <3>1, <3>3, <4>3
      <4> QED BY <3>1, <4>1, <4>2, <4>3
    <3> QED BY <1>2, <2>2, <3>1, <3>2, <3>3 DEF BatchesOK, Own, Left, Where
  <2> QED BY <1>3, <2>4, <2>5
<1>16. AnswersOK'
  BY <1>1, <1>2, <1>3, <1>5 DEF AnswersOK, Success, Where
<1>17. ASSUME NEW s PROVE \A x \in Limited(s) : x \in Limited(s)' /\ requests'[x].body = requests[x].body
  BY <1>5, <1>7 DEF Limited, Where
<1>18. \A t, s : EventsLimited(t, s) \in Nat /\ EventsLimited(t, s)' \in Nat
                 /\ EventsLimited(t, s) <= EventsLimited(t, s)'
  BY <1>1, <1>12, <1>17, EventsGrow DEF IntakeTypes
<1>19. ASSUME NEW t, NEW s \in Nat, s = c.now
       PROVE  EventsLimited(t, s) + CountOf(c.body, t) <= EventsLimited(t, s)'
  <2>1. r \in Limited(s)' /\ r \notin Limited(s)
    BY <1>3, <1>5, <1>7, <1>19 DEF Limited, Where
  <2>2. EventsLimited(t, s) + CountOf(requests'[r].body, t) <= EventsLimited(t, s)'
    BY <1>1, <1>12, <1>17, <2>1, EventsGrow DEF IntakeTypes
  <2>3. requests'[r].body = c.body
    BY <1>3, <1>5
  <2> HIDE DEF c
  <2> QED BY <2>2, <2>3
<1>20. ASSUME NEW s \in Nat, s = L.w.second, NEW t \in CaptureTokens
       PROVE  L.w.counts[t] <= EventsLimited(t, s)'
  <2>1. CASE T = {}
    <3>1. L.w = window /\ window.counts[t] \in Nat
      BY <1>8, <1>9, <2>1 DEF LimiterWindow
    <3>2. window.counts[t] <= EventsLimited(t, s)
      BY <1>1, <1>20, <3>1 DEF LimiterOK
    <3> HIDE DEF T
    <3> QED BY <1>18, <3>1, <3>2
  <2>2. CASE T # {}
    <3>1. s = c.now /\ L.w.counts[t] <= WindowAt(window, c.now).counts[t] + CountOf(c.body, t)
      BY <1>9, <1>20, <2>2
    <3>2. WindowAt(window, c.now).counts[t] <= EventsLimited(t, s) /\ WindowAt(window, c.now).counts[t] \in Nat
      <4>1. CASE c.now # window.second
        <5>1. WindowAt(window, c.now).counts[t] = 0
          BY <4>1 DEF WindowAt
        <5>2. EventsLimited(t, s) \in Nat
          BY <1>18
        <5> HIDE DEF c
        <5> QED BY <5>1, <5>2
      <4>2. CASE c.now = window.second
        <5>1. WindowAt(window, c.now) = window
          BY <4>2 DEF WindowAt
        <5>2. window.counts[t] <= EventsLimited(t, s) /\ window.counts[t] \in Nat
          BY <1>1, <1>8, <3>1, <4>2 DEF LimiterOK, LimiterWindow
        <5> QED BY <5>1, <5>2
      <4> QED BY <4>1, <4>2
    <3>3. CountOf(c.body, t) \in Nat /\ L.w.counts[t] \in Nat
      BY <1>8, <1>10, TokensCounted DEF LimiterWindow
    <3>4. EventsLimited(t, s) + CountOf(c.body, t) <= EventsLimited(t, s)'
      BY <1>19, <3>1
    <3> DEFINE m == WindowAt(window, c.now).counts[t]
               k == CountOf(c.body, t)
    <3>5. PICK e1 \in Nat, e2 \in Nat : e1 = EventsLimited(t, s) /\ e2 = EventsLimited(t, s)'
      BY <1>18
    <3>6. L.w.counts[t] <= m + k /\ m <= e1 /\ m \in Nat /\ k \in Nat /\ e1 + k <= e2
      BY <3>1, <3>2, <3>3, <3>4, <3>5
    <3>7. L.w.counts[t] <= e2
      <4> HIDE DEF m, k
      <4> QED BY <3>3, <3>6
    <3> QED BY <3>5, <3>7
  <2> QED BY <2>1, <2>2
<1>21. ASSUME NEW x \in Callers, NEW s \in Nat, Refused(x)', requests'[x].now = s
       PROVE  \E t \in TokensOf(requests'[x].body) : EventsLimited(t, s)' > MaxPerSecond
  <2>1. MaxPerSecond \in Nat
    BY IntakeAssumption
  <2>2. CASE x # r
    <3>1. requests'[x] = requests[x] /\ Refused(x)
      BY <1>5, <1>21, <2>2 DEF Refused, Where
    <3>2. PICK t \in TokensOf(requests[x].body) : EventsLimited(t, s) > MaxPerSecond
      BY <1>1, <1>21, <3>1 DEF LimiterOK
    <3>3. EventsLimited(t, s)' > MaxPerSecond
      BY <1>18, <2>1, <3>2
    <3> QED BY <3>1, <3>2, <3>3
  <2>3. CASE x = r
    <3>1. requests'[x] = q /\ ~L.ok /\ s = c.now
      BY <1>3, <1>5, <1>21, <2>3 DEF Refused, Where
    <3>2. PICK u \in T : L.w.counts[u] > MaxPerSecond
      BY <1>9, <3>1
    <3>3. T # {} /\ u \in CaptureTokens /\ s = L.w.second
      BY <1>7, <1>9, <3>1, <3>2
    <3>4. L.w.counts[u] <= EventsLimited(u, s)' /\ L.w.counts[u] \in Nat
      BY <1>10, <1>20, <3>3 DEF LimiterWindow
    <3>5. EventsLimited(u, s)' > MaxPerSecond
      <4>1. PICK e \in Nat : e = EventsLimited(u, s)'
        BY <1>18
      <4> QED BY <2>1, <3>2, <3>4, <4>1
    <3>6. TokensOf(requests'[x].body) = T
      BY <1>3, <3>1
    <3> QED BY <3>2, <3>5, <3>6
  <2> QED BY <2>2, <2>3
<1>22. LimiterOK'
  BY <1>2, <1>20, <1>21 DEF LimiterOK
<1> QED BY <1>13, <1>14, <1>15, <1>16, <1>22 DEF IntakeInv

\* A request moves that was handed to the writer.
LEMMA LateMoves ==
    ASSUME IntakeInv, NEW r \in Callers, Where(r) \in {"acking", "acked", "failed"},
           NEW q \in CallerRequest, requests' = [requests EXCEPT ![r] = q],
           q.body = requests[r].body, q.now = requests[r].now, q.limited = requests[r].limited,
           q.at \in {"acked", "failed"} \/ (q.at = "done" /\ q.status \in {"200", "503", "gone"}),
           UNCHANGED <<second, tokenCache, registered, window>>
    PROVE  /\ RequestTypes' /\ AuthorizedOK' /\ LimiterOK'
           /\ requests'[r] = q /\ \A x \in Callers : x # r => requests'[x] = requests[x]
<1>1. IntakeTypes /\ AuthorizedOK /\ LimiterOK
  BY DEF IntakeInv
<1>2. requests'[r] = q /\ \A x \in Callers : x # r => requests'[x] = requests[x]
  BY <1>1 DEF IntakeTypes, RequestTypes
<1>3. RequestTypes'
  BY <1>1 DEF IntakeTypes, RequestTypes
<1>4. q.at \notin Early /\ "authorize" \in Early /\ "access" \in Early /\ "idle" # q.at
  BY DEF Early
<1>5. AuthorizedOK'
  BY <1>1, <1>2, <1>4 DEF AuthorizedOK, Where
<1>6. \A x \in Callers : Refused(x)' => x # r /\ Refused(x)
  BY <1>2 DEF Refused, Where
<1>7. \A x \in Callers : Where(x) # "idle" /\ requests[x].limited =>
        /\ requests'[x].at # "idle" /\ requests'[x].limited
        /\ requests'[x].now = requests[x].now /\ requests'[x].body = requests[x].body
  BY <1>2, <1>4 DEF Where
<1>8. LimiterOK'
  BY <1>1, <1>2, <1>3, <1>6, <1>7, LimiterStays DEF IntakeTypes
<1> QED BY <1>2, <1>3, <1>5, <1>8

\* A request is told what became of its batch.
LEMMA IntakeResponds == ASSUME IntakeInv, NEW r \in Callers, Respond(r) PROVE IntakeInv'
<1> DEFINE s == IF Where(r) = "acked" THEN "200" ELSE "503"
<1>1. IntakeTypes /\ BatchesOK /\ AnswersOK
  BY DEF IntakeInv
<1>2. /\ Where(r) \in {"acked", "failed"} /\ Answer(r, s)
      /\ mirrored' = IF Where(r) = "acked" THEN mirrored \union {r} ELSE mirrored
      /\ UNCHANGED <<second, tokenCache, registered, window, writerQueue, durable>>
  BY DEF Respond
<1>3. s \in Statuses /\ s \in {"200", "503"} /\ (s = "200" <=> Where(r) = "acked")
  BY DEF Statuses
<1> HIDE DEF s
<1>4. PICK q \in CallerRequest :
        /\ requests' = [requests EXCEPT ![r] = q] /\ q.at = "done" /\ q.status = s
        /\ q.body = requests[r].body /\ q.now = requests[r].now /\ q.limited = requests[r].limited
  BY <1>1, <1>2, <1>3, AnswerMoves DEF IntakeTypes
<1>5. /\ RequestTypes' /\ AuthorizedOK' /\ LimiterOK'
      /\ requests'[r] = q /\ \A x \in Callers : x # r => requests'[x] = requests[x]
  BY <1>2, <1>3, <1>4, LateMoves
<1>6. IntakeTypes'
  BY <1>1, <1>2, <1>5 DEF IntakeTypes
<1>7. BatchesOK'
  <2>1. /\ \A k \in DOMAIN writerQueue : writerQueue[k].by \in Callers
        /\ \A b \in durable : b.by \in Callers
    BY <1>1, BatchTypes
  <2>2. \A k \in DOMAIN writerQueue : writerQueue[k].by # r
    BY <1>1, <1>2 DEF BatchesOK, Left
  <2> QED BY <1>1, <1>2, <1>3, <1>4, <1>5, <2>1, <2>2 DEF BatchesOK, Own, Left, WasTold, Where
<1>8. AnswersOK'
  <2>1. Where(r) = "acked" => \E b \in durable : b.by = r
    BY <1>1 DEF AnswersOK, Success
  <2>2. \A x \in Callers : Success(x)' => \E b \in durable : b.by = x
    BY <1>1, <1>3, <1>4, <1>5, <2>1 DEF AnswersOK, Success, Where
  <2>3. mirrored' \subseteq {b.by : b \in durable}
    BY <1>1, <1>2, <2>1 DEF AnswersOK
  <2> QED BY <1>2, <2>2, <2>3 DEF AnswersOK
<1> QED BY <1>5, <1>6, <1>7, <1>8 DEF IntakeInv

\* A client leaves, and its batch stays queued.
LEMMA IntakeDisconnects == ASSUME IntakeInv, NEW r \in Callers, Disconnect(r) PROVE IntakeInv'
<1>1. IntakeTypes /\ BatchesOK /\ AnswersOK
  BY DEF IntakeInv
<1>2. /\ Where(r) \notin {"idle", "done"} /\ Answer(r, "gone") /\ "gone" \in Statuses
      /\ UNCHANGED <<second, tokenCache, registered, window, writerQueue, durable, mirrored>>
  BY DEF Disconnect, Statuses
<1>3. CASE Where(r) \in Early
  BY <1>2, <1>3, CacheKept, EarlyEnds
<1>4. CASE Where(r) \in {"acking", "acked", "failed"}
  <2>1. PICK q \in CallerRequest :
          /\ requests' = [requests EXCEPT ![r] = q] /\ q.at = "done" /\ q.status = "gone"
          /\ q.body = requests[r].body /\ q.now = requests[r].now /\ q.limited = requests[r].limited
    BY <1>1, <1>2, AnswerMoves DEF IntakeTypes
  <2>2. /\ RequestTypes' /\ AuthorizedOK' /\ LimiterOK'
        /\ requests'[r] = q /\ \A x \in Callers : x # r => requests'[x] = requests[x]
    BY <1>2, <1>4, <2>1, LateMoves
  <2>3. IntakeTypes'
    BY <1>1, <1>2, <2>2 DEF IntakeTypes
  <2>4. BatchesOK'
    <3>1. /\ \A k \in DOMAIN writerQueue : writerQueue[k].by \in Callers
          /\ \A b \in durable : b.by \in Callers
      BY <1>1, BatchTypes
    <3> QED BY <1>1, <1>2, <2>1, <2>2, <3>1 DEF BatchesOK, Own, Left, WasTold, Where
  <2>5. AnswersOK'
    BY <1>1, <1>2, <2>1, <2>2 DEF AnswersOK, Success, Where
  <2> QED BY <2>2, <2>3, <2>4, <2>5 DEF IntakeInv
<1>5. Where(r) \in Places
  BY <1>1, <1>2, RequestForm DEF IntakeTypes, CallerRequest, Where
<1> QED BY <1>2, <1>3, <1>4, <1>5 DEF Places, Early

\* A token is registered, and none is taken away.
LEMMA IntakeRegisters == ASSUME IntakeInv, NEW t \in CaptureTokens, Register(t) PROVE IntakeInv'
<1>1. IntakeTypes /\ AuthorizedOK /\ BatchesOK /\ AnswersOK /\ LimiterOK
  BY DEF IntakeInv
<1>2. /\ registered' = registered \union {t}
      /\ UNCHANGED <<second, requests, tokenCache, window, writerQueue, durable, mirrored>>
  BY DEF Register
<1>3. RequestTypes'
  BY <1>1, <1>2 DEF IntakeTypes, RequestTypes
<1>4. IntakeTypes'
  BY <1>1, <1>2, <1>3 DEF IntakeTypes
<1>5. AuthorizedOK'
  BY <1>1, <1>2 DEF AuthorizedOK, Where
<1>6. BatchesOK'
  BY <1>1, <1>2 DEF BatchesOK, Own, Left, WasTold, Where
<1>7. AnswersOK'
  BY <1>1, <1>2 DEF AnswersOK, Success, Where
<1>8. LimiterOK'
  BY <1>1, <1>2, <1>3, LimiterStays DEF IntakeTypes, Refused, Where
<1> QED BY <1>4, <1>5, <1>6, <1>7, <1>8 DEF IntakeInv

\* An edge that has drained.
EdgeEmpty ==
    /\ requests = [r \in Callers |-> Idle] /\ second = 0 /\ registered = {} /\ durable = {}
    /\ mirrored = {} /\ writerQueue = <<>>
    /\ tokenCache = [t \in CaptureTokens |-> [known |-> "none", at |-> 0]]
    /\ window = [second |-> 0, counts |-> [t \in CaptureTokens |-> 0]]

\* It satisfies the invariant.
LEMMA IntakeEmpty == EdgeEmpty => IntakeInv
<1> SUFFICES ASSUME EdgeEmpty PROVE IntakeInv
  OBVIOUS
<1>0. /\ requests = [r \in Callers |-> Idle] /\ second = 0 /\ registered = {} /\ durable = {}
      /\ mirrored = {} /\ writerQueue = <<>>
      /\ tokenCache = [t \in CaptureTokens |-> [known |-> "none", at |-> 0]]
      /\ window = [second |-> 0, counts |-> [t \in CaptureTokens |-> 0]]
  BY DEF EdgeEmpty
<1>1. RequestTypes
  BY <1>0 DEF RequestTypes
<1>2. \A r \in Callers : Where(r) = "idle"
  BY <1>0 DEF Where, Idle
<1>3. IntakeTypes
  <2>1. window \in LimiterWindow /\ \A t \in CaptureTokens : window.counts[t] = 0
    BY <1>0 DEF LimiterWindow
  <2>2. writerQueue \in Seq(Batch) /\ durable \subseteq Batch
    BY <1>0
  <2>3. tokenCache \in [CaptureTokens -> [known : {"none", "yes", "no"}, at : Nat]]
    BY <1>0
  <2> QED BY <1>0, <1>1, <2>1, <2>2, <2>3 DEF IntakeTypes
<1>4. AuthorizedOK
  BY <1>0, <1>2 DEF AuthorizedOK, Early
<1>5. BatchesOK
  BY <1>0 DEF BatchesOK
<1>6. AnswersOK
  BY <1>0, <1>2 DEF AnswersOK, Success
<1>7. \A t, s : EventsLimited(t, s) \in Nat
  <2> SUFFICES ASSUME NEW t, NEW s PROVE EventsLimited(t, s) \in Nat
    OBVIOUS
  <2> DEFINE S == Limited(s)
             g == [q \in S |-> CountOf(requests[q].body, t)]
  <2>1. S = {}
    BY <1>2 DEF Limited
  <2>2. IsFiniteSet(S) /\ S \in SUBSET S
    BY <2>1, FS_EmptySet
  <2>3. EventsLimited(t, s) = SumFunction(g)
    BY DEF EventsLimited
  <2> HIDE DEF S
  <2>4. g \in [S -> Nat] /\ g = [x \in S |-> g[x]]
    BY <2>1
  <2> HIDE DEF g
  <2>5. SumFunction(g) \in Nat
    BY <2>2, <2>4, SumOfPart
  <2> QED BY <2>3, <2>5
<1>8. LimiterOK
  <2>1. \A t \in CaptureTokens : window.counts[t] = 0
    BY <1>0
  <2>2. ASSUME NEW s \in Nat, NEW t \in CaptureTokens PROVE window.counts[t] <= EventsLimited(t, s)
    <3>1. PICK e \in Nat : e = EventsLimited(t, s)
      BY <1>7
    <3> QED BY <2>1, <3>1
  <2> QED BY <1>2, <2>2 DEF LimiterOK, Refused
<1> QED BY <1>3, <1>4, <1>5, <1>6, <1>8 DEF IntakeInv

\* Capture starts empty.
LEMMA IntakeStarts == IntakeInit => IntakeInv
BY IntakeEmpty DEF IntakeInit, EdgeEmpty

\* The next callers begin where the first did.
LEMMA IntakeRestarts == ASSUME NextCallers PROVE IntakeInv'
<1>1. EdgeEmpty'
  BY DEF NextCallers, EdgeEmpty
<1>2. (EdgeEmpty => IntakeInv)'
  BY IntakeEmpty, PTL
<1> QED BY <1>1, <1>2

\* Time does not change what the limiter has counted.
LEMMA IntakeTicks == ASSUME IntakeInv, SecondPasses PROVE IntakeInv'
<1>1. second' \in Nat
  BY DEF IntakeInv, IntakeTypes, SecondPasses
<1> QED BY <1>1, RequestsStay DEF SecondPasses

\* The writer makes a batch durable, or fails, and tells its request.
LEMMA IntakeWrites == ASSUME IntakeInv, WriterTakes PROVE IntakeInv'
<1> DEFINE b == Head(writerQueue)
           r == b.by
           n == Len(writerQueue)
<1>1. IntakeTypes /\ AuthorizedOK /\ BatchesOK /\ AnswersOK /\ LimiterOK
  BY DEF IntakeInv
<1>2. PICK outcome \in {"acked", "failed"}, written \in BOOLEAN :
        /\ outcome = "acked" => written
        /\ durable' = IF written THEN durable \union {b} ELSE durable
        /\ requests' = IF Where(r) = "acking" THEN [requests EXCEPT ![r].at = outcome] ELSE requests
  BY DEF WriterTakes
<1>3. /\ writerQueue # <<>> /\ writerQueue' = Tail(writerQueue)
      /\ UNCHANGED <<second, decoding, tokenCache, registered, window, mirrored>>
  BY DEF WriterTakes
<1>4. /\ n \in Nat /\ n # 0 /\ DOMAIN writerQueue = 1 .. n /\ b = writerQueue[1]
      /\ writerQueue' \in Seq(Batch) /\ DOMAIN writerQueue' = 1 .. (n - 1)
      /\ \A k \in 1 .. (n - 1) : writerQueue'[k] = writerQueue[k + 1]
  BY <1>1, <1>3 DEF IntakeTypes
<1>5. /\ \A k \in DOMAIN writerQueue : writerQueue[k] \in Batch /\ writerQueue[k].by \in Callers
      /\ \A d \in durable : d \in Batch /\ d.by \in Callers
  BY <1>1, BatchTypes
<1>6. 1 \in DOMAIN writerQueue
  BY <1>4
<1>7. /\ b \in Batch /\ r \in Callers /\ Own(b) /\ (Where(r) = "acking" \/ Left(r))
  BY <1>1, <1>4, <1>5, <1>6 DEF BatchesOK
<1>8. \A k \in 1 .. (n - 1) : k + 1 \in DOMAIN writerQueue /\ writerQueue[k + 1].by # r
  <2>1. \A k \in 1 .. (n - 1) : k + 1 \in DOMAIN writerQueue /\ k + 1 # 1
    BY <1>4
  <2> QED BY <1>1, <1>4, <1>6, <2>1 DEF BatchesOK
<1> HIDE DEF b, n
<1>9. RequestTypes' /\ AuthorizedOK' /\ LimiterOK'
      /\ (\A x \in Callers : x # r => requests'[x] = requests[x])
      /\ \/ Left(r) /\ requests'[r] = requests[r]
         \/ requests'[r].at = outcome
  <2>1. CASE Where(r) = "acking"
    <3>1. RequestTypes /\ Where(r) # "idle" /\ outcome \in Places /\ Go(r, outcome)
      BY <1>1, <1>2, <2>1 DEF IntakeTypes, Places, Go
    <3>2. PICK q \in CallerRequest :
            /\ requests' = [requests EXCEPT ![r] = q] /\ q.at = outcome
            /\ q.body = requests[r].body /\ q.now = requests[r].now /\ q.limited = requests[r].limited
      BY <1>7, <3>1, GoMoves
    <3>3. /\ RequestTypes' /\ AuthorizedOK' /\ LimiterOK'
          /\ requests'[r] = q /\ \A x \in Callers : x # r => requests'[x] = requests[x]
      BY <1>2, <1>3, <1>7, <2>1, <3>2, LateMoves
    <3> QED BY <3>2, <3>3
  <2>2. CASE Where(r) # "acking"
    <3>1. requests' = requests /\ Left(r)
      BY <1>2, <1>7, <2>2
    <3>2. RequestTypes'
      BY <1>1, <3>1 DEF IntakeTypes, RequestTypes
    <3>3. AuthorizedOK'
      BY <1>1, <1>3, <3>1 DEF AuthorizedOK, Where
    <3>4. LimiterOK'
      BY <1>1, <1>3, <3>1, <3>2, LimiterStays DEF IntakeTypes, Refused, Where
    <3> QED BY <3>1, <3>2, <3>3, <3>4
  <2> QED BY <2>1, <2>2
<1>10. IntakeTypes'
  BY <1>1, <1>2, <1>3, <1>4, <1>7, <1>9 DEF IntakeTypes
<1>11. BatchesOK'
  <2>1. ASSUME NEW k \in 1 .. (n - 1)
        PROVE  /\ writerQueue'[k] = writerQueue[k + 1] /\ writerQueue'[k].by \in Callers
               /\ writerQueue'[k].by # r /\ Own(writerQueue[k + 1])
               /\ Where(writerQueue[k + 1].by) = "acking" \/ Left(writerQueue[k + 1].by)
    BY <1>1, <1>4, <1>5, <1>8 DEF BatchesOK
  <2>2. ASSUME NEW k \in 1 .. (n - 1)
        PROVE  /\ writerQueue'[k].projects = TokensOf(writerQueue'[k].body)
               /\ writerQueue'[k].projects \subseteq registered
               /\ \/ requests'[writerQueue'[k].by].at = "acking"
                  \/ /\ requests'[writerQueue'[k].by].at = "done"
                     /\ requests'[writerQueue'[k].by].status = "gone"
    BY <1>9, <2>1 DEF Own, Left, Where
  <2>3. ASSUME NEW j \in 1 .. (n - 1), NEW k \in 1 .. (n - 1), writerQueue'[j].by = writerQueue'[k].by
        PROVE  j = k
    <3>1. j + 1 = k + 1
      BY <1>1, <1>4, <1>8, <2>3 DEF BatchesOK
    <3> QED BY <3>1
  <2>4. ASSUME NEW d \in durable' PROVE (Own(d) /\ WasTold(d.by))'
    <3>1. CASE d = b
      BY <1>2, <1>3, <1>7, <1>9, <3>1 DEF Own, Left, WasTold, Where
    <3>2. CASE d \in durable
      BY <1>1, <1>2, <1>3, <1>5, <1>7, <1>9, <3>2 DEF BatchesOK, Own, Left, WasTold, Where
    <3> QED BY <1>2, <3>1, <3>2
  <2> QED BY <1>3, <1>4, <2>2, <2>3, <2>4 DEF BatchesOK, Own, Left, Where
<1>12. AnswersOK'
  <2>1. ASSUME NEW x \in Callers, Success(x)' PROVE \E d \in durable' : d.by = x
    <3>1. CASE Success(x)
      BY <1>1, <1>2, <3>1 DEF AnswersOK
    <3>2. CASE ~Success(x)
      <4>1. x = r /\ outcome = "acked"
        BY <1>2, <1>7, <1>9, <2>1, <3>2 DEF Success, Left, Where
      <4> QED BY <1>2, <4>1
    <3> QED BY <3>1, <3>2
  <2>2. mirrored' \subseteq {d.by : d \in durable'}
    BY <1>1, <1>2, <1>3 DEF AnswersOK
  <2> QED BY <2>1, <2>2 DEF AnswersOK
<1> QED BY <1>9, <1>10, <1>11, <1>12 DEF IntakeInv

\* Every step of capture keeps the invariant.
LEMMA IntakeStep == IntakeInv /\ [IntakeNext]_intakeVars => IntakeInv'
<1> SUFFICES ASSUME IntakeInv, [IntakeNext]_intakeVars PROVE IntakeInv'
  OBVIOUS
<1>1. CASE UNCHANGED intakeVars
  <2>1. second' \in Nat
    BY <1>1 DEF intakeVars, IntakeInv, IntakeTypes
  <2> QED BY <1>1, <2>1, RequestsStay DEF intakeVars
<1>2. CASE \E r \in Callers : capture(r)
  <2>1. PICK r \in Callers : capture(r)
    BY <1>2
  <2> QED BY <2>1, IntakeArrives, IntakeEntersGate, IntakeDecodes, IntakeReserves, IntakeTimesOut,
             IntakeUsesCache, IntakeAsks, IntakeIsAnswered, IntakeSubmits, IntakeResponds,
             IntakeDisconnects DEF capture
<1>3. CASE WriterTakes \/ SecondPasses \/ NextCallers
  BY <1>3, IntakeWrites, IntakeTicks, IntakeRestarts
<1>4. CASE \E t \in CaptureTokens : Register(t)
  BY <1>4, IntakeRegisters
<1> QED BY <1>1, <1>2, <1>3, <1>4 DEF IntakeNext

-----------------------------------------------------------------------------
(* The forwarder: sums over its queue.                                      *)

\* Sums over a set agree where the functions do.
LEMMA SumsAgree ==
    ASSUME NEW S, IsFiniteSet(S), NEW R, IsFiniteSet(R), NEW fun \in [S -> Nat], NEW gun \in [R -> Nat],
           NEW h, SumsOver(h, fun, S), NEW k, SumsOver(k, gun, R),
           NEW t, t \subseteq S, t \subseteq R, \A x \in t : fun[x] = gun[x]
    PROVE  h[t] = k[t]
<1>5. \A u \in SUBSET S : \A y \in u : h[u] = h[u \ {y}] + fun[y]
  <2> TAKE u \in SUBSET S
  <2> TAKE y \in u
  <2>1. h[u] = h[u \ {y}] + fun[y]
    BY SumRemoves
  <2> QED BY <2>1
<1>6. \A u \in SUBSET R : \A y \in u : k[u] = k[u \ {y}] + gun[y]
  <2> TAKE u \in SUBSET R
  <2> TAKE y \in u
  <2>1. k[u] = k[u \ {y}] + gun[y]
    BY SumRemoves
  <2> QED BY <2>1
<1> DEFINE T == {s \in SUBSET t : h[s] # k[s]}
<1> SUFFICES ASSUME T # {} PROVE FALSE
  OBVIOUS
<1>1. PICK s \in T : \A x \in s : s \ {x} \notin T
  <2>1. IsFiniteSet(t) /\ T \subseteq SUBSET t
    BY FS_Subset
  <2> HIDE DEF T
  <2> QED BY <2>1, SmallestSubset
<1>2. s \in SUBSET t /\ s \in SUBSET S /\ s \in SUBSET R /\ h[s] # k[s]
  OBVIOUS
<1>3. CASE s = {}
  BY <1>2, <1>3 DEF SumsOver
<1>4. CASE s # {}
  <2>1. PICK x : x \in s
    BY <1>4
  <2>2. h[s \ {x}] = k[s \ {x}] /\ fun[x] = gun[x]
    BY <1>1, <1>2, <2>1
  <2>3. h[s] = h[s \ {x}] + fun[x] /\ k[s] = k[s \ {x}] + gun[x]
    BY <1>2, <1>5, <1>6, <2>1
  <2> QED BY <1>2, <2>2, <2>3
<1> QED BY <1>3, <1>4

\* A sum without one place of it.
LEMMA SumWithout ==
    ASSUME NEW S, IsFiniteSet(S), NEW fun \in [S -> Nat], NEW x \in S,
           NEW R, R = S \ {x}, NEW gun \in [R -> Nat], \A y \in R : gun[y] = fun[y]
    PROVE  SumFunction(fun) \in Nat /\ SumFunction(gun) \in Nat /\ SumFunction(fun) = SumFunction(gun) + fun[x]
<1>1. PICK h : SumsOver(h, fun, S) /\ SumFunction(fun) = h[S]
  BY FunctionSumSteps
<1>2. IsFiniteSet(R)
  BY FS_Subset
<1>3. PICK k : SumsOver(k, gun, R) /\ SumFunction(gun) = k[R]
  BY <1>2, FunctionSumSteps
<1>4. h[R] = k[R]
  <2>1. R \subseteq S /\ R \subseteq R /\ \A y \in R : fun[y] = gun[y]
    OBVIOUS
  <2> QED BY <1>1, <1>2, <1>3, <2>1, SumsAgree
<1>5. h[S] = h[S \ {x}] + fun[x]
  BY <1>1, SumRemoves, SMTT(30)
<1>6. S \in SUBSET S /\ R \in SUBSET R
  OBVIOUS
<1>7. h[S] \in Nat /\ k[R] \in Nat
  BY <1>1, <1>3, <1>6 DEF SumsOver
<1> QED BY <1>1, <1>3, <1>4, <1>5, <1>7

\* A sum of which one place changes.
LEMMA SumChanges ==
    ASSUME NEW S, IsFiniteSet(S), NEW fun \in [S -> Nat], NEW gun \in [S -> Nat], NEW x \in S,
           \A y \in S : y # x => gun[y] = fun[y]
    PROVE  /\ SumFunction(fun) \in Nat /\ SumFunction(gun) \in Nat
           /\ SumFunction(gun) + fun[x] = SumFunction(fun) + gun[x]
<1> DEFINE R == S \ {x}
           r == [y \in R |-> fun[y]]
<1>1. r \in [R -> Nat]
  OBVIOUS
<1>2. R = S \ {x}
  OBVIOUS
<1>6. \A y \in R : r[y] = fun[y]
  OBVIOUS
<1>7. \A y \in R : r[y] = gun[y]
  OBVIOUS
<1> HIDE DEF R, r
<1>3. SumFunction(fun) \in Nat /\ SumFunction(r) \in Nat /\ SumFunction(fun) = SumFunction(r) + fun[x]
  BY <1>1, <1>2, <1>6, SumWithout
<1>4. SumFunction(gun) \in Nat /\ SumFunction(gun) = SumFunction(r) + gun[x]
  <2>1. \A y \in R : r[y] = gun[y]
    BY <1>7
  <2>2. SumFunction(gun) = SumFunction(r) + gun[x]
    BY <1>1, <1>2, <2>1, SumWithout
  <2>3. gun[x] \in Nat
    OBVIOUS
  <2> QED BY <1>3, <2>2, <2>3
<1>5. fun[x] \in Nat /\ gun[x] \in Nat
  OBVIOUS
<1> QED BY <1>3, <1>4, <1>5

\* The sum of nothing.
LEMMA SumOfNothing == ASSUME NEW f, f \in [{} -> Nat] PROVE SumFunction(f) = 0
<1>1. IsFiniteSet({})
  BY FS_EmptySet
<1>2. PICK h : SumsOver(h, f, {}) /\ SumFunction(f) = h[{}]
  BY <1>1, FunctionSumSteps
<1> QED BY <1>2 DEF SumsOver

\* The sum of a sequence with one number more.
LEMMA SumAppends ==
    ASSUME NEW s \in Seq(Nat), NEW n \in Nat
    PROVE  SumFunction(s) \in Nat /\ SumFunction(Append(s, n)) = SumFunction(s) + n
<1> DEFINE N == Len(s)
           t == Append(s, n)
<1>1. /\ N \in Nat /\ s \in [1..N -> Nat] /\ t \in [1..(N + 1) -> Nat] /\ t[N + 1] = n
      /\ \A k \in 1..N : t[k] = s[k]
  <2>1. N \in Nat /\ DOMAIN s = 1..N /\ s \in [1..N -> Nat]
    OBVIOUS
  <2>2. t \in Seq(Nat) /\ Len(t) = N + 1
    OBVIOUS
  <2>3. t[N + 1] = n /\ \A k \in 1..N : t[k] = s[k]
    OBVIOUS
  <2> HIDE DEF t, N
  <2>4. t \in [1..(N + 1) -> Nat]
    BY <2>2
  <2> QED BY <2>1, <2>3, <2>4
<1> HIDE DEF N, t
<1>2. IsFiniteSet(1..(N + 1)) /\ N + 1 \in 1..(N + 1) /\ 1..N = (1..(N + 1)) \ {N + 1}
  <2>1. N + 1 \in Int /\ 1 \in Int
    BY <1>1
  <2>2. IsFiniteSet(1..(N + 1))
    BY <2>1, FS_Interval
  <2>3. N + 1 \in 1..(N + 1) /\ 1..N = (1..(N + 1)) \ {N + 1}
    BY <1>1
  <2> QED BY <2>2, <2>3
<1>3. SumFunction(s) \in Nat /\ SumFunction(t) = SumFunction(s) + t[N + 1]
  <2> DEFINE S == 1..(N + 1)
             R == 1..N
             x == N + 1
  <2>1. PICK h : SumsOver(h, t, S) /\ SumFunction(t) = h[S]
    BY <1>1, <1>2, FunctionSumSteps
  <2>2. PICK k : SumsOver(k, s, R) /\ SumFunction(s) = k[R]
    <3>1. IsFiniteSet(R)
      BY <1>2, FS_Subset
    <3>2. s \in [R -> Nat]
      BY <1>1
    <3> HIDE DEF R
    <3> QED BY <3>1, <3>2, FunctionSumSteps
  <2>6. IsFiniteSet(S) /\ IsFiniteSet(R) /\ x \in S /\ R = S \ {x} /\ s \in [R -> Nat] /\ t \in [S -> Nat]
    BY <1>1, <1>2, FS_Subset
  <2>7. R \subseteq S /\ \A y \in R : t[y] = s[y]
    BY <1>1, <1>2
  <2> HIDE DEF S, R, x
  <2>8. h[R] = k[R]
    BY <2>1, <2>2, <2>6, <2>7, SumsAgree
  <2>9. S \in SUBSET S /\ R \in SUBSET R
    OBVIOUS
  <2>10. h[S] = h[S \ {x}] + t[x]
    <3>1. IsFiniteSet(S) /\ t \in [S -> Nat] /\ SumsOver(h, t, S)
      BY <2>1, <2>6
    <3>2. \A u \in SUBSET S : \A y \in u : h[u] = h[u \ {y}] + t[y]
      <4> TAKE u \in SUBSET S
      <4> TAKE y \in u
      <4>1. h[u] = h[u \ {y}] + t[y]
        BY <3>1, SumRemoves
      <4> QED BY <4>1
    <3> QED BY <2>6, <2>9, <3>2
  <2>11. k[R] \in Nat
    BY <2>2, <2>9 DEF SumsOver
  <2>3. SumFunction(t) = SumFunction(s) + t[x]
    BY <2>1, <2>2, <2>6, <2>8, <2>10
  <2>5. SumFunction(s) \in Nat
    BY <2>2, <2>11
  <2> QED BY <2>3, <2>5 DEF x
<1> QED BY <1>1, <1>3 DEF t

\* The sum of a sequence is its first number and the sum of the others.
LEMMA SumTails ==
    ASSUME NEW s \in Seq(Nat), s # <<>>
    PROVE  SumFunction(Tail(s)) \in Nat /\ SumFunction(s) = Head(s) + SumFunction(Tail(s))
<1> DEFINE Bad(n) == \E u \in Seq(Nat) : Len(u) = n /\ u # <<>> /\ SumFunction(u) # Head(u) + SumFunction(Tail(u))
           T == {n \in Nat : Bad(n)}
<1>1. SumFunction(Tail(s)) \in Nat
  <2>1. Tail(s) \in Seq(Nat)
    OBVIOUS
  <2> QED BY <2>1, SumAppends, 0 \in Nat
<1>2. T = {}
  <2> SUFFICES ASSUME T # {} PROVE FALSE
    OBVIOUS
  <2>1. PICK n \in T : \A m \in T : n <= m
    <3>1. T \subseteq Nat
      OBVIOUS
    <3> HIDE DEF T
    <3> QED BY <3>1, LeastNatural
  <2>2. n \in Nat /\ Bad(n)
    OBVIOUS
  <2>3. PICK u \in Seq(Nat) : Len(u) = n /\ u # <<>> /\ SumFunction(u) # Head(u) + SumFunction(Tail(u))
    BY <2>2
  <2>4. n # 0
    BY <2>3
  <2> DEFINE v == [k \in 1..(n - 1) |-> u[k]]
             x == u[n]
  <2>5. v \in Seq(Nat) /\ Len(v) = n - 1 /\ x \in Nat /\ u = Append(v, x)
    <3>1. n - 1 \in Nat /\ n \in 1..n /\ x \in Nat /\ v \in [1..(n - 1) -> Nat]
      BY <2>2, <2>3, <2>4
    <3>2. v \in Seq(Nat) /\ Len(v) = n - 1
      BY <3>1
    <3>3. Append(v, x) \in Seq(Nat) /\ Len(Append(v, x)) = n
      BY <2>2, <3>1, <3>2
    <3>4. \A k \in 1..n : Append(v, x)[k] = u[k]
      BY <2>2, <3>1, <3>2
    <3> HIDE DEF v, x
    <3> QED BY <2>3, <3>1, <3>2, <3>3, <3>4, SeqEqual
  <2> HIDE DEF v, x
  <2>6. SumFunction(u) = SumFunction(v) + x
    BY <2>5, SumAppends
  <2>7. CASE v = <<>>
    <3>1. Head(u) = x /\ Tail(u) = <<>>
      BY <2>5, <2>7
    <3>2. <<>> \in [{} -> Nat]
      OBVIOUS
    <3>3. SumFunction(<<>>) = 0
      BY <3>2, SumOfNothing
    <3> QED BY <2>3, <2>5, <2>6, <2>7, <3>1, <3>3
  <2>8. CASE v # <<>>
    <3>5. Tail(v) \in Seq(Nat) /\ Len(Tail(v)) = Len(v) - 1 /\ \A k \in 1..(Len(v) - 1) : Tail(v)[k] = v[k + 1]
      BY <2>5, <2>8
    <3>6. Len(v) \in Nat /\ Len(v) # 0 /\ Head(v) \in Nat /\ Len(u) = Len(v) + 1
      BY <2>5, <2>8
    <3>7. /\ Append(Tail(v), x) \in Seq(Nat) /\ Len(Append(Tail(v), x)) = Len(v)
          /\ \A k \in 1..(Len(v) - 1) : Append(Tail(v), x)[k] = v[k + 1]
          /\ Append(Tail(v), x)[Len(v)] = x
      BY <2>5, <3>5, <3>6
    <3>8. /\ Tail(u) \in Seq(Nat) /\ Len(Tail(u)) = Len(v)
          /\ \A k \in 1..Len(v) : Tail(u)[k] = u[k + 1]
      <4>1. Len(u) = Len(v) + 1 /\ Len(v) \in Nat /\ u \in Seq(Nat) /\ u # <<>>
        BY <2>3, <3>6
      <4>2. Tail(u) \in Seq(Nat) /\ Len(Tail(u)) = Len(u) - 1 /\ \A k \in 1..(Len(u) - 1) : Tail(u)[k] = u[k + 1]
        BY <4>1, HeadTailProperties
      <4>3. Len(u) - 1 = Len(v)
        BY <4>1
      <4> QED BY <4>2, <4>3
    <3>9. \A k \in 1..Len(v) : u[k] = v[k]
      BY <2>5
    <3>10. u[Len(v) + 1] = x
      BY <2>5
    <3>11. \A k \in 1..Len(v) : Tail(u)[k] = Append(Tail(v), x)[k]
      <4> TAKE k \in 1..Len(v)
      <4>1. k = Len(v) \/ (k \in 1..(Len(v) - 1) /\ k + 1 \in 1..Len(v))
        BY <3>6
      <4> QED BY <4>1, <3>7, <3>8, <3>9, <3>10
    <3>1. Head(u) = Head(v) /\ Tail(u) = Append(Tail(v), x) /\ Tail(v) \in Seq(Nat) /\ Head(v) \in Nat
      <4>1. Tail(u) = Append(Tail(v), x)
        BY <3>7, <3>8, <3>11, SeqEqual
      <4>2. 1 \in 1..Len(v)
        BY <3>6
      <4>3. Head(u) = Head(v)
        BY <2>3, <2>8, <3>9, <4>2
      <4> QED BY <3>5, <3>6, <4>1, <4>3
    <3>2. n - 1 \in Nat /\ n - 1 < n /\ n - 1 \notin T
      BY <2>1, <2>2, <2>4
    <3>3. SumFunction(v) = Head(v) + SumFunction(Tail(v))
      BY <2>5, <2>8, <3>2
    <3>4. SumFunction(Tail(v)) \in Nat /\ SumFunction(Tail(u)) = SumFunction(Tail(v)) + x
      BY <2>5, <3>1, SumAppends
    <3> QED BY <2>3, <2>5, <2>6, <3>1, <3>3, <3>4
  <2> QED BY <2>7, <2>8
<1>3. Len(s) \in Nat
  OBVIOUS
<1> QED BY <1>1, <1>2, <1>3

-----------------------------------------------------------------------------
(* The forwarder: orders of queue, thread and log.                          *)

Item == [project : FwdProjects, events : Seq(Nat)]
Sending == [pc : {"sending"}, project : FwdProjects, rest : Seq(Nat), host : FwdHosts, attempt : Nat]
Counts == [offered : Nat, forwarded : Nat, dropped : Nat, failed : Nat, skipped : Nat]
Receipt == [host : FwdHosts, project : FwdProjects, event : Nat]

\* The thread w sends the first events of its item in one batch.
ChunkOf(w) == SubSeq(w.rest, 1, IF Len(w.rest) < BatchEvents THEN Len(w.rest) ELSE BatchEvents)
ReceiptOf(w, k) == [host |-> w.host, project |-> w.project, event |-> w.rest[k]]
Receipts(w) == [k \in 1..Len(ChunkOf(w)) |->
                  [host |-> w.host, project |-> w.project, event |-> ChunkOf(w)[k]]]

Rising(s) == \A i, j \in DOMAIN s : i < j => s[i] < s[j]

\* The queue holds the events in the order of their numbers, of which top is the last.
QueueRises(items, top) ==
    /\ \A k \in DOMAIN items :
         /\ items[k].events # <<>> /\ Rising(items[k].events)
         /\ \A a \in DOMAIN items[k].events : items[k].events[a] <= top
    /\ \A j, k \in DOMAIN items : j < k =>
         \A a \in DOMAIN items[j].events, b \in DOMAIN items[k].events :
            items[j].events[a] < items[k].events[b]

\* An event behind which the whole queue lies.
BeforeQueue(e, items, top) ==
    /\ e <= top
    /\ \A k \in DOMAIN items : \A b \in DOMAIN items[k].events : e < items[k].events[b]

\* What the thread has in hand comes before the queue.
ThreadFirst(w, items, top) ==
    w.pc = "sending" =>
        /\ w.rest # <<>> /\ Rising(w.rest)
        /\ \A a \in DOMAIN w.rest : BeforeQueue(w.rest[a], items, top)

\* What was sent comes before what the thread has in hand, but for the batch it sends.
SentFirst(log, w, items, top) ==
    \A i \in DOMAIN log :
        /\ BeforeQueue(log[i].event, items, top)
        /\ w.pc = "sending" =>
             \/ log[i].event < w.rest[1]
             \/ \E k \in 1..Len(ChunkOf(w)) : log[i] = ReceiptOf(w, k)

\* A batch that PostHog took once is there whole.
ChunkWhole(log, w) ==
    w.pc = "sending" =>
        \A i \in DOMAIN log : \A k \in 1..Len(ChunkOf(w)) :
            log[i].event = w.rest[k] =>
                \A m \in 1..k : m # k => \E j \in 1..(i - 1) : log[j] = ReceiptOf(w, m)

InOrder(log) ==
    \A i, j \in 1..Len(log) :
        /\ i < j /\ log[i].project = log[j].project /\ log[j].event < log[i].event
        => \E k \in 1..(i - 1) : log[k] = log[j]

Orderly(log, w, items, top) ==
    /\ QueueRises(items, top) /\ ThreadFirst(w, items, top)
    /\ SentFirst(log, w, items, top) /\ ChunkWhole(log, w) /\ InOrder(log)

\* A batch is the first events in hand.
LEMMA ChunkForm ==
    ASSUME NEW w \in Sending, w.rest # <<>>
    PROVE  \E m \in 1..Len(w.rest) :
             /\ Len(ChunkOf(w)) = m /\ ChunkOf(w) \in Seq(Nat)
             /\ m = IF Len(w.rest) < BatchEvents THEN Len(w.rest) ELSE BatchEvents
             /\ \A k \in 1..m : ChunkOf(w)[k] = w.rest[k] /\ k \in DOMAIN w.rest /\ w.rest[k] \in Nat
             /\ Receipts(w) = [k \in 1..m |-> ReceiptOf(w, k)] /\ Receipts(w) \in Seq(Receipt)
             /\ Len(Receipts(w)) = m
<1> DEFINE n == Len(w.rest)
           m == IF n < BatchEvents THEN n ELSE BatchEvents
<1>1. w.rest \in Seq(Nat) /\ n \in Nat /\ n # 0 /\ BatchEvents \in Nat /\ BatchEvents # 0
      /\ w.host \in FwdHosts /\ w.project \in FwdProjects
  BY FwdAssumption DEF Sending
<1>2. m \in 1..n
  BY <1>1
<1>3. /\ ChunkOf(w) = SubSeq(w.rest, 1, m) /\ m = IF Len(w.rest) < BatchEvents THEN Len(w.rest) ELSE BatchEvents
  BY DEF ChunkOf
<1> HIDE DEF m
<1>4. /\ SubSeq(w.rest, 1, m) \in Seq(Nat) /\ Len(SubSeq(w.rest, 1, m)) = m
      /\ \A k \in 1..m : SubSeq(w.rest, 1, m)[k] = w.rest[k] /\ k \in DOMAIN w.rest /\ w.rest[k] \in Nat
  BY <1>1, <1>2
<1>5. Receipts(w) = [k \in 1..m |-> ReceiptOf(w, k)]
  BY <1>3, <1>4 DEF Receipts, ReceiptOf
<1>6. \A k \in 1..m : ReceiptOf(w, k) \in Receipt
  BY <1>1, <1>4 DEF ReceiptOf, Receipt
<1>7. Receipts(w) \in Seq(Receipt) /\ Len(Receipts(w)) = m
  <2>1. m \in Nat
    BY <1>1, <1>2
  <2> QED BY <1>5, <1>6, <2>1
<1> QED BY <1>2, <1>3, <1>4, <1>5, <1>7

\* What a log becomes when a batch is received.
LEMMA LogGrows ==
    ASSUME NEW w \in Sending, w.rest # <<>>, NEW log \in Seq(Receipt)
    PROVE  \E N \in Nat, m \in 1..Len(w.rest) :
             /\ N = Len(log) /\ m = Len(ChunkOf(w))
             /\ log \o Receipts(w) \in Seq(Receipt) /\ Len(log \o Receipts(w)) = N + m
             /\ \A i \in 1..N : (log \o Receipts(w))[i] = log[i]
             /\ \A k \in 1..m : (log \o Receipts(w))[N + k] = ReceiptOf(w, k)
             /\ \A i \in 1..(N + m) : i \in 1..N \/ \E k \in 1..m : i = N + k
<1>1. PICK m \in 1..Len(w.rest) :
        /\ Len(ChunkOf(w)) = m
        /\ Receipts(w) = [k \in 1..m |-> ReceiptOf(w, k)] /\ Receipts(w) \in Seq(Receipt)
        /\ Len(Receipts(w)) = m
  BY ChunkForm
<1> DEFINE N == Len(log)
           new == Receipts(w)
<1>2. N \in Nat /\ m \in Nat
  BY DEF Sending
<1>3. log \o new \in Seq(Receipt) /\ Len(log \o new) = N + m
  BY <1>1, <1>2
<1>4. \A i \in 1..N : (log \o new)[i] = log[i]
  BY <1>1, <1>2
<1>5. \A k \in 1..m : (log \o new)[N + k] = new[k]
  BY <1>1, <1>2
<1>6. \A k \in 1..m : new[k] = ReceiptOf(w, k)
  BY <1>1
<1>7. \A i \in 1..(N + m) : i \in 1..N \/ \E k \in 1..m : i = N + k
  <2> TAKE i \in 1..(N + m)
  <2>1. i > N => i - N \in 1..m /\ i = N + (i - N)
    BY <1>2
  <2> QED BY <1>2, <2>1
<1> HIDE DEF N, new
<1>8. \A k \in 1..m : (log \o new)[N + k] = ReceiptOf(w, k)
  BY <1>5, <1>6
<1> QED BY <1>1, <1>2, <1>3, <1>4, <1>7, <1>8 DEF N, new

\* A received batch keeps the order.
LEMMA OrderReceived ==
    ASSUME NEW log \in Seq(Receipt), NEW w \in Sending, NEW items \in Seq(Item), NEW top \in Nat,
           Orderly(log, w, items, top)
    PROVE  log \o Receipts(w) \in Seq(Receipt) /\ Orderly(log \o Receipts(w), w, items, top)
<1> DEFINE t == log \o Receipts(w)
<1>1. /\ w.pc = "sending" /\ w.rest # <<>> /\ Rising(w.rest) /\ w.rest \in Seq(Nat) /\ Len(w.rest) \in Nat
      /\ \A a \in DOMAIN w.rest : BeforeQueue(w.rest[a], items, top)
  BY DEF Sending, Orderly, ThreadFirst
<1>2. PICK N \in Nat, m \in 1..Len(w.rest) :
        /\ N = Len(log) /\ m = Len(ChunkOf(w))
        /\ t \in Seq(Receipt) /\ Len(t) = N + m
        /\ \A i \in 1..N : t[i] = log[i]
        /\ \A k \in 1..m : t[N + k] = ReceiptOf(w, k)
        /\ \A i \in 1..(N + m) : i \in 1..N \/ \E k \in 1..m : i = N + k
  BY <1>1, LogGrows, ZenonT(60)
<1> HIDE DEF t
<1>3. m \in Nat /\ DOMAIN t = 1..(N + m) /\ DOMAIN log = 1..N /\ DOMAIN w.rest = 1..Len(w.rest)
      /\ \A k \in 1..m : k \in DOMAIN w.rest /\ w.rest[k] \in Nat
      /\ \A i \in 1..N : log[i].event \in Nat
  <2>1. m \in Nat /\ DOMAIN t = 1..(N + m) /\ DOMAIN log = 1..N /\ DOMAIN w.rest = 1..Len(w.rest)
    BY <1>1, <1>2
  <2>2. \A k \in 1..m : k \in 1..Len(w.rest)
    BY <1>1, <1>2
  <2>3. \A k \in 1..Len(w.rest) : w.rest[k] \in Nat
    BY <1>1
  <2>4. \A i \in 1..N : log[i] \in Receipt
    BY <2>1
  <2> QED BY <2>1, <2>2, <2>3, <2>4 DEF Receipt
<1>4. \A k \in 1..m : ReceiptOf(w, k).event = w.rest[k] /\ ReceiptOf(w, k).project = w.project
  BY DEF ReceiptOf
<1>5. \A a, b \in 1..m : a < b => w.rest[a] < w.rest[b]
  BY <1>1, <1>3 DEF Rising
<1>6. SentFirst(t, w, items, top)
  <2> SUFFICES ASSUME NEW i \in 1..(N + m)
               PROVE  /\ BeforeQueue(t[i].event, items, top)
                      /\ \/ t[i].event < w.rest[1]
                         \/ \E k \in 1..m : t[i] = ReceiptOf(w, k)
    BY <1>2, <1>3 DEF SentFirst
  <2>1. CASE i \in 1..N
    BY <1>1, <1>2, <1>3, <2>1 DEF Orderly, SentFirst
  <2>2. ASSUME NEW k \in 1..m, i = N + k
        PROVE  t[i] = ReceiptOf(w, k) /\ BeforeQueue(t[i].event, items, top)
    <3>1. t[i] = ReceiptOf(w, k) /\ t[i].event = w.rest[k] /\ k \in DOMAIN w.rest
      BY <1>2, <1>3, <1>4, <2>2
    <3> QED BY <1>1, <3>1
  <2> QED BY <1>2, <2>1, <2>2
<1>7. ASSUME NEW i \in 1..(N + m), NEW k \in 1..m, t[i].event = w.rest[k], NEW q \in 1..m, q < k
      PROVE  \E j \in 1..(i - 1) : t[j] = ReceiptOf(w, q)
  <2>1. CASE i \in 1..N
    <3>1. log[i].event = w.rest[k] /\ q \in 1..k /\ q # k
      BY <1>2, <1>3, <1>7, <2>1
    <3>2. PICK j \in 1..(i - 1) : log[j] = ReceiptOf(w, q)
      BY <1>1, <1>2, <1>3, <2>1, <3>1 DEF Orderly, ChunkWhole
    <3>3. j \in 1..N
      BY <1>2, <2>1
    <3> QED BY <1>2, <3>2, <3>3
  <2>2. ASSUME NEW b \in 1..m, i = N + b PROVE \E j \in 1..(i - 1) : t[j] = ReceiptOf(w, q)
    <3>1. w.rest[b] = w.rest[k]
      BY <1>2, <1>4, <1>7, <2>2
    <3>2. b = k
      <4>1. ~(b < k) /\ ~(k < b)
        BY <1>3, <1>5, <3>1
      <4> QED BY <1>3, <4>1
    <3>3. N + q \in 1..(i - 1)
      BY <1>2, <1>3, <1>7, <2>2, <3>2
    <3> QED BY <1>2, <3>3
  <2> QED BY <1>2, <2>1, <2>2
<1>8. ChunkWhole(t, w)
  <2> SUFFICES ASSUME NEW i \in 1..(N + m), NEW k \in 1..m, t[i].event = w.rest[k], NEW q \in 1..k, q # k
               PROVE  \E j \in 1..(i - 1) : t[j] = ReceiptOf(w, q)
    BY <1>2, <1>3 DEF ChunkWhole
  <2>1. q \in 1..m /\ q < k
    BY <1>3
  <2> QED BY <1>7, <2>1
<1>9. InOrder(t)
  <2> SUFFICES ASSUME NEW i \in 1..(N + m), NEW j \in 1..(N + m), i < j, t[i].project = t[j].project,
                      t[j].event < t[i].event
               PROVE  \E k \in 1..(i - 1) : t[k] = t[j]
    BY <1>2 DEF InOrder
  <2>1. CASE j \in 1..N
    <3>1. i \in 1..N /\ 1..(i - 1) \subseteq 1..N
      BY <1>2, <2>1
    <3>2. PICK k \in 1..(i - 1) : log[k] = log[j]
      BY <1>2, <2>1, <3>1 DEF Orderly, InOrder
    <3> QED BY <1>2, <2>1, <3>1, <3>2
  <2>2. ASSUME NEW a \in 1..m, j = N + a PROVE \E k \in 1..(i - 1) : t[k] = t[j]
    <3>1. t[j] = ReceiptOf(w, a) /\ t[j].event = w.rest[a]
      BY <1>2, <1>4, <2>2
    <3>2. CASE i \in 1..N
      <4>1. t[i] = log[i] /\ log[i].event > w.rest[a] /\ log[i].event \in Nat
        BY <1>2, <1>3, <3>1, <3>2
      <4>2. w.rest[1] <= w.rest[a] /\ w.rest[1] \in Nat /\ w.rest[a] \in Nat
        <5>1. 1 \in 1..m
          BY <1>2, <1>3
        <5>2. a = 1 \/ 1 < a
          BY <1>3
        <5> QED BY <1>3, <1>5, <5>1, <5>2
      <4>3. PICK b \in 1..m : log[i] = ReceiptOf(w, b)
        <5>1. ~(log[i].event < w.rest[1])
          <6>1. \A e, x, y \in Nat : e > y /\ x <= y => ~(e < x)
            OBVIOUS
          <6> QED BY <4>1, <4>2, <6>1
        <5> QED BY <1>1, <1>2, <1>3, <3>2, <5>1 DEF Orderly, SentFirst
      <4>4. t[i].event = w.rest[b] /\ a < b
        <5>1. w.rest[b] > w.rest[a] /\ t[i].event = w.rest[b]
          BY <1>4, <4>1, <4>3
        <5>2. ~(b < a) /\ b # a
          BY <1>3, <1>5, <5>1, SMTT(30)
        <5> QED BY <1>3, <5>1, <5>2
      <4> QED BY <1>7, <3>1, <4>4
    <3>3. ASSUME NEW b \in 1..m, i = N + b PROVE FALSE
      <4>1. b < a /\ t[i].event = w.rest[b]
        BY <1>2, <1>3, <1>4, <2>2, <3>3
      <4> QED BY <1>3, <1>5, <3>1, <4>1
    <3> QED BY <1>2, <3>2, <3>3
  <2> QED BY <1>2, <2>1, <2>2
<1> QED BY <1>2, <1>6, <1>8, <1>9 DEF Orderly, t

\* What the thread has in hand when a batch is over.
RestOf(w) == SubSeq(w.rest, Len(ChunkOf(w)) + 1, Len(w.rest))
After(w) == IF RestOf(w) = <<>> THEN Waiting ELSE [w EXCEPT !.rest = RestOf(w), !.attempt = 1]

\* The rest of an item.
LEMMA RestForm ==
    ASSUME NEW w \in Sending, w.rest # <<>>
    PROVE  \E m \in 1..Len(w.rest) :
             /\ m = Len(ChunkOf(w)) /\ RestOf(w) \in Seq(Nat) /\ Len(RestOf(w)) = Len(w.rest) - m
             /\ \A k \in 1..(Len(w.rest) - m) : RestOf(w)[k] = w.rest[m + k] /\ m + k \in DOMAIN w.rest
             /\ RestOf(w) = <<>> <=> m = Len(w.rest)
             /\ \/ RestOf(w) = <<>> /\ After(w) = Waiting
                \/ RestOf(w) # <<>> /\ After(w) \in Sending
                   /\ After(w) = [pc |-> "sending", project |-> w.project, rest |-> RestOf(w),
                                  host |-> w.host, attempt |-> 1]
<1>1. PICK m \in 1..Len(w.rest) : Len(ChunkOf(w)) = m
  BY ChunkForm
<1>2. w.rest \in Seq(Nat) /\ Len(w.rest) \in Nat /\ m \in Nat /\ m + 1 \in 1..(Len(w.rest) + 1)
      /\ DOMAIN w.rest = 1..Len(w.rest)
  BY <1>1 DEF Sending
<1>3. RestOf(w) = SubSeq(w.rest, m + 1, Len(w.rest))
  BY <1>1 DEF RestOf
<1>4. /\ RestOf(w) \in Seq(Nat) /\ Len(RestOf(w)) = Len(w.rest) - m
      /\ \A k \in 1..(Len(w.rest) - m) : RestOf(w)[k] = w.rest[m + k]
  BY <1>2, <1>3
<1>5. \A k \in 1..(Len(w.rest) - m) : m + k \in DOMAIN w.rest
  BY <1>2
<1>6. RestOf(w) = <<>> <=> m = Len(w.rest)
  BY <1>2, <1>4
<1>7. RestOf(w) # <<>> =>
        /\ After(w) \in Sending
        /\ After(w) = [pc |-> "sending", project |-> w.project, rest |-> RestOf(w),
                       host |-> w.host, attempt |-> 1]
  <2>1. w = [pc |-> "sending", project |-> w.project, rest |-> w.rest, host |-> w.host, attempt |-> w.attempt]
    BY DEF Sending
  <2> DEFINE r == RestOf(w)
             v == [w EXCEPT !.rest = r]
  <2>2. RestOf(w) # <<>> => After(w) = [v EXCEPT !.attempt = 1]
    BY DEF After
  <2> HIDE DEF r
  <2>3. v = [pc |-> "sending", project |-> w.project, rest |-> r, host |-> w.host, attempt |-> w.attempt]
    BY <2>1
  <2> HIDE DEF v
  <2>4. [v EXCEPT !.attempt = 1] =
          [pc |-> "sending", project |-> w.project, rest |-> r, host |-> w.host, attempt |-> 1]
    BY <2>3
  <2>5. r \in Seq(Nat)
    BY <1>4 DEF r
  <2>6. [pc |-> "sending", project |-> w.project, rest |-> r, host |-> w.host, attempt |-> 1] \in Sending
    BY <2>5 DEF Sending
  <2> QED BY <2>2, <2>4, <2>6 DEF r
<1>8. RestOf(w) = <<>> => After(w) = Waiting
  BY DEF After
<1> QED BY <1>1, <1>4, <1>5, <1>6, <1>7, <1>8

\* The order stays when a batch is over.
LEMMA OrderAfter ==
    ASSUME NEW log \in Seq(Receipt), NEW w \in Sending, NEW items \in Seq(Item), NEW top \in Nat,
           Orderly(log, w, items, top)
    PROVE  Orderly(log, After(w), items, top)
<1>1. /\ w.pc = "sending" /\ w.rest # <<>> /\ Rising(w.rest) /\ w.rest \in Seq(Nat) /\ Len(w.rest) \in Nat
      /\ \A a \in DOMAIN w.rest : BeforeQueue(w.rest[a], items, top)
  BY DEF Sending, Orderly, ThreadFirst
<1>2. PICK m \in 1..Len(w.rest) :
        /\ m = Len(ChunkOf(w)) /\ RestOf(w) \in Seq(Nat) /\ Len(RestOf(w)) = Len(w.rest) - m
        /\ \A k \in 1..(Len(w.rest) - m) : RestOf(w)[k] = w.rest[m + k] /\ m + k \in DOMAIN w.rest
        /\ RestOf(w) = <<>> <=> m = Len(w.rest)
        /\ \/ RestOf(w) = <<>> /\ After(w) = Waiting
           \/ RestOf(w) # <<>> /\ After(w) \in Sending
              /\ After(w) = [pc |-> "sending", project |-> w.project, rest |-> RestOf(w),
                             host |-> w.host, attempt |-> 1]
  BY <1>1, RestForm
<1> DEFINE r == RestOf(w)
           n == Len(w.rest)
<1>3. CASE r = <<>>
  <2>1. After(w).pc # "sending"
    BY <1>2, <1>3 DEF Waiting
  <2> QED BY <2>1 DEF Orderly, ThreadFirst, SentFirst, ChunkWhole
<1>4. CASE r # <<>>
  <2>1. After(w).rest = r /\ After(w).host = w.host /\ After(w).project = w.project /\ After(w) \in Sending
    BY <1>2, <1>4
  <2>2. n \in Nat /\ m \in Nat /\ m < n /\ DOMAIN r = 1..(n - m) /\ 1 \in 1..(n - m) /\ DOMAIN w.rest = 1..n
    BY <1>1, <1>2, <1>4
  <2>3. \A k \in DOMAIN r : r[k] = w.rest[m + k] /\ m + k \in DOMAIN w.rest /\ r[k] \in Nat
    <3>1. \A k \in 1..(n - m) : r[k] = w.rest[m + k] /\ m + k \in DOMAIN w.rest
      BY <1>2
    <3>2. \A k \in DOMAIN w.rest : w.rest[k] \in Nat
      BY <1>1
    <3> HIDE DEF r, n
    <3> QED BY <2>2, <3>1, <3>2
  <2> HIDE DEF r, n
  <2>4. \A a, b \in DOMAIN w.rest : a < b => w.rest[a] < w.rest[b]
    BY <1>1 DEF Rising
  <2>5. Rising(r)
    <3> SUFFICES ASSUME NEW a \in DOMAIN r, NEW b \in DOMAIN r, a < b PROVE r[a] < r[b]
      BY DEF Rising
    <3>1. m + a < m + b
      BY <2>2
    <3> QED BY <2>3, <2>4, <3>1
  <2>6. ThreadFirst(After(w), items, top)
    BY <1>1, <1>4, <2>1, <2>3, <2>5 DEF ThreadFirst
  <2>7. \A k \in 1..m : w.rest[k] < r[1] /\ w.rest[k] \in Nat
    <3> TAKE k \in 1..m
    <3>1. k \in DOMAIN w.rest /\ m + 1 \in DOMAIN w.rest /\ k < m + 1 /\ r[1] = w.rest[m + 1]
      BY <2>2, <2>3
    <3> QED BY <1>1, <2>4, <3>1
  <2>8. ASSUME NEW i \in DOMAIN log PROVE log[i].event < r[1] /\ log[i].event \in Nat
    <3>1. log[i].event \in Nat
      <4>1. log[i] \in Receipt
        OBVIOUS
      <4> QED BY <4>1 DEF Receipt
    <3>2. CASE log[i].event < w.rest[1]
      <4>1. 1 \in 1..m /\ r[1] \in Nat
        BY <2>2, <2>3
      <4>2. w.rest[1] < r[1] /\ w.rest[1] \in Nat
        BY <2>7, <4>1
      <4> QED BY <3>1, <3>2, <4>1, <4>2
    <3>3. ASSUME NEW k \in 1..m, log[i] = ReceiptOf(w, k) PROVE log[i].event < r[1]
      BY <2>7, <3>3 DEF ReceiptOf
    <3> QED BY <1>1, <1>2, <3>1, <3>2, <3>3 DEF Orderly, SentFirst
  <2>9. SentFirst(log, After(w), items, top)
    BY <2>1, <2>8 DEF Orderly, SentFirst
  <2>10. ChunkWhole(log, After(w))
    <3> DEFINE v == After(w)
    <3>1. PICK q \in 1..Len(v.rest) : Len(ChunkOf(v)) = q
      BY <1>4, <2>1, ChunkForm
    <3> SUFFICES ASSUME NEW i \in DOMAIN log, NEW k \in 1..q, log[i].event = v.rest[k] PROVE FALSE
      BY <3>1 DEF ChunkWhole
    <3>2. v.rest[k] = r[k] /\ k \in DOMAIN r /\ q \in Nat
      <4>1. Len(r) \in Nat /\ DOMAIN r = 1..Len(r)
        BY <1>2, <2>1 DEF r
      <4> QED BY <2>1, <3>1, <4>1
    <3>3. r[1] <= r[k]
      <4>1. 1 \in DOMAIN r /\ (k = 1 \/ 1 < k)
        BY <2>2, <3>2
      <4>2. 1 < k => r[1] < r[k]
        BY <2>5, <3>2, <4>1 DEF Rising
      <4>3. r[1] \in Nat /\ r[k] \in Nat
        BY <2>3, <3>2, <4>1
      <4> QED BY <4>1, <4>2, <4>3
    <3>4. r[1] \in Nat /\ r[k] \in Nat /\ log[i].event < r[1] /\ log[i].event \in Nat
      BY <2>2, <2>3, <2>8, <3>2
    <3> QED BY <3>2, <3>3, <3>4
  <2> QED BY <2>6, <2>9, <2>10 DEF Orderly
<1> QED BY <1>3, <1>4

\* Another attempt is of the same batch.
LEMMA OrderRetried ==
    ASSUME NEW log \in Seq(Receipt), NEW w \in Sending, NEW items \in Seq(Item), NEW top \in Nat,
           Orderly(log, w, items, top), NEW v, v = [w EXCEPT !.attempt = @ + 1]
    PROVE  Orderly(log, v, items, top) /\ v \in Sending /\ v.rest = w.rest /\ v.project = w.project
<1>1. v.rest = w.rest /\ v.project = w.project /\ v.host = w.host /\ v.pc = w.pc /\ v \in Sending
  BY DEF Sending
<1>2. ChunkOf(v) = ChunkOf(w)
  <2> DEFINE C(r) == SubSeq(r, 1, IF Len(r) < BatchEvents THEN Len(r) ELSE BatchEvents)
  <2>1. ChunkOf(v) = C(v.rest) /\ ChunkOf(w) = C(w.rest)
    BY DEF ChunkOf
  <2> HIDE DEF C
  <2> QED BY <1>1, <2>1
<1>3. \A k \in Nat : ReceiptOf(v, k) = ReceiptOf(w, k)
  BY <1>1 DEF ReceiptOf
<1>4. Len(ChunkOf(w)) \in Nat
  <2>1. w.rest # <<>>
    BY DEF Orderly, ThreadFirst, Sending
  <2> QED BY <2>1, ChunkForm
<1> DEFINE m == Len(ChunkOf(w))
<1>5. ThreadFirst(v, items, top)
  BY <1>1 DEF Orderly, ThreadFirst
<1>6. SentFirst(log, v, items, top)
  <2>1. Len(ChunkOf(v)) = m /\ \A k \in 1..m : ReceiptOf(v, k) = ReceiptOf(w, k)
    BY <1>2, <1>3, <1>4
  <2> QED BY <1>1, <2>1 DEF Orderly, SentFirst
<1>7. ChunkWhole(log, v)
  <2>1. Len(ChunkOf(v)) = m /\ m \in Nat
    BY <1>2, <1>4
  <2> HIDE DEF m
  <2> SUFFICES ASSUME NEW i \in DOMAIN log, NEW k \in 1..m, log[i].event = v.rest[k], NEW q \in 1..k, q # k
               PROVE  \E j \in 1..(i - 1) : log[j] = ReceiptOf(v, q)
    BY <2>1 DEF ChunkWhole
  <2>2. q \in Nat /\ ReceiptOf(v, q) = ReceiptOf(w, q) /\ w.pc = "sending" /\ log[i].event = w.rest[k]
    <3>1. q \in Nat
      BY <2>1
    <3> QED BY <1>1, <1>3, <3>1 DEF Sending
  <2>3. \E j \in 1..(i - 1) : log[j] = ReceiptOf(w, q)
    BY <2>2 DEF Orderly, ChunkWhole, m
  <2> QED BY <2>2, <2>3
<1> QED BY <1>1, <1>5, <1>6, <1>7 DEF Orderly

\* The first item leaves the queue.
LEMMA OrderTaken ==
    ASSUME NEW log \in Seq(Receipt), NEW items \in Seq(Item), items # <<>>, NEW top \in Nat,
           Orderly(log, Waiting, items, top), NEW host
    PROVE  /\ Orderly(log, Waiting, Tail(items), top)
           /\ host \in FwdHosts =>
              Orderly(log, [pc |-> "sending", project |-> Head(items).project, rest |-> Head(items).events,
                            host |-> host, attempt |-> 1], Tail(items), top)
<1> DEFINE t == Tail(items)
           h == Head(items)
           w == [pc |-> "sending", project |-> h.project, rest |-> h.events, host |-> host, attempt |-> 1]
<1>1. /\ t \in Seq(Item) /\ h \in Item /\ h = items[1] /\ 1 \in DOMAIN items
      /\ \A k \in DOMAIN t : t[k] = items[k + 1] /\ k + 1 \in DOMAIN items /\ k \in Nat /\ k # 0
  <2>1. t \in Seq(Item) /\ Len(t) = Len(items) - 1 /\ \A k \in 1..Len(t) : t[k] = items[k + 1]
    BY HeadTailProperties
  <2>2. Len(items) \in Nat /\ Len(items) # 0 /\ DOMAIN items = 1..Len(items) /\ DOMAIN t = 1..Len(t)
    BY <2>1
  <2>3. h \in Item /\ h = items[1]
    BY <2>2
  <2> HIDE DEF t, h
  <2> QED BY <2>1, <2>2, <2>3
<1>2. /\ host \in FwdHosts => w \in Sending
      /\ w.rest = h.events /\ w.pc = "sending" /\ w.host = host /\ w.project = h.project
  BY <1>1 DEF Sending, Item
<1> HIDE DEF t, h, w
<1>3. QueueRises(t, top)
  <2>1. \A k \in DOMAIN t : /\ t[k].events # <<>> /\ Rising(t[k].events)
                            /\ \A a \in DOMAIN t[k].events : t[k].events[a] <= top
    BY <1>1 DEF Orderly, QueueRises
  <2>2. ASSUME NEW j \in DOMAIN t, NEW k \in DOMAIN t, j < k, NEW a \in DOMAIN t[j].events,
               NEW b \in DOMAIN t[k].events
        PROVE  t[j].events[a] < t[k].events[b]
    <3>1. j + 1 < k + 1
      BY <1>1, <2>2
    <3> QED BY <1>1, <2>2, <3>1 DEF Orderly, QueueRises
  <2> QED BY <2>1, <2>2 DEF QueueRises
<1>4. \A e : BeforeQueue(e, items, top) => BeforeQueue(e, t, top)
  BY <1>1 DEF BeforeQueue
<1>5. \A a \in DOMAIN h.events : BeforeQueue(h.events[a], t, top)
  <2> SUFFICES ASSUME NEW a \in DOMAIN h.events, NEW k \in DOMAIN t, NEW b \in DOMAIN t[k].events
               PROVE  h.events[a] < t[k].events[b]
    BY <1>1 DEF Orderly, QueueRises, BeforeQueue
  <2>1. 1 < k + 1
    BY <1>1
  <2> QED BY <1>1, <2>1 DEF Orderly, QueueRises
<1>6. ASSUME NEW i \in DOMAIN log
      PROVE  BeforeQueue(log[i].event, t, top) /\ log[i].event < w.rest[1]
  <2>1. BeforeQueue(log[i].event, items, top)
    BY DEF Orderly, SentFirst
  <2>2. 1 \in DOMAIN h.events
    <3>1. h.events \in Seq(Nat) /\ h.events # <<>>
      BY <1>1 DEF Item, Orderly, QueueRises
    <3> QED BY <3>1
  <2> QED BY <1>1, <1>2, <1>4, <2>1, <2>2 DEF BeforeQueue
<1>7. Orderly(log, Waiting, t, top)
  BY <1>3, <1>6 DEF Orderly, ThreadFirst, SentFirst, ChunkWhole, Waiting
<1>8. ThreadFirst(w, t, top)
  BY <1>1, <1>2, <1>5 DEF ThreadFirst, Orderly, QueueRises
<1>9. SentFirst(log, w, t, top)
  BY <1>6 DEF SentFirst
<1>10. ASSUME host \in FwdHosts PROVE ChunkWhole(log, w)
  <2>1. PICK m \in 1..Len(w.rest) : Len(ChunkOf(w)) = m /\ \A k \in 1..m : k \in DOMAIN w.rest /\ w.rest[k] \in Nat
    BY <1>2, <1>8, <1>10, ChunkForm DEF ThreadFirst
  <2> SUFFICES ASSUME NEW i \in DOMAIN log, NEW k \in 1..m, log[i].event = w.rest[k] PROVE FALSE
    BY <2>1 DEF ChunkWhole
  <2>2. 1 \in DOMAIN w.rest /\ w.rest[1] \in Nat /\ (k = 1 \/ 1 < k)
    BY <1>2, <1>10, <2>1 DEF Sending
  <2>3. w.rest[1] <= w.rest[k]
    <3>1. Rising(w.rest) /\ k \in DOMAIN w.rest /\ w.rest[k] \in Nat
      BY <1>2, <1>8, <2>1 DEF ThreadFirst
    <3>2. CASE k = 1
      BY <2>2, <3>2
    <3>3. CASE 1 < k
      BY <2>2, <3>1, <3>3 DEF Rising
    <3> QED BY <2>2, <3>2, <3>3
  <2>4. w.rest[k] < w.rest[1]
    BY <1>6
  <2> QED BY <2>1, <2>2, <2>3, <2>4
<1> QED BY <1>3, <1>7, <1>8, <1>9, <1>10 DEF Orderly, t, h, w

\* New numbers at the end of the queue.
LEMMA OrderOffered ==
    ASSUME NEW log, NEW items \in Seq(Item), NEW w, NEW top \in Nat, NEW n \in Nat, n # 0,
           NEW p \in FwdProjects, w.pc = "sending" => w \in Sending, log \in Seq(Receipt),
           Orderly(log, w, items, top)
    PROVE  /\ Orderly(log, w, items, top + n)
           /\ LET x == [project |-> p, events |-> [k \in 1..n |-> top + k]]
              IN  x \in Item /\ Orderly(log, w, Append(items, x), top + n)
<1> DEFINE s == [k \in 1..n |-> top + k]
           x == [project |-> p, events |-> s]
           t == Append(items, x)
           N == Len(items)
<1>1. s \in Seq(Nat) /\ s # <<>> /\ DOMAIN s = 1..n /\ \A k \in 1..n : s[k] = top + k
  OBVIOUS
<1>2. x \in Item /\ x.events = s
  BY <1>1 DEF Item
<1>3. Rising(s) /\ \A a \in DOMAIN s : top < s[a] /\ s[a] <= top + n
  BY <1>1 DEF Rising
<1> HIDE DEF s, x
<1>4. /\ t \in Seq(Item) /\ N \in Nat /\ DOMAIN t = 1..(N + 1) /\ DOMAIN items = 1..N
      /\ t[N + 1] = x /\ \A k \in 1..N : t[k] = items[k]
  BY <1>2
<1> HIDE DEF t, N
<1>5. \A k \in 1..N : \A a \in DOMAIN items[k].events : items[k].events[a] \in Nat
  <2> TAKE k \in 1..N
  <2>1. items[k] \in Item
    BY <1>4
  <2>2. items[k].events \in Seq(Nat)
    BY <2>1 DEF Item
  <2> QED BY <2>2
<1>6. \A e \in Nat : BeforeQueue(e, items, top) => BeforeQueue(e, items, top + n) /\ BeforeQueue(e, t, top + n)
  <2> SUFFICES ASSUME NEW e \in Nat, BeforeQueue(e, items, top)
               PROVE  BeforeQueue(e, items, top + n) /\ BeforeQueue(e, t, top + n)
    OBVIOUS
  <2>1. e <= top /\ e <= top + n
    BY DEF BeforeQueue
  <2>2. \A b \in DOMAIN s : e < s[b]
    BY <1>1, <2>1
  <2>3. ASSUME NEW k \in 1..(N + 1), NEW b \in DOMAIN t[k].events PROVE e < t[k].events[b]
    <3>1. CASE k = N + 1
      BY <1>2, <1>4, <2>2, <2>3, <3>1
    <3>2. CASE k \in 1..N
      BY <1>4, <2>3, <3>2 DEF BeforeQueue
    <3> QED BY <1>4, <3>1, <3>2
  <2> QED BY <1>4, <2>1, <2>3 DEF BeforeQueue
<1>7. QueueRises(items, top + n) /\ QueueRises(t, top + n)
  <2>1. \A k \in 1..N : /\ items[k].events # <<>> /\ Rising(items[k].events)
                        /\ \A a \in DOMAIN items[k].events : items[k].events[a] <= top
                                                             /\ items[k].events[a] <= top + n
    <3> TAKE k \in 1..N
    <3>1. items[k].events # <<>> /\ Rising(items[k].events)
          /\ \A a \in DOMAIN items[k].events : items[k].events[a] <= top
      BY <1>4 DEF Orderly, QueueRises
    <3>2. \A a \in DOMAIN items[k].events : items[k].events[a] \in Nat
      BY <1>5
    <3>3. \A a \in DOMAIN items[k].events : items[k].events[a] <= top + n
      BY <3>1, <3>2
    <3> QED BY <3>1, <3>3
  <2>2. \A k \in 1..(N + 1) : /\ t[k].events # <<>> /\ Rising(t[k].events)
                              /\ \A a \in DOMAIN t[k].events : t[k].events[a] <= top + n
    <3> TAKE k \in 1..(N + 1)
    <3>1. CASE k = N + 1
      BY <1>1, <1>2, <1>3, <1>4, <3>1
    <3>2. CASE k \in 1..N
      BY <1>4, <2>1, <3>2
    <3> QED BY <1>4, <3>1, <3>2
  <2>3. ASSUME NEW j \in 1..(N + 1), NEW k \in 1..(N + 1), j < k, NEW a \in DOMAIN t[j].events,
               NEW b \in DOMAIN t[k].events
        PROVE  t[j].events[a] < t[k].events[b]
    <3>1. j \in 1..N /\ t[j] = items[j]
      BY <1>4, <2>3
    <3>2. CASE k = N + 1
      <4>1. items[j].events[a] <= top /\ items[j].events[a] \in Nat
        BY <1>5, <2>1, <2>3, <3>1
      <4>2. t[k].events[b] = s[b] /\ b \in DOMAIN s
        BY <1>2, <1>4, <2>3, <3>2
      <4>3. s[b] \in Nat /\ top < s[b]
        BY <1>1, <1>3, <4>2
      <4> QED BY <3>1, <4>1, <4>2, <4>3
    <3>3. CASE k \in 1..N
      BY <1>4, <2>3, <3>1, <3>3 DEF Orderly, QueueRises
    <3> QED BY <1>4, <3>2, <3>3
  <2>4. QueueRises(items, top + n)
    BY <1>4, <2>1 DEF Orderly, QueueRises
  <2> QED BY <1>4, <2>2, <2>3, <2>4 DEF QueueRises
<1>8. ThreadFirst(w, items, top + n) /\ ThreadFirst(w, t, top + n)
  <2> SUFFICES ASSUME w.pc = "sending"
               PROVE  ThreadFirst(w, items, top + n) /\ ThreadFirst(w, t, top + n)
    BY DEF ThreadFirst
  <2>1. /\ w.rest # <<>> /\ Rising(w.rest)
        /\ \A a \in DOMAIN w.rest : BeforeQueue(w.rest[a], items, top)
    BY DEF Orderly, ThreadFirst
  <2>2. \A a \in DOMAIN w.rest : w.rest[a] \in Nat
    <3>1. w.rest \in Seq(Nat)
      BY DEF Sending
    <3> QED BY <3>1
  <2> QED BY <1>6, <2>1, <2>2 DEF ThreadFirst
<1>9. SentFirst(log, w, items, top + n) /\ SentFirst(log, w, t, top + n)
  <2>1. \A i \in DOMAIN log : log[i].event \in Nat
    <3>1. \A i \in DOMAIN log : log[i] \in Receipt
      OBVIOUS
    <3> QED BY <3>1 DEF Receipt
  <2>2. \A i \in DOMAIN log : BeforeQueue(log[i].event, items, top + n) /\ BeforeQueue(log[i].event, t, top + n)
    BY <1>6, <2>1 DEF Orderly, SentFirst
  <2> QED BY <2>2 DEF Orderly, SentFirst
<1> QED BY <1>2, <1>7, <1>8, <1>9 DEF Orderly, x, s, t

-----------------------------------------------------------------------------
(* What PostHog got, and what counts as forwarded. *)

Got(log, p) == {x.event : x \in {y \in ToSet(log) : y.project = p}}
Hand(w, p) == IF w.pc = "sending" /\ w.project = p THEN {w.rest[k] : k \in DOMAIN w.rest} ELSE {}
\* What was received and is not in the thread's hands any more.
Settled(log, w, p) == Got(log, p) \ Hand(w, p)

\* The received events of a project are finitely many.
LEMMA GotFinite ==
    ASSUME NEW log \in Seq(Receipt), NEW p
    PROVE  /\ IsFiniteSet(Got(log, p))
           /\ \A e : e \in Got(log, p) <=> \E i \in DOMAIN log : log[i].project = p /\ log[i].event = e
<1>1. \A e : e \in Got(log, p) <=> \E i \in DOMAIN log : log[i].project = p /\ log[i].event = e
  BY DEF Got, ToSet
<1> DEFINE D == {i \in DOMAIN log : log[i].project = p}
<1>2. IsFiniteSet(D)
  <2>1. IsFiniteSet(1..Len(log)) /\ D \subseteq 1..Len(log)
    <3>1. Len(log) \in Int /\ 1 \in Int
      OBVIOUS
    <3> QED BY <3>1, FS_Interval
  <2> QED BY <2>1, FS_Subset
<1> DEFINE f == [i \in D |-> log[i].event]
<1>3. f \in [D -> Got(log, p)] /\ \A e \in Got(log, p) : \E i \in D : f[i] = e
  BY <1>1
<1> HIDE DEF D, f
<1>4. f \in Surjection(D, Got(log, p))
  BY <1>3 DEF Surjection
<1> QED BY <1>1, <1>2, <1>4, FS_Surjection

-----------------------------------------------------------------------------
(* The forwarder: counts.                                                   *)

\* More received, and less in hand, settles no less.
LEMMA MoreSettled ==
    ASSUME NEW log \in Seq(Receipt), NEW t \in Seq(Receipt), NEW w, NEW v, NEW p,
           Got(log, p) \subseteq Got(t, p), Hand(v, p) \subseteq Hand(w, p)
    PROVE  /\ IsFiniteSet(Settled(log, w, p)) /\ IsFiniteSet(Settled(t, v, p))
           /\ Settled(log, w, p) \subseteq Settled(t, v, p)
           /\ Cardinality(Settled(log, w, p)) \in Nat /\ Cardinality(Settled(t, v, p)) \in Nat
           /\ Cardinality(Settled(log, w, p)) <= Cardinality(Settled(t, v, p))
<1>1. Settled(log, w, p) \subseteq Settled(t, v, p)
  BY DEF Settled
<1>2. IsFiniteSet(Settled(log, w, p)) /\ IsFiniteSet(Settled(t, v, p))
  <2>1. IsFiniteSet(Got(log, p)) /\ IsFiniteSet(Got(t, p))
    BY GotFinite
  <2> QED BY <2>1, FS_Subset DEF Settled
<1> QED BY <1>1, <1>2, FS_Subset, FS_CardinalityType

\* What a batch adds to the received, and what its end takes out of the hands.
LEMMA BatchMoves ==
    ASSUME NEW log \in Seq(Receipt), NEW w \in Sending, w.rest # <<>>, NEW p
    PROVE  LET t == log \o Receipts(w) IN
           /\ t \in Seq(Receipt) /\ Got(log, p) \subseteq Got(t, p)
           /\ Hand(After(w), p) \subseteq Hand(w, p)
           /\ p = w.project => \A k \in 1..Len(ChunkOf(w)) : w.rest[k] \in Got(t, p) /\ w.rest[k] \in Hand(w, p)
<1> DEFINE t == log \o Receipts(w)
<1>1. PICK N \in Nat, m \in 1..Len(w.rest) :
        /\ N = Len(log) /\ m = Len(ChunkOf(w))
        /\ t \in Seq(Receipt) /\ Len(t) = N + m
        /\ \A i \in 1..N : t[i] = log[i]
        /\ \A k \in 1..m : t[N + k] = ReceiptOf(w, k)
        /\ \A i \in 1..(N + m) : i \in 1..N \/ \E k \in 1..m : i = N + k
  BY LogGrows
<1> HIDE DEF t
<1>2. w.pc = "sending" /\ Len(w.rest) \in Nat /\ DOMAIN w.rest = 1..Len(w.rest) /\ m \in Nat
      /\ DOMAIN t = 1..(N + m) /\ DOMAIN log = 1..N
  <2>1. w.pc = "sending" /\ w.rest \in Seq(Nat)
    BY DEF Sending
  <2>2. Len(w.rest) \in Nat /\ DOMAIN w.rest = 1..Len(w.rest)
    BY <2>1
  <2> QED BY <1>1, <2>1, <2>2
<1>3. Got(log, p) \subseteq Got(t, p)
  <2> SUFFICES ASSUME NEW i \in 1..N, log[i].project = p PROVE log[i].event \in Got(t, p)
    BY <1>2, GotFinite
  <2>1. i \in DOMAIN t /\ t[i] = log[i]
    BY <1>1, <1>2
  <2> QED BY <1>1, <2>1, GotFinite
<1>4. Hand(After(w), p) \subseteq Hand(w, p)
  <2>1. PICK q \in 1..Len(w.rest) :
             /\ Len(RestOf(w)) = Len(w.rest) - q /\ RestOf(w) \in Seq(Nat)
             /\ \A k \in 1..(Len(w.rest) - q) : RestOf(w)[k] = w.rest[q + k] /\ q + k \in DOMAIN w.rest
             /\ \/ RestOf(w) = <<>> /\ After(w) = Waiting
                \/ /\ After(w) = [pc |-> "sending", project |-> w.project, rest |-> RestOf(w),
                                  host |-> w.host, attempt |-> 1]
    BY RestForm
  <2>2. CASE After(w) = Waiting
    BY <2>2 DEF Hand, Waiting
  <2>3. CASE After(w) = [pc |-> "sending", project |-> w.project, rest |-> RestOf(w),
                         host |-> w.host, attempt |-> 1]
    <3>1. After(w).rest = RestOf(w) /\ After(w).project = w.project
      BY <2>3
    <3>2. \A k \in DOMAIN RestOf(w) : RestOf(w)[k] \in {w.rest[i] : i \in DOMAIN w.rest}
      <4>1. DOMAIN RestOf(w) = 1..(Len(w.rest) - q)
        BY <2>1
      <4> QED BY <2>1, <4>1
    <3> QED BY <1>2, <3>1, <3>2 DEF Hand
  <2> QED BY <2>1, <2>2, <2>3
<1>5. ASSUME p = w.project, NEW k \in 1..m PROVE w.rest[k] \in Got(t, p) /\ w.rest[k] \in Hand(w, p)
  <2>1. N + k \in DOMAIN t /\ k \in DOMAIN w.rest
    BY <1>1, <1>2
  <2>2. t[N + k].project = p /\ t[N + k].event = w.rest[k]
    <3>1. t[N + k] = ReceiptOf(w, k)
      BY <1>1
    <3> QED BY <1>5, <3>1 DEF ReceiptOf
  <2>3. w.rest[k] \in Got(t, p)
    BY <1>1, <2>1, <2>2, GotFinite
  <2> QED BY <1>2, <1>5, <2>1, <2>3 DEF Hand
<1> QED BY <1>1, <1>3, <1>4, <1>5 DEF t

\* A received batch that is over settles as many events as it has.
LEMMA BatchSettles ==
    ASSUME NEW log \in Seq(Receipt), NEW w \in Sending, w.rest # <<>>, Rising(w.rest), NEW p, p = w.project
    PROVE  /\ Cardinality(Settled(log, w, p)) \in Nat /\ Len(ChunkOf(w)) \in Nat
           /\ Cardinality(Settled(log \o Receipts(w), After(w), p)) \in Nat
           /\ Cardinality(Settled(log, w, p)) + Len(ChunkOf(w))
                <= Cardinality(Settled(log \o Receipts(w), After(w), p))
<1> DEFINE t == log \o Receipts(w)
           m == Len(ChunkOf(w))
           C == {w.rest[k] : k \in 1..m}
           A == Settled(log, w, p)
           B == Settled(t, After(w), p)
<1>1. /\ t \in Seq(Receipt) /\ Got(log, p) \subseteq Got(t, p)
      /\ Hand(After(w), p) \subseteq Hand(w, p)
      /\ \A k \in 1..m : w.rest[k] \in Got(t, p) /\ w.rest[k] \in Hand(w, p)
  BY BatchMoves
<1>2. IsFiniteSet(A) /\ IsFiniteSet(B) /\ A \subseteq B /\ Cardinality(A) \in Nat /\ Cardinality(B) \in Nat
  BY <1>1, MoreSettled
<1>3. /\ m \in 1..Len(w.rest) /\ w.rest \in Seq(Nat) /\ w.pc = "sending"
      /\ m \in Nat /\ Len(w.rest) \in Nat /\ DOMAIN w.rest = 1..Len(w.rest)
  <2>1. m \in 1..Len(w.rest)
    BY ChunkForm
  <2>2. w.rest \in Seq(Nat) /\ w.pc = "sending"
    BY DEF Sending
  <2>3. Len(w.rest) \in Nat /\ DOMAIN w.rest = 1..Len(w.rest)
    BY <2>2
  <2> HIDE DEF m
  <2> QED BY <2>1, <2>2, <2>3
<1> HIDE DEF t, m
<1>4. \A i, j \in DOMAIN w.rest : i < j => w.rest[i] < w.rest[j] /\ w.rest[i] \in Nat /\ w.rest[j] \in Nat
  BY <1>3 DEF Rising
<1>5. IsFiniteSet(C) /\ Cardinality(C) = m
  <2> DEFINE f == [k \in 1..m |-> w.rest[k]]
  <2>1. f \in Surjection(1..m, C) /\ f \in [1..m -> C]
    BY DEF Surjection
  <2>2. \A i, j \in 1..m : f[i] = f[j] => i = j
    <3> SUFFICES ASSUME NEW i \in 1..m, NEW j \in 1..m, i # j PROVE f[i] # f[j]
      OBVIOUS
    <3>1. i \in DOMAIN w.rest /\ j \in DOMAIN w.rest /\ (i < j \/ j < i)
      BY <1>3
    <3>2. \A x, y \in Nat : x < y => x # y
      OBVIOUS
    <3> QED BY <1>4, <3>1, <3>2
  <2>3. IsFiniteSet(1..m) /\ Cardinality(1..m) = m
    <3>1. m \in Int /\ 1 \in Int
      BY <1>3
    <3> QED BY <1>3, <3>1, FS_Interval
  <2> HIDE DEF f, C
  <2>4. f \in Injection(1..m, C)
    BY <2>1, <2>2 DEF Injection, IsInjective
  <2> QED BY <2>1, <2>3, <2>4, FS_Surjection
<1>6. A \cap C = {}
  BY <1>1 DEF Settled
<1>7. C \subseteq B
  <2> SUFFICES ASSUME NEW k \in 1..m, w.rest[k] \in Hand(After(w), p) PROVE FALSE
    BY <1>1 DEF Settled
  <2>1. PICK q \in 1..Len(w.rest) :
             /\ q = m /\ Len(RestOf(w)) = Len(w.rest) - q /\ RestOf(w) \in Seq(Nat)
             /\ \A i \in 1..(Len(w.rest) - q) : RestOf(w)[i] = w.rest[q + i] /\ q + i \in DOMAIN w.rest
             /\ \/ RestOf(w) = <<>> /\ After(w) = Waiting
                \/ /\ After(w) = [pc |-> "sending", project |-> w.project, rest |-> RestOf(w),
                                  host |-> w.host, attempt |-> 1]
    BY RestForm DEF m
  <2>2. After(w) # Waiting
    BY DEF Hand, Waiting
  <2>3. After(w).rest = RestOf(w)
    BY <2>1, <2>2
  <2>4. PICK i \in 1..(Len(w.rest) - m) : w.rest[k] = w.rest[m + i] /\ m + i \in DOMAIN w.rest
    <3>1. DOMAIN RestOf(w) = 1..(Len(w.rest) - m)
      BY <2>1
    <3> QED BY <2>1, <2>3, <3>1 DEF Hand
  <2>5. k < m + i /\ k \in DOMAIN w.rest
    BY <1>3
  <2>6. \A x, y \in Nat : x < y => x # y
    OBVIOUS
  <2> QED BY <1>4, <2>4, <2>5, <2>6
<1> HIDE DEF A, B, C
<1>8. IsFiniteSet(A \cup C) /\ Cardinality(A \cup C) = Cardinality(A) + m
  <2>1. Cardinality(A \cap C) = 0
    BY <1>6, FS_EmptySet
  <2>2. IsFiniteSet(A \cup C) /\ Cardinality(A \cup C) = Cardinality(A) + Cardinality(C) - Cardinality(A \cap C)
    BY <1>2, <1>5, FS_Union
  <2> QED BY <1>2, <1>3, <1>5, <2>1, <2>2
<1>9. Cardinality(A \cup C) <= Cardinality(B)
  <2>1. A \cup C \subseteq B
    BY <1>2, <1>7
  <2> QED BY <1>2, <2>1, FS_Subset
<1> QED BY <1>2, <1>3, <1>8, <1>9 DEF A, B, m, t

\* A number of each item of the queue.
Mapped(items, g) == [k \in DOMAIN items |-> g[items[k]]]
AllLengths == [x \in Item |-> Len(x.events)]
LengthsOf(p) == [x \in Item |-> IF x.project = p THEN Len(x.events) ELSE 0]

\* Sums over the queue when an item enters, and when the first one leaves.
LEMMA QueueSums ==
    ASSUME NEW items \in Seq(Item), NEW g \in [Item -> Nat]
    PROVE  /\ SumFunction(Mapped(items, g)) \in Nat
           /\ \A x \in Item : SumFunction(Mapped(Append(items, x), g)) = SumFunction(Mapped(items, g)) + g[x]
           /\ items # <<>> =>
                /\ SumFunction(Mapped(Tail(items), g)) \in Nat
                /\ SumFunction(Mapped(items, g)) = g[Head(items)] + SumFunction(Mapped(Tail(items), g))
<1> DEFINE n == Len(items)
           M(s) == Mapped(s, g)
<1>1. ASSUME NEW s \in Seq(Item)
      PROVE  M(s) \in Seq(Nat) /\ Len(M(s)) = Len(s) /\ \A k \in 1..Len(s) : M(s)[k] = g[s[k]]
  <2>1. Len(s) \in Nat /\ DOMAIN s = 1..Len(s) /\ \A k \in 1..Len(s) : s[k] \in Item
    OBVIOUS
  <2>2. \A k \in 1..Len(s) : g[s[k]] \in Nat
    BY <2>1
  <2> QED BY <2>1, <2>2 DEF Mapped
<1> HIDE DEF M
<1>2. SumFunction(M(items)) \in Nat
  <2>1. 0 \in Nat /\ M(items) \in Seq(Nat)
    BY <1>1
  <2> QED BY <2>1, SumAppends
<1>3. ASSUME NEW x \in Item PROVE SumFunction(M(Append(items, x))) = SumFunction(M(items)) + g[x]
  <2> DEFINE t == Append(items, x)
  <2>1. t \in Seq(Item) /\ Len(t) = n + 1 /\ n \in Nat /\ t[n + 1] = x /\ \A k \in 1..n : t[k] = items[k]
    OBVIOUS
  <2>2. g[x] \in Nat /\ M(items) \in Seq(Nat) /\ Len(M(items)) = n /\ \A k \in 1..n : M(items)[k] = g[items[k]]
    BY <1>1
  <2> HIDE DEF t, n
  <2>3. M(t) \in Seq(Nat) /\ Len(M(t)) = n + 1 /\ \A k \in 1..(n + 1) : M(t)[k] = g[t[k]]
    BY <1>1, <2>1
  <2> DEFINE u == Append(M(items), g[x])
  <2>4. u \in Seq(Nat) /\ Len(u) = n + 1 /\ u[n + 1] = g[x] /\ \A k \in 1..n : u[k] = M(items)[k]
    BY <2>1, <2>2
  <2> HIDE DEF u
  <2>5. \A k \in 1..(n + 1) : M(t)[k] = u[k]
    <3> TAKE k \in 1..(n + 1)
    <3>1. CASE k = n + 1
      <4>1. M(t)[k] = g[t[k]] /\ t[k] = x /\ u[k] = g[x]
        BY <2>1, <2>3, <2>4, <3>1
      <4> QED BY <4>1
    <3>2. CASE k \in 1..n
      <4>1. M(t)[k] = g[t[k]] /\ t[k] = items[k] /\ u[k] = M(items)[k] /\ M(items)[k] = g[items[k]]
        BY <2>1, <2>2, <2>3, <2>4, <3>2
      <4> QED BY <4>1
    <3> QED BY <2>1, <3>1, <3>2
  <2>6. M(t) = u
    BY <2>3, <2>4, <2>5, SeqEqual
  <2>7. SumFunction(u) = SumFunction(M(items)) + g[x]
    BY <2>2, SumAppends DEF u
  <2> QED BY <2>6, <2>7 DEF t
<1>4. ASSUME items # <<>>
      PROVE  /\ SumFunction(M(Tail(items))) \in Nat
             /\ SumFunction(M(items)) = g[Head(items)] + SumFunction(M(Tail(items)))
  <2> DEFINE t == Tail(items)
  <2>1. t \in Seq(Item) /\ Len(t) = n - 1 /\ \A k \in 1..Len(t) : t[k] = items[k + 1]
    BY <1>4, HeadTailProperties
  <2>2. n \in Nat /\ n # 0 /\ Head(items) = items[1] /\ 1 \in 1..n
    BY <1>4
  <2>3. M(items) \in Seq(Nat) /\ Len(M(items)) = n /\ \A k \in 1..n : M(items)[k] = g[items[k]]
    BY <1>1
  <2> HIDE DEF t, n
  <2>4. M(t) \in Seq(Nat) /\ Len(M(t)) = n - 1 /\ \A k \in 1..(n - 1) : M(t)[k] = g[t[k]]
    BY <1>1, <2>1
  <2> DEFINE v == M(items)
  <2>5. v # <<>> /\ v \in Seq(Nat) /\ Len(v) = n /\ Head(v) = g[Head(items)]
    BY <2>2, <2>3
  <2>6. \A k \in 1..n : v[k] = g[items[k]]
    BY <2>3
  <2> HIDE DEF v
  <2>7. Tail(v) \in Seq(Nat) /\ Len(Tail(v)) = n - 1 /\ \A k \in 1..Len(Tail(v)) : Tail(v)[k] = v[k + 1]
    BY <2>5, HeadTailProperties
  <2>8. \A k \in 1..(n - 1) : Tail(v)[k] = M(t)[k]
    <3> TAKE k \in 1..(n - 1)
    <3>1. k + 1 \in 1..n /\ k \in 1..Len(t) /\ k \in 1..Len(Tail(v))
      BY <2>1, <2>2, <2>7
    <3> QED BY <2>1, <2>4, <2>6, <2>7, <3>1
  <2>9. Tail(v) = M(t)
    BY <2>4, <2>7, <2>8, SeqEqual
  <2>10. SumFunction(Tail(v)) \in Nat /\ SumFunction(v) = Head(v) + SumFunction(Tail(v))
    BY <2>5, SumTails
  <2> QED BY <2>5, <2>9, <2>10 DEF t, v
<1> QED BY <1>2, <1>3, <1>4 DEF M

\* The numbers of an item.
LEMMA LengthsTyped ==
    /\ AllLengths \in [Item -> Nat]
    /\ \A p : LengthsOf(p) \in [Item -> Nat]
<1>1. \A x \in Item : Len(x.events) \in Nat
  <2> TAKE x \in Item
  <2>1. x.events \in Seq(Nat)
    BY DEF Item
  <2> QED BY <2>1
<1> QED BY <1>1 DEF AllLengths, LengthsOf

\* The queue's totals, before a step and after it.
LEMMA QueueTotals ==
    ASSUME NEW items \in Seq(Item)
    PROVE  /\ QueuedEvents(items) = SumFunction(Mapped(items, AllLengths))
           /\ fqueue.items = items => \A p : InQueue(p) = SumFunction(Mapped(items, LengthsOf(p)))
           /\ fqueue'.items = items => \A p : InQueue(p)' = SumFunction(Mapped(items, LengthsOf(p)))
<1>1. \A k \in DOMAIN items : items[k] \in Item
  OBVIOUS
<1>2. Mapped(items, AllLengths) = [k \in DOMAIN items |-> Len(items[k].events)]
  BY <1>1 DEF Mapped, AllLengths
<1>3. ASSUME NEW p
      PROVE  Mapped(items, LengthsOf(p)) =
               [k \in DOMAIN items |-> IF items[k].project = p THEN Len(items[k].events) ELSE 0]
  BY <1>1 DEF Mapped, LengthsOf
<1>4. QueuedEvents(items) = SumFunction(Mapped(items, AllLengths))
  BY <1>2 DEF QueuedEvents
<1>5. ASSUME fqueue.items = items, NEW p PROVE InQueue(p) = SumFunction(Mapped(items, LengthsOf(p)))
  <2>1. InQueue(p) = SumFunction([k \in DOMAIN items |-> IF items[k].project = p THEN Len(items[k].events) ELSE 0])
    BY <1>5 DEF InQueue
  <2> QED BY <1>3, <2>1
<1>6. ASSUME fqueue'.items = items, NEW p PROVE InQueue(p)' = SumFunction(Mapped(items, LengthsOf(p)))
  <2>1. InQueue(p)' = SumFunction([k \in DOMAIN items |-> IF items[k].project = p THEN Len(items[k].events) ELSE 0])
    BY <1>6 DEF InQueue
  <2> QED BY <1>3, <2>1
<1> QED BY <1>4, <1>5, <1>6

FwdTypes ==
    /\ fconfig \in [FwdProjects -> FwdHosts \cup {Off}]
    /\ fqueue \in [items : Seq(Item), stopped : BOOLEAN]
    /\ fwork \in Sending \/ fwork = Waiting \/ fwork = [pc |-> "ended"]
    /\ fcount \in [FwdProjects -> Counts]
    /\ fposthog \in Seq(Receipt)

CountsAgree ==
    \A p \in FwdProjects :
        fcount[p].offered = fcount[p].forwarded + fcount[p].failed + fcount[p].dropped
                            + fcount[p].skipped + InQueue(p) + InThread(p)

\* What counts as forwarded was received and has left the thread's hands.
ForwardedSettled ==
    \A p \in FwdProjects : fcount[p].forwarded <= Cardinality(Settled(fposthog, fwork, p))

FwdInv ==
    /\ FwdTypes /\ Orderly(fposthog, fwork, fqueue.items, Offered)
    /\ CountsAgree /\ ForwardedSettled /\ QueuedEvents(fqueue.items) <= QueueEvents

\* One count of a project grows.
LEMMA Counted ==
    ASSUME fcount \in [FwdProjects -> Counts], NEW p \in FwdProjects, NEW n \in Nat,
           NEW what \in {"forwarded", "failed", "skipped"}, Count(p, what, n)
    PROVE  /\ fcount' \in [FwdProjects -> Counts]
           /\ \A q \in FwdProjects : q # p => fcount'[q] = fcount[q]
           /\ fcount'[p].offered = fcount[p].offered /\ fcount'[p].dropped = fcount[p].dropped
           /\ fcount'[p].forwarded = fcount[p].forwarded + (IF what = "forwarded" THEN n ELSE 0)
           /\ fcount'[p].failed = fcount[p].failed + (IF what = "failed" THEN n ELSE 0)
           /\ fcount'[p].skipped = fcount[p].skipped + (IF what = "skipped" THEN n ELSE 0)
<1> DEFINE c == fcount[p]
           d == [c EXCEPT ![what] = c[what] + n]
<1>1. c = [offered |-> c.offered, forwarded |-> c.forwarded, dropped |-> c.dropped, failed |-> c.failed,
           skipped |-> c.skipped] /\ c.offered \in Nat /\ c.forwarded \in Nat /\ c.dropped \in Nat
      /\ c.failed \in Nat /\ c.skipped \in Nat /\ c \in Counts
  BY DEF Counts
<1>2. fcount' = [fcount EXCEPT ![p] = d]
  BY DEF Count
<1> HIDE DEF c
<1>3. CASE what = "forwarded"
  <2>1. d = [offered |-> c.offered, forwarded |-> c.forwarded + n, dropped |-> c.dropped,
             failed |-> c.failed, skipped |-> c.skipped]
    <3>1. d = [c EXCEPT !.forwarded = c.forwarded + n]
      BY <1>3, Zenon
    <3> HIDE DEF d
    <3> QED BY <1>1, <3>1
  <2>2. d \in Counts
    BY <1>1, <2>1 DEF Counts
  <2> HIDE DEF d
  <2>3. fcount'[p] = d /\ \A q \in FwdProjects : q # p => fcount'[q] = fcount[q]
    BY <1>2
  <2>4. fcount' \in [FwdProjects -> Counts]
    BY <1>2, <2>2
  <2>5. fcount'[p].offered = c.offered /\ fcount'[p].dropped = c.dropped /\ fcount'[p].forwarded = d.forwarded
        /\ fcount'[p].failed = d.failed /\ fcount'[p].skipped = d.skipped
    BY <2>1, <2>3
  <2>6. /\ d.forwarded = c.forwarded + (IF what = "forwarded" THEN n ELSE 0)
        /\ d.failed = c.failed + (IF what = "failed" THEN n ELSE 0)
        /\ d.skipped = c.skipped + (IF what = "skipped" THEN n ELSE 0)
    BY <1>1, <1>3, <2>1
  <2> QED BY <2>3, <2>4, <2>5, <2>6 DEF c
<1>4. CASE what = "failed"
  <2>1. d = [offered |-> c.offered, forwarded |-> c.forwarded, dropped |-> c.dropped,
             failed |-> c.failed + n, skipped |-> c.skipped]
    <3>1. d = [c EXCEPT !.failed = c.failed + n]
      BY <1>4, Zenon
    <3> HIDE DEF d
    <3> QED BY <1>1, <3>1
  <2>2. d \in Counts
    BY <1>1, <2>1 DEF Counts
  <2> HIDE DEF d
  <2>3. fcount'[p] = d /\ \A q \in FwdProjects : q # p => fcount'[q] = fcount[q]
    BY <1>2
  <2>4. fcount' \in [FwdProjects -> Counts]
    BY <1>2, <2>2
  <2>5. fcount'[p].offered = c.offered /\ fcount'[p].dropped = c.dropped /\ fcount'[p].forwarded = d.forwarded
        /\ fcount'[p].failed = d.failed /\ fcount'[p].skipped = d.skipped
    BY <2>1, <2>3
  <2>6. /\ d.forwarded = c.forwarded + (IF what = "forwarded" THEN n ELSE 0)
        /\ d.failed = c.failed + (IF what = "failed" THEN n ELSE 0)
        /\ d.skipped = c.skipped + (IF what = "skipped" THEN n ELSE 0)
    BY <1>1, <1>4, <2>1
  <2> QED BY <2>3, <2>4, <2>5, <2>6 DEF c
<1>5. CASE what = "skipped"
  <2>1. d = [offered |-> c.offered, forwarded |-> c.forwarded, dropped |-> c.dropped,
             failed |-> c.failed, skipped |-> c.skipped + n]
    <3>1. d = [c EXCEPT !.skipped = c.skipped + n]
      BY <1>5, Zenon
    <3> HIDE DEF d
    <3> QED BY <1>1, <3>1
  <2>2. d \in Counts
    BY <1>1, <2>1 DEF Counts
  <2> HIDE DEF d
  <2>3. fcount'[p] = d /\ \A q \in FwdProjects : q # p => fcount'[q] = fcount[q]
    BY <1>2
  <2>4. fcount' \in [FwdProjects -> Counts]
    BY <1>2, <2>2
  <2>5. fcount'[p].offered = c.offered /\ fcount'[p].dropped = c.dropped /\ fcount'[p].forwarded = d.forwarded
        /\ fcount'[p].failed = d.failed /\ fcount'[p].skipped = d.skipped
    BY <2>1, <2>3
  <2>6. /\ d.forwarded = c.forwarded + (IF what = "forwarded" THEN n ELSE 0)
        /\ d.failed = c.failed + (IF what = "failed" THEN n ELSE 0)
        /\ d.skipped = c.skipped + (IF what = "skipped" THEN n ELSE 0)
    BY <1>1, <1>5, <2>1
  <2> QED BY <2>3, <2>4, <2>5, <2>6 DEF c
<1> QED BY <1>3, <1>4, <1>5

\* The number of events ever offered.
LEMMA OfferedTyped == ASSUME fcount \in [FwdProjects -> Counts] PROVE Offered \in Nat
<1> DEFINE f == [p \in FwdProjects |-> fcount[p].offered]
<1>1. f \in [FwdProjects -> Nat]
  BY DEF Counts
<1>2. Offered = SumFunction(f)
  BY DEF Offered
<1> HIDE DEF f
<1>3. IsFiniteSet(FwdProjects)
  BY FwdAssumption
<1>4. PICK h : SumsOver(h, f, FwdProjects) /\ SumFunction(f) = h[FwdProjects]
  BY <1>1, <1>3, FunctionSumSteps
<1>5. FwdProjects \in SUBSET FwdProjects
  OBVIOUS
<1> QED BY <1>2, <1>4, <1>5 DEF SumsOver

\* Nothing is offered.
LEMMA OfferedStays ==
    ASSUME \A q \in FwdProjects : fcount'[q].offered = fcount[q].offered
    PROVE  Offered' = Offered
<1>1. [p \in FwdProjects |-> fcount[p].offered] = [p \in FwdProjects |-> fcount'[p].offered]
  OBVIOUS
<1>2. Offered' = SumFunction([p \in FwdProjects |-> fcount'[p].offered])
  BY DEF Offered
<1> QED BY <1>1, <1>2 DEF Offered

\* Events of one project are offered.
LEMMA OfferedGrows ==
    ASSUME fcount \in [FwdProjects -> Counts], fcount' \in [FwdProjects -> Counts],
           NEW p \in FwdProjects, NEW n \in Nat, fcount'[p].offered = fcount[p].offered + n,
           \A q \in FwdProjects : q # p => fcount'[q] = fcount[q]
    PROVE  Offered' = Offered + n
<1> DEFINE f == [q \in FwdProjects |-> fcount[q].offered]
           g == [q \in FwdProjects |-> fcount'[q].offered]
<1>1. f \in [FwdProjects -> Nat] /\ g \in [FwdProjects -> Nat]
  BY DEF Counts
<1>2. Offered = SumFunction(f) /\ Offered' = SumFunction(g)
  BY DEF Offered
<1>3. g[p] = f[p] + n /\ \A q \in FwdProjects : q # p => g[q] = f[q]
  OBVIOUS
<1> HIDE DEF f, g
<1>4. IsFiniteSet(FwdProjects)
  BY FwdAssumption
<1>5. SumFunction(f) \in Nat /\ SumFunction(g) \in Nat /\ SumFunction(g) + f[p] = SumFunction(f) + g[p]
  BY <1>1, <1>3, <1>4, SumChanges
<1>6. f[p] \in Nat /\ g[p] \in Nat
  BY <1>1
<1> QED BY <1>2, <1>3, <1>5, <1>6

\* Counting what is offered.
LEMMA OfferCounts ==
    ASSUME fcount \in [FwdProjects -> Counts], NEW p \in FwdProjects, NEW n \in Nat, offer(p, n)
    PROVE  LET full == QueuedEvents(fqueue.items) + n > QueueEvents
               enabled == fconfig[p] # Off IN
           /\ fcount' \in [FwdProjects -> Counts]
           /\ \A q \in FwdProjects : q # p => fcount'[q] = fcount[q]
           /\ fcount'[p].offered = fcount[p].offered + n
           /\ fcount'[p].dropped = fcount[p].dropped + (IF enabled /\ full THEN n ELSE 0)
           /\ fcount'[p].skipped = fcount[p].skipped + (IF enabled THEN 0 ELSE n)
           /\ fcount'[p].forwarded = fcount[p].forwarded /\ fcount'[p].failed = fcount[p].failed
<1> DEFINE full == QueuedEvents(fqueue.items) + n > QueueEvents
           enabled == fconfig[p] # Off
<1>a. fcount' = [fcount EXCEPT ![p].offered = @ + n,
                               ![p].dropped = IF enabled /\ full THEN @ + n ELSE @,
                               ![p].skipped = IF enabled THEN @ ELSE @ + n]
  BY DEF offer
<1>b. enabled \in BOOLEAN /\ full \in BOOLEAN
  OBVIOUS
<1> HIDE DEF enabled, full
<1> DEFINE f1 == [fcount EXCEPT ![p].offered = @ + n]
           f2 == [f1 EXCEPT ![p].dropped = IF enabled /\ full THEN @ + n ELSE @]
           f3 == [f2 EXCEPT ![p].skipped = IF enabled THEN @ ELSE @ + n]
<1>1. fcount' = f3
  BY <1>a, Zenon
<1> DEFINE c == fcount[p]
<1>2. c = [offered |-> c.offered, forwarded |-> c.forwarded, dropped |-> c.dropped, failed |-> c.failed,
           skipped |-> c.skipped] /\ c.offered \in Nat /\ c.forwarded \in Nat /\ c.dropped \in Nat
      /\ c.failed \in Nat /\ c.skipped \in Nat
  BY DEF Counts
<1>3. DOMAIN fcount = FwdProjects /\ f1 = [fcount EXCEPT ![p] = [c EXCEPT !.offered = c.offered + n]]
  OBVIOUS
<1> HIDE DEF c, f1
<1>4. /\ f1 = [fcount EXCEPT ![p] = f1[p]]
      /\ f1[p] = [offered |-> c.offered + n, forwarded |-> c.forwarded, dropped |-> c.dropped,
                  failed |-> c.failed, skipped |-> c.skipped]
  BY <1>2, <1>3
<1> DEFINE a == c.dropped + (IF enabled /\ full THEN n ELSE 0)
           b == c.skipped + (IF enabled THEN 0 ELSE n)
<1>5. f2 = [f1 EXCEPT ![p] = [f1[p] EXCEPT !.dropped = a]]
  <2>1. DOMAIN f1 = FwdProjects /\ f1[p].dropped = c.dropped
    BY <1>3, <1>4
  <2>2. f2 = [f1 EXCEPT ![p].dropped = IF enabled /\ full THEN c.dropped + n ELSE c.dropped]
    BY <2>1
  <2>3. a = IF enabled /\ full THEN c.dropped + n ELSE c.dropped
    BY <1>b, <1>2
  <2> HIDE DEF a, f2
  <2>4. f2 = [f1 EXCEPT ![p].dropped = a]
    BY <2>2, <2>3
  <2> QED BY <2>4
<1> HIDE DEF f2
<1>6. f2[p] = [offered |-> c.offered + n, forwarded |-> c.forwarded, dropped |-> a,
               failed |-> c.failed, skipped |-> c.skipped]
  BY <1>3, <1>4, <1>5
<1>7. f3 = [f2 EXCEPT ![p] = [f2[p] EXCEPT !.skipped = b]]
  <2>1. DOMAIN f2 = FwdProjects /\ f2[p].skipped = c.skipped
    BY <1>3, <1>5, <1>6
  <2>2. f3 = [f2 EXCEPT ![p].skipped = IF enabled THEN c.skipped ELSE c.skipped + n]
    BY <2>1
  <2>3. b = IF enabled THEN c.skipped ELSE c.skipped + n
    BY <1>b, <1>2
  <2> HIDE DEF b, f3
  <2>4. f3 = [f2 EXCEPT ![p].skipped = b]
    BY <2>2, <2>3
  <2> QED BY <2>4
<1> HIDE DEF f3
<1>8. f3[p] = [offered |-> c.offered + n, forwarded |-> c.forwarded, dropped |-> a,
               failed |-> c.failed, skipped |-> b]
  BY <1>3, <1>4, <1>5, <1>6, <1>7
<1>9. DOMAIN f3 = FwdProjects /\ \A q \in FwdProjects : q # p => f3[q] = fcount[q]
  BY <1>3, <1>4, <1>5, <1>7
<1>10. a \in Nat /\ b \in Nat /\ c.offered + n \in Nat
  BY <1>2
<1>11. f3[p] \in Counts
  <2> HIDE DEF a, b
  <2> QED BY <1>2, <1>8, <1>10 DEF Counts
<1>12. f3 \in [FwdProjects -> Counts]
  <2>1. f3 = [q \in FwdProjects |-> f3[q]]
    BY <1>7, <1>9
  <2> QED BY <1>9, <1>11, <2>1
<1>13. /\ f3[p].offered = c.offered + n /\ f3[p].forwarded = c.forwarded /\ f3[p].failed = c.failed
       /\ f3[p].dropped = a /\ f3[p].skipped = b
  <2> HIDE DEF a, b
  <2> QED BY <1>8
<1> QED BY <1>1, <1>9, <1>12, <1>13 DEF c, enabled, full

\* An item enters the queue.
LEMMA ItemEnters ==
    ASSUME fqueue.items \in Seq(Item), NEW x \in Item, fqueue'.items = Append(fqueue.items, x)
    PROVE  /\ QueuedEvents(fqueue.items) \in Nat /\ Len(x.events) \in Nat
           /\ QueuedEvents(fqueue'.items) = QueuedEvents(fqueue.items) + Len(x.events)
           /\ \A q : InQueue(q) \in Nat
                     /\ InQueue(q)' = InQueue(q) + (IF x.project = q THEN Len(x.events) ELSE 0)
<1> DEFINE s == fqueue.items
           t == Append(s, x)
<1>1. s \in Seq(Item) /\ t \in Seq(Item) /\ fqueue'.items = t
  OBVIOUS
<1>2. QueuedEvents(s) = SumFunction(Mapped(s, AllLengths)) /\ QueuedEvents(t) = SumFunction(Mapped(t, AllLengths))
      /\ \A q : InQueue(q) = SumFunction(Mapped(s, LengthsOf(q)))
  BY <1>1, QueueTotals
<1>3. \A q : InQueue(q)' = SumFunction(Mapped(t, LengthsOf(q)))
  BY <1>1, QueueTotals
<1>4. AllLengths \in [Item -> Nat] /\ AllLengths[x] = Len(x.events) /\ Len(x.events) \in Nat
  BY LengthsTyped DEF AllLengths, Item
<1>5. SumFunction(Mapped(s, AllLengths)) \in Nat
      /\ SumFunction(Mapped(t, AllLengths)) = SumFunction(Mapped(s, AllLengths)) + AllLengths[x]
  BY <1>1, <1>4, QueueSums
<1>6. ASSUME NEW q
      PROVE  InQueue(q) \in Nat /\ InQueue(q)' = InQueue(q) + (IF x.project = q THEN Len(x.events) ELSE 0)
  <2>1. LengthsOf(q) \in [Item -> Nat]
    BY LengthsTyped
  <2>2. LengthsOf(q)[x] = IF x.project = q THEN Len(x.events) ELSE 0
    BY DEF LengthsOf
  <2>3. SumFunction(Mapped(s, LengthsOf(q))) \in Nat
        /\ SumFunction(Mapped(t, LengthsOf(q))) = SumFunction(Mapped(s, LengthsOf(q))) + LengthsOf(q)[x]
    BY <1>1, <2>1, QueueSums
  <2>4. InQueue(q) = SumFunction(Mapped(s, LengthsOf(q))) /\ InQueue(q)' = SumFunction(Mapped(t, LengthsOf(q)))
    BY <1>2, <1>3
  <2> HIDE DEF s, t
  <2> QED BY <2>2, <2>3, <2>4
<1>7. QueuedEvents(fqueue'.items) = QueuedEvents(t)
  BY <1>1
<1> HIDE DEF t
<1> QED BY <1>2, <1>4, <1>5, <1>6, <1>7

\* The first item leaves the queue.
LEMMA ItemLeaves ==
    ASSUME fqueue.items \in Seq(Item), fqueue.items # <<>>, fqueue'.items = Tail(fqueue.items)
    PROVE  LET x == Head(fqueue.items) IN
           /\ x \in Item /\ Len(x.events) \in Nat /\ QueuedEvents(fqueue'.items) \in Nat
           /\ QueuedEvents(fqueue.items) = Len(x.events) + QueuedEvents(fqueue'.items)
           /\ \A q : InQueue(q)' \in Nat
                     /\ InQueue(q) = (IF x.project = q THEN Len(x.events) ELSE 0) + InQueue(q)'
<1> DEFINE s == fqueue.items
           t == Tail(s)
           x == Head(s)
<1>1. s \in Seq(Item) /\ t \in Seq(Item) /\ fqueue'.items = t /\ x \in Item /\ s # <<>>
  BY HeadTailProperties
<1>2. QueuedEvents(s) = SumFunction(Mapped(s, AllLengths)) /\ QueuedEvents(t) = SumFunction(Mapped(t, AllLengths))
      /\ \A q : InQueue(q) = SumFunction(Mapped(s, LengthsOf(q)))
  BY <1>1, QueueTotals
<1>3. \A q : InQueue(q)' = SumFunction(Mapped(t, LengthsOf(q)))
  BY <1>1, QueueTotals
<1> HIDE DEF x
<1>4. AllLengths \in [Item -> Nat] /\ AllLengths[x] = Len(x.events) /\ Len(x.events) \in Nat
  BY <1>1, LengthsTyped DEF AllLengths, Item
<1>5. SumFunction(Mapped(t, AllLengths)) \in Nat
      /\ SumFunction(Mapped(s, AllLengths)) = AllLengths[x] + SumFunction(Mapped(t, AllLengths))
  BY <1>1, <1>4, QueueSums DEF x
<1>6. ASSUME NEW q
      PROVE  InQueue(q)' \in Nat /\ InQueue(q) = (IF x.project = q THEN Len(x.events) ELSE 0) + InQueue(q)'
  <2>1. LengthsOf(q) \in [Item -> Nat]
    BY LengthsTyped
  <2>2. LengthsOf(q)[x] = IF x.project = q THEN Len(x.events) ELSE 0
    BY <1>1 DEF LengthsOf
  <2>3. SumFunction(Mapped(t, LengthsOf(q))) \in Nat
        /\ SumFunction(Mapped(s, LengthsOf(q))) = LengthsOf(q)[x] + SumFunction(Mapped(t, LengthsOf(q)))
    BY <1>1, <2>1, QueueSums DEF x
  <2>4. InQueue(q) = SumFunction(Mapped(s, LengthsOf(q))) /\ InQueue(q)' = SumFunction(Mapped(t, LengthsOf(q)))
    BY <1>2, <1>3
  <2> HIDE DEF s, t
  <2> QED BY <2>2, <2>3, <2>4
<1>7. QueuedEvents(fqueue'.items) = QueuedEvents(t)
  BY <1>1
<1>8. QueuedEvents(fqueue'.items) \in Nat /\ QueuedEvents(s) = Len(x.events) + QueuedEvents(fqueue'.items)
  <2> HIDE DEF s, t
  <2> QED BY <1>2, <1>4, <1>5, <1>7
<1> QED BY <1>1, <1>4, <1>6, <1>8 DEF x

\* The queue stays as it is.
LEMMA ItemsStay ==
    ASSUME fqueue.items \in Seq(Item), fqueue'.items = fqueue.items
    PROVE  \A q : InQueue(q) \in Nat /\ InQueue(q)' = InQueue(q)
<1> DEFINE s == fqueue.items
<1>1. s \in Seq(Item) /\ fqueue'.items = s
  OBVIOUS
<1>2. (\A q : InQueue(q) = SumFunction(Mapped(s, LengthsOf(q))))
      /\ \A q : InQueue(q)' = SumFunction(Mapped(s, LengthsOf(q)))
  BY <1>1, QueueTotals
<1> HIDE DEF s
<1>3. ASSUME NEW q PROVE SumFunction(Mapped(s, LengthsOf(q))) \in Nat
  <2>1. LengthsOf(q) \in [Item -> Nat]
    BY LengthsTyped
  <2> QED BY <1>1, <2>1, QueueSums
<1> QED BY <1>2, <1>3

\* The thread has sent a batch for good.
LEMMA ThreadGoes ==
    ASSUME fwork \in Sending, fwork.rest # <<>>, fwork' = After(fwork)
    PROVE  /\ fwork' \in Sending \/ fwork' = Waiting
           /\ Len(ChunkOf(fwork)) \in Nat
           /\ \A q : /\ InThread(q) \in Nat /\ InThread(q)' \in Nat
                     /\ InThread(q) = InThread(q)' + (IF q = fwork.project THEN Len(ChunkOf(fwork)) ELSE 0)
<1>1. PICK m \in 1..Len(fwork.rest) :
        /\ m = Len(ChunkOf(fwork)) /\ RestOf(fwork) \in Seq(Nat) /\ Len(RestOf(fwork)) = Len(fwork.rest) - m
        /\ RestOf(fwork) = <<>> <=> m = Len(fwork.rest)
        /\ \/ RestOf(fwork) = <<>> /\ After(fwork) = Waiting
           \/ RestOf(fwork) # <<>> /\ After(fwork) \in Sending
              /\ After(fwork) = [pc |-> "sending", project |-> fwork.project, rest |-> RestOf(fwork),
                                 host |-> fwork.host, attempt |-> 1]
  BY RestForm
<1>2. fwork.pc = "sending" /\ Len(fwork.rest) \in Nat /\ m \in Nat /\ m <= Len(fwork.rest)
  BY DEF Sending
<1>3. ASSUME NEW q
      PROVE  /\ InThread(q) \in Nat /\ InThread(q)' \in Nat
             /\ InThread(q) = InThread(q)' + (IF q = fwork.project THEN m ELSE 0)
  <2>1. InThread(q) = IF q = fwork.project THEN Len(fwork.rest) ELSE 0
    BY <1>2 DEF InThread
  <2>2. CASE RestOf(fwork) = <<>>
    <3>1. fwork' = Waiting /\ m = Len(fwork.rest)
      BY <1>1, <2>2
    <3>2. InThread(q)' = 0
      BY <3>1 DEF InThread, Waiting
    <3> QED BY <1>2, <2>1, <3>1, <3>2
  <2>3. CASE RestOf(fwork) # <<>>
    <3>1. fwork' = [pc |-> "sending", project |-> fwork.project, rest |-> RestOf(fwork),
                    host |-> fwork.host, attempt |-> 1]
      BY <1>1, <2>3
    <3>2. InThread(q)' = IF q = fwork.project THEN Len(RestOf(fwork)) ELSE 0
      BY <3>1 DEF InThread
    <3> QED BY <1>1, <1>2, <2>1, <3>2
  <2> QED BY <2>2, <2>3
<1> QED BY <1>1, <1>2, <1>3

\* At the start nothing is queued, sent or counted.
LEMMA FwdStarts == FwdInit => FwdInv
<1> SUFFICES ASSUME FwdInit PROVE FwdInv
  OBVIOUS
<1>1. FwdTypes
  BY DEF FwdInit, FwdTypes, Counts, Waiting
<1>2. fposthog = <<>> /\ fwork = Waiting /\ fwork.pc # "sending" /\ fqueue.items = <<>>
  BY DEF FwdInit, Waiting
<1>3. Orderly(fposthog, fwork, fqueue.items, Offered)
  BY <1>2 DEF Orderly, QueueRises, ThreadFirst, SentFirst, ChunkWhole, InOrder
<1>4. QueuedEvents(fqueue.items) = 0
  <2>1. [k \in DOMAIN fqueue.items |-> Len(fqueue.items[k].events)] \in [{} -> Nat]
    BY <1>2
  <2> QED BY <2>1, SumOfNothing DEF QueuedEvents
<1>5. ASSUME NEW p \in FwdProjects PROVE InQueue(p) = 0 /\ InThread(p) = 0
  <2>1. [k \in DOMAIN fqueue.items |->
           IF fqueue.items[k].project = p THEN Len(fqueue.items[k].events) ELSE 0] \in [{} -> Nat]
    BY <1>2
  <2>2. InQueue(p) = 0
    BY <2>1, SumOfNothing DEF InQueue
  <2> QED BY <1>2, <2>2 DEF InThread
<1>6. \A p \in FwdProjects : fcount[p] = [offered |-> 0, forwarded |-> 0, dropped |-> 0, failed |-> 0, skipped |-> 0]
  BY DEF FwdInit
<1>7. CountsAgree
  <2> SUFFICES ASSUME NEW p \in FwdProjects
               PROVE  fcount[p].offered = fcount[p].forwarded + fcount[p].failed + fcount[p].dropped
                                          + fcount[p].skipped + InQueue(p) + InThread(p)
    BY DEF CountsAgree
  <2>1. fcount[p].offered = 0 /\ fcount[p].forwarded = 0 /\ fcount[p].failed = 0 /\ fcount[p].dropped = 0
        /\ fcount[p].skipped = 0
    BY <1>6
  <2> QED BY <1>5, <2>1
<1>8. ForwardedSettled
  <2> SUFFICES ASSUME NEW p \in FwdProjects
               PROVE  fcount[p].forwarded <= Cardinality(Settled(fposthog, fwork, p))
    BY DEF ForwardedSettled
  <2>1. fposthog \in Seq(Receipt)
    BY DEF FwdTypes, FwdInit
  <2>2. Cardinality(Settled(fposthog, fwork, p)) \in Nat
    BY <2>1, MoreSettled
  <2>3. fcount[p].forwarded = 0
    BY <1>6
  <2> QED BY <2>2, <2>3
<1>9. QueuedEvents(fqueue.items) <= QueueEvents
  BY <1>4, FwdAssumption
<1> QED BY <1>1, <1>3, <1>7, <1>8, <1>9 DEF FwdInv

\* The invariant of the state, piece by piece.
LEMMA FwdParts ==
    ASSUME FwdInv
    PROVE  /\ fqueue.items \in Seq(Item) /\ fqueue.stopped \in BOOLEAN
           /\ fqueue = [items |-> fqueue.items, stopped |-> fqueue.stopped]
           /\ fposthog \in Seq(Receipt) /\ fcount \in [FwdProjects -> Counts] /\ Offered \in Nat
           /\ fwork.pc = "sending" => fwork \in Sending
           /\ Orderly(fposthog, fwork, fqueue.items, Offered)
<1>1. fqueue \in [items : Seq(Item), stopped : BOOLEAN] /\ fcount \in [FwdProjects -> Counts]
      /\ (fwork \in Sending \/ fwork = Waiting \/ fwork = [pc |-> "ended"])
  BY DEF FwdInv, FwdTypes
<1>2. Offered \in Nat
  BY <1>1, OfferedTyped
<1>3. fwork.pc = "sending" => fwork \in Sending
  BY <1>1 DEF Waiting
<1> QED BY <1>1, <1>2, <1>3 DEF FwdInv, FwdTypes

\* What is in the thread's hands is a number of events.
LEMMA ThreadCounts == ASSUME FwdInv PROVE \A p : InThread(p) \in Nat
<1>1. ASSUME fwork.pc = "sending" PROVE Len(fwork.rest) \in Nat
  BY <1>1, FwdParts DEF Sending
<1> QED BY <1>1 DEF InThread

\* offer: the event is queued, dropped or left out, and counted in either case.
LEMMA OfferStep == ASSUME FwdInv, NEW p \in FwdProjects, NEW n \in 1..(BatchEvents + 1), offer(p, n) PROVE FwdInv'
<1> DEFINE full == QueuedEvents(fqueue.items) + n > QueueEvents
           enabled == fconfig[p] # Off
           top == Offered
           items == fqueue.items
           x == [project |-> p, events |-> [k \in 1..n |-> top + k]]
<1>1. n \in Nat /\ n # 0
  BY FwdAssumption
<1>2. /\ items \in Seq(Item) /\ fqueue.stopped \in BOOLEAN /\ top \in Nat /\ fcount \in [FwdProjects -> Counts]
      /\ fposthog \in Seq(Receipt) /\ (fwork.pc = "sending" => fwork \in Sending)
      /\ Orderly(fposthog, fwork, items, top)
      /\ fqueue = [items |-> items, stopped |-> fqueue.stopped]
  BY FwdParts
<1>3. /\ fqueue' = IF enabled /\ ~full THEN [fqueue EXCEPT !.items = Append(@, x)] ELSE fqueue
      /\ fcount' = [fcount EXCEPT ![p].offered = @ + n,
                                  ![p].dropped = IF enabled /\ full THEN @ + n ELSE @,
                                  ![p].skipped = IF enabled THEN @ ELSE @ + n]
      /\ fconfig' = fconfig /\ fwork' = fwork /\ fposthog' = fposthog
  BY DEF offer
<1>4. enabled \in BOOLEAN /\ full \in BOOLEAN
  OBVIOUS
<1>5. /\ fcount' \in [FwdProjects -> Counts]
      /\ \A q \in FwdProjects : q # p => fcount'[q] = fcount[q]
      /\ fcount'[p].offered = fcount[p].offered + n
      /\ fcount'[p].dropped = fcount[p].dropped + (IF enabled /\ full THEN n ELSE 0)
      /\ fcount'[p].skipped = fcount[p].skipped + (IF enabled THEN 0 ELSE n)
      /\ fcount'[p].forwarded = fcount[p].forwarded /\ fcount'[p].failed = fcount[p].failed
  BY <1>1, <1>2, OfferCounts
<1>6. Offered' = top + n
  BY <1>1, <1>2, <1>5, OfferedGrows
<1>7. Orderly(fposthog, fwork, items, top + n) /\ x \in Item /\ Orderly(fposthog, fwork, Append(items, x), top + n)
  <2> HIDE DEF items, top
  <2> QED BY <1>1, <1>2, OrderOffered
<1> HIDE DEF x
<1>8. Len(x.events) = n /\ x.project = p
  BY <1>1 DEF x
<1>9. QueuedEvents(items) <= QueueEvents /\ QueueEvents \in Nat
  BY FwdAssumption DEF FwdInv
<1>10. \A q \in FwdProjects :
         fcount[q].offered = fcount[q].forwarded + fcount[q].failed + fcount[q].dropped
                             + fcount[q].skipped + InQueue(q) + InThread(q)
  BY DEF FwdInv, CountsAgree
<1>11. \A q : InThread(q) \in Nat /\ InThread(q)' = InThread(q)
  BY <1>3, ThreadCounts DEF InThread
<1>12. fqueue' \in [items : Seq(Item), stopped : BOOLEAN] /\ QueuedEvents(fqueue'.items) <= QueueEvents
       /\ Orderly(fposthog, fwork, fqueue'.items, top + n)
       /\ \A q : InQueue(q) \in Nat
                 /\ InQueue(q)' = InQueue(q) + (IF q = p /\ enabled /\ ~full THEN n ELSE 0)
  <2>1. CASE enabled /\ ~full
    <3>1. fqueue' = [items |-> Append(items, x), stopped |-> fqueue.stopped]
      BY <1>2, <1>3, <2>1 DEF x
    <3>2. fqueue'.items = Append(items, x) /\ Append(items, x) \in Seq(Item)
      BY <1>2, <1>7, <3>1
    <3>3. /\ QueuedEvents(items) \in Nat
          /\ QueuedEvents(fqueue'.items) = QueuedEvents(items) + Len(x.events)
          /\ \A q : InQueue(q) \in Nat
                    /\ InQueue(q)' = InQueue(q) + (IF x.project = q THEN Len(x.events) ELSE 0)
      BY <1>2, <1>7, <3>2, ItemEnters
    <3>4. QueuedEvents(fqueue'.items) <= QueueEvents
      BY <1>1, <1>8, <1>9, <2>1, <3>3
    <3>5. \A q : InQueue(q) \in Nat /\ InQueue(q)' = InQueue(q) + (IF q = p /\ enabled /\ ~full THEN n ELSE 0)
      BY <1>8, <2>1, <3>3
    <3>6. fqueue' \in [items : Seq(Item), stopped : BOOLEAN]
      BY <1>2, <3>1, <3>2
    <3> QED BY <1>7, <3>2, <3>4, <3>5, <3>6
  <2>2. CASE ~(enabled /\ ~full)
    <3>1. fqueue' = fqueue
      BY <1>3, <2>2
    <3>2. \A q : InQueue(q) \in Nat /\ InQueue(q)' = InQueue(q)
      BY <1>2, <3>1, ItemsStay
    <3>3. \A q : InQueue(q) \in Nat /\ InQueue(q)' = InQueue(q) + (IF q = p /\ enabled /\ ~full THEN n ELSE 0)
      <4> HIDE DEF enabled, full
      <4> QED BY <2>2, <3>2
    <3> QED BY <1>2, <1>7, <1>9, <3>1, <3>3
  <2> QED BY <2>1, <2>2
<1>13. FwdTypes'
  BY <1>2, <1>3, <1>5, <1>12 DEF FwdTypes, FwdInv
<1>14. Orderly(fposthog, fwork, fqueue.items, Offered)'
  BY <1>3, <1>6, <1>12
<1> HIDE DEF enabled, full
<1>15. CountsAgree'
  <2> SUFFICES ASSUME NEW q \in FwdProjects
               PROVE  fcount'[q].offered = fcount'[q].forwarded + fcount'[q].failed + fcount'[q].dropped
                                           + fcount'[q].skipped + InQueue(q)' + InThread(q)'
    BY DEF CountsAgree
  <2>1. fcount[q].offered \in Nat /\ fcount[q].forwarded \in Nat /\ fcount[q].failed \in Nat
        /\ fcount[q].dropped \in Nat /\ fcount[q].skipped \in Nat
    BY <1>2 DEF Counts
  <2>2. /\ InThread(q) \in Nat /\ InThread(q)' = InThread(q) /\ InQueue(q) \in Nat
        /\ InQueue(q)' = InQueue(q) + (IF q = p /\ enabled /\ ~full THEN n ELSE 0)
        /\ fcount[q].offered = fcount[q].forwarded + fcount[q].failed + fcount[q].dropped
                               + fcount[q].skipped + InQueue(q) + InThread(q)
    BY <1>10, <1>11, <1>12
  <2>3. CASE q = p
    <3> DEFINE d == IF enabled /\ full THEN n ELSE 0
               k == IF enabled THEN 0 ELSE n
               e == IF enabled /\ ~full THEN n ELSE 0
    <3>1. d \in Nat /\ k \in Nat /\ e \in Nat /\ n = d + k + e
      BY <1>1, <1>4
    <3>2. /\ fcount'[q].offered = fcount[q].offered + n /\ fcount'[q].dropped = fcount[q].dropped + d
          /\ fcount'[q].skipped = fcount[q].skipped + k /\ fcount'[q].forwarded = fcount[q].forwarded
          /\ fcount'[q].failed = fcount[q].failed
      BY <1>5, <2>3
    <3>3. InQueue(q)' = InQueue(q) + e
      BY <2>2, <2>3
    <3>4. /\ InThread(q) \in Nat /\ InThread(q)' = InThread(q) /\ InQueue(q) \in Nat
          /\ fcount[q].offered = fcount[q].forwarded + fcount[q].failed + fcount[q].dropped
                                 + fcount[q].skipped + InQueue(q) + InThread(q)
      BY <2>2
    <3> HIDE DEF d, k, e
    <3>5. fcount'[q].offered = fcount[q].forwarded + fcount[q].failed + (fcount[q].dropped + d)
                               + (fcount[q].skipped + k) + (InQueue(q) + e) + InThread(q)
      BY <1>1, <2>1, <3>1, <3>2, <3>4
    <3> QED BY <3>2, <3>3, <3>4, <3>5
  <2>4. CASE q # p
    <3>1. fcount'[q] = fcount[q] /\ InQueue(q)' = InQueue(q)
      BY <1>5, <2>2, <2>4
    <3> QED BY <2>2, <3>1
  <2> QED BY <2>3, <2>4
<1>16. ForwardedSettled'
  BY <1>3, <1>5 DEF ForwardedSettled, FwdInv
<1> QED BY <1>12, <1>13, <1>14, <1>15, <1>16 DEF FwdInv

\* A step that leaves the queue's items, the thread, the log and the counts alone.
LEMMA FwdQuiet ==
    ASSUME FwdInv, fwork' = fwork, fposthog' = fposthog, fcount' = fcount, fqueue'.items = fqueue.items, FwdTypes'
    PROVE  FwdInv'
<1>1. \A p : InQueue(p)' = InQueue(p)
  BY FwdParts, ItemsStay
<1>2. \A p : InThread(p)' = InThread(p)
  BY DEF InThread
<1>3. Offered' = Offered
  BY OfferedStays
<1>4. Orderly(fposthog, fwork, fqueue.items, Offered)'
  BY <1>3 DEF FwdInv
<1>5. CountsAgree'
  BY <1>1, <1>2 DEF FwdInv, CountsAgree
<1>6. ForwardedSettled'
  BY DEF FwdInv, ForwardedSettled
<1> QED BY <1>4, <1>5, <1>6 DEF FwdInv

\* set_config changes what the thread reads later, and nothing it has in hand.
LEMMA SetConfigStep ==
    ASSUME FwdInv, NEW p \in FwdProjects, NEW c \in FwdHosts \cup {Off}, set_config(p, c) PROVE FwdInv'
<1>1. fwork' = fwork /\ fposthog' = fposthog /\ fcount' = fcount /\ fqueue' = fqueue
  BY DEF set_config
<1>2. FwdTypes'
  BY <1>1 DEF FwdInv, FwdTypes, set_config
<1> QED BY <1>1, <1>2, FwdQuiet

\* stop leaves the items for the thread to finish.
LEMMA StopStep == ASSUME FwdInv, stop PROVE FwdInv'
<1>1. fwork' = fwork /\ fposthog' = fposthog /\ fcount' = fcount /\ fconfig' = fconfig
  BY DEF stop
<1>2. fqueue' = [items |-> fqueue.items, stopped |-> TRUE] /\ fqueue.items \in Seq(Item)
  BY FwdParts DEF stop
<1>3. FwdTypes'
  BY <1>1, <1>2 DEF FwdInv, FwdTypes
<1> QED BY <1>1, <1>2, <1>3, FwdQuiet

\* The thread ends with nothing in hand and nothing queued.
LEMMA ThreadEndsStep == ASSUME FwdInv, ThreadEnds PROVE FwdInv'
<1>1. fwork = Waiting /\ fwork' = [pc |-> "ended"] /\ fposthog' = fposthog /\ fcount' = fcount
      /\ fconfig' = fconfig /\ fqueue' = fqueue
  BY DEF ThreadEnds
<1>2. fwork.pc # "sending" /\ fwork'.pc # "sending"
  BY <1>1 DEF Waiting
<1>3. FwdTypes'
  BY <1>1 DEF FwdInv, FwdTypes
<1>4. \A p : InQueue(p)' = InQueue(p)
  BY <1>1, FwdParts, ItemsStay
<1>5. \A p : InThread(p)' = InThread(p)
  BY <1>2 DEF InThread
<1>6. Offered' = Offered
  BY <1>1, OfferedStays
<1>7. Orderly(fposthog, fwork, fqueue.items, Offered)
  BY DEF FwdInv
<1>8. Orderly(fposthog, fwork', fqueue.items, Offered)
  BY <1>2, <1>7 DEF Orderly, ThreadFirst, SentFirst, ChunkWhole
<1>9. CountsAgree'
  BY <1>1, <1>4, <1>5 DEF FwdInv, CountsAgree
<1>10. \A p : Settled(fposthog, fwork', p) = Settled(fposthog, fwork, p)
  BY <1>2 DEF Settled, Hand
<1>11. ForwardedSettled'
  BY <1>1, <1>10 DEF FwdInv, ForwardedSettled
<1> QED BY <1>1, <1>3, <1>6, <1>8, <1>9, <1>11 DEF FwdInv

\* TakeItem: the first item goes to the thread, or is left out when its project is off.
LEMMA TakeItemStep == ASSUME FwdInv, TakeItem PROVE FwdInv'
<1> DEFINE x == Head(fqueue.items)
           p == x.project
           n == Len(x.events)
           rest == Tail(fqueue.items)
<1>1. /\ fqueue.items \in Seq(Item) /\ fqueue.stopped \in BOOLEAN /\ Offered \in Nat
      /\ fposthog \in Seq(Receipt) /\ fcount \in [FwdProjects -> Counts]
      /\ fqueue = [items |-> fqueue.items, stopped |-> fqueue.stopped]
      /\ Orderly(fposthog, fwork, fqueue.items, Offered)
  BY FwdParts
<1>2. fwork = Waiting /\ fqueue.items # <<>> /\ fqueue' = [fqueue EXCEPT !.items = Tail(@)]
      /\ fconfig' = fconfig /\ fposthog' = fposthog
  BY DEF TakeItem
<1>3. fqueue' = [items |-> rest, stopped |-> fqueue.stopped] /\ fqueue'.items = rest /\ rest \in Seq(Item)
  <2>1. rest \in Seq(Item)
    BY <1>1, <1>2, HeadTailProperties
  <2>2. fqueue' = [items |-> Tail(fqueue.items), stopped |-> fqueue.stopped]
    BY <1>1, <1>2
  <2> QED BY <2>1, <2>2
<1>4. x \in Item /\ n \in Nat /\ QueuedEvents(fqueue'.items) \in Nat
      /\ QueuedEvents(fqueue.items) = n + QueuedEvents(fqueue'.items)
      /\ \A q : InQueue(q)' \in Nat /\ InQueue(q) = (IF p = q THEN n ELSE 0) + InQueue(q)'
  BY <1>1, <1>2, <1>3, ItemLeaves
<1>5. QueuedEvents(fqueue'.items) <= QueueEvents
  <2>1. QueuedEvents(fqueue.items) <= QueueEvents /\ QueueEvents \in Nat
    BY FwdAssumption DEF FwdInv
  <2> HIDE DEF n
  <2> QED BY <1>4, <2>1
<1>6. p \in FwdProjects /\ fwork.pc # "sending" /\ \A q : InThread(q) = 0
  BY <1>2, <1>4 DEF Item, InThread, Waiting
<1>7. fconfig \in [FwdProjects -> FwdHosts \cup {Off}]
  BY DEF FwdInv, FwdTypes
<1>8. \A q \in FwdProjects :
        fcount[q].offered = fcount[q].forwarded + fcount[q].failed + fcount[q].dropped
                            + fcount[q].skipped + InQueue(q) + InThread(q)
  BY DEF FwdInv, CountsAgree
<1>9. \A q \in FwdProjects : fcount[q].offered \in Nat /\ fcount[q].forwarded \in Nat /\ fcount[q].failed \in Nat
                             /\ fcount[q].dropped \in Nat /\ fcount[q].skipped \in Nat
  BY <1>1 DEF Counts
<1>10. CASE fconfig[p] = Off
  <2>1. fwork' = Waiting /\ Count(p, "skipped", n)
    BY <1>10 DEF TakeItem
  <2>2. /\ fcount' \in [FwdProjects -> Counts]
        /\ \A q \in FwdProjects : q # p => fcount'[q] = fcount[q]
        /\ fcount'[p].offered = fcount[p].offered /\ fcount'[p].dropped = fcount[p].dropped
        /\ fcount'[p].forwarded = fcount[p].forwarded + 0 /\ fcount'[p].failed = fcount[p].failed + 0
        /\ fcount'[p].skipped = fcount[p].skipped + n
    <3> HIDE DEF p, n
    <3> QED BY <1>1, <1>4, <1>6, <2>1, Counted
  <2>3. fwork' = fwork
    BY <1>2, <2>1
  <2>4. Offered' = Offered
    BY <2>2, OfferedStays
  <2>5. Orderly(fposthog, Waiting, rest, Offered)
    <3>1. Orderly(fposthog, Waiting, fqueue.items, Offered)
      BY <1>1, <1>2
    <3> QED BY <1>1, <1>2, <3>1, OrderTaken
  <2>6. Orderly(fposthog, fwork, fqueue.items, Offered)'
    BY <1>2, <1>3, <2>1, <2>4, <2>5
  <2>7. FwdTypes'
    BY <1>1, <1>2, <1>3, <1>7, <2>1, <2>2 DEF FwdTypes
  <2>8. \A q : InThread(q)' = 0
    BY <1>6, <2>3 DEF InThread
  <2>9. CountsAgree'
    <3> SUFFICES ASSUME NEW q \in FwdProjects
                 PROVE  fcount'[q].offered = fcount'[q].forwarded + fcount'[q].failed + fcount'[q].dropped
                                             + fcount'[q].skipped + InQueue(q)' + InThread(q)'
      BY DEF CountsAgree
    <3> HIDE DEF p, n
    <3>1. CASE q = p
      <4>1. InQueue(q)' \in Nat /\ InQueue(q) = n + InQueue(q)' /\ n \in Nat /\ InThread(q) = 0 /\ InThread(q)' = 0
        BY <1>4, <1>6, <2>8, <3>1
      <4>2. /\ fcount'[q].offered = fcount[q].offered /\ fcount'[q].dropped = fcount[q].dropped
            /\ fcount'[q].forwarded = fcount[q].forwarded /\ fcount'[q].failed = fcount[q].failed
            /\ fcount'[q].skipped = fcount[q].skipped + n
        BY <1>9, <2>2, <3>1
      <4> QED BY <1>8, <1>9, <4>1, <4>2
    <3>2. CASE q # p
      <4>1. fcount'[q] = fcount[q] /\ InQueue(q)' \in Nat /\ InQueue(q) = 0 + InQueue(q)'
            /\ InThread(q) = 0 /\ InThread(q)' = 0
        BY <1>4, <1>6, <2>2, <2>8, <3>2
      <4>2. InQueue(q) = InQueue(q)'
        BY <4>1
      <4> QED BY <1>8, <4>1, <4>2
    <3> QED BY <3>1, <3>2
  <2>10. ForwardedSettled'
    <3> SUFFICES ASSUME NEW q \in FwdProjects
                 PROVE  fcount'[q].forwarded <= Cardinality(Settled(fposthog', fwork', q))
      BY DEF ForwardedSettled
    <3>1. fcount[q].forwarded <= Cardinality(Settled(fposthog, fwork, q))
      BY DEF FwdInv, ForwardedSettled
    <3>2. fcount'[q].forwarded = fcount[q].forwarded
      <4> HIDE DEF p, n
      <4> QED BY <1>9, <2>2
    <3> QED BY <1>2, <2>3, <3>1, <3>2
  <2> QED BY <1>5, <2>6, <2>7, <2>9, <2>10 DEF FwdInv
<1>11. CASE fconfig[p] # Off
  <2> DEFINE w == [pc |-> "sending", project |-> p, rest |-> x.events, host |-> fconfig[p], attempt |-> 1]
  <2>1. fwork' = w /\ fcount' = fcount
    BY <1>11 DEF TakeItem
  <2>2. fconfig[p] \in FwdHosts
    BY <1>6, <1>7, <1>11
  <2>3. w \in Sending
    BY <1>4, <2>2 DEF Sending, Item
  <2>4. Orderly(fposthog, w, rest, Offered)
    BY <1>1, <1>2, <2>2, OrderTaken
  <2>5. Offered' = Offered
    BY <2>1, OfferedStays
  <2>6. Orderly(fposthog, fwork, fqueue.items, Offered)'
    BY <1>2, <1>3, <2>1, <2>4, <2>5
  <2>7. FwdTypes'
    BY <1>1, <1>2, <1>3, <1>7, <2>1, <2>3 DEF FwdTypes
  <2>8. \A q : InThread(q)' = IF p = q THEN n ELSE 0
    BY <2>1 DEF InThread
  <2>9. CountsAgree'
    <3> SUFFICES ASSUME NEW q \in FwdProjects
                 PROVE  fcount'[q].offered = fcount'[q].forwarded + fcount'[q].failed + fcount'[q].dropped
                                             + fcount'[q].skipped + InQueue(q)' + InThread(q)'
      BY DEF CountsAgree
    <3> DEFINE m == IF p = q THEN n ELSE 0
    <3>1. InQueue(q)' \in Nat /\ m \in Nat /\ InQueue(q) = m + InQueue(q)' /\ InThread(q)' = m /\ InThread(q) = 0
      BY <1>4, <1>6, <2>8
    <3> HIDE DEF m
    <3> QED BY <1>8, <1>9, <2>1, <3>1
  <2>10. ForwardedSettled'
    <3> SUFFICES ASSUME NEW q \in FwdProjects
                 PROVE  fcount'[q].forwarded <= Cardinality(Settled(fposthog', fwork', q))
      BY DEF ForwardedSettled
    <3>1. fcount[q].forwarded <= Cardinality(Settled(fposthog, fwork, q))
      BY DEF FwdInv, ForwardedSettled
    <3>2. Hand(fwork, q) = {}
      BY <1>6 DEF Hand
    <3>3. ASSUME NEW e \in Got(fposthog, q), e \in Hand(w, q) PROVE FALSE
      <4>1. PICK i \in DOMAIN fposthog : fposthog[i].event = e
        BY <1>1, <3>3, GotFinite
      <4>2. PICK a \in DOMAIN x.events : e = x.events[a]
        BY <3>3 DEF Hand
      <4>3. 1 \in DOMAIN fqueue.items /\ x = fqueue.items[1]
        BY <1>1, <1>2
      <4>4. e < fqueue.items[1].events[a]
        BY <1>1, <4>1, <4>2, <4>3 DEF Orderly, SentFirst, BeforeQueue
      <4>5. e \in Nat
        <5>1. fposthog[i] \in Receipt
          BY <1>1, <4>1
        <5> QED BY <4>1, <5>1 DEF Receipt
      <4> QED BY <4>2, <4>3, <4>4, <4>5
    <3>4. Settled(fposthog, fwork', q) = Settled(fposthog, fwork, q)
      BY <2>1, <3>2, <3>3 DEF Settled
    <3> QED BY <1>2, <2>1, <3>1, <3>4
  <2> QED BY <1>5, <2>6, <2>7, <2>9, <2>10 DEF FwdInv
<1> QED BY <1>10, <1>11

\* What PostHog may have received of the batch leaves the order as it is.
LEMMA SendReceives ==
    ASSUME FwdInv, NEW received \in BOOLEAN, NEW answer \in {"ok", "retry", "refused"}, send(received, answer)
    PROVE  /\ fwork \in Sending /\ fwork.pc = "sending" /\ fwork.rest # <<>> /\ Rising(fwork.rest)
           /\ fposthog' = fposthog \/ fposthog' = fposthog \o Receipts(fwork)
           /\ answer = "ok" => fposthog' = fposthog \o Receipts(fwork)
           /\ fposthog' \in Seq(Receipt) /\ \A q : Got(fposthog, q) \subseteq Got(fposthog', q)
           /\ Orderly(fposthog', fwork, fqueue.items, Offered)
<1>1. fwork.pc = "sending" /\ (answer = "ok" => received)
  BY DEF send
<1>2. /\ fwork \in Sending /\ fqueue.items \in Seq(Item) /\ fposthog \in Seq(Receipt) /\ Offered \in Nat
      /\ Orderly(fposthog, fwork, fqueue.items, Offered)
  BY <1>1, FwdParts
<1>3. fwork.rest # <<>> /\ Rising(fwork.rest)
  BY <1>1, <1>2 DEF Orderly, ThreadFirst
<1>4. fposthog' = IF received THEN fposthog \o Receipts(fwork) ELSE fposthog
  BY DEF send, Receipts, Chunk, ChunkOf
<1>5. fposthog \o Receipts(fwork) \in Seq(Receipt)
      /\ Orderly(fposthog \o Receipts(fwork), fwork, fqueue.items, Offered)
  BY <1>2, OrderReceived
<1>6. \A q : Got(fposthog, q) \subseteq Got(fposthog \o Receipts(fwork), q)
  BY <1>2, <1>3, BatchMoves
<1>7. CASE received
  BY <1>1, <1>2, <1>3, <1>4, <1>5, <1>6, <1>7
<1>8. CASE ~received
  <2>1. fposthog' = fposthog /\ answer # "ok"
    BY <1>1, <1>4, <1>8
  <2> QED BY <1>1, <1>2, <1>3, <2>1
<1> QED BY <1>7, <1>8

\* The thread is done with a batch: it is counted as forwarded, or as failed.
LEMMA SendSettles ==
    ASSUME FwdInv, NEW received \in BOOLEAN, NEW answer \in {"ok", "retry", "refused"}, send(received, answer),
           fwork' = After(fwork), NEW what \in {"forwarded", "failed"},
           Count(fwork.project, what, Len(ChunkOf(fwork))), what = "forwarded" => answer = "ok"
    PROVE  FwdInv'
<1> DEFINE p == fwork.project
           m == Len(ChunkOf(fwork))
<1>1. /\ fwork \in Sending /\ fwork.pc = "sending" /\ fwork.rest # <<>> /\ Rising(fwork.rest)
      /\ answer = "ok" => fposthog' = fposthog \o Receipts(fwork)
      /\ fposthog' \in Seq(Receipt) /\ \A q : Got(fposthog, q) \subseteq Got(fposthog', q)
      /\ Orderly(fposthog', fwork, fqueue.items, Offered)
  BY SendReceives
<1>2. fqueue.items \in Seq(Item) /\ fposthog \in Seq(Receipt) /\ fcount \in [FwdProjects -> Counts] /\ Offered \in Nat
  BY FwdParts
<1>3. fqueue' = fqueue /\ fconfig' = fconfig /\ fqueue'.items = fqueue.items
  BY DEF send
<1>4. /\ fwork' \in Sending \/ fwork' = Waiting
      /\ m \in Nat
      /\ \A q : /\ InThread(q) \in Nat /\ InThread(q)' \in Nat
                /\ InThread(q) = InThread(q)' + (IF q = p THEN m ELSE 0)
  BY <1>1, ThreadGoes
<1>5. p \in FwdProjects
  BY <1>1 DEF Sending
<1> HIDE DEF p, m
<1>6. Count(p, what, m)
  BY DEF p, m
<1>7. /\ fcount' \in [FwdProjects -> Counts]
      /\ \A q \in FwdProjects : q # p => fcount'[q] = fcount[q]
      /\ fcount'[p].offered = fcount[p].offered /\ fcount'[p].dropped = fcount[p].dropped
      /\ fcount'[p].forwarded = fcount[p].forwarded + (IF what = "forwarded" THEN m ELSE 0)
      /\ fcount'[p].failed = fcount[p].failed + (IF what = "failed" THEN m ELSE 0)
      /\ fcount'[p].skipped = fcount[p].skipped + (IF what = "skipped" THEN m ELSE 0)
  BY <1>2, <1>4, <1>5, <1>6, Counted
<1>8. \A q \in FwdProjects : fcount[q].offered \in Nat /\ fcount[q].forwarded \in Nat /\ fcount[q].failed \in Nat
                             /\ fcount[q].dropped \in Nat /\ fcount[q].skipped \in Nat
  BY <1>2 DEF Counts
<1>9. Offered' = Offered
  BY <1>7, OfferedStays
<1>10. Orderly(fposthog', After(fwork), fqueue.items, Offered)
  BY <1>1, <1>2, OrderAfter
<1>11. Orderly(fposthog, fwork, fqueue.items, Offered)'
  BY <1>3, <1>9, <1>10
<1>12. FwdTypes'
  BY <1>1, <1>3, <1>4, <1>7 DEF FwdInv, FwdTypes
<1>13. \A q : InQueue(q) \in Nat /\ InQueue(q)' = InQueue(q)
  BY <1>2, <1>3, ItemsStay
<1>14. CountsAgree'
  <2> SUFFICES ASSUME NEW q \in FwdProjects
               PROVE  fcount'[q].offered = fcount'[q].forwarded + fcount'[q].failed + fcount'[q].dropped
                                           + fcount'[q].skipped + InQueue(q)' + InThread(q)'
    BY DEF CountsAgree
  <2>1. fcount[q].offered = fcount[q].forwarded + fcount[q].failed + fcount[q].dropped
                            + fcount[q].skipped + InQueue(q) + InThread(q)
    BY DEF FwdInv, CountsAgree
  <2>2. CASE q = p
    <3>1. InThread(q) = InThread(q)' + m /\ InThread(q)' \in Nat
      BY <1>4, <2>2
    <3>2. /\ fcount'[q].offered = fcount[q].offered /\ fcount'[q].dropped = fcount[q].dropped
          /\ fcount'[q].skipped = fcount[q].skipped
          /\ \/ fcount'[q].forwarded = fcount[q].forwarded + m /\ fcount'[q].failed = fcount[q].failed
             \/ fcount'[q].forwarded = fcount[q].forwarded /\ fcount'[q].failed = fcount[q].failed + m
      BY <1>5, <1>7, <1>8, <2>2
    <3>3. /\ fcount[q].forwarded \in Nat /\ fcount[q].failed \in Nat /\ fcount[q].dropped \in Nat
          /\ fcount[q].skipped \in Nat /\ m \in Nat /\ InQueue(q) \in Nat /\ InQueue(q)' = InQueue(q)
      BY <1>4, <1>8, <1>13
    <3> DEFINE a == fcount[q].forwarded
               b == fcount[q].failed
               c == fcount[q].dropped
               d == fcount[q].skipped
               e == InQueue(q)
               f == InThread(q)'
    <3>4. fcount[q].offered = a + b + c + d + e + (f + m)
      BY <2>1, <3>1
    <3>5. a \in Nat /\ b \in Nat /\ c \in Nat /\ d \in Nat /\ e \in Nat /\ f \in Nat /\ m \in Nat
      BY <3>1, <3>3
    <3>6. fcount[q].offered = (a + m) + b + c + d + e + f /\ fcount[q].offered = a + (b + m) + c + d + e + f
      <4> HIDE DEF a, b, c, d, e, f
      <4> QED BY <3>4, <3>5
    <3>7. fcount'[q].offered = fcount[q].offered /\ fcount'[q].dropped = fcount[q].dropped
          /\ fcount'[q].skipped = fcount[q].skipped /\ InQueue(q)' = InQueue(q)
      BY <3>2, <3>3
    <3>8. CASE fcount'[q].forwarded = fcount[q].forwarded + m /\ fcount'[q].failed = fcount[q].failed
      BY <3>6, <3>7, <3>8
    <3>9. CASE fcount'[q].forwarded = fcount[q].forwarded /\ fcount'[q].failed = fcount[q].failed + m
      BY <3>6, <3>7, <3>9
    <3> QED BY <3>2, <3>8, <3>9
  <2>3. CASE q # p
    <3>1. fcount'[q] = fcount[q] /\ InThread(q) = InThread(q)' + 0 /\ InThread(q)' \in Nat
      BY <1>4, <1>7, <2>3
    <3>2. InThread(q) = InThread(q)'
      BY <3>1
    <3> QED BY <1>13, <2>1, <3>1, <3>2
  <2> QED BY <2>2, <2>3
<1>15. ForwardedSettled'
  <2> SUFFICES ASSUME NEW q \in FwdProjects
               PROVE  fcount'[q].forwarded <= Cardinality(Settled(fposthog', fwork', q))
    BY DEF ForwardedSettled
  <2> DEFINE A == Cardinality(Settled(fposthog, fwork, q))
             B == Cardinality(Settled(fposthog', fwork', q))
  <2>1. fcount[q].forwarded <= A
    BY DEF FwdInv, ForwardedSettled
  <2>2. Hand(fwork', q) \subseteq Hand(fwork, q)
    BY <1>1, <1>2, BatchMoves
  <2>3. A \in Nat /\ B \in Nat /\ A <= B
    BY <1>1, <1>2, <2>2, MoreSettled
  <2>4. CASE what = "forwarded" /\ q = p
    <3>1. A + m <= B
      BY <1>1, <1>2, <2>4, BatchSettles DEF p, m
    <3>2. fcount'[q].forwarded = fcount[q].forwarded + m
      BY <1>7, <2>4
    <3> HIDE DEF A, B
    <3>3. fcount'[q].forwarded <= B
      BY <1>4, <1>8, <2>1, <2>3, <3>1, <3>2
    <3> QED BY <3>3 DEF B
  <2>5. CASE ~(what = "forwarded" /\ q = p)
    <3>1. fcount'[q].forwarded = fcount[q].forwarded
      BY <1>7, <1>8, <2>5
    <3> HIDE DEF A, B
    <3>2. fcount'[q].forwarded <= B
      BY <1>8, <2>1, <2>3, <3>1
    <3> QED BY <3>2 DEF B
  <2> QED BY <2>4, <2>5
<1> QED BY <1>3, <1>11, <1>12, <1>14, <1>15 DEF FwdInv

\* The thread tries the batch again.
LEMMA SendRetries ==
    ASSUME FwdInv, NEW received \in BOOLEAN, NEW answer \in {"ok", "retry", "refused"}, send(received, answer),
           fwork' = [fwork EXCEPT !.attempt = @ + 1], fcount' = fcount
    PROVE  FwdInv'
<1>1. /\ fwork \in Sending /\ fwork.pc = "sending"
      /\ fposthog' \in Seq(Receipt) /\ \A q : Got(fposthog, q) \subseteq Got(fposthog', q)
      /\ Orderly(fposthog', fwork, fqueue.items, Offered)
  BY SendReceives
<1>2. fqueue.items \in Seq(Item) /\ fposthog \in Seq(Receipt) /\ fcount \in [FwdProjects -> Counts] /\ Offered \in Nat
  BY FwdParts
<1>3. fqueue' = fqueue /\ fconfig' = fconfig /\ fqueue'.items = fqueue.items
  BY DEF send
<1>4. Orderly(fposthog', fwork', fqueue.items, Offered) /\ fwork' \in Sending /\ fwork'.rest = fwork.rest
      /\ fwork'.project = fwork.project
  BY <1>1, <1>2, OrderRetried
<1>5. fwork'.pc = "sending"
  BY <1>4 DEF Sending
<1>6. Offered' = Offered
  BY OfferedStays
<1>7. \A q : InQueue(q)' = InQueue(q)
  BY <1>2, <1>3, ItemsStay
<1>8. \A q : InThread(q)' = InThread(q)
  BY <1>1, <1>4, <1>5 DEF InThread
<1>9. CountsAgree'
  BY <1>7, <1>8 DEF FwdInv, CountsAgree
<1>10. FwdTypes'
  BY <1>1, <1>3, <1>4 DEF FwdInv, FwdTypes
<1>11. ForwardedSettled'
  <2> SUFFICES ASSUME NEW q \in FwdProjects
               PROVE  fcount'[q].forwarded <= Cardinality(Settled(fposthog', fwork', q))
    BY DEF ForwardedSettled
  <2> DEFINE A == Cardinality(Settled(fposthog, fwork, q))
             B == Cardinality(Settled(fposthog', fwork', q))
  <2>1. fcount[q].forwarded <= A /\ fcount[q].forwarded \in Nat
    BY <1>2 DEF FwdInv, ForwardedSettled, Counts
  <2>2. Hand(fwork', q) \subseteq Hand(fwork, q)
    BY <1>1, <1>4, <1>5 DEF Hand
  <2>3. A \in Nat /\ B \in Nat /\ A <= B
    BY <1>1, <1>2, <2>2, MoreSettled
  <2> HIDE DEF A, B
  <2>4. fcount'[q].forwarded <= B
    BY <2>1, <2>3
  <2> QED BY <2>4 DEF B
<1>12. Orderly(fposthog, fwork, fqueue.items, Offered)'
  BY <1>3, <1>4, <1>6
<1> QED BY <1>3, <1>9, <1>10, <1>11, <1>12 DEF FwdInv

\* One attempt of send keeps the order and the counts, whatever PostHog and the network do.
LEMMA SendStep ==
    ASSUME FwdInv, NEW received \in BOOLEAN, NEW answer \in {"ok", "retry", "refused"}, send(received, answer)
    PROVE  FwdInv'
<1>1. AfterChunk = After(fwork) /\ Len(Chunk) = Len(ChunkOf(fwork))
  BY DEF AfterChunk, After, RestOf, Chunk, ChunkOf
<1>2. CASE answer = "ok"
  <2>1. fwork' = After(fwork) /\ Count(fwork.project, "forwarded", Len(ChunkOf(fwork)))
    BY <1>1, <1>2 DEF send
  <2> QED BY <1>2, <2>1, SendSettles
<1>3. CASE answer = "retry" /\ fwork.attempt < MaxAttempts
  <2>1. fwork' = [fwork EXCEPT !.attempt = @ + 1] /\ fcount' = fcount
    BY <1>3 DEF send
  <2> QED BY <2>1, SendRetries
<1>4. CASE answer # "ok" /\ ~(answer = "retry" /\ fwork.attempt < MaxAttempts)
  <2>1. fwork' = After(fwork) /\ Count(fwork.project, "failed", Len(ChunkOf(fwork)))
    BY <1>1, <1>4 DEF send
  <2> QED BY <2>1, SendSettles
<1> QED BY <1>2, <1>3, <1>4

\* Every step of the forwarder keeps its invariant.
LEMMA FwdStep == FwdInv /\ [FwdNext]_fwdVars => FwdInv'
<1> SUFFICES ASSUME FwdInv, [FwdNext]_fwdVars PROVE FwdInv'
  OBVIOUS
<1>1. CASE stop
  BY <1>1, StopStep
<1>2. CASE TakeItem
  BY <1>2, TakeItemStep
<1>3. CASE ThreadEnds
  BY <1>3, ThreadEndsStep
<1>4. ASSUME NEW p \in FwdProjects, NEW n \in 1..(BatchEvents + 1), offer(p, n) PROVE FwdInv'
  BY <1>4, OfferStep
<1>5. ASSUME NEW p \in FwdProjects, NEW c \in FwdHosts \cup {Off}, set_config(p, c) PROVE FwdInv'
  BY <1>5, SetConfigStep
<1>6. ASSUME NEW received \in BOOLEAN, NEW answer \in {"ok", "retry", "refused"}, send(received, answer) PROVE FwdInv'
  BY <1>6, SendStep
<1>7. CASE UNCHANGED fwdVars
  <2>1. fwork' = fwork /\ fposthog' = fposthog /\ fcount' = fcount /\ fqueue' = fqueue /\ fconfig' = fconfig
    BY <1>7 DEF fwdVars
  <2>2. FwdTypes'
    BY <2>1 DEF FwdInv, FwdTypes
  <2> QED BY <2>1, <2>2, FwdQuiet
<1> QED BY <1>1, <1>2, <1>3, <1>4, <1>5, <1>6, <1>7 DEF FwdNext

\* The invariant is what the runs check.
LEMMA FwdAnswers == FwdInv => ForwardingHolds
<1> SUFFICES ASSUME FwdInv PROVE ForwardingHolds
  OBVIOUS
<1>1. ASSUME NEW p \in FwdProjects
      PROVE  fcount[p].forwarded <= Cardinality({x.event : x \in {y \in ToSet(fposthog) : y.project = p}})
  <2> DEFINE A == Cardinality(Settled(fposthog, fwork, p))
             B == Cardinality(Got(fposthog, p))
  <2>1. fposthog \in Seq(Receipt) /\ fcount[p].forwarded \in Nat /\ fcount[p].forwarded <= A
    BY FwdParts DEF FwdInv, ForwardedSettled, Counts
  <2>2. IsFiniteSet(Got(fposthog, p)) /\ Settled(fposthog, fwork, p) \subseteq Got(fposthog, p)
    BY <2>1, GotFinite DEF Settled
  <2>3. A \in Nat /\ B \in Nat /\ A <= B
    BY <2>2, FS_Subset, FS_CardinalityType
  <2> HIDE DEF A, B
  <2>4. fcount[p].forwarded <= B
    BY <2>1, <2>3
  <2> QED BY <2>4 DEF B, Got
<1>2. EveryEventCounted
  BY <1>1 DEF EveryEventCounted, FwdInv, CountsAgree
<1>3. ForwardedInOrder
  BY DEF ForwardedInOrder, FwdInv, Orderly, InOrder
<1> QED BY <1>2, <1>3 DEF ForwardingHolds

-----------------------------------------------------------------------------
(* The runs' properties.                                                    *)

\* One part takes a step, and the others stay.
LEMMA ReadsSteps ==
    [ReadsNext]_readsVars =>
        /\ [QueryNext]_queryVars /\ [GateNext]_gateVars
        /\ [IntakeNext]_intakeVars /\ [BacklogNext]_backlogVars
BY DEF ReadsNext, readsVars, queryVars, gateVars, intakeVars, backlogVars

\* Whoever was admitted to the query engine finds a connection, the cache's byte
\* count is its entries', and a deadline of the explore path interrupts its own query
\* only (query/mod.rs admit, connection; cache.rs; explore/mod.rs run).
THEOREM AdmissionHoldsAlways == ReadsSpec => []AdmissionHolds
<1>1. ReadsInit => EngineInv /\ GateInv
  BY EngineStarts, GateStarts DEF ReadsInit
<1>2. EngineInv /\ GateInv /\ [ReadsNext]_readsVars => EngineInv' /\ GateInv'
  BY ReadsSteps, EngineStep, GateStep
<1>3. EngineInv /\ GateInv => AdmissionHolds
  BY EngineAdmits DEF GateInv, AdmissionHolds
<1> QED BY <1>1, <1>2, <1>3, PTL DEF ReadsSpec

\* What a query answers, cached or computed, is as new as the moment it was
\* admitted, and its person properties are within their TTL, while nobody is erased
\* (query/mod.rs session, cache.rs).
THEOREM AnswersFreshAlways ==
    ASSUME MaxErasures = 0
    PROVE  ReadsSpec => []AnswersFresh
<1>1. ReadsInit => FreshInv
  BY FreshStarts DEF ReadsInit
<1>2. FreshInv /\ [ReadsNext]_readsVars => FreshInv'
  BY ReadsSteps, FreshStep
<1>3. FreshInv => AnswersFresh
  BY FreshAnswers DEF AnswersFresh
<1> QED BY <1>1, <1>2, <1>3, PTL DEF ReadsSpec

\* A captured body is stored whole, under the projects of its own tokens, and
\* answered 200 only then; the limiter never refuses a token that stayed under its
\* ceiling (capture/mod.rs, ratelimit.rs); and a status without lag means that
\* everything acknowledged is queryable (sink.rs PipelineStats).
THEOREM IntakeHoldsAlways == ReadsSpec => []IntakeHolds
<1>1. ReadsInit => IntakeInv /\ BacklogInv
  BY IntakeStarts, BacklogStarts DEF ReadsInit
<1>2. IntakeInv /\ BacklogInv /\ [ReadsNext]_readsVars => IntakeInv' /\ BacklogInv'
  BY ReadsSteps, IntakeStep, BacklogStep
<1>3. IntakeInv /\ BacklogInv => IntakeHolds
  BY IntakeAnswers, LagIsHonest DEF IntakeHolds
<1> QED BY <1>1, <1>2, <1>3, PTL DEF ReadsSpec

\* Every acknowledged event of a forwarded project is counted once, as forwarded, failed,
\* dropped, left out, queued or in hand; the queue keeps its limit; what counts as
\* forwarded was received; and PostHog gets a project's events in the order they were
\* offered, a repeated batch whole, over any retries, lost answers, drops and settings
\* (forward.rs Forwarder::offer, run, send).
THEOREM ForwardingHoldsAlways == FwdSpec => []ForwardingHolds
<1>1. FwdInit => FwdInv
  BY FwdStarts
<1>2. FwdInv /\ [FwdNext]_fwdVars => FwdInv'
  BY FwdStep
<1>3. FwdInv => ForwardingHolds
  BY FwdAnswers
<1> QED BY <1>1, <1>2, <1>3, PTL DEF FwdSpec

-----------------------------------------------------------------------------
(* The event feed.                                                          *)

\* Newest first.
DescendsIn(f, s) ==
    \A i, j \in 1..Len(s) : i < j => f[s[i]] > f[s[j]] \/ (f[s[i]] = f[s[j]] /\ s[i] > s[j])
Descends(s) == DescendsIn(fstored, s)

\* What passes the cursor is older than this.
Reached == IF reading.pc = "end" THEN 0 ELSE IF reading.before = NoBound THEN Horizon ELSE reading.before

FeedStored ==
    /\ DOMAIN fstored \subseteq FeedIds /\ IsFiniteSet(DOMAIN fstored)
    /\ fstored \in [DOMAIN fstored -> Nat]

FeedReader ==
    /\ reading.before \in {NoBound} \cup 0..Horizon
    /\ reading.due \subseteq DOMAIN fstored /\ reading.shown \in Seq(DOMAIN fstored)
    /\ \/ /\ reading = [pc |-> reading.pc, before |-> reading.before, shown |-> reading.shown, due |-> reading.due]
          /\ reading.pc \in {"end", "page"} /\ (reading.pc = "end" <=> reading.before = NoBound)
       \/ /\ reading = [pc |-> "walk", before |-> reading.before, hi |-> reading.hi, span |-> reading.span,
                        issued |-> reading.issued, rows |-> reading.rows,
                        shown |-> reading.shown, due |-> reading.due]
          /\ {reading.hi, reading.span, reading.issued} \subseteq Nat /\ reading.rows \in Seq(DOMAIN fstored)

\* From the horizon down to the cursor everything is shown.
ShownDown ==
    /\ Descends(reading.shown)
    /\ \A k \in 1..Len(reading.shown) : fstored[reading.shown[k]] >= Reached
    /\ \A u \in reading.due :
          fstored[u] < Horizon /\ fstored[u] >= Reached => u \in Range(reading.shown) \/ Overfull(fstored[u])

\* A walk has everything from the cursor down to the day where it stands, and its next
\* window is as long as all windows before it together.
WalkedDown ==
    reading.pc = "walk" =>
        /\ reading.issued < MaxWindows /\ reading.span >= Doubled[reading.issued]
        /\ reading.hi + reading.span <= Today + 4 /\ reading.hi <= Today + 2
        /\ Len(reading.rows) <= FeedLimit /\ Descends(reading.rows)
        /\ \A k \in 1..Len(reading.rows) :
              fstored[reading.rows[k]] < Reached /\ DayOf(fstored[reading.rows[k]]) >= reading.hi
        /\ \A u \in reading.due :
              fstored[u] < Reached /\ DayOf(fstored[u]) >= reading.hi => u \in Range(reading.rows)

FeedInv == FeedStored /\ FeedReader /\ ShownDown /\ WalkedDown

-----------------------------------------------------------------------------
(* The person list.                                                         *)

\* Everyone the client is due to see is listed or comes after the cursor.
PeopleInv ==
    /\ DOMAIN people \subseteq PersonIds /\ IsFiniteSet(DOMAIN people)
    /\ people \in [DOMAIN people -> PersonTimes]
    /\ listing.cursor = <<>> \/ \E k \in [at : Int, id : Int] : listing.cursor = <<k>>
    /\ listing.end \in BOOLEAN /\ (listing.end <=> listing.cursor = <<>>)
    /\ \A p \in listing.due \cap DOMAIN people :
          p \in listing.listed \/ (listing.cursor # <<>> /\ Before(Key(p), listing.cursor[1]))

\* R orders the members of S.
Orders(R, S) ==
    /\ \A u, v \in S : u # v => <<u, v>> \in R \/ <<v, u>> \in R
    /\ \A u \in S : <<u, u>> \notin R
    /\ \A u, v, w \in S : <<u, v>> \in R /\ <<v, w>> \in R => <<u, w>> \in R

Sorts(s, R, T) ==
    /\ s \in [1..Cardinality(T) -> T]
    /\ \A i, j \in 1..Cardinality(T) : i < j => <<s[i], s[j]>> \in R

\* A finite set that is not empty has a last member.
LEMMA LastMember ==
    ASSUME NEW S, IsFiniteSet(S), NEW R, Orders(R, S), S # {}
    PROVE  \E m \in S : \A v \in S : v # m => <<v, m>> \in R
<1> DEFINE Beyond(u) == {v \in S : <<u, v>> \in R}
           T == {n \in Nat : \E u \in S : n = Cardinality(Beyond(u))}
<1>1. \A u \in S : Beyond(u) \in SUBSET S /\ IsFiniteSet(Beyond(u)) /\ Cardinality(Beyond(u)) \in Nat
  BY FS_Subset, FS_CardinalityType
<1>2. T \subseteq Nat /\ T # {}
  <2>1. PICK u \in S : TRUE
    OBVIOUS
  <2>2. Cardinality(Beyond(u)) \in T
    BY <1>1, <2>1
  <2> QED BY <2>2
<1>3. PICK n \in T : \A k \in T : n <= k
  <2> HIDE DEF T
  <2> QED BY <1>2, LeastNatural
<1>4. PICK m \in S : n = Cardinality(Beyond(m))
  OBVIOUS
<1>5. ASSUME NEW v \in S, v # m PROVE <<v, m>> \in R
  <2> SUFFICES ASSUME <<m, v>> \in R PROVE FALSE
    BY <1>5 DEF Orders
  <2>1. Beyond(v) \in SUBSET Beyond(m)
    <3> SUFFICES ASSUME NEW w \in S, <<v, w>> \in R PROVE <<m, w>> \in R
      OBVIOUS
    <3> QED BY DEF Orders
  <2>2. v \in Beyond(m) /\ v \notin Beyond(v)
    BY DEF Orders
  <2>3. Cardinality(Beyond(v)) \in T
    BY <1>1
  <2> HIDE DEF Beyond, T
  <2>4. Cardinality(Beyond(v)) <= Cardinality(Beyond(m)) /\ Cardinality(Beyond(v)) # Cardinality(Beyond(m))
    BY <1>1, <2>1, <2>2, FS_Subset
  <2> QED BY <1>1, <1>3, <1>4, <2>3, <2>4
<1> QED BY <1>5

\* A finite set can be sorted.
LEMMA Sortable ==
    ASSUME NEW S, IsFiniteSet(S), NEW R, Orders(R, S)
    PROVE  \E s : Sorts(s, R, S)
<1> DEFINE Bad == {n \in Nat : \E T \in SUBSET S : n = Cardinality(T) /\ \A s : ~Sorts(s, R, T)}
<1>1. \A T \in SUBSET S : IsFiniteSet(T) /\ Cardinality(T) \in Nat /\ Orders(R, T)
  <2> SUFFICES ASSUME NEW T \in SUBSET S PROVE IsFiniteSet(T) /\ Cardinality(T) \in Nat /\ Orders(R, T)
    OBVIOUS
  <2>1. IsFiniteSet(T) /\ Cardinality(T) \in Nat
    BY FS_Subset, FS_CardinalityType
  <2> QED BY <2>1 DEF Orders
<1> SUFFICES ASSUME Bad # {} PROVE FALSE
  <2>1. S \in SUBSET S /\ Cardinality(S) \in Nat
    BY <1>1
  <2> QED BY <2>1
<1>2. PICK n \in Bad : \A k \in Bad : n <= k
  <2>1. Bad \subseteq Nat
    OBVIOUS
  <2> HIDE DEF Bad
  <2> QED BY <2>1, LeastNatural
<1>3. PICK T \in SUBSET S : n = Cardinality(T) /\ \A s : ~Sorts(s, R, T)
  OBVIOUS
<1>4. n \in Nat /\ IsFiniteSet(T)
  BY <1>1
<1>5. CASE T = {}
  <2>1. n = 0
    BY <1>3, <1>5, FS_EmptySet
  <2>2. Sorts([k \in 1..0 |-> 0], R, T)
    BY <1>3, <2>1 DEF Sorts
  <2> QED BY <1>3, <2>2
<1>6. CASE T # {}
  <2>1. PICK m \in T : \A v \in T : v # m => <<v, m>> \in R
    BY <1>1, <1>6, LastMember
  <2> DEFINE U == T \ {m}
  <2>2. U \in SUBSET S /\ Cardinality(U) = n - 1 /\ U \in SUBSET T
    BY <1>3, <1>4, FS_RemoveElement
  <2>3. Cardinality(U) \in Nat
    BY <1>1, <2>2
  <2>4. PICK s : Sorts(s, R, U)
    <3>1. n - 1 \in Nat /\ ~(n <= n - 1)
      BY <1>4, <2>2, <2>3
    <3>2. n - 1 \notin Bad
      BY <1>2, <3>1
    <3> QED BY <2>2, <3>1, <3>2
  <2>5. \A v \in U : <<v, m>> \in R
    BY <2>1
  <2> HIDE DEF U
  <2> DEFINE z == [k \in 1..n |-> IF k = n THEN m ELSE s[k]]
  <2>6. s \in [1..(n - 1) -> U] /\ \A i, j \in 1..(n - 1) : i < j => <<s[i], s[j]>> \in R
    BY <2>2, <2>4 DEF Sorts
  <2>7. \A k \in 1..n : k = n \/ (k # n /\ k \in 1..(n - 1))
    BY <1>4
  <2>8. z \in [1..n -> T]
    BY <2>2, <2>6, <2>7
  <2>9. ASSUME NEW i \in 1..n, NEW j \in 1..n, i < j PROVE <<z[i], z[j]>> \in R
    <3>1. i \in 1..(n - 1) /\ z[i] = s[i] /\ s[i] \in U
      BY <1>4, <2>6, <2>9
    <3>2. CASE j = n
      BY <2>5, <3>1, <3>2
    <3>3. CASE j # n
      BY <2>6, <2>7, <2>9, <3>1, <3>3
    <3> QED BY <3>2, <3>3
  <2>10. Sorts(z, R, T)
    BY <1>3, <2>8, <2>9 DEF Sorts
  <2> QED BY <1>3, <2>10
<1> QED BY <1>5, <1>6

\* ORDER BY lists every row once, in the order of the relation.
LEMMA OrderedSorts ==
    ASSUME NEW S, IsFiniteSet(S), NEW R, Orders(R, S)
    PROVE  LET s == Ordered(S, R) IN
           /\ s \in Seq(S) /\ Len(s) = Cardinality(S) /\ Len(s) \in Nat
           /\ \A i, j \in 1..Len(s) : i < j => <<s[i], s[j]>> \in R
           /\ \A u \in S : \E i \in 1..Len(s) : s[i] = u
<1> DEFINE n == Cardinality(S)
           s == Ordered(S, R)
<1>1. n \in Nat
  BY FS_CardinalityType
<1>2. s \in [1..n -> S] /\ \A i, j \in 1..n : i < j => <<s[i], s[j]>> \in R
  <2>1. \E t \in [1..n -> S] : \A i, j \in 1..n : i < j => <<t[i], t[j]>> \in R
    BY Sortable DEF Sorts
  <2> QED BY <2>1 DEF Ordered
<1> HIDE DEF s
<1>3. s \in Seq(S) /\ Len(s) = n
  BY <1>1, <1>2
<1>4. \A u \in S : \E i \in 1..n : s[i] = u
  <2>1. s \in Injection(1..n, S)
    <3>1. \A i, j \in 1..n : i # j => s[i] # s[j]
      <4> SUFFICES ASSUME NEW i \in 1..n, NEW j \in 1..n, i # j, s[i] = s[j] PROVE FALSE
        OBVIOUS
      <4>1. i < j \/ j < i
        BY <1>1
      <4>2. s[i] \in S /\ <<s[i], s[i]>> \notin R
        BY <1>2 DEF Orders
      <4> QED BY <1>2, <4>1, <4>2
    <3> QED BY <1>2, <3>1 DEF Injection, IsInjective
  <2>2. Cardinality(1..n) = n
    BY <1>1, FS_Interval
  <2>3. s \in Surjection(1..n, S)
    BY <2>1, <2>2, FS_Injection
  <2> QED BY <2>3 DEF Surjection
<1> QED BY <1>1, <1>2, <1>3, <1>4 DEF s

\* The limits are numbers.
LEMMA FeedLimits ==
    /\ FeedIds \subseteq Int /\ PersonIds \subseteq Int /\ PersonTimes \subseteq Int
    /\ DayMicros \in Nat /\ DayMicros > 0 /\ FeedLimit \in Nat /\ FeedLimit > 0
    /\ PersonLimit \in Nat /\ PersonLimit > 0 /\ Today \in Nat /\ MaxWindows \in Nat
    /\ Horizon \in Nat /\ Horizon = (Today + 2) * DayMicros
BY FeedAssumption DEF Horizon

\* A day begins DayMicros after the one before.
LEMMA DayBounds ==
    ASSUME NEW t \in Int
    PROVE  /\ DayOf(t) \in Int
           /\ DayMicros * DayOf(t) <= t /\ t < DayMicros * DayOf(t) + DayMicros
BY FeedLimits DEF DayOf

\* Days follow the clock.
LEMMA DaysRise ==
    ASSUME NEW t \in Int, NEW x \in Int, t <= x
    PROVE  DayOf(t) <= DayOf(x)
<1> DEFINE a == DayOf(t)
           b == DayOf(x)
           m == DayMicros
<1>1. a \in Int /\ b \in Int /\ m * a <= t /\ x < m * b + m /\ m \in Nat /\ m > 0
  BY DayBounds, FeedLimits
<1> HIDE DEF a, b, m
<1>2. m * (a - b) < m
  BY <1>1
<1>3. a - b >= 1 => m * (a - b) >= m
  BY <1>1
<1>4. ~(a - b >= 1)
  <2>1. m * (a - b) \in Int
    BY <1>1
  <2> QED BY <1>1, <1>2, <1>3, <2>1
<1>5. a <= b
  BY <1>1, <1>4
<1> QED BY <1>5 DEF a, b

\* The days before the horizon.
LEMMA StoredDays ==
    ASSUME NEW t \in Nat
    PROVE  DayOf(t) \in Nat /\ (DayOf(t) < Today + 2 <=> t < Horizon)
<1> DEFINE a == DayOf(t)
           m == DayMicros
           n == Today + 2
<1>1. a \in Int /\ m * a <= t /\ t < m * a + m /\ m \in Nat /\ m > 0 /\ t \in Nat /\ n \in Nat
      /\ Horizon = n * m
  BY DayBounds, FeedLimits
<1> HIDE DEF a, m, n
<1>2. a >= 0
  <2> SUFFICES ASSUME a <= -1 PROVE FALSE
    BY <1>1
  <2>1. m * a + m = m * (a + 1) /\ m * (a + 1) <= 0
    BY <1>1
  <2> QED BY <1>1, <2>1
<1>3. ASSUME t < n * m PROVE a < n
  <2> SUFFICES ASSUME a >= n PROVE FALSE
    BY <1>1
  <2>1. m * a >= m * n
    BY <1>1
  <2> QED BY <1>1, <1>3, <2>1
<1>4. ASSUME a < n PROVE t < n * m
  <2>1. m * a + m = m * (a + 1) /\ m * (a + 1) <= m * n
    BY <1>1, <1>4
  <2> QED BY <1>1, <2>1
<1> QED BY <1>1, <1>2, <1>3, <1>4 DEF a, n

\* The windows begin at the cursor.
LEMMA WalkStarts ==
    ASSUME NEW b \in {NoBound} \cup 0..Horizon
    PROVE  LET w == FirstWindow(b)
               r == IF b = NoBound THEN Horizon ELSE b IN
           /\ w = [hi |-> w.hi, span |-> w.span] /\ w.hi \in Nat /\ w.span \in Nat /\ w.span >= 1
           /\ w.hi + w.span <= Today + 4 /\ w.hi <= Today + 2
           /\ \A t \in Nat : DayOf(t) >= w.hi => t >= r
<1>1. CASE b = NoBound
  <2>1. FirstWindow(b) = [hi |-> Today + 2, span |-> 2]
    BY <1>1 DEF FirstWindow
  <2>2. \A t \in Nat : DayOf(t) >= Today + 2 => t >= Horizon
    BY StoredDays, FeedLimits
  <2> QED BY <1>1, <2>1, <2>2, FeedLimits
<1>2. CASE b # NoBound
  <2> DEFINE d == DayOf(b - 1)
  <2>1. b \in Nat /\ b <= Horizon /\ b - 1 \in Int
    BY <1>2, FeedLimits
  <2>2. FirstWindow(b) = [hi |-> d + 1, span |-> 1]
    BY <1>2 DEF FirstWindow
  <2>3. d \in Int /\ d >= -1 /\ d < Today + 2
    <3>1. CASE b = 0
      <4>1. d \in Int /\ DayMicros * d <= -1 /\ -1 < DayMicros * d + DayMicros
        BY <2>1, <3>1, DayBounds
      <4> DEFINE m == DayMicros
      <4> HIDE DEF d, m
      <4>2. m \in Nat /\ m > 0 /\ m * d <= -1 /\ -1 < m * d + m
        BY <4>1, FeedLimits DEF m
      <4>3. d >= -1
        <5> SUFFICES ASSUME d <= -2 PROVE FALSE
          BY <4>1
        <5>1. m * d + m = m * (d + 1) /\ m * (d + 1) <= -m
          BY <4>1, <4>2
        <5> QED BY <4>1, <4>2, <5>1
      <4>4. d < 0
        <5> SUFFICES ASSUME d >= 0 PROVE FALSE
          BY <4>1
        <5>1. m * d >= 0
          BY <4>1, <4>2
        <5> QED BY <4>1, <4>2, <5>1
      <4> QED BY <4>1, <4>3, <4>4, FeedLimits
    <3>2. CASE b # 0
      <4>1. b - 1 \in Nat /\ b - 1 < Horizon
        BY <2>1, <3>2, FeedLimits
      <4> QED BY <4>1, StoredDays, FeedLimits
    <3> QED BY <3>1, <3>2
  <2>4. ASSUME NEW t \in Nat, DayOf(t) >= d + 1 PROVE t >= b
    <3> SUFFICES ASSUME t <= b - 1 PROVE FALSE
      BY <2>1, FeedLimits
    <3>1. DayOf(t) <= d /\ DayOf(t) \in Nat
      BY <2>1, DaysRise, StoredDays
    <3> QED BY <2>3, <2>4, <3>1
  <2> HIDE DEF d
  <2> QED BY <1>2, <2>2, <2>3, <2>4, FeedLimits
<1> QED BY <1>1, <1>2

\* Doubled is 2^n.
LEMMA Doubles ==
    /\ Doubled[0] = 1
    /\ \A n \in 0..MaxWindows : n # MaxWindows => Doubled[n + 1] = 2 * Doubled[n]
    /\ \A n \in 0..MaxWindows : Doubled[n] \in Nat
<1> DEFINE N == MaxWindows
           D == Doubled
           Rec(f, k) == f = [n \in 0..k |-> IF n = 0 THEN 1 ELSE 2 * f[n - 1]]
           Filled(k) == \E f : Rec(f, k)
<1>1. N \in Nat
  BY FeedLimits
<1>2. Filled(N)
  <2> DEFINE T == {k \in Nat : ~Filled(k)}
  <2> SUFFICES ASSUME T # {} PROVE FALSE
    <3> HIDE DEF Filled
    <3> QED BY <1>1
  <2>1. PICK k \in T : \A m \in T : k <= m
    <3>1. T \subseteq Nat
      OBVIOUS
    <3> HIDE DEF T
    <3> QED BY <3>1, LeastNatural
  <2>2. k \in Nat
    OBVIOUS
  <2>3. CASE k = 0
    <3> DEFINE z == [n \in 0..0 |-> 1]
    <3>1. \A n \in 0..0 : n = 0
      OBVIOUS
    <3>2. z = [n \in 0..0 |-> IF n = 0 THEN 1 ELSE 2 * z[n - 1]]
      BY <3>1, Zenon
    <3> QED BY <2>3, <3>2
  <2>4. CASE k # 0
    <3>1. k - 1 \in Nat /\ ~(k <= k - 1)
      BY <2>2, <2>4
    <3>2. PICK f : Rec(f, k - 1)
      BY <2>1, <3>1
    <3> DEFINE g == [n \in 0..k |-> IF n = k THEN 2 * f[k - 1] ELSE f[n]]
    <3>3. \A n \in 0..(k - 1) : f[n] = IF n = 0 THEN 1 ELSE 2 * f[n - 1]
      BY <3>2, Zenon
    <3>4. \A n \in 0..k : n # 0 => g[n - 1] = f[n - 1]
      BY <2>2
    <3>5. \A n \in 0..k : g[n] = IF n = 0 THEN 1 ELSE 2 * g[n - 1]
      <4> SUFFICES ASSUME NEW n \in 0..k PROVE g[n] = IF n = 0 THEN 1 ELSE 2 * g[n - 1]
        OBVIOUS
      <4>1. CASE n = k
        BY <2>4, <3>4, <4>1
      <4>2. CASE n # k
        <5>1. n \in 0..(k - 1) /\ g[n] = f[n]
          BY <2>2, <4>2
        <5> HIDE DEF g
        <5> QED BY <3>3, <3>4, <5>1
      <4> QED BY <4>1, <4>2
    <3>6. DOMAIN g = 0..k /\ g = [n \in DOMAIN g |-> g[n]]
      OBVIOUS
    <3> HIDE DEF g
    <3>7. Rec(g, k)
      BY <3>5, <3>6, Zenon
    <3> QED BY <3>7
  <2> QED BY <2>3, <2>4
<1>3. Rec(D, N)
  BY <1>2, Zenon DEF Doubled
<1>4. D = [n \in 0..N |-> IF n = 0 THEN 1 ELSE 2 * D[n - 1]]
  BY <1>3
<1> HIDE DEF D, N
<1>5. \A n \in 0..N : D[n] = IF n = 0 THEN 1 ELSE 2 * D[n - 1]
  BY <1>4, Zenon
<1>6. D[0] = 1
  BY <1>1, <1>5
<1>7. \A n \in 0..N : n # N => D[n + 1] = 2 * D[n]
  <2> SUFFICES ASSUME NEW n \in 0..N, n # N PROVE D[n + 1] = 2 * D[n]
    OBVIOUS
  <2>1. n + 1 \in 0..N /\ n + 1 # 0 /\ (n + 1) - 1 = n
    BY <1>1
  <2> QED BY <1>5, <2>1
<1>8. \A n \in 0..N : D[n] \in Nat
  <2> DEFINE T == {n \in 0..N : D[n] \notin Nat}
  <2> SUFFICES ASSUME T # {} PROVE FALSE
    OBVIOUS
  <2>1. PICK k \in T : \A m \in T : k <= m
    <3>1. T \subseteq Nat
      BY <1>1
    <3> HIDE DEF T
    <3> QED BY <3>1, LeastNatural
  <2>2. k # 0
    BY <1>6
  <2>3. k - 1 \in 0..N /\ ~(k <= k - 1)
    BY <1>1, <2>2
  <2>4. D[k - 1] \in Nat
    BY <2>1, <2>3
  <2> QED BY <1>5, <2>2, <2>4
<1> QED BY <1>6, <1>7, <1>8 DEF D, N

Shows(s, u) == \E k \in 1..Len(s) : s[k] = u

\* What a sequence shows is its range.
LEMMA ShownRange ==
    ASSUME NEW S, NEW s \in Seq(S), NEW u
    PROVE  u \in Range(s) <=> Shows(s, u)
BY DEF Range, Shows

\* A stored event has a time.
LEMMA StoredTimes ==
    ASSUME FeedStored, NEW u \in DOMAIN fstored
    PROVE  fstored[u] \in Nat /\ u \in Int
BY FeedLimits DEF FeedStored

\* The feed's order.
LEMMA NewerOrders ==
    ASSUME FeedStored, NEW S, S \subseteq DOMAIN fstored
    PROVE  Orders({r \in S \X S : Newer(r[1], r[2])}, S)
<1> DEFINE R == {r \in S \X S : Newer(r[1], r[2])}
<1>1. \A u, v \in S : <<u, v>> \in R <=> Newer(u, v)
  OBVIOUS
<1>2. \A u \in S : fstored[u] \in Nat /\ u \in Int
  BY StoredTimes
<1> HIDE DEF R
<1>3. \A u, v \in S : u # v => Newer(u, v) \/ Newer(v, u)
  BY <1>2 DEF Newer
<1>4. \A u \in S : ~Newer(u, u)
  BY <1>2 DEF Newer
<1>5. \A u, v, w \in S : Newer(u, v) /\ Newer(v, w) => Newer(u, w)
  BY <1>2 DEF Newer
<1>6. Orders(R, S)
  BY <1>1, <1>3, <1>4, <1>5 DEF Orders
<1> QED BY <1>6 DEF R

\* One statement reads the newest rows that pass.
LEMMA WindowNewest ==
    ASSUME FeedStored, NEW rows, rows \subseteq DOMAIN fstored, NEW b, NEW wanted \in Nat
    PROVE  LET w == read_window(rows, b, wanted)
               passing == {u \in rows : b = NoBound \/ fstored[u] < b} IN
           /\ w \in Seq(passing) /\ Len(w) \in Nat /\ Len(w) <= wanted /\ Descends(w)
           /\ \A u \in passing : \/ Shows(w, u)
                                 \/ Len(w) = wanted /\ \A k \in 1..Len(w) : Newer(w[k], u)
<1> DEFINE passing == {u \in rows : b = NoBound \/ fstored[u] < b}
           R == {r \in passing \X passing : Newer(r[1], r[2])}
           s == Ordered(passing, R)
           L == Len(s)
           m == IF L < wanted THEN L ELSE wanted
           w == read_window(rows, b, wanted)
<1>1. passing \subseteq DOMAIN fstored /\ IsFiniteSet(passing) /\ Orders(R, passing)
  <2>1. passing \in SUBSET DOMAIN fstored
    OBVIOUS
  <2>2. IsFiniteSet(passing)
    BY <2>1, FS_Subset DEF FeedStored
  <2> QED BY <2>1, <2>2, NewerOrders
<1>2. \A i, j : <<i, j>> \in R => Newer(i, j)
  OBVIOUS
<1>3. w = SubSeq(s, 1, m)
  BY DEF read_window
<1> HIDE DEF passing, R, w
<1>4. /\ s \in Seq(passing) /\ L \in Nat
      /\ \A i, j \in 1..L : i < j => <<s[i], s[j]>> \in R
      /\ \A u \in passing : \E i \in 1..L : s[i] = u
  BY <1>1, OrderedSorts
<1> HIDE DEF s
<1>5. /\ w \in Seq(passing) /\ Len(w) = m /\ m \in Nat /\ m <= L /\ m <= wanted
      /\ \A k \in 1..m : w[k] = s[k]
  BY <1>3, <1>4
<1>6. Descends(w)
  <2> SUFFICES ASSUME NEW i \in 1..m, NEW j \in 1..m, i < j PROVE Newer(w[i], w[j])
    BY <1>5 DEF Descends, DescendsIn, Newer
  <2> HIDE DEF m, L
  <2>1. i \in 1..L /\ j \in 1..L
    <3>1. L \in Nat /\ m \in Nat /\ m <= L
      BY <1>4, <1>5
    <3> QED BY <3>1
  <2> QED BY <1>2, <1>4, <1>5, <2>1
<1>7. ASSUME NEW u \in passing, ~Shows(w, u)
      PROVE  Len(w) = wanted /\ \A k \in 1..Len(w) : Newer(w[k], u)
  <2>1. PICK i \in 1..L : s[i] = u
    BY <1>4
  <2>2. i \notin 1..m
    BY <1>5, <1>7, <2>1 DEF Shows
  <2>3. m < i /\ m = wanted
    BY <1>4, <1>5, <2>1, <2>2
  <2>4. ASSUME NEW k \in 1..m PROVE Newer(w[k], u)
    <3> HIDE DEF m, L
    <3>1. k \in 1..L /\ k < i
      BY <1>4, <1>5, <2>1, <2>3
    <3>2. w[k] = s[k]
      BY <1>5
    <3>3. <<s[k], s[i]>> \in R
      BY <1>4, <2>1, <3>1
    <3> QED BY <1>2, <2>1, <3>2, <3>3
  <2> QED BY <1>5, <2>3, <2>4
<1>8. Len(w) \in Nat /\ Len(w) <= wanted
  BY <1>5
<1> HIDE DEF m
<1> QED BY <1>5, <1>6, <1>7, <1>8 DEF w, passing

\* A microsecond that has more rows than a page.
LEMMA PageOfTies ==
    ASSUME FeedStored, NEW rows \in Seq(DOMAIN fstored), Descends(rows), Len(rows) = FeedLimit + 1,
           NEW t, \A k \in 1..Len(rows) : fstored[rows[k]] = t
    PROVE  Overfull(t)
<1> DEFINE n == FeedLimit + 1
           same == {u \in DOMAIN fstored : fstored[u] = t}
           f == [k \in 1..n |-> rows[k]]
<1>1. n \in Nat /\ n > FeedLimit /\ FeedLimit \in Nat
  BY FeedLimits
<1>2. f \in [1..n -> same]
  BY <1>1
<1>3. \A i, j \in 1..n : i # j => f[i] # f[j]
  <2> SUFFICES ASSUME NEW i \in 1..n, NEW j \in 1..n, i # j, rows[i] = rows[j] PROVE FALSE
    OBVIOUS
  <2>1. rows[i] \in DOMAIN fstored
    OBVIOUS
  <2>2. ~Newer(rows[i], rows[i])
    BY <2>1, StoredTimes DEF Newer
  <2>3. i < j \/ j < i
    BY <1>1
  <2> QED BY <2>2, <2>3 DEF Descends, DescendsIn, Newer
<1>4. IsFiniteSet(same)
  <2>1. same \in SUBSET DOMAIN fstored
    OBVIOUS
  <2> QED BY <2>1, FS_Subset DEF FeedStored
<1> HIDE DEF same, n
<1>5. f \in Injection(1..n, same)
  BY <1>2, <1>3 DEF Injection, IsInjective
<1> HIDE DEF f
<1>6. Cardinality(1..n) <= Cardinality(same)
  BY <1>4, <1>5, FS_Injection
<1>7. Cardinality(1..n) = n /\ Cardinality(same) \in Nat
  BY <1>1, <1>4, FS_Interval, FS_CardinalityType
<1> QED BY <1>1, <1>6, <1>7 DEF Overfull, same

\* The first rows of a list.
LEMMA Beginning ==
    ASSUME NEW S, NEW rows \in Seq(S), NEW m \in 0..Len(rows)
    PROVE  LET p == SubSeq(rows, 1, m) IN
           p \in Seq(S) /\ Len(p) = m /\ \A k \in 1..m : p[k] = rows[k]
OBVIOUS

\* What a page leaves out is older than its cursor, or its microsecond fills a page.
LEMMA CutPage ==
    ASSUME FeedStored, NEW rows \in Seq(DOMAIN fstored), Descends(rows), Len(rows) = FeedLimit + 1,
           \A k \in 1..Len(rows) : fstored[rows[k]] < Horizon
    PROVE  LET c == cut_page(rows) IN
           /\ c = [page |-> c.page, next |-> c.next] /\ c.page \in Seq(DOMAIN fstored)
           /\ Len(c.page) # 0 /\ Len(c.page) <= FeedLimit /\ \A k \in 1..Len(c.page) : c.page[k] = rows[k]
           /\ c.next \in 0..Horizon
           /\ \A k \in 1..Len(c.page) : fstored[c.page[k]] >= c.next
           /\ \A k \in 1..Len(rows) : fstored[rows[k]] >= c.next =>
                  Shows(c.page, rows[k]) \/ Overfull(fstored[rows[k]])
           /\ \A u \in DOMAIN fstored : /\ Newer(rows[Len(rows)], u) /\ fstored[u] >= c.next
                                        => Overfull(fstored[u])
<1> DEFINE F == FeedLimit
           at(k) == fstored[rows[k]]
           boundary == at(F + 1)
           last == at(F)
           tied == {n \in 1..F : at(n) = boundary}
           first == CHOOSE n \in tied : \A m \in tied : n <= m
           c == cut_page(rows)
           short == SubSeq(rows, 1, F)
<1>1. F \in Nat /\ F > 0 /\ Horizon \in Nat /\ Len(rows) = F + 1
  BY FeedLimits
<1>2. \A k \in 1..(F + 1) : rows[k] \in DOMAIN fstored /\ at(k) \in Nat /\ at(k) < Horizon
  <2> SUFFICES ASSUME NEW k \in 1..(F + 1) PROVE rows[k] \in DOMAIN fstored /\ at(k) \in Nat /\ at(k) < Horizon
    OBVIOUS
  <2>1. rows[k] \in DOMAIN fstored
    BY <1>1
  <2> QED BY <1>1, <2>1, StoredTimes
<1>3. \A i, j \in 1..(F + 1) : i < j => at(i) >= at(j)
  <2> SUFFICES ASSUME NEW i \in 1..(F + 1), NEW j \in 1..(F + 1), i < j PROVE at(i) >= at(j)
    OBVIOUS
  <2>1. Newer(rows[i], rows[j])
    BY <1>1 DEF Descends, DescendsIn, Newer
  <2>2. at(i) \in Nat /\ at(j) \in Nat
    BY <1>2
  <2> QED BY <2>1, <2>2 DEF Newer
<1>4. c = IF last # boundary THEN [page |-> short, next |-> last]
          ELSE IF first = 1 THEN [page |-> short, next |-> boundary]
          ELSE [page |-> SubSeq(rows, 1, first - 1), next |-> boundary + 1]
  <2>1. ~(Len(rows) <= F)
    BY <1>1
  <2> QED BY <2>1 DEF cut_page
<1>5. short \in Seq(DOMAIN fstored) /\ Len(short) = F /\ \A k \in 1..F : short[k] = rows[k]
  <2>1. F \in 0..Len(rows)
    BY <1>1
  <2> QED BY <2>1, Beginning
<1>6. \A u \in DOMAIN fstored : Newer(rows[F + 1], u) => fstored[u] \in Nat /\ fstored[u] <= boundary
  <2> SUFFICES ASSUME NEW u \in DOMAIN fstored, Newer(rows[F + 1], u) PROVE fstored[u] \in Nat /\ fstored[u] <= boundary
    OBVIOUS
  <2>1. fstored[u] \in Nat /\ boundary \in Nat
    BY <1>1, <1>2, StoredTimes
  <2> QED BY <2>1 DEF Newer
<1>7. 1 \in 1..(F + 1) /\ F \in 1..(F + 1) /\ F + 1 \in 1..(F + 1) /\ \A k \in 1..F : k \in 1..(F + 1)
  BY <1>1
<1>8. last >= boundary /\ last \in Nat /\ boundary \in Nat /\ last < Horizon /\ boundary < Horizon
  BY <1>1, <1>2, <1>3, <1>7
<1>9. \A k \in 1..(F + 1) : k \in 1..F \/ k = F + 1
  BY <1>1
<1>10. \A k \in 1..F : at(k) \in Nat /\ at(k) >= last
  <2> SUFFICES ASSUME NEW k \in 1..F PROVE at(k) \in Nat /\ at(k) >= last
    OBVIOUS
  <2>1. k = F \/ k < F
    BY <1>1
  <2> QED BY <1>2, <1>3, <1>7, <1>8, <2>1
<1> HIDE DEF c, short, first
<1>11. CASE last # boundary
  <2>1. c = [page |-> short, next |-> last]
    BY <1>4, <1>11
  <2>2. \A k \in 1..(F + 1) : at(k) >= last => Shows(short, rows[k])
    <3> SUFFICES ASSUME NEW k \in 1..(F + 1), at(k) >= last PROVE Shows(short, rows[k])
      OBVIOUS
    <3>1. k \in 1..F
      BY <1>8, <1>9, <1>11
    <3> QED BY <1>5, <3>1 DEF Shows
  <2>3. \A u \in DOMAIN fstored : Newer(rows[F + 1], u) => ~(fstored[u] >= last)
    <3> SUFFICES ASSUME NEW u \in DOMAIN fstored, Newer(rows[F + 1], u), fstored[u] >= last PROVE FALSE
      OBVIOUS
    <3>1. fstored[u] \in Nat /\ fstored[u] <= boundary
      BY <1>6
    <3> HIDE DEF last, boundary
    <3> QED BY <1>8, <1>11, <3>1
  <2>4. c.page = short /\ c.next = last /\ last \in 0..Horizon
    BY <1>8, <2>1, FeedLimits
  <2> QED BY <1>1, <1>5, <1>10, <2>1, <2>2, <2>3, <2>4 DEF c
<1>12. CASE last = boundary
  <2>1. first \in tied /\ \A m \in tied : first <= m
    <3>1. F \in tied /\ tied \subseteq Nat
      BY <1>1, <1>12
    <3> HIDE DEF tied
    <3>2. \E n \in tied : \A m \in tied : n <= m
      BY <3>1, LeastNatural
    <3> QED BY <3>2 DEF first
  <2>2. first \in 1..F /\ at(first) = boundary
    BY <2>1
  <2>3. CASE first = 1
    <3>1. c = [page |-> short, next |-> boundary]
      BY <1>4, <1>12, <2>3
    <3>2. \A k \in 1..(F + 1) : at(k) = boundary
      <4> SUFFICES ASSUME NEW k \in 1..(F + 1) PROVE at(k) = boundary
        OBVIOUS
      <4>1. at(k) \in Nat /\ (k = 1 \/ 1 < k) /\ (k = F + 1 \/ k < F + 1)
        BY <1>1, <1>2
      <4>2. at(k) <= at(1)
        BY <1>2, <1>3, <1>7, <4>1
      <4>3. at(k) >= boundary
        BY <1>3, <1>7, <1>8, <4>1
      <4> QED BY <1>8, <2>2, <2>3, <4>1, <4>2, <4>3
    <3>3. Overfull(boundary)
      BY <1>1, <3>2, PageOfTies
    <3>4. \A u \in DOMAIN fstored : Newer(rows[F + 1], u) /\ fstored[u] >= boundary => Overfull(fstored[u])
      <4> SUFFICES ASSUME NEW u \in DOMAIN fstored, Newer(rows[F + 1], u), fstored[u] >= boundary
                   PROVE  Overfull(fstored[u])
        OBVIOUS
      <4>1. fstored[u] \in Nat /\ fstored[u] <= boundary
        BY <1>6
      <4>2. fstored[u] = boundary
        BY <1>8, <4>1
      <4> QED BY <3>3, <4>2
    <3>5. c.page = short /\ c.next = boundary /\ boundary \in 0..Horizon
      BY <1>8, <3>1, FeedLimits
    <3>6. \A k \in 1..F : at(k) >= boundary
      BY <1>8, <1>10, <1>12
    <3>7. \A k \in 1..(F + 1) : Overfull(at(k))
      BY <3>2, <3>3
    <3> QED BY <1>1, <1>5, <3>1, <3>4, <3>5, <3>6, <3>7 DEF c
  <2>4. CASE first # 1
    <3> DEFINE m == first - 1
               kept == SubSeq(rows, 1, m)
    <3>1. c = [page |-> kept, next |-> boundary + 1]
      BY <1>4, <1>12, <2>4
    <3>2. m \in 0..Len(rows) /\ m \in Nat /\ m # 0 /\ m <= F /\ \A k \in 1..m : k \in 1..F /\ ~(first <= k)
      BY <1>1, <2>2, <2>4
    <3>3. kept \in Seq(DOMAIN fstored) /\ Len(kept) = m /\ \A k \in 1..m : kept[k] = rows[k]
      BY <3>2, Beginning
    <3>4. \A k \in 1..m : at(k) >= boundary + 1
      <4> SUFFICES ASSUME NEW k \in 1..m PROVE at(k) >= boundary + 1
        OBVIOUS
      <4>1. k \in 1..F /\ k \notin tied
        BY <2>1, <3>2
      <4>2. at(k) # boundary
        BY <4>1
      <4> QED BY <1>8, <1>10, <1>12, <4>1, <4>2
    <3>5. \A k \in 1..(F + 1) : at(k) >= boundary + 1 => Shows(kept, rows[k])
      <4> SUFFICES ASSUME NEW k \in 1..(F + 1), at(k) >= boundary + 1 PROVE Shows(kept, rows[k])
        OBVIOUS
      <4>1. k < first
        <5> SUFFICES ASSUME k >= first PROVE FALSE
          BY <1>1, <2>2
        <5>1. k = first \/ first < k
          BY <1>1, <2>2
        <5>2. at(first) >= at(k)
          BY <1>2, <1>3, <1>7, <2>2, <5>1
        <5> QED BY <1>2, <1>8, <2>2, <5>2
      <4>2. k \in 1..m
        BY <1>1, <2>2, <4>1
      <4> QED BY <3>3, <4>2 DEF Shows
    <3>6. \A u \in DOMAIN fstored : Newer(rows[F + 1], u) => ~(fstored[u] >= boundary + 1)
      BY <1>6, <1>8
    <3> HIDE DEF kept, m
    <3>7. c.page = kept /\ c.next = boundary + 1 /\ boundary + 1 \in 0..Horizon
      BY <1>8, <3>1, FeedLimits
    <3> QED BY <1>1, <3>1, <3>2, <3>3, <3>4, <3>5, <3>6, <3>7 DEF c
  <2> QED BY <2>3, <2>4
<1> QED BY <1>11, <1>12

\* Two lists, one newer than the other.
LEMMA Joined ==
    ASSUME NEW S, NEW s \in Seq(S), NEW t \in Seq(S), Descends(s), Descends(t),
           \A i \in 1..Len(s), j \in 1..Len(t) : Newer(s[i], t[j])
    PROVE  /\ s \o t \in Seq(S) /\ Len(s \o t) = Len(s) + Len(t) /\ Descends(s \o t)
           /\ \A k \in 1..Len(s \o t) : (s \o t)[k] \in {s[i] : i \in 1..Len(s)} \cup {t[j] : j \in 1..Len(t)}
           /\ \A u : Shows(s \o t, u) <=> Shows(s, u) \/ Shows(t, u)
<1> DEFINE a == Len(s)
           b == Len(t)
           z == s \o t
<1>1. /\ a \in Nat /\ b \in Nat /\ z \in Seq(S) /\ Len(z) = a + b
      /\ \A k \in 1..a : z[k] = s[k]
      /\ \A k \in 1..b : z[a + k] = t[k]
  OBVIOUS
<1> HIDE DEF a, b, z
<1>2. \A k \in 1..(a + b) : k \in 1..a \/ (k - a \in 1..b /\ k = a + (k - a))
  BY <1>1
<1>3. \A k \in 1..(a + b) : k \in 1..a => z[k] = s[k]
  BY <1>1
<1>4. \A k \in 1..(a + b) : k - a \in 1..b => z[k] = t[k - a]
  <2> SUFFICES ASSUME NEW k \in 1..(a + b), k - a \in 1..b PROVE z[k] = t[k - a]
    OBVIOUS
  <2>1. z[a + (k - a)] = t[k - a] /\ a + (k - a) = k
    BY <1>1
  <2> QED BY <2>1
<1>5. Descends(z)
  <2> SUFFICES ASSUME NEW i \in 1..(a + b), NEW j \in 1..(a + b), i < j PROVE Newer(z[i], z[j])
    BY <1>1 DEF Descends, DescendsIn, Newer
  <2>1. CASE i \in 1..a /\ j \in 1..a
    BY <1>3, <2>1 DEF Descends, DescendsIn, Newer, a
  <2>2. CASE i \in 1..a /\ j - a \in 1..b
    BY <1>3, <1>4, <2>2 DEF a, b
  <2>3. CASE i - a \in 1..b /\ j - a \in 1..b
    <3>1. i - a < j - a
      BY <1>1
    <3> QED BY <1>4, <2>3, <3>1 DEF Descends, DescendsIn, Newer, b
  <2>4. CASE i - a \in 1..b /\ j \in 1..a
    BY <1>1, <2>4
  <2> QED BY <1>2, <2>1, <2>2, <2>3, <2>4
<1>6. \A k \in 1..(a + b) : z[k] \in {s[i] : i \in 1..a} \cup {t[j] : j \in 1..b}
  BY <1>2, <1>3, <1>4
<1>7. \A u : Shows(z, u) <=> Shows(s, u) \/ Shows(t, u)
  <2> SUFFICES ASSUME NEW u PROVE Shows(z, u) <=> Shows(s, u) \/ Shows(t, u)
    OBVIOUS
  <2>1. Shows(z, u) => Shows(s, u) \/ Shows(t, u)
    <3> SUFFICES ASSUME NEW k \in 1..(a + b), z[k] = u PROVE Shows(s, u) \/ Shows(t, u)
      BY <1>1 DEF Shows
    <3> QED BY <1>2, <1>3, <1>4 DEF Shows, a, b
  <2>2. Shows(s, u) => Shows(z, u)
    <3> SUFFICES ASSUME NEW k \in 1..a, s[k] = u PROVE Shows(z, u)
      BY DEF Shows, a
    <3>1. k \in 1..(a + b)
      BY <1>1
    <3> QED BY <1>1, <3>1 DEF Shows
  <2>3. Shows(t, u) => Shows(z, u)
    <3> SUFFICES ASSUME NEW k \in 1..b, t[k] = u PROVE Shows(z, u)
      BY DEF Shows, b
    <3>1. a + k \in 1..(a + b)
      BY <1>1
    <3> QED BY <1>1, <3>1 DEF Shows
  <2> QED BY <2>1, <2>2, <2>3
<1> QED BY <1>1, <1>5, <1>6, <1>7 DEF a, b, z

WalkLo == IF reading.hi > reading.span THEN reading.hi - reading.span ELSE 0
WalkRows == reading.rows \o
              read_window(FilesOf(WalkLo, reading.hi), reading.before, FeedLimit + 1 - Len(reading.rows))

\* One more window: what it leaves out is older than all that was read, and left out
\* because the page is full or the walk is not there yet.
LEMMA WindowWalked ==
    ASSUME FeedInv, reading.pc = "walk"
    PROVE  /\ WalkLo \in Nat
           /\ WalkRows \in Seq(DOMAIN fstored) /\ Len(WalkRows) \in Nat /\ Len(WalkRows) <= FeedLimit + 1
           /\ Descends(WalkRows)
           /\ FilesOf(WalkLo, reading.hi) = {} => Len(WalkRows) <= FeedLimit
           /\ \A k \in 1..Len(WalkRows) :
                 fstored[WalkRows[k]] < Reached /\ DayOf(fstored[WalkRows[k]]) >= WalkLo
           /\ \A u \in reading.due : fstored[u] < Reached =>
                 \/ Shows(WalkRows, u)
                 \/ /\ Len(WalkRows) = FeedLimit + 1 \/ DayOf(fstored[u]) < WalkLo
                    /\ \A k \in 1..Len(WalkRows) : Newer(WalkRows[k], u)
<1> DEFINE D == DOMAIN fstored
           r == reading.rows
           lo == WalkLo
           hi == reading.hi
           files == FilesOf(lo, hi)
           wanted == FeedLimit + 1 - Len(r)
           passing == {u \in files : reading.before = NoBound \/ fstored[u] < reading.before}
           w == read_window(files, reading.before, wanted)
           z == WalkRows
<1>1. FeedStored /\ r \in Seq(D) /\ Len(r) \in Nat /\ Len(r) <= FeedLimit /\ Descends(r) /\ reading.due \subseteq D
  BY DEF FeedInv, FeedReader, WalkedDown
<1>2. /\ \A k \in 1..Len(r) : fstored[r[k]] < Reached /\ DayOf(fstored[r[k]]) >= hi
      /\ \A u \in reading.due : fstored[u] < Reached /\ DayOf(fstored[u]) >= hi => Shows(r, u)
  BY <1>1, ShownRange DEF FeedInv, WalkedDown
<1>3. hi \in Nat /\ reading.span \in Nat /\ lo \in Nat /\ lo <= hi
  BY DEF FeedInv, FeedReader, WalkLo
<1>4. \A u \in D : fstored[u] \in Nat /\ DayOf(fstored[u]) \in Nat
  BY <1>1, StoredTimes, StoredDays
<1>5. files \subseteq D /\ \A u \in D : u \in files <=> DayOf(fstored[u]) >= lo /\ DayOf(fstored[u]) < hi
  <2>1. \A u \in D : DayOf(fstored[u]) \in lo..(hi - 1) <=> DayOf(fstored[u]) >= lo /\ DayOf(fstored[u]) < hi
    BY <1>3, <1>4
  <2> QED BY <2>1 DEF FilesOf
\* The files of a window lie before the horizon.
<1>20. ASSUME NEW u \in files
       PROVE  (reading.before = NoBound \/ fstored[u] < reading.before) <=> fstored[u] < Reached
  <2>1. u \in D /\ DayOf(fstored[u]) \in Nat /\ DayOf(fstored[u]) < hi /\ hi <= Today + 2 /\ Today \in Nat
    BY <1>4, <1>5, FeedLimits DEF FeedInv, WalkedDown
  <2>2. fstored[u] \in Nat /\ fstored[u] < Horizon
    BY <1>3, <1>4, <2>1, StoredDays
  <2> QED BY <2>2 DEF Reached
<1>6. wanted \in Nat /\ wanted + Len(r) = FeedLimit + 1 /\ FeedLimit \in Nat
  BY <1>1, FeedLimits
<1>7. z = r \o w
  BY DEF WalkRows
<1>8. \A u : u \in passing <=> u \in files /\ fstored[u] < Reached
  BY <1>20
<1> HIDE DEF lo, hi, files, wanted, w, z, r
<1>9. /\ w \in Seq(passing) /\ Len(w) \in Nat /\ Len(w) <= wanted /\ Descends(w)
      /\ \A u \in passing : \/ Shows(w, u)
                            \/ Len(w) = wanted /\ \A k \in 1..Len(w) : Newer(w[k], u)
  BY <1>1, <1>5, <1>6, WindowNewest DEF w
<1> HIDE DEF passing
<1>10. \A j \in 1..Len(w) : w[j] \in passing /\ w[j] \in files /\ w[j] \in D
  BY <1>5, <1>8, <1>9
<1>11. w \in Seq(D)
  BY <1>9, <1>10
<1>12. \A i \in 1..Len(r) : r[i] \in D
  BY <1>1
\* A row of an earlier window is newer than an event of a later day.
<1>13. ASSUME NEW u \in D, NEW v \in D, DayOf(fstored[u]) >= hi, DayOf(fstored[v]) < hi PROVE Newer(u, v)
  <2>1. fstored[u] \in Int /\ fstored[v] \in Int /\ DayOf(fstored[u]) \in Int /\ DayOf(fstored[v]) \in Int
    BY <1>4
  <2>2. ~(fstored[u] <= fstored[v])
    BY <1>3, <1>13, <2>1, DaysRise
  <2> QED BY <2>1, <2>2 DEF Newer
<1>14. \A i \in 1..Len(r), j \in 1..Len(w) : Newer(r[i], w[j])
  BY <1>2, <1>5, <1>10, <1>12, <1>13
<1>15. /\ z \in Seq(D) /\ Len(z) = Len(r) + Len(w) /\ Descends(z)
       /\ \A k \in 1..Len(z) : z[k] \in {r[i] : i \in 1..Len(r)} \cup {w[j] : j \in 1..Len(w)}
       /\ \A u : Shows(z, u) <=> Shows(r, u) \/ Shows(w, u)
  BY <1>1, <1>7, <1>9, <1>11, <1>14, Joined
<1>16. Len(z) \in Nat /\ Len(z) <= FeedLimit + 1
  BY <1>1, <1>6, <1>9, <1>15
<1>17. ASSUME files = {} PROVE Len(z) <= FeedLimit
  <2>1. \A j \in 1..Len(w) : FALSE
    BY <1>10, <1>17
  <2>2. Len(w) = 0
    BY <1>9, <2>1
  <2> QED BY <1>1, <1>6, <1>15, <2>2
<1>18. \A k \in 1..Len(z) : fstored[z[k]] < Reached /\ DayOf(fstored[z[k]]) >= lo
  <2> SUFFICES ASSUME NEW k \in 1..Len(z) PROVE fstored[z[k]] < Reached /\ DayOf(fstored[z[k]]) >= lo
    OBVIOUS
  <2>1. CASE \E i \in 1..Len(r) : z[k] = r[i]
    <3>1. PICK i \in 1..Len(r) : z[k] = r[i]
      BY <2>1
    <3>2. DayOf(fstored[r[i]]) \in Nat /\ DayOf(fstored[r[i]]) >= hi
      BY <1>2, <1>4, <1>12
    <3> QED BY <1>2, <1>3, <3>1, <3>2
  <2>2. CASE \E j \in 1..Len(w) : z[k] = w[j]
    BY <1>5, <1>8, <1>10, <2>2
  <2> QED BY <1>15, <2>1, <2>2
<1>19. ASSUME NEW u \in reading.due, fstored[u] < Reached, ~Shows(z, u)
       PROVE  /\ Len(z) = FeedLimit + 1 \/ DayOf(fstored[u]) < lo
              /\ \A k \in 1..Len(z) : Newer(z[k], u)
  <2>1. u \in D /\ DayOf(fstored[u]) \in Nat /\ DayOf(fstored[u]) < hi
    BY <1>1, <1>2, <1>3, <1>4, <1>15, <1>19
  <2>2. \A i \in 1..Len(r) : Newer(r[i], u)
    BY <1>2, <1>12, <1>13, <2>1
  <2>3. CASE DayOf(fstored[u]) >= lo
    <3>1. u \in passing
      BY <1>5, <1>8, <1>19, <2>1, <2>3
    <3>2. Len(w) = wanted /\ \A k \in 1..Len(w) : Newer(w[k], u)
      BY <1>9, <1>15, <1>19, <3>1
    <3> QED BY <1>6, <1>15, <2>2, <3>2
  <2>4. CASE DayOf(fstored[u]) < lo
    <3>1. \A j \in 1..Len(w) : Newer(w[j], u)
      <4> SUFFICES ASSUME NEW j \in 1..Len(w) PROVE Newer(w[j], u)
        OBVIOUS
      <4>1. w[j] \in D /\ DayOf(fstored[w[j]]) >= lo /\ fstored[w[j]] \in Int /\ fstored[u] \in Int
            /\ DayOf(fstored[w[j]]) \in Int
        BY <1>4, <1>5, <1>10, <2>1
      <4>2. ~(fstored[w[j]] <= fstored[u])
        BY <1>3, <2>1, <2>4, <4>1, DaysRise
      <4> QED BY <4>1, <4>2 DEF Newer
    <3> QED BY <1>15, <2>2, <2>4, <3>1
  <2> QED BY <1>3, <2>1, <2>3, <2>4
<1> QED BY <1>3, <1>15, <1>16, <1>17, <1>18, <1>19 DEF lo, hi, files, z

\* Nothing is stored, nobody reads.
LEMMA FeedStarts == FeedListsInit => FeedInv
<1> SUFFICES ASSUME FeedListsInit PROVE FeedInv
  OBVIOUS
<1>1. DOMAIN fstored = {} /\ fstored \in [DOMAIN fstored -> Nat]
  BY DEF FeedListsInit
<1>2. reading = [pc |-> "end", before |-> NoBound, shown |-> <<>>, due |-> {}]
  BY DEF FeedListsInit
<1>3. FeedStored
  BY <1>1, FS_EmptySet DEF FeedStored
<1>4. FeedReader
  BY <1>2 DEF FeedReader
<1>5. ShownDown
  BY <1>2 DEF ShownDown, Descends, DescendsIn
<1>6. WalkedDown
  BY <1>2 DEF WalkedDown
<1> QED BY <1>3, <1>4, <1>5, <1>6 DEF FeedInv

\* A request for a page.
LEMMA AskFeedKeeps == FeedInv /\ AskFeed => FeedInv'
<1> SUFFICES ASSUME FeedInv, AskFeed PROVE FeedInv'
  OBVIOUS
<1> DEFINE w == FirstWindow(reading.before)
           first == reading.pc = "end"
           shown == IF first THEN <<>> ELSE reading.shown
           due == IF first THEN DOMAIN fstored ELSE reading.due
           b == reading.before
           top == IF b = NoBound THEN Horizon ELSE b
<1>1. /\ fstored' = fstored /\ reading.pc # "walk"
      /\ reading' = [pc |-> "walk", before |-> b, hi |-> w.hi, span |-> w.span,
                     issued |-> 0, rows |-> <<>>, shown |-> shown, due |-> due]
  BY DEF AskFeed
<1>2. /\ b \in {NoBound} \cup 0..Horizon /\ reading.pc \in {"end", "page"} /\ (first <=> b = NoBound)
      /\ reading.due \subseteq DOMAIN fstored /\ reading.shown \in Seq(DOMAIN fstored)
  BY <1>1 DEF FeedInv, FeedReader
<1>3. FeedStored
  BY DEF FeedInv
<1>4. /\ w.hi \in Nat /\ w.span \in Nat /\ w.span >= 1 /\ w.hi + w.span <= Today + 4 /\ w.hi <= Today + 2
      /\ \A t \in Nat : DayOf(t) >= w.hi => t >= top
  BY <1>2, WalkStarts
<1>5. Reached' = top
  BY <1>1 DEF Reached, Horizon
<1>6. shown \in Seq(DOMAIN fstored) /\ due \subseteq DOMAIN fstored
  <2>1. CASE first
    BY <2>1
  <2>2. CASE ~first
    BY <1>2, <2>2
  <2> QED BY <2>1, <2>2
<1>7. \A u \in DOMAIN fstored : fstored[u] \in Nat
  BY <1>3, StoredTimes
<1>8. Descends(shown) /\ (\A k \in 1..Len(shown) : fstored[shown[k]] >= top)
      /\ \A u \in due : fstored[u] < Horizon /\ fstored[u] >= top => u \in Range(shown) \/ Overfull(fstored[u])
  <2>1. CASE first
    <3>1. shown = <<>> /\ due = DOMAIN fstored /\ top = Horizon /\ Horizon \in Nat
      BY <1>2, <2>1, FeedLimits
    <3> HIDE DEF shown, due, top
    <3> QED BY <1>7, <3>1 DEF Descends, DescendsIn
  <2>2. CASE ~first
    <3>1. shown = reading.shown /\ due = reading.due /\ top = Reached
      BY <1>2, <2>2 DEF Reached
    <3> HIDE DEF shown, due, top
    <3> QED BY <3>1 DEF FeedInv, ShownDown
  <2> QED BY <2>1, <2>2
<1> HIDE DEF w, shown, due, top
<1>9. FeedStored'
  BY <1>1, <1>3 DEF FeedStored, Horizon
<1>10. FeedReader'
  BY <1>1, <1>2, <1>4, <1>6 DEF FeedReader, Horizon
<1>11. ShownDown'
  BY <1>1, <1>5, <1>8 DEF ShownDown, Descends, Overfull, Horizon
<1>12. WalkedDown'
  <2>1. 0 < MaxWindows /\ Doubled[0] = 1
    <3>1. MaxWindows # 0
      BY Doubles, FeedAssumption, FeedLimits
    <3> QED BY <3>1, Doubles, FeedLimits
  <2>2. /\ reading'.rows = <<>> /\ reading'.issued = 0
        /\ reading'.span = w.span /\ reading'.hi = w.hi /\ reading'.due = due
    BY <1>1
  <2>3. \A u \in due : ~(fstored[u] < top /\ DayOf(fstored[u]) >= w.hi)
    <3> SUFFICES ASSUME NEW u \in due, fstored[u] < top, DayOf(fstored[u]) >= w.hi PROVE FALSE
      OBVIOUS
    <3>1. fstored[u] \in Nat
      BY <1>6, <1>7
    <3>2. fstored[u] >= top /\ top \in Int
      BY <1>2, <1>4, <3>1, FeedLimits DEF top
    <3> QED BY <3>1, <3>2
  <2>4. Len(reading'.rows) = 0 /\ 1..Len(reading'.rows) = {}
    BY <2>2
  <2>5. Descends(<<>>)'
    BY DEF Descends, DescendsIn
  <2>6. reading'.span >= Doubled[reading'.issued] /\ reading'.hi + reading'.span <= Today + 4
        /\ reading'.hi <= Today + 2
    BY <1>4, <2>1, <2>2
  <2>7. \A u \in due : ~(fstored'[u] < Reached' /\ DayOf(fstored[u])' >= w.hi)
    BY <1>1, <1>5, <2>3 DEF DayOf
  <2> QED BY <2>1, <2>2, <2>4, <2>5, <2>6, <2>7, FeedLimits DEF WalkedDown, Descends
<1> QED BY <1>9, <1>10, <1>11, <1>12 DEF FeedInv

\* One more window, and perhaps the end of the page.
LEMMA ReadWindowKeeps == FeedInv /\ ReadWindow => FeedInv'
<1> SUFFICES ASSUME FeedInv, ReadWindow PROVE FeedInv'
  OBVIOUS
<1> DEFINE lo == WalkLo
           rows == WalkRows
           cut == cut_page(rows)
           files == FilesOf(lo, reading.hi)
           full == files # {} /\ Len(rows) > FeedLimit
           ends == full \/ FilesOf(0, lo) = {} \/ reading.issued + 1 = MaxWindows \/ lo = 0
           stops == [pc |-> IF cut.next = NoBound THEN "end" ELSE "page",
                     before |-> cut.next, shown |-> reading.shown \o cut.page, due |-> reading.due]
           goes == [reading EXCEPT !.rows = rows, !.hi = lo, !.span = 2 * @, !.issued = @ + 1]
<1>1. fstored' = fstored /\ reading.pc = "walk" /\ reading' = IF ends THEN stops ELSE goes
  BY DEF ReadWindow, WalkLo, WalkRows, NothingOlder
<1>2. FeedStored /\ FeedReader /\ ShownDown /\ WalkedDown
  BY DEF FeedInv
<1>3. /\ lo \in Nat /\ rows \in Seq(DOMAIN fstored) /\ Len(rows) \in Nat /\ Len(rows) <= FeedLimit + 1
      /\ Descends(rows) /\ (files = {} => Len(rows) <= FeedLimit)
      /\ \A k \in 1..Len(rows) : fstored[rows[k]] < Reached /\ DayOf(fstored[rows[k]]) >= lo
      /\ \A u \in reading.due : fstored[u] < Reached =>
           \/ Shows(rows, u)
           \/ /\ Len(rows) = FeedLimit + 1 \/ DayOf(fstored[u]) < lo
              /\ \A k \in 1..Len(rows) : Newer(rows[k], u)
  BY <1>1, WindowWalked
<1>4. \A u \in DOMAIN fstored : fstored[u] \in Nat /\ DayOf(fstored[u]) \in Nat
  BY <1>2, StoredTimes, StoredDays
<1>5. reading.shown \in Seq(DOMAIN fstored) /\ reading.due \subseteq DOMAIN fstored
      /\ Reached \in Nat /\ Reached <= Horizon /\ Horizon \in Nat
      /\ reading.before \in {NoBound} \cup 0..Horizon
  BY <1>1, <1>2, FeedLimits DEF FeedReader, Reached
<1>6. /\ {reading.hi, reading.span, reading.issued} \subseteq Nat
      /\ reading = [pc |-> "walk", before |-> reading.before, hi |-> reading.hi, span |-> reading.span,
                    issued |-> reading.issued, rows |-> reading.rows,
                    shown |-> reading.shown, due |-> reading.due]
  BY <1>1, <1>2 DEF FeedReader
<1>7. FeedStored'
  BY <1>1, <1>2 DEF FeedStored, Horizon
\* At the last window the walk stands at the first day.
<1>8. reading.issued + 1 = MaxWindows => lo = 0
  <2> DEFINE n == reading.issued
  <2>1. n < MaxWindows /\ n \in Nat /\ reading.span >= Doubled[n] /\ reading.hi + reading.span <= Today + 4
    BY <1>1, <1>2, <1>6 DEF WalkedDown
  <2> SUFFICES ASSUME n + 1 = MaxWindows, lo # 0 PROVE FALSE
    OBVIOUS
  <2>2. n \in 0..MaxWindows /\ n # MaxWindows
    BY <2>1, FeedLimits
  <2>3. Doubled[MaxWindows] = 2 * Doubled[n] /\ Doubled[n] \in Nat
    BY <2>2, Doubles
  <2>4. Doubled[MaxWindows] >= Today + 4
    BY FeedAssumption
  <2>5. reading.hi > reading.span
    BY DEF WalkLo
  <2> HIDE DEF n, lo
  <2> QED BY <1>6, <2>1, <2>3, <2>4, <2>5, FeedLimits
<1> HIDE DEF lo, rows, files
<1>9. CASE ends
  <2>1. reading' = stops
    BY <1>1, <1>9
  <2> DEFINE page == cut.page
             next == cut.next
  <2>2. /\ page \in Seq(DOMAIN fstored) /\ next \in {NoBound} \cup 0..Horizon
        /\ Len(page) <= Len(rows) /\ \A k \in 1..Len(page) : page[k] = rows[k]
        /\ next # NoBound => Len(page) # 0 /\ \A k \in 1..Len(page) : fstored[page[k]] >= next
        /\ \A u \in reading.due : fstored[u] < Reached /\ (next = NoBound \/ fstored[u] >= next) =>
              Shows(page, u) \/ Overfull(fstored[u])
    <3>1. CASE Len(rows) <= FeedLimit
      <4>1. page = rows /\ next = NoBound
        BY <3>1 DEF cut_page
      <4>2. ASSUME NEW u \in reading.due, fstored[u] < Reached PROVE Shows(rows, u)
        <5> SUFFICES ASSUME ~Shows(rows, u) PROVE FALSE
          OBVIOUS
        <5>1. Len(rows) # FeedLimit + 1
          BY <1>3, <3>1, FeedLimits
        <5>2. u \in DOMAIN fstored /\ DayOf(fstored[u]) \in Nat /\ DayOf(fstored[u]) < lo
          BY <1>3, <1>4, <1>5, <4>2, <5>1
        <5>3. lo # 0
          BY <5>2
        <5>4. ~full
          BY <1>3, <3>1, FeedLimits
        <5>5. FilesOf(0, lo) = {}
          BY <1>8, <1>9, <5>3, <5>4
        <5>6. u \in FilesOf(0, lo)
          BY <1>3, <5>2 DEF FilesOf
        <5> QED BY <5>5, <5>6
      <4> HIDE DEF page, next
      <4> QED BY <1>3, <4>1, <4>2
    <3>2. CASE ~(Len(rows) <= FeedLimit)
      <4>1. Len(rows) = FeedLimit + 1
        BY <1>3, <3>2, FeedLimits
      <4>2. /\ page \in Seq(DOMAIN fstored) /\ Len(page) <= FeedLimit /\ next \in 0..Horizon
            /\ Len(page) # 0 /\ \A k \in 1..Len(page) : page[k] = rows[k] /\ fstored[page[k]] >= next
            /\ \A k \in 1..Len(rows) : fstored[rows[k]] >= next => Shows(page, rows[k]) \/ Overfull(fstored[rows[k]])
            /\ \A u \in DOMAIN fstored : Newer(rows[Len(rows)], u) /\ fstored[u] >= next => Overfull(fstored[u])
        <5>1. \A k \in 1..Len(rows) : fstored[rows[k]] < Horizon
          BY <1>3, <1>4, <1>5
        <5> QED BY <1>2, <1>3, <4>1, <5>1, CutPage
      <4> HIDE DEF page, next, cut
      <4>3. next # NoBound /\ Len(rows) \in 1..Len(rows)
        BY <4>1, <4>2, FeedLimits DEF NoBound
      <4>4. ASSUME NEW u \in reading.due, fstored[u] < Reached, fstored[u] >= next
            PROVE  Shows(page, u) \/ Overfull(fstored[u])
        <5>1. CASE Shows(rows, u)
          BY <4>2, <4>4, <5>1 DEF Shows
        <5>2. CASE ~Shows(rows, u)
          BY <1>3, <1>5, <4>2, <4>3, <4>4, <5>2
        <5> QED BY <5>1, <5>2
      <4>5. Len(page) <= Len(rows)
        BY <4>1, <4>2, FeedLimits
      <4> QED BY <4>2, <4>3, <4>4, <4>5
    <3> QED BY <3>1, <3>2
  <2> DEFINE shown == reading.shown \o page
  <2>3. reading' = [pc |-> IF next = NoBound THEN "end" ELSE "page", before |-> next, shown |-> shown,
                    due |-> reading.due]
    BY <2>1
  <2> HIDE DEF page, next, cut
  <2>4. Len(page) \in Nat /\ \A k \in 1..Len(page) : /\ k \in 1..Len(rows) /\ page[k] \in DOMAIN fstored
                                                     /\ fstored[page[k]] < Reached /\ fstored[page[k]] \in Nat
    <3>1. Len(page) \in Nat /\ Len(rows) \in Nat /\ Len(page) <= Len(rows)
      BY <1>3, <2>2
    <3> SUFFICES ASSUME NEW k \in 1..Len(page)
                 PROVE  /\ k \in 1..Len(rows) /\ page[k] \in DOMAIN fstored
                        /\ fstored[page[k]] < Reached /\ fstored[page[k]] \in Nat
      BY <3>1
    <3>2. k \in 1..Len(rows) /\ page[k] = rows[k] /\ page[k] \in DOMAIN fstored
      BY <2>2, <3>1
    <3> QED BY <1>3, <1>4, <3>2
  <2>5. Descends(page)
    <3>1. \A k \in 1..Len(page) : k \in 1..Len(rows) /\ page[k] = rows[k]
      BY <2>2, <2>4
    <3> QED BY <1>3, <3>1 DEF Descends, DescendsIn
  <2> DEFINE old == reading.shown
  <2>6. /\ Descends(old) /\ old \in Seq(DOMAIN fstored) /\ shown = old \o page
        /\ \A k \in 1..Len(old) : old[k] \in DOMAIN fstored /\ fstored[old[k]] >= Reached
    BY <1>2, <1>5 DEF ShownDown
  <2> HIDE DEF old, shown
  <2>7. \A i \in 1..Len(old), j \in 1..Len(page) : Newer(old[i], page[j])
    <3> SUFFICES ASSUME NEW i \in 1..Len(old), NEW j \in 1..Len(page) PROVE Newer(old[i], page[j])
      OBVIOUS
    <3>1. fstored[old[i]] \in Nat /\ fstored[old[i]] >= Reached
      BY <1>4, <2>6
    <3> QED BY <1>5, <2>4, <3>1 DEF Newer
  <2>8. /\ shown \in Seq(DOMAIN fstored) /\ Descends(shown)
        /\ \A k \in 1..Len(shown) : shown[k] \in {old[n] : n \in 1..Len(old)} \cup {page[n] : n \in 1..Len(page)}
        /\ \A u : Shows(shown, u) <=> Shows(old, u) \/ Shows(page, u)
    BY <2>2, <2>5, <2>6, <2>7, Joined
  <2> DEFINE bottom == IF next = NoBound THEN 0 ELSE next
  <2>9. Reached' = bottom /\ bottom \in Nat
    BY <2>2, <2>3 DEF Reached
  <2>10. \A k \in 1..Len(page) : fstored[page[k]] >= bottom
    BY <2>2, <2>4
  <2>11. \A k \in 1..Len(shown) : fstored[shown[k]] >= bottom
    <3> SUFFICES ASSUME NEW k \in 1..Len(shown) PROVE fstored[shown[k]] >= bottom
      OBVIOUS
    <3>1. CASE \E j \in 1..Len(page) : shown[k] = page[j]
      BY <2>10, <3>1
    <3>2. CASE \E i \in 1..Len(old) : shown[k] = old[i]
      <4>1. PICK i \in 1..Len(old) : shown[k] = old[i]
        BY <3>2
      <4>2. fstored[shown[k]] \in Nat /\ fstored[shown[k]] >= Reached
        BY <1>4, <2>6, <4>1
      <4>4. CASE next = NoBound
        BY <4>2, <4>4
      <4>5. CASE next # NoBound
        <5>1. next <= Reached
          <6>1. next \in Nat /\ \A j \in 1..Len(page) : fstored[page[j]] >= next
            BY <2>2, <4>5
          <6>2. 1 \in 1..Len(page)
            BY <2>2, <2>4, <4>5
          <6> QED BY <1>5, <2>4, <6>1, <6>2
        <5> QED BY <1>5, <2>9, <4>2, <4>5, <5>1
      <4> QED BY <4>4, <4>5
    <3> QED BY <2>8, <3>1, <3>2
  <2>12. \A u \in reading.due : fstored[u] < Horizon /\ fstored[u] >= bottom => u \in Range(shown) \/ Overfull(fstored[u])
    <3> SUFFICES ASSUME NEW u \in reading.due, fstored[u] < Horizon, fstored[u] >= bottom, ~Overfull(fstored[u]) PROVE Shows(shown, u)
      BY <2>8, ShownRange
    <3>1. fstored[u] \in Nat
      BY <1>4, <1>5
    <3>2. CASE fstored[u] >= Reached
      BY <1>2, <1>5, <2>8, <3>2, ShownRange DEF ShownDown, old
    <3>3. CASE fstored[u] < Reached
      BY <2>2, <2>8, <3>3
    <3> QED BY <1>5, <3>1, <3>2, <3>3
  <2> HIDE DEF bottom
  <2>13. FeedReader'
    <3>1. reading'.before = next /\ reading'.due = reading.due /\ reading'.shown = shown
          /\ reading'.pc = (IF next = NoBound THEN "end" ELSE "page")
          /\ reading' = [pc |-> reading'.pc, before |-> reading'.before, shown |-> reading'.shown, due |-> reading'.due]
      BY <2>3
    <3>2. reading'.pc \in {"end", "page"} /\ (reading'.pc = "end" <=> reading'.before = NoBound)
      BY <3>1
    <3> QED BY <1>1, <1>5, <2>2, <2>8, <3>1, <3>2 DEF FeedReader, Horizon, NoBound
  <2>14. ShownDown'
    <3>1. reading'.shown = shown /\ reading'.due = reading.due
      BY <2>3
    <3>2. Descends(reading.shown)'
      BY <1>1, <2>8, <3>1 DEF Descends
    <3> QED BY <1>1, <2>9, <2>11, <2>12, <3>1, <3>2 DEF ShownDown, Overfull, Horizon
  <2>15. WalkedDown'
    <3>1. reading'.pc # "walk"
      BY <2>3
    <3> QED BY <3>1 DEF WalkedDown
  <2> QED BY <1>7, <2>13, <2>14, <2>15 DEF FeedInv
<1>10. CASE ~ends
  <2>1. reading' = goes /\ lo # 0 /\ Len(rows) <= FeedLimit /\ reading.issued + 1 # MaxWindows
    BY <1>1, <1>3, <1>10, FeedLimits
  <2>2. lo = reading.hi - reading.span
    BY <2>1 DEF lo, WalkLo
  <2>3. reading' = [pc |-> "walk", before |-> reading.before, hi |-> lo, span |-> 2 * reading.span,
                    issued |-> reading.issued + 1, rows |-> rows, shown |-> reading.shown, due |-> reading.due]
    <3> DEFINE r1 == [reading EXCEPT !.rows = rows]
               r2 == [r1 EXCEPT !.hi = lo]
               r3 == [r2 EXCEPT !.span = 2 * reading.span]
    <3>1. goes = [r3 EXCEPT !.issued = reading.issued + 1]
      BY <1>6, Zenon
    <3>2. r1 = [pc |-> "walk", before |-> reading.before, hi |-> reading.hi, span |-> reading.span,
                issued |-> reading.issued, rows |-> rows, shown |-> reading.shown, due |-> reading.due]
      BY <1>6
    <3> HIDE DEF goes, r1
    <3>3. r2 = [pc |-> "walk", before |-> reading.before, hi |-> lo, span |-> reading.span,
                issued |-> reading.issued, rows |-> rows, shown |-> reading.shown, due |-> reading.due]
      BY <3>2
    <3> HIDE DEF r2
    <3>4. r3 = [pc |-> "walk", before |-> reading.before, hi |-> lo, span |-> 2 * reading.span,
                issued |-> reading.issued, rows |-> rows, shown |-> reading.shown, due |-> reading.due]
      BY <3>3
    <3> HIDE DEF r3
    <3> QED BY <2>1, <3>1, <3>4
  <2> HIDE DEF goes
  <2>33. /\ reading'.pc = "walk" /\ reading'.before = reading.before /\ reading'.hi = lo
        /\ reading'.span = 2 * reading.span /\ reading'.issued = reading.issued + 1 /\ reading'.rows = rows
        /\ reading'.shown = reading.shown /\ reading'.due = reading.due
    BY <2>3
  <2>4. FeedReader'
    BY <1>1, <1>3, <1>5, <1>6, <2>3 DEF FeedReader, Horizon
  <2>5. Reached' = Reached
    BY <1>1, <2>33 DEF Reached, Horizon
  <2>6. ShownDown'
    <3>1. Descends(reading.shown)'
      BY <1>1, <1>2, <2>33 DEF Descends, ShownDown
    <3> QED BY <1>1, <1>2, <2>5, <2>33, <3>1 DEF ShownDown, Overfull, Horizon
  <2>7. WalkedDown'
    <3>1. reading.issued < MaxWindows /\ reading.span >= Doubled[reading.issued]
          /\ reading.hi + reading.span <= Today + 4 /\ reading.hi <= Today + 2
      BY <1>1, <1>2 DEF WalkedDown
    <3>2. reading.issued \in 0..MaxWindows /\ reading.issued # MaxWindows
      BY <1>6, <3>1, FeedLimits
    <3>3. Doubled[reading.issued + 1] = 2 * Doubled[reading.issued] /\ Doubled[reading.issued] \in Nat
      BY <3>2, Doubles
    <3>4. 2 * reading.span >= Doubled[reading.issued + 1] /\ lo + 2 * reading.span <= Today + 4
          /\ lo <= Today + 2 /\ reading.issued + 1 < MaxWindows
      <4> DEFINE h == reading.hi
                 n == reading.issued
                 sp == reading.span
                 d == Doubled[n]
                 e == Doubled[n + 1]
      <4>1. h \in Nat /\ n \in Nat /\ sp \in Nat /\ d \in Nat /\ e = 2 * d /\ sp >= d /\ h + sp <= Today + 4 /\ h <= Today + 2
            /\ lo = h - sp /\ n < MaxWindows /\ n + 1 # MaxWindows /\ Today \in Nat /\ MaxWindows \in Nat
        BY <1>6, <2>1, <2>2, <3>1, <3>3, FeedLimits
      <4> HIDE DEF h, n, sp, d, e
      <4>2. 2 * sp >= e /\ lo + 2 * sp <= Today + 4 /\ lo <= Today + 2 /\ n + 1 < MaxWindows
        BY <4>1
      <4> QED BY <4>2 DEF h, n, sp, d, e
    <3>5. \A u \in reading.due : fstored[u] < Reached /\ DayOf(fstored[u]) >= lo => u \in Range(rows)
      <4> SUFFICES ASSUME NEW u \in reading.due, fstored[u] < Reached, DayOf(fstored[u]) >= lo PROVE Shows(rows, u)
        BY <1>3, ShownRange
      <4>1. Len(rows) # FeedLimit + 1
        BY <1>3, <2>1, FeedLimits
      <4>2. DayOf(fstored[u]) \in Nat
        BY <1>4, <1>5
      <4> QED BY <1>3, <4>1, <4>2
    <3>6. Descends(reading.rows)'
      BY <1>1, <1>3, <2>33 DEF Descends
    <3>7. /\ \A k \in 1..Len(reading'.rows) :
                fstored'[reading'.rows[k]] < Reached' /\ DayOf(fstored'[reading'.rows[k]]) >= reading'.hi
          /\ \A u \in reading'.due :
                fstored'[u] < Reached' /\ DayOf(fstored'[u]) >= reading'.hi => u \in Range(reading'.rows)
      BY <1>1, <1>3, <2>5, <2>33, <3>5
    <3> QED BY <2>1, <2>33, <3>4, <3>6, <3>7 DEF WalkedDown
  <2> QED BY <1>7, <2>4, <2>6, <2>7 DEF FeedInv
<1> QED BY <1>9, <1>10

OverfullIn(f, t) == Cardinality({u \in DOMAIN f : f[u] = t}) > FeedLimit

\* A new event passes no list by: it is due to nobody who reads.
LEMMA PublishKeeps ==
    ASSUME FeedInv, NEW u \in FeedIds, NEW ts \in Nat, PublishEvent(u, ts)
    PROVE  FeedInv'
<1> DEFINE D == DOMAIN fstored
<1>1. /\ reading' = reading /\ u \notin D
      /\ fstored' = [v \in D \cup {u} |-> IF v = u THEN ts ELSE fstored[v]]
  BY DEF PublishEvent
<1>2. DOMAIN fstored' = D \cup {u} /\ (\A v \in D : fstored'[v] = fstored[v]) /\ fstored'[u] = ts
  BY <1>1
<1>3. FeedStored /\ FeedReader /\ ShownDown /\ WalkedDown
  BY DEF FeedInv
<1>4. \A v \in D : fstored[v] \in Nat
  BY <1>3, StoredTimes
<1>5. FeedStored'
  <2>1. IsFiniteSet(D \cup {u})
    BY <1>3, FS_AddElement DEF FeedStored
  <2>2. fstored' \in [D \cup {u} -> Nat]
    BY <1>1, <1>4
  <2> QED BY <1>2, <1>3, <2>1, <2>2 DEF FeedStored, Horizon
<1>6. FeedReader'
  <2>1. D \subseteq DOMAIN fstored' /\ \A s : s \in Seq(D) => s \in Seq(DOMAIN fstored')
    <3>1. D \subseteq DOMAIN fstored'
      BY <1>2
    <3> HIDE DEF D
    <3> QED BY <3>1
  <2> QED BY <1>1, <1>3, <2>1 DEF FeedReader, Horizon
<1>7. \A s : s \in Seq(D) /\ DescendsIn(fstored, s) => DescendsIn(fstored', s)
  <2> SUFFICES ASSUME NEW s \in Seq(D), DescendsIn(fstored, s) PROVE DescendsIn(fstored', s)
    OBVIOUS
  <2>1. \A k \in 1..Len(s) : s[k] \in D /\ fstored'[s[k]] = fstored[s[k]]
    BY <1>2
  <2> QED BY <2>1 DEF DescendsIn
<1>8. \A t : OverfullIn(fstored, t) => OverfullIn(fstored', t)
  <2> SUFFICES ASSUME NEW t, OverfullIn(fstored, t) PROVE OverfullIn(fstored', t)
    OBVIOUS
  <2> DEFINE a == {v \in D : fstored[v] = t}
             b == {v \in DOMAIN fstored' : fstored'[v] = t}
  <2>1. a \in SUBSET b /\ b \in SUBSET DOMAIN fstored'
    BY <1>2
  <2>2. IsFiniteSet(b)
    BY <1>5, <2>1, FS_Subset DEF FeedStored
  <2>3. IsFiniteSet(a) /\ Cardinality(a) <= Cardinality(b)
    BY <2>1, <2>2, FS_Subset
  <2>4. Cardinality(a) \in Nat /\ Cardinality(b) \in Nat /\ Cardinality(a) > FeedLimit
    BY <2>2, <2>3, FS_CardinalityType DEF OverfullIn
  <2> HIDE DEF a, b
  <2>5. Cardinality(b) > FeedLimit
    BY <2>3, <2>4, FeedLimits
  <2> QED BY <2>5 DEF OverfullIn, b
<1>9. Reached' = Reached /\ reading.due \subseteq D /\ reading.shown \in Seq(D)
  BY <1>1, <1>3 DEF Reached, FeedReader, Horizon
<1>10. ShownDown'
  <2>1. DescendsIn(fstored', reading.shown)
    BY <1>3, <1>7, <1>9 DEF ShownDown, Descends
  <2>2. \A k \in 1..Len(reading.shown) : fstored'[reading.shown[k]] = fstored[reading.shown[k]]
    BY <1>2, <1>9
  <2>3. \A v \in reading.due : fstored'[v] = fstored[v]
    BY <1>2, <1>9
  <2>4. \A v \in reading.due :
            fstored'[v] < Horizon /\ fstored'[v] >= Reached' => v \in Range(reading.shown) \/ OverfullIn(fstored', fstored'[v])
    <3> SUFFICES ASSUME NEW v \in reading.due, fstored[v] < Horizon, fstored[v] >= Reached, v \notin Range(reading.shown)
                 PROVE  OverfullIn(fstored', fstored[v])
      BY <1>9, <2>3
    <3>1. OverfullIn(fstored, fstored[v])
      BY <1>3 DEF ShownDown, Overfull, OverfullIn
    <3> QED BY <1>8, <3>1
  <2>5. \A k \in 1..Len(reading.shown) : fstored'[reading.shown[k]] >= Reached'
    BY <1>3, <1>9, <2>2 DEF ShownDown
  <2> QED BY <1>1, <2>1, <2>4, <2>5 DEF ShownDown, Descends, Overfull, OverfullIn, Horizon
<1>11. WalkedDown'
  <2> SUFFICES ASSUME reading.pc = "walk" PROVE WalkedDown'
    BY <1>1 DEF WalkedDown
  <2>1. reading.rows \in Seq(D)
    BY <1>3 DEF FeedReader
  <2>2. DescendsIn(fstored', reading.rows)
    BY <1>3, <1>7, <2>1 DEF WalkedDown, Descends
  <2>3. \A k \in 1..Len(reading.rows) : fstored'[reading.rows[k]] = fstored[reading.rows[k]]
    BY <1>2, <2>1
  <2>4. \A v \in reading.due : fstored'[v] = fstored[v]
    BY <1>2, <1>9
  <2> QED BY <1>1, <1>3, <1>9, <2>2, <2>3, <2>4 DEF WalkedDown, Descends
<1> QED BY <1>5, <1>6, <1>10, <1>11 DEF FeedInv

\* The feed keeps its invariant.
LEMMA EventFeedKeeps == FeedInv /\ [EventFeedNext]_<<fstored, reading>> => FeedInv'
<1> SUFFICES ASSUME FeedInv, [EventFeedNext]_<<fstored, reading>> PROVE FeedInv'
  OBVIOUS
<1>1. CASE EventFeedNext
  <2>1. CASE AskFeed
    BY <2>1, AskFeedKeeps
  <2>2. CASE ReadWindow
    BY <2>2, ReadWindowKeeps
  <2>3. CASE \E u \in FeedIds, ts \in 0..(FeedDays * DayMicros - 1) : PublishEvent(u, ts)
    <3>1. PICK u \in FeedIds, ts \in 0..(FeedDays * DayMicros - 1) : PublishEvent(u, ts)
      BY <2>3
    <3>2. ts \in Nat
      BY <3>1
    <3> QED BY <3>1, <3>2, PublishKeeps
  <2> QED BY <1>1, <2>1, <2>2, <2>3 DEF EventFeedNext
<1>2. CASE UNCHANGED <<fstored, reading>>
  <2>1. FeedStored' /\ FeedReader'
    BY <1>2 DEF FeedInv, FeedStored, FeedReader, Horizon
  <2>2. Reached' = Reached
    BY <1>2 DEF Reached, Horizon
  <2>3. ShownDown'
    BY <1>2, <2>2 DEF FeedInv, ShownDown, Descends, Overfull, Horizon
  <2>4. WalkedDown'
    BY <1>2, <2>2 DEF FeedInv, WalkedDown, Descends
  <2> QED BY <2>1, <2>3, <2>4 DEF FeedInv
<1> QED BY <1>1, <1>2

\* The end of the feed.
LEMMA FeedShows == FeedInv => FeedShowsEverything
<1> SUFFICES ASSUME FeedInv PROVE FeedShowsEverything
  OBVIOUS
<1>1. ASSUME reading.pc = "end", NEW u \in reading.due, fstored[u] < Horizon PROVE u \in Range(reading.shown) \/ Overfull(fstored[u])
  <2>1. Reached = 0 /\ u \in DOMAIN fstored
    BY <1>1 DEF Reached, FeedInv, FeedReader
  <2>2. fstored[u] \in Nat
    BY <2>1, StoredTimes DEF FeedInv
  <2>3. fstored[u] >= Reached
    BY <2>1, <2>2
  <2> QED BY <1>1, <2>3 DEF FeedInv, ShownDown
<1> QED BY <1>1 DEF FeedShowsEverything, FeedInv, ShownDown, Descends, DescendsIn, Newer

\* A person's place in the list.
LEMMA PersonKeys ==
    ASSUME PeopleInv, NEW p \in DOMAIN people
    PROVE  Key(p) \in [at : Int, id : Int] /\ Key(p).at = people[p] /\ Key(p).id = p /\ p \in Int /\ people[p] \in Int
<1>1. p \in Int /\ people[p] \in Int
  BY FeedLimits DEF PeopleInv
<1> QED BY <1>1 DEF Key

\* The order of the list.
LEMMA PersonOrders ==
    ASSUME PeopleInv, NEW S, S \subseteq DOMAIN people
    PROVE  Orders({r \in S \X S : Before(Key(r[2]), Key(r[1]))}, S)
<1> DEFINE R == {r \in S \X S : Before(Key(r[2]), Key(r[1]))}
<1>1. \A p, q \in S : <<p, q>> \in R <=> Before(Key(q), Key(p))
  OBVIOUS
<1>2. \A p, q \in S : Before(Key(q), Key(p)) <=> people[q] < people[p] \/ (people[q] = people[p] /\ q < p)
  <2> SUFFICES ASSUME NEW p \in S, NEW q \in S
               PROVE  Before(Key(q), Key(p)) <=> people[q] < people[p] \/ (people[q] = people[p] /\ q < p)
    OBVIOUS
  <2> QED BY PersonKeys DEF Before
<1>3. \A p \in S : p \in Int /\ people[p] \in Int
  BY PersonKeys
<1> HIDE DEF R
<1>4. \A p, q \in S : p # q => <<p, q>> \in R \/ <<q, p>> \in R
  BY <1>1, <1>2, <1>3
<1>5. \A p \in S : <<p, p>> \notin R
  BY <1>1, <1>2, <1>3
<1>6. \A p, q, o \in S : <<p, q>> \in R /\ <<q, o>> \in R => <<p, o>> \in R
  BY <1>1, <1>2, <1>3
<1>7. Orders(R, S)
  BY <1>4, <1>5, <1>6 DEF Orders
<1> QED BY <1>7 DEF R

\* Nobody is listed, nobody is due.
LEMMA PeopleStart == FeedListsInit => PeopleInv
<1> SUFFICES ASSUME FeedListsInit PROVE PeopleInv
  OBVIOUS
<1>1. DOMAIN people = {} /\ people \in [DOMAIN people -> PersonTimes]
  BY DEF FeedListsInit
<1>2. listing.cursor = <<>> /\ listing.end = TRUE /\ listing.due = {}
  BY DEF FeedListsInit
<1> QED BY <1>1, <1>2, FS_EmptySet DEF PeopleInv

\* A page of the list: who is not on it comes after its last person.
LEMMA ListPersonsKeeps == PeopleInv /\ ListPersons => PeopleInv'
<1> SUFFICES ASSUME PeopleInv, ListPersons PROVE PeopleInv'
  OBVIOUS
<1> DEFINE D == DOMAIN people
           cursor == listing.cursor
           passing == {p \in D : cursor = <<>> \/ Before(Key(p), cursor[1])}
           R == {r \in passing \X passing : Before(Key(r[2]), Key(r[1]))}
           rows == list_persons(cursor)
           more == Len(rows) > PersonLimit
           page == IF more THEN SubSeq(rows, 1, PersonLimit) ELSE rows
           listed == (IF listing.end THEN {} ELSE listing.listed) \cup Range(page)
           due == IF listing.end THEN D ELSE listing.due
           next == Key(rows[PersonLimit])
<1>1. people' = people /\ listing' = [end |-> ~more, cursor |-> IF more THEN <<next>> ELSE <<>>,
                                      listed |-> listed, due |-> due]
  BY DEF ListPersons, NextCursor
<1>2. passing \subseteq D /\ IsFiniteSet(passing) /\ Orders(R, passing)
  <2>1. passing \in SUBSET D
    OBVIOUS
  <2>2. IsFiniteSet(passing)
    BY <2>1, FS_Subset DEF PeopleInv
  <2> QED BY <2>1, <2>2, PersonOrders
<1>3. rows = Ordered(passing, R)
  BY DEF list_persons
<1>4. \A p, q : <<p, q>> \in R => Before(Key(q), Key(p))
  OBVIOUS
<1>5. \A p \in D \cap due : p \in listed \/ p \in passing
  BY DEF PeopleInv
<1> HIDE DEF passing, R, rows
<1>6. /\ rows \in Seq(passing) /\ Len(rows) \in Nat
      /\ \A i, j \in 1..Len(rows) : i < j => <<rows[i], rows[j]>> \in R
      /\ \A p \in passing : \E i \in 1..Len(rows) : rows[i] = p
  BY <1>2, <1>3, OrderedSorts
<1>7. /\ page \in Seq(passing)
      /\ more => Len(page) = PersonLimit /\ \A k \in 1..PersonLimit : page[k] = rows[k]
      /\ ~more => page = rows
  <2>1. CASE more
    <3>1. PersonLimit \in 0..Len(rows)
      BY <1>6, <2>1, FeedLimits
    <3> QED BY <1>6, <2>1, <3>1, Beginning
  <2>2. CASE ~more
    BY <1>6, <2>2
  <2> QED BY <2>1, <2>2
<1> HIDE DEF page
<1>8. ASSUME more PROVE next \in [at : Int, id : Int]
  <2>1. PersonLimit \in 1..Len(rows)
    BY <1>6, <1>8, FeedLimits
  <2>2. rows[PersonLimit] \in D
    BY <1>2, <1>6, <2>1
  <2> QED BY <2>2, PersonKeys
<1>9. \A p \in passing : p \in listed \/ (more /\ Before(Key(p), next))
  <2> SUFFICES ASSUME NEW p \in passing, ~Shows(page, p) PROVE more /\ Before(Key(p), next)
    BY <1>7, ShownRange
  <2>1. PICK i \in 1..Len(rows) : rows[i] = p
    BY <1>6
  <2>2. more
    BY <1>7, <2>1 DEF Shows
  <2>3. PersonLimit \in 1..Len(rows) /\ PersonLimit < i
    <3>1. i \notin 1..PersonLimit
      BY <1>7, <2>1, <2>2 DEF Shows
    <3> QED BY <1>6, <2>1, <2>2, <3>1, FeedLimits
  <2>4. <<rows[PersonLimit], rows[i]>> \in R
    BY <1>6, <2>1, <2>3
  <2> QED BY <1>4, <2>1, <2>2, <2>4
<1>10. /\ listing'.end = ~more /\ listing'.cursor = (IF more THEN <<next>> ELSE <<>>)
       /\ listing'.listed = listed /\ listing'.due = due
  BY <1>1
<1> HIDE DEF listed, due, next
<1>11. DOMAIN people' \subseteq PersonIds /\ IsFiniteSet(DOMAIN people') /\ people' \in [DOMAIN people' -> PersonTimes]
  BY <1>1 DEF PeopleInv
<1>12. CASE more
  <2>1. listing'.cursor = <<next>> /\ listing'.cursor # <<>> /\ listing'.cursor[1] = next /\ listing'.end = FALSE
    <3>1. listing'.cursor = <<next>>
      BY <1>10, <1>12
    <3>2. listing'.end = FALSE
      BY <1>10, <1>12
    <3> HIDE DEF more
    <3> QED BY <3>1, <3>2
  <2>2. \A p \in listing'.due \cap DOMAIN people' :
            p \in listing'.listed \/ Before([at |-> people'[p], id |-> p], next)
    <3>1. \A p \in due \cap D : p \in listed \/ Before(Key(p), next)
      BY <1>5, <1>9
    <3> QED BY <1>1, <1>10, <3>1 DEF Key
  <2>3. next \in [at : Int, id : Int]
    BY <1>8, <1>12
  <2>4. \E k \in [at : Int, id : Int] : listing'.cursor = <<k>>
    BY <2>1, <2>3
  <2> QED BY <1>11, <2>1, <2>2, <2>4 DEF PeopleInv, Before, Key
<1>13. CASE ~more
  <2>1. listing'.cursor = <<>> /\ listing'.end = TRUE
    BY <1>10, <1>13
  <2>2. \A p \in listing'.due \cap DOMAIN people' : p \in listing'.listed
    BY <1>1, <1>5, <1>9, <1>10, <1>13
  <2> QED BY <1>11, <2>1, <2>2 DEF PeopleInv
<1> QED BY <1>12, <1>13

\* A person that others are merged into only moves on in the list; a new one is due to nobody.
LEMMA PeopleStep ==
    ASSUME PeopleInv, listing' = listing, DOMAIN people' \subseteq PersonIds, IsFiniteSet(DOMAIN people'),
           people' \in [DOMAIN people' -> PersonTimes],
           \A p \in DOMAIN people' : p \in listing.due => p \in DOMAIN people /\ people'[p] <= people[p]
    PROVE  PeopleInv'
<1>1. ASSUME NEW p \in listing.due \cap DOMAIN people', p \notin listing.listed
      PROVE  listing.cursor # <<>> /\ Before([at |-> people'[p], id |-> p], listing.cursor[1])
  <2>1. p \in DOMAIN people /\ people'[p] <= people[p] /\ people'[p] \in Int /\ people[p] \in Int
    BY FeedLimits DEF PeopleInv
  <2>2. listing.cursor # <<>> /\ Before(Key(p), listing.cursor[1])
    BY <1>1, <2>1 DEF PeopleInv
  <2>3. PICK k \in [at : Int, id : Int] : listing.cursor = <<k>>
    BY <2>2 DEF PeopleInv
  <2>4. listing.cursor[1] = k /\ k.at \in Int
    BY <2>3
  <2> QED BY <2>1, <2>2, <2>4 DEF Before, Key
<1> QED BY <1>1 DEF PeopleInv, Before, Key

\* The list keeps its invariant.
LEMMA PersonListKeeps == PeopleInv /\ [PersonListNext]_<<people, listing>> => PeopleInv'
<1> SUFFICES ASSUME PeopleInv, [PersonListNext]_<<people, listing>> PROVE PeopleInv'
  OBVIOUS
<1>0. IsFiniteSet(DOMAIN people) /\ DOMAIN people \subseteq PersonIds /\ people \in [DOMAIN people -> PersonTimes]
  BY DEF PeopleInv
<1>1. CASE ListPersons
  BY <1>1, ListPersonsKeeps
<1>2. ASSUME NEW w \in PersonIds, NEW l \in PersonIds, MergeListed(w, l) PROVE PeopleInv'
  <2> DEFINE E == DOMAIN people \ {l}
  <2>1. /\ listing' = listing /\ {w, l} \subseteq DOMAIN people
        /\ people' = [p \in E |-> IF p = w /\ people[l] < people[w] THEN people[l] ELSE people[p]]
    BY <1>2 DEF MergeListed
  <2>2. \A p \in E : people'[p] \in PersonTimes /\ people'[p] <= people[p]
    <3> SUFFICES ASSUME NEW p \in E PROVE people'[p] \in PersonTimes /\ people'[p] <= people[p]
      OBVIOUS
    <3>1. people[p] \in PersonTimes /\ people[l] \in PersonTimes /\ people[p] \in Int /\ people[l] \in Int
      BY <1>0, <2>1, FeedLimits
    <3> QED BY <2>1, <3>1
  <2>3. E \in SUBSET DOMAIN people /\ IsFiniteSet(E) /\ E \subseteq PersonIds
    BY <1>0, FS_Subset
  <2>4. DOMAIN people' = E /\ people' \in [E -> PersonTimes]
    BY <2>1, <2>2
  <2> QED BY <2>1, <2>2, <2>3, <2>4, PeopleStep
<1>3. ASSUME NEW q \in PersonIds, NEW at \in PersonTimes, NewPerson(q, at) PROVE PeopleInv'
  <2> DEFINE E == DOMAIN people \cup {q}
  <2>1. listing' = listing /\ q \notin listing.due /\ people' = [p \in E |-> IF p = q THEN at ELSE people[p]]
    BY <1>3 DEF NewPerson
  <2>2. IsFiniteSet(E) /\ E \subseteq PersonIds
    BY <1>0, FS_AddElement
  <2>3. DOMAIN people' = E /\ people' \in [E -> PersonTimes]
    BY <1>0, <2>1
  <2>4. \A p \in E : p \in listing.due => p \in DOMAIN people /\ people'[p] <= people[p]
    <3> SUFFICES ASSUME NEW p \in E, p \in listing.due PROVE p \in DOMAIN people /\ people'[p] <= people[p]
      OBVIOUS
    <3>1. p \in DOMAIN people /\ people'[p] = people[p] /\ people[p] \in Int
      BY <1>0, <2>1, FeedLimits
    <3> QED BY <3>1
  <2> QED BY <2>1, <2>2, <2>3, <2>4, PeopleStep
<1>4. CASE UNCHANGED <<people, listing>>
  BY <1>4 DEF PeopleInv, Before, Key
<1> QED BY <1>1, <1>2, <1>3, <1>4 DEF PersonListNext

\* The end of the list.
LEMMA EverybodyListed == PeopleInv => PersonListComplete
BY DEF PeopleInv, PersonListComplete

\* Both lists.
ListsInv == FeedInv /\ PeopleInv

\* The other parts leave the lists alone, and each list the other.
LEMMA ListsStep == ReadsNext \/ UNCHANGED readsVars =>
                       [EventFeedNext]_<<fstored, reading>> /\ [PersonListNext]_<<people, listing>>
<1> SUFFICES ASSUME ReadsNext \/ UNCHANGED readsVars
             PROVE  [EventFeedNext]_<<fstored, reading>> /\ [PersonListNext]_<<people, listing>>
  OBVIOUS
<1>1. CASE EventFeedNext
  BY <1>1 DEF EventFeedNext, AskFeed, ReadWindow, PublishEvent
<1>2. CASE PersonListNext
  BY <1>2 DEF PersonListNext, ListPersons, MergeListed, NewPerson
<1>3. CASE UNCHANGED listVars
  BY <1>3 DEF listVars
<1> QED BY <1>1, <1>2, <1>3 DEF ReadsNext, readsVars

\* For any page sizes, days, events and persons, with events published and persons
\* merged between any two reads: a client that pages the feed of explore/events.rs to
\* its end was shown every event up to the end of tomorrow that was there when it
\* began, each once and newest first (a microsecond that fills a page excepted), and
\* one that pages the list of explore/persons.rs everybody who was there and still is.
THEOREM ListsCompleteAlways == ReadsSpec => []ListsComplete
<1>1. ReadsInit => ListsInv
  BY FeedStarts, PeopleStart DEF ReadsInit, ListsInv
<1>2. ListsInv /\ [ReadsNext]_readsVars => ListsInv'
  BY ListsStep, EventFeedKeeps, PersonListKeeps DEF ListsInv
<1>3. ListsInv => ListsComplete
  BY FeedShows, EverybodyListed DEF ListsInv, ListsComplete
<1> QED BY <1>1, <1>2, <1>3, PTL DEF ReadsSpec
=============================================================================
