------------------------------ MODULE Periods -------------------------------
(***************************************************************************)
(* Retention, lifecycle and stickiness (src/src/query/retention.rs,        *)
(* lifecycle.rs, stickiness.rs) against the brute-force definitions of     *)
(* src/src/query/oracle.rs.  A cell is the set of persons it counts.  The  *)
(* engine sees the files its load span leases, the oracle every event.     *)
(***************************************************************************)
EXTENDS InsightSource

\* What is asked here: a retention of some periods up to the current one, and one
\* series by interval.
ASSUME PeriodQuestionsAssumption ==
    \A a \in DOMAIN Questions \cap {"retention", "lifecycle", "stickiness"} :
        \A q \in Questions[a].queries :
            /\ FiltersOK(q.properties)
            /\ a = "retention" =>
                  /\ q.period \in Intervals /\ q.total_intervals \in Nat \ {0}
                  /\ FiltersOK(q.target.properties) /\ FiltersOK(q.returning.properties)
            /\ a # "retention" =>
                  q.interval \in Intervals /\ DatesOK(q.dates) /\ FiltersOK(q.series.properties)

-----------------------------------------------------------------------------
(* Retention.                                                                *)

\* retention::plan: the periods ending with the current one.
retention_plan(q) ==
    LET current == trunc(Now, q.period)
        back[k \in 0 .. q.total_intervals - 1] ==
            IF k = 0 THEN current ELSE previous_bucket(back[k-1], q.period)
    IN [starts |-> [k \in 1 .. q.total_intervals |-> back[q.total_intervals - k]],
        end |-> next_bucket(current, q.period),
        first_time |-> q.first_time]

\* (FirstStartOnly: the history before the first period is not leased.)
FirstStartOnly(plan) == plan.starts[1]

\* retention::Plan::load_from: first_time reads all history.
retention_load_from(plan) == IF plan.first_time THEN MIN_US ELSE plan.starts[1]

\* Rows (person, bucket) of an event node, and of each person's first one.
PairsOf(evs, q, node, i) ==
    {<<person_id(e), bucket_expr(i, e.ts)>> : e \in {e \in evs : predicate(e, q, node)}}

FirstPairs(evs, q, node, i, start) ==
    LET matching == {e \in evs : predicate(e, q, node)}
        first(p) == Min({e.ts : e \in {e \in matching : person_id(e) = p}})
    IN {<<p, bucket_expr(i, first(p))>> :
            p \in {p \in {person_id(e) : e \in matching} : first(p) >= start}}

\* activity: who targeted and who returned, by period.
activity(q, plan) ==
    LET leased == files([from |-> retention_load_from(plan), to |-> plan.end])
        start == plan.starts[1]
        recent == relation(leased, start, plan.end)
        target == IF plan.first_time
                  THEN FirstPairs(relation(leased, MIN_US, plan.end), q, q.target, q.period, start)
                  ELSE PairsOf(recent, q, q.target, q.period)
        returned == PairsOf(recent, q, q.returning, q.period)
        by(pairs) == [k \in DOMAIN plan.starts |->
                         {r[1] : r \in {r \in pairs : r[2] = plan.starts[k]}}]
    IN [cohorts |-> by(target), returning |-> by(returned)]

\* cell: offset 0 is the cohort itself.
retention_cell(act, cohort, offset) ==
    IF offset = 0 THEN act.cohorts[cohort]
    ELSE act.cohorts[cohort] \cap act.returning[cohort + offset]

retention(q) ==
    LET plan == retention_plan(q)
        act == activity(q, plan)
        n == q.total_intervals
    IN [c \in 1 .. n |-> [k \in 0 .. n - c |-> retention_cell(act, c, k)]]

\* oracle::retention_cells
retention_cells(q) ==
    LET starts == retention_plan(q).starts
        end == next_bucket(bucket_of(Now, q.period), q.period)
        n == q.total_intervals
        target == {e \in events : e.ts < end /\ OracleMatches(e, q, q.target)}
        first == {e \in target : \A f \in target : person_id(f) = person_id(e) => e.ts <= f.ts}
        inPeriod(e, k) == e.ts < end /\ bucket_of(e.ts, q.period) = starts[k]
        members(k) == {person_id(e) : e \in {e \in IF q.first_time THEN first ELSE target
                                               : inPeriod(e, k)}}
        back(k) == {person_id(e) : e \in {e \in events : inPeriod(e, k)
                                                         /\ OracleMatches(e, q, q.returning)}}
    IN [c \in 1 .. n |-> [k \in 0 .. n - c |->
            IF k = 0 THEN members(c) ELSE members(c) \cap back(c + k)]]

-----------------------------------------------------------------------------
(* Lifecycle.                                                                *)

Statuses == {"new", "returning", "resurrecting", "dormant"}

\* Status of a person whose active buckets and first bucket are known.
StatusAt(active, firstBucket, bucket, before) ==
    IF bucket \in active
    THEN IF firstBucket = bucket THEN "new"
         ELSE IF before \in active THEN "returning" ELSE "resurrecting"
    ELSE IF before \in active THEN "dormant" ELSE "none"

\* The bucket before the first is read too.
BucketBefore(bs, k, i) == IF k = 1 THEN previous_bucket(bs[1], i) ELSE bs[k-1]

\* (RangeAndBefore: only the range and the bucket before it are leased.)
RangeAndBefore(r) == [from |-> previous_bucket(buckets(r)[1], r.interval), to |-> r.to]

\* Prepared::load_span of a lifecycle query: all history.
lifecycle_span(r) == [from |-> MIN_US, to |-> r.to]

\* lifecycle::classify, the persons of each bucket and status.
classify(q, r) ==
    LET bs == buckets(r)
        leased == leased_for(q.dates, lifecycle_span(r))
        m == {e \in relation(leased, MIN_US, r.to) : predicate(e, q, q.series)}
        people == {person_id(e) : e \in m}
        mine(p) == {e.ts : e \in {e \in m : person_id(e) = p}}
        active(p) == {bucket_expr(r.interval, t) :
                          t \in {t \in mine(p) : t >= previous_bucket(bs[1], r.interval)}}
        status(p, k) == StatusAt(active(p), trunc(Min(mine(p)), r.interval), bs[k],
                                 BucketBefore(bs, k, r.interval))
    IN [k \in DOMAIN bs |-> [s \in Statuses |-> {p \in people : active(p) # {} /\ status(p, k) = s}]]

\* oracle::lifecycle_cells
lifecycle_cells(q, r) ==
    LET bs == buckets(r)
        m == {e \in events : e.ts < r.to /\ OracleMatches(e, q, q.series)}
        people == {person_id(e) : e \in m}
        active(p) == {bucket_of(e.ts, r.interval) : e \in {e \in m : person_id(e) = p}}
        first(p) == Min({e.ts : e \in {e \in m : person_id(e) = p}})
        now(p, k) == bs[k] \in active(p)
        before(p, k) == BucketBefore(bs, k, r.interval) \in active(p)
        new(p, k) == now(p, k) /\ bucket_of(first(p), r.interval) = bs[k]
    IN [k \in DOMAIN bs |-> [s \in Statuses |->
          {p \in people :
             CASE s = "new" -> new(p, k)
               [] s = "returning" -> now(p, k) /\ before(p, k) /\ ~new(p, k)
               [] s = "resurrecting" -> now(p, k) /\ ~before(p, k) /\ ~new(p, k)
               [] s = "dormant" -> ~now(p, k) /\ before(p, k)}]]

-----------------------------------------------------------------------------
(* Stickiness.                                                               *)

\* per_person and run: persons by the number of buckets they were active in.
stickiness(q, r) ==
    LET leased == leased_for(q.dates, [from |-> r.from, to |-> r.to])
        ev == {e \in relation(leased, r.from, r.to) : predicate(e, q, q.series)}
        n(p) == Cardinality({bucket_expr(r.interval, e.ts) : e \in {e \in ev : person_id(e) = p}})
        counts == [p \in {person_id(e) : e \in ev} |-> n(p)]
    IN [k \in DOMAIN buckets(r) |-> {p \in DOMAIN counts : counts[p] = k}]

\* oracle::sticky_counts
sticky_counts(q, r) ==
    LET ev == {e \in events : in_range(e, r) /\ OracleMatches(e, q, q.series)}
        active(p) == {bucket_of(e.ts, r.interval) : e \in {e \in ev : person_id(e) = p}}
    IN [p \in {person_id(e) : e \in ev} |-> Cardinality(active(p))]

-----------------------------------------------------------------------------
(* Properties.                                                               *)

RangeOf(q) == resolve(q.dates, q.interval, earliest)
Answered(q) == RangeOf(q) # NoRange /\ ~TooManyBuckets(RangeOf(q))

\* Every retention cell holds the persons the definition names, although only
\* some days are leased and the buckets are computed in SQL: a first-time
\* cohort knows the whole history, and no event of a later period leaks in.
RetentionIsExact ==
    asking = "retention" =>
        \A q \in Questions[asking].queries : retention(q) = retention_cells(q)

\* Every person is new, returning, resurrecting or dormant in the bucket the
\* definition says, the first bucket of the range included.
LifecycleIsExact ==
    asking = "lifecycle" =>
        \A q \in Questions[asking].queries :
            Answered(q) => classify(q, RangeOf(q)) = lifecycle_cells(q, RangeOf(q))

\* Every active person is counted in the bar of the number of buckets they were
\* active in: no person has more active buckets than the range has bars, even
\* when the range starts or ends inside a bucket or before the epoch.
StickinessIsExact ==
    asking = "stickiness" =>
        \A q \in Questions[asking].queries :
            Answered(q) =>
                LET counts == sticky_counts(q, RangeOf(q))
                    bars == stickiness(q, RangeOf(q))
                IN /\ UNION {bars[k] : k \in DOMAIN bars} = DOMAIN counts
                   /\ \A p \in DOMAIN counts : p \in bars[counts[p]]
=============================================================================
