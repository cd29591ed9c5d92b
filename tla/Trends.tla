------------------------------- MODULE Trends -------------------------------
(***************************************************************************)
(* Trends (src/src/query/trends.rs) against src/src/query/oracle.rs.  A    *)
(* series is answered by one of three plans: bitmasks of active granules   *)
(* per distinct id, OR-ed per person; islands of a window function; or one *)
(* aggregate with grouping sets.  Breakdown keys are numbers, so that they *)
(* sort: the texts themselves, BREAKDOWN_NONE, and BREAKDOWN_OTHER.        *)
(***************************************************************************)
EXTENDS InsightSource

CONSTANTS
    WordBits,            \* bits of a mask word (64)
    MaxMaskWords,        \* MAX_MASK_WORDS
    MonthWindow          \* the trailing window of monthly_active (30 days)

ASSUME TrendsAssumption ==
    /\ WordBits \in Nat \ {0} /\ MaxMaskWords \in Nat \ {0}
    /\ MonthWindow \in Nat \ {0} /\ MonthWindow % DAY_US = 0

Maths == {"total", "dau", "unique_session", "sum", "weekly_active", "monthly_active"}

\* What is asked here: some series over one range, with the period before it if it
\* lies in the calendar.
ASSUME TrendQuestionsAssumption ==
    \A a \in DOMAIN Questions \cap {"trends", "windows", "breakdowns"} :
        \A q \in Questions[a].queries :
            /\ q.interval \in Intervals /\ DatesOK(q.dates) /\ FiltersOK(q.properties)
            /\ DOMAIN q.series # {} /\ IsFiniteSet(DOMAIN q.series)
            /\ \A k \in DOMAIN q.series :
                  q.series[k].math \in Maths /\ FiltersOK(q.series[k].properties)
            /\ q.compare =>
                  \A first \in Instants :
                      LET r == resolve(q.dates, q.interval, first)
                      IN r # NoRange => previous(r).from \in Instants

TrendNone == 0           \* $$_none
TrendOther == -1         \* $$_other
NoKey == -2              \* no breakdown

\* window_days, as a span; 0 for none.
window_days(math) ==
    CASE math = "weekly_active" -> WEEK_US [] math = "monthly_active" -> MonthWindow [] OTHER -> 0

needs_person(math) == math \in {"dau", "weekly_active", "monthly_active"}

\* trends::plan
trends_plan(q) ==
    LET r == resolve(q.dates, q.interval, earliest)
    IN [range |-> r,
        periods |-> IF q.compare THEN <<r, previous(r)>> ELSE <<r>>,
        window |-> Max({window_days(q.series[k].math) : k \in DOMAIN q.series})]

\* (RangeStart: the trailing window before the first bucket is not leased.)
RangeStart(plan) == Min({plan.periods[k].from : k \in DOMAIN plan.periods})

\* Plan::load_from
trends_load_from(plan) ==
    LET first(r) == next_bucket(buckets(r)[1], r.interval) - plan.window
    IN Min(UNION {{plan.periods[k].from} \cup
                  (IF plan.window > 0 THEN {first(plan.periods[k])} ELSE {})
                    : k \in DOMAIN plan.periods})

\* breakdown_expr: a missing text is $$_none.
breakdown_expr(text) == IF text = NULL THEN TrendNone ELSE text

Text(e, q) == breakdown_expr(property_text(e, q.breakdown.by))

\* top_values: by count, ties by value; whether some were folded.
top_values(q, node, r, leased) ==
    LET ev == {e \in relation(leased, r.from, r.to) : predicate(e, q, node)}
        values == {Text(e, q) : e \in ev}
        count(v) == Cardinality({e \in ev : Text(e, q) = v})
        above(v, w) == count(w) > count(v) \/ (count(w) = count(v) /\ w < v)
    IN [values |-> {v \in values : Cardinality({w \in values : above(v, w)}) < q.breakdown.limit},
        other |-> Cardinality(values) > q.breakdown.limit]

\* mapped_breakdown
mapped_breakdown(e, q, top) ==
    IF q.breakdown.by = "no" THEN NoKey
    ELSE IF Text(e, q) \in top.values THEN Text(e, q) ELSE TrendOther

KeysOf(q, top) == IF q.breakdown.by = "no" THEN {NoKey} ELSE top.values \cup {TrendOther}

-----------------------------------------------------------------------------
(* active_masks.                                                             *)

\* The window [start, end) of each bucket.
WindowOf(node, r, bs, k) ==
    LET end == next_bucket(bs[k], r.interval)
    IN IF window_days(node.math) = 0 THEN [start |-> bs[k], end |-> end]
       ELSE [start |-> end - window_days(node.math), end |-> end]

WindowsFrom(node, r, bs) ==
    IF window_days(node.math) = 0 THEN r.from
    ELSE Min({WindowOf(node, r, bs, k).start : k \in DOMAIN bs} \cup {r.from})

\* Granules are the buckets themselves (dau) or days (windows).
Granules(node, r, bs) ==
    LET dau == window_days(node.math) = 0
        base == IF dau THEN bs[1] ELSE trunc(WindowsFrom(node, r, bs), "day")
        unit == IF dau THEN next_bucket(bs[1], r.interval) - bs[1] ELSE DAY_US
    IN [interval |-> IF dau THEN r.interval ELSE "day", base |-> base, unit |-> unit,
        count |-> Max({(r.to - base + unit - 1) \div unit, 1})]

\* Does the query fit the masks?
FitsMasks(q, node, r, bs) ==
    /\ ~person_keys(q) /\ needs_person(node.math)
    /\ IF window_days(node.math) = 0 THEN r.interval \in {"day", "week"} ELSE r.interval # "hour"
    /\ LET g == Granules(node, r, bs)
       IN /\ (g.count + WordBits - 1) \div WordBits <= MaxMaskWords
          /\ \A k \in DOMAIN bs : LET w == WindowOf(node, r, bs, k)
                                  IN /\ (w.start - g.base) % g.unit = 0
                                     /\ (w.end - g.base) % g.unit = 0
                                     /\ w.start >= g.base

\* (FirstWord: only the word the span begins in is looked at.)
FirstWord(words, lo, hi) ==
    \E b \in words[lo \div WordBits] : (lo \div WordBits) * WordBits + b \in lo .. hi - 1

\* span_has_bit: is any bit in [lo, hi) set across the words?
span_has_bit(words, lo, hi) ==
    \E w \in DOMAIN words : \E b \in words[w] : w * WordBits + b \in lo .. hi - 1

\* Masks per distinct id, joined to the overrides, OR-ed per person.
active_masks(q, node, r, bs, top, leased) ==
    LET g == Granules(node, r, bs)
        ev == {e \in relation(leased, WindowsFrom(node, r, bs), r.to) : predicate(e, q, node)}
        of(p, key) == {e \in ev : person_id(e) = p /\ mapped_breakdown(e, q, top) = key}
        bit(e) == (bucket_expr(g.interval, e.ts) - g.base) \div g.unit
        word(evs) == [w \in 0 .. (g.count - 1) \div WordBits |->
                        {bit(e) % WordBits : e \in {e \in evs : bit(e) \div WordBits = w}}]
        people(key) == {p \in {person_id(e) : e \in ev} : of(p, key) # {}}
        span(k) == WindowOf(node, r, bs, k)
        lo(k) == (span(k).start - g.base) \div g.unit
        hi(k) == Min({(span(k).end - g.base) \div g.unit, g.count})
        counted(p, key) == window_days(node.math) = 0 \/ \E e \in of(p, key) : e.ts >= r.from
    IN [key \in KeysOf(q, top) |->
          [data |-> [k \in DOMAIN bs |->
               Cardinality({p \in people(key) : span_has_bit(word(of(p, key)), lo(k), hi(k))})],
           aggregated |-> Cardinality({p \in people(key) : counted(p, key)})]]

-----------------------------------------------------------------------------
(* The general plans of compute.                                             *)

\* (NoMerging: every granule is an island of its own.)
NoMerging(gs, span) == {[s |-> g, e |-> g + span] : g \in gs}

\* Coverage (g, g + span] of one person's granules, merged into islands.
Islands(gs, span) ==
    LET starts == {g \in gs : \A h \in gs : h < g => g > h + span}
        members(s) == {g \in gs : g >= s /\ \A t \in starts : t <= g => t <= s}
    IN {[s |-> s, e |-> Max(members(s)) + span] : s \in starts}

granule(i) == IF i = "hour" THEN "hour" ELSE "day"

WindowPlan(q, node, r, bs, top, leased) ==
    LET span == window_days(node.math)
        ev == {e \in relation(leased, WindowsFrom(node, r, bs), r.to) : predicate(e, q, node)}
        people == {person_id(e) : e \in ev}
        gs(p, key) == {bucket_expr(granule(r.interval), e.ts) :
                         e \in {e \in ev : person_id(e) = p /\ mapped_breakdown(e, q, top) = key}}
        hits(key, we) == UNION {{p} \X {i \in Islands(gs(p, key), span) : we > i.s /\ we <= i.e} : p \in people}
        whole(key) == {person_id(e) : e \in {e \in ev : e.ts >= r.from
                                                        /\ mapped_breakdown(e, q, top) = key}}
    IN [key \in KeysOf(q, top) |->
          [data |-> [k \in DOMAIN bs |->
               Cardinality(hits(key, next_bucket(bs[k], r.interval)))],
           aggregated |-> Cardinality(whole(key))]]

\* aggregate and value_expr: rows without a value do not count.
aggregate(math, evs) ==
    CASE math = "total" -> Cardinality(evs)
      [] math = "dau" -> Cardinality({person_id(e) : e \in evs})
      [] math = "unique_session" -> Cardinality({e.text : e \in evs} \ {NULL})
      [] math = "sum" -> FoldSet(LAMBDA e, n : n + numeric_expr(e.text), 0, evs)

GroupingSets(q, node, r, bs, top, leased) ==
    LET x == {e \in relation(leased, r.from, r.to) : predicate(e, q, node)}
        at(key) == {e \in x : mapped_breakdown(e, q, top) = key}
    IN [key \in KeysOf(q, top) |->
          [data |-> [k \in DOMAIN bs |->
               aggregate(node.math, {e \in at(key) : bucket_expr(r.interval, e.ts) = bs[k]})],
           aggregated |-> aggregate(node.math, at(key))]]

Nonzero(c) == c.aggregated # 0 \/ \E k \in DOMAIN c.data : c.data[k] # 0

\* $$_other appears when the ranking folded values or it has data.
Shown(computed, top) ==
    [key \in {key \in DOMAIN computed : key = TrendOther => top.other \/ Nonzero(computed[key])} |->
        computed[key]]

compute(q, node, r, bs, top, leased) ==
    Shown(IF FitsMasks(q, node, r, bs) THEN active_masks(q, node, r, bs, top, leased)
          ELSE IF window_days(node.math) > 0 THEN WindowPlan(q, node, r, bs, top, leased)
          ELSE GroupingSets(q, node, r, bs, top, leased),
          top)

\* Formula A - B over the series, 0 where a series has no such key.
Subtracted(per, bs) ==
    LET has(k, key) == key \in DOMAIN per[k]
        data(k, key, b) == IF has(k, key) THEN per[k][key].data[b] ELSE 0
        whole(k, key) == IF has(k, key) THEN per[k][key].aggregated ELSE 0
    IN [key \in DOMAIN per[1] \cup DOMAIN per[2] |->
          [data |-> [b \in DOMAIN bs |-> data(1, key, b) - data(2, key, b)],
           aggregated |-> whole(1, key) - whole(2, key)]]

Results(q, per, bs) == IF q.formula THEN <<Subtracted(per, bs)>> ELSE per

\* period_series: a series without a value of the breakdown shows nothing.
period_series(q, tops, r, bs, leased) ==
    Results(q, [k \in DOMAIN q.series |->
                  IF q.breakdown.by # "no" /\ tops[k].values = {} THEN <<>>
                  ELSE compute(q, q.series[k], r, bs, tops[k], leased)], bs)

TrendsLeased(q, plan) ==
    leased_for(q.dates, [from |-> trends_load_from(plan), to |-> plan.range.to])

Tops(q, plan, leased) ==
    [k \in DOMAIN q.series |-> top_values(q, q.series[k], plan.range, leased)]

\* trends::run: the current period, then the previous one, ranked alike.
EveryPeriod(q, plan, leased) ==
    [k \in DOMAIN plan.periods |->
        period_series(q, Tops(q, plan, leased), plan.periods[k], buckets(plan.periods[k]), leased)]

trends(q) == EveryPeriod(q, trends_plan(q), TrendsLeased(q, trends_plan(q)))

\* (PastTheRange: a window is not cut where the range ends.)
PastTheRange(w, r) == w.end

\* A trailing window counts nothing from after the range.
WindowEnd(w, r) == Min({w.end, r.to})

ActorsOf(q, r, leased, node, bs, k, key) ==
    LET top == top_values(q, node, r, leased)
        w == WindowOf(node, r, bs, k)
        ev == IF window_days(node.math) > 0
              THEN relation(leased, w.start, WindowEnd(w, r))
              ELSE {e \in relation(leased, r.from, r.to) : bucket_expr(r.interval, e.ts) = bs[k]}
        valued(e) == CASE node.math = "unique_session" -> e.text # NULL
                       [] node.math = "sum" -> numeric_expr(e.text) # NULL
                       [] OTHER -> TRUE
    IN {person_id(e) : e \in {e \in ev : /\ predicate(e, q, node) /\ valued(e)
                                         /\ mapped_breakdown(e, q, top) = key}}

\* trends::actors: the persons behind one point.
trends_actors(q, index, k, key) ==
    LET r == trends_plan(q).range
    IN ActorsOf(q, r, TrendsLeased(q, trends_plan(q)), q.series[index], buckets(r), k, key)

-----------------------------------------------------------------------------
(* The oracle.                                                               *)

\* trends_ranking and rank
OracleRanking(q, node, r) ==
    LET ev == {e \in events : in_range(e, r) /\ OracleMatches(e, q, node)}
        counts == [v \in {Text(e, q) : e \in ev} |-> Cardinality({e \in ev : Text(e, q) = v})]
        before(v, w) == counts[v] > counts[w] \/ (counts[v] = counts[w] /\ v < w)
        place(v) == Cardinality({w \in DOMAIN counts : before(w, v)})
    IN [values |-> {v \in DOMAIN counts : place(v) < q.breakdown.limit},
        other |-> Cardinality(DOMAIN counts) > q.breakdown.limit]

\* series_events
OracleEvents(q, node, ranking, key, from, to) ==
    {e \in events : /\ from <= e.ts /\ e.ts < to /\ OracleMatches(e, q, node)
                    /\ mapped_breakdown(e, q, ranking) = key}

\* The events of one point: of the bucket, or of its trailing window.
OraclePoint(q, node, ranking, key, r, bucket) ==
    LET end == next_bucket(bucket, r.interval)
    IN IF window_days(node.math) = 0
       THEN {e \in OracleEvents(q, node, ranking, key, r.from, r.to)
               : bucket_of(e.ts, r.interval) = bucket}
       ELSE OracleEvents(q, node, ranking, key, end - window_days(node.math), Min({end, r.to}))

\* math_value
math_value(math, evs) == aggregate(IF needs_person(math) THEN "dau" ELSE math, evs)

\* trends_period
trends_period(q, rankings, r) ==
    LET bs == buckets(r)
        cell(node, rk, key) ==
            [data |-> [k \in DOMAIN bs |->
                 math_value(node.math, OraclePoint(q, node, rk, key, r, bs[k]))],
             aggregated |-> math_value(node.math, OracleEvents(q, node, rk, key, r.from, r.to))]
        series(k, rk) ==
            IF q.breakdown.by # "no" /\ rk.values = {} THEN <<>>
            ELSE Shown([key \in KeysOf(q, rk) |-> cell(q.series[k], rk, key)], rk)
    IN Results(q, [k \in DOMAIN q.series |-> series(k, rankings[k])], bs)

oracle_trends(q) ==
    LET r == resolve(q.dates, q.interval, earliest)
        rankings == [k \in DOMAIN q.series |-> OracleRanking(q, q.series[k], r)]
    IN [k \in 1 .. (IF q.compare THEN 2 ELSE 1) |->
          trends_period(q, rankings, IF k = 1 THEN r ELSE previous(r))]

-----------------------------------------------------------------------------
(* Properties.                                                               *)

TrendsAnswered(q) ==
    LET r == resolve(q.dates, q.interval, earliest)
    IN r # NoRange /\ ~TooManyBuckets(r) /\ (q.compare => ~TooManyBuckets(previous(r)))

\* Whichever of the three plans computes a series, each point and each total is
\* what the definition says: with trailing windows that begin before the range,
\* persons merged after their events were stored, values folded into $$_other,
\* and a previous period ranked like the current one.
TrendsAreExact ==
    asking \in {"trends", "windows", "breakdowns"} =>
        \A q \in Questions[asking].queries : TrendsAnswered(q) => trends(q) = oracle_trends(q)

CountedActors(q, current) ==
    \A index \in {k \in DOMAIN q.series : needs_person(q.series[k].math)} :
        \A key \in DOMAIN current[index] :
            \A k \in DOMAIN current[index][key].data :
                Cardinality(trends_actors(q, index, k, key)) = current[index][key].data[k]

\* The persons listed behind a point are the persons the point counted.
TrendsActorsReconcile ==
    asking \in {"windows", "breakdowns"} =>
        \A q \in Questions[asking].queries :
            (TrendsAnswered(q) /\ ~q.formula /\ ~q.compare) => CountedActors(q, trends(q)[1])
=============================================================================
