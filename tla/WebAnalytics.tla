---------------------------- MODULE WebAnalytics ----------------------------
(***************************************************************************)
(* Web analytics (src/src/explore/web.rs, dates.rs, filters.rs): the       *)
(* overview in its two forms (overview_fast, which folds bit masks, and    *)
(* the general SQL of session_ctes), the live visitors and the breakdowns. *)
(*                                                                         *)
(* One tick stands for the gap that ends a sessionless visit; an hour, a   *)
(* day and a week are the tick counts of truncate, and months begin at     *)
(* MonthsBegin.  visits[i] is the event whose (timestamp, uuid) has rank   *)
(* i: only that order matters, so a later arrival is placed by it.  `col`  *)
(* is the promoted column the question reads (the pathname or the          *)
(* dimension's), Missing when the event has none.                          *)
(***************************************************************************)
EXTENDS Integers, Sequences, FiniteSets, FiniteSetsExt

CONSTANTS
    WebIds,         \* distinct ids
    WebSessions,    \* session ids
    Cols,           \* values of the promoted column
    Missing,        \* SQL's NULL
    LastTick,        \* timestamps are 0 .. LastTick
    SessionGap,     \* SESSION_GAP_MICROS
    BounceTime,     \* BOUNCE_MICROS
    LiveWindow,     \* LIVE_WINDOW
    MonthsBegin,    \* first instants of the months
    MaskBits,       \* bits of one word of a mask (64)
    MaxBucketWords, \* MAX_BUCKET_WORDS
    WebMaxBuckets,  \* MAX_BUCKETS of dates.rs
    SiteEvents,     \* the events that may be stored
    MaxVisits,      \* bound: events stored
    WebQueries      \* the questions asked

ASSUME WebAssumption ==
    /\ Missing \notin Cols /\ Missing \notin WebSessions
    /\ {LastTick, SessionGap, BounceTime, LiveWindow, MaxVisits} \subseteq Nat
    /\ {MaskBits, MaxBucketWords, WebMaxBuckets} \subseteq Nat \ {0}
    /\ SiteEvents \subseteq
         [ts : 0 .. LastTick, event : {"$pageview", "$autocapture"}, id : WebIds,
          session : WebSessions \union {Missing}, col : Cols \union {Missing}]
    /\ MonthsBegin \subseteq Nat /\ 0 \in MonthsBegin

\* `from` is -1 for the range "all".
ASSUME QuestionsAssumption ==
    \A q \in WebQueries :
        /\ q.from \in Nat \cup {-1} /\ q.to \in Nat
        /\ q.interval \in {"hour", "day", "week", "month", "auto"}

VARIABLES
    visits,         \* the stored events, in (timestamp, uuid) order
    personOf        \* explore_overrides: the person of each distinct id

webVars == <<visits, personOf>>

-----------------------------------------------------------------------------
(* Dates (dates.rs). *)

DayLength == 2

truncate(at, interval) ==
    CASE interval = "hour"  -> at
      [] interval = "day"   -> at - (at % DayLength)
      [] interval = "week"  -> at - (at % (2 * DayLength))
      [] interval = "month" -> Max({m \in MonthsBegin : m <= at})

\* The starts of the buckets that cover [from, to).
date_buckets(from, to, interval) ==
    {b \in truncate(from, interval) .. to - 1 : truncate(b, interval) = b}

Fits(from, to, interval) == Cardinality(date_buckets(from, to, interval)) <= WebMaxBuckets

\* The interval asked for, or the finest that fits, daily beyond two days;
\* "none" when there is none.
choose_interval(requested, from, to) ==
    LET first  == IF to - from <= 2 * DayLength THEN "hour" ELSE "day"
        order  == IF requested = "auto" THEN <<first, "day", "week", "month">> ELSE <<requested>>
        fitting == {k \in DOMAIN order : Fits(from, to, order[k])}
    IN  IF fitting = {} THEN "none" ELSE order[Min(fitting)]

Day(at) == at \div DayLength

\* EventSource::files over the days first .. last - 1: whole days of events.
day_files(first, last) == {i \in DOMAIN visits : Day(visits[i].ts) \in first .. last - 1}

\* day_span: the days [from, to) touches, the last one exclusive.
SpanFiles(from, to) == day_files(Day(from), Day(to - 1) + 1)

-----------------------------------------------------------------------------
(* The plan of a question, and the events it reads. *)

\* A filter on the column; the negative one keeps events without a value
\* (filters.rs: coalesce(x NOT IN (...), true)).  The text, number and date
\* operators are tests of the value that treat a missing one like exact, their
\* negations like is_not.
compile(filter, v) ==
    CASE filter.op = "none"       -> TRUE
      [] filter.op = "exact"      -> v.col = filter.value
      [] filter.op = "is_not"     -> v.col # filter.value
      [] filter.op = "is_set"     -> v.col # Missing
      [] filter.op = "is_not_set" -> v.col = Missing

\* The oldest stored event of the days up to `to`: the start of "all".
oldest_event(to) ==
    LET days == day_files(0, Day(to - 1) + 1)
    IN  IF days = {} THEN truncate(to, "day") ELSE Min({visits[i].ts : i \in days})

\* from, to and the start of the previous period (-1 when there is none).
plan(q, with_previous) ==
    LET from == IF q.from = -1 THEN oldest_event(q.to) ELSE q.from
    IN  [from |-> from, to |-> q.to, filter |-> q.filter,
         previous |-> IF with_previous /\ q.from # -1 /\ 2 * from - q.to >= 0
                      THEN 2 * from - q.to ELSE -1]

refused(q) == plan(q, FALSE).from >= q.to

Low(p) == IF p.previous = -1 THEN p.from ELSE p.previous

\* The rows the SQL reads: the files of the days, cut to the range, filtered.
rows(p, lo) == {i \in SpanFiles(lo, p.to) :
                    visits[i].ts \in lo .. p.to - 1 /\ compile(p.filter, visits[i])}

period(p, i) == IF visits[i].ts >= p.from THEN 1 ELSE 0
Views(R) == {i \in R : visits[i].event = "$pageview"}
Autocaptures(R) == {i \in R : visits[i].event = "$autocapture"}
Person(i) == personOf[visits[i].id]
Persons(R) == {Person(i) : i \in R}
Duration(R) == Max({visits[i].ts : i \in R}) - Min({visits[i].ts : i \in R})
OfPeriod(p, R, n) == {i \in R : period(p, i) = n}
Sessionless(R) == {i \in R : visits[i].session = Missing}

-----------------------------------------------------------------------------
(* Sessions. *)

\* Events with a session id, grouped by it (per period).
WithId(R) ==
    {{i \in R : visits[i].session = s} : s \in {visits[i].session : i \in R} \ {Missing}}

\* (StrictGap: a visitor who comes back exactly at the gap opens a session.)
StrictGap(R, i) ==
    LET before == {j \in R : Person(j) = Person(i) /\ j < i}
    IN  before = {} \/ visits[i].ts - visits[Max(before)].ts >= SessionGap

\* gaps / numbered: lag over the person's rows in time order, and the running
\* count of the rows that opened a session.
NewSession(R, i) ==
    LET before == {j \in R : Person(j) = Person(i) /\ j < i}
    IN  IF before = {} THEN TRUE
        ELSE ~ (visits[i].ts - visits[Max(before)].ts <= SessionGap)

SessionNumber(R, i) ==
    Cardinality({j \in R : Person(j) = Person(i) /\ j <= i /\ NewSession(R, j)})

ByGaps(R) ==
    {{j \in R : Person(j) = Person(i) /\ SessionNumber(R, j) = SessionNumber(R, i)} : i \in R}

\* Only sessions with a pageview count.
Counted(G) == {s \in G : Views(s) # {}}

Bounce(s) == Cardinality(Views(s)) = 1 /\ Autocaptures(s) = {} /\ Duration(s) < BounceTime

SessionStats(G) ==
    [sessions |-> Cardinality(G), bounces |-> Cardinality({s \in G : Bounce(s)}),
     duration |-> FoldSet(LAMBDA s, n : n + Duration(s), 0, G)]

-----------------------------------------------------------------------------
(* overview_fast: masks of buckets per distinct id, OR-ed per person. *)

Units(interval) == IF interval = "hour" THEN 1 ELSE IF interval = "day" THEN DayLength ELSE 2 * DayLength

Words(n) == IF n = 0 THEN 1 ELSE (n + MaskBits - 1) \div MaskBits

FastApplies(p, interval) ==
    /\ interval # "month"
    /\ Words(Cardinality(date_buckets(p.from, p.to, interval))) <= MaxBucketWords
    /\ SpanFiles(Low(p), p.to) # {}

\* Index of a pageview's bucket, -1 for the previous period.
BucketIndex(p, interval, i) ==
    IF visits[i].ts >= p.from
    THEN (visits[i].ts - truncate(p.from, interval)) \div Units(interval)
    ELSE -1

\* (OneWord: a bucket past the first word loses its bit.)
OneWord(p, interval, R, words) ==
    [w \in 0 .. words - 1 |->
        IF w = 0 THEN {BucketIndex(p, interval, i) : i \in R} \intersect (0 .. MaskBits - 1) ELSE {}]

\* The mask words a set of pageviews folds into: word w holds bits.
Mask(p, interval, R, words) ==
    [w \in 0 .. words - 1 |->
        {k - w * MaskBits : k \in {n \in {BucketIndex(p, interval, i) : i \in R} :
                                       n >= w * MaskBits /\ n < (w + 1) * MaskBits}}]

\* Folding ids into persons: OR of the masks, and of the previous flags.
Folded(p, interval, R, words) ==
    [h \in Persons(R) |->
        LET ids == {visits[i].id : i \in {j \in R : Person(j) = h}}
            of(d) == {i \in R : visits[i].id = d}
        IN  [mask |-> [w \in 0 .. words - 1 |->
                         UNION {Mask(p, interval, of(d), words)[w] : d \in ids}],
             prev |-> \E d \in ids : \E i \in of(d) : BucketIndex(p, interval, i) < 0]]

\* The sessions of a period: by id, and by gaps only when a pageview without
\* a session id exists in some period.
FastSessions(p, R, n) ==
    LET less == Views(Sessionless(R)) # {}
    IN  Counted(WithId(OfPeriod(p, R, n)))
        \union (IF less THEN Counted(ByGaps(Sessionless(OfPeriod(p, R, n)))) ELSE {})

overview_fast(p, interval) ==
    LET R     == rows(p, Low(p))
        n     == Cardinality(date_buckets(p.from, p.to, interval))
        words == Words(n)
        who   == Folded(p, interval, Views(R), words)
        seen(k) == {h \in DOMAIN who : (k % MaskBits) \in who[h].mask[k \div MaskBits]}
    IN  [visitors |-> <<Cardinality({h \in DOMAIN who : who[h].prev}),
                        Cardinality({h \in DOMAIN who : \E w \in 0 .. words - 1 : who[h].mask[w] # {}})>>,
         pageviews |-> <<Cardinality({i \in Views(R) : BucketIndex(p, interval, i) < 0}),
                         Cardinality({i \in Views(R) : BucketIndex(p, interval, i) >= 0})>>,
         sessions |-> <<SessionStats(FastSessions(p, R, 0)), SessionStats(FastSessions(p, R, 1))>>,
         visitors_series |-> [k \in 0 .. n - 1 |-> Cardinality(seen(k))],
         pageviews_series |-> [k \in 0 .. n - 1 |->
             Cardinality({i \in Views(R) : BucketIndex(p, interval, i) = k})]]

-----------------------------------------------------------------------------
(* The general SQL: session_ctes, page_stats, session_stats, series. *)

tagged(p, R, n) == WithId(OfPeriod(p, R, n)) \union ByGaps(Sessionless(OfPeriod(p, R, n)))

session_ctes(p, R, n) == Counted(tagged(p, R, n))

overview_general(p, interval) ==
    LET R     == rows(p, Low(p))
        days  == date_buckets(p.from, p.to, interval)
        nth(k) == CHOOSE b \in days : Cardinality({c \in days : c < b}) = k
        at(k) == {i \in Views(OfPeriod(p, R, 1)) : truncate(visits[i].ts, interval) = nth(k)}
        indexes == 0 .. Cardinality(days) - 1
    IN  [visitors  |-> <<Cardinality(Persons(Views(OfPeriod(p, R, 0)))),
                         Cardinality(Persons(Views(OfPeriod(p, R, 1))))>>,
         pageviews |-> <<Cardinality(Views(OfPeriod(p, R, 0))), Cardinality(Views(OfPeriod(p, R, 1)))>>,
         sessions  |-> <<SessionStats(session_ctes(p, R, 0)), SessionStats(session_ctes(p, R, 1))>>,
         visitors_series  |-> [k \in indexes |-> Cardinality(Persons(at(k)))],
         pageviews_series |-> [k \in indexes |-> Cardinality(at(k))]]

\* The previous period is shown only when there is one.
WithPrevious(p, o) ==
    IF p.previous # -1 THEN o
    ELSE [o EXCEPT !.visitors[1] = 0, !.pageviews[1] = 0, !.sessions[1] = SessionStats({})]

\* Every number the overview shows.
overview(q, p, interval) ==
    WithPrevious(p, IF FastApplies(p, interval) THEN overview_fast(p, interval)
                                                ELSE overview_general(p, interval))

\* Distinct persons seen in the last minutes, from the files of those days.
live_visitors(q, now) ==
    Cardinality(Persons({i \in Views(day_files(Day(now - LiveWindow), Day(now) + 2)) :
        visits[i].ts \in now - LiveWindow .. now /\ compile(q.filter, visits[i])}))

-----------------------------------------------------------------------------
(* Breakdowns, without their bounce rates (Bounce again) and the LIMIT.     *)

\* arg_min and arg_max leave out the rows whose argument is NULL.
Valued(s)  == {i \in Views(s) : visits[i].col # Missing}
EntryOf(s) == IF Valued(s) = {} THEN Missing ELSE visits[Min(Valued(s))].col
ExitOf(s)  == IF Valued(s) = {} THEN Missing ELSE visits[Max(Valued(s))].col

PageRows(R) ==
    {[value |-> c, views |-> Cardinality({i \in Views(R) : visits[i].col = c}),
      visitors |-> Cardinality(Persons({i \in Views(R) : visits[i].col = c}))] :
        c \in {visits[i].col : i \in Views(R)}}

\* `value` and `views` are functions of the sessions.
SessionRows(value, views) ==
    {LET of == {s \in DOMAIN value : value[s] = c}
     IN  [value |-> c, views |-> MapThenSumSet(LAMBDA s : views[s], of),
          visitors |-> Cardinality({Person(Min(Views(s))) : s \in of})] :
        c \in {value[s] : s \in DOMAIN value}}

breakdown(q, dimension) ==
    LET p == plan(q, FALSE)
        R == rows(p, p.from)
        G == session_ctes(p, R, 1)
        entries == [s \in G |-> EntryOf(s)]
        exits == [s \in G |-> ExitOf(s)]
        one == [s \in G |-> 1]
        views == [s \in G |-> Cardinality(Views(s))]
    IN  CASE dimension = "page"       -> PageRows(R)
          [] dimension = "entry_page" -> SessionRows(entries, one)
          [] dimension = "exit_page"  -> SessionRows(exits, one)
          [] dimension = "other"      -> SessionRows(entries, views)

-----------------------------------------------------------------------------
(* Events arrive in any order; a merge moves an id to another's person. *)

WebInit ==
    /\ visits = <<>>
    /\ personOf = [d \in WebIds |-> d]

StoreVisit(v) ==
    /\ Len(visits) < MaxVisits
    /\ visits # <<>> => visits[Len(visits)].ts <= v.ts
    /\ visits' = Append(visits, v)
    /\ UNCHANGED personOf

MergeVisitors(a, b) ==
    /\ personOf = [d \in WebIds |-> d] /\ a # b
    /\ personOf' = [personOf EXCEPT ![b] = a]
    /\ UNCHANGED visits

\* The questions turn to another project, which has its own events.
NextSite ==
    /\ Len(visits) = MaxVisits /\ personOf # [d \in WebIds |-> d]
    /\ visits' = <<>> /\ personOf' = [d \in WebIds |-> d]

WebNext ==
    \/ \E v \in SiteEvents : StoreVisit(v)
    \/ \E a, b \in WebIds : MergeVisitors(a, b)
    \/ NextSite

-----------------------------------------------------------------------------
(* What the answers should be, from the definitions of web.rs:3-20. *)

\* Two sessionless events of a person belong together when every event between
\* them is followed by another within the gap.
Chained(R, i, j) ==
    /\ Person(i) = Person(j)
    /\ \A k \in R : LET later == {m \in R : Person(m) = Person(i) /\ visits[m].ts > visits[k].ts}
                    IN  /\ Person(k) = Person(i)
                        /\ Min({visits[i].ts, visits[j].ts}) <= visits[k].ts
                        /\ visits[k].ts < Max({visits[i].ts, visits[j].ts})
                        => \E m \in later : visits[m].ts - visits[k].ts <= SessionGap

DefinedSessions(R) ==
    Counted({{j \in R : Chained(R, i, j)} : i \in R})

Defined(p, interval) ==
    LET all == {i \in DOMAIN visits : visits[i].ts \in Low(p) .. p.to - 1 /\ compile(p.filter, visits[i])}
        part(n) == {i \in all : (n = 1) <=> visits[i].ts >= p.from}
        starts == date_buckets(p.from, p.to, interval)
        in(b) == {i \in Views(part(1)) : b <= visits[i].ts /\ \A c \in starts : c > b => visits[i].ts < c}
        sessions(n) == Counted(WithId(part(n))) \union DefinedSessions(Sessionless(part(n)))
        rank(b) == Cardinality({c \in starts : c < b})
    IN  [visitors  |-> [n \in 1 .. 2 |-> Cardinality(Persons(Views(part(n - 1))))],
         pageviews |-> [n \in 1 .. 2 |-> Cardinality(Views(part(n - 1)))],
         sessions  |-> [n \in 1 .. 2 |-> SessionStats(sessions(n - 1))],
         visitors_series  |-> [k \in 0 .. Cardinality(starts) - 1 |->
             Cardinality(Persons(UNION {in(b) : b \in {c \in starts : rank(c) = k}}))],
         pageviews_series |-> [k \in 0 .. Cardinality(starts) - 1 |->
             Cardinality(UNION {in(b) : b \in {c \in starts : rank(c) = k}})]]

Total(R) == FoldSet(LAMBDA r, n : n + r.views, 0, R)

Agree(q, p, o, d) ==
    /\ o.visitors[2] = d.visitors[2] /\ o.pageviews[2] = d.pageviews[2]
    /\ o.sessions[2] = d.sessions[2]
    /\ p.previous # -1 => /\ o.visitors[1] = d.visitors[1]
                          /\ o.pageviews[1] = d.pageviews[1]
                          /\ o.sessions[1] = d.sessions[1]
    /\ o.visitors_series = d.visitors_series
    /\ o.pageviews_series = d.pageviews_series
    /\ \A dimension \in {"page", "other"} : Total(breakdown(q, dimension)) = o.pageviews[2]
    /\ \A dimension \in {"entry_page", "exit_page"} :
           Total(breakdown(q, dimension)) = o.sessions[2].sessions

LiveAgrees(q) ==
    live_visitors(q, q.to - 1) =
        Cardinality(Persons({i \in Views(DOMAIN visits) : compile(q.filter, visits[i])
            /\ visits[i].ts \in q.to - 1 - LiveWindow .. q.to - 1}))

\* Entry and exit pages count the sessions by the page of their first and last
\* pageview (the head of web.rs).  The code takes the first and last that has one.
SessionsNamedByTheirEnds ==
    \A q \in WebQueries : ~ refused(q) =>
        LET p == plan(q, FALSE)
            G == session_ctes(p, rows(p, p.from), 1)
            one == [s \in G |-> 1]
        IN  /\ breakdown(q, "entry_page") = SessionRows([s \in G |-> visits[Min(Views(s))].col], one)
            /\ breakdown(q, "exit_page") = SessionRows([s \in G |-> visits[Max(Views(s))].col], one)

\* Whichever path answers, the overview is what the definitions say, so the mask
\* path and the general SQL never disagree; the live count misses no file; and
\* the breakdowns of the same question add up to its totals: the views per page
\* and per any other value to the pageviews, entry and exit pages to the sessions
\* (web.rs overview_fast, overview, live_visitors, breakdown).
WebAnswersAgree ==
    \A q \in WebQueries : ~ refused(q) =>
        \A p \in {plan(q, TRUE)} :
            \A interval \in {choose_interval(q.interval, p.from, p.to)} \ {"none"} :
                LiveAgrees(q) /\ Agree(q, p, overview(q, p, interval), Defined(p, interval))

=============================================================================
