--------------------------- MODULE InsightSource ----------------------------
(***************************************************************************)
(* What every insight reads: date ranges and buckets (src/src/query/       *)
(* range.rs), the SQL expressions generated for them (src/src/query/       *)
(* sql.rs), the days of files leased for a query and the persons events    *)
(* belong to.  Instants are small integers around the epoch; an hour is 1, *)
(* a day 2 hours, a week 2 days, months have unequal lengths.  The world   *)
(* grows by one stored event or one identity merge at a time; what a query *)
(* answers is a function of it.                                            *)
(***************************************************************************)
EXTENDS Integers, Sequences, FiniteSets, FiniteSetsExt

CONSTANTS
    MaxBuckets,          \* MAX_BUCKETS
    Now,                 \* the time of the query
    PersonText,          \* person -> its one property's text
    Questions            \* question -> [events, maxEvents, queries]

ASSUME SourceAssumption == MaxBuckets \in Nat \ {0}

VARIABLES
    events,              \* stored: [id, ts, name, text, uuid]
    overrides,           \* person_overrides: distinct id -> person
    asking               \* the question this world is for

sourceVars == <<events, overrides, asking>>

HOUR_US == 1
DAY_US == 2 * HOUR_US
WEEK_US == 2 * DAY_US
WEEK_ORIGIN_US == -DAY_US                 \* a Monday before the epoch
MonthStarts == {-32, -26, -20, -14, -8, -2, 6, 12}   \* the calendar, day aligned
MIN_US == -40
MAX_US == 30

Instants == -32 .. MAX_US - 1                        \* what that calendar covers

Intervals == {"hour", "day", "week", "month"}

\* rem_euclid: never negative.
floor_to(us, unit, origin) == us - ((us - origin) % unit)

\* Start of the bucket containing us.
trunc(us, i) ==
    CASE i = "hour" -> floor_to(us, HOUR_US, 0)
      [] i = "day" -> floor_to(us, DAY_US, 0)
      [] i = "week" -> floor_to(us, WEEK_US, WEEK_ORIGIN_US)
      [] i = "month" -> Max({m \in MonthStarts : m <= us})

next_bucket(start, i) ==
    CASE i = "hour" -> start + HOUR_US
      [] i = "day" -> start + DAY_US
      [] i = "week" -> start + WEEK_US
      [] i = "month" -> Min({m \in MonthStarts : m > start} \cup {MAX_US})

previous_bucket(start, i) ==
    CASE i = "hour" -> start - HOUR_US
      [] i = "day" -> start - DAY_US
      [] i = "week" -> start - WEEK_US
      [] i = "month" -> Max({m \in MonthStarts : m < start} \cup {MIN_US})

\* (FromTheRange: buckets counted from the range start, not from the bucket
\* that holds it.)
FromTheRange(r) ==
    LET at[k \in 0 .. MaxBuckets] == IF k = 0 THEN r.from ELSE next_bucket(at[k-1], r.interval)
    IN [k \in 1 .. Cardinality({k \in 0 .. MaxBuckets : at[k] < r.to}) |-> at[k-1]]

\* The starts of the buckets from the one that holds the range's start.
bucket_starts(r) ==
    LET at[k \in 0 .. MaxBuckets] ==
            IF k = 0 THEN trunc(r.from, r.interval) ELSE next_bucket(at[k-1], r.interval)
    IN at

\* ResolvedRange::buckets: bucket starts covering the range.
buckets(r) ==
    LET at == bucket_starts(r)
    IN [k \in 1 .. Cardinality({k \in 0 .. MaxBuckets : at[k] < r.to}) |-> at[k-1]]

\* A range with more buckets than the bound is refused.
TooManyBuckets(r) == Len(buckets(r)) > MaxBuckets

\* ResolvedRange::previous: the period of equal length right before.
previous(r) == [r EXCEPT !.from = r.from - (r.to - r.from), !.to = r.from]

align_down(us, i) == IF i = "hour" THEN trunc(us, "hour") ELSE trunc(us, "day")

align_end(us, i) ==
    IF i = "hour" THEN trunc(us, "hour") + HOUR_US ELSE trunc(us, "day") + DAY_US

\* Point: an instant written down, a calendar position, or "all".
Exact(us) == [at |-> "exact", us |-> us]
Calendar(us) == [at |-> "calendar", us |-> us]
All == [at |-> "all", us |-> 0]

NoRange == [from |-> 0, to |-> 0, interval |-> "hour"]

\* resolve: first is the first event's timestamp for date_from: "all".
resolve(dates, i, first) ==
    LET from == CASE dates.from.at = "exact" -> dates.from.us
                  [] dates.from.at = "calendar" -> align_down(dates.from.us, i)
                  [] dates.from.at = "all" -> align_down(first, i)
        to == IF dates.to.at = "exact" THEN dates.to.us + 1 ELSE align_end(dates.to.us, i)
    IN IF from >= to THEN NoRange ELSE [from |-> from, to |-> to, interval |-> i]

-----------------------------------------------------------------------------
(* The SQL of a bucket: DuckDB's % keeps the sign of the dividend.           *)

SqlRem(a, b) == IF a >= 0 THEN a % b ELSE -((-a) % b)

\* (TowardsZero: the remainder of an instant before the epoch is negative.)
TowardsZero(ts, unit, origin) == ts - SqlRem(ts - origin, unit)

floor_expr(ts, unit, origin) == ts - SqlRem(SqlRem(ts - origin, unit) + unit, unit)

bucket_expr(i, ts) ==
    CASE i = "hour" -> floor_expr(ts, HOUR_US, 0)
      [] i = "day" -> floor_expr(ts, DAY_US, 0)
      [] i = "week" -> floor_expr(ts, WEEK_US, WEEK_ORIGIN_US)
      [] i = "month" -> Max({m \in MonthStarts : m <= ts})

-----------------------------------------------------------------------------
(* ORDER BY the relation R: the k-th row has k - 1 before it.                *)

Ordered(S, R) ==
    [k \in 1 .. Cardinality(S) |->
        CHOOSE x \in S : Cardinality({y \in S : <<y, x>> \in R}) = k - 1]

-----------------------------------------------------------------------------
(* Files, persons and filters.                                               *)

day_of(us) == us \div DAY_US

\* QueryEngine::files: the events in the files of the days a span needs.
files(span) ==
    {e \in events : /\ span.from = MIN_US \/ day_of(e.ts) >= day_of(span.from)
                    /\ span.to = MAX_US \/ day_of(e.ts) <= day_of(span.to - 1)}

\* uses_all: "all" leases every file, any other range the days it loads.
leased_for(dates, span) == IF dates.from.at = "all" THEN events ELSE files(span)

\* Source::relation: the events of the leased files in [from, to).
relation(leased, from, to) == {e \in leased : from <= e.ts /\ e.ts < to}

earliest == IF events = {} THEN Now ELSE Min({e.ts : e \in events})

\* coalesce(o.person_id, e.distinct_id)
person_id(e) == IF e.id \in DOMAIN overrides THEN overrides[e.id] ELSE e.id

\* A property's text: missing, not a number, or a number.
NULL == 0
NotNumeric == -3

property_text(e, source) == IF source = "event" THEN e.text ELSE PersonText[person_id(e)]

numeric_expr(text) == IF text > 0 THEN text ELSE NULL

\* SQL tests have three outcomes; filter folds the third into false before it
\* negates.
SqlTest(text, holds) == IF text = NULL THEN "null" ELSE IF holds THEN "true" ELSE "false"
SqlNot(test) == CASE test = "true" -> "false" [] test = "false" -> "true" [] OTHER -> "null"

\* (NullIsNotNegated: NOT of a missing property is unknown, not true.)
NullIsNotNegated(test) == SqlNot(test) = "true"

negative(test) == SqlNot(IF test = "null" THEN "false" ELSE test) = "true"

\* Source::filter: f.values are the texts an operator's argument matches.
filter(e, f) ==
    LET text == property_text(e, f.source)
        number == numeric_expr(text)
    IN CASE f.operator = "exact" -> SqlTest(text, text \in f.values) = "true"
         [] f.operator = "is_not" -> negative(SqlTest(text, text \in f.values))
         [] f.operator = "gt" -> SqlTest(number, \E v \in f.values : number > v) = "true"
         [] f.operator = "is_set" -> text # NULL
         [] f.operator = "is_not_set" -> text = NULL

event_match(e, node) == node.event = "any" \/ e.name = node.event

predicate(e, q, node) ==
    /\ event_match(e, node)
    /\ \A f \in node.properties \cup q.properties : filter(e, f)

\* person_keys: does the query read a person property?
person_keys(q) ==
    \/ \E f \in q.properties : f.source = "person"
    \/ \E k \in DOMAIN q.series : \E f \in q.series[k].properties : f.source = "person"
    \/ q.breakdown.by = "person"

-----------------------------------------------------------------------------
(* The oracle's calendar and filters.                                        *)

OracleStarts ==
    [i \in Intervals |-> CASE i = "hour" -> MIN_US .. MAX_US
                           [] i = "day" -> {k * DAY_US : k \in -20 .. 15}
                           [] i = "week" -> {WEEK_ORIGIN_US + k * WEEK_US : k \in -10 .. 7}
                           [] i = "month" -> MonthStarts]

\* bucket_of: the one start at or before the instant whose next is after it.
bucket_of(us, i) ==
    CHOOSE s \in OracleStarts[i] : s <= us /\ us < next_bucket(s, i)

\* holds
OracleHolds(text, f) ==
    LET found == text # NULL /\ text \in f.values
    IN CASE f.operator = "exact" -> found
         [] f.operator = "is_not" -> ~found
         [] f.operator = "gt" -> text > 0 /\ \A v \in f.values : text > v
         [] f.operator = "is_set" -> text # NULL
         [] f.operator = "is_not_set" -> text = NULL

\* World::matches
OracleMatches(e, q, node) ==
    /\ node.event = "any" \/ e.name = node.event
    /\ \A f \in node.properties \cup q.properties : OracleHolds(property_text(e, f.source), f)

in_range(e, r) == r.from <= e.ts /\ e.ts < r.to

-----------------------------------------------------------------------------
(* The questions.                                                            *)

Operators == {"exact", "is_not", "gt", "is_set", "is_not_set"}

\* filter_number: gt compares with one number.
FiltersOK(filters) ==
    \A f \in filters : f.operator \in Operators /\ (f.operator = "gt" => \E v \in f.values : f.values = {v})

DatesOK(dates) ==
    /\ dates.from.at \in {"exact", "calendar", "all"} /\ dates.to.at \in {"exact", "calendar"}
    /\ dates.from.at # "all" => dates.from.us \in Instants
    /\ dates.to.us \in Instants

\* The calendar covers every instant that is stored or asked about.
ASSUME InstantsAssumption ==
    /\ Now \in Instants
    /\ \A a \in DOMAIN Questions :
          /\ Questions[a].maxEvents \in Nat
          /\ \A e \in Questions[a].events : e.ts \in Instants

-----------------------------------------------------------------------------
(* The world grows.                                                          *)

Store(e) ==
    /\ Cardinality(events) < Questions[asking].maxEvents
    /\ events' = events \cup {e}
    /\ UNCHANGED <<overrides, asking>>

\* identity.rs apply: one distinct id now belongs to another person.
Merge(loser, winner) ==
    /\ overrides = <<>> /\ loser # winner
    /\ overrides' = [id \in {loser} |-> winner]
    /\ UNCHANGED <<events, asking>>

\* The next project asks the same of an empty store.
NextProject ==
    /\ Cardinality(events) = Questions[asking].maxEvents
    /\ events' = {} /\ overrides' = <<>>
    /\ UNCHANGED asking

SourceInit == events = {} /\ overrides = <<>> /\ asking \in DOMAIN Questions

SourceNext ==
    \/ \E e \in Questions[asking].events \ events : Store(e)
    \/ \E e, f \in events : Merge(e.id, f.id)
    \/ NextProject
=============================================================================
