---------------------------- MODULE MCInsights ----------------------------
(***************************************************************************)
(* The insight algorithms and web analytics over small sets of events, one *)
(* of them at a time: they share nothing but the stored files.             *)
(***************************************************************************)
EXTENDS Funnels, Periods, Trends, Paths, WebAnalytics, TLC

CONSTANT Parts       \* the algorithms this model checks

VARIABLE part        \* the one that answers

insightVars == <<funnelVars, sourceVars, webVars, part>>

-----------------------------------------------------------------------------
(* Questions asked of the insight algorithms.                               *)

Node(event) == [event |-> event, properties |-> {}]
Series(event, math, filters) == [event |-> event, math |-> math, properties |-> filters]
Stored(ids, times, names, texts) == [id : ids, ts : times, name : names, text : texts, uuid : {0}]
TextOfPerson == [p \in {"a", "b"} |-> IF p = "a" THEN 1 ELSE 0]
RankOfPerson == [p \in {"a", "b"} |-> IF p = "a" THEN 1 ELSE 2]
HashOfPerson == [p \in {"a", "b"} |-> IF p = "a" THEN 4 ELSE 7]

LastDay == [from |-> Calendar(-1), to |-> Calendar(Now)]
DateRanges == {LastDay, [from |-> Exact(-1), to |-> Exact(2)], [from |-> All, to |-> Calendar(Now)]}
IsNotOne == [source |-> "event", operator |-> "is_not", values |-> {1}]
AboveOne == [source |-> "event", operator |-> "gt", values |-> {1}]
KnownPerson == [source |-> "person", operator |-> "is_set", values |-> {}]
NotBrokenDown == [by |-> "no", limit |-> 1]

RetentionQuestions ==
    [period : {"day", "week", "month"}, total_intervals : {2, 3}, first_time : BOOLEAN,
     target : {Node("t")}, returning : {Node("r"), Node("any")}, properties : {{}}]

PeriodQuestions ==
    [dates : DateRanges, interval : Intervals, series : {Node("t")}, properties : {{}}]

MathQuestions ==
    [dates : DateRanges, interval : {"hour", "week"}, compare : {FALSE},
     series : {<<Series("t", math, f)>> : math \in {"dau", "sum", "unique_session"},
                                          f \in {{}, {IsNotOne}, {AboveOne}}},
     properties : {{}}, breakdown : {NotBrokenDown}, formula : {FALSE}]

WindowQuestions ==
    {q \in [dates : DateRanges, interval : {"hour", "day", "month"}, compare : BOOLEAN,
            series : {<<Series("any", math, f)>> : math \in {"weekly_active", "monthly_active"},
                                                   f \in {{}, {KnownPerson}}},
            properties : {{}}, breakdown : {NotBrokenDown}, formula : {FALSE}] :
        q.compare => q.dates = LastDay /\ q.interval # "hour"}

BreakdownQuestions ==
    [dates : {LastDay}, interval : {"day"}, compare : BOOLEAN,
     series : {<<Series("t", "weekly_active", {}), Series("any", "total", {IsNotOne})>>},
     properties : {{}}, breakdown : {[by |-> b, limit |-> 1] : b \in {"event", "person"}},
     formula : BOOLEAN]

PathQuestions ==
    [dates : {LastDay}, paths_type : {"all", "pageviews"}, start_point : {NoNode, 1},
     end_point : {NoNode, 2}, step_limit : {2, 3}, edge_limit : {1, 5}, properties : {{}}]

\* Page views whose order within a microsecond is their uuids'.
PathEvents ==
    {e \in [id : {"a", "b"}, ts : {-1, 1}, name : {"$pageview"}, text : {1, 2}, uuid : {1, 2, 11, 12}] :
        e.uuid = (IF e.id = "a" THEN 0 ELSE 10) + (IF e.ts < 0 THEN e.text ELSE 3 - e.text)}
    \cup [id : {"a"}, ts : {0}, name : {"t"}, text : {0}, uuid : {1}]
    \cup [id : {"b"}, ts : {0}, name : {"$pageview"}, text : {0}, uuid : {11}]

InsightQuestions ==
    [x \in {"retention", "lifecycle", "stickiness", "trends", "windows", "breakdowns", "paths"} |->
       CASE x = "retention" ->
              [queries |-> RetentionQuestions, maxEvents |-> 3,
               events |-> Stored({"a", "b"}, {-9, -3, 0, 4}, {"t", "r"}, {0})]
         [] x \in {"lifecycle", "stickiness"} ->
              [queries |-> PeriodQuestions, maxEvents |-> 3,
               events |-> Stored({"a", "b"}, {-9, -3, -1, 0, 2, 3}, {"t"}, {0})]
         [] x = "trends" ->
              [queries |-> MathQuestions, maxEvents |-> 2,
               events |-> Stored({"a", "b"}, {-3, 0, 3}, {"t"}, {0, 1, 2, NotNumeric})]
         [] x = "windows" ->
              [queries |-> WindowQuestions, maxEvents |-> 3,
               events |-> Stored({"a", "b"}, {-9, -3, -1, 3}, {"t"}, {0})]
         [] x = "breakdowns" ->
              [queries |-> BreakdownQuestions, maxEvents |-> 3,
               events |-> Stored({"a", "b"}, {-3, 2}, {"t"}, {0, 1, 2})]
         [] x = "paths" -> [queries |-> PathQuestions, maxEvents |-> 4, events |-> PathEvents]]

FunnelQuestion(order, exclusions, by, masks, n) ==
    [order |-> order, exclusions |-> exclusions, breakdown |-> by, masks |-> masks,
     maxRows |-> n, people |-> IF by = "no" THEN {1} ELSE {1, 2},
     hash |-> <<5, 5>>, values |-> {1, 2}, personValue |-> <<1, 2>>]

FunnelQuestions ==
    {FunnelQuestion("ordered", {}, "no", {{0}, {1}, {2}, {0, 1}, {0, 1, 2}}, 4),
     FunnelQuestion("unordered", {}, "no", SUBSET {0, 1, 2}, 3),
     FunnelQuestion("strict", {}, "no", {{}, {0}, {1}, {2}}, 4),
     FunnelQuestion("ordered", {[from |-> 0, to |-> 1]}, "no", {{0}, {1}, {32}, {1, 32}}, 4),
     FunnelQuestion("ordered", {[from |-> 1, to |-> 2]}, "no", {{0}, {1}, {2}, {1, 32}}, 4),
     FunnelQuestion("strict", {[from |-> 0, to |-> 2]}, "no", {{}, {0}, {1}, {2}, {1, 32}}, 3),
     FunnelQuestion("ordered", {}, "event", {{0}, {1}, {0, 1}}, 3),
     FunnelQuestion("ordered", {}, "person", {{0}, {1}}, 3)}

NoFilter == [op |-> "none", value |-> Missing]

WebQuestions ==
    {[from |-> 3, to |-> 6, interval |-> "hour", filter |-> NoFilter],
     [from |-> 3, to |-> 6, interval |-> "day", filter |-> [op |-> "is_not", value |-> "a"]],
     [from |-> 3, to |-> 6, interval |-> "month", filter |-> NoFilter],
     [from |-> -1, to |-> 5, interval |-> "auto", filter |-> [op |-> "exact", value |-> "a"]]}

\* Values matter to page views of the range that have no session id.
WebVisits ==
    {v \in [ts : 1 .. 5, event : {"$pageview", "$autocapture"}, id : WebIds,
            session : WebSessions \union {Missing}, col : Cols \union {Missing}] :
        /\ v.col # Missing => v.event = "$pageview" /\ v.ts >= 3 /\ v.session = Missing
        /\ v.event = "$autocapture" => v.ts \in {2, 4}
        /\ v.session # Missing => v.ts # 1}

-----------------------------------------------------------------------------
InsightsInit ==
    /\ part \in Parts
    /\ FunnelInit /\ (part # "funnels" => fq = CHOOSE q \in FunnelQueries : TRUE)
    /\ SourceInit /\ (part # "insights" => asking = "paths")
    /\ WebInit

InsightsNext ==
    \/ part = "funnels" /\ FunnelNext /\ UNCHANGED <<sourceVars, webVars, part>>
    \/ part = "insights" /\ SourceNext /\ UNCHANGED <<funnelVars, webVars, part>>
    \/ part = "web" /\ WebNext /\ UNCHANGED <<funnelVars, sourceVars, part>>

InsightsSpec == InsightsInit /\ [][InsightsNext]_insightVars

\* The visitors of a site may change places.
InsightsSymmetry == Permutations(WebIds)

-----------------------------------------------------------------------------
(* The properties, each evaluated where its algorithm answers.              *)

\* The funnel plans count what the reference search over each person's events
\* counts, and the actor lists agree with the counts (query/funnels.rs, oracle.rs).
FunnelsExact == part = "funnels" => FunnelIsExact /\ FunnelActorsReconcile

\* Retention, lifecycle and stickiness read enough of the past and of each bucket
\* to give the reference answers (query/retention.rs, lifecycle.rs, stickiness.rs).
PeriodsExact == part = "insights" => RetentionIsExact /\ LifecycleIsExact /\ StickinessIsExact

\* Trends with their windows, comparisons, breakdowns and formulas, and paths split
\* into partitions, give the reference answers; a point's actors are as many as the
\* point says (query/trends.rs, query/paths.rs, oracle.rs).
TrendsAndPathsExact ==
    part = "insights" => TrendsAreExact /\ TrendsActorsReconcile /\ PathsAreExact

\* The fast and the exact plan of web analytics give the defined sessions, visitors
\* and pageviews (explore/web.rs overview_fast, overview, breakdown).
WebExact == part = "web" => WebAnswersAgree
=============================================================================
