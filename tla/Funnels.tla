------------------------------ MODULE Funnels -------------------------------
(***************************************************************************)
(* Funnels (src/src/query/funnels.rs) against the brute-force definitions  *)
(* of src/src/query/oracle.rs.  A stored row is what the scan delivers of  *)
(* an event: its person, timestamp, the set of steps and exclusions it     *)
(* matches, and its breakdown value; frows holds the rows in (timestamp,   *)
(* uuid) order.  Three plans compute the same answer; the first two read   *)
(* rows whose equal timestamps come in no particular order.                *)
(***************************************************************************)
EXTENDS Integers, Sequences, FiniteSets, SequencesExt, FiniteSetsExt

CONSTANTS
    FunnelQueries,       \* the queries asked, each with the rows it may meet
    FunnelSteps,         \* steps of a funnel (query.series)
    FunnelWindow,        \* funnel_window
    LastFunnelTime,      \* timestamps are 0..LastFunnelTime
    GatherBytes,         \* funnel_gather_bytes: a person costs 2, a row 1
    MaxTied,             \* funnel_max_tied
    PartitionRows,       \* funnel_partition_rows
    MaxPartitions,       \* MAX_PARTITIONS
    BreakdownLimit       \* breakdown.limit

ASSUME FunnelAssumption ==
    /\ FunnelSteps \in Nat \ {0} /\ FunnelWindow \in Nat
    /\ GatherBytes \in Nat /\ MaxTied \in Nat
    /\ PartitionRows \in Nat \ {0} /\ MaxPartitions \in Nat \ {0}
    /\ BreakdownLimit \in Nat \ {0}

VARIABLES
    fq,                  \* the query, with hash: person -> hash(person_id)
    frows,               \* rows stored, in (timestamp, uuid) order
    fplan,               \* plan tried next: "gathered", "hash", "ordered", "done"
    foutcomes            \* the PersonOutcomes of the plan that answered

funnelVars == <<fq, frows, fplan, foutcomes>>

EXCLUSION_BIT == 32
StepBits == 0 .. FunnelSteps - 1
BREAKDOWN_NONE == 0
BREAKDOWN_OTHER == -1

Past(ev, a, i) == ev[i].ts - ev[a].ts > FunnelWindow
After(ev, a) == [k \in 1 .. Len(ev) - a |-> a + k]

-----------------------------------------------------------------------------
(* One attempt, as funnels.rs finds it.                                      *)

\* Each next step is the earliest later event that matches it.
ordered_positions(ev, a) ==
    FoldLeft(LAMBDA pos, i :
                 IF Len(pos) < FunnelSteps /\ ~Past(ev, a, i) /\ Len(pos) \in ev[i].mask
                 THEN Append(pos, i) ELSE pos,
             <<a>>, After(ev, a))

\* The steps are consecutive events of the person.
strict_positions(ev, a) ==
    LET reached == {n \in 1 .. FunnelSteps :
                      \A k \in 1 .. n - 1 : /\ a + k <= Len(ev)
                                            /\ ~Past(ev, a, a + k)
                                            /\ k \in ev[a + k].mask}
    IN [k \in 1 .. Max(reached) |-> a + k - 1]

\* The time each newly covered step is covered at, in any order of steps.
unordered_times(ev, a) ==
    LET cover(acc, i) ==
            LET new == (ev[i].mask \cap StepBits) \ acc.covered IN
            IF acc.covered = StepBits \/ Past(ev, a, i) THEN acc
            ELSE [covered |-> acc.covered \cup new,
                  times |-> acc.times \o [k \in 1 .. Cardinality(new) |-> ev[i].ts]]
    IN FoldLeft(cover, [covered |-> {}, times |-> <<>>], <<a>> \o After(ev, a)).times

\* An exclusion event strictly between from_step and to_step, or up to the end
\* of the window when to_step was not reached, discards the attempt.
tainted(ev, pos, exclusions) ==
    \E x \in exclusions :
        /\ Len(pos) > x.from
        /\ LET from == pos[x.from + 1]
               late == {i \in from + 1 .. Len(ev) : Past(ev, pos[1], i)}
               end == IF Len(pos) > x.to THEN pos[x.to + 1] ELSE Min(late \cup {Len(ev) + 1})
           IN \E i \in from + 1 .. end - 1 : EXCLUSION_BIT \in ev[i].mask

\* The deepest step any ordered attempt can reach: each step is chained to the
\* latest start that still fits the window.  Steps are updated from the last to
\* the first, so that one event never fills two.
ordered_max_depth(ev) ==
    LET chain(start, e) ==
            [s \in StepBits |->
                IF s = 0 THEN (IF 0 \in e.mask THEN e.ts ELSE start[0])
                ELSE IF s \in e.mask /\ start[s-1] # -1 /\ e.ts - start[s-1] <= FunnelWindow
                     THEN start[s-1] ELSE start[s]]
        last == FoldLeft(chain, [s \in StepBits |-> -1], ev)
    IN Max({0} \cup {s + 1 : s \in {s \in StepBits : last[s] # -1}})

NoAttempt == [anchor |-> 0, times |-> <<>>]

\* The person's counting attempt: the deepest that survives, the earliest of
\* equals; anchors are tried until one reaches the ceiling.
best_attempt(ev) ==
    LET anchors == IF fq.order = "unordered" THEN StepBits ELSE {0}
        ceiling == IF fq.order = "ordered" THEN ordered_max_depth(ev) ELSE FunnelSteps
        positions(a) == IF fq.order = "ordered" THEN ordered_positions(ev, a)
                        ELSE strict_positions(ev, a)
        times(a) == IF fq.order = "unordered" THEN unordered_times(ev, a)
                    ELSE LET pos == positions(a) IN [k \in DOMAIN pos |-> ev[pos[k]].ts]
        survives(a) == fq.order = "unordered" \/ ~tainted(ev, positions(a), fq.exclusions)
        try(acc, a) ==
            IF acc.over \/ ev[a].mask \cap anchors = {} \/ ~survives(a) THEN acc
            ELSE LET t == times(a)
                     best == IF acc.best = NoAttempt \/ Len(t) > Len(acc.best.times)
                             THEN [anchor |-> a, times |-> t] ELSE acc.best
                 IN [best |-> best, over |-> Len(t) >= ceiling]
    IN FoldLeft(try, [best |-> NoAttempt, over |-> FALSE], [k \in DOMAIN ev |-> k]).best

\* Scan::outcome: the outcome of one person's collected rows, if there is one.
outcome(p, ev) ==
    LET attempt == best_attempt(ev)
        first == IF fq.breakdown = "person" THEN 1 ELSE attempt.anchor
    IN IF attempt = NoAttempt THEN {}
       ELSE {[person |-> p, times |-> attempt.times,
              breakdown |-> IF fq.breakdown = "no" THEN BREAKDOWN_NONE ELSE ev[first].bd]}

-----------------------------------------------------------------------------
(* The three plans.                                                          *)

\* scan_plan: a strict funnel reads every row, any other only the rows that
\* match a step or an exclusion.
scan_plan == SelectSeq(frows, LAMBDA r : fq.order = "strict" \/ r.mask # {})

\* The rows of each person, in the order given.
Collected(rows) ==
    [p \in {rows[i].person : i \in DOMAIN rows} |-> SelectSeq(rows, LAMBDA r : r.person = p)]

Indexes == 1 .. Max({q.maxRows : q \in FunnelQueries})
Shuffles == [n \in {0} \cup Indexes |-> {f \in [1 .. n -> 1 .. n] : IsInjective(f)}]

\* sort_by_time: ordered by timestamp, ties in any order.
sort_by_time(rows) ==
    {[i \in DOMAIN rows |-> rows[f[i]]] :
        f \in {f \in Shuffles[Len(rows)] :
                 \A i, j \in DOMAIN rows : i < j => rows[f[i]].ts <= rows[f[j]].ts}}

\* (MasksOnly: two events that differ only in their breakdown value.)
MasksOnly(ev) ==
    \E i \in 1 .. Len(ev) - 1 : ev[i].ts = ev[i+1].ts /\ ev[i].mask # ev[i+1].mask

\* Do two events of one timestamp differ in anything the analysis reads?
tie_matters(ev) ==
    \E i \in 1 .. Len(ev) - 1 :
        /\ ev[i].ts = ev[i+1].ts
        /\ ev[i].mask # ev[i+1].mask \/ (fq.breakdown # "no" /\ ev[i].bd # ev[i+1].bd)

\* Ctx::partitions_of: from the row count of the files, the filtered rows too.
Partitions ==
    Min({Max({(Len(frows) + PartitionRows - 1) \div PartitionRows, 1}), MaxPartitions})

\* partition_clause
Partition(rows, n) ==
    SelectSeq(rows, LAMBDA r : Partitions = 1 \/ fq.hash[r.person] % Partitions = n)

\* analyze_ordered, restricted to some persons: rows in (timestamp, uuid) order.
analyze_ordered(persons) ==
    LET people == Collected(scan_plan)
    IN UNION {outcome(p, people[p]) : p \in persons \cap DOMAIN people}

\* What both shuffled plans do with each person's rows: persons whose ties
\* matter are read again in uuid order.
Decide(people) ==
    LET tied == {p \in DOMAIN people : tie_matters(people[p])}
    IN analyze_ordered(tied) \cup UNION {outcome(p, people[p]) : p \in DOMAIN people \ tied}

TooManyTied(people) ==
    Cardinality({p \in DOMAIN people : tie_matters(people[p])}) > MaxTied

\* Bytes one partition's gathered state is accounted with.
Gathered(rows) == 2 * Cardinality({rows[i].person : i \in DOMAIN rows}) + Len(rows)

\* analyze_gathered: collected in any order, then sorted; gives up on its
\* budget or on too many ties.
analyze_gathered ==
    /\ fplan = "gathered"
    /\ \E rows \in sort_by_time(scan_plan) :
          LET people == Collected(rows)
              fits == /\ \A n \in 0 .. Partitions - 1 :
                             Gathered(Partition(rows, n)) <= GatherBytes
                      /\ ~TooManyTied(people)
          IN IF fits THEN fplan' = "done" /\ foutcomes' = Decide(people)
             ELSE fplan' = "hash" /\ UNCHANGED foutcomes
    /\ UNCHANGED <<fq, frows>>

\* The runs of analyze_by_hash: rows come ordered by (hash, timestamp); within
\* the run of a hash each row goes to its own person.
HashRuns(rows) ==
    LET hashes == {fq.hash[rows[i].person] : i \in DOMAIN rows}
        run == [h \in hashes |-> Collected(SelectSeq(rows, LAMBDA r : fq.hash[r.person] = h))]
    IN [p \in {rows[i].person : i \in DOMAIN rows} |-> run[fq.hash[p]][p]]

analyze_by_hash ==
    /\ fplan = "hash"
    /\ \E rows \in sort_by_time(scan_plan) :
          LET people == HashRuns(rows) IN
          IF TooManyTied(people) THEN fplan' = "ordered" /\ UNCHANGED foutcomes
          ELSE fplan' = "done" /\ foutcomes' = Decide(people)
    /\ UNCHANGED <<fq, frows>>

AnalyzeOrdered ==
    /\ fplan = "ordered"
    /\ fplan' = "done" /\ foutcomes' = analyze_ordered(DOMAIN Collected(scan_plan))
    /\ UNCHANGED <<fq, frows>>

\* An event of the query's range is stored.
FunnelRow(r) ==
    /\ fplan = "gathered" /\ Len(frows) < fq.maxRows
    /\ IF frows = <<>> THEN TRUE ELSE Last(frows).ts <= r.ts
    /\ frows' = Append(frows, r)
    /\ UNCHANGED <<fq, fplan, foutcomes>>

\* The next query over an empty project.
NextFunnel ==
    /\ fplan = "done"
    /\ fplan' = "gathered" /\ frows' = <<>> /\ foutcomes' = {}
    /\ UNCHANGED fq

RowsOf(q) ==
    UNION {[person : {p}, ts : 0 .. LastFunnelTime, mask : q.masks,
            bd : IF q.breakdown = "event" THEN q.values ELSE {q.personValue[p]}]
             : p \in q.people}

FunnelInit ==
    /\ fq \in FunnelQueries
    /\ frows = <<>> /\ fplan = "gathered" /\ foutcomes = {}

FunnelNext ==
    \/ \E r \in RowsOf(fq) : FunnelRow(r)
    \/ analyze_gathered \/ analyze_by_hash \/ AnalyzeOrdered
    \/ NextFunnel

-----------------------------------------------------------------------------
(* The answer built from the outcomes.                                       *)

\* Values ranked by persons, most first, ties by value; at most the limit.
TopValues(outcomes) ==
    LET values == {o.breakdown : o \in outcomes}
        count(v) == Cardinality({o \in outcomes : o.breakdown = v})
        above(v, w) == count(w) > count(v) \/ (count(w) = count(v) /\ w < v)
    IN {v \in values : Cardinality({w \in values : above(v, w)}) < BreakdownLimit}

\* (RestDropped: persons whose value is past the limit are left out.)
RestDropped(outcomes) ==
    {o \in outcomes : fq.breakdown = "no" \/ o.breakdown \in TopValues(outcomes)}

\* assign_breakdowns: values past the limit become $$_other.
assign_breakdowns(outcomes) ==
    IF fq.breakdown = "no" THEN outcomes
    ELSE {[o EXCEPT !.breakdown = IF o.breakdown \in TopValues(outcomes)
                                  THEN o.breakdown ELSE BREAKDOWN_OTHER] : o \in outcomes}

\* step_results: persons who reached each step, and who stopped before it.
step_results(outcomes) ==
    LET count == [s \in StepBits |-> Cardinality({o \in outcomes : Len(o.times) > s})]
    IN [s \in StepBits |-> [count |-> count[s],
                            dropped_off |-> IF s = 0 THEN 0 ELSE count[s-1] - count[s]]]

\* actors: the persons behind one number of the funnel.
funnel_actors(outcomes, step, converted, value) ==
    {o.person : o \in {o \in assign_breakdowns(outcomes) :
        /\ IF converted THEN Len(o.times) > step ELSE step > 0 /\ Len(o.times) = step
        /\ fq.breakdown # "no" => o.breakdown = value}}

-----------------------------------------------------------------------------
(* The oracle: every sequence of events is tried.                            *)

\* ordered_search: the deepest sequence from an anchor, ties to the
\* lexicographically smallest positions.
ordered_search(ev, a) ==
    LET seqs == {<<a>> \o SetToSortSeq(S, LAMBDA i, j : i < j) : S \in SUBSET (a + 1 .. Len(ev))}
        valid(p) == /\ Len(p) <= FunnelSteps
                    /\ \A k \in 2 .. Len(p) : ~Past(ev, a, p[k]) /\ (k - 1) \in ev[p[k]].mask
        less(p, r) == \E k \in DOMAIN p : p[k] < r[k] /\ \A j \in 1 .. k - 1 : p[j] = r[j]
        all == {p \in seqs : valid(p)}
        deepest == {p \in all : \A r \in all : Len(r) <= Len(p)}
    IN CHOOSE p \in deepest : \A r \in deepest : r = p \/ less(p, r)

\* The times of the attempt anchored at a, or {} when there is none.
OracleAttempt(ev, a) ==
    LET window == {i \in a .. Len(ev) : ~Past(ev, a, i)}
        covers(s) == {i \in window : s \in ev[i].mask}
        covered == {s \in StepBits : covers(s) # {}}
        at(s) == ev[Min(covers(s))].ts
        byTime == SetToSortSeq(covered, LAMBDA s, t : at(s) < at(t) \/ (at(s) = at(t) /\ s < t))
        consecutive == {n \in 1 .. FunnelSteps :
                          \A k \in 1 .. n - 1 : (a + k) \in window /\ k \in ev[a + k].mask}
        pos == IF fq.order = "ordered" THEN ordered_search(ev, a)
               ELSE [k \in 1 .. Max(consecutive) |-> a + k - 1]
        spoilt(x) == /\ Len(pos) > x.from
                     /\ \E i \in DOMAIN ev :
                          /\ EXCLUSION_BIT \in ev[i].mask /\ i > pos[x.from + 1]
                          /\ IF Len(pos) > x.to THEN i < pos[x.to + 1] ELSE i \in window
    IN IF fq.order = "unordered"
       THEN IF ev[a].mask \cap StepBits = {} THEN {}
            ELSE {[k \in DOMAIN byTime |-> at(byTime[k])]}
       ELSE IF 0 \notin ev[a].mask \/ \E x \in fq.exclusions : spoilt(x) THEN {}
            ELSE {[k \in DOMAIN pos |-> ev[pos[k]].ts]}

\* funnel_outcomes
funnel_outcomes ==
    LET people == Collected(frows)
        deepest(p) == {a \in DOMAIN people[p] :
                         \E t \in OracleAttempt(people[p], a) :
                           \A b \in DOMAIN people[p] : \A u \in OracleAttempt(people[p], b) :
                             Len(u) < Len(t) \/ (Len(u) = Len(t) /\ b >= a)}
        value(p, a) == CASE fq.breakdown = "no" -> BREAKDOWN_NONE
                         [] fq.breakdown = "event" -> people[p][a].bd
                         [] OTHER -> fq.personValue[p]
    IN UNION {UNION {{[person |-> p, times |-> t, breakdown |-> value(p, a)] :
                          t \in OracleAttempt(people[p], a)} : a \in deepest(p)}
                : p \in DOMAIN people}

-----------------------------------------------------------------------------
(* Properties.                                                               *)

\* Whichever plan answers, and whatever order ties were delivered in, each
\* person's attempt is the one the definition names: the deepest surviving
\* attempt of the earliest anchor, with the anchor's breakdown value.
FunnelIsExact == fplan = "done" => foutcomes = funnel_outcomes

\* The numbers of a funnel and the persons behind them agree: opening a step,
\* converted or dropped off, of each breakdown value lists exactly the persons
\* the funnel counted there, and the values past the limit are not lost.
FunnelActorsReconcile ==
    fplan = "done" =>
        LET named == assign_breakdowns(foutcomes)
            values == {o.breakdown : o \in named}
            part(v) == {o \in named : o.breakdown = v}
        IN \A s \in StepBits :
             /\ \A v \in values :
                  /\ Cardinality(funnel_actors(foutcomes, s, TRUE, v)) = step_results(part(v))[s].count
                  /\ Cardinality(funnel_actors(foutcomes, s, FALSE, v))
                       = step_results(part(v))[s].dropped_off
             /\ FoldSet(LAMBDA v, n : n + step_results(part(v))[s].count, 0, values)
                  = step_results(foutcomes)[s].count
=============================================================================
