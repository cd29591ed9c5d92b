------------------------------- MODULE Paths --------------------------------
(***************************************************************************)
(* Paths (src/src/query/paths.rs) against src/src/query/oracle.rs: persons *)
(* are read partition by partition as one ordered stream of rows, their    *)
(* nodes collapsed, cut and linked.  Nodes are numbers, so that they sort. *)
(***************************************************************************)
EXTENDS InsightSource, SequencesExt

CONSTANTS
    PathPartitionRows,   \* partition_rows
    PathMaxPartitions,   \* MAX_PARTITIONS
    PersonHash,          \* person -> hash(person_id)
    PersonRank           \* person -> its place among all person ids

\* Persons are told apart by their ids, events of one instant by their uuids.
ASSUME PathsAssumption ==
    /\ PathPartitionRows \in Nat \ {0} /\ PathMaxPartitions \in Nat \ {0}
    /\ \A p \in DOMAIN PersonRank : PersonRank[p] \in Int /\ PersonHash[p] \in Nat
    /\ \A p, o \in DOMAIN PersonRank : PersonRank[p] = PersonRank[o] => p = o
    /\ \A a \in DOMAIN Questions \cap {"paths"} :
          /\ \A e \in Questions[a].events : e.id \in DOMAIN PersonRank /\ e.uuid \in Int
          /\ \A e, f \in Questions[a].events : e.ts = f.ts /\ e.uuid = f.uuid => e = f
          /\ \A q \in Questions[a].queries :
                DatesOK(q.dates) /\ FiltersOK(q.properties) /\ q.step_limit \in Nat

NoNode == 0
CustomNode(name) == CASE name = "t" -> 101 [] name = "r" -> 102 [] OTHER -> NoNode

\* The node of an event: the pathname of a pageview, the name of an event
\* that does not begin with $.
node_of(e, q) ==
    CASE q.paths_type = "pageviews" -> IF e.name = "$pageview" THEN e.text ELSE NoNode
      [] q.paths_type = "custom" -> CustomNode(e.name)
      [] q.paths_type = "all" -> IF e.name = "$pageview" THEN e.text ELSE CustomNode(e.name)

First(nodes, n) == Min({k \in DOMAIN nodes : nodes[k].node = n})
Has(nodes, n) == \E k \in DOMAIN nodes : nodes[k].node = n

\* The nodes so far, a repeat of the last one left out.
collapsed(nodes) ==
    LET path[k \in 0 .. Len(nodes)] ==
            IF k = 0 THEN <<>>
            ELSE IF path[k-1] # <<>> /\ Last(path[k-1]).node = nodes[k].node THEN path[k-1]
            ELSE Append(path[k-1], nodes[k])
    IN path

\* path_links: repeats collapsed, cut at the start and end points and at the
\* step limit; NoNode stands for a point not asked for.
path_links(q, nodes) ==
    LET path == collapsed(nodes)[Len(nodes)]
        begun == IF q.start_point = NoNode THEN path
                 ELSE IF Has(path, q.start_point)
                      THEN SubSeq(path, First(path, q.start_point), Len(path)) ELSE <<>>
        ended == IF q.end_point = NoNode THEN begun
                 ELSE IF Has(begun, q.end_point)
                      THEN SubSeq(begun, 1, First(begun, q.end_point)) ELSE <<>>
        cut == SubSeq(ended, 1, Min({Len(ended), q.step_limit}))
    IN {[step |-> k, source |-> cut[k].node, target |-> cut[k+1].node,
         micros |-> cut[k+1].ts - cut[k].ts] : k \in 1 .. Len(cut) - 1}

-----------------------------------------------------------------------------
(* The scan.                                                                 *)

\* Ctx::person_partitions, partition_clause
person_partitions(leased) ==
    Min({Max({(Cardinality(leased) + PathPartitionRows - 1) \div PathPartitionRows, 1}),
         PathMaxPartitions})

InPartition(p, n, of) == of = 1 \/ PersonHash[p] % of = n

\* Rows of a partition ORDER BY person_id, ts, uuid.
RowsOfPartition(evs, q, n, of) ==
    LET rows == {[person |-> person_id(e), node |-> node_of(e, q), ts |-> e.ts, uuid |-> e.uuid]
                   : e \in evs}
        asked == {r \in rows : r.node # NoNode /\ InPartition(r.person, n, of)}
        before(a, b) == \/ PersonRank[a.person] < PersonRank[b.person]
                        \/ a.person = b.person
                           /\ (a.ts < b.ts \/ (a.ts = b.ts /\ a.uuid < b.uuid))
    IN Ordered(asked, {x \in asked \X asked : before(x[1], x[2])})

\* (OnChangeOnly: the last person of a partition is not handed over.)
OnChangeOnly(acc) == acc.out

\* After the last row of a partition the current person is handed over.
Flush(acc) ==
    IF acc.nodes = <<>> THEN acc.out
    ELSE acc.out \cup {[person |-> acc.current, nodes |-> acc.nodes]}

\* One person ends where the next one's rows begin.
handed(rows) ==
    LET acc[k \in 0 .. Len(rows)] ==
            IF k = 0 THEN [current |-> "none", nodes |-> <<>>, out |-> {}]
            ELSE LET node == [node |-> rows[k].node, ts |-> rows[k].ts]
                 IN IF acc[k-1].nodes # <<>> /\ acc[k-1].current = rows[k].person
                    THEN [acc[k-1] EXCEPT !.nodes = Append(@, node)]
                    ELSE [current |-> rows[k].person, nodes |-> <<node>>, out |-> Flush(acc[k-1])]
    IN acc

\* scan
scan(q, r) ==
    LET leased == leased_for(q.dates, r)
        evs == {e \in relation(leased, r.from, r.to) : \A f \in q.properties : filter(e, f)}
        of == person_partitions(leased)
        rows(n) == RowsOfPartition(evs, q, n, of)
    IN UNION {Flush(handed(rows(n))[Len(rows(n))]) : n \in 0 .. of - 1}

\* add_path: who takes which link.
Takes(people) == UNION {{[person |-> p.person, link |-> l] : l \in p.links} : p \in people}

LinkMicros(takes) == FoldSet(LAMBDA t, n : n + t.link.micros, 0, takes)

\* The persons and the time of a link.
LinksOf(takes) ==
    LET key(t) == <<t.link.step, t.link.source, t.link.target>>
        by(k) == {t \in takes : key(t) = k}
    IN [k \in {key(t) : t \in takes} |-> [value |-> Cardinality(by(k)), total |-> LinkMicros(by(k))]]

\* finish: the largest links kept.
finish(links, edge_limit) ==
    LET before(k, l) ==
            \/ links[k].value > links[l].value
            \/ links[k].value = links[l].value
               /\ \E i \in 1 .. 3 : k[i] < l[i] /\ \A j \in 1 .. i - 1 : k[j] = l[j]
        kept == {k \in DOMAIN links :
                   Cardinality({l \in DOMAIN links : before(l, k)}) < edge_limit}
    IN [k \in kept |-> links[k]]

paths(q, r) ==
    finish(LinksOf(Takes({[person |-> p.person, links |-> path_links(q, p.nodes)] : p \in scan(q, r)})),
           q.edge_limit)

\* paths::actors: the persons whose path has the link.
paths_actors(q, r, key) ==
    {p.person : p \in {p \in scan(q, r) :
        \E l \in path_links(q, p.nodes) : <<l.step, l.source, l.target>> = key}}

-----------------------------------------------------------------------------
(* The oracle.                                                               *)

\* A person's events in order, without those that repeat the node before them.
OraclePath(p, evs, q) ==
    LET theirs == {e \in evs : person_id(e) = p /\ node_of(e, q) # NoNode}
        before(a, b) == a.ts < b.ts \/ (a.ts = b.ts /\ a.uuid < b.uuid)
        mine == Ordered(theirs, {x \in theirs \X theirs : before(x[1], x[2])})
        kept == {k \in DOMAIN mine : k = 1 \/ node_of(mine[k], q) # node_of(mine[k-1], q)}
        order == Ordered(kept, {x \in kept \X kept : x[1] < x[2]})
    IN [k \in DOMAIN order |-> [node |-> node_of(mine[order[k]], q), ts |-> mine[order[k]].ts]]

\* oracle::paths: links between the start and the first end after it.
OracleLinks(path, q) ==
    LET starts == {k \in DOMAIN path : q.start_point = NoNode \/ path[k].node = q.start_point}
        begin == IF q.start_point = NoNode THEN 1 ELSE Min(starts)
        ends == {k \in DOMAIN path : k >= begin /\ path[k].node = q.end_point}
        end == IF q.end_point = NoNode THEN Len(path) ELSE Min(ends)
        last == Min({end, begin + q.step_limit - 1})
    IN IF starts = {} \/ (q.end_point # NoNode /\ ends = {}) THEN {}
       ELSE {[step |-> k - begin + 1, source |-> path[k].node, target |-> path[k+1].node,
              micros |-> path[k+1].ts - path[k].ts] : k \in begin .. last - 1}

oracle_paths(q, r) ==
    LET evs == {e \in events : in_range(e, r)
                  /\ \A f \in q.properties : OracleHolds(property_text(e, f.source), f)}
        people == {person_id(e) : e \in evs}
    IN finish(LinksOf(Takes({[person |-> p, links |-> OracleLinks(OraclePath(p, evs, q), q)]
                                : p \in people})), q.edge_limit)

-----------------------------------------------------------------------------
(* Properties.                                                               *)

LinksExact(q, r, links) ==
    /\ links = oracle_paths(q, r)
    /\ \A k \in DOMAIN links : Cardinality(paths_actors(q, r, k)) = links[k].value

\* The links shown are those of the definition, whatever partitions the persons
\* fall into and however their events interleave, and behind each link stand as
\* many persons as it counts.
PathsAreExact ==
    asking = "paths" =>
        \A q \in Questions[asking].queries :
            \A r \in {resolve(q.dates, "day", earliest)} \ {NoRange} : LinksExact(q, r, paths(q, r))
=============================================================================
