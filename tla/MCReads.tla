------------------------------ MODULE MCReads ------------------------------
(***************************************************************************)
(* The query engine, the explore gate, the paged lists, capture and the    *)
(* publication backlog, one at a time: they share no state in memory, so a *)
(* state of their product shows nothing that a state of one does not.      *)
(***************************************************************************)
EXTENDS QueryEngine, Feed, Intake, Backlog, ExploreGate, TLC

CONSTANT Parts       \* the parts this model checks

VARIABLE part        \* the part that runs

readsVars == <<queryVars, listVars, intakeVars, backlogVars, gateVars, part>>

-----------------------------------------------------------------------------
(* Configurations and requests of the services.                             *)

EngineConfigs == {[connections |-> 2, max_queued |-> 0], [connections |-> 1, max_queued |-> 1]}

Sent(token, shape) == [token |-> token, shape |-> shape]
Body(expands, decodes, batchToken, sent) ==
    [expands |-> expands, decodes |-> decodes, batchToken |-> batchToken, events |-> sent]

CaptureBodies ==
    {Body(FALSE, "text", NoToken, <<Sent("ta", "good")>>),
     Body(TRUE, "text", NoToken, <<Sent("ta", "good"), Sent("tb", "good")>>),
     Body(TRUE, "text", "tb", <<Sent(NoToken, "good"), Sent("ta", "performance")>>),
     Body(FALSE, "text", NoToken, <<Sent("ta", "good"), Sent("tb", "malformed")>>),
     Body(TRUE, "too_large", NoToken, <<>>)}

-----------------------------------------------------------------------------
ReadsInit ==
    /\ part \in Parts
    /\ QueryInit  /\ (part # "query" => econf = CHOOSE c \in QConfigs : TRUE)
    /\ FeedListsInit /\ IntakeInit /\ BacklogInit /\ GateInit

ReadsNext ==
    \/ /\ part = "query" /\ QueryNext
       /\ UNCHANGED <<listVars, intakeVars, backlogVars, gateVars, part>>
    \/ /\ part = "events" /\ EventFeedNext
       /\ UNCHANGED <<queryVars, intakeVars, backlogVars, gateVars, part>>
    \/ /\ part = "persons" /\ PersonListNext
       /\ UNCHANGED <<queryVars, intakeVars, backlogVars, gateVars, part>>
    \/ /\ part = "intake" /\ IntakeNext
       /\ UNCHANGED <<queryVars, listVars, backlogVars, gateVars, part>>
    \/ /\ part = "backlog" /\ BacklogNext
       /\ UNCHANGED <<queryVars, listVars, intakeVars, gateVars, part>>
    \/ /\ part = "gate" /\ GateNext
       /\ UNCHANGED <<queryVars, listVars, intakeVars, backlogVars, part>>

ReadsSpec == ReadsInit /\ [][ReadsNext]_readsVars

\* Two requests or two callers may change places; one of these sets is in use at
\* a time, so the permutations that move both together are enough.
ReadsSymmetry ==
    {g \in Permutations(QRequests \union Callers) :
        /\ \A x \in QRequests : g[x] \in QRequests
        /\ (\A x \in QRequests : g[x] = x) <=> (\A x \in Callers : g[x] = x)}

-----------------------------------------------------------------------------
(* The properties, each evaluated where its part runs.                      *)

\* What a query answers is as new as the moment it was admitted, cached or not, and
\* cached property names are never older than their TTL (query/mod.rs, cache.rs).
AnswersFresh == part = "query" => ServedIsFresh /\ PropertiesWithinTtl

\* Whoever was admitted to the engine finds a connection, the cache's byte count is
\* its entries' (query/mod.rs admit, connection; cache.rs), and a deadline of the
\* explore path interrupts its own query only (explore/mod.rs run).
AdmissionHolds ==
    /\ part = "query" => AdmittedFindsConnection /\ CacheAccountsExactly
    /\ part = "gate" => DeadlinesHitOwnQuery

\* Paging through the event feed and the person list shows everything that was there
\* all the time (explore/events.rs, persons.rs).
ListsComplete ==
    /\ part = "events" => FeedShowsEverything
    /\ part = "persons" => PersonListComplete

\* A captured body is stored whole, under the projects of its own tokens, and
\* answered 200 only then; the limiter never refuses a token that stayed under
\* its ceiling (capture/mod.rs, ratelimit.rs); and a status without lag means
\* that everything acknowledged is queryable (sink.rs PipelineStats).
IntakeHolds ==
    /\ part = "intake" => StoredWholeAndOwn /\ LimiterSparesTheQuiet
    /\ part = "backlog" => LagHonest
=============================================================================
