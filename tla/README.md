# Hoglet: a TLA+ verification project

Hoglet is a product-analytics server in one binary: it takes events over HTTP,
answers 200 once they are durable, and makes them queryable. This directory
holds TLA+ models of its core, the TLC configurations that check them, and
TLAPS proofs. Paths below are relative to the repository (`src/src/...` is the
Rust crate).

## The system

```
 HTTP capture ──► bounded queue ──► writer thread ──► WAL segments (.open, .wal)
                                        │ seal signal         │ read / reclaim
                                        ▼                     ▼
                                   publisher thread ──► Parquet files + projections.sqlite
                                        │ compact, retain, erase, sweep
                                        ▼
 dashboards ──► query engine ──► lease of a file snapshot + identity overrides
```

| component | state | operations | interacts with |
|---|---|---|---|
| Write-ahead log (`pipeline/wal.rs`) | segment files, the open segment, poison flag | write, sync, seal, open (recovery), read_window, reclaim_through | written by the writer thread, read and reclaimed by the publisher thread with no lock between them |
| Durable sink (`sink.rs`) | queue, permits, statistics, the two threads | append, group commit, seal timer, publish tick, erase, shutdown | calls everything below |
| Publisher (`lake/publisher.rs`) | the checkpoint (in SQLite) | publish_window and its three loops | one SQLite transaction holds files, projections and checkpoint |
| Lake (`lake/mod.rs`) | `lake_files`, generation, snapshots, graveyard | open, lease, activate, sweep_graveyard | leased by every query |
| Compactor (`lake/compactor.rs`) | none of its own | merge, retention, erase | publisher thread |
| Identity projection (`projections.rs`) | persons, distinct_ids, identity_state, pending_erasures, catalog | apply_identity_effects, erase_person | written in the publisher's transaction |
| Override feed (`persons.rs`, `query/identity.rs`) | epoch, seq, `person_overrides` | overrides_since, sync | pulled by each query session |
| Query engine (`query/mod.rs`, `cache.rs`) | permits, connection pool, identity lock, result cache | admit, session, cache get and put | leases, overrides |
| Insight algorithms (`query/funnels.rs`, `trends.rs`, ...) | none | one function of the stored events per insight | the query engine |
| Explore path (`explore/`) | two semaphores, connections, list cursors | run, event feed, person list, web analytics | leases, overrides |
| Capture edge (`capture/`, `ratelimit.rs`) | decode gate, parse budget, token cache, rate window | the capture handler | control state, sink, forwarder |
| Control state (`control*.rs`) | `control.db`, one worker thread | accounts, sessions, members, invites, keys; insights, dashboards, shares | routes, capture |
| Feature flags (`flags/`) | versioned definitions, compiled cache | create, update, delete, evaluate | control, persons |
| Forwarder, import | queue and counters; checkpoint file | batches with retry; pages with a cursor | external PostHog |
| Login throttle (`security.rs`) | failures per email and per source | check, record | sign-in routes |
| Storage bootstrap (`storage_bootstrap.rs`) | two database files and two staged ones | create, recover, refuse | before everything else |

### What is hard here

- Two threads share the log directory without a lock: a listing can show both
  names of a segment being sealed, or neither.
- Durability is a chain of fsync, rename, directory fsync, SQLite commit and
  unlink; a process or the power can go at any link.
- Erasure spans the log, SQLite and Parquet files and cannot be one
  transaction.
- Queries hold files that compaction and retention retire under them.
- The query engine copies identity overrides page by page while merges and
  erasures commit between its statements.
- The order of merges, not only their set, decides who a person is.
- A request is a future: it stops at every await, other requests run meanwhile,
  and a client that leaves drops it there, while what it handed to a thread runs
  on.
- An insight has several plans (masks, window functions, partitions, early
  stops); which one answers depends on the data, and all must agree.

### What makes each part correct

| component | properties |
|---|---|
| Write-ahead log, sink, publisher | an acknowledged batch survives any crash; it becomes queryable exactly once, in order; every directory a crash leaves passes discovery and holds no torn sealed file (it may still be refused for its checkpoint: finding 1); a clean stop has published everything; a status without lag is true |
| Identity projection | every id has an existing person; overrides reach the feed; the oldest bucketing key and the newest `last_seen` survive merges; identified persons are not folded by client events |
| Override feed | the copy equals the projection at the version it claims; a sync ends |
| Lake, compactor | the catalog names exactly the stored events, in durable files; a leased file stays readable; a data version identifies a set of files; retired files leave the disk |
| Erasure | an answered erasure covers all that was acknowledged before it and nothing after; an interrupted one is not forgotten; every request is answered |
| Control state | an organization keeps an owner; an invite is used once; a reset leaves no session; nothing points at what was deleted or at another project |
| Query engine | an answer, cached or not, is not older than its request; who is admitted finds a connection; the cache counts its bytes |
| Insights, web analytics | every plan gives what the definition over all events gives |
| Explore path | paging skips nothing; a deadline hits its own query only |
| Flags | no stale definition stays cached; variants are ranges without overlap or hole that reach 100% up to rounding; a rollout that grows turns nobody off; the value survives the login |
| Capture, rate limits | stored whole and under its own project, or not acknowledged; a quiet token is never refused |
| Forwarder, import | every event is counted, order is kept; a resumed import skips nothing that could be read |
| Throttle, bootstrap | waits and tables are bounded; one whole pair of databases is served, or a start is refused |

## Modules

The event pipeline:

| module | models | state and actions |
|---|---|---|
| `EventStore` | the promise of the pipeline to its clients | acknowledged batches and the stored sequence; `Ack`, `Publish` |
| `WriteAheadLog` | `pipeline/wal.rs`, the two loops of `sink.rs`, windows and reclamation of `lake/publisher.rs` | directory and file contents with what a power cut may leave; writer and publisher places; listing in progress; window; checkpoint. One action per system call or commit that another actor can come between. Implements `EventStore` (same variables, `INSTANCE ... WITH`) |
| `Lake` | `lake/mod.rs`, `lake/compactor.rs`, the file part of `lake/publisher.rs`, leases of `source.rs` | files (present, durable, reachable by a power cut), catalog rows, snapshot, graveyard, leases; begin / write / directory sync / commit / activate for publication, merge, retention and rewrite |
| `Identity` | the person graph of `projections.rs` | one record `db` for the tables; an action per event kind, `Erase`, `ClearPending`; the code's helpers are functions of `db` |
| `IdentityFeed` | `persons.rs` `overrides_since` and `query/identity.rs` `sync`, over `Identity` | the reader's statements (`SyncBegin`, `ReadRows`, `ReadRest`, `SyncApply`) interleave with every action of `Identity` |
| `Erasure` | the erasure path through `sink.rs`, `projections.rs`, `lake/compactor.rs`, `routes/erasure.rs` | the log as a sequence with three cursors, channel, publisher place, pending ids, answers; an action per step that can fail |
| `Backlog` | `PipelineStats` of `sink.rs` | the counters and clocks the two threads share, one action per atomic operation |
| `Intake` | `capture/mod.rs`, `ratelimit.rs`, the queue of `sink.rs` | requests with the await they are at, permits, token cache, rate window, writer queue; a client may leave at each await |

Reading:

| module | models | state and actions |
|---|---|---|
| `QueryEngine` | `query/mod.rs`, `query/sql_query.rs`, `cache.rs`, `routes/project.rs` | permits, sessions and the step each is at, the shared override table, the cache; event data and identity are versions |
| `ExploreGate` | `explore/mod.rs` `run`, `with_connection` | permits, connections, the slot that caller and task share, interrupts |
| `Feed` | `explore/events.rs`, `explore/persons.rs` | a client paging while events are published and persons change |
| `InsightSource` | `query/range.rs`, `query/sql.rs`, leased days | the stored events and merges every insight is a function of |
| `Funnels`, `Periods`, `Trends`, `Paths` | `query/funnels.rs`; `retention.rs`, `lifecycle.rs`, `stickiness.rs`; `trends.rs`; `paths.rs`, each with its part of `query/oracle.rs` | functions, the plans beside the reference |
| `WebAnalytics` | `explore/web.rs`, `dates.rs`, `filters.rs` | functions of the stored page views: fast plan, general plan, definition |

Services:

| module | models | state and actions |
|---|---|---|
| `Control` | `control.rs`, `control_members.rs`, `user_admin.rs` and their routes | `db` for control.db, requests between two commands, the server's shutdown, the clock |
| `Resources` | `control_resources.rs`, `routes/resources.rs` | insights, dashboards, tiles and shares of two projects; write requests between authorization and command |
| `FlagStore`, `FlagEval`, `FlagContinuity` | `flags/store.rs`; `flags/eval.rs`, `validate.rs`; `resolve_subject` against the merge of `projections.rs` | rows and the compiled cache; a definition that is edited step by step; a visitor who logs in |
| `Forwarder`, `Import` | `forward.rs`; `import.rs` | queue, thread and counters; checkpoint file and importer, what the other side holds |
| `Throttle` | `LoginThrottle` of `security.rs` | both tables, attempts between check and outcome |
| `Bootstrap` | `storage_bootstrap.rs`, `Application::prepare` | four paths, what a power loss may bring back, the step of the server |

`MCWriteAheadLog`, `MCLake`, `MCErasure`, `MCIdentity`, `MCInsights`, `MCReads`
and `MCServices` give the constants and symmetries. The last three, and `MCProgress`
for the liveness of log and lake, run several modules, one at a time: the variable `part` chooses one in the initial state,
and the others stand still. The modules of one MC module share no state, so
their product has nothing to show that one of them does not; a property is
evaluated where its part runs.

`WriteAheadLog`, `Lake`, `Identity` and `Erasure` are views of one pipeline.
Each treats as one step what another takes apart: publishing a window is one
step in `Erasure`, the file and directory steps are in `Lake`, the listing and
reading steps in `WriteAheadLog`, the effects on persons in `Identity`.
`QueryEngine` uses what `IdentityFeed` shows: a finished sync leaves the table
equal to the projection at the version it returns. `FlagContinuity` joins flag
evaluation and the merge rule of `Identity`.

Definitions in parentheses in the comments, such as `(EvictOnly: ...)`, are
variants of the definition below them with a plausible mistake; `PROJECT.json`
uses them to show that the properties notice it. `PROJECT.json` also maps each
definition to the lines it stands for.

### Assumptions of the models

- A SQLite commit is atomic and durable (WAL mode, `synchronous=FULL`).
- A journalling file system commits directory changes in order; a directory
  fsync makes all earlier ones durable. File contents survive a power cut as
  far as they were fsynced.
- Cursors are counted in whole records; a frame is whole or torn (CRC and
  magic are not computed). File sizes are row counts.
- A window of `Identity` and `Erasure` holds one event. A larger window is
  several of these steps at once, so no reachable committed state is missed.
- `Erasure` has one project: the limit on pending ids is per project, and
  projects do not share rows. Which merges happen, and into whom, is left open
  there (`OwnersAfter`); `Identity` decides it.
- Not in `Erasure`: a full queue in front of the writer, which answers 503
  before anything happens.
- DuckDB computes what the SQL says and returns equal timestamps in any order
  unless the text orders them. The insight modules translate what the text
  selects, joins and groups.
- Times are small integers: in the insight modules an hour is 1, a day 2 hours
  and a week 2 days, and months differ in length; in `WebAnalytics` a tick is the
  gap that ends a visit. Words of bit masks have 2 bits, so that an answer spans
  several.
- A password matches or not, a token is a name.
- The f64 numbers of flag evaluation are points of one scale, 100% and 1.0 at
  `Scale`, fine enough that every f64 concerned is a point. `Percent` and
  `Fraction` give what a sum or a quotient is rounded to; of them only what IEEE
  754 guarantees is assumed (`Rounds`: a bounded error, order kept, 0 and rounded
  numbers left alone). `Epsilon` is the slack of validation. The run uses a toy
  format with three significant bits for fractions and four for percentages.
- A status-200 answer of PostHog may be one that is not JSON or has no results.

## Runs

| run | checks | shows |
|---|---|---|
| `wal_faults` | `AckedNeverLost`, `StopsAreSafe`, `ImplementsEventStore` | five batches (one larger than a window, one too large to accept), two faults out of failed calls, kills and power cuts, anywhere |
| `progress` | `AckedEventuallyPublished`, `RetiredEventuallyUnlinked` | no faults, all threads fair: what is acknowledged is published, a retired file goes once its readers have |
| `wal_refuses` | `NeverRefusesToStart` is violated | finding 1 |
| `identity` | `PersonsOwnThemselves`, `PersonRowExact`, `IdentifiedNeverFolded`, `MirrorMatchesVersion`, `SyncTerminates` | three ids and three changes of the sequence number: chains and cycles of merges, erasure and rebirth of an id; and the mirror with pages of one row, so that one merge spans pages, with commits and erasures between any two statements |
| `lake_faults` | `LiveFilesDurable`, `CatalogHoldsStored`, `LeasedFilesReadable`, `SnapshotsHonest` | three events in two days, three generations, one reader, one fault |
| `erasure_kill` | `ErasedIsGone`, `LaterEventsKept` | two requests, two events, two kills, also during recovery |
| `erasure_faults` | `NoOrphanedEvents`, `EraseAnswered` | a failing step or seal, recovery one id at a time, a channel of two |
| `services` | `OrgKeepsOwner`, `UsedOnce`, `CredentialsCurrent`, `MembershipSteps`, `ResourcesHold`, `WritesStayInProject`, `FlagCacheHolds`, `FlagAnswersHold`, `RolloutOnlyAdds`, `BucketSurvivesLogin`, `BootHolds`, `ForwardingHolds`, `NothingSkipped`, `WaitsAreBounded` | every module of the services |
| `insights` | `FunnelsExact`, `PeriodsExact`, `TrendsAndPathsExact`, `WebExact` | every plan against its reference, over every history of up to four events and one merge |
| `reads` | `AnswersFresh`, `AdmissionHolds`, `ListsComplete`, `IntakeHolds` | query engine, explore gate, both lists, capture, backlog |
| `query_reload` | `AnswersFresh` is violated | finding 2 |
| `import_misread` | `InterruptedResumes` is violated | finding 3 |

Bounds. They are chosen so that each case needs at most what they allow: three
segments (sealed, being sealed, open) for the log; two faults, so that a crash
can hit the recovery from another; three ids for a merge of a merged person;
three generations for publish, publish, merge or rewrite; two ids and two
requests for an erasure that resumes another; two requests and two users for a
race of two commands, with every table at a limit of one or two so that it
fills; one entry in the caches, so that each insertion evicts; three funnel
steps and four rows; two partitions and two words of a mask. Events
of a history can share a microsecond. `Faults` selects the kinds and
`MaxFailures` / `MaxFaults` their number. Constants commented `bound:` and
`MaxRecords`, `MaxSeq`, `MaxGen`, `MaxDay`, `MaxLog`, `MaxRequests` bound the
runs and have no counterpart in the code.

`services` explores accounts twice, for size: with two invites and neither
personal keys nor resets (`members`), and with a key, a reset and one invite
(`credentials`); commands on invites read neither keys nor passwords. Three of
its constants select what the code is exposed to: `DrainTimesOut`,
`AnonymousFirst` and `LongGaps` are set to the case in which the properties
hold; the other case is described under "Seen while modelling". In the same way `reads` has no erasure
during a query (`MaxErasures = 0`); `query_reload` has one. `FeedDays` reaches
beyond the two days the event feed begins with, so that an event may lie where it
is never listed.

With pages of one row (`MaxBatch = 1`) the mirror of `identity` meets a merge that
overfills a page. The other branch of `FinishPage`, a page cut back to whole merges, needs
pages of two rows and merges that stamp three, hence more than three ids; the theorem
about the mirror covers every page size, its termination there is not checked.

Symmetry: ids of `MCErasure`, and in the three joint modules sets whose members
no definition tells apart, never in a run with a temporal property other than an
action property.

Deadlock is checked in every run: within the bounds some actor can always move.

Fairness. `WriteAheadLog`: each thread takes a step it can take (they are
operating-system threads that block only on the disk and on their channel).
`Lake`: the publisher thread likewise; every query ends, because it has a
deadline; and maintenance gets its turn, which `publisher_loop` grants only
when erasure requests do not arrive back to back for ever (it skips maintenance
after each). `IdentityFeed`: the thread of the query continues.
`Erasure`: the publisher thread continues. Clients are never assumed to act.

## Findings

1. `wal_refuses`: a checkpoint taken between the rename of a segment and the
   creation of the next names the next segment; once the old one is reclaimed
   and the process dies, the directory is empty, a start creates segment 1, and
   this and every later start fails.
2. `query_reload`: a query releases the identity lock before it runs. When an
   erasure starts a new epoch, the sync of another query empties the shared
   `person_overrides` and refills it page by page; a statement of the first in
   between counts merged ids as separate persons. (`explore/mod.rs:252`
   `sync_overrides` has the same shape.)
3. `import_misread`: an answer with status 200 that is not JSON, or has no
   `results`, counts as an empty page. It ends the events and marks them done, and
   no later run of the import goes on. (The persons end in the same way, and an
   unreadable page of flags is skipped.)

### Seen while modelling

Behaviour the models show, or the code has, that no run of its own records:

- `WriteAheadLog!HealthyLogNeverCorrupt` is violated: cursor validation scans the
  open segment when the checkpoint is at its start (`pipeline/wal.rs:1130`,
  against `wal.rs:391`), so a half-written frame is reported as corruption. The
  publication is retried and succeeds later.
- `Erasure!ErasedIsGone` is violated when a seal fails: the failure before an erasure
  is only logged (`sink.rs:568`, `sink.rs:572`), and the erasure covers the segments
  before the one that was not sealed and reports success (against `sink.rs:240`).
  Acknowledged events of the person are left, in that segment or, if it got its final
  name and a tick published it, in the files.
- `Erasure!LaterEventsKept` is violated when a step fails: ticks and shutdown go on
  publishing (`sink.rs:641`, against `sink.rs:629`), and the resumed erasure deletes the
  newer events of the same ids.
- `Control!CredentialsCurrent` is violated with `DrainTimesOut`: the writer lock is free
  before the control thread has ended (`application.rs:363`, against `user_admin.rs:5`),
  so the offline password reset can run while a login that read the old password still
  opens its session.
- `FlagEval!EverybodyGetsVariant` is violated: percentages may add up to 100 less 1e-6
  (`flags/validate.rs:24`, `flags/validate.rs:131`), and the f64 running sum of the
  fractions can end below 1.0 although the percentages are exact (ten times 10%,
  `flags/eval.rs:214`). A person whose hash lies in the gap matches and has no variant,
  against `docs/user/feature-flags.md:49`. `FlagAnswersHold` bounds the gap by the slack
  and the roundings.
- `Feed!EveryEventShown` is violated: a negative `offset` stores an event any time ahead
  (`capture/event.rs:226`, against `docs/user/configuration.md:123`), and the event feed,
  which begins at the end of tomorrow (`explore/events.rs:65`), never lists it.
  `ListsComplete` is about the events before that horizon.
- `WebAnalytics!SessionsNamedByTheirEnds` is violated: `arg_min` and `arg_max` pass over
  pageviews without a value (`explore/web.rs:98`, against `explore/web.rs:16`), so a
  session is named by its first or last pageview that has one. `WebExact` compares totals
  over the sessions, which do not depend on it.
- A 503 from the erasure route may come after the identity was deleted
  (`sink.rs:715`, against `docs/user/data-and-backup.md:132`).
- Recovery finishes at most 10,000 pending ids per project and then publishes
  (`projections.rs:574`, against `projections.rs:65`).
- A day with a file above `SMALL_FILE_BYTES` keeps a repeated uuid for ever
  (`lake/compactor.rs:316`, against `docs/user/faq.md:97`).
- `Intake!DecodesBounded` is violated: a client that leaves frees the decode
  permit while its decode runs on (`capture/mod.rs:199`).
- `Backlog!BacklogBounded` is violated: a segment sealed inside `write` is not
  added to `sealed_bytes` (`sink.rs:500`, against `sink.rs:94`) until the
  publisher recounts.
- `Intake!RateCeiling` is violated with three callers: the limiter opens a new
  window for a request that took its time before an await, and forgets what was
  counted (`ratelimit.rs:45`).
- `FlagContinuity!BucketSurvivesLogin` needs `AnonymousFirst`: when the first
  published event of a visitor is the identify itself, the person keeps the
  identified id for bucketing (`projections.rs:405`, `flags/mod.rs:34`).
- `Import!NothingSkipped` and `CheckpointAdvances` need `LongGaps = FALSE`: a page of malformed rows
  only sets the cursor to none, and the import begins again (`import.rs:157`).
- `QueryEngine!KeyNamesItsInputs` is violated: a sync between key and statement
  makes a cached result newer than its key (`cache.rs:4`); it is never older.
- Two changes of a forwarding configuration can reach `control.db` and the map in
  memory in different orders (`forward.rs:257`): a restart then brings back the
  other one.
- A kill while both staged databases exist leaves a directory that every start
  refuses (`storage_bootstrap.rs:246`): nothing was served from it yet.
- The web date filter refuses a range that begins after now, also "all" when
  every event lies later the same day. A client that leaves an explore query does
  not interrupt it.

## Proofs

Checked by TLAPS for every value of the constants: any ids, records, sizes,
limits, readers, requests and numbers of faults. The bounds of the runs
(`MaxRecords`, `MaxGen`, ...) are constants like the others. Each property below is
also checked by a run, the type invariants, `OverridesStamped` and
`CheckpointAdvances` excepted.

| theorem | property | assumption |
|---|---|---|
| `WalProofs!AckedNeverLostAlways` | `AckedNeverLost` | |
| `WalProofs!StopsAreSafeAlways` | `StopsAreSafe` | |
| `WalProofs!ImplementsEventStoreAlways` | `ImplementsEventStore` | |
| `LakeProofs!Durable`, `HoldsStored`, `Readable`, `Honest` | `LiveFilesDurable`, `CatalogHoldsStored`, `LeasedFilesReadable`, `SnapshotsHonest` | |
| `IdentityProofs!TypeCorrect`, `OverridesStampedAlways` | `TypeOK`, `OverridesStamped` | |
| `IdentityProofs!PersonsOwnThemselvesAlways`, `PersonRowExactAlways`, `IdentifiedNeverFoldedAlways` | the properties of these names | |
| `IdentityProofs!MirrorMatchesVersionAlways` | `MirrorMatchesVersion` | |
| `ErasureProofs!TypeCorrect`, `NoOrphanedEventsAlways` | `TypeOK`, `NoOrphanedEvents` | |
| `ErasureProofs!LaterEventsKeptAlways` | `LaterEventsKept` | `Undisturbed`: no step of the publisher fails, pending ids fit one batch |
| `ErasureProofs!ErasedIsGoneAlways` | `ErasedIsGone` | no seal fails |
| `ServicesProofs!OrgKeepsOwnerAlways`, `UsedOnceAlways`, `MembershipStepsAlways` | the properties of these names | |
| `ServicesProofs!CredentialsCurrentAlways` | `CredentialsCurrent` | `~DrainTimesOut` |
| `ServicesProofs!ResourcesHoldAlways`, `WritesStayAlways` | `ResourcesHold`, `WritesStayInProject` | |
| `ServicesProofs!FlagCacheAlways`, `WaitsAreBoundedAlways`, `BootHoldsAlways` | `FlagCacheHolds`, `WaitsAreBounded`, `BootHolds` | |
| `ServicesProofs!FlagAnswersHoldAlways`, `RolloutOnlyAddsAlways` | `FlagAnswersHold`, `RolloutOnlyAdds` | |
| `ServicesProofs!NothingSkippedAlways`, `CheckpointAdvancesAlways` | `NothingSkipped`, `CheckpointAdvances` | `~LongGaps` |
| `ServicesProofs!BucketSurvivesLoginAlways` | `BucketSurvivesLogin` | `AnonymousFirst` |
| `ReadsProofs!AdmissionHoldsAlways`, `IntakeHoldsAlways`, `ForwardingHoldsAlways` | `AdmissionHolds`, `IntakeHolds`, `ForwardingHolds` | |
| `InsightsProofs!PeriodsExactAlways`, `TrendsAndPathsExactAlways` | `PeriodsExact`, `TrendsAndPathsExact` | |
| `InsightsProofs!WebExactAlways` | `WebExact` | |
| `ReadsProofs!ListsCompleteAlways` | `ListsComplete` | |
| `ReadsProofs!AnswersFreshAlways` | `AnswersFresh` | `MaxErasures = 0`: nobody is erased meanwhile |

The assumptions in the last column are about the environment; the other case of each
is a finding or described under "Seen while modelling". The `ASSUME`s of the modules only say that limits are numbers, that
the value for "nobody" is not an id, that the forwarder's projects are finitely many (its
counters are summed), that the roundings of flag evaluation are such as IEEE 754 gives, that the two JSON Booleans are no variant's key, and that
`MAX_WINDOWS` doublings reach back beyond the first day (24 of them: 16 million days).
Those of the insights say that the model's calendar covers every instant stored or asked
about, that a numeric filter compares with a number, that a person's id orders the person
and a uuid the events of one instant, and what shapes a question has (`Maths`, intervals,
dates, limits).

### Write-ahead log

`AckedNeverLost` speaks of `powerDirs`, the directories a power cut may leave, so
that it is about every crash point at once. It is not inductive; `DurableInv` makes
it so, in these parts:

- `DirsOK`: each of those directories is a layout without gaps, its sealed files are
  whole and fsynced, and every file that is sealed now is in all of them. This is what
  the two directory fsyncs of a seal buy: the file is fsynced before its rename, and
  nothing is created before the rename is durable.
- `OpenOK`: where the segment of the writer is, at each of the four points of a seal.
- `GroupOK`: an unanswered record is in the active segment or already durable, behind
  the checkpoint; so one fsync of the active segment covers the whole group, also
  when a seal inside `write` has closed the segment it began in.
- `ListingOK`, `DoomedOK`: a listing that overlaps renames and creations may miss names,
  but what it shows as sealed is sealed, and only the publisher removes files; a doomed
  file is wholly behind the checkpoint, and the oldest goes first.
- `WindowOK`: every record between the checkpoint and the window's end is in the window,
  and that end is inside a durable segment or at the start of one that exists or comes
  next. `CursorOK` says the same of the checkpoint, and that the writer is not behind it.
- `StopOK`: a drain that finds nothing has published everything acknowledged.

`OrderInv` adds that records are numbered along the log, that what lies behind the
checkpoint is newer than all that is published, and that a window continues the lake.
The refinement follows step by step: `SyncAndAck` is `Ack`, `PubCommit` is `Publish`,
and every other step leaves both variables of `EventStore` alone. The lemmas `Grown`,
`NamesKept` and `NothingNew` are about say what a step may do to the files, and what is
carried over any such step; each action then has one lemma, named after it.

### Lake

`Inv` says what an operation under way has written and what it replaces (`WrittenOK`,
`PlanOK`), that files in readers' hands are in the snapshot or in the graveyard
(`MemoryOK`), and that a version identifies the files of a project (`VersionsOK`).
`CatalogHoldsStored` needs `PlanOK`: a merge commits exactly the rows of the files it
retires, and no other operation runs between its reading and its commit.

### Identity and its mirror

`Good` joins the types, both halves of `PersonsOwnThemselves` and `OverridesStamped`;
each needs the others (a fold is harmless only if winner and loser exist and own
themselves). Each helper of the code has a lemma that it keeps `Good`, and an event is a
composition of them. `RowsExact` relates a person's row to what was observed of the
ids it owns, for `PersonRowExact`; `Kept` follows an identified person through a whole
`$identify` or `$create_alias`, for `IdentifiedNeverFolded`. `FeedInv` is about a sync
cut at any statement: rows already read are those stamped up to the number read, unless
the epoch has changed, in which case the sync will not claim the version.

### Erasure

`NoOrphanedEvents` is not inductive: clearing a pending id needs to know that the files
no longer hold it. `ClearedAreGone` says so, and it is kept because nothing is published
between the last rewrite and the clearing. `TypeOK` contributes that `erasedAt` never
exceeds the checkpoint, so a newly published event is later than every erasure.
`LaterEventsKept` and `ErasedIsGone` have invariants of their own that follow a request
through the channel, the seal it forces and the publisher's three phases: `KeptInv` that
nothing is published between the recording of ids and their clearing and that the batch
being rewritten is what was pending, `GoneInv` that a request past its seal asked of a
writer that was never poisoned.

### Services

- Control: what a request carries from one command to the next still fits the
  tables (`RequestsOK`): an invite it looked up is the row under that token or gone. For
  `CredentialsCurrent`, `PasswordsOK`: every stored session row carries the account's
  current password version, so does what a request carries, and while the server is not
  up every request is idle, so the offline reset finds none under way.
- Resources: `Sound` of what each store method writes.
- Flags: a reader whose generation is current has loaded the rows, or a writer of the
  project has still to invalidate.
- Throttle: both tables stay within their size; an email's wait ends within `MaxDelay`
  of now, a source's within the window it began in.
- Import: the checkpoint lies behind what was sent and nothing before it was skipped; a
  page that is taken is the next run of rows without a gap (`PageAdvances`). A part that
  is done is there whole unless the answer that ended it was misread; the history variable
  `imisread` says so of the last answer of each part.
- Bootstrap: which pairs of files can exist, now and after a power cut (`Opens`), and what
  each step of the opening server finds (`StepFinds`).
- Continuity: the person of an anonymous id keeps its bucketing key through the merge.
- Flag evaluation: `EvalInv` keeps what `validate_filters` checks, that the rounded sum of
  the percentages is within `Epsilon` of the whole scale. The running sums of
  `matching_variant` (`RangesFollow`) cut the scale from 0 into ranges without a gap or an
  overlap (`RangesPartition`), because a rounding keeps the order. Validation's sum and evaluation's are both within
  a rounding per step of the exact one (`ExactStart`), which bounds how far below 100%
  the last range may end and tells which variant a hash away from the borders gets. For
  `RolloutOnlyAdds` the first matching condition set of a person is followed through
  each edit: a raised rollout may only make an earlier one match, an appended one comes
  after it. The four shapes are compared with the evaluation one by one
  (`ShapesAgree`), and the person store is skipped only where nothing reads it
  (`NoPropertyRead`).

### Reads

- Query engine: `EngineInv` says which permits a task holds at each step (a connection
  only with an execution permit, so one is free for whoever gets a permit), and that the
  cache's byte count is the sum over its entries, whose keys differ. Insertion, eviction
  and hits each have a lemma that they keep that sum (`CacheOK`).
- `FreshInv` adds the ages: a task's version and key are not older than its request, what
  its statements read is not older than its key, and a cached value is not older than the
  key it is stored under. Without erasures the shared table only gains rows; with one it
  is emptied and loaded again, which is the run `QueryReload`.
- Explore gate: a query that waits has no task, and a handle, in the slot or in the
  caller's hand, is that of the connection its own task still uses (`HandlesOK`).
- Backlog: segments are numbered along the log, and a clock that runs covers each
  acknowledged batch that is not published (`ClocksCover`), through the three steps in
  which `note_sealed` carries a clock; a publication carries the number of a segment that
  no unpublished batch is behind (`CarriedOK`).
- Capture: what the token cache and a request's authorization say is so (`AuthorizedOK`);
  the request of a queued batch still waits or has left, and success is only of what is
  durable (`BatchesOK`, `AnswersOK`); the limiter's table counts no more than what the
  requests of its second brought (`LimiterOK`), a sum over a set of requests.
- Forwarder: what a project offered lies in one order, with gaps where it was dropped:
  PostHog's log, then the thread's hands, then the queue (`Orderly`). Only the
  batch at the head of the thread's item can be at PostHog already, and then each of its
  events stands behind the batch's earlier ones (`ChunkWhole`), so a retry after a lost
  answer repeats what is there and overtakes nothing. `CountsAgree` is the balance of the counters, each
  action one lemma that moves the same number between two of them; `ForwardedSettled`
  says that what counts as forwarded has left the thread's hands and was received.
- Event feed: from the horizon, the end of tomorrow, down to the cursor everything due is
  shown (`ShownDown`), and a walk holds
  everything from the cursor down to the day where it stands (`WalkedDown`). That part
  also says that the next window is as long as all windows before it together, so the
  last one reaches the first day and the cap on windows loses nothing. `CutPage` is the
  lemma on the page boundary: what it leaves out is below the cursor it returns, or of a
  microsecond with more events than a page.
- Person list: everyone due is listed or comes after the cursor (`PeopleInv`); a merge
  only moves its winner further back.
- `ORDER BY` is a choice among sorted sequences (`Ordered`). `Sortable` shows that a
  finite set under a strict order has one, by the least set without.

### Insights

The theorems are about every state a world of events can be in, not about steps:
`SourceInv` (the stored events are finitely many of the question's, an override leads to
one of its ids) and `WebInv` (below) are all that must be inductive. What is proved is that the plan the
code runs and the definition give the same value, in these parts:

- Buckets: `trunc`, the SQL's `floor_expr` and the oracle's search find the same
  bucket (`Holds`), and `BucketsCover` says that those of a range cover it.
- Files: the days leased hold every event of the span a plan loads
  (`LeasedHoldTheSpan`, `ReadsTheSpan`); a retention or a lifecycle reads before its
  range, so that span is the wider one (`PeriodsLeased`).
- Filters: the SQL predicate and the oracle's agree on every property text
  (`FilterAgrees`, `PredicateAgrees`).
- Trends: islands of merged windows cover exactly the moments a person counts in
  (`IslandsCover`); the masks of the active-user plan lose no bit at a word's boundary
  (`BitOf`, `MasksExact`), and the window plan has one row per person and bucket
  (`WindowPlanExact`). The rankings of the breakdown are those of the definition
  (`TopsAgree`), and the list of actors behind a point has as many people as the point.
- `ORDER BY`: `OrderedSorts` says that the k-th row has k - 1 rows before it. It is stated
  by cardinalities, so it needs no induction.
- Paths: `Holding` says what the scan has in hand after k rows. The rows of a person are
  handed over together (`RunsHanded`, `RunIsWhole`) and each person is in one partition
  (`PartitionsCover`, `ScanExact`); a collapsed path keeps the positions where the node
  changes (`CollapsedKeeps`, `PathExact`), a cut is around the chosen node (`LinksAre`).
- Web analytics: `WebInv` (visits are stored in the order of their time) is inductive.
  The mask plan, the general SQL and the definitions show the same numbers (`Shows`). In
  buckets of equal length the index computed from the time is the rank of the bucket
  (`IndexIsRank`), words of bits keep every index of every person (`FoldedIs`), and no
  file of the range is missed (`PartIs`, `LiveExact`).
- Sessions: two visits have the same running number exactly when no visit between them
  opens a session (`NumbersAre`), which is when each is followed within the gap
  (`FollowsIs`), so the sessions by gaps are the chained visits (`GapsAgree`).
- Totals: a sum over rows whose numbers count disjoint sets is the size of their union
  (`AddsUp`); the sessions of a period divide its pageviews (`SessionsPart`), so the
  breakdowns add up to the overview (`BreakdownTotals`).

An induction over data is written as the search for a least counterexample
(`NaturalFacts!LeastNatural`, from the library's well-foundedness of `<`), with the
recursive function unfolded by hand: see `ServicesProofs!LiveRows`, and `ReadsProofs` for
the folds of the community modules.

### Only model-checked

- Liveness, under fairness: `AckedEventuallyPublished`, `SyncTerminates`,
  `RetiredEventuallyUnlinked`, `EraseAnswered`.
- `FunnelsExact`: its plans are folds nested in folds over sorted rows, with ties in any
  order, compared with a search over all sequences of events. Each would need an
  induction over data of its own.

## Plan

1. Done: the modules, runs and theorems above.
2. Prove next: the funnel plans, one step order at a time.
3. Model later: the explore path's own copy of the overrides, the person and
   group properties and the event catalog of `projections.rs`.

## Not modelled

- Parquet encoding, SQL text and quoting, decompression and JSON decoding,
  enrichment, HTTP routing, the wire contract and its limits: conversions without
  a protocol of their own.
- Formulas: arithmetic on floating-point series.
- The event and property catalog, person and group properties: upserts in which
  the last write wins, inside a transaction that is modelled.
- Reconciliation: a report over the counts of two servers.
- Documentation pages, demo data, metrics, the web client, argument parsing.
- Two servers on one data directory, beyond the writer lock: the product is one
  process (`docs/user/faq.md:46`).

`PROJECT.json` lists every component with its status and reason.
