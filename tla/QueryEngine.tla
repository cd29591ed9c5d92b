---------------------------- MODULE QueryEngine ----------------------------
(***************************************************************************)
(* One dashboard query, from admission to its answer: routes/project.rs,   *)
(* src/src/query/mod.rs, query/identity.rs, query/sql_query.rs, cache.rs.  *)
(*                                                                         *)
(* A request waits for its permits on the async runtime, then runs as a    *)
(* blocking task that outlives a client who goes away.  The task syncs the *)
(* shared person_overrides table under the identity mutex, releases it,    *)
(* takes a connection, leases files, asks the cache, and runs its          *)
(* statements, each in a transaction of its own.  Event data, identity and *)
(* person properties are represented by their versions: what a statement   *)
(* read is the version it saw.  IdentityFeed shows that a finished sync    *)
(* leaves the table equal to the projection at the version it returns.     *)
(* Person properties have no version: a $set moves nothing that a key      *)
(* holds, so what matters is how many TTLs ago they were read.             *)
(***************************************************************************)
EXTENDS Integers, Sequences, FiniteSets, SequencesExt

CONSTANTS
    QRequests,
    QConfigs,                   \* EngineConfig: connections, max_queued
    QKinds,                     \* subset of {"insight", "props", "sql", "actors"}
    CacheEntries, CacheBytes,   \* cache_entries, MAX_CACHE_BYTES
    ResultSizes,                \* serialized sizes of results
    MaxData, MaxMerges, MaxErasures   \* bounds on the outside world

ASSUME QueryAssumption ==
    /\ IsFiniteSet(QRequests)
    /\ QConfigs \subseteq [connections : Nat, max_queued : Nat]
    /\ {CacheEntries, CacheBytes} \subseteq Nat /\ ResultSizes \subseteq Nat

VARIABLES
    econf,      \* the engine's configuration
    world,      \* what is stored: data version, identity epoch and seq
    sync,       \* IdentitySync and the table: holder of the mutex, epoch, seq, rows
    sess,       \* the requests
    qcache      \* entries, least recently used first, and response_bytes

queryVars == <<econf, world, sync, sess, qcache>>

Free == "free"
OutOfEngine == [pc |-> "out", queue |-> FALSE, exec |-> FALSE, conn |-> FALSE]
Holding(permit) == {r \in QRequests : sess[r][permit]}
TooOld == 2                 \* TTLs: more than the entry's and the deadline
QGo(r, pc) == sess' = [sess EXCEPT ![r].pc = pc]

-----------------------------------------------------------------------------
(* The world: the publisher, the compactor and the erasure worker.          *)

World(w) == world' = w /\ UNCHANGED <<econf, sync, sess, qcache>>
Publish == world.dv < MaxData /\ World([world EXCEPT !.dv = @ + 1])
MergePersons == world.seq < MaxMerges /\ World([world EXCEPT !.seq = @ + 1])
\* An erasure of somebody else: a new epoch, every other override as before.
EraseSomeone == world.epoch < MaxErasures /\ World([world EXCEPT !.epoch = @ + 1])

-----------------------------------------------------------------------------
(* Admission.                                                               *)

\* execute: the router has authorized the project and parsed the body.  A full
\* queue answers query_busy.
admit(r, kind, refresh) ==
    /\ sess[r].pc = "out"
    /\ Cardinality(Holding("queue")) < econf.max_queued + econf.connections
    /\ sess' = [sess EXCEPT ![r] =
          [pc |-> "queued", kind |-> kind, refresh |-> refresh, born |-> [dv |-> world.dv, seq |-> world.seq],
           queue |-> TRUE, exec |-> FALSE, conn |-> FALSE]]
    /\ UNCHANGED <<econf, world, sync, qcache>>

Execute(r) ==
    /\ sess[r].pc = "queued"
    /\ Cardinality(Holding("exec")) < econf.connections
    /\ sess' = [sess EXCEPT ![r].pc = "sync", ![r].exec = TRUE]
    /\ UNCHANGED <<econf, world, sync, qcache>>

\* queue_wait is over, or the client left while it waited: both permits go back.
GiveUpWaiting(r) ==
    /\ sess[r].pc = "queued"
    /\ sess' = [sess EXCEPT ![r] = OutOfEngine]
    /\ UNCHANGED <<econf, world, sync, qcache>>

\* (PermitsWithTheClient: the admission is held by the request's future.)
PermitsWithTheClient(s) == [s EXCEPT !.queue = FALSE, !.exec = FALSE]

\* spawn_blocking moved the admission into the task: a client that leaves
\* releases nothing.
Disconnected(s) == s

ClientLeaves(r) ==
    /\ sess[r].pc \notin {"out", "queued"}
    /\ sess' = [sess EXCEPT ![r] = Disconnected(@)]
    /\ UNCHANGED <<econf, world, sync, qcache>>

-----------------------------------------------------------------------------
(* session: sync under the identity mutex.                                  *)

LockIdentity(r) ==
    /\ sess[r].pc = "sync" /\ sync.holder = Free
    /\ sync' = [sync EXCEPT !.holder = r]
    /\ QGo(r, "fetch")
    /\ UNCHANGED <<econf, world, qcache>>

\* One batch: a new epoch empties the table; otherwise some of the outstanding
\* changes are applied, and the last batch returns the version and unlocks.
sync_batch(r) ==
    /\ sess[r].pc = "fetch"
    /\ IF sync.epoch # world.epoch /\ sync.seq # 0
       THEN /\ sync' = [sync EXCEPT !.epoch = world.epoch, !.seq = 0, !.rows = 0]
            /\ UNCHANGED sess
       ELSE \E n \in sync.seq..world.seq :
              /\ n = sync.seq => n = world.seq
              /\ sync' = [epoch |-> world.epoch, seq |-> n, rows |-> n,
                          holder |-> IF n = world.seq THEN Free ELSE r]
              /\ sess' = IF n < world.seq THEN sess
                         ELSE [sess EXCEPT ![r] = [pc |-> "connect", kind |-> @.kind,
                                 refresh |-> @.refresh, born |-> @.born, queue |-> @.queue,
                                 exec |-> @.exec, conn |-> FALSE,
                                 version |-> [epoch |-> world.epoch, seq |-> world.seq]]]
    /\ UNCHANGED <<econf, world, qcache>>

Ending(s) == [pc |-> "end", queue |-> s.queue, exec |-> s.exec, conn |-> FALSE]

\* A statement of the sync fails: the request does, the cursor stays.
SyncError(r) ==
    /\ sess[r].pc = "fetch"
    /\ sync' = [sync EXCEPT !.holder = Free]
    /\ sess' = [sess EXCEPT ![r] = Ending(@)]
    /\ UNCHANGED <<econf, world, qcache>>

\* PooledConnection: popped here, pushed back when the session ends.  An empty
\* pool is waited for until queue_wait, then query_busy.
connection(r) ==
    /\ sess[r].pc = "connect"
    /\ Cardinality(Holding("conn")) < econf.connections
    /\ sess' = [sess EXCEPT ![r].pc = "lookup", ![r].conn = TRUE]
    /\ UNCHANGED <<econf, world, sync, qcache>>

-----------------------------------------------------------------------------
(* The result cache.                                                        *)

\* (KeyWithoutIdentity: the key forgets the overrides.)
KeyWithoutIdentity(kind, dv, version) == [kind |-> kind, dv |-> dv, epoch |-> 0, seq |-> 0]

cache_key(kind, dv, version) ==
    [kind |-> kind, dv |-> dv, epoch |-> version.epoch, seq |-> version.seq]

At(c, key) == {i \in 1..Len(c.entries) : c.entries[i].key = key}

\* (KeepBytes: the entry goes, its bytes stay counted.)
KeepBytes(c, i) == [entries |-> RemoveAt(c.entries, i), bytes |-> c.bytes]

RemoveEntry(c, i) == [entries |-> RemoveAt(c.entries, i), bytes |-> c.bytes - c.entries[i].bytes]
Without(c, key) == IF At(c, key) = {} THEN c ELSE RemoveEntry(c, CHOOSE i \in At(c, key) : TRUE)

\* The least recently used entries go until both limits hold.
EvictOldest(c, entry) ==
    IF Len(c.entries) > CacheEntries \/ c.bytes > CacheBytes THEN RemoveEntry(c, 1) ELSE c

put(c, key, value, bytes, ttl) ==
    LET cleared == Without(c, key) IN
    IF CacheEntries = 0 \/ bytes > CacheBytes THEN cleared
    ELSE LET added == Append(cleared.entries, [key |-> key, value |-> value, bytes |-> bytes,
                                             ttl |-> ttl, expired |-> FALSE])
         IN FoldLeft(EvictOldest, [entries |-> added, bytes |-> cleared.bytes + bytes], added)

ReadsProperties(kind) == kind = "props"

\* (NoTtl: person-property results live as long as the others.)
NoTtl(kind) == FALSE
\* PERSON_PROPERTY_CACHE_TTL, for results that depend on person properties.
HasTtl(kind) == ReadsProperties(kind)

\* get: an expired entry is removed, a hit becomes the most recently used.
get(c, i) == IF c.entries[i].expired THEN RemoveEntry(c, i)
             ELSE [c EXCEPT !.entries = Append(RemoveAt(@, i), @[i])]

-----------------------------------------------------------------------------
(* session_inner.                                                           *)

Cacheable(kind) == kind \in {"insight", "props"}
Statements(kind) == IF kind = "sql" THEN 1 ELSE 2

NoAnswer == [dv |-> 0, seen |-> {}, age |-> 0]
Answering(s, value) ==
    [pc |-> "served", kind |-> s.kind, born |-> s.born, queue |-> s.queue, exec |-> s.exec,
     conn |-> s.conn, value |-> value]

\* Lease the range's files at the catalog's version and ask the cache with the
\* key they give: nothing outside can tell the two apart.
CacheHit(r) ==
    LET s == sess[r]
        key == cache_key(s.kind, world.dv, s.version)
    IN /\ s.pc = "lookup" /\ Cacheable(s.kind) /\ ~s.refresh
       /\ \E i \in At(qcache, key) :
            /\ ~qcache.entries[i].expired
            /\ qcache' = get(qcache, i)
            /\ sess' = [sess EXCEPT ![r] = Answering(s, qcache.entries[i].value)]
       /\ UNCHANGED <<econf, world, sync>>

\* A miss, an expired entry or a refresh: load_person_property copies the values of
\* the moment into a table of this connection, and the statements follow.
load_person_property(r) ==
    LET s == sess[r]
        key == cache_key(s.kind, world.dv, s.version)
        asked == IF Cacheable(s.kind) /\ ~s.refresh THEN At(qcache, key) ELSE {}
    IN /\ s.pc = "lookup"
       /\ \A i \in asked : qcache.entries[i].expired
       /\ qcache' = IF asked = {} THEN qcache ELSE get(qcache, CHOOSE i \in asked : TRUE)
       /\ sess' = [sess EXCEPT ![r] = [pc |-> "run", kind |-> s.kind, born |-> s.born,
             queue |-> s.queue, exec |-> s.exec, conn |-> s.conn, key |-> key,
             read |-> 0, seen |-> {}, age |-> 0]]
       /\ UNCHANGED <<econf, world, sync>>

\* One statement of the kind; it joins person_overrides as it is now.  The SQL
\* sandbox copies the project's overrides once, before its own statement.
RunStatement(r) ==
    /\ sess[r].pc = "run" /\ sess[r].read < Statements(sess[r].kind)
    /\ sess' = [sess EXCEPT ![r].read = @ + 1, ![r].seen = @ \cup {sync.rows}]
    /\ UNCHANGED <<econf, world, sync, qcache>>

Computed(s) == [dv |-> s.key.dv, seen |-> s.seen, age |-> s.age]

\* The result is cached under the key taken before it was computed.
Finish(r) ==
    LET s == sess[r] IN
    /\ s.pc = "run" /\ s.read = Statements(s.kind)
    /\ sess' = [sess EXCEPT ![r] = Answering(s, Computed(s))]
    /\ IF Cacheable(s.kind)
       THEN \E bytes \in ResultSizes :
              qcache' = put(qcache, s.key, Computed(s), bytes, HasTtl(s.kind))
       ELSE UNCHANGED qcache
    /\ UNCHANGED <<econf, world, sync>>

\* An error, or the watchdog interrupts the running statement.
SessionFails(r) ==
    /\ sess[r].pc = "run"
    /\ sess' = [sess EXCEPT ![r] = Answering(@, NoAnswer)]
    /\ UNCHANGED <<econf, world, sync, qcache>>

\* The connection goes back first, then the permits with the task's closure.
ReturnConnection(r) ==
    /\ sess[r].pc = "served"
    /\ sess' = [sess EXCEPT ![r] = Ending(@)]
    /\ UNCHANGED <<econf, world, sync, qcache>>

EndTask(r) ==
    /\ sess[r].pc = "end"
    /\ sess' = [sess EXCEPT ![r] = OutOfEngine]
    /\ UNCHANGED <<econf, world, sync, qcache>>

\* A TTL passes.  The deadline is no longer than it, so no task sees two pass.
Tick ==
    /\ \A r \in QRequests : sess[r].pc = "run" => sess[r].age = 0
    /\ sess' = [r \in QRequests |-> IF sess[r].pc = "run" /\ ReadsProperties(sess[r].kind)
                                    THEN [sess[r] EXCEPT !.age = 1] ELSE sess[r]]
    /\ qcache' = [qcache EXCEPT !.entries = [i \in DOMAIN @ |->
          LET e == qcache.entries[i] IN
          IF ReadsProperties(e.key.kind)
          THEN [e EXCEPT !.expired = e.ttl, !.value.age = IF @ < TooOld THEN @ + 1 ELSE @]
          ELSE e]]
    /\ UNCHANGED <<econf, world, sync>>

-----------------------------------------------------------------------------
QueryInit ==
    /\ econf \in QConfigs
    /\ world = [dv |-> 0, epoch |-> 0, seq |-> 0]
    /\ sync = [holder |-> Free, epoch |-> 0, seq |-> 0, rows |-> 0]
    /\ sess = [r \in QRequests |-> OutOfEngine]
    /\ qcache = [entries |-> <<>>, bytes |-> 0]

session(r) ==
    \/ LockIdentity(r) \/ sync_batch(r) \/ SyncError(r) \/ connection(r)
    \/ CacheHit(r) \/ load_person_property(r) \/ RunStatement(r) \/ Finish(r)
    \/ SessionFails(r) \/ ReturnConnection(r) \/ EndTask(r)

QueryNext ==
    \/ Publish \/ MergePersons \/ EraseSomeone \/ Tick
    \/ \E r \in QRequests :
         \/ \E kind \in QKinds : admit(r, kind, FALSE) \/ (Cacheable(kind) /\ admit(r, kind, TRUE))
         \/ Execute(r) \/ GiveUpWaiting(r) \/ ClientLeaves(r) \/ session(r)

-----------------------------------------------------------------------------
(* Properties.                                                              *)

\* Whoever holds an execution permit finds a connection: tasks never wait for each
\* other in connection(), however many clients leave while their tasks run on.
AdmittedFindsConnection ==
    \A r \in QRequests : sess[r].pc = "connect" => Cardinality(Holding("conn")) < econf.connections

BytesOf(entries) == FoldLeft(LAMBDA n, e : n + e.bytes, 0, entries)

\* response_bytes is the sum of what is cached, through replacement, expiry and
\* eviction; both limits hold; and no two entries share a key.
CacheAccountsExactly ==
    /\ qcache.bytes = BytesOf(qcache.entries)
    /\ qcache.bytes <= CacheBytes /\ Len(qcache.entries) <= CacheEntries
    /\ \A i, j \in DOMAIN qcache.entries :
         qcache.entries[i].key = qcache.entries[j].key => i = j

Served(r) == sess[r].pc = "served" /\ sess[r].value.seen # {}

\* An answer, cached or computed, has every event published and every merge made
\* before its request arrived.
ServedIsFresh ==
    \A r \in QRequests : Served(r) =>
        /\ sess[r].value.dv >= sess[r].born.dv
        /\ \A rows \in sess[r].value.seen : rows >= sess[r].born.seq

\* Person properties in an answer were read at most one TTL and one deadline ago,
\* whoever computed it and however often it is served.
PropertiesWithinTtl ==
    \A r \in QRequests : Served(r) /\ ReadsProperties(sess[r].kind) => sess[r].value.age < TooOld

\* A cached result was computed from the version its key names: "A key changes
\* whenever anything the result was computed from changes" (cache.rs).  It does
\* not hold: a sync between the key and the statement makes the result newer.
KeyNamesItsInputs ==
    \A i \in DOMAIN qcache.entries :
        LET e == qcache.entries[i] IN e.value.dv = e.key.dv /\ e.value.seen = {e.key.seq}

=============================================================================
