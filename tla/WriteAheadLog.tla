--------------------------- MODULE WriteAheadLog ---------------------------
(***************************************************************************)
(* The segmented write-ahead log of src/src/pipeline/wal.rs, driven by the *)
(* writer thread of src/src/sink.rs and walked, at the same time, by the   *)
(* publisher thread of src/src/lake/publisher.rs.                          *)
(*                                                                         *)
(* A record (one CapturedBatch) is a number; numbers grow in the order the *)
(* writer takes batches from its queue.  A cursor's byte offset is counted *)
(* in whole records: every offset the code keeps is a record boundary.     *)
(*                                                                         *)
(* The directory is the set of names <<sequence, "open" | "wal">> that     *)
(* exist.  powerDirs holds the directories a power cut may leave: those    *)
(* since the last directory fsync, in the order a journalling file system  *)
(* commits them.  A listing (read_dir) that overlaps the writer's renames  *)
(* and creations may or may not show each name that changed meanwhile.     *)
(***************************************************************************)
EXTENDS Integers, Sequences, FiniteSets, FiniteSetsExt

CONSTANTS
    MaxRecords,          \* bound: batches the clients send
    Size,                \* framed size of each record
    MaxRecordBytes,      \* WalConfig.max_record_bytes
    SegmentTarget,       \* WalConfig.segment_target_bytes
    WindowBytes,         \* MAX_PUBLICATION_WAL_BYTES
    RaceAttempts,        \* LAYOUT_RACE_ATTEMPTS
    Faults,              \* which of "io", "kill", "power" may happen
    MaxFailures          \* bound: how many of them

Records == 1..MaxRecords

ASSUME RecordsAssumption == MaxRecords \in Nat
ASSUME SizeAssumption == Size \in [Records -> Nat \ {0}]
ASSUME LimitsAssumption ==
    /\ MaxRecordBytes \in Nat /\ SegmentTarget \in Nat
    /\ WindowBytes \in Nat /\ RaceAttempts \in Nat \ {0}
ASSUME FaultsAssumption ==
    Faults \subseteq {"io", "kill", "power"} /\ MaxFailures \in Nat

VARIABLES
    dir, powerDirs,      \* the WAL directory, and what a power cut may leave
    data,                \* segment -> its bytes: records, fsynced prefix, torn
    cursor,              \* the checkpoint in projections.sqlite
    proc,                \* the process: down, starting, serving, stopping
    wpc, job,            \* writer thread: its place, and why it is sealing
    active, poisoned,    \* WriteAheadLog.active.sequence and .poisoned
    group,               \* records written, not yet fsynced and answered
    nextRec,             \* next batch a client sends
    ppc, goal, tries,    \* publisher thread: its place, for what, attempts
    listing,             \* the read_dir in progress
    window,              \* PublicationWindow with its SealedRecords
    doomed,              \* segments reclaim_through is removing
    report,              \* last error of the publisher
    acked, published,    \* observed: answered 200; committed to the lake
    exit,                \* observed: how the last graceful stop ended
    failures             \* faults so far

fileVars == <<dir, powerDirs, data>>
writerVars == <<wpc, job, active, poisoned, group, nextRec>>
publisherVars == <<ppc, goal, tries, listing, window, doomed, report>>
observed == <<acked, published, exit>>
vars == <<fileVars, cursor, proc, writerVars, publisherVars, observed, failures>>

-----------------------------------------------------------------------------
(* Files and the directory.                                                 *)

Cursor(s, n) == [seg |-> s, off |-> n]
Empty == [recs |-> <<>>, synced |-> 0, torn |-> FALSE]
NoListing == [stable |-> {}, ever |-> {}]
NoWindow == [layout |-> {}, next |-> Cursor(0, 0), ckpt |-> Cursor(0, 0),
             recs |-> <<>>, bytes |-> 0]

Bytes(s) == MapThenSumSet(LAMBDA r : Size[r], Range(data[s].recs))

\* active.bytes > 0: no frame is empty.
HasRecords(s) == data[s].recs # <<>>

Sealed(L) == {n[1] : n \in {m \in L : m[2] = "wal"}}
Open(L) == {n[1] : n \in {m \in L : m[2] = "open"}}

\* discover_segment_layout: at most one open segment, the newest, and no gap.
ValidLayout(L) ==
    LET all == Sealed(L) \cup Open(L) IN
    /\ Cardinality(Open(L)) <= 1
    /\ Sealed(L) \cap Open(L) = {}
    /\ \A s \in all : s > 0 /\ \A t \in all : s < t => s + 1 \in all
    /\ \A s \in Open(L), t \in all : t <= s

\* next_segment_cursor: where the writer will go on, while it is mid-seal.
NextSegment(L) ==
    IF Open(L) = {} /\ Sealed(L) # {} THEN {Max(Sealed(L)) + 1} ELSE {}

\* One change of the directory; a listing under way may or may not see it.
DirBecomes(d) ==
    /\ dir' = d
    /\ powerDirs' = powerDirs \cup {d}
    /\ listing' = IF ppc = "list"
                  THEN [stable |-> listing.stable \cap d, ever |-> listing.ever \cup d]
                  ELSE listing

DirSynced == powerDirs' = {dir} /\ UNCHANGED <<dir, listing>>

Fault(kind) ==
    /\ kind \in Faults /\ failures < MaxFailures
    /\ failures' = failures + 1

-----------------------------------------------------------------------------
Init ==
    /\ dir = {} /\ powerDirs = {{}} /\ data = <<>>
    /\ cursor = Cursor(1, 0)
    /\ proc = "down"
    /\ wpc = "ready" /\ job = "none" /\ active = 0 /\ poisoned = FALSE
    /\ group = {} /\ nextRec = 1
    /\ ppc = "idle" /\ goal = "read" /\ tries = 0
    /\ listing = NoListing /\ window = NoWindow /\ doomed = {} /\ report = "ok"
    /\ acked = {} /\ published = <<>> /\ exit = "none"
    /\ failures = 0

-----------------------------------------------------------------------------
(* Starting: WriteAheadLog::open, then seal, as DurableWalSink::open does.   *)

\* Recovery drops a torn tail of the open segment and fsyncs what is left.
Repaired(d) == IF d.torn THEN [d EXCEPT !.torn = FALSE, !.synced = Len(d.recs)] ELSE d

\* (LastSealedWrong: numbering restarts whenever no open segment is found.)
LastSealedWrong(L) == 0

\* The number of the segment before the one open_new_active will create.
LastSealed(L) == IF Sealed(L) = {} THEN 0 ELSE Max(Sealed(L))

Start ==
    /\ proc \in {"down", "refused"}
    /\ DirSynced
    /\ poisoned' = FALSE /\ exit' = "none" /\ report' = "ok"
    /\ IF ~ValidLayout(dir) \/ \E s \in Sealed(dir) : data[s].torn
       THEN proc' = "refused" /\ UNCHANGED <<data, wpc, job, active>>
       ELSE IF Open(dir) = {}
       THEN /\ active' = LastSealed(dir)
            /\ proc' = "opening" /\ wpc' = "create" /\ job' = "open"
            /\ UNCHANGED data
       ELSE LET a == Max(Open(dir)) IN
            /\ active' = a
            /\ data' = [data EXCEPT ![a] = Repaired(@)]
            /\ IF data[a].recs = <<>>
               THEN proc' = "publishing" /\ UNCHANGED <<wpc, job>>
               ELSE proc' = "opening" /\ wpc' = "seal" /\ job' = "open"
    /\ UNCHANGED <<cursor, group, nextRec, ppc, goal, tries, window, doomed,
                   acked, published, failures>>

-----------------------------------------------------------------------------
(* The writer thread.                                                       *)

WriterIdle == proc = "up" /\ wpc = "ready"

\* A batch that write refuses before touching the file.
WriteRejected ==
    /\ WriterIdle /\ nextRec <= MaxRecords
    /\ poisoned \/ Size[nextRec] > MaxRecordBytes
    /\ nextRec' = nextRec + 1
    /\ UNCHANGED <<fileVars, cursor, proc, wpc, job, active, poisoned, group,
                   publisherVars, observed, failures>>

SegmentFull(s, r) == HasRecords(s) /\ Bytes(s) + Size[r] > SegmentTarget

\* write: seal a full segment first, or start putting the frame in the file.
WriteBegin ==
    /\ WriterIdle /\ nextRec <= MaxRecords
    /\ ~poisoned /\ Size[nextRec] <= MaxRecordBytes
    /\ IF SegmentFull(active, nextRec)
       THEN wpc' = "seal" /\ job' = "write" /\ UNCHANGED data
       ELSE wpc' = "frame" /\ data' = [data EXCEPT ![active].torn = TRUE]
            /\ UNCHANGED job
    /\ UNCHANGED <<dir, powerDirs, cursor, proc, active, poisoned, group, nextRec,
                   publisherVars, observed, failures>>

WriteEnd ==
    /\ wpc = "frame"
    /\ data' = [data EXCEPT ![active].torn = FALSE,
                            ![active].recs = Append(@, nextRec)]
    /\ group' = group \cup {nextRec}
    /\ nextRec' = nextRec + 1
    /\ wpc' = "ready"
    /\ UNCHANGED <<dir, powerDirs, cursor, proc, job, active, poisoned,
                   publisherVars, observed, failures>>

\* The frame was cut short: part of it stays in the file.
WriteFails ==
    /\ wpc = "frame" /\ Fault("io")
    /\ poisoned' = TRUE /\ nextRec' = nextRec + 1 /\ wpc' = "ready"
    /\ UNCHANGED <<fileVars, cursor, proc, job, active, group, publisherVars, observed>>

\* One fsync makes the whole group durable; only then is anyone answered.
SyncedActive == [data EXCEPT ![active].synced = Len(data[active].recs)]

SyncAndAck ==
    /\ WriterIdle /\ group # {} /\ ~poisoned
    /\ data' = SyncedActive
    /\ acked' = acked \cup group
    /\ group' = {}
    /\ UNCHANGED <<dir, powerDirs, cursor, proc, wpc, job, active, poisoned, nextRec,
                   publisherVars, published, exit, failures>>

\* Either the log was poisoned already or this fsync poisons it: all refused.
SyncFails ==
    /\ WriterIdle /\ group # {}
    /\ \/ poisoned /\ UNCHANGED <<poisoned, failures>>
       \/ ~poisoned /\ Fault("io") /\ poisoned' = TRUE
    /\ group' = {}
    /\ UNCHANGED <<fileVars, cursor, proc, wpc, job, active, nextRec,
                   publisherVars, observed>>

\* SEAL_INTERVAL passed (or an erasure asked for it) and something is there.
SealTimer ==
    /\ WriterIdle /\ group = {} /\ ~poisoned /\ HasRecords(active)
    /\ wpc' = "seal" /\ job' = "timer"
    /\ UNCHANGED <<fileVars, cursor, proc, active, poisoned, group, nextRec,
                   publisherVars, observed, failures>>

\* Shutdown reaches the writer: it seals what was written, then drains.
Stop ==
    /\ WriterIdle /\ group = {}
    /\ IF ~poisoned /\ HasRecords(active)
       THEN proc' = "stopping" /\ wpc' = "seal" /\ job' = "stop"
       ELSE proc' = "sealed" /\ UNCHANGED <<wpc, job>>
    /\ UNCHANGED <<fileVars, cursor, active, poisoned, group, nextRec,
                   publisherVars, observed, failures>>

-----------------------------------------------------------------------------
(* seal_nonempty, one step per point where a crash or the publisher can     *)
(* find the directory: fsync and rename; fsync the directory; create the    *)
(* next segment; fsync the directory again.                                 *)

SealRename ==
    /\ wpc = "seal"
    /\ data' = SyncedActive
    /\ DirBecomes((dir \ {<<active, "open">>}) \cup {<<active, "wal">>})
    /\ wpc' = "renamed"
    /\ UNCHANGED <<cursor, proc, job, active, poisoned, group, nextRec,
                   ppc, goal, tries, window, doomed, report, observed, failures>>

SealDirSync ==
    /\ wpc = "renamed"
    /\ DirSynced
    /\ wpc' = "create"
    /\ UNCHANGED <<data, cursor, proc, job, active, poisoned, group, nextRec,
                   ppc, goal, tries, window, doomed, report, observed, failures>>

CreateNext ==
    /\ wpc = "create"
    /\ DirBecomes(dir \cup {<<active + 1, "open">>})
    /\ data' = [s \in DOMAIN data \cup {active + 1} |->
                    IF s = active + 1 THEN Empty ELSE data[s]]
    /\ wpc' = "created"
    /\ UNCHANGED <<cursor, proc, job, active, poisoned, group, nextRec,
                   ppc, goal, tries, window, doomed, report, observed, failures>>

\* The new segment is durable: go on with what the seal was for.
CreateSync ==
    /\ wpc = "created"
    /\ DirSynced
    /\ active' = active + 1
    /\ job' = "none"
    /\ IF job = "write"
       THEN wpc' = "frame" /\ data' = [data EXCEPT ![active + 1].torn = TRUE]
       ELSE wpc' = "ready" /\ UNCHANGED data
    /\ proc' = CASE job = "open" -> "publishing"
                 [] job = "stop" -> "sealed"
                 [] OTHER -> proc
    /\ UNCHANGED <<cursor, poisoned, group, nextRec,
                   ppc, goal, tries, window, doomed, report, observed, failures>>

\* Any of these system calls failing poisons the log; at startup it is fatal.
SealFails ==
    /\ wpc \in {"seal", "renamed", "create", "created"} /\ Fault("io")
    /\ poisoned' = TRUE
    /\ wpc' = "ready" /\ job' = "none"
    /\ proc' = CASE job = "open" -> "down"
                 [] job = "stop" -> "sealed"
                 [] OTHER -> proc
    /\ nextRec' = IF job = "write" THEN nextRec + 1 ELSE nextRec
    /\ UNCHANGED <<fileVars, cursor, active, group, publisherVars, observed>>

-----------------------------------------------------------------------------
(* The publisher thread: publish_window, over and over.                     *)

PublisherRuns == proc \in {"publishing", "up", "stopping", "sealed", "drain"}

\* publish_window returns: "some" window published, "none" pending, "error".
\* At startup an error ends the process; while draining, "none" is success.
PubReturns(result) ==
    /\ ppc' = "idle" /\ goal' = "read" /\ tries' = 0
    /\ listing' = NoListing /\ window' = NoWindow /\ doomed' = {}
    /\ proc' = CASE proc = "publishing" /\ result = "none" -> "up"
                 [] proc = "publishing" /\ result = "error" -> "refused"
                 [] proc = "drain" /\ result # "some" -> "down"
                 [] OTHER -> proc
    /\ exit' = CASE proc = "drain" /\ result = "none" /\ ~poisoned -> "clean"
                 [] proc = "drain" /\ (result = "error" \/ (result = "none" /\ poisoned)) -> "failed"
                 [] OTHER -> exit

PubFailsWith(reason) == report' = reason /\ PubReturns("error")

\* A fresh read_dir: it shows at least what stays there while it runs.
ListAgain(n) ==
    /\ ppc' = "list" /\ tries' = n
    /\ listing' = [stable |-> dir, ever |-> dir]

\* (RetryWrong: one attempt too many.)
RetryWrong ==
    IF tries <= RaceAttempts
    THEN /\ ListAgain(tries + 1)
         /\ window' = NoWindow
         /\ UNCHANGED <<goal, doomed, report, proc, exit>>
    ELSE PubFailsWith("race")

\* retry_layout_race: a lost race is tried again, a bounded number of times.
RetryOrGiveUp ==
    IF tries < RaceAttempts
    THEN /\ ListAgain(tries + 1)
         /\ window' = NoWindow
         /\ UNCHANGED <<goal, doomed, report, proc, exit>>
    ELSE PubFailsWith("race")

\* (DrainBeginWrong: taking the answer of a publication already under way.)
DrainBeginWrong ==
    /\ proc = "sealed"
    /\ proc' = "drain"
    /\ UNCHANGED <<fileVars, cursor, writerVars, publisherVars, observed, failures>>

\* A Shutdown signal is taken between two publications.
DrainBegin ==
    /\ proc = "sealed" /\ ppc = "idle"
    /\ proc' = "drain"
    /\ UNCHANGED <<fileVars, cursor, writerVars, publisherVars, observed, failures>>

PubList ==
    /\ PublisherRuns /\ ppc = "idle"
    /\ ListAgain(1)
    /\ goal' = "read" /\ report' = "ok"
    /\ UNCHANGED <<fileVars, cursor, proc, writerVars, window, doomed, observed, failures>>

\* discover_segment_layout on whatever the listing happened to show.
PubDiscover ==
    /\ ppc = "list"
    /\ \E extra \in SUBSET (listing.ever \ listing.stable) :
         LET L == listing.stable \cup extra IN
         IF ValidLayout(L)
         THEN /\ window' = [NoWindow EXCEPT !.layout = L]
              /\ ppc' = "open" /\ listing' = NoListing
              /\ UNCHANGED <<goal, tries, doomed, report, proc, exit>>
         ELSE RetryOrGiveUp
    /\ UNCHANGED <<fileVars, cursor, writerVars, acked, published, failures>>

\* validate_cursor: open and scan the file the cursor names in layout L.
CursorCheck(L, c) ==
    LET named == {n \in L : n[1] = c.seg} IN
    IF named = {}
    THEN IF c.off = 0 /\ c.seg \in NextSegment(L) THEN "ok" ELSE "race"
    ELSE IF ~(named \subseteq dir) THEN "race"
    ELSE IF data[c.seg].torn \/ c.off > Len(data[c.seg].recs) THEN "corruption"
    ELSE "ok"

\* ValidatedCursor.valid_bytes: where the cursor's segment ends.
ValidEnd(L, c) ==
    IF c.seg \in Sealed(L) \cup Open(L) THEN Len(data[c.seg].recs) ELSE 0

\* (CoveredWrong: forgetting that a partly published segment must stay.)
CoveredWrong(s, c, end) == s <= c.seg

\* A segment reclaim_through may remove: wholly before the checkpoint.
Covered(s, c, end) == s < c.seg \/ (s = c.seg /\ c.off = end)

PubValidate ==
    /\ ppc = "open"
    /\ LET L == window.layout
           remove == {s \in Sealed(L) : Covered(s, cursor, ValidEnd(L, cursor))}
       IN CASE CursorCheck(L, cursor) = "race" -> RetryOrGiveUp
            [] CursorCheck(L, cursor) = "corruption" -> PubFailsWith("corruption")
            [] OTHER ->
                IF goal = "read"
                THEN /\ window' = [window EXCEPT !.next = cursor, !.ckpt = cursor]
                     /\ ppc' = "read"
                     /\ UNCHANGED <<goal, tries, listing, doomed, report, proc, exit>>
                ELSE IF remove = {}
                THEN PubReturns(IF goal = "tidy" THEN "none" ELSE "some")
                     /\ UNCHANGED report
                ELSE /\ doomed' = remove /\ ppc' = "unlink" /\ window' = NoWindow
                     /\ UNCHANGED <<goal, tries, listing, report, proc, exit>>
    /\ UNCHANGED <<fileVars, cursor, writerVars, acked, published, failures>>

\* (AfterSegmentWrong: mid-seal, staying at the end of the segment just read.)
AfterSegmentWrong(L, s) ==
    LET later == {t \in Sealed(L) : t > s} IN
    IF later # {} THEN Cursor(Min(later), 0)
    ELSE IF Open(L) # {} THEN Cursor(Max(Open(L)), 0)
    ELSE Cursor(s, Len(data[s].recs))

\* Where SealedRecords goes on after the end of sealed segment s: the next
\* sealed one, else the open one, else the one about to be created.
AfterSegment(L, s) ==
    LET later == {t \in Sealed(L) : t > s} IN
    IF later # {} THEN Cursor(Min(later), 0)
    ELSE IF Open(L) # {} THEN Cursor(Max(Open(L)), 0)
    ELSE Cursor(Max(Sealed(L)) + 1, 0)

\* One step of the PublicationWindow: take the next sealed record, unless the
\* window is full or nothing is left.
PubRead ==
    /\ ppc = "read"
    /\ LET L == window.layout
           left == {s \in Sealed(L) : s >= window.next.seg}
           s == Min(left)
           off == IF s = window.next.seg THEN window.next.off ELSE 0
           r == data[s].recs[off + 1]
           after == IF off + 1 >= Len(data[s].recs)
                    THEN AfterSegment(L, s) ELSE Cursor(s, off + 1)
       IN IF left = {}
          THEN window' = [window EXCEPT !.ckpt = window.next] /\ ppc' = "commit"
          ELSE IF off = Len(data[s].recs)
          THEN window' = [window EXCEPT !.next = after] /\ UNCHANGED ppc
          ELSE IF window.bytes > 0 /\ window.bytes + Size[r] > WindowBytes
          THEN ppc' = "commit" /\ UNCHANGED window
          ELSE /\ window' = [window EXCEPT !.next = after, !.ckpt = after,
                                           !.recs = Append(@, r),
                                           !.bytes = @ + Size[r]]
               /\ UNCHANGED ppc
    /\ UNCHANGED <<fileVars, cursor, proc, writerVars, goal, tries, listing, doomed,
                   report, observed, failures>>

\* (PubCommitWrong: the checkpoint is left out of the transaction.)
PubCommitWrong ==
    /\ ppc = "commit" /\ window.recs # <<>>
    /\ published' = published \o window.recs
    /\ goal' = "reclaim" /\ ListAgain(1) /\ window' = NoWindow
    /\ UNCHANGED <<fileVars, cursor, proc, writerVars, doomed, report, acked, exit, failures>>

\* One SQLite transaction holds the events' effects and the new checkpoint.
PubCommit ==
    /\ ppc = "commit" /\ window.recs # <<>>
    /\ published' = published \o window.recs
    /\ cursor' = window.ckpt
    /\ goal' = "reclaim" /\ ListAgain(1) /\ window' = NoWindow
    /\ UNCHANGED <<fileVars, proc, writerVars, doomed, report, acked, exit, failures>>

\* Nothing was pending; a checkpoint at a segment's end only tidies up.
PubNothing ==
    /\ ppc = "commit" /\ window.recs = <<>>
    /\ IF window.ckpt # cursor
       THEN /\ goal' = "tidy" /\ ListAgain(1) /\ window' = NoWindow
            /\ UNCHANGED <<doomed, proc, exit>>
       ELSE PubReturns("none")
    /\ UNCHANGED <<fileVars, cursor, writerVars, report, acked, published, failures>>

PubUnlink ==
    /\ ppc = "unlink"
    /\ DirBecomes(dir \ {<<Min(doomed), "wal">>})
    /\ doomed' = doomed \ {Min(doomed)}
    /\ ppc' = IF doomed' = {} THEN "dirsync" ELSE "unlink"
    /\ UNCHANGED <<data, cursor, proc, writerVars, goal, tries, window, report,
                   observed, failures>>

PubUnlinkSync ==
    /\ ppc = "dirsync"
    /\ powerDirs' = {dir}
    /\ PubReturns(IF goal = "tidy" THEN "none" ELSE "some")
    /\ UNCHANGED <<dir, data, cursor, writerVars, report, acked, published, failures>>

\* Reading, writing Parquet, SQLite or unlinking fails: the WAL keeps it all.
PubFails ==
    /\ ppc # "idle" /\ Fault("io")
    /\ PubFailsWith("io")
    /\ UNCHANGED <<fileVars, cursor, writerVars, acked, published>>

-----------------------------------------------------------------------------
(* The process dies, or the machine does.                                   *)

MemoryLost ==
    /\ wpc' = "ready" /\ job' = "none" /\ active' = 0 /\ poisoned' = FALSE
    /\ group' = {}
    /\ nextRec' = IF wpc = "frame" \/ job = "write" THEN nextRec + 1 ELSE nextRec
    /\ ppc' = "idle" /\ goal' = "read" /\ tries' = 0
    /\ listing' = NoListing /\ window' = NoWindow /\ doomed' = {} /\ report' = "ok"
    /\ exit' = "none" /\ proc' = "down"
    /\ UNCHANGED <<cursor, acked, published>>

\* kill -9: the page cache keeps what was written.
Kill ==
    /\ proc \notin {"down", "refused"} /\ Fault("kill")
    /\ MemoryLost
    /\ UNCHANGED fileVars

\* A power cut keeps one of the recent directories and, of each file, the
\* fsynced records, perhaps some later ones, perhaps a torn frame after them.
PowerCut ==
    /\ Fault("power")
    /\ MemoryLost
    /\ LET weak == {s \in DOMAIN data : data[s].synced < Len(data[s].recs) \/ data[s].torn}
       IN \E d \in powerDirs, kept \in [weak -> 0..MaxRecords], torn \in [weak -> BOOLEAN] :
            /\ \A s \in weak : kept[s] \in data[s].synced..Len(data[s].recs)
            /\ dir' = d /\ powerDirs' = {d}
            /\ data' = [s \in DOMAIN data |->
                          IF s \in weak
                          THEN [recs |-> SubSeq(data[s].recs, 1, kept[s]),
                                synced |-> kept[s], torn |-> torn[s]]
                          ELSE data[s]]

-----------------------------------------------------------------------------
WriterStep == WriteEnd \/ SyncAndAck \/ SyncFails \/ SealTimer
              \/ SealRename \/ SealDirSync \/ CreateNext \/ CreateSync
PublisherStep == DrainBegin \/ PubList \/ PubDiscover \/ PubValidate \/ PubRead
                 \/ PubCommit \/ PubNothing \/ PubUnlink \/ PubUnlinkSync

Next ==
    \/ Start \/ WriteBegin \/ WriteRejected \/ Stop
    \/ WriterStep \/ PublisherStep
    \/ WriteFails \/ SealFails \/ PubFails \/ Kill \/ PowerCut

Spec == Init /\ [][Next]_vars

\* Both threads keep running as long as the process does.
FairSpec == Spec /\ WF_vars(WriterStep) /\ WF_vars(PublisherStep)
-----------------------------------------------------------------------------
(* Properties.                                                              *)

Names == (Nat \ {0}) \X {"open", "wal"}
Cursors == [seg : Nat, off : Nat]

\* Every variable has the shape the code gives it.
TypeOK ==
    /\ dir \in SUBSET Names /\ powerDirs \in SUBSET SUBSET Names
    /\ DOMAIN data \subseteq Nat
    /\ \A s \in DOMAIN data :
         data[s] \in [recs : Seq(Records), synced : Nat, torn : BOOLEAN]
    /\ cursor \in Cursors
    /\ proc \in {"down", "opening", "publishing", "up", "stopping", "sealed",
                 "drain", "refused"}
    /\ wpc \in {"ready", "frame", "seal", "renamed", "create", "created"}
    /\ job \in {"none", "open", "write", "timer", "stop"}
    /\ active \in Nat /\ poisoned \in BOOLEAN
    /\ group \subseteq Records /\ nextRec \in 1..(MaxRecords + 1)
    /\ ppc \in {"idle", "list", "open", "read", "commit", "unlink", "dirsync"}
    /\ goal \in {"read", "reclaim", "tidy"} /\ tries \in 0..RaceAttempts
    /\ listing \in [stable : SUBSET Names, ever : SUBSET Names]
    /\ window \in [layout : SUBSET Names, next : Cursors, ckpt : Cursors,
                   recs : Seq(Records), bytes : Nat]
    /\ doomed \subseteq Nat /\ report \in {"ok", "race", "corruption", "io"}
    /\ acked \subseteq Records /\ published \in Seq(Records)
    /\ exit \in {"none", "clean", "failed"} /\ failures \in 0..MaxFailures

\* Record r survives a power cut that leaves directory d, and publication
\* will still reach it: it is fsynced, in a named segment, past the cursor.
SurvivesIn(d, r) ==
    \E s \in Sealed(d) \cup Open(d) : \E i \in 1..data[s].synced :
        /\ data[s].recs[i] = r
        /\ s > cursor.seg \/ (s = cursor.seg /\ i > cursor.off)

\* An event the server answered 200 for is in the lake, or whatever moment the
\* power fails at it is still in the log beyond the checkpoint (group commit
\* across an in-write seal, rename, reclamation and checkpoint together).
AckedNeverLost ==
    \A r \in acked : r \in Range(published) \/ \A d \in powerDirs : SurvivesIn(d, r)

\* The log implements the promise made to clients (EventStore): through
\* crashes between commit and reclamation, retries, bounded windows and
\* listings that race the writer, each record reaches the lake at most once,
\* in order, and no window passes over an acknowledged one.
Promise == INSTANCE EventStore WITH Batches <- Records
ImplementsEventStore == Promise!Spec

\* Every directory a crash can leave passes discover_segment_layout, and no
\* sealed file in it is torn, so recovery never refuses a log for its layout.
CrashLayoutsRecoverable ==
    \A d \in powerDirs \cup {dir} :
        ValidLayout(d) /\ \A s \in Sealed(d) : ~data[s].torn

\* When a graceful stop reports success everything acknowledged is queryable
\* (writer_loop's drain, then publish_all on the publisher thread).
CleanStopPublishedAll == exit = "clean" => acked \subseteq Range(published)

\* Both ways to stop are safe: what a crash leaves is a log that discovery accepts, and
\* a clean stop leaves nothing to recover (wal.rs open, sink.rs shutdown).
StopsAreSafe == CrashLayoutsRecoverable /\ CleanStopPublishedAll

\* While the process runs without faults, an acknowledged record is published.
AckedEventuallyPublished ==
    \A r \in Records : r \in acked ~> r \in Range(published)

\* A start never fails on a log the process itself left behind.
NeverRefusesToStart == proc # "refused"

\* The publisher never reports corruption: no file was damaged from outside.
\* It does not hold: the cursor check may scan the open segment while it is written.
HealthyLogNeverCorrupt == report # "corruption"
=============================================================================
