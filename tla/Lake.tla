-------------------------------- MODULE Lake --------------------------------
(***************************************************************************)
(* The event lake: immutable Parquet files, their catalog in SQLite, the   *)
(* in-memory snapshot that queries lease, and the publisher thread that    *)
(* adds files (publisher.rs), merges, expires and rewrites them            *)
(* (compactor.rs) and unlinks the retired ones (lake/mod.rs).              *)
(*                                                                         *)
(* An event is a uuid; Part and Who say in which partition (project, day)  *)
(* and of which distinct id it is.  A file is <<letter, generation,        *)
(* partition>>, as in its name; its size is its number of rows.  On disk,  *)
(* sure \subseteq disk \subseteq reach: a power cut keeps sure and any of  *)
(* reach.  SQLite commits are atomic and durable (synchronous=FULL).       *)
(***************************************************************************)
EXTENDS Integers, FiniteSets, FiniteSetsExt

CONSTANTS
    Events, Part, Who,       \* events, their partition and distinct id
    Readers,                 \* query sessions
    MaxDay,                  \* bound: how far time passes
    RetentionDays,           \* retention_days (MaxDay: none)
    ActiveThreshold,         \* ACTIVE_PARTITION_MERGE_THRESHOLD
    BigRows,                 \* SMALL_FILE_BYTES
    MaxMergeFiles,           \* MAX_MERGE_FILES
    MaxMergeRows,            \* MAX_MERGE_BYTES
    MaxGen,                  \* bound: generations
    Faults, MaxFaults        \* which of "io", "kill", "power"; bound on them

Parts == {Part[e] : e \in Events}
Projects == {p[1] : p \in Parts}

ASSUME EventsAssumption ==
    /\ DOMAIN Part = Events /\ DOMAIN Who = Events
    /\ \A e \in Events : Part[e][2] \in Nat
ASSUME LakeLimitsAssumption ==
    /\ {MaxDay, RetentionDays, MaxGen, MaxFaults} \subseteq Nat
    /\ {ActiveThreshold, BigRows, MaxMergeFiles, MaxMergeRows} \subseteq Nat \ {0}
    /\ Faults \subseteq {"io", "kill", "power"}

VARIABLES
    disk, sure, reach,       \* Parquet files under their final names
    content,                 \* file -> the events in it
    live, retired, gen,      \* lake_files and projection_state.generation
    snap, graveyard,         \* Lake.current and Lake.graveyard
    hold,                    \* reader -> the files its Arcs keep alive
    pc, op,                  \* publisher thread: its place, its operation
    today,                   \* the UTC day
    stored,                  \* observed: events that must be queryable
    faults

diskVars == <<disk, sure, reach, content>>
catalogVars == <<live, retired, gen, stored>>
memoryVars == <<snap, graveyard>>
vars == <<diskVars, catalogVars, memoryVars, hold, pc, op, today, faults>>

Gen(f) == f[2]
PartOf(f) == f[3]
Rows(F) == UNION {content[f] : f \in F}
FilesOf(F, p) == {f \in F : PartOf(f) = p}
ProjectFiles(F, j) == {f \in F : PartOf(f)[1] = j}

NoOp == [kind |-> "none", parts |-> {}, rows |-> {}, who |-> {}, left |-> {},
         at |-> {}, new |-> {}, wrote |-> {}, old |-> {}]
NoHold == [stage |-> "none", project |-> "none", files |-> {}, version |-> 0]
EmptySnapshot == [files |-> {}, version |-> [j \in Projects |-> 0]]

Fault(kind) == kind \in Faults /\ faults < MaxFaults /\ faults' = faults + 1

Unlink(F) == disk' = disk \ F /\ sure' = sure \ F /\ UNCHANGED reach

Idle == pc = "idle"
Begin(o, at) == op' = o /\ pc' = at
Done == op' = NoOp /\ pc' = "idle"

Init ==
    /\ disk = {} /\ sure = {} /\ reach = {} /\ content = <<>>
    /\ live = {} /\ retired = {} /\ gen = 0 /\ stored = {}
    /\ snap = EmptySnapshot /\ graveyard = {}
    /\ hold = [r \in Readers |-> NoHold]
    /\ pc = "idle" /\ op = NoOp /\ today = 1 /\ faults = 0

-----------------------------------------------------------------------------
(* What the publisher thread decides to do.                                 *)

\* publish_window: one new file per partition of the window's events.
PubBegin ==
    /\ Idle /\ gen < MaxGen
    /\ \E W \in (SUBSET Events) \ {{}} :
         Begin([NoOp EXCEPT !.kind = "publish", !.rows = W,
                            !.parts = {Part[e] : e \in W}], "write")
    /\ UNCHANGED <<diskVars, catalogVars, memoryVars, hold, today, faults>>

\* The oldest files of F, within the limits on one merge.
Oldest(F) ==
    {f \in F : LET upTo == {g \in F : Gen(g) <= Gen(f)} IN
        /\ Cardinality(upTo) <= MaxMergeFiles
        /\ MapThenSumSet(LAMBDA g : Cardinality(content[g]), upTo) <= MaxMergeRows}

\* merge_inputs: the small files of a partition, if they are due for a merge.
MergeInputs(p) ==
    LET small == {f \in FilesOf(snap.files, p) : Cardinality(content[f]) < BigRows}
        fresh == {f \in small : f[1] = "g"}
        due == IF p[2] >= today THEN Cardinality(fresh) >= ActiveThreshold
               ELSE fresh # {} /\ Cardinality(small) >= 2
    IN IF due THEN Oldest(small) ELSE {}

Expired == {f \in snap.files : PartOf(f)[2] < today - RetentionDays}

\* Compactor::step: retention first; it needs no new file.
RetainBegin ==
    /\ Idle /\ gen < MaxGen
    /\ Expired # {}
    /\ Begin([NoOp EXCEPT !.kind = "retain", !.old = Expired,
                          !.at = {p \in Parts : p[2] < today - RetentionDays}], "commit")
    /\ UNCHANGED <<diskVars, catalogVars, memoryVars, hold, today, faults>>

\* (MergeAll: the project's files of every day are retired.)
MergeAll(p) ==
    Begin([NoOp EXCEPT !.kind = "merge", !.parts = {p}, !.rows = Rows(MergeInputs(p)),
                       !.old = ProjectFiles(snap.files, p[1])], "write")

\* Compactor::merge replaces the inputs by one file with each uuid once.
Merge(p) ==
    Begin([NoOp EXCEPT !.kind = "merge", !.parts = {p}, !.rows = Rows(MergeInputs(p)),
                       !.old = MergeInputs(p)], "write")

MergeBegin ==
    /\ Idle /\ gen < MaxGen
    /\ Expired = {}
    /\ \E p \in Parts :
         /\ Cardinality(MergeInputs(p)) >= 2
         /\ \A q \in Parts : Cardinality(MergeInputs(q)) <= Cardinality(MergeInputs(p))
         /\ Merge(p)
    /\ UNCHANGED <<diskVars, catalogVars, memoryVars, hold, today, faults>>

\* Compactor::erase lists the project's partitions once, then goes through
\* those that hold rows of the distinct id.
EraseBegin ==
    /\ Idle
    /\ \E e \in Events :
         LET left == {p \in Parts : p[1] = Part[e][1] /\ FilesOf(snap.files, p) # {}} IN
         /\ gen + Cardinality(left) <= MaxGen
         /\ Begin([NoOp EXCEPT !.kind = "erase", !.who = {Who[e]}, !.left = left], "erase")
    /\ UNCHANGED <<diskVars, catalogVars, memoryVars, hold, today, faults>>

ErasedRows(F) == {e \in Rows(F) : Who[e] \in op.who}

EraseNext ==
    /\ pc = "erase"
    /\ LET hits == {p \in op.left : ErasedRows(FilesOf(snap.files, p)) # {}} IN
       IF hits = {} THEN Done
       ELSE \E p \in hits :
              LET F == FilesOf(snap.files, p) IN
              Begin([NoOp EXCEPT !.kind = "erase", !.who = op.who, !.left = op.left \ {p},
                                 !.parts = {p}, !.at = {p}, !.old = F,
                                 !.rows = Rows(F) \ ErasedRows(F)], "write")
    /\ UNCHANGED <<diskVars, catalogVars, memoryVars, hold, today, faults>>

-----------------------------------------------------------------------------
(* How it does it: write and rename, fsync the directory, commit, activate. *)

Letter == CASE op.kind = "publish" -> "g" [] op.kind = "merge" -> "c" [] OTHER -> "e"

WriteFile ==
    /\ pc = "write"
    /\ \E p \in op.parts :
         LET f == <<Letter, gen + 1, p>> IN
         /\ disk' = disk \cup {f} /\ reach' = reach \cup {f} /\ UNCHANGED sure
         /\ content' = [g \in DOMAIN content \cup {f} |->
                          IF g = f THEN {e \in op.rows : Part[e] = p} ELSE content[g]]
         /\ op' = [op EXCEPT !.parts = @ \ {p}, !.new = {f}]
    /\ pc' = "renamed"
    /\ UNCHANGED <<catalogVars, memoryVars, hold, today, faults>>

\* (NoDirSync: the catalog commits before the new names are durable.)
NoDirSync ==
    /\ pc = "renamed"
    /\ op' = [op EXCEPT !.new = {}, !.wrote = @ \cup op.new]
    /\ pc' = IF op.parts = {} THEN "commit" ELSE "write"
    /\ UNCHANGED <<diskVars, catalogVars, memoryVars, hold, today, faults>>

\* sync_dir makes every change so far to that partition's directory durable.
DirSync ==
    /\ pc = "renamed"
    /\ LET dirs == {PartOf(f) : f \in op.new}
           outside(F) == {f \in F : PartOf(f) \notin dirs}
           inside == {f \in disk : PartOf(f) \in dirs}
       IN sure' = outside(sure) \cup inside /\ reach' = outside(reach) \cup inside
    /\ op' = [op EXCEPT !.new = {}, !.wrote = @ \cup op.new]
    /\ pc' = IF op.parts = {} THEN "commit" ELSE "write"
    /\ UNCHANGED <<disk, content, catalogVars, memoryVars, hold, today, faults>>

\* A rewrite that kept no row is not catalogued.
NewFiles == {f \in op.wrote : content[f] # {}}

\* (CommitKeepsOld: the replaced rows are marked but still counted as live.)
CommitKeepsOld ==
    /\ pc = "commit"
    /\ live' = live \cup NewFiles
    /\ retired' = retired \cup op.old
    /\ gen' = gen + 1
    /\ pc' = "activate"
    /\ UNCHANGED <<diskVars, stored, memoryVars, hold, op, today, faults>>

\* One transaction: new rows, retired rows, the next generation.
Commit ==
    /\ pc = "commit"
    /\ live' = (live \ op.old) \cup NewFiles
    /\ retired' = retired \cup op.old
    /\ gen' = gen + 1
    /\ stored' = CASE op.kind = "publish" -> stored \cup op.rows
                   [] op.kind = "retain" -> {e \in stored : Part[e] \notin op.at}
                   [] op.kind = "erase" ->
                        {e \in stored : Part[e] \notin op.at \/ Who[e] \notin op.who}
                   [] OTHER -> stored
    /\ pc' = "activate"
    /\ UNCHANGED <<diskVars, memoryVars, hold, op, today, faults>>

\* (TouchedByNewFiles: retiring alone leaves the version as it was.)
TouchedByNewFiles == {PartOf(f)[1] : f \in NewFiles}

\* The projects whose set of files changes: their version must change too.
Touched == {PartOf(f)[1] : f \in NewFiles \cup op.old}

\* (InstallNew: the retired files stay in the snapshot.)
InstallNew(F) == snap.files \cup F

Installed(F) == (snap.files \ op.old) \cup F

\* Lake::activate; a project without files is dropped, its version reads 0.
Activate ==
    /\ pc = "activate"
    /\ LET files == Installed(NewFiles) IN
       snap' = [files |-> files,
                version |-> [j \in Projects |->
                               IF ProjectFiles(files, j) = {} THEN 0
                               ELSE IF j \in Touched THEN gen
                               ELSE snap.version[j]]]
    /\ graveyard' = graveyard \cup (op.old \cap snap.files)
    /\ Unlink(op.wrote \ NewFiles)
    /\ IF op.kind = "erase" THEN Begin(op, "erase") ELSE Done
    /\ UNCHANGED <<content, catalogVars, hold, today, faults>>

\* A failed publication removes the files it finished, except when it is the
\* commit that fails; a failed merge its output only when the transaction
\* fails.  What stays on disk is an orphan.
OpFails ==
    /\ pc \in {"write", "renamed", "commit", "erase"} /\ Fault("io")
    /\ \/ op.kind = "publish" /\ Unlink(op.wrote)
       \/ op.kind = "publish" /\ pc = "commit" /\ Unlink({})
       \/ op.kind = "merge" /\ Unlink(IF pc = "commit" THEN op.wrote ELSE {})
       \/ op.kind \in {"retain", "erase"} /\ Unlink({})
    /\ Done
    /\ UNCHANGED <<content, catalogVars, memoryVars, hold, today>>

-----------------------------------------------------------------------------
(* Readers and the graveyard.                                               *)

\* Lake::lease clones the current snapshot, then the files of one project.
ReaderLook(r) ==
    /\ pc # "down" /\ pc # "opening" /\ hold[r].stage = "none"
    /\ \E j \in Projects :
         hold' = [hold EXCEPT ![r] = [stage |-> "snapshot", project |-> j, files |-> snap.files,
                                      version |-> snap.version[j]]]
    /\ UNCHANGED <<diskVars, catalogVars, memoryVars, pc, op, today, faults>>

ReaderLease(r) ==
    /\ hold[r].stage = "snapshot"
    /\ hold' = [hold EXCEPT ![r].stage = "lease",
                            ![r].files = ProjectFiles(@, hold[r].project)]
    /\ UNCHANGED <<diskVars, catalogVars, memoryVars, pc, op, today, faults>>

ReaderDone(r) ==
    /\ hold[r].stage = "lease"
    /\ hold' = [hold EXCEPT ![r] = NoHold]
    /\ UNCHANGED <<diskVars, catalogVars, memoryVars, pc, op, today, faults>>

\* (UnheldNever: the graveyard's own reference is counted as a reader.)
UnheldNever == {}

\* (UnheldWrong: sweeping without asking who still reads.)
UnheldWrong == graveyard

\* Arc::strong_count = 1: only the graveyard itself still has the file.
Unheld == {f \in graveyard : \A r \in Readers : f \notin hold[r].files}

\* sweep_graveyard: unlink, then (a crash may come first) delete the rows.
Sweep ==
    /\ Idle /\ Unheld # {}
    /\ Unlink(Unheld)
    /\ graveyard' = graveyard \ Unheld
    /\ Begin([NoOp EXCEPT !.kind = "sweep", !.old = Unheld], "swept")
    /\ UNCHANGED <<content, catalogVars, snap, hold, today, faults>>

SweepRows ==
    /\ pc = "swept"
    /\ retired' = retired \ op.old
    /\ Done
    /\ UNCHANGED <<diskVars, live, gen, stored, memoryVars, hold, today, faults>>

SweepRowsFail ==
    /\ pc = "swept" /\ Fault("io")
    /\ Done
    /\ UNCHANGED <<diskVars, catalogVars, memoryVars, hold, today>>

-----------------------------------------------------------------------------
(* Crashes and Lake::open.                                                  *)

MemoryLost ==
    /\ snap' = EmptySnapshot /\ graveyard' = {}
    /\ hold' = [r \in Readers |-> NoHold]
    /\ op' = NoOp /\ pc' = "down"

Kill ==
    /\ pc # "down" /\ Fault("kill")
    /\ MemoryLost
    /\ UNCHANGED <<diskVars, catalogVars, today>>

PowerCut ==
    /\ pc # "down" /\ Fault("power")
    /\ MemoryLost
    /\ \E lucky \in SUBSET (reach \ sure) :
         /\ disk' = sure \cup lucky
         /\ sure' = disk' /\ reach' = disk'
    /\ UNCHANGED <<content, catalogVars, today>>

\* First the retired files go, then their rows.
OpenUnlink ==
    /\ pc = "down"
    /\ Unlink(retired)
    /\ pc' = "opening"
    /\ UNCHANGED <<content, catalogVars, memoryVars, hold, op, today, faults>>

\* Every catalogued file must be there; files no row names are removed.
OpenFinish ==
    /\ pc = "opening"
    /\ retired' = {}
    /\ IF live \subseteq disk
       THEN /\ Unlink(disk \ live)
            /\ snap' = [files |-> live,
                        version |-> [j \in Projects |->
                                       Max({Gen(f) : f \in ProjectFiles(live, j)} \cup {0})]]
            /\ pc' = "idle"
       ELSE pc' = "corrupt" /\ UNCHANGED <<disk, sure, reach, snap>>
    /\ UNCHANGED <<content, live, gen, stored, graveyard, hold, op, today, faults>>

DayPasses ==
    /\ today < MaxDay
    /\ today' = today + 1
    /\ UNCHANGED <<diskVars, catalogVars, memoryVars, hold, pc, op, faults>>

-----------------------------------------------------------------------------
Reading(r) == ReaderLease(r) \/ ReaderDone(r)
Working == WriteFile \/ DirSync \/ Commit \/ Activate \/ EraseNext \/ SweepRows

Next ==
    \/ PubBegin \/ RetainBegin \/ MergeBegin \/ EraseBegin
    \/ Working \/ Sweep \/ OpFails \/ SweepRowsFail
    \/ \E r \in Readers : ReaderLook(r) \/ Reading(r)
    \/ Kill \/ PowerCut \/ OpenUnlink \/ OpenFinish
    \/ DayPasses

Spec == Init /\ [][Next]_vars

\* The publisher thread keeps running, every query ends (its deadline), and
\* maintenance gets its turn: erasure requests do not arrive back to back for
\* ever (publisher_loop skips maintenance after each).
FairSpec ==
    /\ Spec
    /\ WF_vars(Working) /\ SF_vars(Sweep)
    /\ \A r \in Readers : WF_vars(Reading(r))

-----------------------------------------------------------------------------
(* Properties.                                                              *)

FileNames == {"g", "c", "e"} \X (Nat \ {0}) \X Parts

\* Files, catalog, snapshot, leases and operation have the code's shapes.
TypeOK ==
    /\ disk \subseteq FileNames /\ sure \subseteq disk /\ disk \subseteq reach
    /\ reach \subseteq DOMAIN content
    /\ \A f \in DOMAIN content : content[f] \subseteq Events
    /\ live \cap retired = {} /\ gen \in Nat /\ stored \subseteq Events
    /\ snap.files \subseteq FileNames /\ graveyard \cap snap.files = {}
    /\ \A r \in Readers : hold[r].stage \in {"none", "snapshot", "lease"}
    /\ pc \in {"idle", "write", "renamed", "commit", "activate", "erase", "swept",
               "down", "opening", "corrupt"}
    /\ today \in Nat /\ faults \in 0..MaxFaults

\* Whatever a power cut takes, every catalogued file is there afterwards, so
\* opening the lake never fails (names are fsynced before the commit, and
\* nothing the catalog names is ever unlinked, by a failed merge either).
LiveFilesDurable == live \subseteq sure

\* Publications, merges, rewrites, failures and crashes together neither lose
\* an event, nor bring back an erased or expired one.
CatalogHoldsStored == Rows(live) = stored

\* Between operations queries see exactly the committed files.
SnapshotIsCatalog ==
    pc \notin {"activate", "down", "opening", "corrupt"} => snap.files = live

\* A query never finds a file of its lease gone, however many generations,
\* sweeps and failed operations pass while it runs.
LeasedFilesReadable ==
    \A r \in Readers : hold[r].files \cup snap.files \subseteq disk

\* The data version keys the query cache: two leases of a project with one
\* version are leases of the same files.
VersionIdentifiesFiles ==
    \A r \in Readers : LET h == hold[r] IN
        h.stage = "lease" /\ pc # "corrupt" /\ h.version = snap.version[h.project]
            => h.files = ProjectFiles(snap.files, h.project)

\* What a query leases is the committed state its version names (lake/mod.rs
\* install, lease; the version is part of the query cache's key).
SnapshotsHonest == SnapshotIsCatalog /\ VersionIdentifiesFiles

\* A retired file is unlinked once its readers are gone.
RetiredEventuallyUnlinked ==
    \A f \in {"g", "c", "e"} \X (1..MaxGen) \X Parts : f \in graveyard ~> f \notin disk
=============================================================================
