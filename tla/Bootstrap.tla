----------------------------- MODULE Bootstrap -----------------------------
(***************************************************************************)
(* The pair of SQLite databases of a data directory, and the startup that  *)
(* creates it, finishes a creation that was cut short, or refuses:         *)
(* src/src/storage_bootstrap.rs behind Application::prepare.               *)
(*                                                                         *)
(* One server at a time.  It may be killed between any two steps; a power  *)
(* loss also takes back the latest directory operations, as far as the     *)
(* last sync.  While the server is down an operator may put one database   *)
(* of another installation in place.                                       *)
(***************************************************************************)

CONSTANTS
    PairIds,     \* uuids
    Foreign,     \* the pair id of the other installation
    NoFile

ASSUME BootAssumption == NoFile \notin [pair : PairIds \cup {Foreign}, whole : BOOLEAN]

VARIABLES
    bdir,       \* the four paths as a process sees them
    bpending,   \* what the directory was before each operation not synced yet
    bserver     \* the step the server is at, and its new pair_id

bootVars == <<bdir, bpending, bserver>>

Down == [pc |-> "down"]
At(step) == [bserver EXCEPT !.pc = step]
Database(pair) == [pair |-> pair, whole |-> TRUE]

Exists(d, path) == d[path] # NoFile

\* validate_pair_read_only: both headers, both database_meta rows, one pair id.
\* (HeadersOnly: the pair ids are not compared.)
HeadersOnly(control, projections) == control.whole /\ projections.whole
validate_pair(control, projections) ==
    control.whole /\ projections.whole /\ control.pair = projections.pair

inspect_storage(d) ==
    IF Exists(d, "control.migrating") \/ Exists(d, "projections.migrating") THEN "MigrationIncomplete"
    ELSE IF Exists(d, "control") # Exists(d, "projections") THEN "MigrationIncomplete"
    ELSE IF ~Exists(d, "control") THEN "Fresh"
    ELSE IF validate_pair(d["control"], d["projections"]) THEN "ReadyV2" ELSE "Invalid"

recoverable_fresh_bootstrap(d) ==
    /\ ~Exists(d, "control") /\ Exists(d, "projections")
    /\ Exists(d, "control.migrating") /\ ~Exists(d, "projections.migrating")

\* A recoverable pair that does not validate is refused by bootstrap_storage.
Recoverable(d) ==
    /\ inspect_storage(d) = "MigrationIncomplete" /\ recoverable_fresh_bootstrap(d)
    /\ validate_pair(d["control.migrating"], d["projections"])

Startable(d) == inspect_storage(d) \in {"Fresh", "ReadyV2"} \/ Recoverable(d)

-----------------------------------------------------------------------------
(* Application::prepare and bootstrap_storage.                              *)

prepare ==
    /\ bserver = Down /\ Startable(bdir)
    /\ bserver' = [pc |-> CASE inspect_storage(bdir) = "Fresh" -> "remove_temporaries"
                            [] inspect_storage(bdir) = "ReadyV2" -> "validate"
                            [] OTHER -> "rename_control"]
    /\ UNCHANGED <<bdir, bpending>>

\* MigrationIncomplete, or an error of validation: nothing is touched.
PrepareRefuses == bserver = Down /\ ~Startable(bdir) /\ UNCHANGED bootVars

\* One directory operation and the step after it.
Write(step, d, next) ==
    /\ bserver.pc = step
    /\ bdir' = d
    /\ bpending' = bpending \cup {bdir}
    /\ bserver' = At(next)

RemoveTemporaries ==
    Write("remove_temporaries",
          [bdir EXCEPT !["control.migrating"] = NoFile, !["projections.migrating"] = NoFile], "pair_id")

NewPair(id) ==
    /\ bserver.pc = "pair_id" /\ id \notin {bdir[p].pair : p \in {q \in DOMAIN bdir : Exists(bdir, q)}}
    /\ bserver' = [pc |-> "create_control", pair |-> id]
    /\ UNCHANGED <<bdir, bpending>>

\* The file appears empty; the schema transaction makes it a database.
create_database(step, path, next) ==
    \/ /\ bdir[path] = NoFile
       /\ Write(step, [bdir EXCEPT ![path] = [pair |-> bserver.pair, whole |-> FALSE]], step)
    \/ /\ Exists(bdir, path)
       /\ Write(step, [bdir EXCEPT ![path] = Database(bserver.pair)], next)

Renamed(from, to) == [bdir EXCEPT ![to] = bdir[from], ![from] = NoFile]

\* (ControlFirst: the other order.)
ControlFirst ==
    \/ create_database("create_control", "control.migrating", "create_projections")
    \/ create_database("create_projections", "projections.migrating", "rename_control")
    \/ Write("rename_control", Renamed("control.migrating", "control"), "rename_projections")
    \/ Write("rename_projections", Renamed("projections.migrating", "projections"), "sync_control")

\* create_pair: projections first, and the control database last.
create_pair ==
    \/ create_database("create_control", "control.migrating", "create_projections")
    \/ create_database("create_projections", "projections.migrating", "rename_projections")
    \/ Write("rename_projections", Renamed("projections.migrating", "projections"), "sync_projections")
    \/ Write("rename_control", Renamed("control.migrating", "control"), "sync_control")

sync_parent ==
    /\ bserver.pc \in {"sync_projections", "sync_control"}
    /\ bpending' = {}
    /\ bserver' = At(IF bserver.pc = "sync_control" THEN "validate" ELSE "rename_control")
    /\ UNCHANGED bdir

\* The last validation and the runtime pragmas, then the listener.
install_runtime_pragmas ==
    /\ bserver.pc = "validate" /\ validate_pair(bdir["control"], bdir["projections"])
    /\ bserver' = At("serving")
    /\ UNCHANGED <<bdir, bpending>>

-----------------------------------------------------------------------------
\* A kill, or an error of any step.
Kill == bserver # Down /\ bserver' = Down /\ UNCHANGED <<bdir, bpending>>

\* The last operations never reached the disk.
PowerLoss ==
    /\ bpending # {}
    /\ bdir' \in bpending
    /\ bpending' = {} /\ bserver' = Down

RestoreOne(path) ==
    /\ bserver = Down /\ bpending = {}
    /\ bdir' = [bdir EXCEPT ![path] = Database(Foreign)]
    /\ UNCHANGED <<bpending, bserver>>

BootInit ==
    /\ bdir = [p \in {"control", "projections", "control.migrating", "projections.migrating"} |-> NoFile]
    /\ bpending = {} /\ bserver = Down

BootNext ==
    \/ prepare \/ PrepareRefuses \/ RemoveTemporaries \/ create_pair \/ sync_parent
    \/ install_runtime_pragmas \/ Kill \/ PowerLoss
    \/ \E id \in PairIds : NewPair(id)
    \/ \E path \in {"control", "projections"} : RestoreOne(path)

BootSpec == BootInit /\ [][BootNext]_bootVars

-----------------------------------------------------------------------------
(* Properties.                                                              *)

\* What the directory may be after a power loss now.
Outcomes == {bdir} \cup bpending
Untouched(d) == \A p \in DOMAIN d : Exists(d, p) => d[p].pair # Foreign
Has(d, path) == Exists(d, path) /\ d[path].whole

\* A server serves one pair of whole databases, whatever was cut short or restored
\* before (validate_pair_read_only on every way in).
ServesOnePair ==
    bserver.pc = "serving" =>
        /\ Has(bdir, "control") /\ Has(bdir, "projections")
        /\ bdir["control"].pair = bdir["projections"].pair

\* From the moment one database is published under its own name, a kill or a power
\* loss leaves a directory that starts, with that pair or fresh (the order of the
\* two renames, the staged control database, recoverable_fresh_bootstrap).
PublishedPairOpens ==
    Exists(bdir, "projections") \/ Exists(bdir, "control") =>
        \A d \in Outcomes : Untouched(d) /\ (Exists(d, "projections") \/ Exists(d, "control")) => Startable(d)

\* A server serves one whole pair of databases, and a directory that lost power
\* while it was made still starts (storage_bootstrap.rs, application.rs prepare).
BootHolds == ServesOnePair /\ PublishedPairOpens
=============================================================================
