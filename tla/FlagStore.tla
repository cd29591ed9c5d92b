----------------------------- MODULE FlagStore -----------------------------
(***************************************************************************)
(* Feature flag definitions: src/src/flags/store.rs behind routes/flags.rs.*)
(*                                                                         *)
(* Rows live in control.db under one mutex, compiled definitions in a      *)
(* cache under another.  A writer commits, releases the first mutex, and   *)
(* only then invalidates; a reader that misses the cache notes the         *)
(* generation, loads the rows, and stores them if the generation is still  *)
(* the same.  A row's version stands for its contents, which every update  *)
(* changes together with it.                                               *)
(***************************************************************************)
EXTENDS Integers, Sequences, FiniteSets

CONSTANTS
    FlagProjects, FlagKeys, FlagWriters, FlagReaders,
    MaxFlags,                  \* MAX_FLAGS_PER_PROJECT
    MaxCached,                 \* MAX_CACHED_PROJECTS
    MaxRows, MaxVersion        \* bounds: rows ever inserted, changes of one row

ASSUME CacheAssumption == MaxCached \in Nat \ {0}

VARIABLES
    frows,      \* flag_definitions by AUTOINCREMENT id; deleted rows stay
    fcache,     \* generation, and the compiled flags of some projects
    fwriter,    \* dashboard writes in flight
    freader     \* /flags requests in flight

flagVars == <<frows, fcache, fwriter, freader>>

NoFlagWork == [pc |-> "idle"]
Ids == 1..Len(frows)

-----------------------------------------------------------------------------
\* load_live: what a project's live definitions are.
load_live(p) == {[id |-> i, key |-> frows[i].key, version |-> frows[i].version] :
                    i \in {j \in Ids : frows[j].project = p /\ frows[j].live}}

\* flag_definitions_live_key: another live row of the project has this key.
KeyTaken(p, key, but) ==
    \E i \in Ids \ {but} : frows[i].project = p /\ frows[i].live /\ frows[i].key = key

Commit(w, p, id) ==
    /\ fwriter[w] = NoFlagWork
    /\ fwriter' = [fwriter EXCEPT ![w] = [pc |-> "committed", project |-> p, id |-> id]]
    /\ UNCHANGED <<fcache, freader>>

\* create: the limit counts live rows; an invalid definition never gets here.
create(w, p, key) ==
    /\ Len(frows) < MaxRows
    /\ Cardinality(load_live(p)) < MaxFlags /\ ~KeyTaken(p, key, 0)
    /\ frows' = Append(frows, [project |-> p, key |-> key, version |-> 1, live |-> TRUE])
    /\ Commit(w, p, Len(frows) + 1)

\* (UpdateAnyKey: the unique index covers project and id only.)
UpdateAnyKey(w, i, key) ==
    /\ i \in Ids /\ frows[i].live /\ frows[i].version < MaxVersion
    /\ frows' = [frows EXCEPT ![i].key = key, ![i].version = @ + 1]
    /\ Commit(w, frows[i].project, 0)

\* update: absent fields keep their value; a rename must not meet a live key.
update(w, i, key) ==
    /\ i \in Ids /\ frows[i].live /\ frows[i].version < MaxVersion
    /\ ~KeyTaken(frows[i].project, key, i)
    /\ frows' = [frows EXCEPT ![i].key = key, ![i].version = @ + 1]
    /\ Commit(w, frows[i].project, 0)

\* Soft delete: the row stays, its key is free again.
delete(w, i) ==
    /\ i \in Ids /\ frows[i].live
    /\ frows' = [frows EXCEPT ![i].live = FALSE, ![i].version = @ + 1]
    /\ Commit(w, frows[i].project, 0)

Cached == DOMAIN fcache.projects
Evict(c, p) == [q \in (DOMAIN c) \ {p} |-> c[q]]

\* (EvictOnly: the entry goes, the generation stays.)
EvictOnly(w) ==
    /\ fwriter[w].pc = "committed"
    /\ fcache' = [fcache EXCEPT !.projects = Evict(@, fwriter[w].project)]
    /\ fwriter' = [fwriter EXCEPT ![w] = NoFlagWork]
    /\ UNCHANGED <<frows, freader>>

\* After the commit.  A create then reads its row back, which another writer
\* may have deleted: the answer is not_found, and nothing here changes.
invalidate(w) ==
    /\ fwriter[w].pc = "committed"
    /\ fcache' = [generation |-> fcache.generation + 1,
                  projects |-> Evict(fcache.projects, fwriter[w].project)]
    /\ fwriter' = [fwriter EXCEPT ![w] = NoFlagWork]
    /\ UNCHANGED <<frows, freader>>

-----------------------------------------------------------------------------
(* compiled, in its three critical sections.                                *)

\* A hit answers at once and changes nothing.
CacheMiss(r, p) ==
    /\ freader[r] = NoFlagWork /\ p \notin Cached
    /\ freader' = [freader EXCEPT ![r] = [pc |-> "missed", project |-> p, generation |-> fcache.generation]]
    /\ UNCHANGED <<frows, fcache, fwriter>>

LoadDefinitions(r) ==
    /\ freader[r].pc = "missed"
    /\ freader' = [freader EXCEPT ![r] =
          [pc |-> "loaded", project |-> @.project, generation |-> @.generation,
           flags |-> load_live(@.project)]]
    /\ UNCHANGED <<frows, fcache, fwriter>>

\* A full cache is cleared wholesale.
Insert(p, flags) ==
    LET kept == IF Cardinality(Cached) >= MaxCached THEN <<>> ELSE fcache.projects
    IN [q \in (DOMAIN kept) \cup {p} |-> IF q = p THEN flags ELSE kept[q]]

\* (InsertAlways: no generation check.)
InsertAlways(r) ==
    /\ freader[r].pc = "loaded"
    /\ fcache' = [fcache EXCEPT !.projects = Insert(freader[r].project, freader[r].flags)]
    /\ freader' = [freader EXCEPT ![r] = NoFlagWork]
    /\ UNCHANGED <<frows, fwriter>>

compiled(r) ==
    /\ freader[r].pc = "loaded"
    /\ fcache' = IF fcache.generation # freader[r].generation THEN fcache
                 ELSE [fcache EXCEPT !.projects = Insert(freader[r].project, freader[r].flags)]
    /\ freader' = [freader EXCEPT ![r] = NoFlagWork]
    /\ UNCHANGED <<frows, fwriter>>

\* The store failed (503), or the row was not found, taken or invalid.
FlagError(r) ==
    /\ freader[r].pc = "missed"
    /\ freader' = [freader EXCEPT ![r] = NoFlagWork]
    /\ UNCHANGED <<frows, fcache, fwriter>>

-----------------------------------------------------------------------------
FlagInit ==
    /\ frows = <<>>
    /\ fcache = [generation |-> 0, projects |-> <<>>]
    /\ fwriter = [w \in FlagWriters |-> NoFlagWork]
    /\ freader = [r \in FlagReaders |-> NoFlagWork]

\* create_flag, update_flag and delete_flag; a refusal changes nothing.
FlagWrites(w) ==
    \/ \E p \in FlagProjects, key \in FlagKeys : create(w, p, key)
    \/ \E i \in Ids : delete(w, i) \/ (\E key \in FlagKeys : update(w, i, key))

FlagNext ==
    \/ \E w \in FlagWriters : invalidate(w) \/ FlagWrites(w)
    \/ \E r \in FlagReaders :
         \/ LoadDefinitions(r) \/ compiled(r) \/ FlagError(r)
         \/ \E p \in FlagProjects : CacheMiss(r, p)

FlagSpec == FlagInit /\ [][FlagNext]_flagVars

-----------------------------------------------------------------------------
(* Properties.                                                              *)

\* Once the writers of a project have invalidated, its cached flags are its rows:
\* no reader that loaded earlier can put an older answer back (the generation).
CacheIsCurrent ==
    \A p \in Cached :
        (\A w \in FlagWriters : fwriter[w] = NoFlagWork \/ fwriter[w].project # p)
            => fcache.projects[p] = load_live(p)

\* The answer for a key is one flag's: live keys are distinct after any renames,
\* deletes and reuse of a deleted key, and the cache holds at most MaxCached projects.
KeysAndCacheBounded ==
    /\ \A i, j \in Ids : /\ i # j /\ frows[i].live /\ frows[j].live
                         /\ frows[i].project = frows[j].project
                         => frows[i].key # frows[j].key
    /\ Cardinality(Cached) <= MaxCached

\* A compiled flag that is served is the stored one once its writer was answered,
\* and live keys are unique (flags/store.rs compiled, invalidate).
FlagCacheHolds == CacheIsCurrent /\ KeysAndCacheBounded

=============================================================================
