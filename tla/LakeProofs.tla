----------------------------- MODULE LakeProofs -----------------------------
(***************************************************************************)
(* The lake, for any events, partitions, readers, limits and faults.       *)
(***************************************************************************)
EXTENDS Lake, NaturalFacts, TLAPS

Kinds == {"none", "publish", "merge", "retain", "erase", "sweep"}
OpType == [kind : Kinds, parts : SUBSET Parts, rows : SUBSET Events, who : SUBSET {Who[e] : e \in Events},
           left : SUBSET Parts, at : SUBSET Parts,
           new : SUBSET FileNames, wrote : SUBSET FileNames, old : SUBSET FileNames]
HoldType == [stage : {"none", "snapshot", "lease"}, project : Projects \cup {"none"},
             files : SUBSET FileNames, version : Nat]

\* The shapes of the variables.
Shapes ==
    /\ disk \subseteq FileNames /\ sure \subseteq disk /\ reach \subseteq FileNames
    /\ live \subseteq FileNames /\ retired \subseteq FileNames
    /\ gen \in Nat /\ today \in Nat /\ faults \in Nat
    /\ stored \subseteq Events
    /\ snap \in [files : SUBSET FileNames, version : [Projects -> Nat]]
    /\ graveyard \subseteq FileNames
    /\ hold \in [Readers -> HoldType]
    /\ pc \in {"idle", "write", "renamed", "commit", "activate", "erase", "swept",
               "down", "opening"}
    /\ op \in OpType

\* A file holds events of its partition only.
ContentOK ==
    /\ DOMAIN content \subseteq FileNames
    /\ \A f \in DOMAIN content : content[f] \subseteq {e \in Events : Part[e] = PartOf(f)}
    
\* A file the catalog names is of a committed generation and not empty.
CatalogOK ==
    /\ \A f \in live \cup retired : Gen(f) <= gen /\ f \in DOMAIN content /\ content[f] # {}
    /\ live \cap retired = {}
    /\ LiveFilesDurable

\* In memory there are catalogued files only; what readers hold is in the
\* snapshot or waits in the graveyard.
MemoryOK ==
    /\ graveyard \subseteq retired
    /\ pc \in {"down", "opening"} => /\ snap = EmptySnapshot /\ graveyard = {} /\ op = NoOp
                                     /\ \A r \in Readers : hold[r] = NoHold
    /\ pc \notin {"activate", "down", "opening"} => snap.files = live
    /\ pc = "activate" => /\ live = (snap.files \ op.old) \cup NewFiles 
                          /\ op.old \subseteq retired \cap snap.files /\ NewFiles \cap snap.files = {}
    /\ \A r \in Readers : hold[r].files \subseteq (snap.files \cup graveyard) \cap disk
    /\ snap.files \subseteq disk
    /\ pc = "swept" => graveyard \cap op.old = {} /\ op.old \cap live = {}

Underway == pc \in {"write", "renamed", "commit"}

\* What the operation under way has written is of the next generation, and
\* covers its rows; it replaces live files.
WrittenOK ==
    /\ Underway =>
         /\ \A f \in op.wrote \cup op.new :
              /\ Gen(f) = gen + 1 /\ f \in DOMAIN content
              /\ content[f] = {e \in op.rows : Part[e] = PartOf(f)}
         /\ op.wrote \subseteq sure /\ op.new \subseteq disk
         /\ \A e \in op.rows : \/ Part[e] \in op.parts
                               \/ \E f \in op.wrote \cup op.new : PartOf(f) = Part[e]
         /\ op.old \subseteq live
    /\ pc = "renamed" \/ op.new = {}
    /\ pc = "commit" => op.parts = {}
    /\ pc = "activate" => \A f \in op.wrote : Gen(f) = gen /\ f \in DOMAIN content

\* What each kind of operation keeps of the rows it replaces.
PlanOK ==
    /\ Underway => op.kind \in {"publish", "merge", "retain", "erase"}
    /\ Underway /\ op.kind = "publish" => op.old = {}
    /\ Underway /\ op.kind = "merge" => op.rows = Rows(op.old)
    /\ Underway /\ op.kind = "retain" =>
         op.rows = {} /\ op.old = {f \in live : PartOf(f) \in op.at}
    /\ Underway /\ op.kind = "erase" =>
         /\ op.old = {f \in live : PartOf(f) \in op.at}
         /\ op.rows = {e \in Rows(op.old) : Who[e] \notin op.who}
    /\ pc = "erase" => op.kind = "erase"

\* Versions never run ahead of the generation, are 0 for a project without
\* files, and tell apart the sets of files a project has had.
Newest == IF pc = "activate" THEN gen - 1 ELSE gen
Leased(r) == ProjectFiles(hold[r].files, hold[r].project)
VersionsOK ==
    /\ \A j \in Projects : /\ snap.version[j] <= Newest 
                           /\ snap.version[j] = 0 <=> ProjectFiles(snap.files, j) = {}
    /\ pc = "activate" => gen > 0
    /\ \A r \in Readers : hold[r].stage # "none" =>
         /\ hold[r].version <= Newest /\ hold[r].project \in Projects
         /\ hold[r].version = 0 => Leased(r) = {}
         /\ hold[r].version = snap.version[hold[r].project] =>
               Leased(r) = ProjectFiles(snap.files, hold[r].project)
         /\ hold[r].stage = "lease" => hold[r].files = Leased(r)

Inv == Shapes /\ ContentOK /\ CatalogOK /\ CatalogHoldsStored /\ MemoryOK /\ WrittenOK
       /\ PlanOK /\ VersionsOK

-----------------------------------------------------------------------------
(* Maxima.                                                                  *)

\* Max finds the greatest element of a bounded set.
LEMMA MaxIsGreatest ==
    ASSUME NEW S, S \subseteq Nat, NEW n \in Nat, S # {}, \A x \in S : x <= n
    PROVE  Max(S) \in S /\ \A y \in S : y <= Max(S)
<1>1. S \subseteq 0..n
  OBVIOUS
<1>2. \E z \in S : \A y \in S : z >= y
  BY <1>1, GreatestNatural
<1> QED BY <1>2 DEF Max

\* The version Lake::open gives a project: at most the generation, and 0 for
\* no files only.
LEMMA OpenedVersion ==
    ASSUME NEW F \in SUBSET FileNames, NEW n \in Nat, \A f \in F : Gen(f) <= n
    PROVE  LET v == Max({Gen(f) : f \in F} \cup {0})
           IN v \in 0..n /\ (v = 0 <=> F = {})
<1> DEFINE S == {Gen(f) : f \in F} \cup {0}
<1>1. \A f \in F : Gen(f) \in Nat \ {0}
  BY DEF Gen, FileNames
<1>2. S \subseteq Nat /\ S # {} /\ \A x \in S : x <= n
  BY <1>1
<1>3. Max(S) \in S /\ \A y \in S : y <= Max(S)
  <2> HIDE DEF S
  <2> QED BY <1>2, MaxIsGreatest
<1>4. \A f \in F : Gen(f) \in S
  OBVIOUS
<1>5. Max(S) \in 0..n
  BY <1>2, <1>3
<1>6. ASSUME NEW f \in F PROVE Max(S) # 0
  BY <1>1, <1>3, <1>4, <1>5
<1>7. F = {} => Max(S) = 0
  BY <1>3
<1> QED BY <1>5, <1>6, <1>7

\* merge_inputs takes files of one partition of the snapshot.
LEMMA InputsOfPartition ==
    ASSUME NEW p
    PROVE  MergeInputs(p) \subseteq {f \in snap.files : PartOf(f) = p}
<1>1. \A F : Oldest(F) \subseteq F
  BY DEF Oldest
<1> QED BY <1>1 DEF MergeInputs, FilesOf

-----------------------------------------------------------------------------
(* What the steps that choose an operation make of op.                      *)

\* An operation that has written nothing yet.
Planned(k, parts, rows, who, left, at, old) ==
    [kind |-> k, parts |-> parts, rows |-> rows, who |-> who, left |-> left, at |-> at,
     new |-> {}, wrote |-> {}, old |-> old]

\* publish_window: every partition of the window gets a file.
LEMMA PubPlan ==
    ASSUME PubBegin
    PROVE  /\ \E W \in SUBSET Events : op' = Planned("publish", {Part[e] : e \in W}, W, {}, {}, {}, {})
           /\ pc = "idle" /\ pc' = "write" /\ UNCHANGED <<diskVars, catalogVars, memoryVars, hold, today, faults>>
BY DEF PubBegin, Begin, Idle, NoOp, Planned

\* Compactor::step, retention: what is of an expired partition goes.
LEMMA RetainPlan ==
    ASSUME RetainBegin
    PROVE  \E A \in SUBSET Parts : 
             /\ op' = Planned("retain", {}, {}, {}, {}, A, Expired)
             /\ A = {p \in Parts : p[2] < today - RetentionDays}
BY DEF RetainBegin, Begin, NoOp, Planned

\* Compactor::merge: the rows of the inputs, in one file.
LEMMA MergePlan ==
    ASSUME MergeBegin
    PROVE  \E p \in Parts : 
             op' = Planned("merge", {p}, Rows(MergeInputs(p)), {}, {}, {}, MergeInputs(p))
BY DEF MergeBegin, Merge, Begin, NoOp, Planned

\* Compactor::erase: whose rows, and the partitions to visit.
LEMMA ErasePlan ==
    ASSUME EraseBegin
    PROVE  \E e \in Events, L \in SUBSET Parts : op' = Planned("erase", {}, {}, {Who[e]}, L, {}, {})
BY DEF EraseBegin, Begin, NoOp, Planned

\* The next partition with such rows: its files without them.
LEMMA ErasePart ==
    ASSUME EraseNext, op' # NoOp
    PROVE  /\ pc' = "write"
           /\ \E p \in op.left : LET F == FilesOf(snap.files, p) IN
                op' = Planned("erase", {p}, Rows(F) \ ErasedRows(F), op.who, op.left \ {p}, {p}, F)
BY DEF EraseNext, Begin, Done, NoOp, Planned

\* The steps that choose what to do next.
Choosing == PubBegin \/ RetainBegin \/ MergeBegin \/ EraseBegin \/ EraseNext

\* A chosen operation replaces live files only, and has a file to write for
\* each of its rows.
LEMMA ChoosingPlans ==
    ASSUME Inv, Choosing
    PROVE  /\ UNCHANGED <<diskVars, catalogVars, memoryVars, hold, today, faults>>
           /\ pc \in {"idle", "erase"} /\ pc' \in {"idle", "write", "commit", "erase"}
           /\ op' \in OpType /\ op'.new = {} /\ op'.wrote = {} /\ op'.old \subseteq live
           /\ \A e \in op'.rows : Part[e] \in op'.parts
           /\ pc' = "commit" => op'.parts = {}
           /\ PlanOK'
<1>1. /\ UNCHANGED <<diskVars, catalogVars, memoryVars, hold, today, faults>>
      /\ pc \in {"idle", "erase"}
  BY DEF Choosing, PubBegin, RetainBegin, MergeBegin, EraseBegin, EraseNext, Idle
<1>2. /\ snap.files = live /\ live \subseteq FileNames /\ op \in OpType
      /\ \A f \in live : f \in DOMAIN content /\ content[f] \subseteq Events
      /\ \A f \in live : PartOf(f) \in Parts /\ \A e \in content[f] : Part[e] = PartOf(f)
  BY <1>1 DEF Inv, Shapes, MemoryOK, CatalogOK, ContentOK, FileNames, PartOf
<1>3. ASSUME NEW F \in SUBSET live
      PROVE  Rows(F) \subseteq Events /\ \A e \in Rows(F) : Part[e] \in {PartOf(f) : f \in F}
  BY <1>2 DEF Rows
<1>4. live' = live /\ content' = content
  BY <1>1 DEF catalogVars, diskVars
<1>5. CASE PubBegin
  <2>1. PICK W \in SUBSET Events : op' = Planned("publish", {Part[e] : e \in W}, W, {}, {}, {}, {})
    BY <1>5, PubPlan
  <2>2. pc' = "write"
    BY <1>5, PubPlan
  <2> QED BY <1>1, <2>1, <2>2 DEF Planned, OpType, Kinds, Parts, PlanOK, Underway
<1>6. CASE RetainBegin
  <2>1. pc' = "commit"
    BY <1>6 DEF RetainBegin, Begin
  <2>2. PICK A \in SUBSET Parts : /\ op' = Planned("retain", {}, {}, {}, {}, A, Expired)
                                  /\ A = {p \in Parts : p[2] < today - RetentionDays}
    BY <1>6, RetainPlan
  <2>3. Expired = {f \in live : PartOf(f) \in A}
    BY <1>2, <2>2 DEF Expired
  <2> QED BY <1>1, <1>2, <1>4, <2>1, <2>2, <2>3 DEF Planned, OpType, Kinds, PlanOK, Underway
<1>7. CASE MergeBegin
  <2>1. PICK p \in Parts :
          op' = Planned("merge", {p}, Rows(MergeInputs(p)), {}, {}, {}, MergeInputs(p))
    BY <1>7, MergePlan
  <2>2. pc' = "write"
    BY <1>7 DEF MergeBegin, Merge, Begin
  <2>3. MergeInputs(p) \in SUBSET live /\ \A f \in MergeInputs(p) : PartOf(f) = p
    BY <1>2, InputsOfPartition
  <2>4. Rows(MergeInputs(p)) \subseteq Events /\ \A e \in Rows(MergeInputs(p)) : Part[e] = p
    BY <1>3, <2>3
  <2>5. op'.rows = Rows(op.old)'
    BY <1>4, <2>1 DEF Planned, Rows
  <2>6. /\ op' \in OpType /\ op'.new = {} /\ op'.wrote = {} /\ op'.old \subseteq live
        /\ op'.rows = Rows(MergeInputs(p)) /\ op'.parts = {p} /\ op'.kind = "merge"
    BY <1>2, <2>1, <2>3, <2>4 DEF Planned, OpType, Kinds
  <2>7. PlanOK'
    BY <2>2, <2>5, <2>6 DEF PlanOK, Underway
  <2> QED BY <1>1, <2>2, <2>4, <2>6, <2>7
<1>8. CASE EraseBegin
  <2>1. PICK e \in Events, L \in SUBSET Parts : op' = Planned("erase", {}, {}, {Who[e]}, L, {}, {})
    BY <1>8, ErasePlan
  <2>2. pc' = "erase"
    BY <1>8 DEF EraseBegin, Begin
  <2> QED BY <1>1, <2>1, <2>2 DEF Planned, OpType, Kinds, PlanOK, Underway
<1>9. CASE EraseNext
  <2>1. CASE op' = NoOp
    <3>1. pc' = "idle"
      BY <1>9, <2>1 DEF EraseNext, Begin, Done, NoOp
    <3> QED BY <1>1, <2>1, <3>1 DEF NoOp, OpType, Kinds, PlanOK, Underway
  <2>2. CASE op' # NoOp
    <3>1. pc' = "write"
      BY <1>9, <2>2, ErasePart
    <3>2. PICK p \in op.left : LET F == FilesOf(snap.files, p) IN
            op' = Planned("erase", {p}, Rows(F) \ ErasedRows(F), op.who, op.left \ {p}, {p}, F)
      BY <1>9, <2>2, ErasePart
    <3> DEFINE F == FilesOf(snap.files, p)
               R == Rows(F) \ ErasedRows(F)
    <3>3. p \in Parts /\ op.left \ {p} \in SUBSET Parts /\ op.who \in SUBSET {Who[e] : e \in Events}
      BY <1>2 DEF OpType
    <3>4. F = {f \in live : PartOf(f) \in {p}}
      BY <1>2 DEF FilesOf
    <3>5. R = {e \in Rows(F) : Who[e] \notin op.who}
      BY DEF ErasedRows
    <3>6. R \subseteq Events /\ \A e \in R : Part[e] = p
      BY <1>3, <3>4, <3>5
    <3>7. op' = Planned("erase", {p}, R, op.who, op.left \ {p}, {p}, F)
      BY <3>2
    <3> HIDE DEF F, R
    <3>8. /\ op' \in OpType /\ op'.new = {} /\ op'.wrote = {} /\ op'.old = F /\ op'.rows = R
          /\ op'.parts = {p} /\ op'.at = {p} /\ op'.who = op.who /\ op'.kind = "erase"
      BY <1>2, <3>3, <3>4, <3>6, <3>7 DEF Planned, OpType, Kinds
    <3>9. PlanOK'
      BY <1>4, <3>1, <3>4, <3>5, <3>8 DEF PlanOK, Underway, Rows
    <3> QED BY <1>1, <3>1, <3>4, <3>6, <3>8, <3>9
  <2> QED BY <2>1, <2>2
<1> QED BY <1>5, <1>6, <1>7, <1>8, <1>9 DEF Choosing


\* p's rows are written to f, a new file of the next generation.
Wrote(p, f) ==
    /\ Gen(f) = gen + 1 /\ PartOf(f) = p /\ f \notin live \cup retired
    /\ disk' = disk \cup {f} /\ reach' = reach \cup {f} /\ sure' = sure
    /\ DOMAIN content' = DOMAIN content \cup {f}
    /\ content'[f] = {e \in op.rows : Part[e] = p}
    /\ \A g \in DOMAIN content \ {f} : content'[g] = content[g]
    /\ op' \in OpType /\ op'.parts = op.parts \ {p} /\ op'.new = {f}
    /\ op'.kind = op.kind /\ op'.rows = op.rows /\ op'.who = op.who /\ op'.at = op.at
    /\ op'.wrote = op.wrote /\ op'.old = op.old
    /\ pc = "write" /\ pc' = "renamed"
    /\ UNCHANGED <<catalogVars, memoryVars, hold, today, faults>>

\* The catalog does not name a file of the next generation yet.
LEMMA WriteEffect ==
    ASSUME Inv, WriteFile
    PROVE  \E p \in op.parts, f \in FileNames : Wrote(p, f)
<1>1. op \in OpType /\ gen \in Nat /\ \A g \in live \cup retired : Gen(g) <= gen
  BY DEF Inv, Shapes, CatalogOK
<1>2. PICK p \in op.parts : LET f == <<Letter, gen + 1, p>> IN
         /\ disk' = disk \cup {f} /\ reach' = reach \cup {f} /\ UNCHANGED sure
         /\ content' = [g \in DOMAIN content \cup {f} |->
                          IF g = f THEN {e \in op.rows : Part[e] = p} ELSE content[g]]
         /\ op' = [op EXCEPT !.parts = @ \ {p}, !.new = {f}]
  BY DEF WriteFile
<1>3. Letter \in {"g", "c", "e"}
  BY DEF Letter
<1> DEFINE f == <<Letter, gen + 1, p>>
<1>4. f \in FileNames /\ Gen(f) = gen + 1 /\ PartOf(f) = p
  BY <1>1, <1>3 DEF FileNames, Gen, PartOf, OpType
<1>5. f \notin live \cup retired
  BY <1>1, <1>4
<1>6. op' = [op EXCEPT !.parts = @ \ {p}, !.new = {f}]
  BY <1>2
<1>7. /\ disk' = disk \cup {f} /\ reach' = reach \cup {f} /\ sure' = sure
      /\ content' = [g \in DOMAIN content \cup {f} |->
                       IF g = f THEN {e \in op.rows : Part[e] = p} ELSE content[g]]
  BY <1>2
<1> HIDE DEF f
<1>8. /\ op' \in OpType /\ op'.parts = op.parts \ {p} /\ op'.new = {f}
      /\ op'.kind = op.kind /\ op'.rows = op.rows /\ op'.who = op.who /\ op'.at = op.at
      /\ op'.wrote = op.wrote /\ op'.old = op.old
  BY <1>1, <1>4, <1>6 DEF OpType
<1>9. /\ DOMAIN content' = DOMAIN content \cup {f}
      /\ content'[f] = {e \in op.rows : Part[e] = p}
      /\ \A g \in DOMAIN content \ {f} : content'[g] = content[g]
  BY <1>7
<1>10. /\ pc = "write" /\ pc' = "renamed"
       /\ UNCHANGED <<catalogVars, memoryVars, hold, today, faults>>
  BY DEF WriteFile
<1> QED BY <1>4, <1>5, <1>7, <1>8, <1>9, <1>10 DEF Wrote


\* The operation is given up and its files U are unlinked.
Unlinked(U) ==
    /\ U \cap (live \cup retired) = {}
    /\ disk' = disk \ U /\ sure' = sure \ U /\ reach' = reach
    /\ op' = NoOp /\ pc' = "idle" /\ pc \in {"write", "renamed", "commit", "erase"}
    /\ UNCHANGED <<content, catalogVars, memoryVars, hold, today>>

\* What a failed operation unlinks is no file the catalog names.
LEMMA FailEffect ==
    ASSUME Inv, OpFails
    PROVE  \E U \in SUBSET FileNames : Unlinked(U)
<1>1. /\ op \in OpType /\ gen \in Nat /\ \A g \in live \cup retired : Gen(g) <= gen
      /\ Underway => \A f \in op.wrote : Gen(f) = gen + 1
      /\ pc = "erase" => op.kind = "erase"
  BY DEF Inv, Shapes, CatalogOK, WrittenOK, PlanOK
<1>2. /\ op' = NoOp /\ pc' = "idle" /\ pc \in {"write", "renamed", "commit", "erase"}
      /\ UNCHANGED <<content, catalogVars, memoryVars, hold, today>>
  BY DEF OpFails, Done
<1>3. Unlink({}) \/ (op.kind \in {"publish", "merge"} /\ Unlink(op.wrote))
  BY DEF OpFails
<1>4. CASE Unlink({})
  <2> WITNESS {} \in SUBSET FileNames
  <2> QED BY <1>2, <1>4 DEF Unlink, Unlinked
<1>5. CASE op.kind \in {"publish", "merge"} /\ Unlink(op.wrote)
  <2>1. Underway
    BY <1>1, <1>2, <1>5 DEF Underway
  <2>2. op.wrote \in SUBSET FileNames /\ op.wrote \cap (live \cup retired) = {}
    BY <1>1, <2>1 DEF OpType
  <2> QED BY <1>2, <1>5, <2>2 DEF Unlink, Unlinked
<1> QED BY <1>3, <1>4, <1>5

\* Lake::open finds every live file.
LEMMA OpenEffect ==
    ASSUME Inv, OpenFinish
    PROVE  /\ pc = "opening" /\ pc' = "idle" /\ retired' = {}
           /\ disk' = disk \ (disk \ live) /\ sure' = sure \ (disk \ live) /\ reach' = reach
           /\ snap' \in [files : SUBSET FileNames, version : [Projects -> Nat]]
           /\ snap'.files = live
           /\ \A j \in Projects : /\ snap'.version[j] <= gen
                                  /\ snap'.version[j] = 0 <=> ProjectFiles(live, j) = {}
           /\ UNCHANGED <<content, live, gen, stored, graveyard, hold, op, today, faults>>
<1>1. /\ live \subseteq sure /\ sure \subseteq disk /\ live \subseteq FileNames /\ gen \in Nat
      /\ \A g \in live : Gen(g) <= gen
  BY DEF Inv, Shapes, CatalogOK, LiveFilesDurable
<1> DEFINE V == [j \in Projects |-> Max({Gen(f) : f \in ProjectFiles(live, j)} \cup {0})]
<1>2. ASSUME NEW j \in Projects
      PROVE  V[j] \in 0..gen /\ (V[j] = 0 <=> ProjectFiles(live, j) = {})
  <2> DEFINE F == ProjectFiles(live, j)
  <2>1. F \in SUBSET FileNames /\ \A f \in F : Gen(f) <= gen
    BY <1>1 DEF ProjectFiles
  <2>2. V[j] = Max({Gen(f) : f \in F} \cup {0})
    OBVIOUS
  <2> HIDE DEF F, V
  <2>3. LET v == Max({Gen(f) : f \in F} \cup {0}) IN v \in 0..gen /\ (v = 0 <=> F = {})
    BY <1>1, <2>1, OpenedVersion
  <2> QED BY <2>2, <2>3 DEF F
<1>3. /\ pc = "opening" /\ pc' = "idle" /\ retired' = {}
      /\ disk' = disk \ (disk \ live) /\ sure' = sure \ (disk \ live) /\ reach' = reach
      /\ snap' = [files |-> live, version |-> V]
      /\ UNCHANGED <<content, live, gen, stored, graveyard, hold, op, today, faults>>
  BY <1>1 DEF OpenFinish, Unlink
<1>4. V \in [Projects -> Nat]
  BY <1>1, <1>2
<1> HIDE DEF V
<1>5. snap'.files = live /\ snap'.version = V
  BY <1>3
<1>6. \A j \in Projects : /\ snap'.version[j] <= gen
                          /\ snap'.version[j] = 0 <=> ProjectFiles(live, j) = {}
  BY <1>1, <1>2, <1>5
<1> QED BY <1>1, <1>3, <1>4, <1>5, <1>6

-----------------------------------------------------------------------------
(* Every step keeps the invariant, one part at a time.                      *)

\* Every step keeps the shapes; opening never finds a file missing.
LEMMA ShapesStep == Inv /\ [Next]_vars => Shapes'
<1> SUFFICES ASSUME Inv, [Next]_vars PROVE Shapes'
  OBVIOUS
<1> USE DEF Inv, Shapes, OpType, HoldType, Kinds, FileNames, Projects, diskVars, catalogVars, memoryVars
<1>1. CASE Choosing
  BY <1>1, ChoosingPlans
<1>2. CASE WriteFile
  <2>1. PICK p \in op.parts, f \in FileNames : Wrote(p, f)
    BY <1>2, WriteEffect
  <2> QED BY <2>1 DEF OpType, Wrote
<1>3. CASE DirSync
  BY <1>3 DEF DirSync
<1>4. CASE Commit
  BY <1>4 DEF Commit, NewFiles
<1>5. CASE Activate
  BY <1>5 DEF Activate, Installed, Unlink, Begin, Done, NoOp, NewFiles
<1>6. CASE SweepRows
  BY <1>6 DEF SweepRows, Done, NoOp
<1>7. CASE Sweep
  BY <1>7 DEF Sweep, Unlink, Begin, NoOp, Unheld, Idle
<1>8. CASE OpFails
  BY <1>8 DEF OpFails, Fault, Unlink, Done, NoOp
<1>9. CASE SweepRowsFail
  BY <1>9 DEF SweepRowsFail, Fault, Done, NoOp
<1>10. CASE \E r \in Readers : ReaderLook(r) \/ Reading(r)
  BY <1>10 DEF ReaderLook, Reading, ReaderLease, ReaderDone, NoHold
<1>11. CASE Kill \/ PowerCut
  BY <1>11 DEF Kill, PowerCut, Fault, MemoryLost, NoOp, NoHold, EmptySnapshot
<1>12. CASE OpenUnlink
  BY <1>12 DEF OpenUnlink, Unlink
<1>13. CASE OpenFinish
  BY <1>13, OpenEffect
<1>14. CASE DayPasses
  BY <1>14 DEF DayPasses
<1>15. CASE UNCHANGED vars
  BY <1>15 DEF vars, NewFiles
<1> QED BY <1>1, <1>2, <1>3, <1>4, <1>5, <1>6, <1>7, <1>8, <1>9, <1>10, <1>11, <1>12, <1>13, <1>14, <1>15 DEF Next, Working, Choosing

\* A file is written once, with the rows of its partition.
LEMMA ContentStep == Inv /\ [Next]_vars => ContentOK'
<1> SUFFICES ASSUME Inv, [Next]_vars PROVE ContentOK'
  OBVIOUS
<1> USE DEF Inv, Shapes, ContentOK, OpType, FileNames, PartOf, Gen, diskVars, catalogVars, memoryVars
<1>1. CASE Choosing
  BY <1>1, ChoosingPlans
<1>2. CASE WriteFile
  <2>1. PICK p \in op.parts, f \in FileNames : Wrote(p, f)
    BY <1>2, WriteEffect
  <2> QED BY <2>1 DEF OpType, Wrote
<1>3. CASE DirSync
  BY <1>3 DEF DirSync
<1>4. CASE Commit
  BY <1>4 DEF Commit, NewFiles
<1>5. CASE Activate
  BY <1>5 DEF Activate, Installed, Unlink, Begin, Done, NoOp, NewFiles
<1>6. CASE SweepRows
  BY <1>6 DEF SweepRows, Done, NoOp
<1>7. CASE Sweep
  BY <1>7 DEF Sweep, Unlink, Begin, NoOp, Unheld, Idle
<1>8. CASE OpFails
  BY <1>8 DEF OpFails, Fault, Unlink, Done, NoOp
<1>9. CASE SweepRowsFail
  BY <1>9 DEF SweepRowsFail, Fault, Done, NoOp
<1>10. CASE \E r \in Readers : ReaderLook(r) \/ Reading(r)
  BY <1>10 DEF ReaderLook, Reading, ReaderLease, ReaderDone, NoHold
<1>11. CASE Kill \/ PowerCut
  BY <1>11 DEF Kill, PowerCut, Fault, MemoryLost, NoOp, NoHold, EmptySnapshot
<1>12. CASE OpenUnlink
  BY <1>12 DEF OpenUnlink, Unlink
<1>13. CASE OpenFinish
  BY <1>13 DEF OpenFinish, Unlink
<1>14. CASE DayPasses
  BY <1>14 DEF DayPasses
<1>15. CASE UNCHANGED vars
  BY <1>15 DEF vars, NewFiles
<1> QED BY <1>1, <1>2, <1>3, <1>4, <1>5, <1>6, <1>7, <1>8, <1>9, <1>10, <1>11, <1>12, <1>13, <1>14, <1>15 DEF Next, Working, Choosing

\* The catalog only gains files that are written, synced and not empty, and
\* no step unlinks a live one.
LEMMA CatalogStep == Inv /\ [Next]_vars => CatalogOK'
<1> SUFFICES ASSUME Inv, [Next]_vars PROVE CatalogOK'
  OBVIOUS
<1> USE DEF Inv, Shapes, CatalogOK, LiveFilesDurable, MemoryOK, WrittenOK, Underway, OpType, Gen, PartOf, diskVars, catalogVars, memoryVars
<1>1. CASE Choosing
  BY <1>1, ChoosingPlans
<1>2. CASE WriteFile
  <2>1. PICK p \in op.parts, f \in FileNames : Wrote(p, f)
    BY <1>2, WriteEffect
  <2> QED BY <2>1 DEF Wrote
<1>3. CASE DirSync
  BY <1>3 DEF DirSync
<1>4. CASE Commit
  <2>1. /\ live' = (live \ op.old) \cup NewFiles /\ retired' = retired \cup op.old /\ gen' = gen + 1
        /\ sure' = sure /\ content' = content
    BY <1>4 DEF Commit
  <2>2. /\ NewFiles \subseteq sure /\ op.old \subseteq live
        /\ \A f \in NewFiles : Gen(f) = gen + 1 /\ f \in DOMAIN content /\ content[f] # {}
    BY <1>4 DEF Commit, NewFiles
  <2>3. \A f \in live \cup retired : f \notin NewFiles
    BY <2>2
  <2>4. ASSUME NEW f \in live' \cup retired'
        PROVE  Gen(f) <= gen' /\ f \in DOMAIN content' /\ content'[f] # {}
    <3>1. f \in live \cup retired \cup NewFiles
      BY <2>1, <2>2
    <3>2. CASE f \in NewFiles
      BY <2>1, <2>2, <3>2
    <3>3. CASE f \in live \cup retired
      <4>1. Gen(f) <= gen /\ f \in DOMAIN content /\ content[f] # {}
        BY <3>3
      <4>2. Gen(f) \in Nat
        BY <3>3 DEF FileNames
      <4> QED BY <2>1, <4>1, <4>2
    <3> QED BY <3>1, <3>2, <3>3
  <2>5. live' \cap retired' = {}
    BY <2>1, <2>2, <2>3
  <2>6. live' \subseteq sure'
    BY <2>1, <2>2
  <2> QED BY <2>4, <2>5, <2>6
<1>5. CASE Activate
  BY <1>5 DEF Activate, Installed, Unlink, Begin, Done, NoOp, NewFiles
<1>6. CASE SweepRows
  BY <1>6 DEF SweepRows, Done, NoOp
<1>7. CASE Sweep
  BY <1>7 DEF Sweep, Unlink, Begin, NoOp, Unheld, Idle
<1>8. CASE OpFails
  <2>1. PICK U \in SUBSET FileNames : Unlinked(U)
    BY <1>8, FailEffect
  <2> QED BY <2>1 DEF NoOp, Unlinked
<1>9. CASE SweepRowsFail
  BY <1>9 DEF SweepRowsFail, Fault, Done, NoOp
<1>10. CASE \E r \in Readers : ReaderLook(r) \/ Reading(r)
  BY <1>10 DEF ReaderLook, Reading, ReaderLease, ReaderDone, NoHold
<1>11. CASE Kill \/ PowerCut
  BY <1>11 DEF Kill, PowerCut, Fault, MemoryLost, NoOp, NoHold, EmptySnapshot
<1>12. CASE OpenUnlink
  BY <1>12 DEF OpenUnlink, Unlink
<1>13. CASE OpenFinish
  BY <1>13 DEF OpenFinish, Unlink
<1>14. CASE DayPasses
  BY <1>14 DEF DayPasses
<1>15. CASE UNCHANGED vars
  BY <1>15 DEF vars, NewFiles
<1> QED BY <1>1, <1>2, <1>3, <1>4, <1>5, <1>6, <1>7, <1>8, <1>9, <1>10, <1>11, <1>12, <1>13, <1>14, <1>15 DEF Next, Working, Choosing

\* A commit exchanges files for files with the rows they must have.
LEMMA StoredStep == Inv /\ [Next]_vars => CatalogHoldsStored'
<1> SUFFICES ASSUME Inv, [Next]_vars PROVE CatalogHoldsStored'
  OBVIOUS
<1> USE DEF Inv, Shapes, CatalogOK, CatalogHoldsStored, MemoryOK, WrittenOK, Underway, PlanOK, OpType, Gen, PartOf, Rows, diskVars, catalogVars, memoryVars
<1>1. CASE Choosing
  BY <1>1, ChoosingPlans
<1>2. CASE WriteFile
  <2>1. PICK p \in op.parts, f \in FileNames : Wrote(p, f)
    BY <1>2, WriteEffect
  <2> QED BY <2>1 DEF Wrote
<1>3. CASE DirSync
  BY <1>3 DEF DirSync
<1>4. CASE Commit
  <2>1. /\ live' = (live \ op.old) \cup NewFiles /\ content' = content
        /\ stored' = CASE op.kind = "publish" -> stored \cup op.rows
                   [] op.kind = "retain" -> {e \in stored : Part[e] \notin op.at}
                   [] op.kind = "erase" ->
                        {e \in stored : Part[e] \notin op.at \/ Who[e] \notin op.who}
                   [] OTHER -> stored
    BY <1>4 DEF Commit
  <2>2. Rows(live)' = Rows(live \ op.old) \cup Rows(NewFiles)
    BY <2>1
  <2>3. Rows(NewFiles) = op.rows
    <3>1. /\ op.new = {} /\ op.parts = {}
          /\ \A f \in op.wrote : content[f] = {e \in op.rows : Part[e] = PartOf(f)}
          /\ \A e \in op.rows : \E f \in op.wrote : PartOf(f) = Part[e]
      BY <1>4 DEF Commit
    <3> QED BY <3>1 DEF NewFiles
  <2>4. \A f \in live : \A e \in content[f] : Part[e] = PartOf(f)
    BY DEF ContentOK
  <2>5. op.old \subseteq live /\ op.kind \in {"publish", "merge", "retain", "erase"} /\ Underway
    BY <1>4 DEF Commit
  <2>6. CASE op.kind = "publish"
    BY <2>1, <2>2, <2>3, <2>5, <2>6
  <2>7. CASE op.kind = "merge"
    BY <2>1, <2>2, <2>3, <2>5, <2>7
  <2>8. CASE op.kind = "retain"
    <3>1. stored' = {e \in stored : Part[e] \notin op.at} /\ op.rows = {}
      BY <2>1, <2>5, <2>8
    <3>2. Rows(live \ op.old) = {e \in stored : Part[e] \notin op.at}
      BY <2>4, <2>5, <2>8
    <3> QED BY <2>2, <2>3, <3>1, <3>2
  <2>9. CASE op.kind = "erase"
    <3>1. stored' = {e \in stored : Part[e] \notin op.at \/ Who[e] \notin op.who}
      BY <2>1, <2>5, <2>9
    <3>2. Rows(live \ op.old) = {e \in stored : Part[e] \notin op.at}
      BY <2>4, <2>5, <2>9
    <3>3. op.rows = {e \in stored : Part[e] \in op.at /\ Who[e] \notin op.who}
      BY <2>4, <2>5, <2>9
    <3> QED BY <2>2, <2>3, <3>1, <3>2, <3>3
  <2> QED BY <2>5, <2>6, <2>7, <2>8, <2>9
<1>5. CASE Activate
  BY <1>5 DEF Activate, Installed, Unlink, Begin, Done, NoOp, NewFiles
<1>6. CASE SweepRows
  BY <1>6 DEF SweepRows, Done, NoOp
<1>7. CASE Sweep
  BY <1>7 DEF Sweep, Unlink, Begin, NoOp, Unheld, Idle
<1>8. CASE OpFails
  BY <1>8 DEF OpFails, Fault, Unlink, Done, NoOp
<1>9. CASE SweepRowsFail
  BY <1>9 DEF SweepRowsFail, Fault, Done, NoOp
<1>10. CASE \E r \in Readers : ReaderLook(r) \/ Reading(r)
  BY <1>10 DEF ReaderLook, Reading, ReaderLease, ReaderDone, NoHold
<1>11. CASE Kill \/ PowerCut
  BY <1>11 DEF Kill, PowerCut, Fault, MemoryLost, NoOp, NoHold, EmptySnapshot
<1>12. CASE OpenUnlink
  BY <1>12 DEF OpenUnlink, Unlink
<1>13. CASE OpenFinish
  BY <1>13 DEF OpenFinish, Unlink
<1>14. CASE DayPasses
  BY <1>14 DEF DayPasses
<1>15. CASE UNCHANGED vars
  BY <1>15 DEF vars, NewFiles
<1> QED BY <1>1, <1>2, <1>3, <1>4, <1>5, <1>6, <1>7, <1>8, <1>9, <1>10, <1>11, <1>12, <1>13, <1>14, <1>15 DEF Next, Working, Choosing

\* The snapshot follows the catalog at activation; a file a query holds
\* stays in the snapshot or in the graveyard.
LEMMA MemoryStep == Inv /\ [Next]_vars => MemoryOK'
<1> SUFFICES ASSUME Inv, [Next]_vars PROVE MemoryOK'
  OBVIOUS
<1> USE DEF Inv, Shapes, CatalogOK, LiveFilesDurable, MemoryOK, WrittenOK, Underway, OpType, HoldType, Gen, NewFiles, diskVars, catalogVars, memoryVars
<1>1. CASE Choosing
  BY <1>1, ChoosingPlans
<1>2. CASE WriteFile
  <2>1. PICK p \in op.parts, f \in FileNames : Wrote(p, f)
    BY <1>2, WriteEffect
  <2> QED BY <2>1 DEF Wrote
<1>3. CASE DirSync
  BY <1>3 DEF DirSync
<1>4. CASE Commit
  BY <1>4 DEF Commit, NewFiles
<1>5. CASE Activate
  BY <1>5 DEF Activate, Installed, Unlink, Begin, Done, NoOp, NewFiles
<1>6. CASE SweepRows
  BY <1>6 DEF SweepRows, Done, NoOp
<1>7. CASE Sweep
  BY <1>7 DEF Sweep, Unlink, Begin, NoOp, Unheld, Idle
<1>8. CASE OpFails
  <2>1. PICK U \in SUBSET FileNames : Unlinked(U)
    BY <1>8, FailEffect
  <2> QED BY <2>1 DEF NoOp, Unlinked
<1>9. CASE SweepRowsFail
  BY <1>9 DEF SweepRowsFail, Fault, Done, NoOp
<1>10. CASE \E r \in Readers : ReaderLook(r) \/ Reading(r)
  BY <1>10 DEF ReaderLook, Reading, ReaderLease, ReaderDone, NoHold
<1>11. CASE Kill \/ PowerCut
  <2>1. /\ snap' = EmptySnapshot /\ graveyard' = {} /\ op' = NoOp /\ pc' = "down"
        /\ hold' = [r \in Readers |-> NoHold]
    BY <1>11 DEF Kill, PowerCut, MemoryLost
  <2> QED BY <2>1 DEF NoHold, EmptySnapshot
<1>12. CASE OpenUnlink
  BY <1>12 DEF OpenUnlink, Unlink, NoHold, NoOp, EmptySnapshot
<1>13. CASE OpenFinish
  BY <1>13, OpenEffect DEF NoHold, NoOp
<1>14. CASE DayPasses
  BY <1>14 DEF DayPasses
<1>15. CASE UNCHANGED vars
  BY <1>15 DEF vars, NewFiles
<1> QED BY <1>1, <1>2, <1>3, <1>4, <1>5, <1>6, <1>7, <1>8, <1>9, <1>10, <1>11, <1>12, <1>13, <1>14, <1>15 DEF Next, Working, Choosing

\* The files of the operation under way stay as it wrote them.
LEMMA WrittenStep == Inv /\ [Next]_vars => WrittenOK'
<1> SUFFICES ASSUME Inv, [Next]_vars PROVE WrittenOK'
  OBVIOUS
<1> USE DEF Inv, Shapes, CatalogOK, MemoryOK, WrittenOK, Underway, OpType, Gen, PartOf, diskVars, catalogVars, memoryVars
<1>1. CASE Choosing
  BY <1>1, ChoosingPlans
<1>2. CASE WriteFile
  <2>1. PICK p \in op.parts, f \in FileNames : Wrote(p, f)
    BY <1>2, WriteEffect
  <2> QED BY <2>1 DEF Wrote
<1>3. CASE DirSync
  BY <1>3 DEF DirSync
<1>4. CASE Commit
  BY <1>4 DEF Commit, NewFiles
<1>5. CASE Activate
  BY <1>5 DEF Activate, Installed, Unlink, Begin, Done, NoOp, NewFiles
<1>6. CASE SweepRows
  BY <1>6 DEF SweepRows, Done, NoOp
<1>7. CASE Sweep
  BY <1>7 DEF Sweep, Unlink, Begin, NoOp, Unheld, Idle
<1>8. CASE OpFails
  BY <1>8 DEF OpFails, Fault, Unlink, Done, NoOp
<1>9. CASE SweepRowsFail
  BY <1>9 DEF SweepRowsFail, Fault, Done, NoOp
<1>10. CASE \E r \in Readers : ReaderLook(r) \/ Reading(r)
  BY <1>10 DEF ReaderLook, Reading, ReaderLease, ReaderDone, NoHold
<1>11. CASE Kill \/ PowerCut
  BY <1>11 DEF Kill, PowerCut, Fault, MemoryLost, NoOp, NoHold, EmptySnapshot
<1>12. CASE OpenUnlink
  BY <1>12 DEF OpenUnlink, Unlink
<1>13. CASE OpenFinish
  BY <1>13 DEF OpenFinish, Unlink
<1>14. CASE DayPasses
  BY <1>14 DEF DayPasses
<1>15. CASE UNCHANGED vars
  BY <1>15 DEF vars, NewFiles
<1> QED BY <1>1, <1>2, <1>3, <1>4, <1>5, <1>6, <1>7, <1>8, <1>9, <1>10, <1>11, <1>12, <1>13, <1>14, <1>15 DEF Next, Working, Choosing

\* The plan stays true of the live files: only this thread changes them.
LEMMA PlanStep == Inv /\ [Next]_vars => PlanOK'
<1> SUFFICES ASSUME Inv, [Next]_vars PROVE PlanOK'
  OBVIOUS
<1> USE DEF Inv, Shapes, CatalogOK, MemoryOK, WrittenOK, Underway, PlanOK, OpType, Gen, Rows, diskVars, catalogVars, memoryVars
<1>1. CASE Choosing
  BY <1>1, ChoosingPlans
<1>2. CASE WriteFile
  <2>1. PICK p \in op.parts, f \in FileNames : Wrote(p, f)
    BY <1>2, WriteEffect
  <2> QED BY <2>1 DEF Wrote
<1>3. CASE DirSync
  BY <1>3 DEF DirSync
<1>4. CASE Commit
  BY <1>4 DEF Commit, NewFiles
<1>5. CASE Activate
  BY <1>5 DEF Activate, Installed, Unlink, Begin, Done, NoOp, NewFiles
<1>6. CASE SweepRows
  BY <1>6 DEF SweepRows, Done, NoOp
<1>7. CASE Sweep
  BY <1>7 DEF Sweep, Unlink, Begin, NoOp, Unheld, Idle
<1>8. CASE OpFails
  BY <1>8 DEF OpFails, Fault, Unlink, Done, NoOp
<1>9. CASE SweepRowsFail
  BY <1>9 DEF SweepRowsFail, Fault, Done, NoOp
<1>10. CASE \E r \in Readers : ReaderLook(r) \/ Reading(r)
  BY <1>10 DEF ReaderLook, Reading, ReaderLease, ReaderDone, NoHold
<1>11. CASE Kill \/ PowerCut
  BY <1>11 DEF Kill, PowerCut, Fault, MemoryLost, NoOp, NoHold, EmptySnapshot
<1>12. CASE OpenUnlink
  BY <1>12 DEF OpenUnlink, Unlink
<1>13. CASE OpenFinish
  BY <1>13 DEF OpenFinish, Unlink
<1>14. CASE DayPasses
  BY <1>14 DEF DayPasses
<1>15. CASE UNCHANGED vars
  BY <1>15 DEF vars, NewFiles
<1> QED BY <1>1, <1>2, <1>3, <1>4, <1>5, <1>6, <1>7, <1>8, <1>9, <1>10, <1>11, <1>12, <1>13, <1>14, <1>15 DEF Next, Working, Choosing

\* Each change of a project's files gives it the newest generation as its
\* version, or 0 with its last file.
LEMMA VersionsStep == Inv /\ [Next]_vars => VersionsOK'
<1> SUFFICES ASSUME Inv, [Next]_vars PROVE VersionsOK'
  OBVIOUS
<1> USE DEF Inv, Shapes, CatalogOK, MemoryOK, WrittenOK, Underway, VersionsOK, OpType, HoldType, Gen, Newest, Leased, ProjectFiles, NewFiles, diskVars, catalogVars, memoryVars
<1>1. CASE Choosing
  BY <1>1, ChoosingPlans
<1>2. CASE WriteFile
  <2>1. PICK p \in op.parts, f \in FileNames : Wrote(p, f)
    BY <1>2, WriteEffect
  <2> QED BY <2>1 DEF Wrote
<1>3. CASE DirSync
  BY <1>3 DEF DirSync
<1>4. CASE Commit
  BY <1>4 DEF Commit, NewFiles
<1>5. CASE Activate
  <2> DEFINE files == (snap.files \ op.old) \cup NewFiles
             V == [j \in Projects |-> IF ProjectFiles(files, j) = {} THEN 0
                                      ELSE IF j \in Touched THEN gen ELSE snap.version[j]]
  <2>1. /\ snap' = [files |-> files, version |-> V] /\ UNCHANGED <<hold, gen>>
        /\ pc = "activate" /\ pc' \in {"idle", "erase"}
    BY <1>5 DEF Activate, Installed, Begin, Done
  <2>2. snap'.files = files /\ snap'.version = V
    BY <2>1
  <2>3. \A j \in Projects : j \notin Touched => ProjectFiles(files, j) = ProjectFiles(snap.files, j)
    BY DEF Touched
  <2>4. ASSUME NEW j \in Projects
        PROVE  /\ snap'.version[j] <= gen
               /\ snap'.version[j] = 0 <=> ProjectFiles(snap'.files, j) = {}
               /\ snap'.version[j] \in {0, gen} \/ (/\ snap'.version[j] = snap.version[j]
                                                    /\ ProjectFiles(snap'.files, j) = ProjectFiles(snap.files, j))
    BY <2>1, <2>2, <2>3
  <2>5. ASSUME NEW r \in Readers, hold[r].stage # "none"
        PROVE  /\ hold'[r] = hold[r] /\ hold[r].version < gen /\ hold[r].version \in Nat
               /\ hold[r].project \in Projects
    BY <2>1, <2>5
  <2> QED BY <2>1, <2>4, <2>5
<1>6. CASE SweepRows
  BY <1>6 DEF SweepRows, Done, NoOp
<1>7. CASE Sweep
  BY <1>7 DEF Sweep, Unlink, Begin, NoOp, Unheld, Idle
<1>8. CASE OpFails
  BY <1>8 DEF OpFails, Fault, Unlink, Done, NoOp
<1>9. CASE SweepRowsFail
  BY <1>9 DEF SweepRowsFail, Fault, Done, NoOp
<1>10. CASE \E r \in Readers : ReaderLook(r) \/ Reading(r)
  BY <1>10 DEF ReaderLook, Reading, ReaderLease, ReaderDone, NoHold
<1>11. CASE Kill \/ PowerCut
  BY <1>11 DEF Kill, PowerCut, Fault, MemoryLost, NoOp, NoHold, EmptySnapshot
<1>12. CASE OpenUnlink
  BY <1>12 DEF OpenUnlink, Unlink
<1>13. CASE OpenFinish
  BY <1>13, OpenEffect DEF NoHold
<1>14. CASE DayPasses
  BY <1>14 DEF DayPasses
<1>15. CASE UNCHANGED vars
  BY <1>15 DEF vars, NewFiles
<1> QED BY <1>1, <1>2, <1>3, <1>4, <1>5, <1>6, <1>7, <1>8, <1>9, <1>10, <1>11, <1>12, <1>13, <1>14, <1>15 DEF Next, Working, Choosing

\* The empty lake.
LEMMA InitInv == Init => Inv
<1> SUFFICES ASSUME Init PROVE Inv
  OBVIOUS
<1> USE DEF Init, NoOp, NoHold, EmptySnapshot
<1>1. Shapes
  BY DEF Shapes, OpType, HoldType, Kinds
<1>2. ContentOK /\ CatalogOK /\ CatalogHoldsStored
  BY DEF ContentOK, CatalogOK, LiveFilesDurable, CatalogHoldsStored, Rows
<1>3. MemoryOK /\ WrittenOK /\ PlanOK
  BY DEF MemoryOK, WrittenOK, PlanOK, Underway
<1>4. VersionsOK
  BY DEF VersionsOK, Newest, ProjectFiles
<1> QED BY <1>1, <1>2, <1>3, <1>4 DEF Inv

\* The inductive invariant holds in every reachable state.
THEOREM InvAlways == Spec => []Inv
<1>1. Inv /\ [Next]_vars => Inv'
  <2> SUFFICES ASSUME Inv, [Next]_vars PROVE Inv'
    OBVIOUS
  <2>1. Shapes' /\ ContentOK' /\ CatalogOK' /\ CatalogHoldsStored'
    BY ShapesStep, ContentStep, CatalogStep, StoredStep
  <2>2. MemoryOK' /\ WrittenOK' /\ PlanOK' /\ VersionsOK'
    BY MemoryStep, WrittenStep, PlanStep, VersionsStep
  <2> QED BY <2>1, <2>2 DEF Inv
<1> QED BY InitInv, <1>1, PTL DEF Spec

-----------------------------------------------------------------------------
(* What the lake promises.                                                  *)

\* Every catalogued file survives a power cut at any moment: names are synced
\* before the commit, and nothing the catalog names is unlinked.
THEOREM Durable == Spec => []LiveFilesDurable
<1>1. Inv => LiveFilesDurable
  BY DEF Inv, CatalogOK
<1> QED BY InvAlways, <1>1, PTL

\* The catalogued rows are the published ones that no retention or erasure has
\* removed, whatever is merged, fails or crashes.
THEOREM HoldsStored == Spec => []CatalogHoldsStored
<1>1. Inv => CatalogHoldsStored
  BY DEF Inv
<1> QED BY InvAlways, <1>1, PTL

\* The files of a query's lease stay on disk until it is done (Arc counts and
\* the graveyard).
THEOREM Readable == Spec => []LeasedFilesReadable
<1>1. Inv => LeasedFilesReadable
  BY DEF Inv, MemoryOK, LeasedFilesReadable
<1> QED BY InvAlways, <1>1, PTL

\* Between operations the snapshot is the catalog, and two leases of a project
\* with one data version are of the same files.
THEOREM Honest == Spec => []SnapshotsHonest
<1>1. Inv => SnapshotsHonest
  <2> SUFFICES ASSUME Inv PROVE SnapshotsHonest
    OBVIOUS
  <2>1. SnapshotIsCatalog
    BY DEF Inv, Shapes, MemoryOK, SnapshotIsCatalog
  <2>2. VersionIdentifiesFiles
    BY DEF Inv, Shapes, VersionsOK, Leased, VersionIdentifiesFiles
  <2> QED BY <2>1, <2>2 DEF SnapshotsHonest
<1> QED BY InvAlways, <1>1, PTL

=============================================================================
