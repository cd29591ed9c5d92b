------------------------------ MODULE Identity ------------------------------
(***************************************************************************)
(* The identity projection of src/src/projections.rs: which person each    *)
(* distinct id belongs to, how $identify, $create_alias and                *)
(* $merge_dangerously fold persons together, and what erasure removes.     *)
(* Only the publisher thread writes it, one SQLite transaction per window. *)
(*                                                                         *)
(* One project; db is the committed database.  A row that does not exist   *)
(* has owner Nobody, and the fields of a person that does not exist keep   *)
(* the defaults of Blank.  A time 0 is SQL NULL.  A transaction here holds *)
(* one event: readers may then see more versions than the code commits.    *)
(***************************************************************************)
EXTENDS Integers, FiniteSets

CONSTANTS
    Ids,         \* distinct ids (a person id is the first of its ids)
    Nobody,      \* no row in distinct_ids
    Times,       \* event timestamps
    MaxSeq       \* bound: changes of the override sequence

ASSUME IdsAssumption == Nobody \notin Ids
ASSUME TimesAssumption == Times \subseteq Nat \ {0}
ASSUME MaxSeqAssumption == MaxSeq \in Nat

VARIABLES
    db,          \* persons, distinct_ids, identity_state, pending_erasures
    born, seen   \* observed: when an id got its row; its newest event

vars == <<db, born, seen>>

Blank == [owner   |-> [d \in Ids |-> Nobody],   \* distinct_ids.person_id
          rowSeq  |-> [d \in Ids |-> 0],        \* distinct_ids.seq
          persons |-> {},                       \* rows of persons
          created |-> [d \in Ids |-> 0],        \* persons.created_at
          key     |-> [d \in Ids |-> d],        \* persons.first_seen_key
          ident   |-> {},                       \* persons.is_identified = 1
          last    |-> [d \in Ids |-> 0],        \* persons.last_seen
          seq     |-> 0, epoch |-> 0,           \* identity_state
          pending |-> {}]                       \* pending_erasures

Larger(a, b) == IF a < b THEN b ELSE a

-----------------------------------------------------------------------------
(* The steps of one event, each a function of the database.                 *)

\* ensure_person: a new id becomes a person of its own, under its own name.
EnsurePerson(b, d, t) ==
    IF b.owner[d] # Nobody THEN b
    ELSE [b EXCEPT !.owner[d] = d, !.rowSeq[d] = 0,
                   !.persons = @ \cup {d},
                   !.created[d] = t, !.key[d] = d, !.ident = @ \ {d}, !.last[d] = 0]

TouchLastSeen(b, d, t) == [b EXCEPT !.last[b.owner[d]] = Larger(@, t)]

MarkIdentified(b, d) == [b EXCEPT !.ident = @ \cup {b.owner[d]}]

\* (FoldKeepsLoser: forgetting to delete the losing person.)
FoldKeepsLoser(b, w, l) ==
    [b EXCEPT !.owner = [d \in Ids |-> IF @[d] = l THEN w ELSE @[d]],
              !.rowSeq = [d \in Ids |-> IF b.owner[d] = l THEN b.seq + 1 ELSE @[d]],
              !.seq = @ + 1,
              !.ident = @ \cup {w}]

\* (FoldUnstamped: a repoint that readers of the override feed never see.)
FoldUnstamped(b, w, l) ==
    [b EXCEPT !.owner = [d \in Ids |-> IF @[d] = l THEN w ELSE @[d]],
              !.persons = @ \ {l},
              !.created = [@ EXCEPT ![w] = IF b.created[l] < @ THEN b.created[l] ELSE @, ![l] = 0],
              !.key = [@ EXCEPT ![w] = IF b.created[l] < b.created[w] THEN b.key[l] ELSE @, ![l] = l],
              !.last = [@ EXCEPT ![w] = Larger(@, b.last[l]), ![l] = 0],
              !.ident = (@ \cup {w}) \ {l}]

\* (FoldYoungest: the younger person's bucketing key survives.)
FoldYoungest(b, w, l) ==
    [FoldUnstamped(b, w, l) EXCEPT
        !.created[w] = Larger(b.created[w], b.created[l]),
        !.key[w] = IF b.created[l] > b.created[w] THEN b.key[l] ELSE b.key[w]]

\* (FoldForgetsLastSeen: the loser's last_seen is deleted with it.)
FoldForgetsLastSeen(b, w, l) ==
    [FoldUnstamped(b, w, l) EXCEPT !.last[w] = b.last[w]]

\* Person l is folded into person w: all its ids repointed and stamped with
\* one new sequence number; the older person gives the bucketing key.
FoldInto(b, w, l) ==
    LET older == b.created[l] < b.created[w] IN
    [b EXCEPT !.owner = [d \in Ids |-> IF b.owner[d] = l THEN w ELSE b.owner[d]],
              !.rowSeq = [d \in Ids |-> IF b.owner[d] = l THEN b.seq + 1 ELSE b.rowSeq[d]],
              !.seq = b.seq + 1,
              !.persons = b.persons \ {l},
              !.created = [b.created EXCEPT ![w] = IF older THEN b.created[l] ELSE @, ![l] = 0],
              !.key = [b.key EXCEPT ![w] = IF older THEN b.key[l] ELSE @, ![l] = l],
              !.last = [b.last EXCEPT ![w] = Larger(@, b.last[l]), ![l] = 0],
              !.ident = (b.ident \cup {w}) \ {l}]

\* (GuardWrong: $create_alias folds whichever person was named as the alias.)
GuardWrong(b, w, l, guard) ==
    IF w = l THEN b
    ELSE IF guard = "RefuseIdentifiedSource" /\ l \in b.ident THEN b
    ELSE IF guard = "RefuseBothIdentified" /\ l \in b.ident /\ w \in b.ident THEN b
    ELSE FoldInto(b, w, l)

\* MergeGuard: which of the two persons survives, if they merge at all.
GuardedFold(b, w, l, guard) ==
    IF w = l THEN b
    ELSE IF guard = "RefuseIdentifiedSource" /\ l \in b.ident THEN b
    ELSE IF guard = "RefuseBothIdentified" /\ l \in b.ident
    THEN IF w \in b.ident THEN b ELSE FoldInto(b, l, w)
    ELSE FoldInto(b, w, l)

MergePersons(b, losing, winning, t, guard) ==
    LET c == EnsurePerson(EnsurePerson(b, winning, t), losing, t)
    IN GuardedFold(c, c.owner[winning], c.owner[losing], guard)

\* apply_identity before the switch on the event's name.
Arrive(b, d, t) == TouchLastSeen(EnsurePerson(b, d, t), d, t)

\* What the observer notes: ids that got a row, and the event's time.
Observe(d, t) ==
    /\ born' = [x \in Ids |-> IF db'.owner[x] = Nobody THEN 0
                              ELSE IF db.owner[x] = Nobody THEN t ELSE born[x]]
    /\ seen' = [seen EXCEPT ![d] = Larger(@, t)]

-----------------------------------------------------------------------------
Init ==
    /\ db = Blank
    /\ born = [d \in Ids |-> 0] /\ seen = [d \in Ids |-> 0]

\* Any event without identity meaning ($set, $groupidentify, page views).
ApplyPlain(d, t) ==
    /\ db' = Arrive(db, d, t)
    /\ Observe(d, t)

\* $identify, with the anonymous id or (other = d) without a usable one.
ApplyIdentify(d, other, t) ==
    /\ LET b == Arrive(db, d, t)
           m == IF other = d THEN b
                ELSE MergePersons(b, other, d, t, "RefuseIdentifiedSource")
       IN db' = MarkIdentified(m, d)
    /\ Observe(d, t)

ApplyAlias(d, other, t) ==
    /\ LET b == Arrive(db, d, t)
           m == IF other = d THEN b
                ELSE MergePersons(b, other, d, t, "RefuseBothIdentified")
       IN db' = MarkIdentified(m, d)
    /\ Observe(d, t)

ApplyMergeDangerously(d, other, t) ==
    /\ LET b == Arrive(db, d, t) IN
       db' = IF other = d THEN b ELSE MergePersons(b, other, d, t, "Always")
    /\ Observe(d, t)

\* (EraseKeepsEpoch: erasing without telling the readers to reload.)
EraseKeepsEpoch(b, p) ==
    LET ids == {d \in Ids : b.owner[d] = p} IN
    [b EXCEPT !.owner = [d \in Ids |-> IF d \in ids THEN Nobody ELSE @[d]],
              !.rowSeq = [d \in Ids |-> IF d \in ids THEN 0 ELSE @[d]],
              !.persons = @ \ {p},
              !.created[p] = 0, !.key[p] = p, !.last[p] = 0, !.ident = @ \ {p},
              !.seq = @ + 1,
              !.pending = @ \cup ids]

\* erase_person: the person and all its ids go; every reader must reload.
ErasePerson(b, p) ==
    LET ids == {d \in Ids : b.owner[d] = p} IN
    [b EXCEPT !.owner = [d \in Ids |-> IF d \in ids THEN Nobody ELSE b.owner[d]],
              !.rowSeq = [d \in Ids |-> IF d \in ids THEN 0 ELSE b.rowSeq[d]],
              !.persons = b.persons \ {p},
              !.created = [b.created EXCEPT ![p] = 0],
              !.key = [b.key EXCEPT ![p] = p],
              !.last = [b.last EXCEPT ![p] = 0],
              !.ident = b.ident \ {p},
              !.seq = b.seq + 1, !.epoch = b.epoch + 1,
              !.pending = b.pending \cup ids]

Erase(p) ==
    /\ db' = ErasePerson(db, p)
    /\ born' = [d \in Ids |-> IF db'.owner[d] = Nobody THEN 0 ELSE born[d]]
    /\ seen' = [d \in Ids |-> IF db'.owner[d] = Nobody THEN 0 ELSE seen[d]]

\* clear_pending_erasures: their events are gone from every file.
ClearPending ==
    /\ db.pending # {}
    /\ db' = [db EXCEPT !.pending = {}]
    /\ UNCHANGED <<born, seen>>

Next ==
    \/ \E d \in Ids, t \in Times : ApplyPlain(d, t)
    \/ /\ db.seq < MaxSeq
       /\ \E d, other \in Ids, t \in Times :
            \/ ApplyIdentify(d, other, t)
            \/ ApplyAlias(d, other, t)
            \/ ApplyMergeDangerously(d, other, t)
    \/ db.seq < MaxSeq /\ \E p \in Ids : Erase(p)
    \/ ClearPending

Spec == Init /\ [][Next]_vars

-----------------------------------------------------------------------------
(* Properties.                                                              *)

Databases ==
    [owner : [Ids -> Ids \cup {Nobody}], rowSeq : [Ids -> Nat], persons : SUBSET Ids,
     created : [Ids -> Nat], key : [Ids -> Ids], ident : SUBSET Ids,
     last : [Ids -> Nat], seq : Nat, epoch : Nat, pending : SUBSET Ids]

\* The tables have the columns and the types of SCHEMA.
TypeOK ==
    /\ db \in Databases
    /\ born \in [Ids -> Nat] /\ seen \in [Ids -> Nat]

\* Every id resolves to a person that exists, and a person's own id is one of
\* its ids.  So ensure_person never inserts a person that is already there,
\* which would fail the window, and every later one, for ever.
PersonsOwnThemselves ==
    /\ \A d \in Ids : db.owner[d] # Nobody => db.owner[d] \in db.persons
    /\ \A p \in db.persons : db.owner[p] = p

\* An id whose person is another id carries a sequence number the feed has
\* handed out, so a reader of rows with 0 < seq <= identity_state.seq gets it.
OverridesStamped ==
    \A d \in Ids :
        /\ db.rowSeq[d] <= db.seq
        /\ db.owner[d] \notin {d, Nobody} => db.rowSeq[d] > 0

\* Experience continuity: through any chain of merges the flag bucketing key
\* of a person is one of its ids, and no id of the person is older.
BucketingKeyIsOldest ==
    \A p \in db.persons :
        /\ db.owner[db.key[p]] = p
        /\ born[db.key[p]] = db.created[p]
        /\ \A d \in Ids : db.owner[d] = p => db.created[p] <= born[d]

\* last_seen is the newest event time of any of the person's distinct ids,
\* whatever order events and merges were applied in.
LastSeenIsNewest ==
    \A p \in db.persons :
        /\ \A d \in Ids : db.owner[d] = p => seen[d] <= db.last[p]
        /\ db.last[p] > 0 => \E d \in Ids : db.owner[d] = p /\ seen[d] = db.last[p]

\* What the persons row derives from the events of its ids stays exact through any
\* order of events and merges (projections.rs merge_persons).
PersonRowExact == BucketingKeyIsOldest /\ LastSeenIsNewest

\* Two people who logged in stay apart: no $identify and no $create_alias ever
\* removes a person that is identified (only a dangerous merge or an erasure).
IdentifiedNeverFolded ==
    [][(\E d, other \in Ids, t \in Times :
            ApplyIdentify(d, other, t) \/ ApplyAlias(d, other, t))
        => db.persons \cap db.ident \subseteq db'.persons]_vars
=============================================================================
