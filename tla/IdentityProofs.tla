--------------------------- MODULE IdentityProofs ---------------------------
(***************************************************************************)
(* Machine-checked facts about the identity projection and the query       *)
(* engine's mirror of it, for any set of distinct ids, any timestamps, any *)
(* batch size and any number of events and syncs.                          *)
(***************************************************************************)
EXTENDS IdentityFeed, NaturalFacts, FiniteSetTheorems, TLAPS

\* What every function of the database keeps: the types, an existing owner for
\* every row, a person's own row, stamps on overrides and none without a row.
Good(b) ==
    /\ b \in Databases
    /\ \A d \in Ids : b.owner[d] # Nobody => b.owner[d] \in b.persons
    /\ \A p \in b.persons : b.owner[p] = p
    /\ \A d \in Ids : b.rowSeq[d] <= b.seq
    /\ \A d \in Ids : b.owner[d] \notin {d, Nobody} => b.rowSeq[d] > 0
    /\ \A d \in Ids : b.owner[d] = Nobody => b.rowSeq[d] = 0

\* The empty database is good.
LEMMA BlankGood == Good(Blank)
BY IdsAssumption DEF Good, Blank, Databases

\* ensure_person keeps a good database good, gives d an owner, and takes no
\* row or person away.
LEMMA EnsureGood ==
    ASSUME NEW b, Good(b), NEW d \in Ids, NEW t \in Nat
    PROVE  LET c == EnsurePerson(b, d, t) IN
           /\ Good(c)
           /\ c.owner[d] \in c.persons
           /\ \A x \in Ids : b.owner[x] # Nobody => c.owner[x] = b.owner[x]
<1> DEFINE c == EnsurePerson(b, d, t)
<1>1. CASE b.owner[d] # Nobody
  BY <1>1 DEF EnsurePerson, Good
<1>2. CASE b.owner[d] = Nobody
  <2>1. /\ c.owner = [b.owner EXCEPT ![d] = d]
        /\ c.rowSeq = [b.rowSeq EXCEPT ![d] = 0]
        /\ c.persons = b.persons \cup {d}
        /\ c.created = [b.created EXCEPT ![d] = t]
        /\ c.key = [b.key EXCEPT ![d] = d]
        /\ c.ident = b.ident \ {d}
        /\ c.last = [b.last EXCEPT ![d] = 0]
        /\ c.seq = b.seq /\ c.epoch = b.epoch /\ c.pending = b.pending
    BY <1>2 DEF EnsurePerson, Good, Databases
  <2>2. c \in Databases
    <3>1. /\ [b.owner EXCEPT ![d] = d] \in [Ids -> Ids \cup {Nobody}]
          /\ [b.rowSeq EXCEPT ![d] = 0] \in [Ids -> Nat]
          /\ b.persons \cup {d} \in SUBSET Ids
          /\ [b.created EXCEPT ![d] = t] \in [Ids -> Nat]
          /\ [b.key EXCEPT ![d] = d] \in [Ids -> Ids]
          /\ b.ident \ {d} \in SUBSET Ids
          /\ [b.last EXCEPT ![d] = 0] \in [Ids -> Nat]
      BY DEF Good, Databases
    <3>2. c = [b EXCEPT !.owner = [b.owner EXCEPT ![d] = d],
                        !.rowSeq = [b.rowSeq EXCEPT ![d] = 0],
                        !.persons = b.persons \cup {d},
                        !.created = [b.created EXCEPT ![d] = t],
                        !.key = [b.key EXCEPT ![d] = d],
                        !.ident = b.ident \ {d},
                        !.last = [b.last EXCEPT ![d] = 0]]
      BY <1>2, Zenon DEF EnsurePerson
    <3> QED BY <3>1, <3>2, ZenonT(60) DEF Good, Databases
  <2>3. \A x \in Ids : c.owner[x] # Nobody => c.owner[x] \in c.persons
    BY <2>1 DEF Good, Databases
  <2>4. \A p \in c.persons : c.owner[p] = p
    BY <2>1 DEF Good, Databases
  <2>5. \A x \in Ids : c.rowSeq[x] <= c.seq
    BY <2>1 DEF Good, Databases
  <2>6. \A x \in Ids : c.owner[x] \notin {x, Nobody} => c.rowSeq[x] > 0
    BY <2>1 DEF Good, Databases
  <2>7. /\ c.owner[d] \in c.persons
        /\ \A x \in Ids : b.owner[x] # Nobody => c.owner[x] = b.owner[x]
    BY <1>2, <2>1 DEF Good, Databases
  <2>8. \A x \in Ids : c.owner[x] = Nobody => c.rowSeq[x] = 0
    BY <2>1, IdsAssumption DEF Good, Databases
  <2> QED BY <2>2, <2>3, <2>4, <2>5, <2>6, <2>7, <2>8 DEF Good
<1> QED BY <1>1, <1>2

\* Updating last_seen touches no row that identity resolution reads.
LEMMA TouchGood ==
    ASSUME NEW b, Good(b), NEW d \in Ids, b.owner[d] # Nobody, NEW t \in Nat
    PROVE  LET c == TouchLastSeen(b, d, t) IN
           Good(c) /\ c.owner = b.owner /\ c.persons = b.persons
<1> DEFINE p == b.owner[d]
<1>1. p \in Ids /\ b.last[p] \in Nat
  BY DEF Good, Databases
<1>2. Larger(b.last[p], t) \in Nat
  BY <1>1 DEF Larger
<1> QED BY <1>1, <1>2 DEF TouchLastSeen, Good, Databases

\* Marking a person identified touches no row that identity resolution reads.
LEMMA MarkGood ==
    ASSUME NEW b, Good(b), NEW d \in Ids, b.owner[d] # Nobody
    PROVE  Good(MarkIdentified(b, d))
BY DEF MarkIdentified, Good, Databases

\* Folding one existing person into another keeps a good database good: the
\* loser's ids, its own included, are repointed and stamped together.
LEMMA FoldGood ==
    ASSUME NEW b, Good(b), NEW w \in b.persons, NEW l \in b.persons, w # l
    PROVE  LET c == FoldInto(b, w, l) IN
           Good(c) /\ \A d \in Ids : b.owner[d] # Nobody => c.owner[d] # Nobody
<1> DEFINE c == FoldInto(b, w, l)
           older == b.created[l] < b.created[w]
<1>1. w \in Ids /\ l \in Ids /\ w # Nobody /\ b.seq \in Nat
  BY IdsAssumption DEF Good, Databases
<1>2. /\ c.owner = [d \in Ids |-> IF b.owner[d] = l THEN w ELSE b.owner[d]]
      /\ c.rowSeq = [d \in Ids |-> IF b.owner[d] = l THEN b.seq + 1 ELSE b.rowSeq[d]]
      /\ c.seq = b.seq + 1
      /\ c.persons = b.persons \ {l}
      /\ c.created = [b.created EXCEPT ![w] = IF older THEN b.created[l] ELSE @, ![l] = 0]
      /\ c.key = [b.key EXCEPT ![w] = IF older THEN b.key[l] ELSE @, ![l] = l]
      /\ c.last = [b.last EXCEPT ![w] = Larger(@, b.last[l]), ![l] = 0]
      /\ c.ident = (b.ident \cup {w}) \ {l}
      /\ c.epoch = b.epoch /\ c.pending = b.pending
  BY DEF FoldInto, Good, Databases
<1>3. c \in Databases
  <2> DEFINE o == [d \in Ids |-> IF b.owner[d] = l THEN w ELSE b.owner[d]]
             r == [d \in Ids |-> IF b.owner[d] = l THEN b.seq + 1 ELSE b.rowSeq[d]]
             oldest == [b.created EXCEPT ![w] = IF older THEN b.created[l] ELSE @, ![l] = 0]
             k == [b.key EXCEPT ![w] = IF older THEN b.key[l] ELSE @, ![l] = l]
             newest == [b.last EXCEPT ![w] = Larger(@, b.last[l]), ![l] = 0]
             known == (b.ident \cup {w}) \ {l}
             left == b.persons \ {l}
  <2>1. o \in [Ids -> Ids \cup {Nobody}]
    BY <1>1 DEF Good, Databases
  <2>2. r \in [Ids -> Nat] /\ b.seq + 1 \in Nat
    BY <1>1 DEF Good, Databases
  <2>3. oldest \in [Ids -> Nat]
    BY <1>1 DEF Good, Databases
  <2>4. k \in [Ids -> Ids]
    BY <1>1 DEF Good, Databases
  <2>5. newest \in [Ids -> Nat]
    BY <1>1 DEF Good, Databases, Larger
  <2>6. known \in SUBSET Ids /\ left \in SUBSET Ids
    BY <1>1 DEF Good, Databases
  <2>7. c = [b EXCEPT !.owner = o, !.rowSeq = r, !.seq = b.seq + 1, !.persons = left,
                      !.created = oldest, !.key = k, !.last = newest, !.ident = known]
    BY Zenon DEF FoldInto
  <2>8. b \in Databases
    BY DEF Good
  <2> HIDE DEF c, o, r, oldest, k, newest, known, left
  <2> QED BY <2>1, <2>2, <2>3, <2>4, <2>5, <2>6, <2>7, <2>8, ZenonT(60) DEF Databases
<1>4. \A d \in Ids : c.owner[d] # Nobody => c.owner[d] \in c.persons
  BY <1>1, <1>2 DEF Good, Databases
<1>5. \A p \in c.persons : c.owner[p] = p
  BY <1>1, <1>2 DEF Good, Databases
<1>6. \A d \in Ids : c.rowSeq[d] <= c.seq
  BY <1>1, <1>2 DEF Good, Databases
<1>7. \A d \in Ids : c.owner[d] \notin {d, Nobody} => c.rowSeq[d] > 0
  BY <1>1, <1>2 DEF Good, Databases
<1>8. \A d \in Ids : b.owner[d] # Nobody => c.owner[d] # Nobody
  BY <1>1, <1>2 DEF Good, Databases
<1>9. \A d \in Ids : c.owner[d] = Nobody => c.rowSeq[d] = 0
  BY <1>1, <1>2, IdsAssumption DEF Good, Databases
<1> QED BY <1>3, <1>4, <1>5, <1>6, <1>7, <1>8, <1>9 DEF Good

\* Whatever the guard decides, the database stays good and nobody loses its row.
LEMMA GuardedGood ==
    ASSUME NEW b, Good(b), NEW w \in b.persons, NEW l \in b.persons, NEW guard
    PROVE  LET c == GuardedFold(b, w, l, guard) IN
           Good(c) /\ \A d \in Ids : b.owner[d] # Nobody => c.owner[d] # Nobody
<1>1. CASE w = l
  BY <1>1 DEF GuardedFold
<1>2. CASE w # l
  <2>1. GuardedFold(b, w, l, guard) \in {b, FoldInto(b, w, l), FoldInto(b, l, w)}
    BY <1>2 DEF GuardedFold
  <2> QED BY <1>2, <2>1, FoldGood
<1> QED BY <1>1, <1>2

\* merge_persons keeps a good database good and leaves the winner's id a row.
LEMMA MergeGood ==
    ASSUME NEW b, Good(b), NEW x \in Ids, NEW y \in Ids, NEW t \in Nat, NEW guard
    PROVE  LET c == MergePersons(b, x, y, t, guard) IN
           Good(c) /\ \A d \in Ids : b.owner[d] # Nobody => c.owner[d] # Nobody
<1> DEFINE b1 == EnsurePerson(b, y, t)
           b2 == EnsurePerson(b1, x, t)
<1>1. /\ Good(b1) /\ b1.owner[y] \in b1.persons
      /\ \A d \in Ids : b.owner[d] # Nobody => b1.owner[d] = b.owner[d]
  BY EnsureGood
<1>2. b1.owner[y] # Nobody
  BY <1>1, IdsAssumption DEF Good, Databases
<1> HIDE DEF b1
<1>3. /\ Good(b2) /\ b2.owner[x] \in b2.persons
      /\ \A d \in Ids : b1.owner[d] # Nobody => b2.owner[d] = b1.owner[d]
  BY <1>1, EnsureGood
<1>4. b2.owner[y] \in b2.persons
  BY <1>2, <1>3 DEF Good
<1> HIDE DEF b2
<1>5. LET c == GuardedFold(b2, b2.owner[y], b2.owner[x], guard) IN
      Good(c) /\ \A d \in Ids : b2.owner[d] # Nobody => c.owner[d] # Nobody
  BY <1>3, <1>4, GuardedGood
<1>6. MergePersons(b, x, y, t, guard) = GuardedFold(b2, b2.owner[y], b2.owner[x], guard)
  BY DEF MergePersons, b1, b2
<1> QED BY <1>1, <1>3, <1>5, <1>6

\* Erasing a person removes all its rows at once and leaves the rest good.
LEMMA EraseGood ==
    ASSUME NEW b, Good(b), NEW p \in Ids
    PROVE  Good(ErasePerson(b, p))
<1> DEFINE c == ErasePerson(b, p)
           ids == {d \in Ids : b.owner[d] = p}
<1>1. /\ c.owner = [d \in Ids |-> IF d \in ids THEN Nobody ELSE b.owner[d]]
      /\ c.rowSeq = [d \in Ids |-> IF d \in ids THEN 0 ELSE b.rowSeq[d]]
      /\ c.persons = b.persons \ {p}
      /\ c.seq = b.seq + 1 /\ b.seq \in Nat
  BY DEF ErasePerson, Good, Databases
<1>2. c \in Databases
  <2>1. /\ [d \in Ids |-> IF d \in ids THEN Nobody ELSE b.owner[d]] \in [Ids -> Ids \cup {Nobody}]
        /\ [d \in Ids |-> IF d \in ids THEN 0 ELSE b.rowSeq[d]] \in [Ids -> Nat]
        /\ b.persons \ {p} \in SUBSET Ids
        /\ [b.created EXCEPT ![p] = 0] \in [Ids -> Nat]
        /\ [b.key EXCEPT ![p] = p] \in [Ids -> Ids]
        /\ [b.last EXCEPT ![p] = 0] \in [Ids -> Nat]
        /\ b.ident \ {p} \in SUBSET Ids
        /\ b.seq + 1 \in Nat /\ b.epoch + 1 \in Nat
        /\ b.pending \cup ids \in SUBSET Ids
    BY DEF Good, Databases
  <2>2. b \in Databases
    BY DEF Good
  <2> QED BY <2>1, <2>2, ZenonT(60) DEF ErasePerson, Databases
<1>3. \A d \in Ids : c.owner[d] # Nobody => c.owner[d] \in c.persons
  BY <1>1 DEF Good, Databases
<1>4. \A q \in c.persons : c.owner[q] = q
  BY <1>1 DEF Good, Databases
<1>5. \A d \in Ids : c.rowSeq[d] <= c.seq
  BY <1>1 DEF Good, Databases
<1>6. \A d \in Ids : c.owner[d] \notin {d, Nobody} => c.rowSeq[d] > 0
  BY <1>1 DEF Good, Databases
<1>7. \A d \in Ids : c.owner[d] = Nobody => c.rowSeq[d] = 0
  BY <1>1 DEF Good, Databases
<1> QED BY <1>2, <1>3, <1>4, <1>5, <1>6, <1>7 DEF Good

\* The first two statements of apply_identity: d has an owner afterwards.
LEMMA ArriveGood ==
    ASSUME NEW b, Good(b), NEW d \in Ids, NEW t \in Nat
    PROVE  Good(Arrive(b, d, t)) /\ Arrive(b, d, t).owner[d] # Nobody
<1> DEFINE c == EnsurePerson(b, d, t)
<1>1. Good(c) /\ c.owner[d] \in c.persons
  BY EnsureGood
<1>2. c.owner[d] # Nobody
  BY <1>1, IdsAssumption DEF Good, Databases
<1> HIDE DEF c
<1>3. Good(TouchLastSeen(c, d, t)) /\ TouchLastSeen(c, d, t).owner = c.owner
  BY <1>1, <1>2, TouchGood
<1> QED BY <1>2, <1>3 DEF Arrive, c

\* An identified event with or without a usable second id keeps the database
\* good, whichever guard its merge runs under.
LEMMA MergedGood ==
    ASSUME NEW b, Good(b), NEW d \in Ids, b.owner[d] # Nobody, NEW other \in Ids,
           NEW t \in Nat, NEW guard
    PROVE  LET m == IF other = d THEN b ELSE MergePersons(b, other, d, t, guard) IN
           Good(m) /\ m.owner[d] # Nobody
BY MergeGood

\* Every step of the projection keeps the database good.
LEMMA NextGood ==
    ASSUME Good(db), Next
    PROVE  Good(db')
<1>1. Times \subseteq Nat
  BY TimesAssumption
<1>2. ASSUME NEW d \in Ids, NEW t \in Times, ApplyPlain(d, t)
      PROVE  Good(db')
  BY <1>1, <1>2, ArriveGood DEF ApplyPlain
<1>3. ASSUME NEW d \in Ids, NEW other \in Ids, NEW t \in Times, ApplyIdentify(d, other, t)
      PROVE  Good(db')
  <2> DEFINE b == Arrive(db, d, t)
             m == IF other = d THEN b
                  ELSE MergePersons(b, other, d, t, "RefuseIdentifiedSource")
  <2>1. Good(b) /\ b.owner[d] # Nobody
    BY <1>1, ArriveGood
  <2>2. db' = MarkIdentified(m, d)
    BY <1>3 DEF ApplyIdentify
  <2> HIDE DEF b
  <2>3. Good(m) /\ m.owner[d] # Nobody
    BY <1>1, <2>1, MergedGood
  <2> HIDE DEF m
  <2> QED BY <2>2, <2>3, MarkGood
<1>4. ASSUME NEW d \in Ids, NEW other \in Ids, NEW t \in Times, ApplyAlias(d, other, t)
      PROVE  Good(db')
  <2> DEFINE b == Arrive(db, d, t)
             m == IF other = d THEN b
                  ELSE MergePersons(b, other, d, t, "RefuseBothIdentified")
  <2>1. Good(b) /\ b.owner[d] # Nobody
    BY <1>1, ArriveGood
  <2>2. db' = MarkIdentified(m, d)
    BY <1>4 DEF ApplyAlias
  <2> HIDE DEF b
  <2>3. Good(m) /\ m.owner[d] # Nobody
    BY <1>1, <2>1, MergedGood
  <2> HIDE DEF m
  <2> QED BY <2>2, <2>3, MarkGood
<1>5. ASSUME NEW d \in Ids, NEW other \in Ids, NEW t \in Times,
             ApplyMergeDangerously(d, other, t)
      PROVE  Good(db')
  <2> DEFINE b == Arrive(db, d, t)
  <2>1. Good(b) /\ b.owner[d] # Nobody
    BY <1>1, ArriveGood
  <2>2. db' = IF other = d THEN b ELSE MergePersons(b, other, d, t, "Always")
    BY <1>5 DEF ApplyMergeDangerously
  <2> HIDE DEF b
  <2> QED BY <1>1, <2>1, <2>2, MergedGood
<1>6. ASSUME NEW p \in Ids, Erase(p)
      PROVE  Good(db')
  BY <1>6, EraseGood DEF Erase
<1>7. ASSUME ClearPending
      PROVE  Good(db')
  BY <1>7 DEF ClearPending, Good, Databases
<1> QED BY <1>2, <1>3, <1>4, <1>5, <1>6, <1>7 DEF Next

\* The observation variables stay functions to natural numbers.
LEMMA NextObserved ==
    ASSUME born \in [Ids -> Nat], seen \in [Ids -> Nat], Next
    PROVE  born' \in [Ids -> Nat] /\ seen' \in [Ids -> Nat]
<1>1. Times \subseteq Nat
  BY TimesAssumption
<1>2. ASSUME NEW d \in Ids, NEW t \in Times, Observe(d, t)
      PROVE  born' \in [Ids -> Nat] /\ seen' \in [Ids -> Nat]
  BY <1>1, <1>2 DEF Observe, Larger
<1>3. ASSUME NEW p \in Ids, Erase(p)
      PROVE  born' \in [Ids -> Nat] /\ seen' \in [Ids -> Nat]
  BY <1>3 DEF Erase
<1>4. ASSUME ClearPending
      PROVE  born' \in [Ids -> Nat] /\ seen' \in [Ids -> Nat]
  BY <1>4 DEF ClearPending
<1> QED BY <1>2, <1>3, <1>4
        DEF Next, ApplyPlain, ApplyIdentify, ApplyAlias, ApplyMergeDangerously

\* Type correctness of the projection, for any ids, times and number of events:
\* the tables always have the columns and types of SCHEMA.
THEOREM TypeCorrect == Spec => []TypeOK
<1> DEFINE I == Good(db) /\ born \in [Ids -> Nat] /\ seen \in [Ids -> Nat]
<1>1. Init => I
  BY BlankGood DEF Init
<1>2. I /\ [Next]_vars => I'
  <2>1. CASE Next
    BY <2>1, NextGood, NextObserved
  <2>2. CASE UNCHANGED vars
    BY <2>2 DEF vars
  <2> QED BY <2>1, <2>2
<1>3. I => TypeOK
  BY DEF Good, TypeOK
<1> QED BY <1>1, <1>2, <1>3, PTL DEF Spec

\* Every id resolves to an existing person and every person's own id resolves
\* to it, so ensure_person's INSERT can never meet an existing row.
THEOREM PersonsOwnThemselvesAlways == Spec => []PersonsOwnThemselves
<1>1. Init => Good(db)
  BY BlankGood DEF Init
<1>2. Good(db) /\ [Next]_vars => Good(db)'
  BY NextGood DEF vars
<1>3. Good(db) => PersonsOwnThemselves
  BY DEF Good, PersonsOwnThemselves
<1> QED BY <1>1, <1>2, <1>3, PTL DEF Spec

\* Every override carries a sequence number already handed out: a reader of
\* the feed that asks for rows up to identity_state.seq misses none.
THEOREM OverridesStampedAlways == Spec => []OverridesStamped
<1>1. Init => Good(db)
  BY BlankGood DEF Init
<1>2. Good(db) /\ [Next]_vars => Good(db)'
  BY NextGood DEF vars
<1>3. Good(db) => OverridesStamped
  BY DEF Good, OverridesStamped
<1> QED BY <1>1, <1>2, <1>3, PTL DEF Spec

-----------------------------------------------------------------------------
(* What the persons row derives from its events.                            *)

\* The bucketing key of every person is its oldest id, and last_seen its newest
\* event, for ids first seen at bo and last seen at se.
Exact(b, bo, se) ==
    /\ bo \in [Ids -> Nat] /\ se \in [Ids -> Nat]
    /\ \A p \in b.persons :
         /\ b.owner[b.key[p]] = p
         /\ bo[b.key[p]] = b.created[p]
         /\ \A d \in Ids : b.owner[d] = p => b.created[p] <= bo[d]
    /\ \A p \in b.persons :
         /\ \A d \in Ids : b.owner[d] = p => se[d] <= b.last[p]
         /\ b.last[p] > 0 => \E d \in Ids : b.owner[d] = p /\ se[d] = b.last[p]

\* While an event of time t is applied, an id without a row is first seen at t, and
\* none of its events was counted.
Tracked(b, bo, se, t) ==
    /\ Good(b) /\ Exact(b, bo, se)
    /\ \A d \in Ids : b.owner[d] = Nobody => bo[d] = t /\ se[d] = 0

\* A new person starts with its own id as key, born now.
LEMMA EnsureTracked ==
    ASSUME NEW b, NEW bo, NEW se, NEW d \in Ids, NEW t \in Nat, Tracked(b, bo, se, t)
    PROVE  Tracked(EnsurePerson(b, d, t), bo, se, t)
<1> DEFINE c == EnsurePerson(b, d, t)
<1>1. CASE b.owner[d] # Nobody
  BY <1>1 DEF EnsurePerson
<1>2. CASE b.owner[d] = Nobody
  <2>1. /\ c.owner = [b.owner EXCEPT ![d] = d]
        /\ c.persons = b.persons \cup {d}
        /\ c.created = [b.created EXCEPT ![d] = t]
        /\ c.key = [b.key EXCEPT ![d] = d]
        /\ c.last = [b.last EXCEPT ![d] = 0]
    BY <1>2 DEF EnsurePerson, Tracked, Good, Databases
  <2>2. Good(c)
    BY EnsureGood DEF Tracked
  <2>3. /\ d \notin b.persons /\ bo[d] = t /\ se[d] = 0
        /\ \A x \in Ids : b.owner[x] # d
    BY <1>2, IdsAssumption DEF Tracked, Good, Databases
  <2>4. /\ b.owner \in [Ids -> Ids \cup {Nobody}] /\ b.persons \subseteq Ids
        /\ b.created \in [Ids -> Nat] /\ b.key \in [Ids -> Ids] /\ b.last \in [Ids -> Nat]
    BY DEF Tracked, Good, Databases
  <2>5. Exact(b, bo, se)
    BY DEF Tracked
  <2> HIDE DEF c
  <2>6. ASSUME NEW p \in c.persons
        PROVE  /\ c.owner[c.key[p]] = p
               /\ bo[c.key[p]] = c.created[p]
               /\ \A x \in Ids : c.owner[x] = p => c.created[p] <= bo[x]
    <3>1. CASE p = d
      BY <2>1, <2>3, <2>4, <3>1
    <3>2. CASE p # d
      <4>1. p \in b.persons /\ b.key[p] # d
        BY <1>2, <2>1, <2>4, <2>5, <3>2, IdsAssumption DEF Exact
      <4> QED BY <2>1, <2>3, <2>4, <2>5, <3>2, <4>1 DEF Exact
    <3> QED BY <3>1, <3>2
  <2>7. ASSUME NEW p \in c.persons
        PROVE  /\ \A x \in Ids : c.owner[x] = p => se[x] <= c.last[p]
               /\ c.last[p] > 0 => \E x \in Ids : c.owner[x] = p /\ se[x] = c.last[p]
    <3>1. CASE p = d
      BY <2>1, <2>3, <2>4, <3>1
    <3>2. CASE p # d
      <4>1. p \in b.persons /\ c.last[p] = b.last[p]
        BY <2>1, <2>4, <3>2
      <4>2. \A x \in Ids : c.owner[x] = p <=> b.owner[x] = p
        BY <1>2, <2>1, <2>4, <3>2, IdsAssumption, <4>1
      <4> QED BY <2>5, <4>1, <4>2 DEF Exact
    <3> QED BY <3>1, <3>2
  <2>8. Exact(c, bo, se)
    BY <2>5, <2>6, <2>7 DEF Exact
  <2>9. \A x \in Ids : c.owner[x] = Nobody => bo[x] = t /\ se[x] = 0
    BY <2>1, <2>4, IdsAssumption DEF Tracked
  <2> QED BY <2>2, <2>8, <2>9 DEF Tracked, c
<1> QED BY <1>1, <1>2

\* Updating last_seen with the event's time accounts for the event.
LEMMA TouchTracked ==
    ASSUME NEW b, NEW bo, NEW se, NEW d \in Ids, NEW t \in Nat, Tracked(b, bo, se, t),
           b.owner[d] # Nobody
    PROVE  Tracked(TouchLastSeen(b, d, t), bo, [se EXCEPT ![d] = Larger(@, t)], t)
<1> DEFINE c == TouchLastSeen(b, d, t)
           p == b.owner[d]
           ce == [se EXCEPT ![d] = Larger(@, t)]
<1>1. p \in Ids /\ p \in b.persons /\ Good(b) /\ Exact(b, bo, se)
  BY DEF Tracked, Good, Databases
<1>2. /\ b.owner \in [Ids -> Ids \cup {Nobody}] /\ b.persons \subseteq Ids
      /\ b.last \in [Ids -> Nat] /\ se \in [Ids -> Nat] /\ bo \in [Ids -> Nat]
  BY <1>1 DEF Good, Databases, Exact
<1>3. /\ c.owner = b.owner /\ c.persons = b.persons /\ c.created = b.created /\ c.key = b.key
      /\ c.last = [b.last EXCEPT ![p] = Larger(@, t)]
  BY <1>1 DEF TouchLastSeen, Good, Databases
<1>4. Good(c)
  BY <1>1, TouchGood
<1> HIDE DEF c, p
<1>5. ce \in [Ids -> Nat]
  BY <1>2 DEF Larger
<1>6. ASSUME NEW q \in b.persons
      PROVE  /\ \A x \in Ids : b.owner[x] = q => ce[x] <= c.last[q]
             /\ c.last[q] > 0 => \E x \in Ids : b.owner[x] = q /\ ce[x] = c.last[q]
  <2>1. CASE q = p
    <3>1. c.last[q] = Larger(b.last[p], t) /\ ce[d] = Larger(se[d], t) /\ b.owner[d] = q
          /\ \A x \in Ids : x # d => ce[x] = se[x]
      BY <1>1, <1>2, <1>3, <2>1 DEF p
    <3>2. /\ \A x \in Ids : b.owner[x] = q => se[x] <= b.last[p]
          /\ b.last[p] > 0 => \E x \in Ids : b.owner[x] = q /\ se[x] = b.last[p]
      BY <1>1, <2>1 DEF Exact
    <3>3. \A x \in Ids : b.owner[x] = q => ce[x] <= c.last[q]
      BY <1>1, <1>2, <3>1, <3>2 DEF Larger
    <3>4. CASE b.last[p] < t
      <4>1. ce[d] = c.last[q]
        BY <1>1, <1>2, <3>1, <3>2, <3>4 DEF Larger
      <4> QED BY <3>1, <3>3, <4>1
    <3>5. CASE ~(b.last[p] < t)
      <4>1. c.last[q] = b.last[p]
        BY <1>1, <1>2, <3>1, <3>5 DEF Larger
      <4>2. ASSUME c.last[q] > 0 PROVE \E x \in Ids : b.owner[x] = q /\ ce[x] = c.last[q]
        <5>1. PICK x \in Ids : b.owner[x] = q /\ se[x] = b.last[p]
          BY <3>2, <4>1, <4>2
        <5>2. ce[x] = c.last[q]
          BY <1>1, <1>2, <3>1, <3>5, <4>1, <5>1 DEF Larger
        <5> QED BY <5>1, <5>2
      <4> QED BY <3>3, <4>2
    <3> QED BY <3>4, <3>5
  <2>2. CASE q # p
    <3>1. c.last[q] = b.last[q] /\ \A x \in Ids : b.owner[x] = q => ce[x] = se[x]
      BY <1>1, <1>2, <1>3, <2>2 DEF p
    <3> QED BY <1>1, <3>1 DEF Exact
  <2> QED BY <2>1, <2>2
<1>7. Exact(c, bo, ce)
  BY <1>1, <1>3, <1>5, <1>6 DEF Exact
<1>8. \A x \in Ids : c.owner[x] = Nobody => bo[x] = t /\ ce[x] = 0
  BY <1>2, <1>3 DEF Tracked
<1> QED BY <1>4, <1>7, <1>8 DEF Tracked, c

\* Marking a person identified changes none of this.
LEMMA MarkTracked ==
    ASSUME NEW b, NEW bo, NEW se, NEW d \in Ids, NEW t, Tracked(b, bo, se, t),
           b.owner[d] # Nobody
    PROVE  Tracked(MarkIdentified(b, d), bo, se, t)
<1> DEFINE c == MarkIdentified(b, d)
<1>1. Good(c)
  BY MarkGood DEF Tracked
<1>2. /\ c.owner = b.owner /\ c.persons = b.persons /\ c.created = b.created /\ c.key = b.key
      /\ c.last = b.last
  BY DEF MarkIdentified, Tracked, Good, Databases
<1> HIDE DEF c
<1> QED BY <1>1, <1>2 DEF Tracked, Exact, c

\* A fold gives the winner the older of the two keys and the newer last_seen.
LEMMA FoldTracked ==
    ASSUME NEW b, NEW bo, NEW se, NEW t, Tracked(b, bo, se, t),
           NEW w \in b.persons, NEW l \in b.persons, w # l
    PROVE  Tracked(FoldInto(b, w, l), bo, se, t)
<1> DEFINE c == FoldInto(b, w, l)
           older == b.created[l] < b.created[w]
<1>1. Good(b) /\ Exact(b, bo, se) /\ w \in Ids /\ l \in Ids /\ w # Nobody /\ Good(c)
  BY FoldGood, IdsAssumption DEF Tracked, Good, Databases
<1>2. /\ b.owner \in [Ids -> Ids \cup {Nobody}] /\ b.persons \subseteq Ids
      /\ b.created \in [Ids -> Nat] /\ b.key \in [Ids -> Ids] /\ b.last \in [Ids -> Nat]
      /\ se \in [Ids -> Nat] /\ bo \in [Ids -> Nat]
  BY <1>1 DEF Good, Databases, Exact
<1>3. /\ c.owner = [d \in Ids |-> IF b.owner[d] = l THEN w ELSE b.owner[d]]
      /\ c.persons = b.persons \ {l}
      /\ c.created = [b.created EXCEPT ![w] = IF older THEN b.created[l] ELSE @, ![l] = 0]
      /\ c.key = [b.key EXCEPT ![w] = IF older THEN b.key[l] ELSE @, ![l] = l]
      /\ c.last = [b.last EXCEPT ![w] = Larger(@, b.last[l]), ![l] = 0]
  BY DEF FoldInto, Tracked, Good, Databases
<1> HIDE DEF c
<1>4. /\ c.created[w] = IF older THEN b.created[l] ELSE b.created[w]
      /\ c.key[w] = IF older THEN b.key[l] ELSE b.key[w]
      /\ c.last[w] = Larger(b.last[w], b.last[l])
      /\ \A q \in b.persons \ {w, l} : /\ c.created[q] = b.created[q] /\ c.key[q] = b.key[q]
                                       /\ c.last[q] = b.last[q]
  BY <1>1, <1>2, <1>3
<1>5. ASSUME NEW p \in c.persons
      PROVE  /\ c.owner[c.key[p]] = p
             /\ bo[c.key[p]] = c.created[p]
             /\ \A x \in Ids : c.owner[x] = p => c.created[p] <= bo[x]
  <2>1. CASE p = w
    BY <1>1, <1>2, <1>3, <1>4, <2>1 DEF Exact
  <2>2. CASE p # w
    BY <1>1, <1>2, <1>3, <1>4, <2>2 DEF Exact
  <2> QED BY <2>1, <2>2
<1>6. ASSUME NEW p \in c.persons
      PROVE  /\ \A x \in Ids : c.owner[x] = p => se[x] <= c.last[p]
             /\ c.last[p] > 0 => \E x \in Ids : c.owner[x] = p /\ se[x] = c.last[p]
  <2>1. CASE p = w
    <3>1. /\ c.last[p] \in {b.last[w], b.last[l]} /\ b.last[w] <= c.last[p]
          /\ b.last[l] <= c.last[p]
      BY <1>1, <1>2, <1>4, <2>1 DEF Larger
    <3>2. \A x \in Ids : c.owner[x] = p <=> b.owner[x] \in {w, l}
      BY <1>1, <1>2, <1>3, <2>1
    <3>3. \A x \in Ids : c.owner[x] = p => se[x] <= c.last[p]
      BY <1>1, <1>2, <3>1, <3>2 DEF Exact
    <3>4. ASSUME c.last[p] > 0 PROVE \E x \in Ids : c.owner[x] = p /\ se[x] = c.last[p]
      BY <1>1, <1>2, <3>1, <3>2, <3>4 DEF Exact
    <3> QED BY <3>3, <3>4
  <2>2. CASE p # w
    <3>1. p \in b.persons /\ c.last[p] = b.last[p]
      BY <1>3, <1>4, <2>2
    <3>2. \A x \in Ids : c.owner[x] = p <=> b.owner[x] = p
      BY <1>1, <1>2, <1>3, <2>2
    <3> QED BY <1>1, <3>1, <3>2 DEF Exact
  <2> QED BY <2>1, <2>2
<1>7. Exact(c, bo, se)
  BY <1>1, <1>5, <1>6 DEF Exact
<1>8. \A x \in Ids : c.owner[x] = Nobody => bo[x] = t /\ se[x] = 0
  BY <1>1, <1>2, <1>3 DEF Tracked
<1> QED BY <1>1, <1>7, <1>8 DEF Tracked, c

\* So does whatever the guard decides.
LEMMA GuardedTracked ==
    ASSUME NEW b, NEW bo, NEW se, NEW t, Tracked(b, bo, se, t),
           NEW w \in b.persons, NEW l \in b.persons, NEW guard
    PROVE  Tracked(GuardedFold(b, w, l, guard), bo, se, t)
<1>1. CASE w = l
  BY <1>1 DEF GuardedFold
<1>2. CASE w # l
  <2>1. GuardedFold(b, w, l, guard) \in {b, FoldInto(b, w, l), FoldInto(b, l, w)}
    BY <1>2 DEF GuardedFold
  <2> QED BY <1>2, <2>1, FoldTracked
<1> QED BY <1>1, <1>2

\* A whole merge keeps the rows exact.
LEMMA MergeTracked ==
    ASSUME NEW b, NEW bo, NEW se, NEW x \in Ids, NEW y \in Ids, NEW t \in Nat, NEW guard,
           Tracked(b, bo, se, t)
    PROVE  Tracked(MergePersons(b, x, y, t, guard), bo, se, t)
<1> DEFINE b1 == EnsurePerson(b, y, t)
           b2 == EnsurePerson(b1, x, t)
<1>1. Tracked(b1, bo, se, t)
  BY EnsureTracked
<1>2. b1.owner[y] \in b1.persons /\ Good(b1)
  BY EnsureGood DEF Tracked
<1> HIDE DEF b1
<1>2a. b1.owner[y] # Nobody
  BY <1>2, IdsAssumption DEF Good, Databases
<1>3. Tracked(b2, bo, se, t)
  BY <1>1, EnsureTracked
<1>4. b2.owner[x] \in b2.persons /\ b2.owner[y] = b1.owner[y]
  BY <1>2, <1>2a, EnsureGood
<1>5. b2.owner[y] \in b2.persons
  BY <1>2, <1>2a, <1>3, <1>4 DEF Tracked, Good
<1> HIDE DEF b2
<1>6. MergePersons(b, x, y, t, guard) = GuardedFold(b2, b2.owner[y], b2.owner[x], guard)
  BY DEF MergePersons, b1, b2
<1> QED BY <1>3, <1>4, <1>5, <1>6, GuardedTracked

\* The state invariant: exact rows, and no event counted for an id without a row.
RowsExact ==
    /\ Good(db) /\ Exact(db, born, seen)
    /\ \A d \in Ids : db.owner[d] = Nobody => seen[d] = 0

\* What the observer's functions become while an event of time t is applied.
BornAt(t) == [x \in Ids |-> IF db.owner[x] = Nobody THEN t ELSE born[x]]
SeenAt(d, t) == [seen EXCEPT ![d] = Larger(@, t)]

\* Reading the event's first two statements.
LEMMA ArriveTracked ==
    ASSUME RowsExact, NEW d \in Ids, NEW t \in Nat
    PROVE  Tracked(Arrive(db, d, t), BornAt(t), SeenAt(d, t), t)
<1> DEFINE c == EnsurePerson(db, d, t)
           bo == BornAt(t)
<1>1. /\ bo \in [Ids -> Nat]
      /\ \A x \in Ids : db.owner[x] # Nobody => bo[x] = born[x]
      /\ \A x \in Ids : db.owner[x] = Nobody => bo[x] = t
  BY DEF RowsExact, Exact, BornAt
<1>2. \A p \in db.persons : db.owner[p] = p /\ p \in Ids /\ db.key[p] \in Ids /\ p # Nobody
  BY IdsAssumption DEF RowsExact, Good, Databases
<1> HIDE DEF bo
<1>3. Tracked(db, bo, seen, t)
  BY <1>1, <1>2 DEF RowsExact, Exact, Tracked
<1>4. Tracked(c, bo, seen, t)
  BY <1>3, EnsureTracked
<1>5. c.owner[d] # Nobody
  BY EnsureGood, IdsAssumption DEF RowsExact, Good, Databases
<1> HIDE DEF c
<1> QED BY <1>4, <1>5, TouchTracked DEF Arrive, c, bo, SeenAt

\* An event that leaves a tracked database leaves exact rows.
LEMMA EventExact ==
    ASSUME RowsExact, NEW d \in Ids, NEW t \in Nat, Observe(d, t),
           Tracked(db', BornAt(t), SeenAt(d, t), t)
    PROVE  RowsExact'
<1> DEFINE bo == BornAt(t)
<1>1. seen' = SeenAt(d, t)
  BY DEF Observe, SeenAt
<1>2. /\ born' \in [Ids -> Nat]
      /\ \A x \in Ids : db'.owner[x] # Nobody => born'[x] = bo[x]
  BY DEF Observe, BornAt, RowsExact, Exact
<1>3. \A p \in db'.persons : db'.owner[p] = p /\ p \in Ids /\ db'.key[p] \in Ids /\ p # Nobody
  BY IdsAssumption DEF Tracked, Good, Databases
<1> HIDE DEF bo
<1>4. Tracked(db', bo, seen', t)
  BY <1>1 DEF bo
<1>5. Exact(db', born', seen')
  BY <1>2, <1>3, <1>4 DEF Tracked, Exact
<1> QED BY <1>4, <1>5 DEF RowsExact, Tracked

\* Erasing a person leaves the rows of the others as they were.
LEMMA EraseExact ==
    ASSUME RowsExact, NEW p \in Ids, Erase(p)
    PROVE  RowsExact'
<1> DEFINE ids == {d \in Ids : db.owner[d] = p}
<1>1. Good(db') /\ Good(db) /\ Exact(db, born, seen)
  BY EraseGood DEF Erase, RowsExact
<1>2. /\ db.owner \in [Ids -> Ids \cup {Nobody}] /\ db.persons \subseteq Ids
      /\ db.created \in [Ids -> Nat] /\ db.key \in [Ids -> Ids] /\ db.last \in [Ids -> Nat]
      /\ seen \in [Ids -> Nat] /\ born \in [Ids -> Nat]
  BY <1>1 DEF Good, Databases, Exact
<1>3. /\ db'.owner = [d \in Ids |-> IF d \in ids THEN Nobody ELSE db.owner[d]]
      /\ db'.persons = db.persons \ {p}
      /\ db'.created = [db.created EXCEPT ![p] = 0]
      /\ db'.key = [db.key EXCEPT ![p] = p]
      /\ db'.last = [db.last EXCEPT ![p] = 0]
  BY <1>1 DEF Erase, ErasePerson, Good, Databases
<1>4. /\ born' = [d \in Ids |-> IF db'.owner[d] = Nobody THEN 0 ELSE born[d]]
      /\ seen' = [d \in Ids |-> IF db'.owner[d] = Nobody THEN 0 ELSE seen[d]]
  BY DEF Erase
<1>5. ASSUME NEW q \in db'.persons
      PROVE  /\ q \in db.persons /\ db'.created[q] = db.created[q] /\ db'.key[q] = db.key[q]
             /\ db'.last[q] = db.last[q] /\ q # Nobody
             /\ \A x \in Ids : db'.owner[x] = q <=> db.owner[x] = q
             /\ \A x \in Ids : db.owner[x] = q => born'[x] = born[x] /\ seen'[x] = seen[x]
  <2>1. q \in Ids /\ q # p /\ q # Nobody /\ q \in db.persons
    BY <1>2, <1>3, IdsAssumption
  <2>2. \A x \in Ids : db'.owner[x] = q <=> db.owner[x] = q
    BY <1>2, <1>3, <2>1
  <2> QED BY <1>2, <1>3, <1>4, <2>1, <2>2
<1>6. born' \in [Ids -> Nat] /\ seen' \in [Ids -> Nat]
  BY <1>2, <1>4
<1>7. Exact(db', born', seen')
  BY <1>1, <1>2, <1>5, <1>6 DEF Exact
<1> QED BY <1>1, <1>4, <1>7 DEF RowsExact

\* Every step keeps the rows exact.
LEMMA NextExact ==
    ASSUME RowsExact, Next
    PROVE  RowsExact'
<1>1. Times \subseteq Nat
  BY TimesAssumption
<1>2. ASSUME NEW d \in Ids, NEW t \in Times, Observe(d, t), NEW other \in Ids, NEW guard,
             LET b == Arrive(db, d, t)
                 m == IF other = d THEN b ELSE MergePersons(b, other, d, t, guard)
             IN db' \in {m, MarkIdentified(m, d)}
      PROVE  RowsExact'
  <2> DEFINE b == Arrive(db, d, t)
             m == IF other = d THEN b ELSE MergePersons(b, other, d, t, guard)
             bo == BornAt(t)
             se == SeenAt(d, t)
  <2>1. Tracked(b, bo, se, t) /\ t \in Nat
    BY <1>1, ArriveTracked
  <2>2. Good(b) /\ b.owner[d] # Nobody
    BY <1>1, ArriveGood DEF RowsExact
  <2>3. db' \in {m, MarkIdentified(m, d)}
    BY <1>2
  <2> HIDE DEF b, bo, se
  <2>4. Tracked(m, bo, se, t)
    BY <2>1, MergeTracked
  <2>5. m.owner[d] # Nobody
    BY <2>1, <2>2, MergedGood
  <2> HIDE DEF m
  <2>6. Tracked(db', bo, se, t)
    BY <2>3, <2>4, <2>5, MarkTracked
  <2> QED BY <1>2, <2>1, <2>6, EventExact DEF bo, se
<1>3. ASSUME NEW d \in Ids, NEW t \in Times, ApplyPlain(d, t)
      PROVE  RowsExact'
  BY <1>2, <1>3 DEF ApplyPlain
<1>4. ASSUME NEW d \in Ids, NEW other \in Ids, NEW t \in Times, ApplyIdentify(d, other, t)
      PROVE  RowsExact'
  BY <1>2, <1>4 DEF ApplyIdentify
<1>5. ASSUME NEW d \in Ids, NEW other \in Ids, NEW t \in Times, ApplyAlias(d, other, t)
      PROVE  RowsExact'
  BY <1>2, <1>5 DEF ApplyAlias
<1>6. ASSUME NEW d \in Ids, NEW other \in Ids, NEW t \in Times,
             ApplyMergeDangerously(d, other, t)
      PROVE  RowsExact'
  BY <1>2, <1>6 DEF ApplyMergeDangerously
<1>7. ASSUME ClearPending
      PROVE  RowsExact'
  <2>1. Good(db')
    BY <1>7 DEF ClearPending, RowsExact, Good, Databases
  <2>2. /\ db'.owner = db.owner /\ db'.persons = db.persons /\ db'.created = db.created
        /\ db'.key = db.key /\ db'.last = db.last /\ born' = born /\ seen' = seen
    BY <1>7 DEF ClearPending, RowsExact, Good, Databases
  <2> QED BY <2>1, <2>2 DEF RowsExact, Exact
<1> QED BY <1>3, <1>4, <1>5, <1>6, <1>7, EraseExact DEF Next

\* Through every order of events, merges and erasures the bucketing key of a person
\* is its oldest id and last_seen its newest event (merge_persons, ensure_person).
THEOREM PersonRowExactAlways == Spec => []PersonRowExact
<1>1. Init => RowsExact
  BY BlankGood, IdsAssumption DEF Init, RowsExact, Exact, Blank
<1>2. RowsExact /\ [Next]_vars => RowsExact'
  <2>1. CASE Next
    BY <2>1, NextExact
  <2>2. CASE UNCHANGED vars
    BY <2>2 DEF vars, RowsExact
  <2> QED BY <2>1, <2>2
<1>3. RowsExact => PersonRowExact
  BY DEF RowsExact, Exact, PersonRowExact, BucketingKeyIsOldest, LastSeenIsNewest
<1> QED BY <1>1, <1>2, <1>3, PTL DEF Spec

-----------------------------------------------------------------------------
(* Persons who logged in stay apart.                                        *)

\* No identified person of b is missing, or no longer identified, in c.
Kept(b, c) == b.persons \cap b.ident \subseteq c.persons \cap c.ident

\* Giving an id a person of its own removes nobody.
LEMMA EnsureKeeps ==
    ASSUME NEW b, Good(b), NEW d \in Ids, NEW t \in Nat
    PROVE  Kept(b, EnsurePerson(b, d, t))
<1> DEFINE c == EnsurePerson(b, d, t)
<1>1. CASE b.owner[d] # Nobody
  BY <1>1 DEF EnsurePerson, Kept
<1>2. CASE b.owner[d] = Nobody
  <2>1. c.persons = b.persons \cup {d} /\ c.ident = b.ident \ {d}
    BY <1>2 DEF EnsurePerson, Good, Databases
  <2>2. d \notin b.persons
    BY <1>2, IdsAssumption DEF Good, Databases
  <2> HIDE DEF c
  <2> QED BY <2>1, <2>2 DEF Kept, c
<1> QED BY <1>1, <1>2

\* Under either guard of $identify and $create_alias only an anonymous person goes.
LEMMA GuardKeeps ==
    ASSUME NEW b, Good(b), NEW w \in b.persons, NEW l \in b.persons,
           NEW guard \in {"RefuseIdentifiedSource", "RefuseBothIdentified"}
    PROVE  Kept(b, GuardedFold(b, w, l, guard))
<1>1. ASSUME NEW x \in b.persons, NEW y \in b.persons, x # y, y \notin b.ident
      PROVE  Kept(b, FoldInto(b, x, y))
  <2> DEFINE c == FoldInto(b, x, y)
  <2>1. c.persons = b.persons \ {y} /\ c.ident = (b.ident \cup {x}) \ {y}
    BY DEF FoldInto, Good, Databases
  <2> HIDE DEF c
  <2> QED BY <1>1, <2>1 DEF Kept, c
<1>2. Kept(b, b)
  BY DEF Kept
<1>3. CASE w = l
  BY <1>2, <1>3 DEF GuardedFold
<1>4. CASE w # l /\ guard = "RefuseIdentifiedSource"
  <2>1. GuardedFold(b, w, l, guard) = IF l \in b.ident THEN b ELSE FoldInto(b, w, l)
    BY <1>4 DEF GuardedFold
  <2> QED BY <1>1, <1>2, <1>4, <2>1
<1>5. CASE w # l /\ guard = "RefuseBothIdentified"
  <2>1. GuardedFold(b, w, l, guard) =
          IF l \in b.ident THEN IF w \in b.ident THEN b ELSE FoldInto(b, l, w)
          ELSE FoldInto(b, w, l)
    BY <1>5 DEF GuardedFold
  <2> QED BY <1>1, <1>2, <1>5, <2>1
<1> QED BY <1>3, <1>4, <1>5

\* So a whole guarded merge removes no identified person.
LEMMA MergeKeeps ==
    ASSUME NEW b, Good(b), NEW x \in Ids, NEW y \in Ids, NEW t \in Nat,
           NEW guard \in {"RefuseIdentifiedSource", "RefuseBothIdentified"}
    PROVE  Kept(b, MergePersons(b, x, y, t, guard))
<1> DEFINE b1 == EnsurePerson(b, y, t)
           b2 == EnsurePerson(b1, x, t)
           c == GuardedFold(b2, b2.owner[y], b2.owner[x], guard)
<1>1. b1.owner[y] \in b1.persons /\ Good(b1) /\ Kept(b, b1)
  BY EnsureGood, EnsureKeeps
<1> HIDE DEF b1
<1>2. b1.owner[y] # Nobody
  BY <1>1, IdsAssumption DEF Good, Databases
<1>3. /\ b2.owner[x] \in b2.persons /\ b2.owner[y] = b1.owner[y] /\ Good(b2)
      /\ Kept(b1, b2)
  BY <1>1, <1>2, EnsureGood, EnsureKeeps
<1>4. b2.owner[y] \in b2.persons
  BY <1>2, <1>3 DEF Good
<1> HIDE DEF b2
<1>5. Kept(b2, c)
  BY <1>3, <1>4, GuardKeeps
<1>6. MergePersons(b, x, y, t, guard) = c
  BY DEF MergePersons, b1, b2
<1> HIDE DEF c
<1> QED BY <1>1, <1>3, <1>5, <1>6 DEF Kept

\* Two people who logged in stay apart: no $identify and no $create_alias removes an
\* identified person (MergeGuard), whatever happened before.
THEOREM IdentifiedNeverFoldedAlways == Spec => IdentifiedNeverFolded
<1>1. Init => Good(db)
  BY BlankGood DEF Init
<1>2. Good(db) /\ [Next]_vars => Good(db)'
  BY NextGood DEF vars
<1>3. ASSUME Good(db), NEW d \in Ids, NEW other \in Ids, NEW t \in Times,
             ApplyIdentify(d, other, t) \/ ApplyAlias(d, other, t)
      PROVE  db.persons \cap db.ident \subseteq db'.persons
  <2> DEFINE b == Arrive(db, d, t)
             m(guard) == IF other = d THEN b ELSE MergePersons(b, other, d, t, guard)
  <2>1. t \in Nat
    BY TimesAssumption
  <2>2. PICK guard \in {"RefuseIdentifiedSource", "RefuseBothIdentified"} :
          db' = MarkIdentified(m(guard), d)
    BY <1>3 DEF ApplyIdentify, ApplyAlias
  <2>3. Good(b) /\ b.owner[d] # Nobody
    BY <1>3, <2>1, ArriveGood
  <2>4. Kept(db, b)
    <3> DEFINE e == EnsurePerson(db, d, t)
    <3>1. Kept(db, e) /\ Good(e)
      BY <1>3, <2>1, EnsureKeeps, EnsureGood
    <3>2. b = TouchLastSeen(e, d, t)
      BY DEF Arrive
    <3> HIDE DEF e, b
    <3>3. b.persons = e.persons /\ b.ident = e.ident
      BY <3>1, <3>2 DEF TouchLastSeen, Good, Databases
    <3> QED BY <3>1, <3>3 DEF Kept
  <2> HIDE DEF b
  <2> DEFINE n == m(guard)
  <2>5. Kept(b, n)
    <3>1. CASE other = d
      BY <3>1 DEF Kept
    <3>2. CASE other # d
      BY <2>1, <2>3, <3>2, MergeKeeps
    <3> QED BY <3>1, <3>2
  <2>6. Good(n) /\ n.owner[d] # Nobody
    BY <2>1, <2>3, MergedGood
  <2> HIDE DEF n
  <2>7. db' = MarkIdentified(n, d)
    BY <2>2 DEF n
  <2>8. db'.persons = n.persons
    BY <2>6, <2>7 DEF MarkIdentified, Good, Databases
  <2> QED BY <2>4, <2>5, <2>8 DEF Kept
<1>4. Good(db) /\ [Next]_vars =>
        [(\E d, other \in Ids, t \in Times :
            ApplyIdentify(d, other, t) \/ ApplyAlias(d, other, t))
          => db.persons \cap db.ident \subseteq db'.persons]_vars
  BY <1>3
<1> QED BY <1>1, <1>2, <1>4, PTL DEF Spec, IdentifiedNeverFolded

-----------------------------------------------------------------------------
(* The query engine's mirror.                                               *)

\* The override row of d: its person, or Nobody when it is its own or unknown.
Override(b, d) == IF b.owner[d] = d THEN Nobody ELSE b.owner[d]

\* What the batch in hand makes of the mirror.
Applied == Overlay(IF mepoch # batch.epoch THEN NoOverrides ELSE mirror, batch.changes)

\* The mirror holds the override of every id stamped up to its own version.
MirrorOK ==
    /\ mepoch \in Nat \cup {-1} /\ mseq \in Nat /\ mirror \in [Ids -> Ids \cup {Nobody}]
    /\ mseq <= db.seq
    /\ mepoch = db.epoch =>
         \A d \in Ids : db.rowSeq[d] <= mseq => mirror[d] = Override(db, d)

\* A record with the fields of OverrideBatch.
IsBatch(b) == b = [epoch |-> b.epoch, top |-> b.top, last |-> b.last, changes |-> b.changes,
                   more |-> b.more]

\* So does the mirror with the batch applied, up to the batch's version, unless an
\* erasure came between; between the second and the third statement no row is
\* stamped after the mirror's version and before the merge being fetched.
BatchOK ==
    /\ spc \in {"idle", "rows", "rest", "apply"}
    /\ IsBatch(batch)
    /\ DOMAIN batch.changes \subseteq Ids
    /\ \A d \in DOMAIN batch.changes : batch.changes[d] \in Ids
    /\ batch.epoch \in Nat /\ batch.top \in Nat /\ batch.last \in Nat
    /\ batch.epoch <= db.epoch /\ batch.top <= db.seq /\ batch.last <= db.seq
    /\ spc = "rest" /\ batch.epoch = db.epoch =>
         \A d \in Ids : db.rowSeq[d] <= mseq \/ db.rowSeq[d] >= batch.last
    /\ spc = "apply" /\ batch.epoch = db.epoch /\ (mepoch = batch.epoch \/ mseq = 0) =>
         \A d \in Ids : db.rowSeq[d] <= batch.last => Applied[d] = Override(db, d)

FeedInv == Good(db) /\ mepoch <= db.epoch /\ MirrorOK /\ BatchOK

\* What a transaction may do to the overrides without erasing anybody: each id
\* keeps its override and its stamp, or gets a stamp no reader has seen.
Later(b, c) ==
    /\ c.epoch = b.epoch /\ c.seq >= b.seq
    /\ \A d \in Ids : \/ c.rowSeq[d] > b.seq
                      \/ c.rowSeq[d] = b.rowSeq[d] /\ Override(c, d) = Override(b, d)

\* One step after another.
LEMMA LaterTransitive ==
    ASSUME NEW a, NEW b, NEW c, Good(a), Good(b), Good(c), Later(a, b), Later(b, c)
    PROVE  Later(a, c)
<1>1. /\ a.seq \in Nat /\ b.seq \in Nat /\ c.seq \in Nat
      /\ \A d \in Ids : a.rowSeq[d] \in Nat /\ b.rowSeq[d] \in Nat /\ c.rowSeq[d] \in Nat
  BY DEF Good, Databases
<1> QED BY <1>1 DEF Later

\* A database is later than itself.
LEMMA LaterReflexive ==
    ASSUME NEW b, Good(b)
    PROVE  Later(b, b)
BY DEF Later, Good, Databases

\* A change that touches no owner and no stamp.
LEMMA LaterSame ==
    ASSUME NEW b, NEW c, Good(b), c.owner = b.owner, c.rowSeq = b.rowSeq, c.seq = b.seq,
           c.epoch = b.epoch
    PROVE  Later(b, c)
BY DEF Later, Good, Databases, Override

\* A new row has no override, as it had before it existed.
LEMMA EnsureLater ==
    ASSUME NEW b, Good(b), NEW d \in Ids, NEW t \in Nat
    PROVE  Later(b, EnsurePerson(b, d, t))
<1> DEFINE c == EnsurePerson(b, d, t)
<1>1. CASE b.owner[d] # Nobody
  BY <1>1, LaterReflexive DEF EnsurePerson
<1>2. CASE b.owner[d] = Nobody
  <2>1. /\ c.owner = [b.owner EXCEPT ![d] = d]
        /\ c.rowSeq = [b.rowSeq EXCEPT ![d] = 0]
        /\ c.seq = b.seq /\ c.epoch = b.epoch
    BY <1>2 DEF EnsurePerson, Good, Databases
  <2>2. /\ b.owner \in [Ids -> Ids \cup {Nobody}] /\ b.rowSeq \in [Ids -> Nat] /\ b.seq \in Nat
        /\ b.rowSeq[d] = 0 /\ d # Nobody
    BY <1>2, IdsAssumption DEF Good, Databases
  <2> HIDE DEF c
  <2>3. \A x \in Ids : c.rowSeq[x] = b.rowSeq[x] /\ Override(c, x) = Override(b, x)
    BY <1>2, <2>1, <2>2 DEF Override
  <2> QED BY <2>1, <2>2, <2>3 DEF Later, c
<1> QED BY <1>1, <1>2

\* A fold stamps exactly the ids it repoints.
LEMMA FoldLater ==
    ASSUME NEW b, Good(b), NEW w \in b.persons, NEW l \in b.persons
    PROVE  Later(b, FoldInto(b, w, l))
<1> DEFINE c == FoldInto(b, w, l)
<1>1. /\ c.owner = [d \in Ids |-> IF b.owner[d] = l THEN w ELSE b.owner[d]]
      /\ c.rowSeq = [d \in Ids |-> IF b.owner[d] = l THEN b.seq + 1 ELSE b.rowSeq[d]]
      /\ c.seq = b.seq + 1 /\ c.epoch = b.epoch
  BY DEF FoldInto, Good, Databases
<1>2. b.seq \in Nat
  BY DEF Good, Databases
<1> HIDE DEF c
<1>3. ASSUME NEW d \in Ids
      PROVE  \/ c.rowSeq[d] > b.seq
             \/ c.rowSeq[d] = b.rowSeq[d] /\ Override(c, d) = Override(b, d)
  BY <1>1, <1>2 DEF Override
<1> QED BY <1>1, <1>2, <1>3 DEF Later, c

\* So does a whole merge, under any guard.
LEMMA MergeLater ==
    ASSUME NEW b, Good(b), NEW x \in Ids, NEW y \in Ids, NEW t \in Nat, NEW guard
    PROVE  Later(b, MergePersons(b, x, y, t, guard))
<1> DEFINE b1 == EnsurePerson(b, y, t)
           b2 == EnsurePerson(b1, x, t)
           c == GuardedFold(b2, b2.owner[y], b2.owner[x], guard)
<1>1. b1.owner[y] \in b1.persons /\ Good(b1) /\ Later(b, b1)
  BY EnsureGood, EnsureLater
<1> HIDE DEF b1
<1>2. b1.owner[y] # Nobody
  BY <1>1, IdsAssumption DEF Good, Databases
<1>3. /\ b2.owner[x] \in b2.persons /\ b2.owner[y] = b1.owner[y] /\ Good(b2)
      /\ Later(b1, b2)
  BY <1>1, <1>2, EnsureGood, EnsureLater
<1>4. b2.owner[y] \in b2.persons
  BY <1>2, <1>3 DEF Good
<1> HIDE DEF b2
<1>5. Later(b2, c) /\ Good(c)
  <2>1. c \in {b2, FoldInto(b2, b2.owner[y], b2.owner[x]), FoldInto(b2, b2.owner[x], b2.owner[y])}
    BY DEF GuardedFold
  <2>2. Good(c)
    BY <1>3, <1>4, GuardedGood
  <2> HIDE DEF c
  <2> QED BY <1>3, <1>4, <2>1, <2>2, FoldLater, LaterReflexive
<1>6. MergePersons(b, x, y, t, guard) = c
  BY DEF MergePersons, b1, b2
<1> HIDE DEF c
<1>7. Later(b, b2)
  BY <1>1, <1>3, LaterTransitive
<1> QED BY <1>3, <1>5, <1>6, <1>7, LaterTransitive

\* A transaction changes overrides under new stamps, or counts an epoch.
LEMMA NextLater ==
    ASSUME Good(db), Next
    PROVE  Later(db, db') \/ (db'.epoch > db.epoch /\ db'.seq >= db.seq)
<1>1. Times \subseteq Nat
  BY TimesAssumption
<1>2. ASSUME NEW d \in Ids, NEW t \in Times, NEW other \in Ids, NEW guard,
             LET b == Arrive(db, d, t)
                 m == IF other = d THEN b ELSE MergePersons(b, other, d, t, guard)
             IN db' \in {m, MarkIdentified(m, d)}
      PROVE  Later(db, db')
  <2> DEFINE e == EnsurePerson(db, d, t)
             b == Arrive(db, d, t)
             m == IF other = d THEN b ELSE MergePersons(b, other, d, t, guard)
  <2>1. Later(db, e) /\ Good(e) /\ t \in Nat
    BY <1>1, EnsureLater, EnsureGood
  <2>2. Good(b) /\ b.owner[d] # Nobody
    BY <1>1, ArriveGood
  <2>3. db' \in {m, MarkIdentified(m, d)}
    BY <1>2
  <2>4. b = TouchLastSeen(e, d, t)
    BY DEF Arrive
  <2> HIDE DEF e, b
  <2>5. b.owner = e.owner /\ b.rowSeq = e.rowSeq /\ b.seq = e.seq /\ b.epoch = e.epoch
    BY <2>1, <2>4 DEF TouchLastSeen, Good, Databases
  <2>6. Later(db, b)
    BY <2>1, <2>2, <2>5, LaterSame, LaterTransitive
  <2>7. Good(m) /\ m.owner[d] # Nobody
    BY <2>1, <2>2, MergedGood
  <2>8. Later(b, m)
    BY <2>1, <2>2, MergeLater, LaterReflexive
  <2> HIDE DEF m
  <2>9. Later(db, m)
    BY <2>2, <2>6, <2>7, <2>8, LaterTransitive
  <2>10. CASE db' = m
    BY <2>9, <2>10
  <2>11. CASE db' = MarkIdentified(m, d)
    <3> DEFINE c == MarkIdentified(m, d)
    <3>1. c.owner = m.owner /\ c.rowSeq = m.rowSeq /\ c.seq = m.seq /\ c.epoch = m.epoch
      BY <2>7 DEF MarkIdentified, Good, Databases
    <3>2. Good(c)
      BY <2>7, MarkGood
    <3> HIDE DEF c
    <3>3. Later(m, c)
      BY <2>7, <3>1, LaterSame
    <3>4. db' = c
      BY <2>11 DEF c
    <3> QED BY <2>7, <2>9, <3>2, <3>3, <3>4, LaterTransitive
  <2> QED BY <2>3, <2>10, <2>11
<1>3. ASSUME NEW d \in Ids, NEW t \in Times, ApplyPlain(d, t)
      PROVE  Later(db, db')
  BY <1>2, <1>3 DEF ApplyPlain
<1>4. ASSUME NEW d \in Ids, NEW other \in Ids, NEW t \in Times, ApplyIdentify(d, other, t)
      PROVE  Later(db, db')
  BY <1>2, <1>4 DEF ApplyIdentify
<1>5. ASSUME NEW d \in Ids, NEW other \in Ids, NEW t \in Times, ApplyAlias(d, other, t)
      PROVE  Later(db, db')
  BY <1>2, <1>5 DEF ApplyAlias
<1>6. ASSUME NEW d \in Ids, NEW other \in Ids, NEW t \in Times,
             ApplyMergeDangerously(d, other, t)
      PROVE  Later(db, db')
  BY <1>2, <1>6 DEF ApplyMergeDangerously
<1>7. ASSUME ClearPending
      PROVE  Later(db, db')
  <2>1. db'.owner = db.owner /\ db'.rowSeq = db.rowSeq /\ db'.seq = db.seq /\ db'.epoch = db.epoch
    BY <1>7 DEF ClearPending, Good, Databases
  <2> QED BY <2>1, LaterSame
<1>8. ASSUME NEW p \in Ids, Erase(p)
      PROVE  db'.epoch > db.epoch /\ db'.seq >= db.seq
  <2>1. db'.epoch = db.epoch + 1 /\ db'.seq = db.seq + 1
    BY <1>8 DEF Erase, ErasePerson, Good, Databases
  <2>2. db.epoch \in Nat /\ db.seq \in Nat
    BY DEF Good, Databases
  <2> QED BY <2>1, <2>2
<1> QED BY <1>3, <1>4, <1>5, <1>6, <1>7, <1>8 DEF Next

\* What a good database gives a reader: only a stamped row has an override.
LEMMA StampedRows ==
    ASSUME Good(db)
    PROVE  /\ db.seq \in Nat /\ db.epoch \in Nat
           /\ \A d \in Ids :
                /\ db.rowSeq[d] \in Nat /\ db.rowSeq[d] <= db.seq
                /\ db.owner[d] \in Ids \cup {Nobody}
                /\ db.rowSeq[d] = 0 => Override(db, d) = Nobody
                /\ db.rowSeq[d] # 0 => db.owner[d] \in Ids
BY DEF Good, Databases, Override

\* A commit between the reader's statements leaves the mirror and the batch honest.
LEMMA CommitFeed ==
    ASSUME FeedInv, Next, UNCHANGED feedVars
    PROVE  FeedInv'
<1>1. Good(db')
  BY NextGood DEF FeedInv
<1>2. /\ spc' = spc /\ mepoch' = mepoch /\ mseq' = mseq /\ mirror' = mirror /\ batch' = batch
      /\ Applied' = Applied
  BY DEF feedVars, Applied, Overlay, NoOverrides
<1>3. /\ Good(db) /\ db.seq \in Nat /\ db'.seq \in Nat /\ db.epoch \in Nat /\ db'.epoch \in Nat
      /\ \A d \in Ids : db.rowSeq[d] \in Nat /\ db'.rowSeq[d] \in Nat
  BY <1>1 DEF FeedInv, Good, Databases
<1>4. CASE Later(db, db')
  BY <1>1, <1>2, <1>3, <1>4 DEF FeedInv, MirrorOK, BatchOK, Later
<1>5. CASE db'.epoch > db.epoch /\ db'.seq >= db.seq
  BY <1>1, <1>2, <1>3, <1>5 DEF FeedInv, MirrorOK, BatchOK
<1> QED BY <1>3, <1>4, <1>5, NextLater

\* No batch.
LEMMA EmptyBatch ==
    /\ NoBatch.epoch = 0 /\ NoBatch.top = 0 /\ NoBatch.last = 0 /\ DOMAIN NoBatch.changes = {}
    /\ IsBatch(NoBatch)
BY DEF NoBatch, IsBatch

\* The state a batch begins with.
LEMMA FreshBatch ==
    ASSUME ReadState
    PROVE  /\ batch'.epoch = db.epoch /\ batch'.top = db.seq /\ batch'.last = 0
           /\ DOMAIN batch'.changes = {} /\ IsBatch(batch')
<1> DEFINE n == NoBatch
           e == db.epoch
           t == db.seq
           c1 == [n EXCEPT !.epoch = e]
<1>1. IsBatch(n) /\ n.last = 0 /\ DOMAIN n.changes = {}
  BY EmptyBatch
<1>2. batch' = [c1 EXCEPT !.top = t]
  BY Zenon DEF ReadState
<1> HIDE DEF n, e, t
<1>3. IsBatch(c1) /\ c1.epoch = e /\ c1.last = n.last /\ c1.changes = n.changes
  BY <1>1 DEF IsBatch
<1> HIDE DEF c1
<1>4. /\ IsBatch(batch') /\ batch'.epoch = e /\ batch'.top = t /\ batch'.last = n.last
      /\ batch'.changes = n.changes
  BY <1>2, <1>3 DEF IsBatch
<1> QED BY <1>1, <1>4 DEF e, t

\* The first statement.
LEMMA BeginFeed ==
    ASSUME FeedInv, SyncBegin
    PROVE  FeedInv'
<1>1. Good(db) /\ ReadState /\ UNCHANGED <<vars, mepoch, mseq, mirror>> /\ spc' = "rows"
  BY DEF FeedInv, SyncBegin
<1>2. db' = db
  BY <1>1 DEF vars
<1>3. db.seq \in Nat /\ db.epoch \in Nat
  BY <1>1, StampedRows
<1>4. BatchOK'
  BY <1>1, <1>2, <1>3, FreshBatch DEF BatchOK
<1> QED BY <1>1, <1>2, <1>4 DEF FeedInv, MirrorOK

\* A failing statement drops the batch.
LEMMA FailsFeed ==
    ASSUME FeedInv, SyncFails
    PROVE  FeedInv'
<1>1. Good(db) /\ UNCHANGED <<vars, mepoch, mseq, mirror>> /\ spc' = "idle" /\ batch' = NoBatch
  BY DEF FeedInv, SyncFails
<1>2. db' = db
  BY <1>1 DEF vars
<1>3. db.seq \in Nat /\ db.epoch \in Nat
  BY <1>1, StampedRows
<1>4. BatchOK'
  BY <1>1, <1>2, <1>3, EmptyBatch DEF BatchOK
<1> QED BY <1>1, <1>2, <1>4 DEF FeedInv, MirrorOK

\* Emptying the table for a new epoch leaves a mirror of version 0.
LEMMA EmptiedFeed ==
    ASSUME FeedInv, db' = db, mirror' = NoOverrides, mseq' = 0, mepoch' = batch.epoch
    PROVE  MirrorOK' /\ mepoch' <= db'.epoch
<1>1. Good(db) /\ batch.epoch \in Nat /\ batch.epoch <= db.epoch
  BY DEF FeedInv, BatchOK
<1>2. NoOverrides \in [Ids -> Ids \cup {Nobody}] /\ \A d \in Ids : NoOverrides[d] = Nobody
  BY DEF NoOverrides
<1>3. \A d \in Ids : db.rowSeq[d] <= 0 => NoOverrides[d] = Override(db, d)
  BY <1>1, <1>2, StampedRows
<1>4. 0 <= db.seq
  BY <1>1, StampedRows
<1>5. /\ db' = db /\ mirror' = NoOverrides /\ mseq' = 0 /\ mepoch' = batch.epoch
  OBVIOUS
<1>6. mirror' \in [Ids -> Ids \cup {Nobody}] /\ mseq' \in Nat /\ mepoch' \in Nat \cup {-1}
  BY <1>1, <1>2, <1>5
<1>7. \A d \in Ids : db'.rowSeq[d] <= mseq' => mirror'[d] = Override(db', d)
  BY <1>3, <1>5
<1> QED BY <1>1, <1>4, <1>5, <1>6, <1>7 DEF MirrorOK

\* So does an apply that fails after emptying it.
LEMMA ApplyFailsFeed ==
    ASSUME FeedInv, ApplyFails
    PROVE  FeedInv'
<1>1. /\ Good(db) /\ UNCHANGED vars /\ spc' = "idle" /\ batch' = NoBatch
      /\ mirror' = NoOverrides /\ mepoch' = batch.epoch /\ mseq' = 0
  BY DEF FeedInv, ApplyFails
<1>2. db' = db
  BY <1>1 DEF vars
<1>3. db.seq \in Nat /\ db.epoch \in Nat
  BY <1>1, StampedRows
<1>4. BatchOK'
  BY <1>1, <1>2, <1>3, EmptyBatch DEF BatchOK
<1>5. MirrorOK' /\ mepoch' <= db'.epoch
  BY <1>1, <1>2, EmptiedFeed
<1> QED BY <1>1, <1>2, <1>4, <1>5 DEF FeedInv

\* Applying a batch advances the mirror to the batch's version.
LEMMA ApplyFeed ==
    ASSUME FeedInv, SyncApply
    PROVE  FeedInv'
<1>1. Good(db) /\ spc = "apply" /\ UNCHANGED vars /\ mepoch' = batch.epoch
  BY DEF FeedInv, SyncApply
<1>2. db' = db /\ Good(db')
  BY <1>1 DEF vars
<1>3. db.seq \in Nat /\ db.epoch \in Nat /\ 0 <= db.seq /\ 0 <= db.epoch
  BY <1>1, StampedRows
<1>4. ASSUME ReadState, spc' = "rows"
      PROVE  BatchOK'
  BY <1>1, <1>2, <1>3, <1>4, FreshBatch DEF BatchOK
<1>5. ASSUME batch' = NoBatch, spc' = "idle"
      PROVE  BatchOK'
  BY <1>2, <1>3, <1>5, EmptyBatch DEF BatchOK
<1>6. CASE mepoch # batch.epoch /\ mseq # 0
  <2>1. mirror' = NoOverrides /\ mseq' = 0 /\ ReadState /\ spc' = "rows"
    BY <1>6 DEF SyncApply
  <2>2. MirrorOK' /\ mepoch' <= db'.epoch
    BY <1>1, <1>2, <2>1, EmptiedFeed
  <2> QED BY <1>2, <1>4, <2>1, <2>2 DEF FeedInv
<1>7. CASE ~(mepoch # batch.epoch /\ mseq # 0)
  <2>1. /\ mirror' = Applied /\ mseq' = batch.last
        /\ \/ ReadState /\ spc' = "rows"
           \/ spc' = "idle" /\ batch' = NoBatch
    BY <1>7 DEF SyncApply, Applied
  <2>2. BatchOK'
    BY <1>4, <1>5, <2>1
  <2>3. /\ batch.epoch \in Nat /\ batch.epoch <= db.epoch
        /\ batch.last \in Nat /\ batch.last <= db.seq
        /\ mirror \in [Ids -> Ids \cup {Nobody}]
        /\ \A d \in DOMAIN batch.changes : batch.changes[d] \in Ids
    BY DEF FeedInv, BatchOK, MirrorOK
  <2>4. Applied \in [Ids -> Ids \cup {Nobody}]
    BY <2>3 DEF Applied, Overlay, NoOverrides
  <2>5. batch.epoch = db.epoch =>
          \A d \in Ids : db.rowSeq[d] <= batch.last => Applied[d] = Override(db, d)
    BY <1>1, <1>7 DEF FeedInv, BatchOK
  <2> HIDE DEF Applied
  <2>6. MirrorOK' /\ mepoch' <= db'.epoch
    BY <1>1, <1>2, <2>1, <2>3, <2>4, <2>5 DEF MirrorOK
  <2> QED BY <1>2, <2>2, <2>6 DEF FeedInv
<1> QED BY <1>6, <1>7

\* A batch that holds every row stamped after the mirror's version and up to top
\* brings the mirror to top.
LEMMA WholeBatch ==
    ASSUME FeedInv, NEW top \in Nat, NEW C \in SUBSET Ids, batch.epoch = db.epoch,
           mepoch = batch.epoch \/ mseq = 0,
           \A d \in C : db.owner[d] # Nobody,
           \A d \in Ids : db.rowSeq[d] <= top => db.rowSeq[d] <= mseq \/ d \in C
    PROVE  \A d \in Ids : db.rowSeq[d] <= top =>
             Overlay(IF mepoch # batch.epoch THEN NoOverrides ELSE mirror, Rows(C))[d]
               = Override(db, d)
<1> DEFINE base == IF mepoch # batch.epoch THEN NoOverrides ELSE mirror
<1> SUFFICES ASSUME NEW d \in Ids, db.rowSeq[d] <= top
             PROVE  Overlay(base, Rows(C))[d] = Override(db, d)
  OBVIOUS
<1>1. Good(db)
  BY DEF FeedInv
<1>2. DOMAIN Rows(C) = C /\ \A x \in C : Rows(C)[x] = db.owner[x]
  BY DEF Rows
<1>3. Overlay(base, Rows(C))[d] = IF d \notin C THEN base[d] ELSE Override(db, d)
  BY <1>2 DEF Overlay, Override
<1>4. CASE d \notin C
  <2>1. db.rowSeq[d] <= mseq
    BY <1>4
  <2>2. CASE mepoch = batch.epoch
    BY <1>3, <1>4, <2>1, <2>2 DEF FeedInv, MirrorOK
  <2>3. CASE mepoch # batch.epoch
    BY <1>1, <1>3, <1>4, <2>1, <2>3, StampedRows DEF NoOverrides
  <2> QED BY <2>2, <2>3
<1>5. CASE d \in C
  BY <1>3, <1>5
<1> QED BY <1>4, <1>5

\* A batch whose changes are the rows of C, read now, and whose version is last.
LEMMA ReadyFeed ==
    ASSUME FeedInv, NEW C \in SUBSET Ids, NEW last \in Nat, last <= db.seq,
           UNCHANGED <<vars, mepoch, mseq, mirror>>, spc' = "apply",
           IsBatch(batch'), batch'.epoch = batch.epoch, batch'.top = batch.top,
           batch'.last = last, batch'.changes = Rows(C),
           \A d \in C : db.owner[d] # Nobody,
           batch.epoch = db.epoch =>
             \A d \in Ids : db.rowSeq[d] <= last => db.rowSeq[d] <= mseq \/ d \in C
    PROVE  FeedInv'
<1>1. /\ db' = db /\ mepoch' = mepoch /\ mseq' = mseq /\ mirror' = mirror
  BY DEF vars
<1>2. Good(db)
  BY DEF FeedInv
<1>3. DOMAIN Rows(C) = C /\ \A d \in C : Rows(C)[d] \in Ids
  BY <1>2, StampedRows DEF Rows
<1>4. ASSUME batch.epoch = db.epoch, mepoch = batch.epoch \/ mseq = 0
      PROVE  \A d \in Ids : db.rowSeq[d] <= last =>
               Overlay(IF mepoch # batch.epoch THEN NoOverrides ELSE mirror, Rows(C))[d]
                 = Override(db, d)
  BY <1>4, WholeBatch
<1>5. Applied' = Overlay(IF mepoch # batch.epoch THEN NoOverrides ELSE mirror, Rows(C))
  BY <1>1 DEF Applied, Overlay, NoOverrides
<1> HIDE DEF Applied
<1>6. BatchOK'
  BY <1>1, <1>3, <1>4, <1>5 DEF FeedInv, BatchOK
<1> QED BY <1>1, <1>6 DEF FeedInv, MirrorOK


\* A batch with its changes filled in.
LEMMA BatchRest ==
    ASSUME NEW b, IsBatch(b), NEW ch
    PROVE  LET c == [b EXCEPT !.changes = ch] IN
           /\ IsBatch(c) /\ c.epoch = b.epoch /\ c.top = b.top /\ c.last = b.last
           /\ c.changes = ch
<1> DEFINE e == b.epoch
           t == b.top
           l == b.last
           h == b.changes
           m == b.more
<1>1. b = [epoch |-> e, top |-> t, last |-> l, changes |-> h, more |-> m]
  BY DEF IsBatch
<1> HIDE DEF e, t, l, h, m
<1> QED BY <1>1 DEF IsBatch

\* A batch up to la.
LEMMA BatchLast ==
    ASSUME NEW b, IsBatch(b), NEW la
    PROVE  LET c == [b EXCEPT !.last = la] IN
           /\ IsBatch(c) /\ c.epoch = b.epoch /\ c.top = b.top /\ c.last = la
           /\ c.changes = b.changes
<1> DEFINE e == b.epoch
           t == b.top
           l == b.last
           h == b.changes
           m == b.more
<1>1. b = [epoch |-> e, top |-> t, last |-> l, changes |-> h, more |-> m]
  BY DEF IsBatch
<1> HIDE DEF e, t, l, h, m
<1> QED BY <1>1 DEF IsBatch

\* A batch with more to come.
LEMMA BatchMore ==
    ASSUME NEW b, IsBatch(b), NEW mo
    PROVE  LET c == [b EXCEPT !.more = mo] IN
           /\ IsBatch(c) /\ c.epoch = b.epoch /\ c.top = b.top /\ c.last = b.last
           /\ c.changes = b.changes
<1> DEFINE e == b.epoch
           t == b.top
           l == b.last
           h == b.changes
           m == b.more
<1>1. b = [epoch |-> e, top |-> t, last |-> l, changes |-> h, more |-> m]
  BY DEF IsBatch
<1> HIDE DEF e, t, l, h, m
<1> QED BY <1>1 DEF IsBatch

\* The third statement fetches the whole merge the page was cut in.
LEMMA RestFeed ==
    ASSUME FeedInv, ReadRest
    PROVE  FeedInv'
<1> DEFINE C == {d \in Ids : db.owner[d] # Nobody /\ db.rowSeq[d] = batch.last}
<1>1. /\ spc = "rest" /\ spc' = "apply" /\ UNCHANGED <<vars, mepoch, mseq, mirror>>
      /\ batch' = [batch EXCEPT !.changes = Rows(C)]
  BY DEF ReadRest
<1>2. Good(db) /\ mseq \in Nat /\ batch.last \in Nat /\ batch.last <= db.seq
  BY DEF FeedInv, MirrorOK, BatchOK
<1>3. /\ IsBatch(batch') /\ batch'.epoch = batch.epoch /\ batch'.top = batch.top /\ batch'.last = batch.last
      /\ batch'.changes = Rows(C)
  BY <1>1, BatchRest DEF FeedInv, BatchOK
<1>4. C \in SUBSET Ids /\ \A d \in C : db.owner[d] # Nobody
  OBVIOUS
<1>5. ASSUME batch.epoch = db.epoch, NEW d \in Ids, db.rowSeq[d] <= batch.last
      PROVE  db.rowSeq[d] <= mseq \/ d \in C
  <2>1. db.rowSeq[d] <= mseq \/ db.rowSeq[d] >= batch.last
    BY <1>1, <1>5 DEF FeedInv, BatchOK
  <2>2. db.rowSeq[d] \in Nat /\ (db.rowSeq[d] # 0 => db.owner[d] \in Ids) /\ Nobody \notin Ids
    BY <1>2, StampedRows, IdsAssumption
  <2>3. CASE db.rowSeq[d] = batch.last
    <3>1. CASE db.rowSeq[d] = 0
      BY <1>2, <3>1
    <3>2. CASE db.rowSeq[d] # 0
      BY <2>2, <2>3, <3>2
    <3> QED BY <3>1, <3>2
  <2> QED BY <1>2, <1>5, <2>1, <2>2, <2>3
<1> HIDE DEF C
<1> QED BY <1>1, <1>2, <1>3, <1>4, <1>5, ReadyFeed

\* The second statement: all the rows, or a page of whole merges.
LEMMA RowsFeed ==
    ASSUME FeedInv, ReadRows
    PROVE  FeedInv'
<1> DEFINE R == {d \in Ids : /\ db.owner[d] # Nobody
                             /\ db.rowSeq[d] > mseq /\ db.rowSeq[d] <= batch.top}
<1>1. spc = "rows" /\ UNCHANGED <<vars, mepoch, mseq, mirror>> /\ db' = db
  BY DEF ReadRows, vars
<1>2. /\ Good(db) /\ mseq \in Nat /\ mseq <= db.seq /\ batch.top \in Nat /\ batch.top <= db.seq
      /\ db.seq \in Nat
  BY StampedRows DEF FeedInv, MirrorOK, BatchOK
<1>3. \A d \in Ids : /\ db.rowSeq[d] \in Nat
                     /\ db.rowSeq[d] > mseq => db.owner[d] # Nobody
  BY <1>2, StampedRows, IdsAssumption
<1>4. CASE Cardinality(R) <= MaxBatch
  <2>1. /\ batch' = [batch EXCEPT !.changes = Rows(R), !.last = Larger(batch.top, mseq)]
        /\ spc' = "apply"
    BY <1>4 DEF ReadRows
  <2>2. /\ Larger(batch.top, mseq) \in Nat /\ Larger(batch.top, mseq) <= db.seq
        /\ Larger(batch.top, mseq) \in {batch.top, mseq}
    BY <1>2 DEF Larger
  <2>3. /\ IsBatch(batch') /\ batch'.epoch = batch.epoch /\ batch'.top = batch.top
        /\ batch'.last = Larger(batch.top, mseq) /\ batch'.changes = Rows(R)
    <3> DEFINE la == Larger(batch.top, mseq)
               ch == Rows(R)
    <3>1. IsBatch(batch)
      BY DEF FeedInv, BatchOK
    <3> DEFINE c1 == [batch EXCEPT !.changes = ch]
    <3>2. batch' = [c1 EXCEPT !.last = la]
      BY <2>1, Zenon
    <3> HIDE DEF ch, la
    <3>3. /\ IsBatch(c1) /\ c1.epoch = batch.epoch /\ c1.top = batch.top
          /\ c1.last = batch.last /\ c1.changes = ch
      BY <3>1, BatchRest
    <3> HIDE DEF c1
    <3>4. /\ IsBatch(batch') /\ batch'.epoch = batch.epoch /\ batch'.top = batch.top
          /\ batch'.last = la /\ batch'.changes = ch
      BY <3>2, <3>3, BatchLast
    <3> QED BY <3>4 DEF la, ch
  <2>4. R \in SUBSET Ids /\ \A d \in R : db.owner[d] # Nobody
    OBVIOUS
  <2>5. \A d \in Ids : db.rowSeq[d] <= Larger(batch.top, mseq) => db.rowSeq[d] <= mseq \/ d \in R
    BY <1>2, <1>3, <2>2
  <2> HIDE DEF R
  <2> QED BY <1>1, <2>1, <2>2, <2>3, <2>4, <2>5, ReadyFeed
<1>5. CASE ~(Cardinality(R) <= MaxBatch)
  <2>1. PICK S \in Pages(R) : FinishPage(S)
    BY <1>5 DEF ReadRows
  <2> DEFINE T == {db.rowSeq[d] : d \in S}
             last == Max(T)
             complete == {d \in S : db.rowSeq[d] < last}
  <2>2. /\ S \subseteq R /\ Cardinality(S) = MaxBatch
        /\ \A d \in S, e \in R \ S : db.rowSeq[d] <= db.rowSeq[e]
    BY <2>1 DEF Pages
  <2>3. S # {}
    BY <2>2, FS_EmptySet, MaxBatchAssumption
  <2>4. T \subseteq 0..batch.top /\ T # {}
    BY <1>2, <1>3, <2>2, <2>3
  <2>5. last \in T /\ \A x \in T : x <= last
    <3>1. \E x \in T : \A y \in T : x >= y
      <4> HIDE DEF T
      <4>1. PICK x \in T : \A y \in T : y <= x
        BY <1>2, <2>4, GreatestNatural
      <4>2. x \in Nat /\ T \subseteq Nat
        BY <2>4
      <4> QED BY <4>1, <4>2
    <3> HIDE DEF T
    <3>2. Max(T) \in T /\ \A y \in T : Max(T) >= y
      BY <3>1 DEF Max
    <3> QED BY <2>4, <3>2
  <2>6. PICK z \in S : db.rowSeq[z] = last
    BY <2>5
  <2>7. /\ last \in Nat /\ last > mseq /\ last <= batch.top
        /\ \A d \in S : db.rowSeq[d] <= last
    <3>1. z \in R
      BY <2>2, <2>6
    <3> QED BY <1>2, <1>3, <2>5, <2>6, <3>1
  <2>8. FinishPage(S) =
          IF complete # {}
          THEN /\ batch' = [batch EXCEPT !.changes = Rows(complete), !.last = last - 1,
                                         !.more = TRUE]
               /\ spc' = "apply"
          ELSE /\ batch' = [batch EXCEPT !.last = last, !.more = TRUE]
               /\ spc' = "rest"
    BY DEF FinishPage
  <2> HIDE DEF T, last
  <2>9. \A d \in R : d \in S \/ db.rowSeq[d] >= last
    BY <2>2, <2>6
  <2>10. CASE complete # {}
    <3>1. /\ batch' = [batch EXCEPT !.changes = Rows(complete), !.last = last - 1, !.more = TRUE]
          /\ spc' = "apply"
      BY <2>1, <2>8, <2>10
    <3>2. /\ IsBatch(batch') /\ batch'.epoch = batch.epoch /\ batch'.top = batch.top
          /\ batch'.last = last - 1 /\ batch'.changes = Rows(complete)
      <4> DEFINE la == last - 1
                 ch == Rows(complete)
                 mo == TRUE
      <4>1. IsBatch(batch)
        BY DEF FeedInv, BatchOK
      <4> DEFINE c1 == [batch EXCEPT !.changes = ch]
                 c2 == [c1 EXCEPT !.last = la]
      <4>2. batch' = [c2 EXCEPT !.more = mo]
        BY <3>1, Zenon
      <4> HIDE DEF ch, la, mo
      <4>3. /\ IsBatch(c1) /\ c1.epoch = batch.epoch /\ c1.top = batch.top
            /\ c1.last = batch.last /\ c1.changes = ch
        BY <4>1, BatchRest
      <4> HIDE DEF c1
      <4>4. /\ IsBatch(c2) /\ c2.epoch = batch.epoch /\ c2.top = batch.top
            /\ c2.last = la /\ c2.changes = ch
        BY <4>1, <4>3, BatchLast
      <4> HIDE DEF c2
      <4>5. /\ IsBatch(batch') /\ batch'.epoch = batch.epoch /\ batch'.top = batch.top
            /\ batch'.last = la /\ batch'.changes = ch
        BY <4>2, <4>4, BatchMore
      <4> QED BY <4>5 DEF la, ch
    <3>3. last - 1 \in Nat /\ last - 1 <= db.seq
      BY <1>2, <2>7
    <3>4. complete \in SUBSET Ids /\ \A d \in complete : db.owner[d] # Nobody
      BY <2>2
    <3>5. ASSUME NEW d \in Ids, db.rowSeq[d] <= last - 1
          PROVE  db.rowSeq[d] <= mseq \/ d \in complete
      <4>1. CASE db.rowSeq[d] > mseq
        <5>1. d \in R
          BY <1>2, <1>3, <2>7, <3>5, <4>1
        <5>2. db.rowSeq[d] < last /\ d \in S
          BY <1>3, <2>7, <2>9, <3>5, <5>1
        <5> QED BY <5>2
      <4>2. CASE ~(db.rowSeq[d] > mseq)
        BY <1>2, <1>3, <4>2
      <4> QED BY <4>1, <4>2
    <3> HIDE DEF complete
    <3> QED BY <1>1, <3>1, <3>2, <3>3, <3>4, <3>5, ReadyFeed
  <2>11. CASE complete = {}
    <3>1. /\ batch' = [batch EXCEPT !.last = last, !.more = TRUE] /\ spc' = "rest"
      BY <2>1, <2>8, <2>11
    <3>2. /\ IsBatch(batch') /\ batch'.epoch = batch.epoch /\ batch'.top = batch.top
          /\ batch'.last = last /\ batch'.changes = batch.changes
      <4> DEFINE mo == TRUE
      <4>1. IsBatch(batch)
        BY DEF FeedInv, BatchOK
      <4> DEFINE c1 == [batch EXCEPT !.last = last]
      <4>2. batch' = [c1 EXCEPT !.more = mo]
        BY <3>1, Zenon
      <4> HIDE DEF mo
      <4>3. /\ IsBatch(c1) /\ c1.epoch = batch.epoch /\ c1.top = batch.top
            /\ c1.last = last /\ c1.changes = batch.changes
        BY <4>1, BatchLast
      <4> HIDE DEF c1
      <4>4. /\ IsBatch(batch') /\ batch'.epoch = batch.epoch /\ batch'.top = batch.top
            /\ batch'.last = last /\ batch'.changes = batch.changes
        BY <4>2, <4>3, BatchMore
      <4> QED BY <4>4
    <3>3. ASSUME NEW d \in Ids
          PROVE  db.rowSeq[d] <= mseq \/ db.rowSeq[d] >= last
      <4>1. CASE d \in R
        BY <1>3, <2>7, <2>9, <2>11, <4>1
      <4>2. CASE d \notin R
        BY <1>2, <1>3, <2>7, <4>2
      <4> QED BY <4>1, <4>2
    <3>4. last <= db.seq
      BY <1>2, <2>7
    <3>5. mepoch' = mepoch /\ mseq' = mseq /\ mirror' = mirror
      BY <1>1
    <3>6. BatchOK'
      BY <1>1, <2>7, <3>1, <3>2, <3>3, <3>4, <3>5 DEF FeedInv, BatchOK
    <3> QED BY <1>1, <3>5, <3>6 DEF FeedInv, MirrorOK
  <2> QED BY <2>10, <2>11
<1> QED BY <1>4, <1>5

\* Whatever the publisher commits between the reader's statements, however its pages
\* are cut and whichever statements fail, the mirror equals the projection whenever it
\* carries its version (IdentitySync, overrides_since).
THEOREM MirrorMatchesVersionAlways == FeedSpec => []MirrorMatchesVersion
<1>1. FeedInit => FeedInv
  <2> SUFFICES ASSUME FeedInit PROVE FeedInv
    OBVIOUS
  <2>1. /\ db = Blank /\ spc = "idle" /\ mepoch = -1 /\ mseq = 0
        /\ mirror = NoOverrides /\ batch = NoBatch
    BY DEF FeedInit, Init
  <2>2. Good(db)
    BY <2>1, BlankGood
  <2>3. db.epoch = 0 /\ db.seq = 0 /\ NoOverrides \in [Ids -> Ids \cup {Nobody}]
    BY <2>1 DEF Blank, NoOverrides
  <2>4. BatchOK
    BY <2>1, <2>3, EmptyBatch DEF BatchOK
  <2> QED BY <2>1, <2>2, <2>3, <2>4 DEF FeedInv, MirrorOK
<1>2. FeedInv /\ [FeedNext]_allVars => FeedInv'
  <2>1. CASE FeedNext
    BY <2>1, CommitFeed, BeginFeed, RowsFeed, RestFeed, ApplyFeed, FailsFeed, ApplyFailsFeed
       DEF FeedNext, SyncStep
  <2>2. ASSUME FeedInv, UNCHANGED allVars PROVE FeedInv'
    <3>1. /\ db' = db /\ spc' = spc /\ mepoch' = mepoch /\ mseq' = mseq /\ mirror' = mirror
          /\ batch' = batch
      BY <2>2 DEF allVars, vars, feedVars
    <3>2. Applied' = Applied
      BY <3>1 DEF Applied, Overlay, NoOverrides
    <3> QED BY <2>2, <3>1, <3>2 DEF FeedInv, MirrorOK, BatchOK
  <2> QED BY <2>1, <2>2
<1>3. FeedInv => MirrorMatchesVersion
  <2> SUFFICES ASSUME FeedInv, mepoch = db.epoch, mseq = db.seq
               PROVE  mirror = Overrides
    BY DEF MirrorMatchesVersion
  <2>1. \A d \in Ids : mirror[d] = Override(db, d)
    BY StampedRows DEF FeedInv, MirrorOK
  <2>2. mirror \in [Ids -> Ids \cup {Nobody}]
    BY DEF FeedInv, MirrorOK
  <2> QED BY <2>1, <2>2 DEF Overrides, Override
<1> QED BY <1>1, <1>2, <1>3, PTL DEF FeedSpec

=============================================================================
