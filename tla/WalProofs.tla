----------------------------- MODULE WalProofs -----------------------------
(***************************************************************************)
(* Machine-checked facts about the write-ahead log, for any number and     *)
(* size of records, any limits and any number of faults: an acknowledged   *)
(* record is never lost, every directory a crash leaves can be recovered,  *)
(* and the log implements the promise of EventStore.                       *)
(***************************************************************************)
EXTENDS WriteAheadLog, NaturalFacts, FiniteSetTheorems, TLAPS

-----------------------------------------------------------------------------
(* The inductive invariant.                                                 *)

\* The segments a directory names, open or sealed.
Segments(d) == Sealed(d) \cup Open(d)

\* ValidLayout without cardinalities.
Layout(d) ==
    /\ d \subseteq Names
    /\ Sealed(d) \cap Open(d) = {}
    /\ \A s \in Open(d), t \in Segments(d) : t <= s
    /\ \A s, t \in Segments(d) : s < t => s + 1 \in Segments(d)

Bounded(d) == \E k \in Nat : \A s \in Segments(d) : s <= k

\* Everything in the file is durable and whole.
Solid(s) == ~data[s].torn /\ data[s].synced = Len(data[s].recs)

\* Record i of segment s lies behind checkpoint c.
Past(c, s, i) == s > c.seg \/ (s = c.seg /\ i > c.off)

\* Every variable has its shape, and a file's durable part is a prefix of it.
Shapes ==
    /\ TypeOK
    /\ \A s \in DOMAIN data : data[s].synced <= Len(data[s].recs)

\* What any power cut leaves is a valid layout whose sealed files are solid, and
\* names every file that is sealed now.
DirsOK ==
    /\ dir \in powerDirs
    /\ \A d \in powerDirs :
         /\ Layout(d) /\ Bounded(d) /\ Segments(d) \subseteq DOMAIN data
         /\ \A s \in Sealed(d) : Solid(s)
         /\ Sealed(dir) \subseteq Segments(d)

Sealing == wpc \in {"seal", "renamed", "create", "created"}

\* Where the threads can be in each state of the process.
ProcOK ==
    /\ proc \in {"down", "refused", "publishing", "sealed", "drain"} => wpc = "ready"
    /\ proc \in {"down", "refused", "opening"} => ppc = "idle"
    /\ ppc = "idle" => goal = "read"
    /\ proc # "up" => group = {}
    /\ Sealing => /\ ~poisoned
                  /\ \/ job = "open" /\ proc = "opening"
                     \/ job = "stop" /\ proc = "stopping"
                     \/ job \in {"write", "timer"} /\ proc = "up"
    /\ wpc = "frame" => ~poisoned /\ proc = "up"
    /\ job # "none" => Sealing
    /\ wpc = "frame" \/ job = "write" => nextRec <= MaxRecords

\* A directory between two segments: the last one sealed, or all reclaimed.
Ended(d) ==
    /\ Open(d) = {}
    /\ \A s \in Segments(d) : s <= active
    /\ Segments(d) # {} => active \in Segments(d)

\* The writer's segment is the open one of every directory a power cut may leave,
\* or at one of the points of a seal.
OpenOK ==
    ~poisoned /\ proc \notin {"down", "refused"} =>
      /\ wpc \in {"ready", "frame", "seal"} => \A d \in powerDirs : Open(d) = {active}
      /\ wpc \in {"ready", "seal"} => ~data[active].torn
      /\ wpc = "renamed" =>
           /\ Ended(dir)
           /\ \A d \in powerDirs : Ended(d) \/ (Open(d) = {active} /\ Solid(active))
      /\ wpc = "create" => \A d \in powerDirs : Ended(d)
      /\ wpc = "created" =>
           /\ Open(dir) = {active + 1} /\ data[active + 1] = Empty
           /\ \A d \in powerDirs : Ended(d) \/ Open(d) = {active + 1}

\* A checkpoint inside a segment: the segment is durable, named and goes on.
InsideOK(c) ==
    c.off > 0 => /\ \A d \in powerDirs : c.seg \in Segments(d)
                 /\ c.off < data[c.seg].synced

\* The newest segment a checkpoint may name.
Top == IF wpc \in {"ready", "frame", "seal"} THEN active ELSE active + 1

\* What the writer appends lies behind the checkpoint.
CursorOK ==
    /\ InsideOK(cursor)
    /\ proc \in {"up", "stopping", "sealed", "drain"} /\ ~poisoned => cursor.seg <= Top
    /\ proc = "publishing" /\ (ppc \in {"read", "commit"} \/ goal # "read") =>
         cursor.seg <= active /\ ~poisoned
    /\ proc = "publishing" => ~poisoned

\* Cursor c names a segment of layout L or the one after its last.
InLayout(L, c) == c.seg \in Segments(L) \cup NextSegment(L)

\* What a listing shows is there until the publisher itself removes it.
ListingOK ==
    /\ ppc = "list" =>
         /\ listing.stable \subseteq listing.ever /\ listing.ever \subseteq Names
         /\ Segments(listing.ever) \subseteq Segments(dir)
         /\ Sealed(listing.ever) \subseteq Sealed(dir)
         /\ proc \in {"publishing", "drain"} => listing.stable = dir /\ listing.ever = dir
         /\ goal # "read" =>
              \A s \in Segments(dir) : s < cursor.seg => s \in Sealed(listing.stable)
    /\ ppc \in {"open", "read", "commit"} =>
         /\ Layout(window.layout)
         /\ Segments(window.layout) \subseteq Segments(dir)
         /\ Sealed(window.layout) \subseteq Sealed(dir)
         /\ proc \in {"publishing", "drain"} => window.layout = dir
         /\ goal # "read" =>
              \A s \in Segments(dir) : s < cursor.seg => s \in Sealed(window.layout)
    /\ ppc \in {"read", "commit"} => goal = "read"

\* Reclamation removes the oldest files, and only what the checkpoint covers.
DoomedOK ==
    ppc = "unlink" =>
      /\ doomed # {} /\ doomed \subseteq Sealed(dir)
      /\ \A s \in doomed : Covered(s, cursor, Len(data[s].recs))
      /\ \A s \in Segments(dir) : s < cursor.seg => s \in doomed

\* The window holds every record between the checkpoint and c.
Taken(c) ==
    \A d \in powerDirs : \A s \in Segments(d) : \A i \in 1..Len(data[s].recs) :
        Past(cursor, s, i) /\ ~Past(c, s, i) => data[s].recs[i] \in Range(window.recs)

\* The window never goes back behind the checkpoint.
Reached(c) == c.seg > cursor.seg \/ (c.seg = cursor.seg /\ c.off >= cursor.off)

WindowOK ==
    /\ ppc = "open" => window.recs = <<>> /\ window.bytes = 0
    /\ ppc \in {"read", "commit"} =>
         /\ InLayout(window.layout, cursor)
         /\ \A c \in {window.next, window.ckpt} :
              InLayout(window.layout, c) /\ InsideOK(c) /\ Taken(c) /\ Reached(c)
         /\ window.bytes > 0 => window.recs # <<>>
    /\ ppc = "commit" /\ window.recs = <<>> =>
         \A s \in Sealed(window.layout) : s < window.ckpt.seg

\* An unanswered record of the group is where an fsync of the active segment will
\* make it durable.
HeldIn(d, r) ==
    \E s \in Segments(d) : \E i \in 1..Len(data[s].recs) :
        /\ data[s].recs[i] = r /\ Past(cursor, s, i)
        /\ s = active \/ i <= data[s].synced

GroupOK ==
    ~poisoned => \A r \in group : r \in Range(published) \/ \A d \in powerDirs : HeldIn(d, r)

\* A stop leaves an empty segment, and a drain that finds nothing has it all.
StopOK ==
    /\ proc \in {"sealed", "drain"} /\ ~poisoned => data[active].recs = <<>>
    /\ proc = "drain" /\ ~poisoned /\ goal = "tidy" => acked \subseteq Range(published)
    /\ exit = "clean" => proc = "down" /\ acked \subseteq Range(published)

DurableInv ==
    /\ Shapes /\ DirsOK /\ ProcOK /\ OpenOK /\ CursorOK /\ ListingOK /\ DoomedOK /\ WindowOK
    /\ AckedNeverLost /\ GroupOK /\ StopOK

Before(s, i, t, j) == s < t \/ (s = t /\ i < j)

\* Records are numbered along the log, past what was published.
OrderOK ==
    /\ \A d \in powerDirs : \A s, t \in Segments(d) :
         \A i \in 1..Len(data[s].recs), j \in 1..Len(data[t].recs) :
           Before(s, i, t, j) => data[s].recs[i] < data[t].recs[j]
    /\ \A d \in powerDirs : \A s \in Segments(d) : \A i \in 1..Len(data[s].recs) :
         /\ data[s].recs[i] < nextRec
         /\ Past(cursor, s, i) => \A k \in 1..Len(published) : published[k] < data[s].recs[i]
    /\ \A k \in 1..Len(published) : published[k] < nextRec

\* The window goes on where the lake ends, in order.
WindowOrderOK ==
    ppc \in {"read", "commit"} =>
      /\ \A k, m \in 1..Len(window.recs) : k < m => window.recs[k] < window.recs[m]
      /\ \A m \in 1..Len(window.recs) :
           /\ window.recs[m] < nextRec
           /\ \A k \in 1..Len(published) : published[k] < window.recs[m]
      /\ \A d \in powerDirs : \A s \in Segments(d) : \A i \in 1..Len(data[s].recs) :
           \A c \in {window.next, window.ckpt} :
             Past(c, s, i) => \A m \in 1..Len(window.recs) : window.recs[m] < data[s].recs[i]

OrderInv == OrderOK /\ WindowOrderOK

-----------------------------------------------------------------------------
(* Names and layouts.                                                       *)

\* Which names make a segment sealed, open or present.
LEMMA NamesView ==
    ASSUME NEW d, d \subseteq Names
    PROVE  /\ \A s : s \in Sealed(d) <=> <<s, "wal">> \in d
           /\ \A s : s \in Open(d) <=> <<s, "open">> \in d
           /\ \A s \in Segments(d) : s \in Nat /\ s > 0
<1>1. \A n \in d : n = <<n[1], n[2]>> /\ n[1] \in Nat \ {0} /\ n[2] \in {"open", "wal"}
  BY DEF Names
<1>2. \A s : s \in Sealed(d) <=> <<s, "wal">> \in d
  BY <1>1 DEF Sealed
<1>3. \A s : s \in Open(d) <=> <<s, "open">> \in d
  BY <1>1 DEF Open
<1>4. \A s : <<s, "wal">> \in Names \/ <<s, "open">> \in Names => s \in Nat /\ s > 0
  BY DEF Names
<1>5. \A s \in Segments(d) : s \in Nat /\ s > 0
  BY <1>2, <1>3, <1>4 DEF Segments
<1> QED BY <1>2, <1>3, <1>5

\* Renaming an open segment seals it.
LEMMA Renamed ==
    ASSUME NEW d, d \subseteq Names, NEW a, <<a, "open">> \in d,
           NEW e, e = (d \ {<<a, "open">>}) \cup {<<a, "wal">>}
    PROVE  /\ e \subseteq Names /\ Sealed(e) = Sealed(d) \cup {a} /\ Open(e) = Open(d) \ {a}
           /\ Segments(e) = Segments(d)
<1>1. e \subseteq Names
  BY DEF Names
<1>2. \A s : s \in Sealed(e) <=> <<s, "wal">> \in e
  BY ONLY <1>1, NamesView
<1>3. \A s : s \in Open(e) <=> <<s, "open">> \in e
  BY ONLY <1>1, NamesView
<1>4. \A s : s \in Sealed(d) <=> <<s, "wal">> \in d
  BY NamesView
<1>5. \A s : s \in Open(d) <=> <<s, "open">> \in d
  BY NamesView
<1>6. \A s : <<s, "wal">> # <<a, "open">> /\ <<s, "open">> # <<a, "wal">>
  OBVIOUS
<1>7. \A s : (<<s, "wal">> = <<a, "wal">> <=> s = a) /\ (<<s, "open">> = <<a, "open">> <=> s = a)
  OBVIOUS
<1>8. Sealed(e) = Sealed(d) \cup {a}
  <2>1. \A s : s \in Sealed(e) <=> (s \in Sealed(d) \/ s = a)
    BY <1>2, <1>4, <1>6, <1>7
  <2> QED BY <2>1
<1>9. Open(e) = Open(d) \ {a}
  <2>1. \A s : s \in Open(e) <=> (s \in Open(d) /\ s # a)
    BY <1>3, <1>5, <1>6, <1>7
  <2> QED BY <2>1
<1>10. a \in Open(d)
  BY <1>5
<1> QED BY <1>1, <1>8, <1>9, <1>10 DEF Segments

\* Creating a segment adds an open one.
LEMMA Created ==
    ASSUME NEW d, d \subseteq Names, NEW a \in Nat, a > 0, NEW e, e = d \cup {<<a, "open">>}
    PROVE  /\ e \subseteq Names /\ Sealed(e) = Sealed(d) /\ Open(e) = Open(d) \cup {a}
           /\ Segments(e) = Segments(d) \cup {a}
<1>1. e \subseteq Names
  BY DEF Names
<1>2. \A s : s \in Sealed(e) <=> <<s, "wal">> \in e
  BY <1>1, NamesView
<1>3. \A s : s \in Open(e) <=> <<s, "open">> \in e
  BY <1>1, NamesView
<1>4. \A s : s \in Sealed(d) <=> <<s, "wal">> \in d
  BY NamesView
<1>5. \A s : s \in Open(d) <=> <<s, "open">> \in d
  BY NamesView
<1>6. \A s : <<s, "wal">> # <<a, "open">> /\ (<<s, "open">> = <<a, "open">> <=> s = a)
  OBVIOUS
<1>7. Sealed(e) = Sealed(d)
  <2>1. \A s : s \in Sealed(e) <=> s \in Sealed(d)
    BY <1>2, <1>4, <1>6
  <2> QED BY <2>1
<1>8. Open(e) = Open(d) \cup {a}
  <2>1. \A s : s \in Open(e) <=> (s \in Open(d) \/ s = a)
    BY <1>3, <1>5, <1>6
  <2> QED BY <2>1
<1> QED BY <1>1, <1>7, <1>8 DEF Segments

\* Unlinking a sealed segment removes it.
LEMMA Unlinked ==
    ASSUME NEW d, d \subseteq Names, NEW a, NEW e, e = d \ {<<a, "wal">>}
    PROVE  e \subseteq Names /\ Sealed(e) = Sealed(d) \ {a} /\ Open(e) = Open(d)
<1>1. e \subseteq Names
  OBVIOUS
<1>2. \A s : s \in Sealed(e) <=> <<s, "wal">> \in e
  BY <1>1, NamesView
<1>3. \A s : s \in Open(e) <=> <<s, "open">> \in e
  BY <1>1, NamesView
<1>4. \A s : s \in Sealed(d) <=> <<s, "wal">> \in d
  BY NamesView
<1>5. \A s : s \in Open(d) <=> <<s, "open">> \in d
  BY NamesView
<1>6. \A s : <<s, "open">> # <<a, "wal">> /\ (<<s, "wal">> = <<a, "wal">> <=> s = a)
  OBVIOUS
<1>7. Sealed(e) = Sealed(d) \ {a}
  <2>1. \A s : s \in Sealed(e) <=> (s \in Sealed(d) /\ s # a)
    BY <1>2, <1>4, <1>6
  <2> QED BY <2>1
<1>8. Open(e) = Open(d)
  <2>1. \A s : s \in Open(e) <=> s \in Open(d)
    BY <1>3, <1>5, <1>6
  <2> QED BY <2>1
<1> QED BY <1>1, <1>7, <1>8

\* Names seen at two moments.
LEMMA SeenBoth ==
    ASSUME NEW d, d \subseteq Names, NEW e, e \subseteq Names, NEW f, f = d \cap e
    PROVE  /\ f \subseteq Names /\ Sealed(f) = Sealed(d) \cap Sealed(e)
<1>1. f \subseteq Names
  OBVIOUS
<1>2. \A s : s \in Sealed(f) <=> <<s, "wal">> \in f
  BY <1>1, NamesView
<1>3. \A s : s \in Sealed(d) <=> <<s, "wal">> \in d
  BY NamesView
<1>4. \A s : s \in Sealed(e) <=> <<s, "wal">> \in e
  BY NamesView
<1>5. \A s : s \in Sealed(f) <=> (s \in Sealed(d) /\ s \in Sealed(e))
  BY <1>2, <1>3, <1>4
<1> QED BY <1>1, <1>5

\* Names seen at either of two moments.
LEMMA SeenEither ==
    ASSUME NEW d, d \subseteq Names, NEW e, e \subseteq Names, NEW f, f = d \cup e
    PROVE  /\ f \subseteq Names /\ Sealed(f) = Sealed(d) \cup Sealed(e)
           /\ Segments(f) = Segments(d) \cup Segments(e)
<1>1. f \subseteq Names
  OBVIOUS
<1>2. \A s : s \in Sealed(f) <=> <<s, "wal">> \in f
  BY <1>1, NamesView
<1>3. \A s : s \in Sealed(d) <=> <<s, "wal">> \in d
  BY NamesView
<1>4. \A s : s \in Sealed(e) <=> <<s, "wal">> \in e
  BY NamesView
<1>5. \A s : s \in Open(f) <=> <<s, "open">> \in f
  BY <1>1, NamesView
<1>6. \A s : s \in Open(d) <=> <<s, "open">> \in d
  BY NamesView
<1>7. \A s : s \in Open(e) <=> <<s, "open">> \in e
  BY NamesView
<1>8. \A s : s \in Sealed(f) <=> (s \in Sealed(d) \/ s \in Sealed(e))
  BY <1>2, <1>3, <1>4
<1>9. \A s : s \in Open(f) <=> (s \in Open(d) \/ s \in Open(e))
  BY <1>5, <1>6, <1>7
<1> QED BY <1>1, <1>8, <1>9 DEF Segments

\* More names, more segments.
LEMMA SegmentsMonotone ==
    ASSUME NEW d, NEW e, d \subseteq e, e \subseteq Names
    PROVE  Sealed(d) \subseteq Sealed(e) /\ Open(d) \subseteq Open(e) /\ Segments(d) \subseteq Segments(e)
<1>1. Sealed(d) \subseteq Sealed(e)
  BY NamesView
<1>2. Open(d) \subseteq Open(e)
  BY NamesView
<1> QED BY <1>1, <1>2 DEF Segments

\* A layout passes discover_segment_layout, and what passes it is a layout.
LEMMA LayoutValid ==
    ASSUME NEW d, d \subseteq Names
    PROVE  Layout(d) <=> ValidLayout(d)
<1>1. ASSUME Layout(d) PROVE Cardinality(Open(d)) <= 1
  <2>1. \A s, t \in Open(d) : s = t /\ s \in Nat
    BY <1>1, NamesView DEF Layout, Segments
  <2>2. CASE Open(d) = {}
    BY <2>2, FS_EmptySet
  <2>3. CASE Open(d) # {}
    <3>1. PICK x : Open(d) = {x}
      BY <2>1, <2>3
    <3> QED BY <3>1, FS_Singleton
  <2> QED BY <2>2, <2>3
<1>2. \A s \in Segments(d) : s > 0
  BY NamesView
<1> QED BY <1>1, <1>2 DEF Layout, ValidLayout, Segments

\* Max of sealed segments that have a bound.
LEMMA NewestSealed ==
    ASSUME NEW d, d \subseteq Names, Bounded(d), Sealed(d) # {}
    PROVE  /\ Max(Sealed(d)) \in Sealed(d) /\ Max(Sealed(d)) \in Nat
           /\ \A s \in Sealed(d) : s <= Max(Sealed(d))
<1>1. PICK k \in Nat : \A s \in Segments(d) : s <= k
  BY DEF Bounded
<1>2. Sealed(d) \subseteq 0..k
  BY <1>1, NamesView DEF Segments
<1>3. \E x \in Sealed(d) : \A y \in Sealed(d) : y <= x
  BY <1>1, <1>2, GreatestNatural
<1>4. \E x \in Sealed(d) : \A y \in Sealed(d) : x >= y
  BY <1>2, <1>3
<1>5. Max(Sealed(d)) \in Sealed(d) /\ \A y \in Sealed(d) : Max(Sealed(d)) >= y
  BY <1>4 DEF Max
<1> QED BY <1>2, <1>5

\* The open segment of a layout, when there is one, is unique.
LEMMA OnlyOpen ==
    ASSUME NEW d, Layout(d), NEW a \in Open(d)
    PROVE  Open(d) = {a} /\ Max(Open(d)) = a /\ a \in Nat /\ a > 0
<1>1. \A s \in Open(d) : s \in Nat /\ s > 0 /\ s <= a /\ a <= s
  BY NamesView DEF Layout, Segments
<1>2. Open(d) = {a} /\ a \in Nat /\ a > 0
  BY <1>1
<1>3. Max({a}) = a
  BY <1>2 DEF Max
<1> QED BY <1>2, <1>3

\* SealedRecords goes on with the next number, whatever that segment is.
LEMMA AfterIsNext ==
    ASSUME NEW L, Layout(L), Bounded(L), NEW s \in Sealed(L)
    PROVE  AfterSegment(L, s) = Cursor(s + 1, 0) /\ s + 1 \in Segments(L) \cup NextSegment(L)
<1> DEFINE later == {t \in Sealed(L) : t > s}
<1>1. \A t \in Segments(L) : t \in Nat /\ t > 0
  BY NamesView DEF Layout
<1>2. s \in Nat /\ s \in Segments(L) /\ L \subseteq Names
  BY <1>1 DEF Segments, Layout
<1>3. CASE later # {}
  <2>1. PICK t \in Sealed(L) : t > s
    BY <1>3
  <2>2. s + 1 \in Segments(L)
    BY <1>1, <1>2, <2>1 DEF Layout, Segments
  <2>3. s + 1 \notin Open(L)
    BY <1>1, <1>2, <2>1 DEF Layout, Segments
  <2>4. s + 1 \in later /\ \A t2 \in later : s + 1 <= t2
    BY <1>1, <1>2, <2>2, <2>3 DEF Segments
  <2>5. Min(later) = s + 1
    <3>1. \E x \in later : \A y \in later : x <= y
      BY <2>4
    <3>2. Min(later) \in later /\ \A y \in later : Min(later) <= y
      BY <3>1 DEF Min
    <3>3. Min(later) \in Nat
      BY <1>1, <3>2 DEF Segments
    <3> HIDE DEF later
    <3> QED BY <1>2, <2>4, <3>2, <3>3
  <2> QED BY <1>3, <2>2, <2>5 DEF AfterSegment
<1>4. CASE later = {}
  <2>1. \A t \in Sealed(L) : t <= s
    BY <1>1, <1>2, <1>4 DEF Segments
  <2>2. CASE Open(L) # {}
    <3>1. PICK x \in Open(L) : TRUE
      BY <2>2
    <3>2. Max(Open(L)) = x /\ x \in Nat /\ Open(L) = {x}
      BY OnlyOpen
    <3>3. x > s
      BY <1>2, <3>1, <3>2 DEF Layout, Segments
    <3>4. s + 1 \in Segments(L)
      BY <1>2, <3>1, <3>3 DEF Layout, Segments
    <3>5. s + 1 \notin Sealed(L)
      BY <1>2, <2>1
    <3>6. s + 1 = x
      BY <3>2, <3>4, <3>5 DEF Segments
    <3> QED BY <1>4, <2>2, <3>2, <3>4, <3>6 DEF AfterSegment
  <2>3. CASE Open(L) = {}
    <3>1. Max(Sealed(L)) = s
      BY <1>2, <2>1, NewestSealed
    <3> QED BY <1>4, <2>3, <3>1 DEF AfterSegment, NextSegment
  <2> QED BY <2>2, <2>3
<1> QED BY <1>3, <1>4

\* What the segment after the newest sealed one is.
LEMMA NextView ==
    ASSUME NEW L, L \subseteq Names, Bounded(L), NEW n \in NextSegment(L)
    PROVE  /\ Open(L) = {} /\ n \in Nat /\ n - 1 \in Sealed(L)
           /\ \A s \in Segments(L) : s < n
<1>1. Open(L) = {} /\ Sealed(L) # {} /\ n = Max(Sealed(L)) + 1
  BY DEF NextSegment
<1>2. \A s \in Segments(L) : s \in Nat
  BY NamesView
<1> QED BY <1>1, <1>2, NewestSealed DEF Segments


-----------------------------------------------------------------------------
(* What a step may do to the files, and what survives it.                   *)

\* Files only grow.
Grown ==
    \A d \in powerDirs : \A s \in Segments(d) :
        /\ data[s].synced <= data'[s].synced /\ Len(data[s].recs) <= Len(data'[s].recs)
        /\ \A i \in 1..Len(data[s].recs) : data'[s].recs[i] = data[s].recs[i]

\* What was durable stays.
SyncedKept ==
    \A d \in powerDirs : \A s \in Segments(d) :
        /\ data[s].synced <= data'[s].synced
        /\ \A i \in 1..data[s].synced : data'[s].recs[i] = data[s].recs[i]

\* A power cut finds every segment it found before.
NamesHeld == \A e \in powerDirs' : \E d \in powerDirs : Segments(d) \subseteq Segments(e)

\* Nothing in segment s is left to publish.
Spent(s) == \A i \in 1..Len(data[s].recs) : ~Past(cursor, s, i)

\* A power cut finds every segment that still holds something to publish.
NamesKept ==
    \A e \in powerDirs' : \E d \in powerDirs : \A s \in Segments(d) : s \in Segments(e) \/ Spent(s)

\* A power cut finds no record it could not find before.
NothingNew ==
    \A e \in powerDirs' : \E d \in powerDirs : \A s \in Segments(e) :
        \/ Len(data'[s].recs) = 0
        \/ /\ s \in Segments(d) /\ Len(data'[s].recs) <= Len(data[s].recs)
           /\ \A i \in 1..Len(data'[s].recs) : data'[s].recs[i] = data[s].recs[i]

\* The shape of a file.
LEMMA FileShape ==
    ASSUME Shapes, NEW s \in DOMAIN data
    PROVE  /\ data[s].recs \in Seq(Records) /\ Len(data[s].recs) \in Nat
           /\ data[s].synced \in Nat /\ data[s].synced <= Len(data[s].recs)
           /\ data[s].torn \in BOOLEAN
           /\ \A i \in 1..Len(data[s].recs) : data[s].recs[i] \in Records
<1>1. data[s] \in [recs : Seq(Records), synced : Nat, torn : BOOLEAN]
  BY DEF Shapes, TypeOK
<1>2. data[s].synced <= Len(data[s].recs)
  BY DEF Shapes
<1> HIDE DEF Records
<1> QED BY <1>1, <1>2

\* The shape of a file after the step.
LEMMA FileShapeNext ==
    ASSUME Shapes', NEW s \in DOMAIN data'
    PROVE  /\ data'[s].recs \in Seq(Records) /\ Len(data'[s].recs) \in Nat
           /\ data'[s].synced \in Nat /\ data'[s].synced <= Len(data'[s].recs)
           /\ data'[s].torn \in BOOLEAN
<1>1. data'[s] \in [recs : Seq(Records), synced : Nat, torn : BOOLEAN]
  BY DEF Shapes, TypeOK
<1>2. data'[s].synced <= Len(data'[s].recs)
  BY DEF Shapes
<1> HIDE DEF Records
<1> QED BY <1>1, <1>2

\* The files of a directory a power cut may leave.
LEMMA DirFile ==
    ASSUME Shapes, DirsOK, NEW d \in powerDirs, NEW s \in Segments(d)
    PROVE  /\ s \in DOMAIN data /\ s \in Nat /\ s > 0
           /\ data[s].recs \in Seq(Records) /\ Len(data[s].recs) \in Nat
           /\ data[s].synced \in Nat /\ data[s].synced <= Len(data[s].recs)
           /\ \A i \in 1..Len(data[s].recs) : data[s].recs[i] \in Records
<1>1. s \in DOMAIN data /\ d \subseteq Names
  BY DEF DirsOK, Layout
<1> QED BY <1>1, FileShape, NamesView

\* Files that grow keep what was durable.
LEMMA GrownKeepsSynced ==
    ASSUME Shapes, DirsOK, Grown
    PROVE  SyncedKept
<1> SUFFICES ASSUME NEW d \in powerDirs, NEW s \in Segments(d)
             PROVE  /\ data[s].synced <= data'[s].synced
                    /\ \A i \in 1..data[s].synced : data'[s].recs[i] = data[s].recs[i]
  BY DEF SyncedKept
<1>1. data[s].synced \in Nat /\ Len(data[s].recs) \in Nat /\ data[s].synced <= Len(data[s].recs)
  BY DirFile
<1> QED BY <1>1 DEF Grown

\* A segment that stays named is one that is not wholly published.
LEMMA HeldIsKept ==
    ASSUME NamesHeld
    PROVE  NamesKept
  BY DEF NamesHeld, NamesKept

\* A durable record that was within reach of publication still is.
LEMMA SurvivalCarried ==
    ASSUME Shapes, DirsOK, Shapes', DirsOK', SyncedKept, NamesKept, UNCHANGED cursor, NEW r,
           \A d \in powerDirs : SurvivesIn(d, r)
    PROVE  \A e \in powerDirs' : SurvivesIn(e, r)'
<1> SUFFICES ASSUME NEW e \in powerDirs' PROVE SurvivesIn(e, r)'
  OBVIOUS
<1>1. PICK d \in powerDirs : \A s \in Segments(d) : s \in Segments(e) \/ Spent(s)
  BY DEF NamesKept
<1>0. PICK s \in Segments(d) : \E i \in 1..data[s].synced :
          data[s].recs[i] = r /\ (s > cursor.seg \/ (s = cursor.seg /\ i > cursor.off))
  BY DEF SurvivesIn, Segments
<1>2. PICK i \in 1..data[s].synced :
          data[s].recs[i] = r /\ (s > cursor.seg \/ (s = cursor.seg /\ i > cursor.off))
  BY <1>0
<1>3. data[s].synced \in Nat /\ Len(data[s].recs) \in Nat /\ data[s].synced <= Len(data[s].recs)
  BY DirFile
<1>4. i \in 1..Len(data[s].recs) /\ Past(cursor, s, i)
  BY <1>2, <1>3 DEF Past
<1>5. s \in Segments(e)
  BY <1>1, <1>4 DEF Spent
<1>6. s \in DOMAIN data'
  BY <1>5 DEF DirsOK
<1>7. data'[s].synced \in Nat
  BY <1>6, FileShapeNext
<1>8. i \in 1..data'[s].synced /\ data'[s].recs[i] = r
  BY <1>2, <1>3, <1>7 DEF SyncedKept
<1> QED BY <1>2, <1>5, <1>8 DEF SurvivesIn, Segments

\* What was acknowledged stays safe when only the files change.
LEMMA AckedCarried ==
    ASSUME Shapes, DirsOK, Shapes', DirsOK', SyncedKept, NamesKept,
           UNCHANGED <<cursor, acked, published>>, AckedNeverLost
    PROVE  AckedNeverLost'
<1> SUFFICES ASSUME NEW r \in acked', ~(r \in Range(published'))
             PROVE  \A e \in powerDirs' : SurvivesIn(e, r)'
  BY DEF AckedNeverLost
<1>1. \A d \in powerDirs : SurvivesIn(d, r)
  BY DEF AckedNeverLost
<1> QED BY <1>1, SurvivalCarried

\* So does what the group commit has not answered yet.
LEMMA GroupCarried ==
    ASSUME Shapes, DirsOK, Shapes', DirsOK', Grown, NamesKept,
           UNCHANGED <<cursor, published>>, group' \subseteq group, ~poisoned,
           \A d \in powerDirs : active \in Segments(d) =>
              active' = active \/ data'[active].synced >= Len(data[active].recs),
           GroupOK
    PROVE  GroupOK'
<1> SUFFICES ASSUME NEW r \in group', ~(r \in Range(published')), NEW e \in powerDirs'
             PROVE  HeldIn(e, r)'
  BY DEF GroupOK
<1>1. PICK d \in powerDirs : \A s \in Segments(d) : s \in Segments(e) \/ Spent(s)
  BY DEF NamesKept
<1>0. PICK s \in Segments(d) : \E i \in 1..Len(data[s].recs) :
          data[s].recs[i] = r /\ Past(cursor, s, i) /\ (s = active \/ i <= data[s].synced)
  BY DEF GroupOK, HeldIn
<1>2. PICK i \in 1..Len(data[s].recs) :
          data[s].recs[i] = r /\ Past(cursor, s, i) /\ (s = active \/ i <= data[s].synced)
  BY <1>0
<1>3. data[s].synced \in Nat /\ Len(data[s].recs) \in Nat /\ data[s].synced <= Len(data[s].recs)
  BY DirFile
<1>4. s \in Segments(e)
  BY <1>1, <1>2 DEF Spent
<1>5. s \in DOMAIN data'
  BY <1>4 DEF DirsOK
<1>6. data'[s].synced \in Nat /\ Len(data'[s].recs) \in Nat
  BY <1>5, FileShapeNext
<1>7. /\ data[s].synced <= data'[s].synced /\ Len(data[s].recs) <= Len(data'[s].recs)
      /\ data'[s].recs[i] = data[s].recs[i]
  BY DEF Grown
<1>8. i \in 1..Len(data'[s].recs) /\ data'[s].recs[i] = r
  BY <1>2, <1>3, <1>6, <1>7
<1>9. s = active' \/ i <= data'[s].synced
  BY <1>2, <1>3, <1>6, <1>7
<1>10. Past(cursor, s, i)'
  BY <1>2 DEF Past
<1> QED BY <1>4, <1>8, <1>9, <1>10 DEF HeldIn

\* A checkpoint inside a segment stays inside.
LEMMA InsideCarried ==
    ASSUME Shapes, DirsOK, Shapes', DirsOK', SyncedKept, NamesHeld,
           NEW c, c \in Cursors, InsideOK(c)
    PROVE  InsideOK(c)'
<1> SUFFICES ASSUME c.off > 0
             PROVE  /\ \A e \in powerDirs' : c.seg \in Segments(e)
                    /\ c.off < data'[c.seg].synced
  BY DEF InsideOK
<1>1. \A e \in powerDirs' : c.seg \in Segments(e)
  BY DEF InsideOK, NamesHeld
<1>2. dir \in powerDirs /\ c.seg \in Segments(dir)
  BY DEF DirsOK, InsideOK
<1>3. data[c.seg].synced \in Nat /\ data[c.seg].synced <= data'[c.seg].synced
  BY <1>2, DirFile DEF SyncedKept
<1>4. dir' \in powerDirs' /\ c.seg \in DOMAIN data'
  BY <1>1 DEF DirsOK
<1>5. data'[c.seg].synced \in Nat
  BY <1>4, FileShapeNext
<1>6. c.off < data[c.seg].synced /\ c.off \in Nat
  BY DEF InsideOK, Cursors
<1> QED BY <1>1, <1>3, <1>5, <1>6

\* A window that took everything up to c still has.
LEMMA TakenCarried ==
    ASSUME NothingNew, UNCHANGED <<cursor, window>>, Shapes, DirsOK, NEW c, Taken(c)
    PROVE  Taken(c)'
<1> SUFFICES ASSUME NEW e \in powerDirs', NEW s \in Segments(e), NEW i \in 1..Len(data'[s].recs),
                    Past(cursor, s, i), ~Past(c, s, i)
             PROVE  data'[s].recs[i] \in Range(window.recs)
  BY DEF Taken, Past
<1>1. PICK d \in powerDirs :
        \/ Len(data'[s].recs) = 0
        \/ /\ s \in Segments(d) /\ Len(data'[s].recs) <= Len(data[s].recs)
           /\ \A j \in 1..Len(data'[s].recs) : data'[s].recs[j] = data[s].recs[j]
  BY DEF NothingNew
<1>2. Len(data'[s].recs) # 0
  OBVIOUS
<1>3. s \in Segments(d) /\ Len(data'[s].recs) <= Len(data[s].recs) /\ data'[s].recs[i] = data[s].recs[i]
  BY <1>1, <1>2
<1>4. Len(data[s].recs) \in Nat
  BY <1>3, DirFile
<1>5. i \in 1..Len(data[s].recs)
  BY <1>3, <1>4
<1> QED BY <1>3, <1>5 DEF Taken

\* The order of the log is that of a part of it.
LEMMA OrderCarried ==
    ASSUME NothingNew, UNCHANGED <<cursor, published>>, Shapes, DirsOK, Shapes', DirsOK',
           nextRec' >= nextRec, OrderOK
    PROVE  OrderOK'
<1>1. nextRec \in Nat /\ nextRec' \in Nat /\ published \in Seq(Records)
  BY DEF Shapes, TypeOK
<1>2. ASSUME NEW e \in powerDirs'
      PROVE  \E d \in powerDirs : \A s \in Segments(e) : \A i \in 1..Len(data'[s].recs) :
                s \in Segments(d) /\ i \in 1..Len(data[s].recs) /\ data'[s].recs[i] = data[s].recs[i]
  <2>1. PICK d \in powerDirs : \A s \in Segments(e) :
          \/ Len(data'[s].recs) = 0
          \/ /\ s \in Segments(d) /\ Len(data'[s].recs) <= Len(data[s].recs)
             /\ \A j \in 1..Len(data'[s].recs) : data'[s].recs[j] = data[s].recs[j]
    BY DEF NothingNew
  <2>2. ASSUME NEW s \in Segments(e), NEW i \in 1..Len(data'[s].recs)
        PROVE  s \in Segments(d) /\ i \in 1..Len(data[s].recs) /\ data'[s].recs[i] = data[s].recs[i]
    <3>1. Len(data'[s].recs) # 0
      OBVIOUS
    <3>2. s \in Segments(d) /\ Len(data'[s].recs) <= Len(data[s].recs) /\ data'[s].recs[i] = data[s].recs[i]
      BY <2>1, <3>1
    <3>3. Len(data[s].recs) \in Nat
      BY <3>2, DirFile
    <3> QED BY <3>2, <3>3
  <2> QED BY <2>2
<1>3. ASSUME NEW e \in powerDirs', NEW s \in Segments(e), NEW t \in Segments(e),
             NEW i \in 1..Len(data'[s].recs), NEW j \in 1..Len(data'[t].recs), Before(s, i, t, j)
      PROVE  data'[s].recs[i] < data'[t].recs[j]
  BY <1>2, <1>3 DEF OrderOK
<1>4. ASSUME NEW e \in powerDirs', NEW s \in Segments(e), NEW i \in 1..Len(data'[s].recs)
      PROVE  /\ data'[s].recs[i] < nextRec'
             /\ Past(cursor, s, i) => \A k \in 1..Len(published) : published[k] < data'[s].recs[i]
  <2>1. PICK d \in powerDirs : /\ s \in Segments(d) /\ i \in 1..Len(data[s].recs)
                               /\ data'[s].recs[i] = data[s].recs[i]
    BY <1>2
  <2>2. data[s].recs[i] \in Records
    BY <2>1, DirFile
  <2>3. data[s].recs[i] \in Nat
    BY <2>2, RecordsAssumption DEF Records
  <2>4. /\ data[s].recs[i] < nextRec
        /\ Past(cursor, s, i) => \A k \in 1..Len(published) : published[k] < data[s].recs[i]
    BY <2>1 DEF OrderOK
  <2> QED BY <1>1, <2>1, <2>3, <2>4
<1>5. ASSUME NEW k \in 1..Len(published) PROVE published[k] < nextRec'
  <2>1. published[k] \in Records
    BY <1>1
  <2>2. published[k] \in Nat /\ published[k] < nextRec
    BY <2>1, RecordsAssumption DEF Records, OrderOK
  <2> QED BY <1>1, <2>2
<1> QED BY <1>3, <1>4, <1>5 DEF OrderOK, Past, Before

\* A window stays sound while the writer works.
LEMMA WindowCarried ==
    ASSUME Shapes, DirsOK, Shapes', DirsOK', SyncedKept, NamesHeld, NothingNew,
           UNCHANGED <<cursor, window, ppc>>, WindowOK
    PROVE  WindowOK'
<1>1. CASE ppc \in {"read", "commit"}
  <2>1. window.next \in Cursors /\ window.ckpt \in Cursors
    BY DEF Shapes, TypeOK
  <2>2. \A c \in {window.next, window.ckpt} : InsideOK(c) /\ Taken(c)
    BY <1>1 DEF WindowOK
  <2>3. \A c \in Cursors : InsideOK(c) => InsideOK(c)'
    BY InsideCarried
  <2>4. \A c : Taken(c) => Taken(c)'
    BY TakenCarried
  <2>5. \A c \in {window'.next, window'.ckpt} : InsideOK(c)' /\ Taken(c)'
    BY <2>1, <2>2, <2>3, <2>4
  <2>6. \A c \in {window'.next, window'.ckpt} : InLayout(window'.layout, c) /\ Reached(c)'
    BY <1>1 DEF WindowOK, Reached
  <2> QED BY <1>1, <2>5, <2>6 DEF WindowOK
<1>2. CASE ppc \notin {"read", "commit"}
  BY <1>2 DEF WindowOK
<1> QED BY <1>1, <1>2

\* So does its order.
LEMMA WindowOrderCarried ==
    ASSUME Shapes, DirsOK, Shapes', DirsOK', NothingNew, nextRec' >= nextRec,
           UNCHANGED <<window, ppc, published>>, WindowOrderOK
    PROVE  WindowOrderOK'
<1> SUFFICES ASSUME ppc \in {"read", "commit"}
             PROVE  WindowOrderOK'
  BY DEF WindowOrderOK
<1>1. /\ \A k, m \in 1..Len(window.recs) : k < m => window.recs[k] < window.recs[m]
      /\ \A m \in 1..Len(window.recs) :
           /\ window.recs[m] < nextRec
           /\ \A k \in 1..Len(published) : published[k] < window.recs[m]
  BY DEF WindowOrderOK
<1>2. ASSUME NEW m \in 1..Len(window.recs) PROVE window.recs[m] < nextRec'
  <2>1. window.recs \in Seq(Records) /\ nextRec \in Nat /\ nextRec' \in Nat
    BY DEF Shapes, TypeOK
  <2>2. window.recs[m] \in Records
    BY <2>1
  <2>3. window.recs[m] \in Nat
    BY <2>2, RecordsAssumption DEF Records
  <2> QED BY <1>1, <2>1, <2>3
<1>3. ASSUME NEW e \in powerDirs', NEW s \in Segments(e), NEW i \in 1..Len(data'[s].recs),
             NEW c \in {window.next, window.ckpt}, Past(c, s, i), NEW m \in 1..Len(window.recs)
      PROVE  window.recs[m] < data'[s].recs[i]
  <2>1. PICK d \in powerDirs :
          \/ Len(data'[s].recs) = 0
          \/ /\ s \in Segments(d) /\ Len(data'[s].recs) <= Len(data[s].recs)
             /\ \A j \in 1..Len(data'[s].recs) : data'[s].recs[j] = data[s].recs[j]
    BY DEF NothingNew
  <2>2. Len(data'[s].recs) # 0
    OBVIOUS
  <2>3. s \in Segments(d) /\ Len(data'[s].recs) <= Len(data[s].recs) /\ data'[s].recs[i] = data[s].recs[i]
    BY <2>1, <2>2
  <2>4. Len(data[s].recs) \in Nat
    BY <2>3, DirFile
  <2>5. i \in 1..Len(data[s].recs)
    BY <2>3, <2>4
  <2> QED BY <1>3, <2>3, <2>5 DEF WindowOrderOK
<1> QED BY <1>1, <1>2, <1>3 DEF WindowOrderOK, Past

\* A step that leaves the files alone.
LEMMA FilesSame ==
    ASSUME Shapes, DirsOK, UNCHANGED fileVars
    PROVE  DirsOK' /\ Grown /\ NamesHeld /\ NothingNew
<1>1. UNCHANGED <<dir, powerDirs, data>>
  BY DEF fileVars
<1>2. DirsOK'
  BY <1>1 DEF DirsOK, Solid
<1>3. \A d \in powerDirs : \A s \in Segments(d) : Len(data[s].recs) \in Nat /\ data[s].synced \in Nat
  BY DirFile
<1>4. Grown
  BY <1>1, <1>3 DEF Grown
<1>5. NamesHeld
  BY <1>1 DEF NamesHeld
<1>6. NothingNew
  BY <1>1, <1>3 DEF NothingNew
<1> QED BY <1>2, <1>4, <1>5, <1>6

\* What a step that only moves the writer leaves true.
LEMMA WriterCarried ==
    ASSUME DurableInv, OrderInv, Shapes', DirsOK', Grown, NamesHeld, NothingNew,
           UNCHANGED <<cursor, published, ppc, window>>, nextRec' >= nextRec
    PROVE  InsideOK(cursor)' /\ WindowOK' /\ OrderInv' /\ (UNCHANGED acked => AckedNeverLost')
<1>1. Shapes /\ DirsOK /\ CursorOK /\ WindowOK /\ AckedNeverLost
  BY DEF DurableInv
<1>2. SyncedKept /\ NamesKept
  BY <1>1, GrownKeepsSynced, HeldIsKept
<1>3. cursor \in Cursors /\ InsideOK(cursor)
  BY <1>1 DEF Shapes, TypeOK, CursorOK
<1>4. \A c \in Cursors : InsideOK(c) => InsideOK(c)'
  BY <1>1, <1>2, InsideCarried
<1>5. InsideOK(cursor)'
  BY <1>3, <1>4 DEF InsideOK
<1>6. WindowOK'
  BY <1>1, <1>2, WindowCarried
<1>7. OrderInv'
  BY <1>1, OrderCarried, WindowOrderCarried DEF OrderInv
<1>8. UNCHANGED acked => AckedNeverLost'
  BY <1>1, <1>2, AckedCarried
<1> QED BY <1>5, <1>6, <1>7, <1>8

\* What a step of the publisher that neither commits nor touches a file leaves true.
LEMMA PublisherCarried ==
    ASSUME DurableInv, OrderInv, Shapes', UNCHANGED <<fileVars, cursor, writerVars, acked, published>>
    PROVE  DirsOK' /\ InsideOK(cursor)' /\ AckedNeverLost' /\ GroupOK' /\ OrderOK'
<1>1. Shapes /\ DirsOK /\ CursorOK /\ AckedNeverLost /\ GroupOK /\ OrderOK
  BY DEF DurableInv, OrderInv
<1>2. DirsOK' /\ Grown /\ NamesHeld /\ NothingNew
  BY <1>1, FilesSame
<1>3. SyncedKept /\ NamesKept
  BY <1>1, <1>2, GrownKeepsSynced, HeldIsKept
<1>4. cursor \in Cursors /\ InsideOK(cursor)
  BY <1>1 DEF Shapes, TypeOK, CursorOK
<1>5. \A c \in Cursors : InsideOK(c) => InsideOK(c)'
  BY <1>1, <1>2, <1>3, InsideCarried
<1>6. InsideOK(cursor)'
  BY <1>4, <1>5 DEF InsideOK
<1>7. UNCHANGED <<active, poisoned, group, nextRec>>
  BY DEF writerVars
<1>8. AckedNeverLost'
  BY <1>1, <1>2, <1>3, AckedCarried
<1>9. GroupOK'
  BY <1>1, <1>2, <1>3, <1>7, GroupCarried DEF GroupOK
<1>10. nextRec' >= nextRec
  BY <1>1, <1>7 DEF Shapes, TypeOK
<1>11. OrderOK'
  BY <1>1, <1>2, <1>10, OrderCarried
<1> QED BY <1>2, <1>6, <1>8, <1>9, <1>11

\* publish_window returns.
LEMMA Returned ==
    ASSUME DurableInv, OrderInv, Shapes', DirsOK', InsideOK(cursor)', NEW result, PubReturns(result),
           UNCHANGED <<dir, data, cursor, writerVars, acked, published>>, powerDirs' \subseteq powerDirs,
           result = "none" /\ proc = "publishing" => cursor.seg <= active,
           result = "none" /\ proc = "drain" /\ ~poisoned => acked \subseteq Range(published)
    PROVE  /\ ProcOK' /\ OpenOK' /\ CursorOK' /\ ListingOK' /\ DoomedOK' /\ WindowOK' /\ StopOK'
           /\ WindowOrderOK'
<1>0. Shapes /\ DirsOK /\ ProcOK /\ OpenOK /\ CursorOK /\ StopOK
  BY DEF DurableInv
<1>1. ppc' = "idle" /\ goal' = "read"
  BY DEF PubReturns
<1>2. UNCHANGED <<wpc, job, active, poisoned, group, nextRec>>
  BY DEF writerVars
<1>3. /\ proc = "publishing" /\ result = "none" => proc' = "up"
      /\ proc = "publishing" /\ result = "error" => proc' = "refused"
      /\ proc = "drain" /\ result # "some" => proc' = "down"
      /\ \/ proc' = proc
         \/ proc = "publishing" /\ result = "none" /\ proc' = "up"
         \/ proc = "publishing" /\ result = "error" /\ proc' = "refused"
         \/ proc = "drain" /\ result # "some" /\ proc' = "down"
  BY DEF PubReturns
<1>4. \/ exit' = exit
      \/ exit' = "failed"
      \/ proc = "drain" /\ result = "none" /\ ~poisoned /\ exit' = "clean"
  BY DEF PubReturns
<1>5. ListingOK' /\ DoomedOK' /\ WindowOK' /\ WindowOrderOK'
  BY <1>1 DEF ListingOK, DoomedOK, WindowOK, WindowOrderOK
<1>6. ProcOK'
  BY <1>0, <1>1, <1>2, <1>3 DEF ProcOK, Sealing
<1>7. OpenOK'
  BY <1>0, <1>1, <1>2, <1>3 DEF OpenOK, Ended, Solid
<1>8. Top' = Top
  BY <1>2 DEF Top
<1>9. CursorOK'
  <2>1. CASE proc' = proc
    BY <1>0, <1>1, <1>2, <1>8, <2>1 DEF CursorOK
  <2>2. CASE proc = "publishing" /\ result = "none" /\ proc' = "up"
    <3>1. wpc = "ready"
      BY <1>0, <2>2 DEF ProcOK
    <3> QED BY <1>2, <1>8, <2>2, <3>1 DEF CursorOK, Top
  <2>3. CASE proc' \in {"refused", "down"}
    BY <2>3 DEF CursorOK
  <2> QED BY <1>3, <2>1, <2>2, <2>3
<1>10. StopOK'
  <2>1. proc' \in {"sealed", "drain"} /\ ~poisoned' => data'[active'].recs = <<>>
    BY <1>0, <1>2, <1>3 DEF StopOK
  <2>2. exit' = "clean" => proc' = "down" /\ acked' \subseteq Range(published')
    BY <1>0, <1>3, <1>4 DEF StopOK
  <2> QED BY <1>1, <2>1, <2>2 DEF StopOK
<1> QED BY <1>5, <1>6, <1>7, <1>9, <1>10

\* The newest segment the log may go on in bounds every place a window can reach.
LEMMA WithinTop ==
    ASSUME DurableInv, proc \notin {"down", "refused"}, ~poisoned, NEW L, L \subseteq Names,
           Segments(L) \subseteq Segments(dir), Sealed(L) \subseteq Sealed(dir),
           NEW c, InLayout(L, c)
    PROVE  c.seg \in Nat /\ c.seg <= Top
<1>1. Shapes /\ DirsOK /\ OpenOK
  BY DEF DurableInv
<1>2. active \in Nat /\ wpc \in {"ready", "frame", "seal", "renamed", "create", "created"}
  BY <1>1 DEF Shapes, TypeOK
<1>3. dir \in powerDirs /\ Layout(dir) /\ Bounded(dir) /\ dir \subseteq Names
  BY <1>1 DEF DirsOK, Layout
<1>4. \A s \in Segments(dir) : s \in Nat
  BY <1>3, NamesView
<1>5. (\A s \in Segments(dir) : s <= Top) /\ (\A s \in Sealed(dir) : s + 1 <= Top)
  <2>1. CASE wpc \in {"ready", "frame", "seal"}
    <3>1. Open(dir) = {active}
      BY <1>1, <1>3, <2>1 DEF OpenOK
    <3>2. \A s \in Segments(dir) : s <= active
      BY <1>3, <3>1 DEF Layout
    <3>3. \A s \in Sealed(dir) : s \in Segments(dir) /\ s # active
      BY <1>3, <3>1 DEF Layout, Segments
    <3> QED BY <1>2, <1>4, <2>1, <3>2, <3>3 DEF Top
  <2>2. CASE wpc \in {"renamed", "create"}
    <3>1. Ended(dir)
      BY <1>1, <1>3, <2>2 DEF OpenOK
    <3> QED BY <1>2, <1>4, <2>2, <3>1 DEF Top, Ended, Segments
  <2>3. CASE wpc = "created"
    <3>1. Open(dir) = {active + 1}
      BY <1>1, <2>3 DEF OpenOK
    <3>2. \A s \in Segments(dir) : s <= active + 1
      BY <1>3, <3>1 DEF Layout
    <3>3. \A s \in Sealed(dir) : s \in Segments(dir) /\ s # active + 1
      BY <1>3, <3>1 DEF Layout, Segments
    <3> QED BY <1>2, <1>4, <2>3, <3>2, <3>3 DEF Top
  <2> QED BY <1>2, <2>1, <2>2, <2>3
<1>6. Bounded(L)
  BY <1>3 DEF Bounded
<1>7. CASE c.seg \in Segments(L)
  BY <1>4, <1>5, <1>7
<1>8. CASE c.seg \in NextSegment(L)
  <2>1. c.seg \in Nat /\ c.seg - 1 \in Sealed(L)
    BY <1>6, <1>8, NextView
  <2> QED BY <1>5, <2>1
<1> QED BY <1>7, <1>8 DEF InLayout

-----------------------------------------------------------------------------
(* The writer's steps that leave the files alone.                           *)

\* What such a step leaves true.
LEMMA WriterQuiet ==
    ASSUME DurableInv, OrderInv, Shapes',
           UNCHANGED <<fileVars, cursor, active, publisherVars, acked, published>>,
           nextRec' >= nextRec, group' \subseteq group, poisoned => poisoned',
           proc' \in {"publishing", "drain"} => proc' = proc \/ ppc = "idle"
    PROVE  /\ DirsOK' /\ InsideOK(cursor)' /\ ListingOK' /\ DoomedOK' /\ WindowOK'
           /\ AckedNeverLost' /\ GroupOK' /\ OrderInv'
<1>1. Shapes /\ DirsOK /\ ListingOK /\ DoomedOK /\ GroupOK
  BY DEF DurableInv
<1>2. DirsOK' /\ Grown /\ NamesHeld /\ NothingNew
  BY <1>1, FilesSame
<1>3. UNCHANGED <<ppc, goal, tries, listing, window, doomed, report, dir, data, powerDirs>>
  BY DEF publisherVars, fileVars
<1>4. InsideOK(cursor)' /\ WindowOK' /\ OrderInv' /\ AckedNeverLost'
  BY <1>2, <1>3, WriterCarried
<1>5. GroupOK'
  BY <1>1, <1>2, HeldIsKept, GroupCarried DEF GroupOK
<1>6. ListingOK'
  BY <1>1, <1>3 DEF ListingOK
<1>7. DoomedOK'
  BY <1>1, <1>3 DEF DoomedOK
<1> QED BY <1>2, <1>4, <1>5, <1>6, <1>7

\* A refused batch changes nothing.
LEMMA RejectedKeeps ==
    ASSUME DurableInv, OrderInv, WriteRejected
    PROVE  DurableInv' /\ OrderInv'
<1>0. Shapes /\ ProcOK /\ OpenOK /\ CursorOK /\ StopOK
  BY DEF DurableInv
<1>1. UNCHANGED <<fileVars, cursor, proc, wpc, job, active, poisoned, group, publisherVars, observed, failures>>
  BY DEF WriteRejected
<1>2. /\ UNCHANGED <<dir, powerDirs, data, ppc, goal, tries, listing, window, doomed, report>>
      /\ UNCHANGED <<acked, published, exit>>
  BY <1>1 DEF fileVars, publisherVars, observed
<1>3. nextRec \in Nat /\ nextRec' = nextRec + 1 /\ nextRec <= MaxRecords /\ wpc = "ready"
  BY <1>0 DEF WriteRejected, WriterIdle, Shapes, TypeOK
<1>4. Shapes'
  BY <1>0, <1>1, <1>2, <1>3, RecordsAssumption DEF Shapes, TypeOK
<1>5. /\ DirsOK' /\ InsideOK(cursor)' /\ ListingOK' /\ DoomedOK' /\ WindowOK'
      /\ AckedNeverLost' /\ GroupOK' /\ OrderInv'
  BY <1>1, <1>2, <1>3, <1>4, WriterQuiet
<1>6. ProcOK'
  BY <1>0, <1>1, <1>2, <1>3 DEF ProcOK, Sealing
<1>7. OpenOK'
  BY <1>0, <1>1, <1>2 DEF OpenOK, Ended, Solid
<1>8. CursorOK'
  BY <1>0, <1>1, <1>2, <1>5 DEF CursorOK, Top
<1>9. StopOK'
  BY <1>0, <1>1, <1>2 DEF StopOK
<1> QED BY <1>4, <1>5, <1>6, <1>7, <1>8, <1>9 DEF DurableInv

\* A frame cut short poisons the log.
LEMMA WriteFailsKeeps ==
    ASSUME DurableInv, OrderInv, WriteFails
    PROVE  DurableInv' /\ OrderInv'
<1>0. Shapes /\ ProcOK /\ CursorOK /\ StopOK
  BY DEF DurableInv
<1>1. /\ UNCHANGED <<fileVars, cursor, proc, job, active, group, publisherVars, observed>>
      /\ poisoned' = TRUE /\ wpc' = "ready" /\ failures' = failures + 1 /\ failures < MaxFailures
  BY DEF WriteFails, Fault
<1>2. /\ UNCHANGED <<dir, powerDirs, data, ppc, goal, tries, listing, window, doomed, report>>
      /\ UNCHANGED <<acked, published, exit>>
  BY <1>1 DEF fileVars, publisherVars, observed
<1>3. nextRec \in Nat /\ nextRec' = nextRec + 1 /\ nextRec <= MaxRecords /\ proc = "up" /\ wpc = "frame"
  BY <1>0 DEF WriteFails, ProcOK, Shapes, TypeOK
<1>4. Shapes'
  <2>1. failures' \in 0..MaxFailures
    BY <1>0, <1>1, FaultsAssumption DEF Shapes, TypeOK
  <2> QED BY <1>0, <1>1, <1>2, <1>3, <2>1, RecordsAssumption DEF Shapes, TypeOK
<1>5. /\ DirsOK' /\ InsideOK(cursor)' /\ ListingOK' /\ DoomedOK' /\ WindowOK'
      /\ AckedNeverLost' /\ GroupOK' /\ OrderInv'
  BY <1>1, <1>2, <1>3, <1>4, WriterQuiet
<1>6. ProcOK'
  BY <1>0, <1>1, <1>2, <1>3 DEF ProcOK, Sealing
<1>7. OpenOK'
  BY <1>1 DEF OpenOK
<1>8. CursorOK'
  BY <1>1, <1>3, <1>5 DEF CursorOK
<1>9. StopOK'
  BY <1>0, <1>1, <1>2, <1>3 DEF StopOK
<1> QED BY <1>4, <1>5, <1>6, <1>7, <1>8, <1>9 DEF DurableInv

\* A failed fsync answers nobody.
LEMMA SyncFailsKeeps ==
    ASSUME DurableInv, OrderInv, SyncFails
    PROVE  DurableInv' /\ OrderInv'
<1>0. Shapes /\ ProcOK /\ CursorOK /\ StopOK
  BY DEF DurableInv
<1>1. /\ UNCHANGED <<fileVars, cursor, proc, wpc, job, active, nextRec, publisherVars, observed>>
      /\ poisoned' = TRUE /\ group' = {} /\ wpc = "ready" /\ proc = "up"
  <2>1. poisoned => poisoned = TRUE
    BY <1>0 DEF Shapes, TypeOK
  <2> QED BY <2>1 DEF SyncFails, Fault, WriterIdle
<1>2. /\ UNCHANGED <<dir, powerDirs, data, ppc, goal, tries, listing, window, doomed, report>>
      /\ UNCHANGED <<acked, published, exit>>
  BY <1>1 DEF fileVars, publisherVars, observed
<1>3. nextRec \in Nat /\ nextRec' >= nextRec
  BY <1>0, <1>1 DEF Shapes, TypeOK
<1>4. Shapes'
  <2>1. failures' \in 0..MaxFailures
    BY <1>0, FaultsAssumption DEF Shapes, TypeOK, SyncFails, Fault
  <2> QED BY <1>0, <1>1, <1>2, <2>1 DEF Shapes, TypeOK
<1>5. /\ DirsOK' /\ InsideOK(cursor)' /\ ListingOK' /\ DoomedOK' /\ WindowOK'
      /\ AckedNeverLost' /\ GroupOK' /\ OrderInv'
  BY <1>1, <1>2, <1>3, <1>4, WriterQuiet
<1>6. ProcOK'
  BY <1>0, <1>1, <1>2 DEF ProcOK, Sealing
<1>7. OpenOK'
  BY <1>1 DEF OpenOK
<1>8. CursorOK'
  BY <1>1, <1>5 DEF CursorOK
<1>9. StopOK'
  BY <1>0, <1>1, <1>2 DEF StopOK
<1> QED BY <1>4, <1>5, <1>6, <1>7, <1>8, <1>9 DEF DurableInv

\* The interval seal begins.
LEMMA SealTimerKeeps ==
    ASSUME DurableInv, OrderInv, SealTimer
    PROVE  DurableInv' /\ OrderInv'
<1>0. Shapes /\ ProcOK /\ OpenOK /\ CursorOK /\ StopOK
  BY DEF DurableInv
<1>1. /\ UNCHANGED <<fileVars, cursor, proc, active, poisoned, group, nextRec, publisherVars, observed, failures>>
      /\ ~poisoned /\ wpc = "ready" /\ proc = "up" /\ wpc' = "seal" /\ job' = "timer"
  BY DEF SealTimer, WriterIdle
<1>2. /\ UNCHANGED <<dir, powerDirs, data, ppc, goal, tries, listing, window, doomed, report>>
      /\ UNCHANGED <<acked, published, exit>>
  BY <1>1 DEF fileVars, publisherVars, observed
<1>3. nextRec \in Nat /\ nextRec' >= nextRec
  BY <1>0, <1>1 DEF Shapes, TypeOK
<1>4. Shapes'
  BY <1>0, <1>1, <1>2 DEF Shapes, TypeOK
<1>5. /\ DirsOK' /\ InsideOK(cursor)' /\ ListingOK' /\ DoomedOK' /\ WindowOK'
      /\ AckedNeverLost' /\ GroupOK' /\ OrderInv'
  BY <1>1, <1>2, <1>3, <1>4, WriterQuiet
<1>6. ProcOK'
  BY <1>0, <1>1, <1>2 DEF ProcOK, Sealing
<1>7. OpenOK'
  BY <1>0, <1>1, <1>2 DEF OpenOK
<1>8. CursorOK'
  BY <1>0, <1>1, <1>2, <1>5 DEF CursorOK, Top
<1>9. StopOK'
  BY <1>0, <1>1, <1>2 DEF StopOK
<1> QED BY <1>4, <1>5, <1>6, <1>7, <1>8, <1>9 DEF DurableInv

\* Shutdown reaches the writer.
LEMMA StopKeeps ==
    ASSUME DurableInv, OrderInv, Stop
    PROVE  DurableInv' /\ OrderInv'
<1>0. Shapes /\ ProcOK /\ OpenOK /\ CursorOK /\ StopOK
  BY DEF DurableInv
<1>1. /\ UNCHANGED <<fileVars, cursor, active, poisoned, group, nextRec, publisherVars, observed, failures>>
      /\ wpc = "ready" /\ proc = "up" /\ group = {}
      /\ \/ ~poisoned /\ proc' = "stopping" /\ wpc' = "seal" /\ job' = "stop"
         \/ /\ poisoned \/ data[active].recs = <<>>
            /\ proc' = "sealed" /\ UNCHANGED <<wpc, job>>
  BY DEF Stop, WriterIdle, HasRecords
<1>2. /\ UNCHANGED <<dir, powerDirs, data, ppc, goal, tries, listing, window, doomed, report>>
      /\ UNCHANGED <<acked, published, exit>>
  BY <1>1 DEF fileVars, publisherVars, observed
<1>3. nextRec \in Nat /\ nextRec' >= nextRec
  BY <1>0, <1>1 DEF Shapes, TypeOK
<1>4. Shapes'
  BY <1>0, <1>1, <1>2 DEF Shapes, TypeOK
<1>5. /\ DirsOK' /\ InsideOK(cursor)' /\ ListingOK' /\ DoomedOK' /\ WindowOK'
      /\ AckedNeverLost' /\ GroupOK' /\ OrderInv'
  BY <1>1, <1>2, <1>3, <1>4, WriterQuiet
<1>6. ProcOK'
  BY <1>0, <1>1, <1>2 DEF ProcOK, Sealing
<1>7. OpenOK'
  BY <1>0, <1>1, <1>2 DEF OpenOK
<1>8. CursorOK'
  BY <1>0, <1>1, <1>2, <1>5 DEF CursorOK, Top
<1>9. StopOK'
  BY <1>0, <1>1, <1>2 DEF StopOK
<1> QED BY <1>4, <1>5, <1>6, <1>7, <1>8, <1>9 DEF DurableInv

\* A failed system call inside a seal poisons the log.
LEMMA SealFailsKeeps ==
    ASSUME DurableInv, OrderInv, SealFails
    PROVE  DurableInv' /\ OrderInv'
<1>0. Shapes /\ ProcOK /\ CursorOK /\ StopOK
  BY DEF DurableInv
<1>1. /\ UNCHANGED <<fileVars, cursor, active, group, publisherVars, observed>>
      /\ Sealing /\ poisoned' = TRUE /\ wpc' = "ready" /\ job' = "none"
      /\ failures < MaxFailures /\ failures' = failures + 1
  BY DEF SealFails, Fault, Sealing
<1>2. /\ UNCHANGED <<dir, powerDirs, data, ppc, goal, tries, listing, window, doomed, report>>
      /\ UNCHANGED <<acked, published, exit>>
  BY <1>1 DEF fileVars, publisherVars, observed
<1>3. nextRec \in Nat /\ nextRec' \in Nat /\ nextRec' >= nextRec /\ nextRec' \in 1..(MaxRecords + 1)
  BY <1>0, RecordsAssumption DEF Shapes, TypeOK, SealFails, ProcOK
<1>4. \/ job = "open" /\ proc = "opening" /\ proc' = "down"
      \/ job = "stop" /\ proc = "stopping" /\ proc' = "sealed"
      \/ job \in {"write", "timer"} /\ proc = "up" /\ proc' = "up"
  BY <1>0, <1>1 DEF ProcOK, SealFails
<1>5. Shapes'
  <2>1. failures' \in 0..MaxFailures
    BY <1>0, <1>1, FaultsAssumption DEF Shapes, TypeOK
  <2> QED BY <1>0, <1>1, <1>2, <1>3, <1>4, <2>1 DEF Shapes, TypeOK
<1>6. /\ DirsOK' /\ InsideOK(cursor)' /\ ListingOK' /\ DoomedOK' /\ WindowOK'
      /\ AckedNeverLost' /\ GroupOK' /\ OrderInv'
  BY <1>1, <1>2, <1>3, <1>4, <1>5, WriterQuiet
<1>7. ProcOK'
  BY <1>0, <1>1, <1>2, <1>4 DEF ProcOK, Sealing
<1>8. OpenOK'
  BY <1>1 DEF OpenOK
<1>9. CursorOK'
  BY <1>1, <1>4, <1>6 DEF CursorOK
<1>10. StopOK'
  BY <1>0, <1>1, <1>2, <1>4 DEF StopOK
<1> QED BY <1>5, <1>6, <1>7, <1>8, <1>9, <1>10 DEF DurableInv

\* The publisher takes the shutdown signal.
LEMMA DrainBeginKeeps ==
    ASSUME DurableInv, OrderInv, DrainBegin
    PROVE  DurableInv' /\ OrderInv'
<1>0. Shapes /\ ProcOK /\ OpenOK /\ CursorOK /\ StopOK
  BY DEF DurableInv
<1>1. /\ UNCHANGED <<fileVars, cursor, writerVars, publisherVars, observed, failures>>
      /\ proc = "sealed" /\ ppc = "idle" /\ proc' = "drain"
  BY DEF DrainBegin
<1>2. /\ UNCHANGED <<dir, powerDirs, data, ppc, goal, tries, listing, window, doomed, report>>
      /\ UNCHANGED <<acked, published, exit, wpc, job, active, poisoned, group, nextRec>>
  BY <1>1 DEF fileVars, publisherVars, observed, writerVars
<1>3. nextRec \in Nat /\ nextRec' >= nextRec
  BY <1>0, <1>2 DEF Shapes, TypeOK
<1>4. Shapes'
  BY <1>0, <1>1, <1>2 DEF Shapes, TypeOK
<1>5. /\ DirsOK' /\ InsideOK(cursor)' /\ ListingOK' /\ DoomedOK' /\ WindowOK'
      /\ AckedNeverLost' /\ GroupOK' /\ OrderInv'
  BY <1>1, <1>2, <1>3, <1>4, WriterQuiet
<1>6. ProcOK'
  BY <1>0, <1>1, <1>2 DEF ProcOK, Sealing
<1>7. OpenOK'
  BY <1>0, <1>1, <1>2 DEF OpenOK, Ended, Solid
<1>8. CursorOK'
  BY <1>0, <1>1, <1>2, <1>5 DEF CursorOK, Top
<1>9. StopOK'
  BY <1>0, <1>1, <1>2 DEF StopOK, ProcOK
<1> QED BY <1>4, <1>5, <1>6, <1>7, <1>8, <1>9 DEF DurableInv

-----------------------------------------------------------------------------
(* The writer's steps that change a file or the directory.                  *)

\* A frame has begun: the file ends in a torn one.
LEMMA TornFile ==
    ASSUME Shapes, NEW a, data' = [data EXCEPT ![a].torn = TRUE]
    PROVE  /\ DOMAIN data' = DOMAIN data
           /\ \A s \in DOMAIN data :
                /\ data'[s] \in [recs : Seq(Records), synced : Nat, torn : BOOLEAN]
                /\ data'[s].recs = data[s].recs /\ data'[s].synced = data[s].synced
                /\ s # a => data'[s] = data[s]
<1>1. DOMAIN data' = DOMAIN data
  OBVIOUS
<1>2. ASSUME NEW s \in DOMAIN data
      PROVE  /\ data'[s] \in [recs : Seq(Records), synced : Nat, torn : BOOLEAN]
             /\ data'[s].recs = data[s].recs /\ data'[s].synced = data[s].synced
             /\ s # a => data'[s] = data[s]
  <2>1. data[s] \in [recs : Seq(Records), synced : Nat, torn : BOOLEAN]
    BY DEF Shapes, TypeOK
  <2>2. data'[s] = IF s = a THEN [data[s] EXCEPT !.torn = TRUE] ELSE data[s]
    OBVIOUS
  <2> QED BY <2>1, <2>2
<1> QED BY <1>1, <1>2

\* The active file is fsynced.
LEMMA SyncedFile ==
    ASSUME Shapes, data' = SyncedActive
    PROVE  /\ DOMAIN data' = DOMAIN data
           /\ \A s \in DOMAIN data :
                /\ data'[s] \in [recs : Seq(Records), synced : Nat, torn : BOOLEAN]
                /\ data'[s].recs = data[s].recs /\ data'[s].torn = data[s].torn
                /\ data'[s].synced \in {data[s].synced, Len(data[s].recs)}
                /\ s = active => data'[s].synced = Len(data[s].recs)
                /\ s # active => data'[s] = data[s]
<1>0. data' = [data EXCEPT ![active].synced = Len(data[active].recs)]
  BY DEF SyncedActive
<1>1. DOMAIN data' = DOMAIN data
  BY <1>0
<1>2. ASSUME NEW s \in DOMAIN data
      PROVE  /\ data'[s] \in [recs : Seq(Records), synced : Nat, torn : BOOLEAN]
             /\ data'[s].recs = data[s].recs /\ data'[s].torn = data[s].torn
             /\ data'[s].synced \in {data[s].synced, Len(data[s].recs)}
             /\ s = active => data'[s].synced = Len(data[s].recs)
             /\ s # active => data'[s] = data[s]
  <2>1. data[s] \in [recs : Seq(Records), synced : Nat, torn : BOOLEAN] /\ Len(data[s].recs) \in Nat
    BY FileShape DEF Shapes, TypeOK
  <2>2. data'[s] = IF s = active THEN [data[s] EXCEPT !.synced = Len(data[s].recs)] ELSE data[s]
    BY <1>0
  <2> QED BY <2>1, <2>2
<1> QED BY <1>1, <1>2

\* The frame is whole: the active file has one more record.
LEMMA AppendedFile ==
    ASSUME Shapes, nextRec \in Records,
           data' = [data EXCEPT ![active].torn = FALSE, ![active].recs = Append(@, nextRec)]
    PROVE  /\ DOMAIN data' = DOMAIN data
           /\ \A s \in DOMAIN data :
                /\ data'[s] \in [recs : Seq(Records), synced : Nat, torn : BOOLEAN]
                /\ data'[s].synced = data[s].synced
                /\ s = active => data'[s].recs = Append(data[s].recs, nextRec) /\ ~data'[s].torn
                /\ s # active => data'[s] = data[s]
<1> DEFINE mid == [data EXCEPT ![active].torn = FALSE]
<1>0. data' = [mid EXCEPT ![active].recs = Append(@, nextRec)]
  BY Zenon
<1>1. DOMAIN mid = DOMAIN data /\ \A s \in DOMAIN data :
         mid[s] = IF s = active THEN [data[s] EXCEPT !.torn = FALSE] ELSE data[s]
  OBVIOUS
<1> HIDE DEF mid
<1>2. DOMAIN data' = DOMAIN data
  BY <1>0, <1>1
<1>3. ASSUME NEW s \in DOMAIN data
      PROVE  /\ data'[s] \in [recs : Seq(Records), synced : Nat, torn : BOOLEAN]
             /\ data'[s].synced = data[s].synced
             /\ s = active => data'[s].recs = Append(data[s].recs, nextRec) /\ ~data'[s].torn
             /\ s # active => data'[s] = data[s]
  <2>1. data[s] \in [recs : Seq(Records), synced : Nat, torn : BOOLEAN]
    BY DEF Shapes, TypeOK
  <2>2. data'[s] = IF s = active THEN [mid[s] EXCEPT !.recs = Append(mid[s].recs, nextRec)] ELSE mid[s]
    BY <1>0, <1>1
  <2> HIDE DEF Records
  <2>3. CASE s # active
    BY <1>1, <2>1, <2>2, <2>3
  <2>4. CASE s = active
    <3>1. mid[s] = [data[s] EXCEPT !.torn = FALSE]
      BY <1>1, <2>4
    <3>2. mid[s] \in [recs : Seq(Records), synced : Nat, torn : BOOLEAN] /\ mid[s].recs = data[s].recs
          /\ mid[s].synced = data[s].synced /\ mid[s].torn = FALSE
      BY <2>1, <3>1
    <3>3. Append(mid[s].recs, nextRec) \in Seq(Records)
      BY <3>2
    <3>4. data'[s] = [mid[s] EXCEPT !.recs = Append(mid[s].recs, nextRec)]
      BY <2>2, <2>4
    <3> DEFINE q == Append(mid[s].recs, nextRec)
    <3>6. q = Append(data[s].recs, nextRec) /\ q \in Seq(Records)
      BY <3>2, <3>3
    <3>7. data'[s] = [mid[s] EXCEPT !.recs = q]
      BY <3>4
    <3> HIDE DEF q
    <3>8. data'[s] \in [recs : Seq(Records), synced : Nat, torn : BOOLEAN] /\ data'[s].recs = q
          /\ data'[s].synced = mid[s].synced /\ data'[s].torn = mid[s].torn
      BY <3>2, <3>6, <3>7
    <3> QED BY <2>4, <3>2, <3>6, <3>8
  <2> QED BY <2>3, <2>4
<1> QED BY <1>2, <1>3

\* write begins.
LEMMA WriteBeginKeeps ==
    ASSUME DurableInv, OrderInv, WriteBegin
    PROVE  DurableInv' /\ OrderInv'
<1>0. Shapes /\ DirsOK /\ ProcOK /\ OpenOK /\ CursorOK /\ ListingOK /\ DoomedOK /\ GroupOK /\ StopOK
  BY DEF DurableInv
<1>1. /\ UNCHANGED <<dir, powerDirs, cursor, proc, active, poisoned, group, nextRec, publisherVars, observed, failures>>
      /\ ~poisoned /\ wpc = "ready" /\ proc = "up" /\ nextRec <= MaxRecords
      /\ \/ wpc' = "seal" /\ job' = "write" /\ UNCHANGED data
         \/ wpc' = "frame" /\ data' = [data EXCEPT ![active].torn = TRUE] /\ UNCHANGED job
  BY DEF WriteBegin, WriterIdle
<1>2. /\ UNCHANGED <<ppc, goal, tries, listing, window, doomed, report>>
      /\ UNCHANGED <<acked, published, exit>>
  BY <1>1 DEF publisherVars, observed
<1>3. /\ DOMAIN data' = DOMAIN data
      /\ \A s \in DOMAIN data :
           /\ data'[s] \in [recs : Seq(Records), synced : Nat, torn : BOOLEAN]
           /\ data'[s].recs = data[s].recs /\ data'[s].synced = data[s].synced
           /\ s # active => data'[s] = data[s]
  <2>1. CASE UNCHANGED data
    BY <1>0, <2>1 DEF Shapes, TypeOK
  <2>2. CASE data' = [data EXCEPT ![active].torn = TRUE]
    BY <1>0, <2>2, TornFile
  <2> QED BY <1>1, <2>1, <2>2
<1>4. Shapes'
  <2>1. wpc' \in {"ready", "frame", "seal", "renamed", "create", "created"}
        /\ job' \in {"none", "open", "write", "timer", "stop"}
    BY <1>0, <1>1 DEF Shapes, TypeOK
  <2>2. TypeOK'
    BY <1>0, <1>1, <1>2, <1>3, <2>1 DEF Shapes, TypeOK
  <2> QED BY <1>0, <1>3, <2>2 DEF Shapes
<1>5. \A d \in powerDirs : Open(d) = {active} /\ active \notin Sealed(d) /\ Segments(d) \subseteq DOMAIN data
  BY <1>0, <1>1 DEF OpenOK, DirsOK, Layout
<1>6. DirsOK'
  <2>1. \A d \in powerDirs : \A s \in Sealed(d) : Solid(s)'
    BY <1>0, <1>3, <1>5 DEF DirsOK, Solid, Segments
  <2> QED BY <1>0, <1>1, <1>3, <2>1 DEF DirsOK
<1>7. \A d \in powerDirs : \A s \in Segments(d) : Len(data[s].recs) \in Nat /\ data[s].synced \in Nat
  BY <1>0, DirFile
<1>8. Grown /\ NamesHeld /\ NothingNew
  <2>1. Grown
    BY <1>3, <1>5, <1>7 DEF Grown
  <2>2. NamesHeld
    BY <1>1 DEF NamesHeld
  <2>3. NothingNew
    BY <1>1, <1>3, <1>5, <1>7 DEF NothingNew
  <2> QED BY <2>1, <2>2, <2>3
<1>9. nextRec \in Nat /\ nextRec' >= nextRec
  BY <1>0, <1>1 DEF Shapes, TypeOK
<1>10. InsideOK(cursor)' /\ WindowOK' /\ OrderInv' /\ AckedNeverLost'
  BY <1>1, <1>2, <1>4, <1>6, <1>8, <1>9, WriterCarried
<1>11. GroupOK'
  BY <1>0, <1>1, <1>2, <1>4, <1>6, <1>8, HeldIsKept, GroupCarried
<1>12. ProcOK'
  BY <1>0, <1>1, <1>2 DEF ProcOK, Sealing
<1>13. OpenOK'
  BY <1>0, <1>1 DEF OpenOK
<1>14. CursorOK'
  BY <1>0, <1>1, <1>2, <1>10 DEF CursorOK, Top
<1>15. ListingOK'
  BY <1>0, <1>1, <1>2 DEF ListingOK
<1>16. DoomedOK'
  <2>1. Sealed(dir) \subseteq DOMAIN data
    BY <1>0, <1>5 DEF DirsOK, Segments
  <2> QED BY <1>0, <1>1, <1>2, <1>3, <2>1 DEF DoomedOK
<1>17. StopOK'
  BY <1>0, <1>1, <1>2 DEF StopOK
<1> QED BY <1>4, <1>6, <1>10, <1>11, <1>12, <1>13, <1>14, <1>15, <1>16, <1>17 DEF DurableInv

\* The frame is whole.
LEMMA WriteEndKeeps ==
    ASSUME DurableInv, OrderInv, WriteEnd
    PROVE  DurableInv' /\ OrderInv'
<1>0. /\ Shapes /\ DirsOK /\ ProcOK /\ OpenOK /\ CursorOK /\ ListingOK /\ DoomedOK /\ WindowOK
      /\ AckedNeverLost /\ GroupOK /\ StopOK /\ OrderOK /\ WindowOrderOK
  BY DEF DurableInv, OrderInv
<1>1. /\ UNCHANGED <<dir, powerDirs, cursor, proc, job, active, poisoned, publisherVars, observed, failures>>
      /\ wpc = "frame" /\ wpc' = "ready" /\ group' = group \cup {nextRec} /\ nextRec' = nextRec + 1
  BY Zenon DEF WriteEnd
<1>2. /\ UNCHANGED <<ppc, goal, tries, listing, window, doomed, report>>
      /\ UNCHANGED <<acked, published, exit>>
  BY <1>1 DEF publisherVars, observed
<1>3. ~poisoned /\ proc = "up" /\ nextRec \in Nat /\ nextRec \in Records /\ active \in Nat
  BY <1>0, <1>1, RecordsAssumption DEF ProcOK, Shapes, TypeOK, Records
<1>4. /\ DOMAIN data' = DOMAIN data
      /\ \A s \in DOMAIN data :
           /\ data'[s] \in [recs : Seq(Records), synced : Nat, torn : BOOLEAN]
           /\ data'[s].synced = data[s].synced
           /\ s = active => data'[s].recs = Append(data[s].recs, nextRec) /\ ~data'[s].torn
           /\ s # active => data'[s] = data[s]
  <2>1. data' = [data EXCEPT ![active].torn = FALSE, ![active].recs = Append(@, nextRec)]
    BY Zenon DEF WriteEnd
  <2> QED BY <1>0, <1>3, <2>1, AppendedFile, Zenon
<1>5. \A s \in DOMAIN data : /\ data[s].recs \in Seq(Records) /\ Len(data[s].recs) \in Nat
                             /\ data[s].synced \in Nat /\ data[s].synced <= Len(data[s].recs)
  BY <1>0, FileShape
<1>6. ASSUME NEW s \in DOMAIN data
      PROVE  /\ Len(data'[s].recs) \in Nat /\ Len(data[s].recs) <= Len(data'[s].recs)
             /\ \A i \in 1..Len(data[s].recs) : data'[s].recs[i] = data[s].recs[i]
             /\ \A i \in 1..Len(data'[s].recs) :
                  \/ i \in 1..Len(data[s].recs)
                  \/ s = active /\ i = Len(data[s].recs) + 1 /\ data'[s].recs[i] = nextRec
             /\ s = active => Len(data[s].recs) + 1 \in 1..Len(data'[s].recs)
                              /\ data'[s].recs[Len(data[s].recs) + 1] = nextRec
  <2>1. CASE s # active
    BY <1>4, <1>5, <2>1
  <2>2. CASE s = active
    <3> DEFINE q == data[s].recs
               n == Len(q)
    <3>1. q \in Seq(Records) /\ n \in Nat /\ data'[s].recs = Append(q, nextRec)
      BY <1>4, <1>5, <2>2
    <3>2. Len(Append(q, nextRec)) = n + 1
      BY <1>3, <3>1
    <3>3. \A i \in 1..n : Append(q, nextRec)[i] = q[i]
      BY <1>3, <3>1
    <3>4. Append(q, nextRec)[n + 1] = nextRec
      BY <1>3, <3>1
    <3> QED BY <2>2, <3>1, <3>2, <3>3, <3>4
  <2> QED BY <2>1, <2>2
<1>7. Shapes'
  <2>4. TypeOK
    BY <1>0 DEF Shapes
  <2>6. group' \subseteq Records
    BY <1>1, <1>3, <2>4 DEF TypeOK
  <2>7. nextRec' \in 1..(MaxRecords + 1)
    BY <1>1, <1>3, RecordsAssumption DEF Records
  <2>1. group' \subseteq Records /\ nextRec' \in 1..(MaxRecords + 1)
    BY <2>6, <2>7
  <2>5. /\ DOMAIN data' \subseteq Nat
        /\ \A s \in DOMAIN data' : data'[s] \in [recs : Seq(Records), synced : Nat, torn : BOOLEAN]
    BY <1>4, <2>4 DEF TypeOK
  <2>2. TypeOK'
    BY <1>1, <1>2, <2>1, <2>4, <2>5 DEF TypeOK
  <2>3. \A s \in DOMAIN data' : data'[s].synced <= Len(data'[s].recs)
    BY <1>4, <1>5, <1>6
  <2> QED BY <2>2, <2>3 DEF Shapes
<1>8. \A d \in powerDirs : /\ Open(d) = {active} /\ active \notin Sealed(d) /\ active \in Segments(d)
                           /\ Segments(d) \subseteq DOMAIN data /\ \A s \in Segments(d) : s <= active
  BY <1>0, <1>1, <1>3 DEF OpenOK, DirsOK, Layout, Segments
<1>9. DirsOK'
  <2>1. \A d \in powerDirs : \A s \in Sealed(d) : Solid(s)'
    BY <1>0, <1>4, <1>8 DEF DirsOK, Solid, Segments
  <2> QED BY <1>0, <1>1, <1>4, <2>1 DEF DirsOK
<1>10. Grown /\ NamesHeld
  <2>1. Grown
    BY <1>4, <1>5, <1>6, <1>8 DEF Grown
  <2>2. NamesHeld
    BY <1>1 DEF NamesHeld
  <2> QED BY <2>1, <2>2
<1>11. SyncedKept /\ NamesKept
  BY <1>0, <1>10, GrownKeepsSynced, HeldIsKept
<1>12. AckedNeverLost'
  BY <1>0, <1>1, <1>2, <1>7, <1>9, <1>11, AckedCarried
<1>13. \A c \in Cursors : InsideOK(c) => InsideOK(c)'
  BY <1>0, <1>7, <1>9, <1>10, <1>11, InsideCarried
<1>14. ASSUME NEW c \in Cursors, InsideOK(c), c.seg <= active
       PROVE  Past(c, active, Len(data[active].recs) + 1)
  <2>1. dir \in powerDirs /\ active \in DOMAIN data
    BY <1>0, <1>8 DEF DirsOK
  <2>2. c.seg \in Nat /\ c.off \in Nat
    BY DEF Cursors
  <2>3. CASE c.seg < active
    BY <1>3, <2>2, <2>3 DEF Past
  <2>4. CASE c.seg = active
    <3>1. c.off <= Len(data[active].recs)
      BY <1>5, <1>14, <2>1, <2>2, <2>4 DEF InsideOK
    <3> QED BY <1>5, <2>1, <2>2, <2>4, <3>1 DEF Past
  <2> QED BY <1>3, <1>14, <2>2, <2>3, <2>4
<1>15. cursor \in Cursors /\ InsideOK(cursor) /\ cursor.seg <= active
  BY <1>0, <1>1, <1>3 DEF CursorOK, Shapes, TypeOK, Top
<1>16. GroupOK'
  <2> SUFFICES ASSUME NEW r \in group', ~(r \in Range(published)), NEW d \in powerDirs
               PROVE  HeldIn(d, r)'
    BY <1>1, <1>2 DEF GroupOK
  <2>1. CASE r = nextRec
    <3>1. /\ active \in Segments(d) /\ Len(data[active].recs) + 1 \in 1..Len(data'[active].recs)
          /\ data'[active].recs[Len(data[active].recs) + 1] = nextRec
      BY <1>6, <1>8
    <3>2. Past(cursor', active', Len(data[active].recs) + 1)
      BY <1>1, <1>14, <1>15 DEF Past
    <3> QED BY <1>1, <2>1, <3>1, <3>2 DEF HeldIn
  <2>2. CASE r \in group
    <3>1. PICK s \in Segments(d) : \E i \in 1..Len(data[s].recs) :
              /\ data[s].recs[i] = r /\ Past(cursor, s, i)
              /\ s = active \/ i <= data[s].synced
      BY <1>0, <1>3, <2>2 DEF GroupOK, HeldIn
    <3>2. PICK i \in 1..Len(data[s].recs) :
              /\ data[s].recs[i] = r /\ Past(cursor, s, i)
              /\ s = active \/ i <= data[s].synced
      BY <3>1
    <3>3. i \in 1..Len(data'[s].recs) /\ data'[s].recs[i] = r
      BY <1>5, <1>6, <1>8, <3>2
    <3>4. Past(cursor, s, i)' /\ (s = active' \/ i <= data'[s].synced)
      BY <1>1, <1>4, <1>8, <3>2 DEF Past
    <3> QED BY <3>3, <3>4 DEF HeldIn
  <2> QED BY <1>1, <2>1, <2>2
<1>17. ASSUME ppc \in {"read", "commit"} PROVE WindowOK' /\ WindowOrderOK'
  <2>1. /\ Layout(window.layout) /\ window.layout \subseteq Names
        /\ Segments(window.layout) \subseteq Segments(dir) /\ Sealed(window.layout) \subseteq Sealed(dir)
    BY <1>0, <1>17 DEF ListingOK, Layout
  <2>2. ASSUME NEW c \in {window.next, window.ckpt}
        PROVE  c \in Cursors /\ InsideOK(c) /\ c.seg <= active /\ Taken(c)
    <3>1. c \in Cursors /\ InsideOK(c) /\ InLayout(window.layout, c) /\ Taken(c)
      BY <1>0, <1>17 DEF Shapes, TypeOK, WindowOK
    <3>2. c.seg <= Top
      BY <1>3, <2>1, <3>1, WithinTop
    <3> QED BY <1>1, <3>1, <3>2 DEF Top
  <2>3. ASSUME NEW c \in {window.next, window.ckpt}
        PROVE  Taken(c)'
    <3> SUFFICES ASSUME NEW d \in powerDirs, NEW s \in Segments(d), NEW i \in 1..Len(data'[s].recs),
                        Past(cursor, s, i), ~Past(c, s, i)
                 PROVE  data'[s].recs[i] \in Range(window.recs)
      BY <1>1, <1>2 DEF Taken, Past
    <3>1. i \in 1..Len(data[s].recs)
      BY <1>6, <1>8, <1>14, <2>2
    <3> QED BY <1>6, <1>8, <2>2, <3>1 DEF Taken
  <2>4. WindowOK'
    <3>1. \A c \in {window'.next, window'.ckpt} : InsideOK(c)' /\ Taken(c)'
      BY <1>2, <1>13, <2>2, <2>3
    <3>2. \A c \in {window'.next, window'.ckpt} : InLayout(window'.layout, c) /\ Reached(c)'
      BY <1>0, <1>1, <1>2, <1>17 DEF WindowOK, Reached
    <3> QED BY <1>0, <1>1, <1>2, <1>17, <3>1, <3>2 DEF WindowOK
  <2>5. ASSUME NEW m \in 1..Len(window.recs) PROVE window.recs[m] \in Nat /\ window.recs[m] < nextRec
    <3>1. window.recs \in Seq(Records)
      BY <1>0 DEF Shapes, TypeOK
    <3>2. window.recs[m] \in Records
      BY <3>1
    <3> QED BY <1>0, <1>17, <3>2, RecordsAssumption DEF Records, WindowOrderOK
  <2>6. ASSUME NEW d \in powerDirs, NEW s \in Segments(d), NEW i \in 1..Len(data'[s].recs),
               NEW c \in {window.next, window.ckpt}, Past(c, s, i), NEW m \in 1..Len(window.recs)
        PROVE  window.recs[m] < data'[s].recs[i]
    <3>1. CASE i \in 1..Len(data[s].recs)
      BY <1>0, <1>6, <1>8, <1>17, <2>6, <3>1 DEF WindowOrderOK
    <3>2. CASE data'[s].recs[i] = nextRec
      BY <2>5, <3>2
    <3> QED BY <1>6, <1>8, <3>1, <3>2
  <2>7. WindowOrderOK'
    <3>1. \A m \in 1..Len(window'.recs) : window'.recs[m] < nextRec'
      BY <1>1, <1>2, <1>3, <2>5
    <3>2. /\ \A k, m \in 1..Len(window'.recs) : k < m => window'.recs[k] < window'.recs[m]
          /\ \A m \in 1..Len(window'.recs) : \A k \in 1..Len(published') : published'[k] < window'.recs[m]
      BY <1>0, <1>2, <1>17 DEF WindowOrderOK
    <3>3. \A d \in powerDirs' : \A s \in Segments(d) : \A i \in 1..Len(data'[s].recs) :
             \A c \in {window'.next, window'.ckpt} :
               Past(c, s, i) => \A m \in 1..Len(window'.recs) : window'.recs[m] < data'[s].recs[i]
      BY <1>1, <1>2, <2>6
    <3> QED BY <3>1, <3>2, <3>3 DEF WindowOrderOK, Past
  <2> QED BY <2>4, <2>7
<1>18. ASSUME ppc \notin {"read", "commit"} PROVE WindowOK' /\ WindowOrderOK'
  BY <1>0, <1>2, <1>18 DEF WindowOK, WindowOrderOK
<1>19. \A d \in powerDirs : \A s \in Segments(d) : \A i \in 1..Len(data[s].recs) :
          data[s].recs[i] \in Nat /\ data[s].recs[i] < nextRec
  <2> SUFFICES ASSUME NEW d \in powerDirs, NEW s \in Segments(d), NEW i \in 1..Len(data[s].recs)
               PROVE  data[s].recs[i] \in Nat /\ data[s].recs[i] < nextRec
    OBVIOUS
  <2>1. data[s].recs[i] \in Records
    BY <1>0, DirFile
  <2> QED BY <1>0, <2>1, RecordsAssumption DEF Records, OrderOK
<1>20. \A k \in 1..Len(published) : published[k] \in Nat /\ published[k] < nextRec
  <2>1. published \in Seq(Records)
    BY <1>0 DEF Shapes, TypeOK
  <2>2. \A k \in 1..Len(published) : published[k] \in Records
    BY <2>1
  <2> QED BY <1>0, <2>2, RecordsAssumption DEF Records, OrderOK
<1>21. OrderOK'
  <2>1. ASSUME NEW d \in powerDirs, NEW s \in Segments(d), NEW t \in Segments(d),
               NEW i \in 1..Len(data'[s].recs), NEW j \in 1..Len(data'[t].recs), Before(s, i, t, j)
        PROVE  data'[s].recs[i] < data'[t].recs[j]
    <3>0. s \in DOMAIN data /\ t \in DOMAIN data /\ s <= active /\ t <= active /\ s \in Nat /\ t \in Nat
      BY <1>0, <1>8, DirFile
    <3>1. CASE j \in 1..Len(data[t].recs)
      <4>1. i \in 1..Len(data[s].recs)
        <5>1. CASE s = active
          BY <1>3, <1>5, <1>6, <2>1, <3>0, <3>1, <5>1 DEF Before
        <5>2. CASE s # active
          BY <1>6, <3>0, <5>2
        <5> QED BY <5>1, <5>2
      <4> QED BY <1>0, <1>6, <2>1, <3>0, <3>1, <4>1 DEF OrderOK
    <3>2. CASE t = active /\ j = Len(data[t].recs) + 1 /\ data'[t].recs[j] = nextRec
      <4>1. i \in 1..Len(data[s].recs)
        <5>1. CASE s = active
          BY <1>3, <1>5, <1>6, <2>1, <3>0, <3>2, <5>1 DEF Before
        <5>2. CASE s # active
          BY <1>6, <3>0, <5>2
        <5> QED BY <5>1, <5>2
      <4> QED BY <1>6, <1>19, <3>0, <3>2, <4>1
    <3> QED BY <1>6, <3>0, <3>1, <3>2
  <2>2. ASSUME NEW d \in powerDirs, NEW s \in Segments(d), NEW i \in 1..Len(data'[s].recs)
        PROVE  /\ data'[s].recs[i] < nextRec + 1
               /\ Past(cursor, s, i) => \A k \in 1..Len(published) : published[k] < data'[s].recs[i]
    <3>1. CASE i \in 1..Len(data[s].recs)
      BY <1>0, <1>3, <1>6, <1>8, <1>19, <3>1 DEF OrderOK
    <3>2. CASE data'[s].recs[i] = nextRec
      BY <1>3, <1>20, <3>2
    <3> QED BY <1>6, <1>8, <3>1, <3>2
  <2>3. \A k \in 1..Len(published) : published[k] < nextRec + 1
    BY <1>3, <1>20
  <2> QED BY <1>1, <1>2, <2>1, <2>2, <2>3 DEF OrderOK, Past, Before
<1>22. ProcOK'
  BY <1>0, <1>1, <1>2, <1>3 DEF ProcOK, Sealing
<1>23. OpenOK'
  <2>1. dir \in powerDirs /\ active \in DOMAIN data
    BY <1>0, <1>8 DEF DirsOK
  <2> QED BY <1>0, <1>1, <1>3, <1>4, <2>1 DEF OpenOK
<1>24. CursorOK'
  BY <1>0, <1>1, <1>2, <1>3, <1>13, <1>15 DEF CursorOK, Top
<1>25. ListingOK'
  BY <1>0, <1>1, <1>2 DEF ListingOK
<1>26. DoomedOK'
  <2>1. \A s \in Sealed(dir) : s \in DOMAIN data /\ s # active
    BY <1>0, <1>8 DEF DirsOK, Segments
  <2> QED BY <1>0, <1>1, <1>2, <1>4, <2>1 DEF DoomedOK
<1>27. StopOK'
  BY <1>0, <1>1, <1>2, <1>3 DEF StopOK
<1> QED BY <1>7, <1>9, <1>12, <1>16, <1>17, <1>18, <1>21, <1>22, <1>23, <1>24, <1>25, <1>26, <1>27
        DEF DurableInv, OrderInv

\* An fsync of the active file lets the same records be found.
LEMMA SyncCarries ==
    ASSUME Shapes, DirsOK, data' = SyncedActive,
           \A e \in powerDirs' : \E d \in powerDirs : Segments(d) = Segments(e)
    PROVE  Grown /\ NamesHeld /\ NothingNew
<1>1. /\ DOMAIN data' = DOMAIN data
      /\ \A s \in DOMAIN data :
           /\ data'[s].recs = data[s].recs /\ data'[s].synced \in {data[s].synced, Len(data[s].recs)}
  BY SyncedFile
<1>2. \A d \in powerDirs : \A s \in Segments(d) :
         /\ s \in DOMAIN data /\ Len(data[s].recs) \in Nat /\ data[s].synced \in Nat
         /\ data[s].synced <= Len(data[s].recs)
  BY DirFile
<1>3. Grown
  BY <1>1, <1>2 DEF Grown
<1>4. NamesHeld
  BY DEF NamesHeld
<1>5. NothingNew
  BY <1>1, <1>2 DEF NothingNew
<1> QED BY <1>3, <1>4, <1>5

\* The shape of the files after the active one is fsynced.
LEMMA SyncShapes ==
    ASSUME Shapes, data' = SyncedActive
    PROVE  /\ DOMAIN data' \subseteq Nat
           /\ \A s \in DOMAIN data' : data'[s] \in [recs : Seq(Records), synced : Nat, torn : BOOLEAN]
           /\ \A s \in DOMAIN data' : data'[s].synced <= Len(data'[s].recs)
<1>1. /\ DOMAIN data' = DOMAIN data
      /\ \A s \in DOMAIN data :
           /\ data'[s] \in [recs : Seq(Records), synced : Nat, torn : BOOLEAN]
           /\ data'[s].recs = data[s].recs /\ data'[s].synced \in {data[s].synced, Len(data[s].recs)}
  BY SyncedFile
<1>2. DOMAIN data \subseteq Nat
  BY DEF Shapes, TypeOK
<1>3. \A s \in DOMAIN data : Len(data[s].recs) \in Nat /\ data[s].synced <= Len(data[s].recs)
  BY FileShape
<1>4. \A s \in DOMAIN data' : data'[s].synced <= Len(data'[s].recs)
  BY <1>1, <1>3
<1> QED BY <1>1, <1>2, <1>4

\* Group commit: one fsync, then the answers.
LEMMA SyncAndAckKeeps ==
    ASSUME DurableInv, OrderInv, SyncAndAck
    PROVE  DurableInv' /\ OrderInv'
<1>0. /\ Shapes /\ DirsOK /\ ProcOK /\ OpenOK /\ CursorOK /\ ListingOK /\ DoomedOK
      /\ AckedNeverLost /\ GroupOK /\ StopOK
  BY DEF DurableInv
<1>1. /\ UNCHANGED <<dir, powerDirs, cursor, proc, wpc, job, active, poisoned, nextRec,
                     publisherVars, published, exit, failures>>
      /\ wpc = "ready" /\ proc = "up" /\ ~poisoned
      /\ data' = SyncedActive /\ acked' = acked \cup group /\ group' = {}
  BY DEF SyncAndAck, WriterIdle
<1>2. UNCHANGED <<ppc, goal, tries, listing, window, doomed, report>>
  BY <1>1 DEF publisherVars
<1>3. /\ DOMAIN data' = DOMAIN data
      /\ \A s \in DOMAIN data :
           /\ data'[s].recs = data[s].recs /\ data'[s].torn = data[s].torn
           /\ data'[s].synced \in {data[s].synced, Len(data[s].recs)}
           /\ s = active => data'[s].synced = Len(data[s].recs)
           /\ s # active => data'[s] = data[s]
  BY <1>0, <1>1, SyncedFile
<1>4. Shapes'
  <2>1. TypeOK
    BY <1>0 DEF Shapes
  <2>2. /\ DOMAIN data' \subseteq Nat
        /\ \A s \in DOMAIN data' : data'[s] \in [recs : Seq(Records), synced : Nat, torn : BOOLEAN]
        /\ \A s \in DOMAIN data' : data'[s].synced <= Len(data'[s].recs)
    BY <1>0, <1>1, SyncShapes
  <2>3. TypeOK'
    BY <1>1, <1>2, <2>1, <2>2 DEF TypeOK
  <2> QED BY <2>2, <2>3 DEF Shapes
<1>5. \A d \in powerDirs : /\ active \notin Sealed(d) /\ active \in Segments(d)
                           /\ Segments(d) \subseteq DOMAIN data
  BY <1>0, <1>1 DEF OpenOK, DirsOK, Layout, Segments
<1>6. DirsOK'
  <2>1. \A d \in powerDirs : \A s \in Sealed(d) : Solid(s)'
    BY <1>0, <1>3, <1>5 DEF DirsOK, Solid, Segments
  <2> QED BY <1>0, <1>1, <1>3, <2>1 DEF DirsOK
<1>7. Grown /\ NamesHeld /\ NothingNew
  BY <1>0, <1>1, SyncCarries
<1>8. nextRec' >= nextRec
  BY <1>0, <1>1 DEF Shapes, TypeOK
<1>9. InsideOK(cursor)' /\ WindowOK' /\ OrderInv'
  BY <1>1, <1>2, <1>4, <1>6, <1>7, <1>8, WriterCarried
<1>10. AckedNeverLost'
  <2> SUFFICES ASSUME NEW r \in acked', ~(r \in Range(published))
               PROVE  \A e \in powerDirs' : SurvivesIn(e, r)'
    BY <1>1 DEF AckedNeverLost
  <2>1. CASE r \in acked
    <3>1. \A d \in powerDirs : SurvivesIn(d, r)
      BY <1>0, <2>1 DEF AckedNeverLost
    <3> QED BY <1>0, <1>1, <1>4, <1>6, <1>7, <3>1, GrownKeepsSynced, HeldIsKept, SurvivalCarried
  <2>2. CASE r \in group
    <3> SUFFICES ASSUME NEW d \in powerDirs PROVE SurvivesIn(d, r)'
      BY <1>1
    <3>1. PICK s \in Segments(d) : \E i \in 1..Len(data[s].recs) :
              /\ data[s].recs[i] = r /\ Past(cursor, s, i)
              /\ s = active \/ i <= data[s].synced
      BY <1>0, <1>1, <2>2 DEF GroupOK, HeldIn
    <3>2. PICK i \in 1..Len(data[s].recs) :
              /\ data[s].recs[i] = r /\ Past(cursor, s, i)
              /\ s = active \/ i <= data[s].synced
      BY <3>1
    <3>3. s \in DOMAIN data /\ Len(data[s].recs) \in Nat /\ data[s].synced \in Nat
      BY <1>0, DirFile
    <3>4. i \in 1..data'[s].synced
      BY <1>3, <3>2, <3>3
    <3>5. data'[s].recs[i] = r
      BY <1>3, <3>2, <3>3
    <3>6. Past(cursor', s, i)
      BY <1>1, <3>2
    <3> QED BY <3>4, <3>5, <3>6 DEF SurvivesIn, Segments, Past
  <2> QED BY <1>1, <2>1, <2>2
<1>11. GroupOK'
  BY <1>1 DEF GroupOK
<1>12. ProcOK'
  BY <1>0, <1>1, <1>2 DEF ProcOK, Sealing
<1>13. OpenOK'
  <2>1. dir \in powerDirs /\ active \in DOMAIN data
    BY <1>0, <1>5 DEF DirsOK
  <2> QED BY <1>0, <1>1, <1>3, <2>1 DEF OpenOK
<1>14. CursorOK'
  BY <1>0, <1>1, <1>2, <1>9 DEF CursorOK, Top
<1>15. ListingOK'
  BY <1>0, <1>1, <1>2 DEF ListingOK
<1>16. DoomedOK'
  <2>1. \A s \in Sealed(dir) : s \in DOMAIN data
    BY <1>0, <1>5 DEF DirsOK, Segments
  <2> QED BY <1>0, <1>1, <1>2, <1>3, <2>1 DEF DoomedOK
<1>17. StopOK'
  BY <1>0, <1>1, <1>2 DEF StopOK
<1> QED BY <1>4, <1>6, <1>9, <1>10, <1>11, <1>12, <1>13, <1>14, <1>15, <1>16, <1>17 DEF DurableInv

\* What holds while the writer is between two segments.
LEMMA SealingState ==
    ASSUME DurableInv, Sealing
    PROVE  /\ ~poisoned /\ proc \in {"opening", "stopping", "up"} /\ active \in Nat
           /\ proc = "opening" => ppc = "idle"
           /\ ppc # "idle" => cursor.seg <= Top
           /\ exit # "clean"
  BY DEF DurableInv, Shapes, TypeOK, ProcOK, CursorOK, StopOK

\* seal: fsync the file and rename it.
LEMMA SealRenameKeeps ==
    ASSUME DurableInv, OrderInv, SealRename
    PROVE  DurableInv' /\ OrderInv'
<1> DEFINE e == (dir \ {<<active, "open">>}) \cup {<<active, "wal">>}
<1>0. /\ Shapes /\ DirsOK /\ ProcOK /\ OpenOK /\ CursorOK /\ ListingOK /\ DoomedOK
      /\ AckedNeverLost /\ GroupOK /\ StopOK
  BY DEF DurableInv
<1>1. /\ UNCHANGED <<cursor, proc, job, active, poisoned, group, nextRec,
                     ppc, goal, tries, window, doomed, report, observed, failures>>
      /\ wpc = "seal" /\ wpc' = "renamed" /\ data' = SyncedActive
  BY DEF SealRename
<1>2. /\ dir' = e /\ powerDirs' = powerDirs \cup {e}
      /\ ppc = "list" => listing' = [stable |-> listing.stable \cap e, ever |-> listing.ever \cup e]
      /\ ppc # "list" => listing' = listing
  BY DEF SealRename, DirBecomes
<1>3. UNCHANGED <<acked, published, exit>>
  BY <1>1 DEF observed
<1>4. /\ ~poisoned /\ proc \in {"opening", "stopping", "up"} /\ active \in Nat
      /\ proc = "opening" => ppc = "idle"
      /\ ppc # "idle" => cursor.seg <= active
  BY <1>1, SealingState DEF Sealing, Top
<1>5. /\ dir \in powerDirs /\ Layout(dir) /\ dir \subseteq Names
      /\ \A d \in powerDirs : /\ Open(d) = {active} /\ active \notin Sealed(d) /\ active \in Segments(d)
                              /\ Segments(d) \subseteq DOMAIN data /\ \A s \in Segments(d) : s <= active
  BY <1>0, <1>1, <1>4 DEF OpenOK, DirsOK, Layout, Segments
<1>6. /\ e \subseteq Names /\ Sealed(e) = Sealed(dir) \cup {active} /\ Open(e) = {}
      /\ Segments(e) = Segments(dir)
  <2>1. <<active, "open">> \in dir
    BY <1>5, NamesView
  <2> QED BY <1>5, <2>1, Renamed
<1>7. /\ DOMAIN data' = DOMAIN data
      /\ \A s \in DOMAIN data :
           /\ data'[s].recs = data[s].recs /\ data'[s].torn = data[s].torn
           /\ data'[s].synced \in {data[s].synced, Len(data[s].recs)}
           /\ s = active => data'[s].synced = Len(data[s].recs)
           /\ s # active => data'[s] = data[s]
  BY <1>0, <1>1, SyncedFile
<1> HIDE DEF e
<1>8. Shapes'
  <2>1. TypeOK
    BY <1>0 DEF Shapes
  <2>2. /\ DOMAIN data' \subseteq Nat
        /\ \A s \in DOMAIN data' : data'[s] \in [recs : Seq(Records), synced : Nat, torn : BOOLEAN]
        /\ \A s \in DOMAIN data' : data'[s].synced <= Len(data'[s].recs)
    BY <1>0, <1>1, SyncShapes
  <2>3. dir' \in SUBSET Names /\ powerDirs' \in SUBSET SUBSET Names
    BY <1>2, <1>6, <2>1 DEF TypeOK
  <2>4. listing' \in [stable : SUBSET Names, ever : SUBSET Names]
    BY <1>2, <1>6, <2>1 DEF TypeOK
  <2>5. TypeOK'
    BY <1>1, <1>3, <2>1, <2>2, <2>3, <2>4 DEF TypeOK
  <2> QED BY <2>2, <2>5 DEF Shapes
<1>9. Solid(active)'
  <2>1. active \in DOMAIN data /\ ~data[active].torn
    BY <1>0, <1>1, <1>4, <1>5 DEF OpenOK
  <2> QED BY <1>1, <1>7, <2>1 DEF Solid
<1>10. DirsOK'
  <2>1. ASSUME NEW d \in powerDirs, NEW s \in Sealed(d) PROVE Solid(s)'
    BY <1>0, <1>5, <1>7, <2>1 DEF DirsOK, Solid, Segments
  <2>2. ASSUME NEW s \in Sealed(e) PROVE Solid(s)'
    BY <1>1, <1>5, <1>6, <1>9, <2>1 DEF Solid
  <2>3. Layout(e) /\ Bounded(e) /\ Segments(e) \subseteq DOMAIN data'
    <3>1. Bounded(dir) /\ Segments(dir) \subseteq DOMAIN data
      BY <1>0 DEF DirsOK
    <3> QED BY <1>5, <1>6, <1>7, <3>1 DEF Layout, Bounded
  <2>4. \A d \in powerDirs : Layout(d) /\ Bounded(d) /\ Segments(d) \subseteq DOMAIN data'
    BY <1>0, <1>7 DEF DirsOK
  <2>5. \A d \in powerDirs' : Sealed(e) \subseteq Segments(d)
    BY <1>0, <1>2, <1>5, <1>6 DEF DirsOK, Segments
  <2> QED BY <1>2, <2>1, <2>2, <2>3, <2>4, <2>5 DEF DirsOK
<1>11. Grown /\ NamesHeld /\ NothingNew
  <2>1. \A f \in powerDirs' : \E d \in powerDirs : Segments(d) = Segments(f)
    BY <1>2, <1>5, <1>6
  <2> QED BY <1>0, <1>1, <2>1, SyncCarries
<1>12. nextRec' >= nextRec
  BY <1>0, <1>1 DEF Shapes, TypeOK
<1>13. InsideOK(cursor)' /\ WindowOK' /\ OrderInv' /\ AckedNeverLost'
  BY <1>1, <1>3, <1>8, <1>10, <1>11, <1>12, WriterCarried
<1>14. GroupOK'
  BY <1>0, <1>1, <1>3, <1>4, <1>8, <1>10, <1>11, HeldIsKept, GroupCarried
<1>15. ProcOK'
  BY <1>0, <1>1 DEF ProcOK, Sealing
<1>16. OpenOK'
  <2>1. Ended(dir)'
    BY <1>1, <1>2, <1>5, <1>6 DEF Ended, Segments
  <2>2. \A d \in powerDirs : Open(d) = {active'} /\ Solid(active)'
    BY <1>1, <1>5, <1>9
  <2>3. \A d \in powerDirs' : Ended(d)' \/ (Open(d) = {active'} /\ Solid(active)')
    BY <1>2, <2>1, <2>2 DEF Ended
  <2> QED BY <1>1, <2>1, <2>3 DEF OpenOK
<1>17. CursorOK'
  <2>1. Top' = active + 1 /\ Top = active
    BY <1>1 DEF Top
  <2>2. cursor.seg \in Nat
    BY <1>0 DEF Shapes, TypeOK, Cursors
  <2> QED BY <1>0, <1>1, <1>4, <1>13, <2>1, <2>2 DEF CursorOK
<1>18. ListingOK'
  <2>1. Segments(dir') = Segments(dir) /\ Sealed(dir) \subseteq Sealed(dir')
    BY <1>2, <1>6
  <2>2. ASSUME ppc = "list"
        PROVE  /\ listing'.stable \subseteq listing'.ever /\ listing'.ever \subseteq Names
               /\ Segments(listing'.ever) \subseteq Segments(dir')
               /\ Sealed(listing'.ever) \subseteq Sealed(dir')
               /\ goal # "read" =>
                    \A s \in Segments(dir') : s < cursor.seg => s \in Sealed(listing'.stable)
    <3>1. /\ listing.stable \subseteq listing.ever /\ listing.ever \subseteq Names
          /\ Segments(listing.ever) \subseteq Segments(dir)
          /\ Sealed(listing.ever) \subseteq Sealed(dir)
          /\ goal # "read" =>
               \A s \in Segments(dir) : s < cursor.seg => s \in Sealed(listing.stable)
      BY <1>0, <2>2 DEF ListingOK
    <3>2. listing'.stable = listing.stable \cap e /\ listing'.ever = listing.ever \cup e
      BY <1>2, <2>2
    <3>3. /\ listing'.ever \subseteq Names /\ Sealed(listing'.ever) = Sealed(listing.ever) \cup Sealed(e)
          /\ Segments(listing'.ever) = Segments(listing.ever) \cup Segments(e)
      BY <1>6, <3>1, <3>2, SeenEither
    <3>4. Sealed(listing'.stable) = Sealed(listing.stable) \cap Sealed(e)
      BY <1>6, <3>1, <3>2, SeenBoth
    <3>5. Sealed(listing.stable) \subseteq Sealed(listing.ever)
      BY <3>1, SegmentsMonotone
    <3> QED BY <1>2, <1>6, <3>1, <3>2, <3>3, <3>4, <3>5
  <2>3. ASSUME ppc \in {"open", "read", "commit"}
        PROVE  /\ Layout(window.layout)
               /\ Segments(window.layout) \subseteq Segments(dir')
               /\ Sealed(window.layout) \subseteq Sealed(dir')
               /\ goal # "read" =>
                    \A s \in Segments(dir') : s < cursor.seg => s \in Sealed(window.layout)
    BY <1>0, <2>1, <2>3 DEF ListingOK
  <2>4. ppc \in {"read", "commit"} => goal = "read"
    BY <1>0 DEF ListingOK
  <2> QED BY <1>1, <1>4, <2>2, <2>3, <2>4 DEF ListingOK
<1>19. DoomedOK'
  <2>1. \A s \in Sealed(dir) : s \in DOMAIN data
    BY <1>0, <1>5 DEF DirsOK, Segments
  <2> QED BY <1>0, <1>1, <1>2, <1>6, <1>7, <2>1 DEF DoomedOK
<1>20. StopOK'
  BY <1>0, <1>1, <1>3, <1>4 DEF StopOK
<1> QED BY <1>8, <1>10, <1>13, <1>14, <1>15, <1>16, <1>17, <1>18, <1>19, <1>20 DEF DurableInv

\* Once the directory is fsynced a power cut leaves it as it is.
LEMMA DirSyncCarries ==
    ASSUME Shapes, DirsOK, powerDirs' = {dir}, UNCHANGED data
    PROVE  Grown /\ NamesHeld /\ NothingNew
<1>1. \A d \in powerDirs : \A s \in Segments(d) : Len(data[s].recs) \in Nat /\ data[s].synced \in Nat
  BY DirFile
<1>2. dir \in powerDirs
  BY DEF DirsOK
<1>3. Grown
  BY <1>1 DEF Grown
<1>4. NamesHeld
  BY <1>2 DEF NamesHeld
<1>5. NothingNew
  BY <1>1, <1>2 DEF NothingNew
<1> QED BY <1>3, <1>4, <1>5

\* seal: fsync the directory after the rename.
LEMMA SealDirSyncKeeps ==
    ASSUME DurableInv, OrderInv, SealDirSync
    PROVE  DurableInv' /\ OrderInv'
<1>0. /\ Shapes /\ DirsOK /\ ProcOK /\ OpenOK /\ CursorOK /\ ListingOK /\ DoomedOK
      /\ AckedNeverLost /\ GroupOK /\ StopOK
  BY DEF DurableInv
<1>1. /\ UNCHANGED <<data, cursor, proc, job, active, poisoned, group, nextRec,
                     ppc, goal, tries, window, doomed, report, observed, failures, dir, listing>>
      /\ wpc = "renamed" /\ wpc' = "create" /\ powerDirs' = {dir}
  BY DEF SealDirSync, DirSynced
<1>2. UNCHANGED <<acked, published, exit>>
  BY <1>1 DEF observed
<1>3. /\ ~poisoned /\ proc \in {"opening", "stopping", "up"} /\ active \in Nat
  BY <1>1, SealingState DEF Sealing, Top
<1>4. dir \in powerDirs
  BY <1>0 DEF DirsOK
<1>5. Shapes'
  <2>1. TypeOK
    BY <1>0 DEF Shapes
  <2>2. TypeOK'
    BY <1>1, <1>2, <2>1 DEF TypeOK
  <2> QED BY <1>0, <1>1, <2>2 DEF Shapes
<1>6. DirsOK'
  BY <1>0, <1>1, <1>4 DEF DirsOK, Solid
<1>7. Grown /\ NamesHeld /\ NothingNew
  BY <1>0, <1>1, DirSyncCarries
<1>8. nextRec' >= nextRec
  BY <1>0, <1>1 DEF Shapes, TypeOK
<1>9. InsideOK(cursor)' /\ WindowOK' /\ OrderInv' /\ AckedNeverLost'
  BY <1>1, <1>2, <1>5, <1>6, <1>7, <1>8, WriterCarried
<1>10. GroupOK'
  BY <1>0, <1>1, <1>2, <1>3, <1>5, <1>6, <1>7, HeldIsKept, GroupCarried
<1>11. ProcOK'
  BY <1>0, <1>1 DEF ProcOK, Sealing
<1>12. OpenOK'
  BY <1>0, <1>1, <1>3 DEF OpenOK, Ended
<1>13. CursorOK'
  BY <1>0, <1>1, <1>9 DEF CursorOK, Top
<1>14. ListingOK'
  BY <1>0, <1>1 DEF ListingOK
<1>15. DoomedOK'
  BY <1>0, <1>1 DEF DoomedOK
<1>16. StopOK'
  BY <1>0, <1>1, <1>2 DEF StopOK
<1> QED BY <1>5, <1>6, <1>9, <1>10, <1>11, <1>12, <1>13, <1>14, <1>15, <1>16 DEF DurableInv

\* seal: create the next segment.
LEMMA CreateNextKeeps ==
    ASSUME DurableInv, OrderInv, CreateNext
    PROVE  DurableInv' /\ OrderInv'
<1> DEFINE e == dir \cup {<<active + 1, "open">>}
<1>0. /\ Shapes /\ DirsOK /\ ProcOK /\ OpenOK /\ CursorOK /\ ListingOK /\ DoomedOK
      /\ AckedNeverLost /\ GroupOK /\ StopOK
  BY DEF DurableInv
<1>1. /\ UNCHANGED <<cursor, proc, job, active, poisoned, group, nextRec,
                     ppc, goal, tries, window, doomed, report, observed, failures>>
      /\ wpc = "create" /\ wpc' = "created"
  BY DEF CreateNext
<1>2. /\ dir' = e /\ powerDirs' = powerDirs \cup {e}
      /\ ppc = "list" => listing' = [stable |-> listing.stable \cap e, ever |-> listing.ever \cup e]
      /\ ppc # "list" => listing' = listing
  BY DEF CreateNext, DirBecomes
<1>3. UNCHANGED <<acked, published, exit>>
  BY <1>1 DEF observed
<1>4. /\ ~poisoned /\ proc \in {"opening", "stopping", "up"} /\ active \in Nat
      /\ proc = "opening" => ppc = "idle"
      /\ ppc # "idle" => cursor.seg <= active + 1
  BY <1>1, SealingState DEF Sealing, Top
<1>5. /\ dir \in powerDirs /\ Layout(dir) /\ dir \subseteq Names
      /\ \A d \in powerDirs : /\ Ended(d) /\ Segments(d) \subseteq DOMAIN data
                              /\ \A s \in Segments(d) : s \in Nat /\ s <= active /\ s # active + 1
  BY <1>0, <1>1, <1>4, DirFile DEF OpenOK, DirsOK, Layout, Ended
<1>6. /\ e \subseteq Names /\ Sealed(e) = Sealed(dir) /\ Open(e) = {active + 1}
      /\ Segments(e) = Segments(dir) \cup {active + 1}
  <2>1. active + 1 \in Nat /\ active + 1 > 0
    BY <1>4
  <2>2. e \subseteq Names /\ Sealed(e) = Sealed(dir) /\ Open(e) = Open(dir) \cup {active + 1}
        /\ Segments(e) = Segments(dir) \cup {active + 1}
    BY <1>5, <2>1, Created
  <2> QED BY <1>5, <2>2 DEF Ended
<1> HIDE DEF e
<1>7. /\ DOMAIN data' = DOMAIN data \cup {active + 1} /\ data'[active + 1] = Empty
      /\ \A s \in DOMAIN data : s # active + 1 => data'[s] = data[s]
      /\ \A d \in powerDirs : \A s \in Segments(d) : data'[s] = data[s]
  BY <1>5 DEF CreateNext
<1>8. Shapes'
  <2>1. TypeOK
    BY <1>0 DEF Shapes
  <2>2. Empty \in [recs : Seq(Records), synced : Nat, torn : BOOLEAN] /\ Empty.synced <= Len(Empty.recs)
    <3>1. <<>> \in Seq(Records) /\ Len(<<>>) = 0
      OBVIOUS
    <3> HIDE DEF Records
    <3> QED BY <3>1 DEF Empty
  <2>3. /\ DOMAIN data' \subseteq Nat
        /\ \A s \in DOMAIN data' : data'[s] \in [recs : Seq(Records), synced : Nat, torn : BOOLEAN]
    BY <1>4, <1>7, <2>1, <2>2 DEF TypeOK
  <2>4. \A s \in DOMAIN data' : data'[s].synced <= Len(data'[s].recs)
    BY <1>0, <1>7, <2>2 DEF Shapes
  <2>5. dir' \in SUBSET Names /\ powerDirs' \in SUBSET SUBSET Names
    BY <1>2, <1>6, <2>1 DEF TypeOK
  <2>6. listing' \in [stable : SUBSET Names, ever : SUBSET Names]
    BY <1>2, <1>6, <2>1 DEF TypeOK
  <2>7. TypeOK'
    BY <1>1, <1>3, <2>1, <2>3, <2>5, <2>6 DEF TypeOK
  <2> QED BY <2>4, <2>7 DEF Shapes
<1>9. DirsOK'
  <2>1. ASSUME NEW d \in powerDirs, NEW s \in Sealed(d) PROVE Solid(s)'
    BY <1>0, <1>7, <2>1 DEF DirsOK, Solid, Segments
  <2>2. ASSUME NEW s \in Sealed(e) PROVE Solid(s)'
    BY <1>5, <1>6, <2>1
  <2>3. Layout(e)
    <3>1. \A s, t \in Segments(e) : s < t => s + 1 \in Segments(e)
      <4> SUFFICES ASSUME NEW s \in Segments(e), NEW t \in Segments(e), s < t
                   PROVE  s + 1 \in Segments(e)
        OBVIOUS
      <4>1. s \in Segments(dir) /\ s \in Nat /\ s <= active
        BY <1>4, <1>5, <1>6
      <4>2. CASE s = active
        BY <1>6, <4>2
      <4>3. CASE s < active
        <5>1. active \in Segments(dir)
          BY <1>5, <4>1 DEF Ended
        <5> QED BY <1>5, <1>6, <4>1, <4>3, <5>1 DEF Layout
      <4> QED BY <1>4, <4>1, <4>2, <4>3
    <3>2. \A s \in Open(e), t \in Segments(e) : t <= s
      BY <1>4, <1>5, <1>6
    <3>3. Sealed(e) \cap Open(e) = {}
      BY <1>5, <1>6 DEF Segments
    <3> QED BY <1>6, <3>1, <3>2, <3>3 DEF Layout
  <2>4. Bounded(e) /\ Segments(e) \subseteq DOMAIN data'
    <3>1. active + 1 \in Nat /\ \A s \in Segments(e) : s <= active + 1
      BY <1>4, <1>5, <1>6
    <3>2. Segments(e) \subseteq DOMAIN data'
      BY <1>5, <1>6, <1>7
    <3> QED BY <3>1, <3>2 DEF Bounded
  <2>5. \A d \in powerDirs : Layout(d) /\ Bounded(d) /\ Segments(d) \subseteq DOMAIN data'
    BY <1>0, <1>7 DEF DirsOK
  <2>6. \A d \in powerDirs' : Sealed(e) \subseteq Segments(d)
    BY <1>0, <1>2, <1>5, <1>6 DEF DirsOK, Segments
  <2> QED BY <1>2, <2>1, <2>2, <2>3, <2>4, <2>5, <2>6 DEF DirsOK
<1>10. Grown /\ NamesHeld /\ NothingNew
  <2>1. \A d \in powerDirs : \A s \in Segments(d) : Len(data[s].recs) \in Nat /\ data[s].synced \in Nat
    BY <1>0, DirFile
  <2>2. Grown
    BY <1>7, <2>1 DEF Grown
  <2>3. NamesHeld
    BY <1>2, <1>5, <1>6 DEF NamesHeld
  <2>4. Len(data'[active + 1].recs) = 0
    BY <1>7 DEF Empty
  <2>5. NothingNew
    <3> SUFFICES ASSUME NEW f \in powerDirs'
                 PROVE  \E d \in powerDirs : \A s \in Segments(f) :
                           \/ Len(data'[s].recs) = 0
                           \/ /\ s \in Segments(d) /\ Len(data'[s].recs) <= Len(data[s].recs)
                              /\ \A i \in 1..Len(data'[s].recs) : data'[s].recs[i] = data[s].recs[i]
      BY DEF NothingNew
    <3>1. CASE f \in powerDirs
      BY <1>7, <2>1, <3>1
    <3>2. CASE f = e
      BY <1>5, <1>6, <1>7, <2>1, <2>4, <3>2
    <3> QED BY <1>2, <3>1, <3>2
  <2> QED BY <2>2, <2>3, <2>5
<1>11. nextRec' >= nextRec
  BY <1>0, <1>1 DEF Shapes, TypeOK
<1>12. InsideOK(cursor)' /\ WindowOK' /\ OrderInv' /\ AckedNeverLost'
  BY <1>1, <1>3, <1>8, <1>9, <1>10, <1>11, WriterCarried
<1>13. GroupOK'
  BY <1>0, <1>1, <1>3, <1>4, <1>8, <1>9, <1>10, HeldIsKept, GroupCarried
<1>14. ProcOK'
  BY <1>0, <1>1 DEF ProcOK, Sealing
<1>15. OpenOK'
  <2>1. Open(dir') = {active' + 1} /\ data'[active' + 1] = Empty
    BY <1>1, <1>2, <1>6, <1>7
  <2>2. \A d \in powerDirs' : Ended(d)' \/ Open(d) = {active' + 1}
    BY <1>1, <1>2, <1>5, <1>6 DEF Ended
  <2> QED BY <1>1, <2>1, <2>2 DEF OpenOK
<1>16. CursorOK'
  BY <1>0, <1>1, <1>4, <1>12 DEF CursorOK, Top
<1>17. ListingOK'
  <2>0. cursor.seg \in Nat
    BY <1>0 DEF Shapes, TypeOK, Cursors
  <2>1. Segments(dir) \subseteq Segments(dir') /\ Sealed(dir') = Sealed(dir)
        /\ \A s \in Segments(dir') : ppc # "idle" /\ s < cursor.seg => s \in Segments(dir)
    BY <1>2, <1>4, <1>6, <2>0
  <2>2. ASSUME ppc = "list"
        PROVE  /\ listing'.stable \subseteq listing'.ever /\ listing'.ever \subseteq Names
               /\ Segments(listing'.ever) \subseteq Segments(dir')
               /\ Sealed(listing'.ever) \subseteq Sealed(dir')
               /\ goal # "read" =>
                    \A s \in Segments(dir') : s < cursor.seg => s \in Sealed(listing'.stable)
    <3>1. /\ listing.stable \subseteq listing.ever /\ listing.ever \subseteq Names
          /\ Segments(listing.ever) \subseteq Segments(dir)
          /\ Sealed(listing.ever) \subseteq Sealed(dir)
          /\ goal # "read" =>
               \A s \in Segments(dir) : s < cursor.seg => s \in Sealed(listing.stable)
      BY <1>0, <2>2 DEF ListingOK
    <3>2. listing'.stable = listing.stable \cap e /\ listing'.ever = listing.ever \cup e
      BY <1>2, <2>2
    <3>3. /\ listing'.ever \subseteq Names /\ Sealed(listing'.ever) = Sealed(listing.ever) \cup Sealed(e)
          /\ Segments(listing'.ever) = Segments(listing.ever) \cup Segments(e)
      BY <1>6, <3>1, <3>2, SeenEither
    <3>4. Sealed(listing'.stable) = Sealed(listing.stable) \cap Sealed(e)
      BY <1>6, <3>1, <3>2, SeenBoth
    <3>5. Sealed(listing.stable) \subseteq Sealed(listing.ever)
      BY <3>1, SegmentsMonotone
    <3> QED BY <1>2, <1>6, <2>1, <2>2, <3>1, <3>2, <3>3, <3>4, <3>5
  <2>3. ASSUME ppc \in {"open", "read", "commit"}
        PROVE  /\ Layout(window.layout)
               /\ Segments(window.layout) \subseteq Segments(dir')
               /\ Sealed(window.layout) \subseteq Sealed(dir')
               /\ goal # "read" =>
                    \A s \in Segments(dir') : s < cursor.seg => s \in Sealed(window.layout)
    BY <1>0, <2>1, <2>3 DEF ListingOK
  <2>4. ppc \in {"read", "commit"} => goal = "read"
    BY <1>0 DEF ListingOK
  <2> QED BY <1>1, <1>4, <2>2, <2>3, <2>4 DEF ListingOK
<1>18. DoomedOK'
  <2>0. cursor.seg \in Nat
    BY <1>0 DEF Shapes, TypeOK, Cursors
  <2>1. ASSUME ppc = "unlink"
        PROVE  /\ doomed # {} /\ doomed \subseteq Sealed(dir')
               /\ \A s \in doomed : Covered(s, cursor, Len(data'[s].recs))
               /\ \A s \in Segments(dir') : s < cursor.seg => s \in doomed
    <3>1. \A s \in Sealed(dir) : data'[s] = data[s]
      BY <1>5, <1>7 DEF Segments
    <3>2. \A s \in Segments(dir') : s < cursor.seg => s \in Segments(dir)
      BY <1>2, <1>4, <1>6, <2>0, <2>1
    <3> QED BY <1>0, <1>2, <1>6, <2>1, <3>1, <3>2 DEF DoomedOK
  <2> QED BY <1>1, <2>1 DEF DoomedOK, Covered
<1>19. StopOK'
  BY <1>0, <1>1, <1>3, <1>4 DEF StopOK
<1> QED BY <1>8, <1>9, <1>12, <1>13, <1>14, <1>15, <1>16, <1>17, <1>18, <1>19 DEF DurableInv

\* seal: the new segment is durable.
LEMMA CreateSyncKeeps ==
    ASSUME DurableInv, OrderInv, CreateSync
    PROVE  DurableInv' /\ OrderInv'
<1>0. /\ Shapes /\ DirsOK /\ ProcOK /\ OpenOK /\ CursorOK /\ ListingOK /\ DoomedOK
      /\ AckedNeverLost /\ GroupOK /\ StopOK
  BY DEF DurableInv
<1>1. /\ UNCHANGED <<cursor, poisoned, group, nextRec, ppc, goal, tries, window, doomed, report,
                     observed, failures, dir, listing>>
      /\ wpc = "created" /\ powerDirs' = {dir} /\ active' = active + 1 /\ job' = "none"
      /\ \/ job = "write" /\ wpc' = "frame"
         \/ job # "write" /\ wpc' = "ready"
  BY DEF CreateSync, DirSynced
<1>2. UNCHANGED <<acked, published, exit>>
  BY <1>1 DEF observed
<1>3. ~poisoned /\ active \in Nat
  BY <1>1, SealingState DEF Sealing
<1>4. \/ job = "open" /\ proc = "opening" /\ proc' = "publishing" /\ wpc' = "ready" /\ ppc = "idle"
      \/ job = "stop" /\ proc = "stopping" /\ proc' = "sealed" /\ wpc' = "ready"
      \/ job \in {"write", "timer"} /\ proc = "up" /\ proc' = "up"
  <2>1. \/ job = "open" /\ proc = "opening" /\ ppc = "idle"
        \/ job = "stop" /\ proc = "stopping"
        \/ job \in {"write", "timer"} /\ proc = "up"
    BY <1>0, <1>1 DEF ProcOK, Sealing
  <2> QED BY <1>1, <2>1 DEF CreateSync
<1>5. /\ dir \in powerDirs /\ Open(dir) = {active + 1} /\ data[active + 1] = Empty
      /\ active + 1 \in Segments(dir) /\ active + 1 \notin Sealed(dir)
      /\ \A d \in powerDirs : /\ Segments(d) \subseteq DOMAIN data
                              /\ active \in Segments(d) => active \in Sealed(d)
  <2>1. dir \in powerDirs /\ Open(dir) = {active + 1} /\ data[active + 1] = Empty
    BY <1>0, <1>1, <1>3, <1>4 DEF OpenOK, DirsOK
  <2>2. active + 1 \in Segments(dir) /\ active + 1 \notin Sealed(dir)
    BY <1>0, <2>1 DEF DirsOK, Layout, Segments
  <2>3. \A d \in powerDirs : Open(d) = {} \/ Open(d) = {active + 1}
    BY <1>0, <1>1, <1>3, <1>4 DEF OpenOK, Ended
  <2>4. \A d \in powerDirs : active \in Segments(d) => active \in Sealed(d)
    BY <1>3, <2>3 DEF Segments
  <2> QED BY <1>0, <2>1, <2>2, <2>4 DEF DirsOK
<1>6. /\ DOMAIN data' = DOMAIN data
      /\ \A s \in DOMAIN data :
           /\ data'[s] \in [recs : Seq(Records), synced : Nat, torn : BOOLEAN]
           /\ data'[s].recs = data[s].recs /\ data'[s].synced = data[s].synced
           /\ s # active + 1 \/ wpc' = "ready" => data'[s] = data[s]
  <2>1. CASE job = "write"
    <3>1. data' = [data EXCEPT ![active + 1].torn = TRUE]
      BY <2>1 DEF CreateSync
    <3> QED BY <1>0, <1>1, <2>1, <3>1, TornFile
  <2>2. CASE job # "write"
    <3>1. data' = data
      BY <2>2 DEF CreateSync
    <3> QED BY <1>0, <3>1 DEF Shapes, TypeOK
  <2> QED BY <2>1, <2>2
<1>7. Shapes'
  <2>1. TypeOK
    BY <1>0 DEF Shapes
  <2>2. /\ DOMAIN data' \subseteq Nat
        /\ \A s \in DOMAIN data' : data'[s] \in [recs : Seq(Records), synced : Nat, torn : BOOLEAN]
    BY <1>6, <2>1 DEF TypeOK
  <2>3. active' \in Nat
    BY <1>1, <1>3
  <2>4. TypeOK'
    BY <1>1, <1>2, <1>4, <2>1, <2>2, <2>3 DEF TypeOK
  <2>5. \A s \in DOMAIN data' : data'[s].synced <= Len(data'[s].recs)
    BY <1>0, <1>6 DEF Shapes
  <2> QED BY <2>4, <2>5 DEF Shapes
<1>8. DirsOK'
  <2>1. \A s \in Sealed(dir) : Solid(s)'
    BY <1>0, <1>5, <1>6 DEF DirsOK, Solid, Segments
  <2> QED BY <1>0, <1>1, <1>5, <1>6, <2>1 DEF DirsOK, Segments
<1>9. Grown /\ NamesHeld /\ NothingNew
  <2>1. \A d \in powerDirs : \A s \in Segments(d) : Len(data[s].recs) \in Nat /\ data[s].synced \in Nat
    BY <1>0, DirFile
  <2>2. Grown
    BY <1>5, <1>6, <2>1 DEF Grown
  <2>3. NamesHeld
    BY <1>1, <1>5 DEF NamesHeld
  <2>4. NothingNew
    BY <1>1, <1>5, <1>6, <2>1 DEF NothingNew
  <2> QED BY <2>2, <2>3, <2>4
<1>10. nextRec' >= nextRec
  BY <1>0, <1>1 DEF Shapes, TypeOK
<1>11. InsideOK(cursor)' /\ WindowOK' /\ OrderInv' /\ AckedNeverLost'
  BY <1>1, <1>2, <1>7, <1>8, <1>9, <1>10, WriterCarried
<1>12. GroupOK'
  <2>1. ASSUME NEW d \in powerDirs, active \in Segments(d)
        PROVE  data'[active].synced >= Len(data[active].recs)
    <3>1. Solid(active)
      BY <1>0, <1>5, <2>1 DEF DirsOK
    <3>2. Len(data[active].recs) \in Nat
      BY <1>0, <2>1, DirFile
    <3> QED BY <1>5, <1>6, <2>1, <3>1, <3>2 DEF Solid
  <2> QED BY <1>0, <1>1, <1>2, <1>3, <1>7, <1>8, <1>9, <2>1, HeldIsKept, GroupCarried
<1>13. ProcOK'
  <2>1. job = "write" => nextRec <= MaxRecords
    BY <1>0 DEF ProcOK
  <2>2. proc # "up" => group = {}
    BY <1>0 DEF ProcOK
  <2> QED BY <1>0, <1>1, <1>3, <1>4, <2>1, <2>2 DEF ProcOK, Sealing
<1>14. OpenOK'
  <2>1. wpc' = "ready" => ~data'[active'].torn
    BY <1>1, <1>5, <1>6 DEF Empty
  <2> QED BY <1>1, <1>3, <1>5, <2>1 DEF OpenOK
<1>15. CursorOK'
  <2>1. Top' = Top
    BY <1>1, <1>3 DEF Top
  <2> QED BY <1>0, <1>1, <1>3, <1>4, <1>11, <2>1 DEF CursorOK, ProcOK
<1>16. ListingOK'
  BY <1>0, <1>1, <1>4 DEF ListingOK
<1>17. DoomedOK'
  <2>1. \A s \in Sealed(dir) : s \in DOMAIN data
    BY <1>5 DEF Segments
  <2> QED BY <1>0, <1>1, <1>6, <2>1 DEF DoomedOK
<1>18. StopOK'
  <2>1. proc' = "sealed" => data'[active'].recs = <<>>
    BY <1>1, <1>4, <1>5, <1>6 DEF Empty
  <2> QED BY <1>0, <1>1, <1>2, <1>4, <2>1 DEF StopOK
<1> QED BY <1>7, <1>8, <1>11, <1>12, <1>13, <1>14, <1>15, <1>16, <1>17, <1>18 DEF DurableInv

-----------------------------------------------------------------------------
(* Starts and crashes.                                                      *)

\* Recovery drops a torn tail.
LEMMA RepairedFile ==
    ASSUME Shapes, NEW a, data' = [data EXCEPT ![a] = Repaired(@)]
    PROVE  /\ DOMAIN data' = DOMAIN data
           /\ \A s \in DOMAIN data :
                /\ data'[s] \in [recs : Seq(Records), synced : Nat, torn : BOOLEAN]
                /\ data'[s].recs = data[s].recs
                /\ data'[s].synced \in {data[s].synced, Len(data[s].recs)}
                /\ s = a => ~data'[s].torn
                /\ s # a => data'[s] = data[s]
<1>1. DOMAIN data' = DOMAIN data
  OBVIOUS
<1>2. ASSUME NEW s \in DOMAIN data
      PROVE  /\ data'[s] \in [recs : Seq(Records), synced : Nat, torn : BOOLEAN]
             /\ data'[s].recs = data[s].recs
             /\ data'[s].synced \in {data[s].synced, Len(data[s].recs)}
             /\ s = a => ~data'[s].torn
             /\ s # a => data'[s] = data[s]
  <2>1. data[s] \in [recs : Seq(Records), synced : Nat, torn : BOOLEAN] /\ Len(data[s].recs) \in Nat
    BY FileShape DEF Shapes, TypeOK
  <2>2. data'[s] = IF s = a THEN Repaired(data[s]) ELSE data[s]
    OBVIOUS
  <2>3. CASE s # a
    BY <2>1, <2>2, <2>3
  <2>4. CASE s = a /\ ~data[s].torn
    BY <2>1, <2>2, <2>4 DEF Repaired
  <2>5. CASE s = a /\ data[s].torn
    <3> DEFINE n == Len(data[s].recs)
    <3>1. data'[s] = [data[s] EXCEPT !.torn = FALSE, !.synced = n]
      BY <2>2, <2>5 DEF Repaired
    <3>2. n \in Nat
      BY <2>1
    <3> HIDE DEF n
    <3> DEFINE mid == [data[s] EXCEPT !.torn = FALSE]
    <3>3. data'[s] = [mid EXCEPT !.synced = n]
      BY <3>1, Zenon
    <3>4. mid \in [recs : Seq(Records), synced : Nat, torn : BOOLEAN] /\ mid.recs = data[s].recs /\ mid.torn = FALSE
      BY <2>1
    <3> HIDE DEF mid
    <3>5. /\ data'[s] \in [recs : Seq(Records), synced : Nat, torn : BOOLEAN]
          /\ data'[s].recs = mid.recs /\ data'[s].torn = mid.torn /\ data'[s].synced = n
      BY <3>2, <3>3, <3>4
    <3> QED BY <2>5, <3>4, <3>5 DEF n
  <2> QED BY <2>3, <2>4, <2>5
<1> QED BY <1>1, <1>2

\* WriteAheadLog::open.
LEMMA StartKeeps ==
    ASSUME DurableInv, OrderInv, Start
    PROVE  DurableInv' /\ OrderInv'
<1>0. /\ Shapes /\ DirsOK /\ ProcOK /\ CursorOK /\ GroupOK /\ StopOK /\ AckedNeverLost
  BY DEF DurableInv
<1>1. /\ UNCHANGED <<cursor, group, nextRec, ppc, goal, tries, window, doomed, acked, published,
                     failures, dir, listing>>
      /\ proc \in {"down", "refused"} /\ wpc = "ready" /\ ppc = "idle" /\ goal = "read" /\ group = {}
      /\ powerDirs' = {dir} /\ poisoned' = FALSE /\ exit' = "none" /\ report' = "ok"
  BY <1>0 DEF Start, DirSynced, ProcOK
<1>2. dir \in powerDirs /\ Layout(dir) /\ Bounded(dir) /\ dir \subseteq Names
  BY <1>0 DEF DirsOK, Layout
<1>3. \/ /\ proc' = "refused" /\ UNCHANGED <<data, wpc, job, active>>
      \/ /\ Open(dir) = {} /\ active' = LastSealed(dir) /\ UNCHANGED data
         /\ proc' = "opening" /\ wpc' = "create" /\ job' = "open"
      \/ /\ Open(dir) # {} /\ active' = Max(Open(dir))
         /\ data' = [data EXCEPT ![Max(Open(dir))] = Repaired(@)]
         /\ \/ proc' = "publishing" /\ UNCHANGED <<wpc, job>>
            \/ proc' = "opening" /\ wpc' = "seal" /\ job' = "open"
  BY DEF Start
<1>4. /\ DOMAIN data' = DOMAIN data
      /\ \A s \in DOMAIN data :
           /\ data'[s] \in [recs : Seq(Records), synced : Nat, torn : BOOLEAN]
           /\ data'[s].recs = data[s].recs
           /\ data'[s].synced \in {data[s].synced, Len(data[s].recs)}
           /\ s \in Sealed(dir) => data'[s] = data[s]
  <2>1. CASE UNCHANGED data
    BY <1>0, <2>1 DEF Shapes, TypeOK
  <2>2. CASE Open(dir) # {} /\ data' = [data EXCEPT ![Max(Open(dir))] = Repaired(@)]
    <3>1. PICK a \in Open(dir) : TRUE
      BY <2>2
    <3>2. Max(Open(dir)) = a /\ a \notin Sealed(dir)
      BY <1>2, <3>1, OnlyOpen DEF Layout
    <3> QED BY <1>0, <2>2, <3>2, RepairedFile
  <2> QED BY <1>3, <2>1, <2>2
<1>5. \A s \in DOMAIN data : Len(data[s].recs) \in Nat /\ data[s].synced \in Nat
                             /\ data[s].synced <= Len(data[s].recs)
  BY <1>0, FileShape
<1>6. active' \in Nat
  <2>1. CASE Open(dir) = {}
    <3>1. LastSealed(dir) \in Nat
      BY <1>2, NewestSealed DEF LastSealed
    <3> QED BY <1>0, <1>3, <2>1, <3>1 DEF Shapes, TypeOK
  <2>2. CASE Open(dir) # {}
    <3>1. PICK a \in Open(dir) : TRUE
      BY <2>2
    <3>2. Max(Open(dir)) \in Nat
      BY <1>2, <3>1, OnlyOpen
    <3> QED BY <1>0, <1>3, <2>2, <3>2 DEF Shapes, TypeOK
  <2> QED BY <2>1, <2>2
<1>7. Shapes'
  <2>1. TypeOK
    BY <1>0 DEF Shapes
  <2>2. /\ DOMAIN data' \subseteq Nat
        /\ \A s \in DOMAIN data' : data'[s] \in [recs : Seq(Records), synced : Nat, torn : BOOLEAN]
    BY <1>4, <2>1 DEF TypeOK
  <2>3. proc' \in {"refused", "opening", "publishing"} /\ wpc' \in {wpc, "create", "seal"}
        /\ job' \in {job, "open"}
    BY <1>3
  <2>4. TypeOK'
    BY <1>1, <1>6, <2>1, <2>2, <2>3 DEF TypeOK
  <2>5. \A s \in DOMAIN data' : data'[s].synced <= Len(data'[s].recs)
    BY <1>4, <1>5
  <2> QED BY <2>4, <2>5 DEF Shapes
<1>8. DirsOK'
  <2>1. \A s \in Sealed(dir) : Solid(s)'
    BY <1>0, <1>2, <1>4 DEF DirsOK, Solid, Segments
  <2> QED BY <1>0, <1>1, <1>2, <1>4, <2>1 DEF DirsOK, Segments
<1>9. Grown /\ NamesHeld /\ NothingNew
  <2>1. \A d \in powerDirs : Segments(d) \subseteq DOMAIN data
    BY <1>0 DEF DirsOK
  <2>2. Grown
    BY <1>4, <1>5, <2>1 DEF Grown
  <2>3. NamesHeld
    BY <1>1, <1>2 DEF NamesHeld
  <2>4. NothingNew
    BY <1>1, <1>2, <1>4, <1>5, <2>1 DEF NothingNew
  <2> QED BY <2>2, <2>3, <2>4
<1>10. nextRec' >= nextRec
  BY <1>0, <1>1 DEF Shapes, TypeOK
<1>11. InsideOK(cursor)' /\ WindowOK' /\ OrderInv' /\ AckedNeverLost'
  BY <1>1, <1>7, <1>8, <1>9, <1>10, WriterCarried
<1>12. GroupOK'
  BY <1>1 DEF GroupOK
<1>13. ProcOK'
  <2>1. job = "none"
    BY <1>0, <1>1 DEF ProcOK, Sealing
  <2> QED BY <1>1, <1>3, <2>1 DEF ProcOK, Sealing
<1>14. OpenOK'
  <2>1. CASE proc' = "refused"
    BY <2>1 DEF OpenOK
  <2>2. CASE Open(dir) = {} /\ active' = LastSealed(dir) /\ wpc' = "create"
    <3>1. Segments(dir) = Sealed(dir)
      BY <2>2 DEF Segments
    <3>2. CASE Sealed(dir) = {}
      BY <1>1, <2>2, <3>1, <3>2 DEF OpenOK, Ended
    <3>3. CASE Sealed(dir) # {}
      <4>1. LastSealed(dir) \in Sealed(dir) /\ \A s \in Sealed(dir) : s <= LastSealed(dir)
        BY <1>2, <3>3, NewestSealed DEF LastSealed
      <4>2. Ended(dir)'
        BY <1>1, <2>2, <3>1, <4>1 DEF Ended
      <4>3. \A d \in powerDirs' : Ended(d)'
        BY <1>1, <4>2 DEF Ended
      <4> QED BY <2>2, <4>3 DEF OpenOK
    <3> QED BY <3>2, <3>3
  <2>3. CASE /\ Open(dir) # {} /\ active' = Max(Open(dir)) /\ wpc' \in {"ready", "seal"}
             /\ data' = [data EXCEPT ![Max(Open(dir))] = Repaired(@)]
    <3>1. PICK a \in Open(dir) : TRUE
      BY <2>3
    <3>2. Max(Open(dir)) = a /\ Open(dir) = {a}
      BY <1>2, <3>1, OnlyOpen
    <3>3. a \in DOMAIN data
      BY <1>0, <1>2 DEF DirsOK, Segments
    <3>4. ~data'[a].torn
      BY <1>0, <2>3, <3>2, <3>3, RepairedFile
    <3> QED BY <1>1, <2>3, <3>2, <3>4 DEF OpenOK
  <2> QED BY <1>1, <1>3, <2>1, <2>2, <2>3
<1>15. CursorOK'
  BY <1>1, <1>3, <1>11 DEF CursorOK
<1>16. ListingOK' /\ DoomedOK'
  BY <1>1 DEF ListingOK, DoomedOK
<1>17. StopOK'
  BY <1>1, <1>3 DEF StopOK
<1> QED BY <1>7, <1>8, <1>11, <1>12, <1>13, <1>14, <1>15, <1>16, <1>17 DEF DurableInv

\* What every crash leaves.
LEMMA MemoryLostKeeps ==
    ASSUME DurableInv, OrderInv, MemoryLost, Shapes', DirsOK', SyncedKept, NamesHeld, NothingNew
    PROVE  DurableInv' /\ OrderInv'
<1>0. Shapes /\ DirsOK /\ ProcOK /\ CursorOK /\ AckedNeverLost /\ OrderOK
  BY DEF DurableInv, OrderInv
<1>1. /\ UNCHANGED <<cursor, acked, published>>
      /\ wpc' = "ready" /\ job' = "none" /\ group' = {} /\ ppc' = "idle" /\ goal' = "read"
      /\ exit' = "none" /\ proc' = "down"
      /\ nextRec' \in {nextRec, nextRec + 1}
  BY DEF MemoryLost
<1>2. NamesKept
  BY HeldIsKept
<1>3. AckedNeverLost'
  BY <1>0, <1>1, <1>2, AckedCarried
<1>4. nextRec' >= nextRec
  BY <1>0, <1>1 DEF Shapes, TypeOK
<1>5. OrderOK'
  BY <1>0, <1>1, <1>4, OrderCarried
<1>6. \A c \in Cursors : InsideOK(c) => InsideOK(c)'
  BY <1>0, InsideCarried
<1>7. cursor \in Cursors /\ InsideOK(cursor)
  BY <1>0 DEF Shapes, TypeOK, CursorOK
<1>8. InsideOK(cursor)'
  BY <1>6, <1>7, <1>1 DEF InsideOK
<1>9. CursorOK'
  BY <1>1, <1>8 DEF CursorOK
<1>10. GroupOK' /\ OpenOK' /\ ListingOK' /\ DoomedOK' /\ WindowOK' /\ StopOK' /\ WindowOrderOK'
  BY <1>1 DEF GroupOK, OpenOK, ListingOK, DoomedOK, WindowOK, StopOK, WindowOrderOK
<1>11. ProcOK'
  BY <1>1 DEF ProcOK, Sealing
<1> QED BY <1>3, <1>5, <1>9, <1>10, <1>11 DEF DurableInv, OrderInv

\* The shapes of what publish_window resets.
LEMMA NothingShapes ==
    /\ NoListing \in [stable : SUBSET Names, ever : SUBSET Names]
    /\ NoWindow \in [layout : SUBSET Names, next : Cursors, ckpt : Cursors,
                     recs : Seq(Records), bytes : Nat]
<1>1. NoListing \in [stable : SUBSET Names, ever : SUBSET Names]
  BY DEF NoListing
<1>2. NoWindow \in [layout : SUBSET Names, next : Cursors, ckpt : Cursors, recs : Seq(Records), bytes : Nat]
  <2>1. Cursor(0, 0) \in Cursors /\ {} \in SUBSET Names /\ <<>> \in Seq(Records)
    BY DEF Cursor, Cursors
  <2> HIDE DEF Records
  <2> QED BY <2>1 DEF NoWindow
<1> QED BY <1>1, <1>2

\* What a crash makes of the variables in memory.
LEMMA MemoryShapes ==
    ASSUME DurableInv, MemoryLost, NEW kind, Fault(kind),
           dir' \in SUBSET Names, powerDirs' \in SUBSET SUBSET Names, DOMAIN data' \subseteq Nat,
           \A s \in DOMAIN data' : /\ data'[s] \in [recs : Seq(Records), synced : Nat, torn : BOOLEAN]
                                   /\ data'[s].synced <= Len(data'[s].recs)
    PROVE  Shapes'
<1>1. TypeOK /\ ProcOK
  BY DEF DurableInv, Shapes
<1>2. failures' \in 0..MaxFailures
  BY <1>1, FaultsAssumption DEF TypeOK, Fault
<1>3. nextRec' \in 1..(MaxRecords + 1)
  BY <1>1, RecordsAssumption DEF TypeOK, ProcOK, MemoryLost
<1>4. /\ UNCHANGED <<cursor, acked, published>>
      /\ wpc' = "ready" /\ job' = "none" /\ active' = 0 /\ poisoned' = FALSE /\ group' = {}
      /\ ppc' = "idle" /\ goal' = "read" /\ tries' = 0 /\ doomed' = {} /\ report' = "ok"
      /\ exit' = "none" /\ proc' = "down" /\ listing' = NoListing /\ window' = NoWindow
  BY DEF MemoryLost
<1>5. TypeOK'
  <2>1. tries' \in 0..RaceAttempts
    <3>1. RaceAttempts \in Nat
      BY LimitsAssumption
    <3> QED BY <1>4, <3>1
  <2>2. active' \in Nat
    BY <1>4
  <2>3. poisoned' \in BOOLEAN
    BY <1>4
  <2>4. /\ listing' \in [stable : SUBSET Names, ever : SUBSET Names]
        /\ window' \in [layout : SUBSET Names, next : Cursors, ckpt : Cursors,
                        recs : Seq(Records), bytes : Nat]
    BY <1>4, NothingShapes
  <2>5. cursor' \in Cursors /\ acked' \subseteq Records /\ published' \in Seq(Records)
    BY <1>1, <1>4 DEF TypeOK
  <2>6. \A s \in DOMAIN data' : data'[s] \in [recs : Seq(Records), synced : Nat, torn : BOOLEAN]
    OBVIOUS
  <2>7. group' \subseteq Records /\ doomed' \subseteq Nat
    BY <1>4
  <2> QED BY <1>2, <1>3, <1>4, <2>1, <2>2, <2>3, <2>4, <2>5, <2>6, <2>7 DEF TypeOK
<1> QED BY <1>5 DEF Shapes

\* kill -9.
LEMMA KillKeeps ==
    ASSUME DurableInv, OrderInv, Kill
    PROVE  DurableInv' /\ OrderInv'
<1>0. Shapes /\ DirsOK /\ TypeOK
  BY DEF DurableInv, Shapes
<1>1. MemoryLost /\ UNCHANGED fileVars /\ Fault("kill")
  BY DEF Kill
<1>2. UNCHANGED <<dir, powerDirs, data>>
  BY <1>1 DEF fileVars
<1>3. Shapes'
  BY <1>0, <1>1, <1>2, MemoryShapes DEF Shapes, TypeOK
<1>4. DirsOK' /\ Grown /\ NamesHeld /\ NothingNew
  BY <1>0, <1>1, FilesSame
<1>5. SyncedKept
  BY <1>0, <1>4, GrownKeepsSynced
<1> QED BY <1>1, <1>3, <1>4, <1>5, MemoryLostKeeps

\* The machine loses power.
LEMMA PowerCutKeeps ==
    ASSUME DurableInv, OrderInv, PowerCut
    PROVE  DurableInv' /\ OrderInv'
<1> DEFINE weak == {s \in DOMAIN data : data[s].synced < Len(data[s].recs) \/ data[s].torn}
           left(s, kept, torn) == [recs |-> SubSeq(data[s].recs, 1, kept), synced |-> kept, torn |-> torn]
<1>0. Shapes /\ DirsOK /\ TypeOK
  BY DEF DurableInv, Shapes
<1>1. MemoryLost /\ Fault("power")
  BY DEF PowerCut
<1>2. PICK d \in powerDirs, kept \in [weak -> 0..MaxRecords], torn \in [weak -> BOOLEAN] :
        /\ \A s \in weak : kept[s] \in data[s].synced..Len(data[s].recs)
        /\ dir' = d /\ powerDirs' = {d}
        /\ data' = [s \in DOMAIN data |-> IF s \in weak THEN left(s, kept[s], torn[s]) ELSE data[s]]
  BY DEF PowerCut
<1>3. \A s \in DOMAIN data : /\ data[s].recs \in Seq(Records) /\ Len(data[s].recs) \in Nat
                             /\ data[s].synced \in Nat /\ data[s].synced <= Len(data[s].recs)
  BY <1>0, FileShape
<1>4. /\ DOMAIN data' = DOMAIN data
      /\ \A s \in DOMAIN data : s \notin weak => data'[s] = data[s]
      /\ \A s \in weak : data'[s] = left(s, kept[s], torn[s])
  <2>1. data' = [s \in DOMAIN data |-> IF s \in weak THEN left(s, kept[s], torn[s]) ELSE data[s]]
    BY <1>2
  <2>2. weak \subseteq DOMAIN data
    OBVIOUS
  <2> HIDE DEF weak, left
  <2> QED BY <2>1, <2>2
<1>5. ASSUME NEW s \in weak
      PROVE  /\ data'[s] \in [recs : Seq(Records), synced : Nat, torn : BOOLEAN]
             /\ data'[s].synced = kept[s] /\ Len(data'[s].recs) = kept[s]
             /\ kept[s] \in Nat /\ data[s].synced <= kept[s] /\ kept[s] <= Len(data[s].recs)
             /\ \A i \in 1..kept[s] : data'[s].recs[i] = data[s].recs[i]
  <2> DEFINE q == data[s].recs
             k == kept[s]
             p == SubSeq(q, 1, k)
             t == torn[s]
  <2>1. q \in Seq(Records) /\ Len(q) \in Nat /\ data[s].synced \in Nat /\ k \in data[s].synced..Len(q)
    BY <1>2, <1>3
  <2>2. k \in Nat /\ k <= Len(q) /\ data[s].synced <= k
    BY <2>1
  <2>3. t \in BOOLEAN
    BY <1>2
  <2>4. data'[s] = [recs |-> p, synced |-> k, torn |-> t]
    BY <1>4
  <2> HIDE DEF q, k, t, Records
  <2>5. p \in Seq(Records) /\ Len(p) = k /\ \A i \in 1..k : p[i] = q[i]
    BY <2>1, <2>2
  <2> HIDE DEF p
  <2>6. data'[s].recs = p /\ data'[s].synced = k
        /\ data'[s] \in [recs : Seq(Records), synced : Nat, torn : BOOLEAN]
    BY <2>2, <2>3, <2>4, <2>5
  <2> QED BY <2>2, <2>5, <2>6 DEF q, k
<1> HIDE DEF left
<1>6. Shapes'
  <2>1. \A s \in DOMAIN data' : /\ data'[s] \in [recs : Seq(Records), synced : Nat, torn : BOOLEAN]
                                /\ data'[s].synced <= Len(data'[s].recs)
    <3> SUFFICES ASSUME NEW s \in DOMAIN data
                 PROVE  /\ data'[s] \in [recs : Seq(Records), synced : Nat, torn : BOOLEAN]
                        /\ data'[s].synced <= Len(data'[s].recs)
      BY <1>4
    <3>1. CASE s \in weak
      <4>1. kept[s] \in Nat /\ data'[s].synced = kept[s] /\ Len(data'[s].recs) = kept[s]
        BY <1>5, <3>1
      <4> HIDE DEF weak
      <4> QED BY <1>5, <3>1, <4>1
    <3>2. CASE s \notin weak
      BY <1>0, <1>3, <1>4, <3>2 DEF TypeOK
    <3> QED BY <3>1, <3>2
  <2>2. DOMAIN data' \subseteq Nat /\ dir' \in SUBSET Names /\ powerDirs' \in SUBSET SUBSET Names
    BY <1>0, <1>2, <1>4 DEF TypeOK
  <2> QED BY <1>1, <2>1, <2>2, MemoryShapes
<1>7. Layout(d) /\ Bounded(d) /\ Segments(d) \subseteq DOMAIN data
  BY <1>0 DEF DirsOK
<1>8. \A s \in Sealed(d) : Solid(s)'
  <2> SUFFICES ASSUME NEW s \in Sealed(d) PROVE Solid(s)'
    OBVIOUS
  <2>1. Solid(s) /\ s \in DOMAIN data
    BY <1>0, <1>7 DEF DirsOK, Segments
  <2>2. s \notin weak
    BY <1>3, <2>1 DEF Solid
  <2> QED BY <1>4, <2>1, <2>2 DEF Solid
<1>9. DirsOK'
  BY <1>2, <1>4, <1>7, <1>8 DEF DirsOK, Segments
<1>10. SyncedKept
  <2> SUFFICES ASSUME NEW f \in powerDirs, NEW s \in Segments(f)
               PROVE  /\ data[s].synced <= data'[s].synced
                      /\ \A i \in 1..data[s].synced : data'[s].recs[i] = data[s].recs[i]
    BY DEF SyncedKept
  <2>1. s \in DOMAIN data
    BY <1>0 DEF DirsOK
  <2>2. CASE s \in weak
    <3> HIDE DEF weak
    <3> QED BY <1>3, <1>5, <2>1, <2>2
  <2>3. CASE s \notin weak
    BY <1>3, <1>4, <2>1, <2>3
  <2> QED BY <2>2, <2>3
<1>11. NamesHeld
  BY <1>2 DEF NamesHeld
<1>12. NothingNew
  <2> SUFFICES ASSUME NEW s \in Segments(d)
               PROVE  /\ Len(data'[s].recs) <= Len(data[s].recs)
                      /\ \A i \in 1..Len(data'[s].recs) : data'[s].recs[i] = data[s].recs[i]
    BY <1>2 DEF NothingNew
  <2>1. s \in DOMAIN data
    BY <1>7
  <2>2. CASE s \in weak
    <3> HIDE DEF weak
    <3> QED BY <1>5, <2>2
  <2>3. CASE s \notin weak
    BY <1>3, <1>4, <2>1, <2>3
  <2> QED BY <2>2, <2>3
<1> QED BY <1>1, <1>6, <1>9, <1>10, <1>11, <1>12, MemoryLostKeeps

-----------------------------------------------------------------------------
(* The publisher's steps.                                                   *)

\* What a step of the publisher that goes on leaves true of the process.
LEMMA PublisherGoesOn ==
    ASSUME DurableInv, UNCHANGED <<fileVars, proc, writerVars, acked, exit>>, PublisherRuns, ppc' # "idle",
           Range(published) \subseteq Range(published'),
           proc = "drain" /\ ~poisoned /\ goal' = "tidy" => acked \subseteq Range(published')
    PROVE  ProcOK' /\ OpenOK' /\ StopOK'
<1>0. ProcOK /\ OpenOK /\ StopOK
  BY DEF DurableInv
<1>1. UNCHANGED <<dir, powerDirs, data, wpc, job, active, poisoned, group, nextRec>>
  BY DEF fileVars, writerVars
<1>2. ProcOK'
  BY <1>0, <1>1 DEF ProcOK, Sealing, PublisherRuns
<1>3. OpenOK'
  BY <1>0, <1>1 DEF OpenOK, Ended, Solid
<1>4. StopOK'
  BY <1>0, <1>1 DEF StopOK
<1> QED BY <1>2, <1>3, <1>4

\* A publisher that is somewhere in publish_window belongs to a running process.
LEMMA Runs ==
    ASSUME DurableInv, ppc # "idle"
    PROVE  PublisherRuns
  BY DEF DurableInv, Shapes, TypeOK, ProcOK, PublisherRuns

\* publish_window returns: shapes.
LEMMA ReturnShapes ==
    ASSUME Shapes, NEW result, PubReturns(result), UNCHANGED <<dir, data, cursor, writerVars, acked, published>>,
           powerDirs' \in SUBSET SUBSET Names,
           report' \in {"ok", "race", "corruption", "io"}, failures' \in 0..MaxFailures
    PROVE  Shapes'
<1>1. TypeOK
  BY DEF Shapes
<1>2. UNCHANGED <<wpc, job, active, poisoned, group, nextRec>>
  BY DEF writerVars
<1>3. /\ ppc' = "idle" /\ goal' = "read" /\ tries' = 0 /\ doomed' = {}
      /\ listing' = NoListing /\ window' = NoWindow
  BY DEF PubReturns
<1>4. /\ proc' \in {proc, "up", "refused", "down"}
      /\ exit' \in {exit, "clean", "failed"}
  BY DEF PubReturns
<1>5. tries' \in 0..RaceAttempts
  <2>1. RaceAttempts \in Nat
    BY LimitsAssumption
  <2> QED BY <1>3, <2>1
<1>6. /\ listing' \in [stable : SUBSET Names, ever : SUBSET Names]
      /\ window' \in [layout : SUBSET Names, next : Cursors, ckpt : Cursors,
                      recs : Seq(Records), bytes : Nat]
  BY <1>3, NothingShapes
<1>7. TypeOK'
  BY <1>1, <1>2, <1>3, <1>4, <1>5, <1>6 DEF TypeOK
<1> QED BY <1>7 DEF Shapes

\* publish_window returns, and no file has changed.
LEMMA ReturnKeeps ==
    ASSUME DurableInv, OrderInv, NEW result, PubReturns(result),
           UNCHANGED <<fileVars, cursor, writerVars, acked, published>>,
           report' \in {"ok", "race", "corruption", "io"}, failures' \in 0..MaxFailures,
           result = "none" /\ proc = "publishing" => cursor.seg <= active,
           result = "none" /\ proc = "drain" /\ ~poisoned => acked \subseteq Range(published)
    PROVE  DurableInv' /\ OrderInv'
<1>1. Shapes
  BY DEF DurableInv
<1>2. UNCHANGED <<dir, powerDirs, data>>
  BY DEF fileVars
<1>3. powerDirs' \in SUBSET SUBSET Names
  BY <1>1, <1>2 DEF Shapes, TypeOK
<1>4. Shapes'
  BY <1>1, <1>2, <1>3, ReturnShapes
<1>5. DirsOK' /\ InsideOK(cursor)' /\ AckedNeverLost' /\ GroupOK' /\ OrderOK'
  BY <1>4, PublisherCarried
<1>6. /\ ProcOK' /\ OpenOK' /\ CursorOK' /\ ListingOK' /\ DoomedOK' /\ WindowOK' /\ StopOK'
      /\ WindowOrderOK'
  BY <1>2, <1>4, <1>5, Returned
<1> QED BY <1>4, <1>5, <1>6 DEF DurableInv, OrderInv

\* publish_window fails.
LEMMA FailKeeps ==
    ASSUME DurableInv, OrderInv, NEW reason \in {"race", "corruption", "io"}, PubFailsWith(reason),
           UNCHANGED <<fileVars, cursor, writerVars, acked, published>>, failures' \in 0..MaxFailures
    PROVE  DurableInv' /\ OrderInv'
<1>1. PubReturns("error") /\ report' \in {"ok", "race", "corruption", "io"}
  BY DEF PubFailsWith
<1> QED BY <1>1, ReturnKeeps

\* Another listing begins.
LEMMA ListAgainKeeps ==
    ASSUME DurableInv, OrderInv, NEW n \in 0..RaceAttempts, ListAgain(n), PublisherRuns, window' = NoWindow,
           UNCHANGED <<fileVars, cursor, writerVars, acked, published, doomed, proc, exit, failures>>,
           report' \in {"ok", "race", "corruption", "io"}, goal' \in {"read", "tidy", "reclaim"},
           goal' # "read" => \A s \in Segments(dir) : s < cursor.seg => s \in Sealed(dir),
           goal' # "read" /\ proc = "publishing" => cursor.seg <= active,
           proc = "drain" /\ ~poisoned /\ goal' = "tidy" => acked \subseteq Range(published)
    PROVE  DurableInv' /\ OrderInv'
<1>0. Shapes /\ TypeOK /\ DirsOK /\ CursorOK
  BY DEF DurableInv, Shapes
<1>1. /\ UNCHANGED <<dir, powerDirs, data, wpc, job, active, poisoned, group, nextRec>>
      /\ ppc' = "list" /\ tries' = n /\ listing' = [stable |-> dir, ever |-> dir]
  BY DEF fileVars, writerVars, ListAgain
<1>2. dir \subseteq Names /\ listing'.stable = dir /\ listing'.ever = dir
  BY <1>0, <1>1 DEF TypeOK
<1>3. Shapes'
  <2>1. /\ listing' \in [stable : SUBSET Names, ever : SUBSET Names]
        /\ window' \in [layout : SUBSET Names, next : Cursors, ckpt : Cursors,
                        recs : Seq(Records), bytes : Nat]
    BY <1>1, <1>2, NothingShapes
  <2>2. TypeOK'
    BY <1>0, <1>1, <2>1 DEF TypeOK
  <2> QED BY <1>0, <1>1, <2>2 DEF Shapes
<1>4. DirsOK' /\ InsideOK(cursor)' /\ AckedNeverLost' /\ GroupOK' /\ OrderOK'
  BY <1>3, PublisherCarried
<1>5. ProcOK' /\ OpenOK' /\ StopOK'
  BY <1>1, PublisherGoesOn
<1>6. CursorOK'
  <2>1. Top' = Top
    BY <1>1 DEF Top
  <2> QED BY <1>0, <1>1, <1>4, <2>1 DEF CursorOK
<1>7. ListingOK'
  BY <1>1, <1>2 DEF ListingOK
<1>8. DoomedOK' /\ WindowOK' /\ WindowOrderOK'
  BY <1>1 DEF DoomedOK, WindowOK, WindowOrderOK
<1> QED BY <1>3, <1>4, <1>5, <1>6, <1>7, <1>8 DEF DurableInv, OrderInv

\* The publisher begins a window.
LEMMA PubListKeeps ==
    ASSUME DurableInv, OrderInv, PubList
    PROVE  DurableInv' /\ OrderInv'
<1>1. /\ PublisherRuns /\ ListAgain(1) /\ goal' = "read" /\ report' = "ok" /\ ppc = "idle"
      /\ UNCHANGED <<fileVars, cursor, proc, writerVars, window, doomed, observed, failures>>
  BY DEF PubList
<1>2. UNCHANGED <<acked, published, exit>>
  BY <1>1 DEF observed
<1>3. 1 \in 0..RaceAttempts
  BY LimitsAssumption
<1>0. Shapes /\ TypeOK /\ DirsOK /\ CursorOK
  BY DEF DurableInv, Shapes
<1>4. /\ UNCHANGED <<dir, powerDirs, data, wpc, job, active, poisoned, group, nextRec>>
      /\ ppc' = "list" /\ tries' = 1 /\ listing' = [stable |-> dir, ever |-> dir]
  BY <1>1 DEF fileVars, writerVars, ListAgain
<1>5. dir \subseteq Names /\ listing'.stable = dir /\ listing'.ever = dir
  BY <1>0, <1>4 DEF TypeOK
<1>6. Shapes'
  <2>1. listing' \in [stable : SUBSET Names, ever : SUBSET Names]
    BY <1>4, <1>5
  <2>2. TypeOK'
    BY <1>0, <1>1, <1>2, <1>3, <1>4, <2>1 DEF TypeOK
  <2> QED BY <1>0, <1>4, <2>2 DEF Shapes
<1>7. DirsOK' /\ InsideOK(cursor)' /\ AckedNeverLost' /\ GroupOK' /\ OrderOK'
  BY <1>1, <1>2, <1>6, PublisherCarried
<1>8. ProcOK' /\ OpenOK' /\ StopOK'
  BY <1>1, <1>2, <1>4, PublisherGoesOn
<1>9. CursorOK'
  <2>1. Top' = Top
    BY <1>4 DEF Top
  <2> QED BY <1>0, <1>1, <1>4, <1>7, <2>1 DEF CursorOK
<1>10. ListingOK'
  BY <1>1, <1>4, <1>5 DEF ListingOK
<1>11. DoomedOK' /\ WindowOK' /\ WindowOrderOK'
  BY <1>4 DEF DoomedOK, WindowOK, WindowOrderOK
<1> QED BY <1>6, <1>7, <1>8, <1>9, <1>10, <1>11 DEF DurableInv, OrderInv

\* A lost race is tried again or given up.
LEMMA RetryKeeps ==
    ASSUME DurableInv, OrderInv, RetryOrGiveUp, ppc \in {"list", "open"},
           UNCHANGED <<fileVars, cursor, writerVars, acked, published, failures>>
    PROVE  DurableInv' /\ OrderInv'
<1>0. Shapes /\ TypeOK /\ DirsOK /\ CursorOK /\ ListingOK /\ StopOK
  BY DEF DurableInv, Shapes
<1>1. CASE tries < RaceAttempts
  <2>1. /\ ListAgain(tries + 1) /\ window' = NoWindow
        /\ UNCHANGED <<goal, doomed, report, proc, exit>>
    BY <1>1 DEF RetryOrGiveUp
  <2>2. tries + 1 \in 0..RaceAttempts
    BY <1>0, <1>1, LimitsAssumption DEF TypeOK
  <2>3. goal # "read" => \A s \in Segments(dir) : s < cursor.seg => s \in Sealed(dir)
    <3>1. CASE ppc = "list"
      <4>1. Sealed(listing.stable) \subseteq Sealed(listing.ever) /\ Sealed(listing.ever) \subseteq Sealed(dir)
        BY <1>0, <3>1, SegmentsMonotone DEF ListingOK
      <4> QED BY <1>0, <3>1, <4>1 DEF ListingOK
    <3>2. CASE ppc = "open"
      BY <1>0, <3>2 DEF ListingOK
    <3> QED BY <3>1, <3>2
  <2>4. goal # "read" /\ proc = "publishing" => cursor.seg <= active
    BY <1>0 DEF CursorOK
  <2>5. proc = "drain" /\ ~poisoned /\ goal = "tidy" => acked \subseteq Range(published)
    BY <1>0 DEF StopOK
  <2>6. PublisherRuns
    BY Runs
  <2>7. report' \in {"ok", "race", "corruption", "io"} /\ goal' \in {"read", "tidy", "reclaim"}
    BY <1>0, <2>1 DEF TypeOK
  <2> QED BY <2>1, <2>2, <2>3, <2>4, <2>5, <2>6, <2>7, ListAgainKeeps
<1>2. CASE ~(tries < RaceAttempts)
  <2>1. PubFailsWith("race")
    BY <1>2 DEF RetryOrGiveUp
  <2>2. failures' \in 0..MaxFailures
    BY <1>0 DEF TypeOK
  <2> QED BY <2>1, <2>2, FailKeeps
<1> QED BY <1>1, <1>2

\* discover_segment_layout.
LEMMA PubDiscoverKeeps ==
    ASSUME DurableInv, OrderInv, PubDiscover
    PROVE  DurableInv' /\ OrderInv'
<1>0. Shapes /\ TypeOK /\ DirsOK /\ CursorOK /\ ListingOK /\ StopOK
  BY DEF DurableInv, Shapes
<1>1. ppc = "list" /\ UNCHANGED <<fileVars, cursor, writerVars, acked, published, failures>>
  BY DEF PubDiscover
<1>2. CASE RetryOrGiveUp
  BY <1>1, <1>2, RetryKeeps
<1>3. CASE \E extra \in SUBSET (listing.ever \ listing.stable) :
             LET L == listing.stable \cup extra IN
               /\ ValidLayout(L)
               /\ window' = [NoWindow EXCEPT !.layout = L]
               /\ ppc' = "open" /\ listing' = NoListing
               /\ UNCHANGED <<goal, tries, doomed, report, proc, exit>>
  <2>1. PICK extra \in SUBSET (listing.ever \ listing.stable) :
             LET L == listing.stable \cup extra IN
               /\ ValidLayout(L)
               /\ window' = [NoWindow EXCEPT !.layout = L]
               /\ ppc' = "open" /\ listing' = NoListing
               /\ UNCHANGED <<goal, tries, doomed, report, proc, exit>>
    BY <1>3
  <2> DEFINE L == listing.stable \cup extra
  <2>2. /\ listing.stable \subseteq listing.ever /\ listing.ever \subseteq Names
        /\ Segments(listing.ever) \subseteq Segments(dir)
        /\ Sealed(listing.ever) \subseteq Sealed(dir)
        /\ proc \in {"publishing", "drain"} => listing.stable = dir /\ listing.ever = dir
        /\ goal # "read" =>
             \A s \in Segments(dir) : s < cursor.seg => s \in Sealed(listing.stable)
    BY <1>0, <1>1 DEF ListingOK
  <2>3. /\ listing.stable \subseteq L /\ L \subseteq listing.ever /\ L \subseteq Names
        /\ ValidLayout(L) /\ window' = [NoWindow EXCEPT !.layout = L]
    BY <2>1, <2>2
  <2>4. proc \in {"publishing", "drain"} => L = dir
    BY <2>2, <2>3
  <2> HIDE DEF L
  <2>5. Layout(L)
    BY <2>3, LayoutValid
  <2>6. /\ Segments(L) \subseteq Segments(listing.ever) /\ Sealed(L) \subseteq Sealed(listing.ever)
        /\ Sealed(listing.stable) \subseteq Sealed(L)
    BY <2>2, <2>3, SegmentsMonotone
  <2>7. /\ window' \in [layout : SUBSET Names, next : Cursors, ckpt : Cursors, recs : Seq(Records), bytes : Nat]
        /\ window'.layout = L /\ window'.recs = <<>> /\ window'.bytes = 0
    <3>1. NoWindow.recs = <<>> /\ NoWindow.bytes = 0
      BY DEF NoWindow
    <3> HIDE DEF Records
    <3> QED BY <2>3, <3>1, NothingShapes
  <2>8. /\ UNCHANGED <<dir, powerDirs, data, wpc, job, active, poisoned, group, nextRec>>
        /\ ppc' = "open" /\ listing' = NoListing
        /\ UNCHANGED <<goal, tries, doomed, report, proc, exit>>
    BY <1>1, <2>1 DEF fileVars, writerVars
  <2>9. Shapes'
    <3>1. TypeOK'
      BY <1>0, <1>1, <2>7, <2>8, NothingShapes DEF TypeOK
    <3> QED BY <1>0, <2>8, <3>1 DEF Shapes
  <2>10. DirsOK' /\ InsideOK(cursor)' /\ AckedNeverLost' /\ GroupOK' /\ OrderOK'
    BY <1>1, <2>9, PublisherCarried
  <2>11. ProcOK' /\ OpenOK' /\ StopOK'
    <3>1. proc = "drain" /\ ~poisoned /\ goal' = "tidy" => acked \subseteq Range(published')
      BY <1>0, <1>1, <2>8 DEF StopOK
    <3>2. PublisherRuns
      BY <1>1, Runs
    <3> QED BY <1>1, <2>8, <3>1, <3>2, PublisherGoesOn
  <2>12. CursorOK'
    <3>1. Top' = Top
      BY <2>8 DEF Top
    <3> QED BY <1>0, <1>1, <2>8, <2>10, <3>1 DEF CursorOK
  <2>13. ListingOK'
    BY <1>1, <2>2, <2>4, <2>5, <2>6, <2>7, <2>8 DEF ListingOK
  <2>14. DoomedOK' /\ WindowOK' /\ WindowOrderOK'
    BY <2>7, <2>8 DEF DoomedOK, WindowOK, WindowOrderOK
  <2> QED BY <2>9, <2>10, <2>11, <2>12, <2>13, <2>14 DEF DurableInv, OrderInv
<1> QED BY <1>2, <1>3 DEF PubDiscover

\* A cursor that passes validate_cursor names a segment of the layout, or the next.
LEMMA CheckedCursor ==
    ASSUME NEW L, L \subseteq Names, NEW c, CursorCheck(L, c) \notin {"race", "corruption"}
    PROVE  InLayout(L, c)
<1> DEFINE named == {n \in L : n[1] = c.seg}
<1>1. CASE named = {}
  <2>1. c.seg \in NextSegment(L)
    BY <1>1 DEF CursorCheck
  <2> QED BY <2>1 DEF InLayout
<1>2. CASE named # {}
  <2>1. PICK n \in L : n[1] = c.seg
    BY <1>2
  <2>2. n = <<n[1], "wal">> \/ n = <<n[1], "open">>
    BY DEF Names
  <2>3. n[1] \in Sealed(L) \/ n[1] \in Open(L)
    BY <2>2, NamesView
  <2> QED BY <2>1, <2>3 DEF InLayout, Segments
<1> QED BY <1>1, <1>2

\* validate_cursor, then a window or a reclamation.
LEMMA PubValidateKeeps ==
    ASSUME DurableInv, OrderInv, PubValidate
    PROVE  DurableInv' /\ OrderInv'
<1> DEFINE L == window.layout
           remove == {s \in Sealed(L) : Covered(s, cursor, ValidEnd(L, cursor))}
<1>0. Shapes /\ TypeOK /\ DirsOK /\ ProcOK /\ OpenOK /\ CursorOK /\ ListingOK /\ WindowOK /\ StopOK
  BY DEF DurableInv, Shapes
<1>1. ppc = "open" /\ UNCHANGED <<fileVars, cursor, writerVars, acked, published, failures>>
  BY DEF PubValidate
<1>2. /\ Layout(L) /\ L \subseteq Names
      /\ Segments(L) \subseteq Segments(dir) /\ Sealed(L) \subseteq Sealed(dir)
      /\ proc \in {"publishing", "drain"} => L = dir
      /\ goal # "read" => \A s \in Segments(dir) : s < cursor.seg => s \in Sealed(L)
  BY <1>0, <1>1 DEF ListingOK, Layout
<1>3. failures' \in 0..MaxFailures /\ UNCHANGED <<dir, powerDirs, data, wpc, job, active, poisoned, group, nextRec>>
  BY <1>0, <1>1 DEF TypeOK, fileVars, writerVars
<1>4. CASE CursorCheck(L, cursor) = "race"
  <2>1. RetryOrGiveUp
    BY <1>4 DEF PubValidate
  <2> QED BY <1>1, <2>1, RetryKeeps
<1>5. CASE CursorCheck(L, cursor) = "corruption"
  <2>1. PubFailsWith("corruption")
    BY <1>5 DEF PubValidate
  <2> QED BY <1>1, <1>3, <2>1, FailKeeps
<1>6. CASE CursorCheck(L, cursor) \notin {"race", "corruption"} /\ goal = "read"
  <2>1. /\ window' = [window EXCEPT !.next = cursor, !.ckpt = cursor]
        /\ ppc' = "read"
        /\ UNCHANGED <<goal, tries, listing, doomed, report, proc, exit>>
    BY <1>6 DEF PubValidate
  <2>2. /\ window' \in [layout : SUBSET Names, next : Cursors, ckpt : Cursors, recs : Seq(Records), bytes : Nat]
        /\ window'.layout = window.layout /\ window'.next = cursor /\ window'.ckpt = cursor
        /\ window'.recs = window.recs /\ window'.bytes = window.bytes
    <3> HIDE DEF Records, L, remove
    <3> DEFINE mid == [window EXCEPT !.next = cursor]
    <3>1. window' = [mid EXCEPT !.ckpt = cursor]
      BY <2>1, Zenon
    <3>2. cursor \in Cursors
      BY <1>0 DEF TypeOK
    <3>3. window \in [layout : SUBSET Names, next : Cursors, ckpt : Cursors, recs : Seq(Records), bytes : Nat]
      BY <1>0 DEF TypeOK
    <3>4. /\ mid \in [layout : SUBSET Names, next : Cursors, ckpt : Cursors, recs : Seq(Records), bytes : Nat]
          /\ mid.layout = window.layout /\ mid.next = cursor
          /\ mid.recs = window.recs /\ mid.bytes = window.bytes
      BY <3>2, <3>3
    <3> HIDE DEF mid
    <3> QED BY <3>1, <3>2, <3>4
  <2>3. UNCHANGED <<goal, tries, listing, doomed, report, proc, exit>> /\ ppc' = "read"
    BY <2>1
  <2>4. Shapes'
    <3>1. TypeOK'
      BY <1>0, <1>1, <1>3, <2>2, <2>3 DEF TypeOK
    <3> QED BY <1>0, <1>3, <3>1 DEF Shapes
  <2>5. DirsOK' /\ InsideOK(cursor)' /\ AckedNeverLost' /\ GroupOK' /\ OrderOK'
    BY <1>1, <2>4, PublisherCarried
  <2>6. ProcOK' /\ OpenOK' /\ StopOK'
    <3>1. PublisherRuns
      BY <1>1, Runs
    <3> QED BY <1>1, <1>6, <2>3, <3>1, PublisherGoesOn
  <2>7. InLayout(L, cursor)
    BY <1>2, <1>6, CheckedCursor
  <2>8. CursorOK'
    <3>1. Top' = Top
      BY <1>3 DEF Top
    <3>2. proc = "publishing" => cursor.seg <= active /\ ~poisoned
      <4> SUFFICES ASSUME proc = "publishing" PROVE cursor.seg <= active /\ ~poisoned
        OBVIOUS
      <4>1. ~poisoned /\ wpc = "ready"
        BY <1>0 DEF CursorOK, ProcOK
      <4>2. cursor.seg <= Top
        BY <1>2, <2>7, <4>1, WithinTop
      <4> QED BY <4>1, <4>2 DEF Top
    <3> QED BY <1>0, <1>1, <1>3, <2>3, <2>5, <3>1, <3>2 DEF CursorOK
  <2>9. ListingOK'
    BY <1>1, <1>2, <1>3, <1>6, <2>2, <2>3 DEF ListingOK
  <2>10. WindowOK'
    <3>1. window.recs = <<>> /\ window.bytes = 0
      BY <1>0, <1>1 DEF WindowOK
    <3>2. Taken(cursor)'
      BY <1>1 DEF Taken
    <3>3. Reached(cursor)'
      <4>1. cursor.off \in Nat
        BY <1>0 DEF TypeOK, Cursors
      <4> QED BY <1>1, <4>1 DEF Reached
    <3>4. \A c \in {window'.next, window'.ckpt} : c = cursor /\ c = cursor'
      BY <1>1, <2>2
    <3>5. \A c \in {window'.next, window'.ckpt} :
             InLayout(window'.layout, c) /\ InsideOK(c)' /\ Taken(c)' /\ Reached(c)'
      BY <2>2, <2>5, <2>7, <3>2, <3>3, <3>4 DEF InsideOK, Taken, Reached
    <3> QED BY <1>1, <2>2, <2>3, <2>7, <3>1, <3>5 DEF WindowOK
  <2>11. WindowOrderOK'
    <3>1. window'.recs = <<>>
      BY <1>0, <1>1, <2>2 DEF WindowOK
    <3>2. Len(window'.recs) = 0
      BY <3>1
    <3> QED BY <3>2 DEF WindowOrderOK
  <2>12. DoomedOK'
    BY <2>3 DEF DoomedOK
  <2> QED BY <2>4, <2>5, <2>6, <2>8, <2>9, <2>10, <2>11, <2>12 DEF DurableInv, OrderInv
<1>7. CASE CursorCheck(L, cursor) \notin {"race", "corruption"} /\ goal # "read" /\ remove = {}
  <2> DEFINE result == IF goal = "tidy" THEN "none" ELSE "some"
  <2>1. PubReturns(result) /\ UNCHANGED report
    BY <1>7 DEF PubValidate
  <2>2. result = "none" => goal = "tidy"
    OBVIOUS
  <2> HIDE DEF result
  <2>3. result = "none" /\ proc = "publishing" => cursor.seg <= active
    BY <1>0, <2>2 DEF CursorOK
  <2>4. result = "none" /\ proc = "drain" /\ ~poisoned => acked \subseteq Range(published)
    BY <1>0, <2>2 DEF StopOK
  <2>5. report' \in {"ok", "race", "corruption", "io"}
    BY <1>0, <2>1 DEF TypeOK
  <2> QED BY <1>1, <1>3, <2>1, <2>3, <2>4, <2>5, ReturnKeeps
<1>8. CASE CursorCheck(L, cursor) \notin {"race", "corruption"} /\ goal # "read" /\ remove # {}
  <2>1. /\ doomed' = remove /\ ppc' = "unlink" /\ window' = NoWindow
        /\ UNCHANGED <<goal, tries, listing, report, proc, exit>>
    BY <1>8 DEF PubValidate
  <2>2. remove \subseteq Sealed(dir) /\ remove # {} /\ remove \subseteq Nat
    <3>1. \A s \in Segments(L) : s \in Nat
      BY <1>2, NamesView
    <3> QED BY <1>2, <1>8, <3>1 DEF Segments
  <2>3. \A s \in remove : Covered(s, cursor, Len(data[s].recs))
    BY DEF Covered, ValidEnd
  <2>4. \A s \in Segments(dir) : s < cursor.seg => s \in remove
    BY <1>2, <1>8 DEF Covered
  <2> HIDE DEF remove
  <2>5. Shapes'
    <3>1. TypeOK'
      BY <1>0, <1>1, <1>3, <2>1, <2>2, NothingShapes DEF TypeOK
    <3> QED BY <1>0, <1>3, <3>1 DEF Shapes
  <2>6. DirsOK' /\ InsideOK(cursor)' /\ AckedNeverLost' /\ GroupOK' /\ OrderOK'
    BY <1>1, <2>5, PublisherCarried
  <2>7. ProcOK' /\ OpenOK' /\ StopOK'
    <3>1. PublisherRuns
      BY <1>1, Runs
    <3>2. proc = "drain" /\ ~poisoned /\ goal' = "tidy" => acked \subseteq Range(published')
      BY <1>0, <1>1, <2>1 DEF StopOK
    <3> QED BY <1>1, <2>1, <3>1, <3>2, PublisherGoesOn
  <2>8. CursorOK'
    <3>1. Top' = Top
      BY <1>3 DEF Top
    <3> QED BY <1>0, <1>1, <1>3, <2>1, <2>6, <3>1 DEF CursorOK
  <2>9. ListingOK' /\ WindowOK' /\ WindowOrderOK'
    BY <2>1 DEF ListingOK, WindowOK, WindowOrderOK
  <2>10. DoomedOK'
    BY <1>1, <1>3, <2>1, <2>2, <2>3, <2>4 DEF DoomedOK
  <2> QED BY <2>5, <2>6, <2>7, <2>8, <2>9, <2>10 DEF DurableInv, OrderInv
<1> QED BY <1>4, <1>5, <1>6, <1>7, <1>8

\* Below a cursor of the layout every segment is sealed.
LEMMA BelowSealed ==
    ASSUME DurableInv, NEW L, L \subseteq Names, Segments(L) \subseteq Segments(dir),
           Sealed(L) \subseteq Sealed(dir), NEW c, InLayout(L, c), NEW s \in Segments(dir), s < c.seg
    PROVE  s \in Sealed(dir)
<1>1. Layout(dir) /\ Bounded(dir) /\ dir \subseteq Names
  BY DEF DurableInv, DirsOK, Layout
<1>2. \A t \in Segments(dir) : t \in Nat
  BY <1>1, NamesView
<1>3. SUFFICES ASSUME s \in Open(dir) PROVE FALSE
  BY DEF Segments
<1>4. \A t \in Segments(dir) : t <= s
  BY <1>1, <1>3 DEF Layout
<1>5. CASE c.seg \in Segments(L)
  BY <1>2, <1>4, <1>5
<1>6. CASE c.seg \in NextSegment(L)
  <2>1. Bounded(L)
    BY <1>1 DEF Bounded
  <2>2. c.seg \in Nat /\ c.seg - 1 \in Sealed(L)
    BY <1>6, <2>1, NextView
  <2>3. c.seg - 1 \in Segments(dir) /\ c.seg - 1 # s
    BY <1>1, <1>3, <2>2 DEF Layout, Segments
  <2> QED BY <1>2, <1>4, <2>2, <2>3
<1> QED BY <1>5, <1>6 DEF InLayout

\* One more record in the window.
LEMMA WindowTook ==
    ASSUME NEW w \in [layout : SUBSET Names, next : Cursors, ckpt : Cursors, recs : Seq(Records), bytes : Nat],
           NEW c \in Cursors, NEW q \in Seq(Records), NEW n \in Nat,
           NEW v, v = [w EXCEPT !.next = c, !.ckpt = c, !.recs = q, !.bytes = n]
    PROVE  /\ v \in [layout : SUBSET Names, next : Cursors, ckpt : Cursors, recs : Seq(Records), bytes : Nat]
           /\ v.layout = w.layout /\ v.next = c /\ v.ckpt = c /\ v.recs = q /\ v.bytes = n
<1> DEFINE w1 == [w EXCEPT !.next = c]
           w2 == [w1 EXCEPT !.ckpt = c]
           w3 == [w2 EXCEPT !.recs = q]
           T == Seq(Records)
<1>1. v = [w3 EXCEPT !.bytes = n]
  BY Zenon
<1> HIDE DEF T
<1>2. q \in T /\ w \in [layout : SUBSET Names, next : Cursors, ckpt : Cursors, recs : T, bytes : Nat]
  BY DEF T
<1>3. /\ w1 \in [layout : SUBSET Names, next : Cursors, ckpt : Cursors, recs : T, bytes : Nat]
      /\ w1.layout = w.layout /\ w1.next = c
  BY <1>2
<1> HIDE DEF w1
<1>4. /\ w2 \in [layout : SUBSET Names, next : Cursors, ckpt : Cursors, recs : T, bytes : Nat]
      /\ w2.layout = w1.layout /\ w2.next = w1.next /\ w2.ckpt = c
  BY <1>3
<1> HIDE DEF w2
<1>5. /\ w3 \in [layout : SUBSET Names, next : Cursors, ckpt : Cursors, recs : T, bytes : Nat]
      /\ w3.layout = w2.layout /\ w3.next = w2.next /\ w3.ckpt = w2.ckpt /\ w3.recs = q
  BY <1>2, <1>4
<1> HIDE DEF w3
<1>6. /\ v \in [layout : SUBSET Names, next : Cursors, ckpt : Cursors, recs : T, bytes : Nat]
      /\ v.layout = w3.layout /\ v.next = w3.next /\ v.ckpt = w3.ckpt /\ v.recs = w3.recs /\ v.bytes = n
  BY <1>1, <1>5
<1> QED BY <1>3, <1>4, <1>5, <1>6 DEF T

\* What the window holds once it has taken one more record.
LEMMA TookRange ==
    ASSUME NEW q \in Seq(Records), NEW r \in Records
    PROVE  /\ Append(q, r) \in Seq(Records) /\ Len(Append(q, r)) = Len(q) + 1 /\ Len(q) \in Nat
           /\ \A m \in 1..Len(q) : Append(q, r)[m] = q[m]
           /\ Append(q, r)[Len(q) + 1] = r
           /\ r \in Range(Append(q, r)) /\ Range(q) \subseteq Range(Append(q, r))
           /\ Append(q, r) # <<>>
<1> HIDE DEF Records
<1>1. /\ Append(q, r) \in Seq(Records) /\ Len(Append(q, r)) = Len(q) + 1 /\ Len(q) \in Nat
      /\ \A m \in 1..Len(q) : Append(q, r)[m] = q[m]
      /\ Append(q, r)[Len(q) + 1] = r
  OBVIOUS
<1> DEFINE p == Append(q, r)
<1>2. DOMAIN q = 1..Len(q) /\ DOMAIN p = 1..Len(p)
  BY <1>1
<1> HIDE DEF p
<1>3. \A m \in DOMAIN q : m \in DOMAIN p /\ p[m] = q[m]
  BY <1>1, <1>2 DEF p
<1>4. Len(q) + 1 \in DOMAIN p
  BY <1>1, <1>2 DEF p
<1>5. r \in Range(p) /\ Range(q) \subseteq Range(p)
  BY <1>1, <1>3, <1>4 DEF Range, p
<1>6. p # <<>>
  BY <1>1, <1>5 DEF p
<1> QED BY <1>1, <1>5, <1>6 DEF p

\* One step of the publication window.
LEMMA PubReadKeeps ==
    ASSUME DurableInv, OrderInv, PubRead
    PROVE  DurableInv' /\ OrderInv'
<1> DEFINE L == window.layout
           next == window.next
           left == {s \in Sealed(L) : s >= next.seg}
           s == Min(left)
           off == IF s = next.seg THEN next.off ELSE 0
           r == data[s].recs[off + 1]
           after == IF off + 1 >= Len(data[s].recs) THEN AfterSegment(L, s) ELSE Cursor(s, off + 1)
<1>0. /\ Shapes /\ TypeOK /\ DirsOK /\ CursorOK /\ ListingOK /\ WindowOK /\ StopOK
      /\ OrderOK /\ WindowOrderOK
  BY DEF DurableInv, OrderInv, Shapes
<1>1. /\ ppc = "read" /\ goal = "read"
      /\ UNCHANGED <<fileVars, cursor, proc, writerVars, goal, tries, listing, doomed, report, observed, failures>>
  BY <1>0 DEF PubRead, ListingOK
<1>2. /\ UNCHANGED <<dir, powerDirs, data, wpc, job, active, poisoned, group, nextRec>>
      /\ UNCHANGED <<acked, published, exit>>
  BY <1>1 DEF fileVars, writerVars, observed
<1>3. /\ Layout(L) /\ L \subseteq Names
      /\ Segments(L) \subseteq Segments(dir) /\ Sealed(L) \subseteq Sealed(dir)
      /\ proc \in {"publishing", "drain"} => L = dir
  BY <1>0, <1>1 DEF ListingOK, Layout
<1>4. /\ window \in [layout : SUBSET Names, next : Cursors, ckpt : Cursors, recs : Seq(Records), bytes : Nat]
      /\ next \in Cursors /\ next.seg \in Nat /\ next.off \in Nat
  BY <1>0 DEF TypeOK, Cursors
<1>5. /\ InLayout(L, cursor)
      /\ \A c \in {window.next, window.ckpt} : InLayout(L, c) /\ InsideOK(c) /\ Taken(c) /\ Reached(c)
      /\ window.bytes > 0 => window.recs # <<>>
  BY <1>0, <1>1 DEF WindowOK
<1>6. IF left = {}
      THEN window' = [window EXCEPT !.ckpt = window.next] /\ ppc' = "commit"
      ELSE IF off = Len(data[s].recs)
      THEN window' = [window EXCEPT !.next = after] /\ UNCHANGED ppc
      ELSE IF window.bytes > 0 /\ window.bytes + Size[r] > WindowBytes
      THEN ppc' = "commit" /\ UNCHANGED window
      ELSE /\ window' = [window EXCEPT !.next = after, !.ckpt = after, !.recs = Append(@, r),
                                       !.bytes = @ + Size[r]]
           /\ UNCHANGED ppc
  BY Zenon DEF PubRead
<1>7. \A t \in Segments(L) : t \in Nat
  BY <1>3, NamesView
\* The step keeps the rest of the invariant whatever the window becomes.
<1>8. ASSUME window' \in [layout : SUBSET Names, next : Cursors, ckpt : Cursors, recs : Seq(Records), bytes : Nat],
             window'.layout = L, ppc' \in {"read", "commit"}
      PROVE  /\ Shapes' /\ DirsOK' /\ InsideOK(cursor)' /\ AckedNeverLost' /\ GroupOK' /\ OrderOK'
             /\ ProcOK' /\ OpenOK' /\ StopOK' /\ CursorOK' /\ ListingOK' /\ DoomedOK'
  <2> HIDE DEF L, next, left, s, off, r, after
  <2>1. Shapes'
    <3>1. TypeOK'
      BY <1>0, <1>1, <1>2, <1>8 DEF TypeOK
    <3> QED BY <1>0, <1>2, <3>1 DEF Shapes
  <2>2. DirsOK' /\ InsideOK(cursor)' /\ AckedNeverLost' /\ GroupOK' /\ OrderOK'
    BY <1>1, <1>2, <2>1, PublisherCarried
  <2>3. ProcOK' /\ OpenOK' /\ StopOK'
    <3>1. PublisherRuns
      BY <1>1, Runs
    <3> QED BY <1>1, <1>2, <1>8, <3>1, PublisherGoesOn
  <2>4. CursorOK'
    <3>1. Top' = Top
      BY <1>2 DEF Top
    <3> QED BY <1>0, <1>1, <1>2, <2>2, <3>1 DEF CursorOK
  <2>5. ListingOK'
    BY <1>1, <1>2, <1>3, <1>8 DEF ListingOK
  <2>6. DoomedOK'
    BY <1>8 DEF DoomedOK
  <2> QED BY <2>1, <2>2, <2>3, <2>4, <2>5, <2>6
<1>9. \A c : InsideOK(c) /\ Reached(c) => InsideOK(c)' /\ Reached(c)'
  BY <1>1, <1>2 DEF InsideOK, Reached
<1>10. \A c : Taken(c) /\ Range(window.recs) \subseteq Range(window'.recs) => Taken(c)'
  BY <1>1, <1>2 DEF Taken
<1>11. CASE left = {}
  <2>1. window' = [window EXCEPT !.ckpt = window.next] /\ ppc' = "commit"
    BY <1>6, <1>11
  <2>2. /\ window' \in [layout : SUBSET Names, next : Cursors, ckpt : Cursors, recs : Seq(Records), bytes : Nat]
        /\ window'.layout = L /\ window'.next = next /\ window'.ckpt = next
        /\ window'.recs = window.recs /\ window'.bytes = window.bytes
    <3> DEFINE T == Seq(Records)
    <3> HIDE DEF T, left, s, off, r, after
    <3>1. window \in [layout : SUBSET Names, next : Cursors, ckpt : Cursors, recs : T, bytes : Nat]
      BY <1>4 DEF T
    <3>2. /\ window' \in [layout : SUBSET Names, next : Cursors, ckpt : Cursors, recs : T, bytes : Nat]
          /\ window'.layout = L /\ window'.next = next /\ window'.ckpt = next
          /\ window'.recs = window.recs /\ window'.bytes = window.bytes
      BY <2>1, <3>1
    <3> QED BY <3>2 DEF T
  <2>3. WindowOK'
    <3>1. \A c \in {window'.next, window'.ckpt} :
             InLayout(window'.layout, c) /\ InsideOK(c)' /\ Taken(c)' /\ Reached(c)'
      BY <1>5, <1>9, <1>10, <2>2
    <3>2. \A t \in Sealed(L) : t < window'.ckpt.seg
      BY <1>4, <1>7, <1>11, <2>2 DEF Segments
    <3> QED BY <1>1, <1>5, <2>1, <2>2, <3>1, <3>2 DEF WindowOK
  <2>4. WindowOrderOK'
    BY <1>0, <1>1, <1>2, <2>1, <2>2 DEF WindowOrderOK
  <2> QED BY <1>8, <2>1, <2>2, <2>3, <2>4 DEF DurableInv, OrderInv
<1>12. ASSUME left # {}
       PROVE  s \in Sealed(L) /\ s = next.seg /\ off = next.off
  <2>1. left \subseteq Nat
    BY <1>7 DEF Segments
  <2>2. \E x \in left : \A y \in left : x <= y
    BY <1>12, <2>1, LeastNatural
  <2>3. s \in left /\ \A y \in left : s <= y
    BY <2>2 DEF Min
  <2>4. next.seg \in Segments(L)
    <3>1. Bounded(L)
      BY <1>0, <1>3 DEF DirsOK, Bounded
    <3>2. CASE next.seg \in NextSegment(L)
      <4>1. \A t \in Segments(L) : t < next.seg
        BY <1>3, <3>1, <3>2, NextView
      <4>2. s \in Segments(L) /\ s \in Nat /\ s >= next.seg
        BY <2>1, <2>3 DEF Segments
      <4>3. PICK x : x = s
        OBVIOUS
      <4>4. PICK y : y = next.seg
        OBVIOUS
      <4>5. x < y /\ x \in Nat /\ y \in Nat /\ x >= y
        BY <1>4, <4>1, <4>2, <4>3, <4>4
      <4> QED BY <4>5
    <3> QED BY <1>5, <3>2 DEF InLayout
  <2>5. next.seg \in Sealed(L)
    <3>1. CASE next.seg \in Open(L)
      <4>1. s <= next.seg
        BY <1>3, <2>3, <3>1 DEF Layout, Segments
      <4>2. s = next.seg
        <5>1. s \in Nat /\ s >= next.seg
          BY <2>1, <2>3
        <5> HIDE DEF s, next
        <5> QED BY <1>4, <4>1, <5>1
      <4> QED BY <1>3, <2>3, <3>1, <4>2 DEF Layout
    <3> QED BY <2>4, <3>1 DEF Segments
  <2>6. next.seg \in left
    BY <1>4, <2>5
  <2>7. s \in Nat /\ s >= next.seg /\ s <= next.seg
    BY <2>1, <2>3, <2>6
  <2>8. s = next.seg
    BY <1>4, <2>7
  <2> QED BY <2>3, <2>8
<1>13. ASSUME left # {}
       PROVE  /\ s \in Nat /\ off \in Nat /\ s \in Segments(dir) /\ s \in DOMAIN data
              /\ \A d \in powerDirs : s \in Segments(d)
              /\ Len(data[s].recs) \in Nat /\ data[s].recs \in Seq(Records)
              /\ data[s].synced = Len(data[s].recs)
              /\ AfterSegment(L, s) = Cursor(s + 1, 0) /\ s + 1 \in Segments(L) \cup NextSegment(L)
  <2> HIDE DEF left
  <2>1. s \in Sealed(dir) /\ s \in Sealed(L) /\ off = next.off /\ s = next.seg
    BY <1>3, <1>12, <1>13
  <2> HIDE DEF s, off
  <2>2. s \in Nat /\ off \in Nat /\ s \in Segments(dir) /\ dir \in powerDirs
    BY <1>0, <1>4, <2>1 DEF DirsOK, Segments
  <2>3. s \in DOMAIN data /\ Solid(s) /\ \A d \in powerDirs : s \in Segments(d)
    BY <1>0, <2>1, <2>2 DEF DirsOK
  <2>4. Bounded(L)
    BY <1>0, <1>3 DEF DirsOK, Bounded
  <2>5. AfterSegment(L, s) = Cursor(s + 1, 0) /\ s + 1 \in Segments(L) \cup NextSegment(L)
    BY <1>3, <2>1, <2>4, AfterIsNext
  <2> QED BY <1>0, <2>2, <2>3, <2>5, FileShape DEF Solid
<1> HIDE DEF s, off
<1>14. ASSUME left # {}
       PROVE  /\ after \in Cursors /\ InLayout(L, after) /\ InsideOK(after) /\ Reached(after)
              /\ \/ after.seg = s + 1 /\ after.off = 0 /\ off + 1 >= Len(data[s].recs)
                 \/ after.seg = s /\ after.off = off + 1 /\ off + 1 < Len(data[s].recs)
  <2> HIDE DEF left
  <2>0. next.seg = s /\ next.off = off /\ s \in Sealed(L) /\ s \in Nat /\ off \in Nat
    BY <1>12, <1>13, <1>14
  <2>1. Len(data[s].recs) \in Nat
    BY <1>13, <1>14
  <2>2. cursor.seg \in Nat /\ cursor.off \in Nat
    BY <1>0 DEF TypeOK, Cursors
  <2>3. cursor.seg < s \/ (cursor.seg = s /\ cursor.off <= off)
    BY <1>5, <2>0, <2>2 DEF Reached
  <2>4. CASE off + 1 >= Len(data[s].recs)
    <3>1. after = Cursor(s + 1, 0)
      BY <1>13, <1>14, <2>4
    <3>2. after \in Cursors /\ after.seg = s + 1 /\ after.off = 0
      BY <2>0, <3>1 DEF Cursor, Cursors
    <3>3. InLayout(L, after)
      BY <1>13, <1>14, <3>2 DEF InLayout
    <3>4. InsideOK(after) /\ Reached(after)
      BY <2>0, <2>2, <2>3, <3>2 DEF InsideOK, Reached
    <3> QED BY <2>4, <3>2, <3>3, <3>4
  <2>5. CASE ~(off + 1 >= Len(data[s].recs))
    <3>1. after = Cursor(s, off + 1)
      BY <2>5
    <3>2. after \in Cursors /\ after.seg = s /\ after.off = off + 1
      BY <2>0, <3>1 DEF Cursor, Cursors
    <3>3. InLayout(L, after)
      BY <2>0, <3>2 DEF InLayout, Segments
    <3>4. InsideOK(after)
      BY <1>13, <1>14, <2>0, <2>1, <2>5, <3>2 DEF InsideOK
    <3>5. Reached(after)
      BY <2>0, <2>2, <2>3, <3>2 DEF Reached
    <3> QED BY <2>0, <2>1, <2>5, <3>2, <3>3, <3>4, <3>5
  <2> QED BY <2>4, <2>5
<1>15. ASSUME left # {}, NEW d \in powerDirs, NEW t \in Segments(d), NEW i \in 1..Len(data[t].recs)
       PROVE  /\ ~Past(after, t, i) => ~Past(next, t, i) \/ (t = s /\ i = off + 1)
              /\ Past(after, t, i) => Past(next, t, i) /\ Before(s, off + 1, t, i)
  <2> HIDE DEF left
  <2>1. t \in Nat /\ i \in Nat /\ i >= 1 /\ Len(data[t].recs) \in Nat /\ i <= Len(data[t].recs)
    BY <1>0, DirFile
  <2>2. next.seg = s /\ next.off = off /\ s \in Nat /\ off \in Nat
    BY <1>12, <1>13, <1>15
  <2>3. CASE after.seg = s + 1 /\ after.off = 0 /\ off + 1 >= Len(data[s].recs)
    <3> HIDE DEF next, after
    <3> QED BY <2>1, <2>2, <2>3 DEF Past, Before
  <2>4. CASE after.seg = s /\ after.off = off + 1
    <3> HIDE DEF next, after
    <3> QED BY <2>1, <2>2, <2>4 DEF Past, Before
  <2> QED BY <1>14, <1>15, <2>3, <2>4
<1> HIDE DEF after
<1>16. CASE left # {} /\ off = Len(data[s].recs)
  <2> HIDE DEF left
  <2>1. window' = [window EXCEPT !.next = after] /\ UNCHANGED ppc
    BY <1>6, <1>16
  <2>2. /\ window' \in [layout : SUBSET Names, next : Cursors, ckpt : Cursors, recs : Seq(Records), bytes : Nat]
        /\ window'.layout = L /\ window'.next = after /\ window'.ckpt = window.ckpt
        /\ window'.recs = window.recs /\ window'.bytes = window.bytes
    <3> DEFINE T == Seq(Records)
    <3> HIDE DEF T
    <3>1. window \in [layout : SUBSET Names, next : Cursors, ckpt : Cursors, recs : T, bytes : Nat]
      BY <1>4 DEF T
    <3>2. after \in Cursors
      BY <1>14, <1>16
    <3>3. /\ window' \in [layout : SUBSET Names, next : Cursors, ckpt : Cursors, recs : T, bytes : Nat]
          /\ window'.layout = L /\ window'.next = after /\ window'.ckpt = window.ckpt
          /\ window'.recs = window.recs /\ window'.bytes = window.bytes
      BY <2>1, <3>1, <3>2
    <3> QED BY <3>3 DEF T
  <2>3. Taken(after)
    <3> SUFFICES ASSUME NEW d \in powerDirs, NEW t \in Segments(d), NEW i \in 1..Len(data[t].recs),
                        Past(cursor, t, i), ~Past(after, t, i)
                 PROVE  data[t].recs[i] \in Range(window.recs)
      BY DEF Taken
    <3>1. ~(t = s /\ i = off + 1)
      BY <1>13, <1>16
    <3>2. ~Past(next, t, i)
      BY <1>15, <1>16, <3>1
    <3> QED BY <1>5, <3>2 DEF Taken
  <2>4. WindowOK'
    <3>1. \A c \in {window'.next, window'.ckpt} :
             InLayout(window'.layout, c) /\ InsideOK(c)' /\ Taken(c)' /\ Reached(c)'
      BY <1>5, <1>9, <1>10, <1>14, <1>16, <2>2, <2>3
    <3> QED BY <1>1, <1>5, <2>1, <2>2, <3>1 DEF WindowOK
  <2>5. WindowOrderOK'
    <3>1. \A d \in powerDirs : \A t \in Segments(d) : \A i \in 1..Len(data[t].recs) :
             Past(after, t, i) => \A m \in 1..Len(window.recs) : window.recs[m] < data[t].recs[i]
      BY <1>0, <1>1, <1>15, <1>16 DEF WindowOrderOK
    <3>2. \A d \in powerDirs : \A t \in Segments(d) : \A i \in 1..Len(data[t].recs) :
             \A c \in {after, window.ckpt} :
               Past(c, t, i) => \A m \in 1..Len(window.recs) : window.recs[m] < data[t].recs[i]
      BY <1>0, <1>1, <3>1 DEF WindowOrderOK
    <3> QED BY <1>0, <1>1, <1>2, <2>1, <2>2, <3>2 DEF WindowOrderOK, Past
  <2> QED BY <1>1, <1>8, <2>1, <2>2, <2>4, <2>5 DEF DurableInv, OrderInv
<1>17. CASE left # {} /\ window.bytes > 0 /\ ppc' = "commit" /\ UNCHANGED window
  <2> HIDE DEF left
  <2>1. WindowOK'
    <3>1. \A c \in {window'.next, window'.ckpt} :
             InLayout(window'.layout, c) /\ InsideOK(c)' /\ Taken(c)' /\ Reached(c)'
      BY <1>5, <1>9, <1>10, <1>17
    <3> QED BY <1>1, <1>5, <1>17, <3>1 DEF WindowOK
  <2>2. WindowOrderOK'
    BY <1>0, <1>1, <1>2, <1>17 DEF WindowOrderOK
  <2> QED BY <1>4, <1>8, <1>17, <2>1, <2>2 DEF DurableInv, OrderInv
<1>18. CASE left # {} /\ off # Len(data[s].recs) /\ ~(window.bytes > 0 /\ window.bytes + Size[r] > WindowBytes)
  <2> HIDE DEF left
  <2>1. /\ window' = [window EXCEPT !.next = after, !.ckpt = after, !.recs = Append(window.recs, r),
                                    !.bytes = window.bytes + Size[r]]
        /\ UNCHANGED ppc
    BY <1>6, <1>18, Zenon
  <2>2. /\ off < Len(data[s].recs) /\ off + 1 \in 1..Len(data[s].recs)
        /\ Past(next, s, off + 1) /\ r \in Records
    <3>1. next.seg = s /\ next.off = off /\ off \in Nat /\ Len(data[s].recs) \in Nat
          /\ data[s].recs \in Seq(Records) /\ data[s].synced = Len(data[s].recs)
      BY <1>12, <1>13, <1>18
    <3>2. off < Len(data[s].recs)
      <4>1. CASE off = 0
        BY <1>18, <3>1, <4>1
      <4>2. CASE off > 0
        <5>1. InsideOK(next)
          BY <1>5
        <5> QED BY <3>1, <4>2, <5>1 DEF InsideOK
      <4> QED BY <3>1, <4>1, <4>2
    <3>3. off + 1 \in 1..Len(data[s].recs)
      BY <3>1, <3>2
    <3>4. data[s].recs[off + 1] \in Records
      BY <3>1, <3>3
    <3> HIDE DEF next
    <3> QED BY <3>1, <3>2, <3>3, <3>4 DEF Past
  <2>3. Size[r] \in Nat
    BY <2>2, SizeAssumption
  <2> HIDE DEF r
  <2> DEFINE q == Append(window.recs, r)
             n == window.bytes + Size[r]
  <2>4. q \in Seq(Records) /\ n \in Nat /\ window.recs \in Seq(Records) /\ after \in Cursors
    BY <1>4, <1>14, <1>18, <2>2, <2>3, TookRange
  <2>5. window' = [window EXCEPT !.next = after, !.ckpt = after, !.recs = q, !.bytes = n]
    BY <2>1, Zenon
  <2>6. /\ Len(q) = Len(window.recs) + 1 /\ Len(window.recs) \in Nat
        /\ \A m \in 1..Len(window.recs) : q[m] = window.recs[m]
        /\ q[Len(window.recs) + 1] = r /\ r \in Range(q) /\ Range(window.recs) \subseteq Range(q)
        /\ q # <<>>
    BY <2>2, <2>4, TookRange
  <2> HIDE DEF q, n
  <2>7. /\ window' \in [layout : SUBSET Names, next : Cursors, ckpt : Cursors, recs : Seq(Records), bytes : Nat]
        /\ window'.layout = L /\ window'.next = after /\ window'.ckpt = after /\ window'.recs = q
    BY <1>4, <2>4, <2>5, WindowTook
  <2>8. PICK c : c = after
    OBVIOUS
  <2>9. WindowOK'
    <3>1. \A e \in {window'.next, window'.ckpt} : e = c
      BY <2>7, <2>8
    <3>2. InLayout(L, c) /\ InsideOK(c)' /\ Reached(c)'
      BY <1>9, <1>14, <1>18, <2>8
    <3>3. Taken(c)'
      <4> SUFFICES ASSUME NEW d \in powerDirs, NEW t \in Segments(d), NEW i \in 1..Len(data[t].recs),
                          Past(cursor, t, i), ~Past(c, t, i)
                   PROVE  data[t].recs[i] \in Range(q)
        BY <1>1, <1>2, <2>7 DEF Taken, Past
      <4>1. CASE ~Past(next, t, i)
        BY <1>5, <2>6, <4>1 DEF Taken
      <4>2. CASE t = s /\ i = off + 1
        BY <2>6, <4>2 DEF r
      <4> QED BY <1>15, <1>18, <2>8, <4>1, <4>2
    <3>4. \A e \in {window'.next, window'.ckpt} :
             InLayout(window'.layout, e) /\ InsideOK(e)' /\ Taken(e)' /\ Reached(e)'
      BY <2>7, <3>1, <3>2, <3>3
    <3> QED BY <1>1, <1>5, <2>1, <2>6, <2>7, <3>4 DEF WindowOK
  <2>10. dir \in powerDirs /\ s \in Segments(dir) /\ r = data[s].recs[off + 1] /\ r \in Nat
    BY <1>0, <1>13, <1>18, <2>2, RecordsAssumption DEF DirsOK, r, Records
  <2>11. r < nextRec /\ \A k \in 1..Len(published) : published[k] < r
    <3>1. Past(cursor, s, off + 1)
      <4>1. Reached(next) /\ cursor.seg \in Nat /\ cursor.off \in Nat /\ s \in Nat /\ off \in Nat
            /\ next.seg = s /\ next.off = off
        BY <1>0, <1>5, <1>12, <1>13, <1>18 DEF TypeOK, Cursors
      <4> HIDE DEF next
      <4> QED BY <4>1 DEF Reached, Past
    <3> QED BY <1>0, <2>2, <2>10, <3>1 DEF OrderOK
  <2>12. \A m \in 1..Len(window.recs) : window.recs[m] < r
    BY <1>0, <1>1, <2>2, <2>10 DEF WindowOrderOK
  <2>13. \A m \in 1..Len(q) : m \in 1..Len(window.recs) \/ m = Len(window.recs) + 1
    BY <2>6
  <2>14. WindowOrderOK'
    <3>1. ASSUME NEW k \in 1..Len(q), NEW m \in 1..Len(q), k < m PROVE q[k] < q[m]
      <4>1. k \in 1..Len(window.recs)
        BY <2>6, <2>13, <3>1
      <4>2. CASE m \in 1..Len(window.recs)
        BY <1>0, <1>1, <2>6, <3>1, <4>1, <4>2 DEF WindowOrderOK
      <4>3. CASE m = Len(window.recs) + 1
        BY <2>6, <2>12, <4>1, <4>3
      <4> QED BY <2>13, <4>2, <4>3
    <3>2. ASSUME NEW m \in 1..Len(q)
          PROVE  q[m] < nextRec /\ \A k \in 1..Len(published) : published[k] < q[m]
      BY <1>0, <1>1, <2>6, <2>11, <2>13 DEF WindowOrderOK
    <3>3. ASSUME NEW d \in powerDirs, NEW t \in Segments(d), NEW i \in 1..Len(data[t].recs),
                 Past(after, t, i), NEW m \in 1..Len(q)
          PROVE  q[m] < data[t].recs[i]
      <4>1. Past(next, t, i) /\ Before(s, off + 1, t, i)
        BY <1>15, <1>18, <3>3
      <4>2. CASE m \in 1..Len(window.recs)
        BY <1>0, <1>1, <2>6, <4>1, <4>2 DEF WindowOrderOK
      <4>3. CASE m = Len(window.recs) + 1
        <5>1. s \in Segments(d)
          BY <1>13, <1>18
        <5> QED BY <1>0, <2>2, <2>6, <2>10, <4>1, <4>3, <5>1 DEF OrderOK
      <4> QED BY <2>13, <4>2, <4>3
    <3>4. \A e \in {window'.next, window'.ckpt} : e = after
      BY <2>7
    <3>5. \A d \in powerDirs : \A t \in Segments(d) : \A i \in 1..Len(data[t].recs) :
             \A e \in {window'.next, window'.ckpt} :
               Past(e, t, i) => \A m \in 1..Len(q) : q[m] < data[t].recs[i]
      BY <3>3, <3>4
    <3> QED BY <1>1, <1>2, <2>7, <3>1, <3>2, <3>5 DEF WindowOrderOK, Past
  <2> QED BY <1>1, <1>8, <2>1, <2>7, <2>9, <2>14 DEF DurableInv, OrderInv
<1> QED BY <1>6, <1>11, <1>16, <1>17, <1>18

\* A drain whose window finds nothing has published everything acknowledged: the
\* open segment is empty and every sealed one lies before the window's end.
LEMMA AllTaken ==
    ASSUME DurableInv, ppc = "commit", window.recs = <<>>, proc = "drain", ~poisoned
    PROVE  acked \subseteq Range(published)
<1>0. /\ Shapes /\ TypeOK /\ DirsOK /\ ProcOK /\ OpenOK /\ ListingOK /\ WindowOK /\ StopOK
      /\ AckedNeverLost
  BY DEF DurableInv, Shapes
<1>1. dir \in powerDirs /\ Open(dir) = {active} /\ data[active].recs = <<>> /\ window.layout = dir
  BY <1>0 DEF DirsOK, ProcOK, OpenOK, StopOK, ListingOK
<1>2. Taken(window.ckpt) /\ \A s \in Sealed(dir) : s < window.ckpt.seg
  BY <1>0, <1>1 DEF WindowOK
<1>3. window.ckpt.seg \in Nat
  BY <1>0 DEF TypeOK, Cursors
<1>4. SUFFICES ASSUME NEW r \in acked, r \notin Range(published)
               PROVE  FALSE
  OBVIOUS
<1>5. PICK s \in Segments(dir) : \E i \in 1..data[s].synced :
         data[s].recs[i] = r /\ (s > cursor.seg \/ (s = cursor.seg /\ i > cursor.off))
  BY <1>0, <1>1, <1>4 DEF AckedNeverLost, SurvivesIn, Segments
<1>6. PICK i \in 1..data[s].synced :
         data[s].recs[i] = r /\ (s > cursor.seg \/ (s = cursor.seg /\ i > cursor.off))
  BY <1>5
<1>7. /\ s \in Nat /\ i \in 1..Len(data[s].recs) /\ Past(cursor, s, i)
      /\ data[s].synced \in Nat /\ data[s].synced <= Len(data[s].recs)
  BY <1>0, <1>1, <1>6, DirFile DEF Past
<1>8. s # active
  <2>1. s = active => Len(data[s].recs) = 0
    BY <1>1
  <2> QED BY <1>7, <2>1
<1>9. s < window.ckpt.seg
  BY <1>1, <1>2, <1>8 DEF Segments
<1>10. ~Past(window.ckpt, s, i)
  BY <1>3, <1>7, <1>9 DEF Past
<1>11. r \in Range(window.recs)
  BY <1>1, <1>2, <1>6, <1>7, <1>10 DEF Taken
<1> QED BY <1>11 DEF Range

\* publish_window finds nothing pending.
LEMMA PubNothingKeeps ==
    ASSUME DurableInv, OrderInv, PubNothing
    PROVE  DurableInv' /\ OrderInv'
<1>0. Shapes /\ TypeOK /\ DirsOK /\ CursorOK /\ ListingOK /\ WindowOK
  BY DEF DurableInv, Shapes
<1>1. /\ ppc = "commit" /\ window.recs = <<>>
      /\ UNCHANGED <<fileVars, cursor, writerVars, report, acked, published, failures>>
  BY DEF PubNothing
<1>2. report' \in {"ok", "race", "corruption", "io"} /\ failures' \in 0..MaxFailures
  BY <1>0, <1>1 DEF TypeOK
<1>3. proc = "publishing" => cursor.seg <= active
  BY <1>0, <1>1 DEF CursorOK
<1>4. proc = "drain" /\ ~poisoned => acked \subseteq Range(published)
  BY <1>1, AllTaken
<1>5. CASE window.ckpt # cursor
  <2>1. /\ goal' = "tidy" /\ ListAgain(1) /\ window' = NoWindow
        /\ UNCHANGED <<doomed, proc, exit>>
    BY <1>5 DEF PubNothing
  <2>2. 1 \in 0..RaceAttempts
    BY LimitsAssumption
  <2>3. \A s \in Segments(dir) : s < cursor.seg => s \in Sealed(dir)
    <3> DEFINE L == window.layout
    <3>1. L \subseteq Names /\ Segments(L) \subseteq Segments(dir) /\ Sealed(L) \subseteq Sealed(dir)
      BY <1>0, <1>1 DEF ListingOK, Layout
    <3>2. InLayout(L, cursor)
      BY <1>0, <1>1 DEF WindowOK
    <3> HIDE DEF L
    <3> QED BY <3>1, <3>2, BelowSealed
  <2>4. PublisherRuns
    BY <1>1, Runs
  <2> QED BY <1>1, <1>2, <1>3, <1>4, <2>1, <2>2, <2>3, <2>4, ListAgainKeeps
<1>6. CASE window.ckpt = cursor
  <2>1. PubReturns("none")
    BY <1>6 DEF PubNothing
  <2> QED BY <1>1, <1>2, <1>3, <1>4, <2>1, ReturnKeeps
<1> QED BY <1>5, <1>6

\* What the lake holds once it has taken a window.
LEMMA JoinRange ==
    ASSUME NEW p \in Seq(Records), NEW q \in Seq(Records)
    PROVE  /\ p \o q \in Seq(Records) /\ Len(p \o q) = Len(p) + Len(q)
           /\ Len(p) \in Nat /\ Len(q) \in Nat
           /\ \A k \in 1..Len(p) : (p \o q)[k] = p[k]
           /\ \A k \in 1..Len(q) : (p \o q)[Len(p) + k] = q[k]
           /\ \A k \in 1..Len(p \o q) : k \in 1..Len(p) \/ k - Len(p) \in 1..Len(q)
           /\ Range(p) \subseteq Range(p \o q) /\ Range(q) \subseteq Range(p \o q)
<1> HIDE DEF Records
<1> DEFINE j == p \o q
<1>1. /\ j \in Seq(Records) /\ Len(j) = Len(p) + Len(q) /\ Len(p) \in Nat /\ Len(q) \in Nat
      /\ \A k \in 1..Len(p) : j[k] = p[k]
      /\ \A k \in 1..Len(q) : j[Len(p) + k] = q[k]
  OBVIOUS
<1>2. DOMAIN p = 1..Len(p) /\ DOMAIN q = 1..Len(q) /\ DOMAIN j = 1..Len(j)
  BY <1>1
<1> HIDE DEF j
<1>3. \A k \in 1..Len(j) : k \in 1..Len(p) \/ k - Len(p) \in 1..Len(q)
  BY <1>1
<1>4. \A k \in 1..Len(p) : k \in 1..Len(j)
  BY <1>1
<1>5. \A k \in 1..Len(q) : Len(p) + k \in 1..Len(j)
  BY <1>1
<1>6. Range(p) \subseteq Range(j)
  BY <1>1, <1>2, <1>4 DEF Range
<1>7. Range(q) \subseteq Range(j)
  BY <1>1, <1>2, <1>5 DEF Range
<1> QED BY <1>1, <1>3, <1>6, <1>7 DEF j

\* One transaction: the window and the checkpoint after it.
LEMMA PubCommitKeeps ==
    ASSUME DurableInv, OrderInv, PubCommit
    PROVE  DurableInv' /\ OrderInv'
<1> DEFINE L == window.layout
           ckpt == window.ckpt
<1>0. /\ Shapes /\ TypeOK /\ DirsOK /\ ProcOK /\ CursorOK /\ ListingOK /\ WindowOK
      /\ AckedNeverLost /\ GroupOK /\ OrderOK /\ WindowOrderOK
  BY DEF DurableInv, OrderInv, Shapes
<1>1. /\ ppc = "commit" /\ cursor' = ckpt /\ goal' = "reclaim" /\ ListAgain(1) /\ window' = NoWindow
      /\ UNCHANGED <<fileVars, proc, writerVars, doomed, report, acked, exit, failures>>
  BY DEF PubCommit
<1>2. published' = published \o window.recs
  BY DEF PubCommit
<1>3. /\ UNCHANGED <<dir, powerDirs, data, wpc, job, active, poisoned, group, nextRec>>
      /\ ppc' = "list" /\ tries' = 1 /\ listing' = [stable |-> dir, ever |-> dir]
  BY <1>1 DEF fileVars, writerVars, ListAgain
<1>4. /\ published \in Seq(Records) /\ window.recs \in Seq(Records)
      /\ ckpt \in Cursors /\ ckpt.seg \in Nat /\ ckpt.off \in Nat
      /\ cursor.seg \in Nat /\ cursor.off \in Nat
  BY <1>0 DEF TypeOK, Cursors
<1>5. /\ published' \in Seq(Records) /\ Len(published') = Len(published) + Len(window.recs)
      /\ Len(published) \in Nat /\ Len(window.recs) \in Nat
      /\ \A k \in 1..Len(published) : published'[k] = published[k]
      /\ \A k \in 1..Len(window.recs) : published'[Len(published) + k] = window.recs[k]
      /\ \A k \in 1..Len(published') : k \in 1..Len(published) \/ k - Len(published) \in 1..Len(window.recs)
      /\ Range(published) \subseteq Range(published') /\ Range(window.recs) \subseteq Range(published')
  BY <1>2, <1>4, JoinRange
<1>6. /\ Layout(L) /\ L \subseteq Names
      /\ Segments(L) \subseteq Segments(dir) /\ Sealed(L) \subseteq Sealed(dir)
  BY <1>0, <1>1 DEF ListingOK, Layout
<1>7. InLayout(L, ckpt) /\ InsideOK(ckpt) /\ Taken(ckpt) /\ Reached(ckpt)
  BY <1>0, <1>1 DEF WindowOK
<1>8. PublisherRuns
  BY <1>1, Runs
<1>9. Shapes'
  <2>1. /\ listing' \in [stable : SUBSET Names, ever : SUBSET Names]
        /\ window' \in [layout : SUBSET Names, next : Cursors, ckpt : Cursors,
                        recs : Seq(Records), bytes : Nat]
    <3>1. dir \in SUBSET Names
      BY <1>0 DEF TypeOK
    <3> QED BY <1>1, <1>3, <3>1, NothingShapes
  <2>2. tries' \in 0..RaceAttempts
    BY <1>3, LimitsAssumption
  <2>3. TypeOK /\ published' \in Seq(Records) /\ cursor' \in Cursors
    BY <1>0, <1>1, <1>4, <1>5
  <2>4. TypeOK'
    BY <1>1, <1>3, <2>1, <2>2, <2>3 DEF TypeOK
  <2> QED BY <1>0, <1>3, <2>4 DEF Shapes
<1>10. DirsOK' /\ InsideOK(cursor)'
  BY <1>0, <1>1, <1>3, <1>7 DEF DirsOK, Solid, InsideOK
<1> HIDE DEF ckpt
\* A record before the checkpoint is in the window.
<1>11. ASSUME NEW d \in powerDirs, NEW s \in Segments(d), NEW i \in 1..Len(data[s].recs),
              Past(cursor, s, i), data[s].recs[i] \notin Range(published')
       PROVE  Past(cursor', s, i)
  BY <1>1, <1>5, <1>7, <1>11 DEF Taken
<1>12. AckedNeverLost'
  <2> SUFFICES ASSUME NEW r \in acked, r \notin Range(published'), NEW d \in powerDirs
               PROVE  SurvivesIn(d, r)'
    BY <1>1, <1>3 DEF AckedNeverLost
  <2>1. SurvivesIn(d, r)
    BY <1>0, <1>5 DEF AckedNeverLost
  <2>2. PICK s \in Segments(d) : \E i \in 1..data[s].synced : data[s].recs[i] = r /\ Past(cursor, s, i)
    BY <2>1 DEF SurvivesIn, Segments, Past
  <2>3. PICK i \in 1..data[s].synced : data[s].recs[i] = r /\ Past(cursor, s, i)
    BY <2>2
  <2>4. i \in 1..Len(data[s].recs)
    BY <1>0, DirFile
  <2>5. Past(cursor', s, i)
    BY <1>11, <2>3, <2>4
  <2> QED BY <1>3, <2>3, <2>5 DEF SurvivesIn, Segments, Past
<1>13. GroupOK'
  <2> SUFFICES ASSUME ~poisoned, NEW r \in group, r \notin Range(published'), NEW d \in powerDirs
               PROVE  HeldIn(d, r)'
    BY <1>3 DEF GroupOK
  <2>1. HeldIn(d, r)
    BY <1>0, <1>5 DEF GroupOK
  <2>2. PICK s \in Segments(d) : \E i \in 1..Len(data[s].recs) :
           data[s].recs[i] = r /\ Past(cursor, s, i) /\ (s = active \/ i <= data[s].synced)
    BY <2>1 DEF HeldIn
  <2>3. PICK i \in 1..Len(data[s].recs) :
           data[s].recs[i] = r /\ Past(cursor, s, i) /\ (s = active \/ i <= data[s].synced)
    BY <2>2
  <2>4. Past(cursor', s, i)
    BY <1>11, <2>3
  <2> QED BY <1>3, <2>3, <2>4 DEF HeldIn, Past
<1>14. OrderOK'
  <2>1. ASSUME NEW k \in 1..Len(published') PROVE published'[k] < nextRec
    <3>1. CASE k \in 1..Len(published)
      BY <1>0, <1>5, <3>1 DEF OrderOK
    <3>2. CASE k - Len(published) \in 1..Len(window.recs)
      <4>1. published'[k] = window.recs[k - Len(published)]
        BY <1>5, <3>2
      <4> QED BY <1>0, <1>1, <3>2, <4>1 DEF WindowOrderOK
    <3> QED BY <1>5, <3>1, <3>2
  <2>2. ASSUME NEW d \in powerDirs, NEW s \in Segments(d), NEW i \in 1..Len(data[s].recs),
               Past(ckpt, s, i), NEW k \in 1..Len(published')
        PROVE  published'[k] < data[s].recs[i]
    <3>1. CASE k \in 1..Len(published)
      <4>1. s \in Nat /\ i \in Nat
        BY <1>0, DirFile
      <4>2. Past(cursor, s, i)
        BY <1>4, <1>7, <2>2, <4>1 DEF Past, Reached
      <4> QED BY <1>0, <1>5, <3>1, <4>2 DEF OrderOK
    <3>2. CASE k - Len(published) \in 1..Len(window.recs)
      <4>1. published'[k] = window.recs[k - Len(published)]
        BY <1>5, <3>2
      <4> QED BY <1>0, <1>1, <2>2, <3>2, <4>1 DEF WindowOrderOK, ckpt
    <3> QED BY <1>5, <3>1, <3>2
  <2> QED BY <1>0, <1>1, <1>3, <2>1, <2>2 DEF OrderOK, Past
<1>15. CursorOK'
  <2>1. Top' = Top
    BY <1>3 DEF Top
  <2>2. proc \notin {"down", "refused"} /\ ~poisoned => ckpt.seg <= Top
    BY <1>6, <1>7, WithinTop
  <2>3. proc = "publishing" => ~poisoned /\ Top = active
    BY <1>0 DEF CursorOK, ProcOK, Top
  <2> QED BY <1>1, <1>3, <1>10, <2>1, <2>2, <2>3 DEF CursorOK
<1>16. ListingOK'
  <2>1. dir \subseteq Names /\ listing'.stable = dir /\ listing'.ever = dir
    BY <1>0, <1>3 DEF TypeOK
  <2>2. \A s \in Segments(dir) : s < ckpt.seg => s \in Sealed(dir)
    BY <1>6, <1>7, BelowSealed
  <2> QED BY <1>1, <1>3, <2>1, <2>2 DEF ListingOK
<1>17. ProcOK' /\ OpenOK' /\ StopOK'
  BY <1>1, <1>3, <1>5, <1>8, PublisherGoesOn
<1>18. DoomedOK' /\ WindowOK' /\ WindowOrderOK'
  BY <1>3 DEF DoomedOK, WindowOK, WindowOrderOK
<1> QED BY <1>9, <1>10, <1>12, <1>13, <1>14, <1>15, <1>16, <1>17, <1>18 DEF DurableInv, OrderInv

\* reclaim_through removes the oldest file it may.
LEMMA PubUnlinkKeeps ==
    ASSUME DurableInv, OrderInv, PubUnlink
    PROVE  DurableInv' /\ OrderInv'
<1> DEFINE m == Min(doomed)
<1>0. /\ Shapes /\ TypeOK /\ DirsOK /\ ProcOK /\ OpenOK /\ CursorOK /\ DoomedOK /\ StopOK
      /\ AckedNeverLost /\ GroupOK /\ OrderOK
  BY DEF DurableInv, OrderInv, Shapes
<1>1. /\ ppc = "unlink" /\ ppc' \in {"unlink", "dirsync"}
      /\ dir' = dir \ {<<m, "wal">>} /\ powerDirs' = powerDirs \cup {dir'} /\ UNCHANGED listing
      /\ doomed' = doomed \ {m} /\ (ppc' = "unlink" => doomed' # {})
  BY DEF PubUnlink, DirBecomes
<1>2. /\ UNCHANGED <<data, cursor, proc, wpc, job, active, poisoned, group, nextRec>>
      /\ UNCHANGED <<goal, tries, window, report, acked, published, exit, failures>>
  BY DEF PubUnlink, writerVars, observed
<1>3. /\ doomed # {} /\ doomed \subseteq Sealed(dir)
      /\ \A s \in doomed : Covered(s, cursor, Len(data[s].recs))
      /\ \A s \in Segments(dir) : s < cursor.seg => s \in doomed
  BY <1>0, <1>1 DEF DoomedOK
<1>4. /\ dir \in powerDirs /\ Layout(dir) /\ Bounded(dir) /\ dir \subseteq Names
      /\ \A s \in Segments(dir) : s \in Nat
  <2>1. dir \in powerDirs /\ Layout(dir) /\ Bounded(dir) /\ dir \subseteq Names
    BY <1>0 DEF DirsOK, Layout
  <2> QED BY <2>1, NamesView
<1>5. m \in doomed /\ \A s \in doomed : m <= s
  <2>1. doomed \subseteq Nat
    BY <1>3, <1>4 DEF Segments
  <2>2. \E x \in doomed : \A y \in doomed : x <= y
    BY <1>3, <2>1, LeastNatural
  <2> QED BY <2>2 DEF Min
<1>6. /\ m \in Nat /\ m \in Segments(dir) /\ m \in Sealed(dir)
      /\ cursor.seg \in Nat /\ cursor.off \in Nat /\ Len(data[m].recs) \in Nat
      /\ data[m].synced \in Nat /\ data[m].synced <= Len(data[m].recs)
  <2>1. m \in Segments(dir) /\ m \in Sealed(dir)
    BY <1>3, <1>5 DEF Segments
  <2> QED BY <1>0, <1>4, <2>1, DirFile DEF TypeOK, Cursors
<1>7. m < cursor.seg \/ (m = cursor.seg /\ cursor.off = Len(data[m].recs))
  BY <1>3, <1>5 DEF Covered
<1> HIDE DEF m
\* No older file is left, so what remains has no gap.
<1>8. \A s \in Segments(dir) : m <= s
  BY <1>3, <1>4, <1>5, <1>6, <1>7
<1>9. /\ dir' \subseteq Names /\ Sealed(dir') = Sealed(dir) \ {m} /\ Open(dir') = Open(dir)
      /\ Segments(dir') = Segments(dir) \ {m}
  <2>1. /\ dir' \subseteq Names /\ Sealed(dir') = Sealed(dir) \ {m} /\ Open(dir') = Open(dir)
    BY <1>1, <1>4, Unlinked
  <2>2. m \notin Open(dir)
    BY <1>4, <1>6 DEF Layout
  <2> QED BY <2>1, <2>2 DEF Segments
<1>10. Layout(dir')
  <2>1. ASSUME NEW s \in Segments(dir'), NEW t \in Segments(dir'), s < t
        PROVE  s + 1 \in Segments(dir')
    <3>1. s \in Nat /\ m <= s /\ s + 1 \in Segments(dir)
      BY <1>4, <1>8, <1>9, <2>1 DEF Layout
    <3> QED BY <1>6, <1>9, <3>1
  <2>2. \A s \in Open(dir'), t \in Segments(dir') : t <= s
    BY <1>4, <1>9 DEF Layout
  <2> QED BY <1>4, <1>9, <2>1, <2>2 DEF Layout
<1>11. DirsOK'
  <2>1. ASSUME NEW d \in powerDirs'
        PROVE  /\ Layout(d) /\ Bounded(d) /\ Segments(d) \subseteq DOMAIN data
               /\ \A s \in Sealed(d) : Solid(s)
               /\ Sealed(dir') \subseteq Segments(d)
    <3>1. CASE d \in powerDirs
      BY <1>0, <1>9, <3>1 DEF DirsOK
    <3>2. CASE d = dir'
      <4>1. Bounded(dir')
        BY <1>4, <1>9 DEF Bounded
      <4>2. Segments(dir) \subseteq DOMAIN data /\ \A s \in Sealed(dir) : Solid(s)
        BY <1>0, <1>4 DEF DirsOK
      <4> QED BY <1>9, <1>10, <3>2, <4>1, <4>2 DEF Segments
    <3> QED BY <1>1, <3>1, <3>2
  <2> QED BY <1>1, <1>2, <2>1 DEF DirsOK, Solid
<1>12. Shapes'
  <2>1. doomed' \subseteq Nat /\ powerDirs' \in SUBSET SUBSET Names /\ dir' \in SUBSET Names
    BY <1>0, <1>1, <1>9 DEF TypeOK
  <2>2. TypeOK'
    BY <1>0, <1>1, <1>2, <2>1 DEF TypeOK
  <2> QED BY <1>0, <1>2, <2>2 DEF Shapes
<1>13. Grown /\ SyncedKept
  <2>1. \A d \in powerDirs : \A s \in Segments(d) : Len(data[s].recs) \in Nat /\ data[s].synced \in Nat
    BY <1>0, DirFile
  <2>2. Grown
    BY <1>2, <2>1 DEF Grown
  <2> QED BY <1>0, <2>2, GrownKeepsSynced
<1>14. NamesKept
  <2>1. Spent(m)
    BY <1>6, <1>7 DEF Spent, Past
  <2>2. \A s \in Segments(dir) : s \in Segments(dir') \/ Spent(s)
    BY <1>9, <2>1
  <2> QED BY <1>1, <1>4, <2>2 DEF NamesKept
<1>15. NothingNew
  <2>1. ASSUME NEW d \in powerDirs, NEW s \in Segments(d)
        PROVE  Len(data[s].recs) <= Len(data[s].recs)
    BY <1>0, DirFile
  <2>2. \A s \in Segments(dir') : s \in Segments(dir)
    BY <1>9
  <2> QED BY <1>1, <1>2, <1>4, <2>1, <2>2 DEF NothingNew
<1>16. AckedNeverLost' /\ OrderOK'
  <2>1. nextRec' >= nextRec
    BY <1>0, <1>2, RecordsAssumption DEF TypeOK
  <2>2. AckedNeverLost'
    BY <1>0, <1>2, <1>11, <1>12, <1>13, <1>14, AckedCarried
  <2> QED BY <1>0, <1>2, <1>11, <1>12, <1>15, <2>1, <2>2, OrderCarried
<1>17. GroupOK'
  <2>1. CASE poisoned
    BY <1>2, <2>1 DEF GroupOK
  <2>2. CASE ~poisoned
    <3>1. active' = active /\ group' \subseteq group
      BY <1>2
    <3> QED BY <1>0, <1>2, <1>11, <1>12, <1>13, <1>14, <2>2, <3>1, GroupCarried
  <2> QED BY <2>1, <2>2
<1>18. InsideOK(cursor)'
  <2> SUFFICES ASSUME cursor.off > 0
               PROVE  /\ \A d \in powerDirs' : cursor.seg \in Segments(d)
                      /\ cursor.off < data[cursor.seg].synced
    BY <1>2 DEF InsideOK
  <2>1. /\ \A d \in powerDirs : cursor.seg \in Segments(d)
        /\ cursor.off < data[cursor.seg].synced
    BY <1>0 DEF CursorOK, InsideOK
  <2>2. m # cursor.seg
    BY <1>6, <1>7, <2>1
  <2> QED BY <1>1, <1>4, <1>9, <2>1, <2>2
<1>19. CursorOK'
  <2>1. Top' = Top
    BY <1>2 DEF Top
  <2> QED BY <1>0, <1>1, <1>2, <1>18, <2>1 DEF CursorOK
<1>20. ProcOK' /\ StopOK'
  BY <1>0, <1>1, <1>2 DEF ProcOK, Sealing, StopOK
<1>21. OpenOK'
  <2>1. Ended(dir) => Ended(dir')
    <3> SUFFICES ASSUME Ended(dir), NEW s \in Segments(dir') PROVE active \in Segments(dir')
      BY <1>9 DEF Ended
    <3>1. s \in Nat /\ s # m /\ m <= s /\ s <= active /\ active \in Segments(dir)
      BY <1>4, <1>8, <1>9 DEF Ended
    <3> QED BY <1>4, <1>6, <1>9, <3>1
  <2>2. \A d : Ended(d)' <=> Ended(d)
    BY <1>2 DEF Ended
  <2>3. Open(dir') = {active} \/ Open(dir') = {active + 1} => Open(dir) = Open(dir')
    BY <1>9
  <2>4. ASSUME ~poisoned, proc \notin {"down", "refused"}
        PROVE  /\ wpc \in {"ready", "frame", "seal"} => \A d \in powerDirs' : Open(d) = {active}
               /\ wpc = "renamed" =>
                    /\ Ended(dir')
                    /\ \A d \in powerDirs' : Ended(d) \/ (Open(d) = {active} /\ Solid(active))
               /\ wpc = "create" => \A d \in powerDirs' : Ended(d)
               /\ wpc = "created" =>
                    /\ Open(dir') = {active + 1}
                    /\ \A d \in powerDirs' : Ended(d) \/ Open(d) = {active + 1}
    BY <1>0, <1>1, <1>4, <1>9, <2>1, <2>4 DEF OpenOK
  <2>5. /\ wpc \in {"ready", "seal"} /\ ~poisoned /\ proc \notin {"down", "refused"} => ~data[active].torn
        /\ wpc = "created" /\ ~poisoned /\ proc \notin {"down", "refused"} => data[active + 1] = Empty
    BY <1>0 DEF OpenOK
  <2> QED BY <1>2, <2>2, <2>4, <2>5 DEF OpenOK, Ended, Solid
<1>22. DoomedOK'
  <2> SUFFICES ASSUME ppc' = "unlink"
               PROVE  /\ doomed' # {} /\ doomed' \subseteq Sealed(dir')
                      /\ \A s \in doomed' : Covered(s, cursor, Len(data[s].recs))
                      /\ \A s \in Segments(dir') : s < cursor.seg => s \in doomed'
    BY <1>2 DEF DoomedOK, Covered
  <2> QED BY <1>1, <1>3, <1>9
<1>23. ListingOK' /\ WindowOK' /\ WindowOrderOK'
  BY <1>1 DEF ListingOK, WindowOK, WindowOrderOK
<1> QED BY <1>11, <1>12, <1>16, <1>17, <1>19, <1>20, <1>21, <1>22, <1>23 DEF DurableInv, OrderInv

\* The directory fsync after the last removal; publish_window returns.
LEMMA PubUnlinkSyncKeeps ==
    ASSUME DurableInv, OrderInv, PubUnlinkSync
    PROVE  DurableInv' /\ OrderInv'
<1> DEFINE result == IF goal = "tidy" THEN "none" ELSE "some"
<1>0. /\ Shapes /\ TypeOK /\ DirsOK /\ CursorOK /\ StopOK /\ AckedNeverLost /\ GroupOK /\ OrderOK
  BY DEF DurableInv, OrderInv, Shapes
<1>1. /\ ppc = "dirsync" /\ powerDirs' = {dir} /\ PubReturns(result)
      /\ UNCHANGED <<dir, data, cursor, writerVars, report, acked, published, failures>>
  BY DEF PubUnlinkSync
<1>2. result = "none" => goal = "tidy"
  OBVIOUS
<1> HIDE DEF result
<1>3. UNCHANGED <<wpc, job, active, poisoned, group, nextRec>>
  BY <1>1 DEF writerVars
<1>4. powerDirs' \subseteq powerDirs /\ powerDirs' \in SUBSET SUBSET Names
  BY <1>0, <1>1 DEF DirsOK, TypeOK
<1>5. Shapes'
  <2>1. report' \in {"ok", "race", "corruption", "io"} /\ failures' \in 0..MaxFailures
    BY <1>0, <1>1 DEF TypeOK
  <2> QED BY <1>0, <1>1, <1>4, <2>1, ReturnShapes
<1>6. DirsOK'
  BY <1>0, <1>1, <1>4 DEF DirsOK, Solid
<1>7. Grown /\ SyncedKept /\ NamesHeld /\ NamesKept /\ NothingNew
  <2>1. Grown /\ NamesHeld /\ NothingNew
    BY <1>0, <1>1, DirSyncCarries
  <2> QED BY <1>0, <2>1, GrownKeepsSynced, HeldIsKept
<1>8. AckedNeverLost' /\ OrderOK'
  <2>1. nextRec' >= nextRec
    BY <1>0, <1>3, RecordsAssumption DEF TypeOK
  <2>2. AckedNeverLost'
    BY <1>0, <1>1, <1>5, <1>6, <1>7, AckedCarried
  <2> QED BY <1>0, <1>1, <1>5, <1>6, <1>7, <2>1, <2>2, OrderCarried
<1>9. GroupOK'
  <2>1. CASE poisoned
    BY <1>3, <2>1 DEF GroupOK
  <2>2. CASE ~poisoned
    <3>1. active' = active /\ group' \subseteq group
      BY <1>3
    <3> QED BY <1>0, <1>1, <1>5, <1>6, <1>7, <2>2, <3>1, GroupCarried
  <2> QED BY <2>1, <2>2
<1>10. InsideOK(cursor)'
  BY <1>0, <1>1, <1>4 DEF CursorOK, InsideOK
<1>11. result = "none" /\ proc = "publishing" => cursor.seg <= active
  BY <1>0, <1>2 DEF CursorOK
<1>12. result = "none" /\ proc = "drain" /\ ~poisoned => acked \subseteq Range(published)
  BY <1>0, <1>2 DEF StopOK
<1>13. /\ ProcOK' /\ OpenOK' /\ CursorOK' /\ ListingOK' /\ DoomedOK' /\ WindowOK' /\ StopOK'
       /\ WindowOrderOK'
  BY <1>1, <1>4, <1>5, <1>6, <1>10, <1>11, <1>12, Returned
<1> QED BY <1>5, <1>6, <1>8, <1>9, <1>13 DEF DurableInv, OrderInv

\* A failing call makes publish_window return an error.
LEMMA PubFailsKeeps ==
    ASSUME DurableInv, OrderInv, PubFails
    PROVE  DurableInv' /\ OrderInv'
<1>1. /\ PubFailsWith("io") /\ UNCHANGED <<fileVars, cursor, writerVars, acked, published>>
      /\ failures' = failures + 1 /\ failures < MaxFailures
  BY DEF PubFails, Fault
<1>2. failures \in 0..MaxFailures
  BY DEF DurableInv, Shapes, TypeOK
<1>3. failures' \in 0..MaxFailures
  BY <1>1, <1>2, FaultsAssumption
<1> QED BY <1>1, <1>3, FailKeeps

-----------------------------------------------------------------------------
(* The inductive invariant holds in every reachable state.                  *)

\* A new log.
LEMMA InitKeeps ==
    ASSUME Init
    PROVE  DurableInv /\ OrderInv
<1>1. Segments({}) = {} /\ Sealed({}) = {} /\ Open({}) = {}
  BY DEF Segments, Sealed, Open
<1>2. dir = {} /\ powerDirs = {{}} /\ DOMAIN data = {}
  BY DEF Init
<1>3. cursor = [seg |-> 1, off |-> 0]
  BY DEF Init, Cursor
<1>4. nextRec \in 1..(MaxRecords + 1) /\ tries \in 0..RaceAttempts /\ failures \in 0..MaxFailures
  BY RecordsAssumption, LimitsAssumption, FaultsAssumption DEF Init
<1>5. /\ published \in Seq(Records) /\ Len(published) = 0
      /\ acked = {} /\ group = {}
  BY DEF Init
<1>6. TypeOK
  <2>1. /\ listing \in [stable : SUBSET Names, ever : SUBSET Names]
        /\ window \in [layout : SUBSET Names, next : Cursors, ckpt : Cursors,
                       recs : Seq(Records), bytes : Nat]
    BY NothingShapes DEF Init
  <2>2. cursor \in Cursors
    BY <1>3 DEF Cursors
  <2> QED BY <1>2, <1>4, <1>5, <2>1, <2>2 DEF Init, TypeOK
<1>7. Shapes
  BY <1>2, <1>6 DEF Shapes
<1>8. DirsOK
  <2>1. Layout({}) /\ Bounded({})
    BY <1>1 DEF Layout, Bounded
  <2> QED BY <1>1, <1>2, <2>1 DEF DirsOK
<1>9. InsideOK(cursor)
  BY <1>3 DEF InsideOK
<1>10. ProcOK /\ OpenOK /\ CursorOK /\ ListingOK /\ DoomedOK /\ WindowOK
  BY <1>9 DEF Init, ProcOK, Sealing, OpenOK, CursorOK, ListingOK, DoomedOK, WindowOK
<1>11. AckedNeverLost /\ GroupOK /\ StopOK
  BY DEF Init, AckedNeverLost, GroupOK, StopOK
<1>12. OrderOK
  BY <1>1, <1>2, <1>5 DEF OrderOK
<1>13. WindowOrderOK
  BY DEF Init, WindowOrderOK
<1> QED BY <1>7, <1>8, <1>10, <1>11, <1>12, <1>13 DEF DurableInv, OrderInv

\* Nothing happens.
LEMMA StutterKeeps ==
    ASSUME DurableInv, OrderInv, UNCHANGED vars
    PROVE  DurableInv' /\ OrderInv'
<1>0. /\ Shapes /\ TypeOK /\ DirsOK /\ ProcOK /\ OpenOK /\ CursorOK /\ ListingOK /\ DoomedOK
      /\ WindowOK /\ StopOK /\ WindowOrderOK
  BY DEF DurableInv, OrderInv, Shapes
<1>1. /\ UNCHANGED <<fileVars, cursor, proc, writerVars, publisherVars, observed, failures>>
      /\ UNCHANGED <<dir, powerDirs, data, wpc, job, active, poisoned, group, nextRec>>
      /\ UNCHANGED <<ppc, goal, tries, listing, window, doomed, report, acked, published, exit>>
  BY DEF vars, fileVars, writerVars, publisherVars, observed
<1>2. Shapes'
  <2>1. TypeOK'
    BY <1>0, <1>1 DEF TypeOK
  <2> QED BY <1>0, <1>1, <2>1 DEF Shapes
<1>3. DirsOK' /\ InsideOK(cursor)' /\ AckedNeverLost' /\ GroupOK' /\ OrderOK'
  BY <1>1, <1>2, PublisherCarried
<1>4. ProcOK' /\ OpenOK' /\ StopOK'
  BY <1>0, <1>1 DEF ProcOK, Sealing, OpenOK, Ended, Solid, StopOK
<1>5. CursorOK' /\ ListingOK' /\ DoomedOK'
  BY <1>0, <1>1, <1>3 DEF CursorOK, Top, ListingOK, DoomedOK, Covered
<1>6. WindowOK' /\ WindowOrderOK'
  BY <1>0, <1>1 DEF WindowOK, Taken, Reached, InsideOK, Past, WindowOrderOK
<1> QED BY <1>2, <1>3, <1>4, <1>5, <1>6 DEF DurableInv, OrderInv

\* Every state of every execution: the log is recoverable, what it acknowledged is
\* durable and within reach of publication, and its records are in order.
THEOREM InvAlways == Spec => [](DurableInv /\ OrderInv)
<1>1. Init => DurableInv /\ OrderInv
  BY InitKeeps
<1>2. DurableInv /\ OrderInv /\ [Next]_vars => DurableInv' /\ OrderInv'
  <2> SUFFICES ASSUME DurableInv, OrderInv, [Next]_vars
               PROVE  DurableInv' /\ OrderInv'
    OBVIOUS
  <2>1. CASE Start
    BY <2>1, StartKeeps
  <2>2. CASE WriteBegin \/ WriteRejected \/ Stop
    BY <2>2, WriteBeginKeeps, RejectedKeeps, StopKeeps
  <2>3. CASE WriteEnd \/ SyncAndAck \/ SyncFails \/ SealTimer
    BY <2>3, WriteEndKeeps, SyncAndAckKeeps, SyncFailsKeeps, SealTimerKeeps
  <2>4. CASE SealRename \/ SealDirSync \/ CreateNext \/ CreateSync
    BY <2>4, SealRenameKeeps, SealDirSyncKeeps, CreateNextKeeps, CreateSyncKeeps
  <2>5. CASE DrainBegin \/ PubList \/ PubDiscover \/ PubValidate \/ PubRead
    BY <2>5, DrainBeginKeeps, PubListKeeps, PubDiscoverKeeps, PubValidateKeeps, PubReadKeeps
  <2>6. CASE PubCommit \/ PubNothing \/ PubUnlink \/ PubUnlinkSync
    BY <2>6, PubCommitKeeps, PubNothingKeeps, PubUnlinkKeeps, PubUnlinkSyncKeeps
  <2>7. CASE WriteFails \/ SealFails \/ PubFails
    BY <2>7, WriteFailsKeeps, SealFailsKeeps, PubFailsKeeps
  <2>8. CASE Kill \/ PowerCut
    BY <2>8, KillKeeps, PowerCutKeeps
  <2>9. CASE UNCHANGED vars
    BY <2>9, StutterKeeps
  <2> QED BY <2>1, <2>2, <2>3, <2>4, <2>5, <2>6, <2>7, <2>8, <2>9 DEF Next, WriterStep, PublisherStep
<1> QED BY <1>1, <1>2, PTL DEF Spec

-----------------------------------------------------------------------------
(* What the log promises.                                                   *)

\* An event answered 200 is in the lake, or behind the checkpoint in every log a
\* power cut may leave (the group's one fsync, seals, reclamation, checkpoint).
THEOREM AckedNeverLostAlways == Spec => []AckedNeverLost
<1>1. DurableInv /\ OrderInv => AckedNeverLost
  BY DEF DurableInv
<1> QED BY InvAlways, <1>1, PTL

\* Every directory a crash may leave can be opened again, and a stop that reports
\* success leaves nothing unpublished (open, shutdown).
THEOREM StopsAreSafeAlways == Spec => []StopsAreSafe
<1>1. DurableInv /\ OrderInv => StopsAreSafe
  <2> SUFFICES ASSUME DurableInv PROVE StopsAreSafe
    OBVIOUS
  <2>1. DirsOK /\ StopOK
    BY DEF DurableInv
  <2>2. ASSUME NEW d \in powerDirs \cup {dir}
        PROVE  ValidLayout(d) /\ \A s \in Sealed(d) : ~data[s].torn
    <3>1. Layout(d) /\ \A s \in Sealed(d) : Solid(s)
      BY <2>1 DEF DirsOK
    <3>2. d \subseteq Names
      BY <3>1 DEF Layout
    <3> QED BY <3>1, <3>2, LayoutValid DEF Solid
  <2> QED BY <2>1, <2>2 DEF StopsAreSafe, CrashLayoutsRecoverable, CleanStopPublishedAll, StopOK
<1> QED BY InvAlways, <1>1, PTL

\* What EventStore calls stored is what the lake holds.
LEMMA StoredRange ==
    ASSUME published \in Seq(Records)
    PROVE  Promise!Stored = Range(published)
<1>1. DOMAIN published = 1..Len(published)
  OBVIOUS
<1> QED BY <1>1 DEF Promise!Stored, Range

\* A record the lake does not hold, behind the checkpoint, comes after all it holds.
LEMMA NotYetStored ==
    ASSUME Shapes, DirsOK, OrderOK, NEW r, NEW s \in Segments(dir), NEW i \in 1..Len(data[s].recs),
           data[s].recs[i] = r, Past(cursor, s, i)
    PROVE  r > Promise!Last(published)
<1>1. dir \in powerDirs
  BY DEF DirsOK
<1>2. \A k \in 1..Len(published) : published[k] < r
  BY <1>1 DEF OrderOK
<1>3. r \in Nat /\ r > 0 /\ published \in Seq(Nat)
  <2>1. r \in Records
    BY <1>1, DirFile
  <2>2. published \in Seq(Records) /\ Records \subseteq Nat
    BY RecordsAssumption DEF Shapes, TypeOK, Records
  <2> QED BY <2>1, <2>2, RecordsAssumption DEF Records
<1>4. CASE published = <<>>
  BY <1>3, <1>4 DEF Promise!Last
<1>5. CASE published # <<>>
  <2>1. Len(published) \in 1..Len(published) /\ published[Len(published)] \in Nat
    BY <1>3, <1>5
  <2> QED BY <1>2, <1>3, <1>5, <2>1 DEF Promise!Last
<1> QED BY <1>4, <1>5

\* The group that is answered comes after everything the lake holds.
LEMMA AckImplements ==
    ASSUME DurableInv, OrderInv, DurableInv', SyncAndAck
    PROVE  Promise!Ack
<1>0. Shapes /\ TypeOK /\ DirsOK /\ GroupOK /\ OrderOK
  BY DEF DurableInv, OrderInv, Shapes
<1>1. ~poisoned /\ acked' = acked \cup group /\ UNCHANGED published
  BY DEF SyncAndAck
<1>2. acked' \subseteq Records /\ Promise!Stored = Range(published) /\ dir \in powerDirs
  BY <1>0, StoredRange DEF DurableInv, Shapes, TypeOK, DirsOK
<1>3. ASSUME NEW r \in acked' \ acked PROVE r \in Promise!Stored \/ r > Promise!Last(published)
  <2> SUFFICES ASSUME r \notin Range(published) PROVE r > Promise!Last(published)
    BY <1>2
  <2>1. HeldIn(dir, r)
    BY <1>0, <1>1, <1>2 DEF GroupOK
  <2> QED BY <1>0, <2>1, NotYetStored DEF HeldIn
<1> QED BY <1>1, <1>2, <1>3 DEF Promise!Ack

\* A committed window goes on in order and passes over nothing acknowledged.
LEMMA CommitImplements ==
    ASSUME DurableInv, OrderInv, DurableInv', OrderInv', PubCommit
    PROVE  Promise!Publish
<1>0. /\ Shapes /\ TypeOK /\ OrderOK /\ WindowOrderOK /\ Shapes' /\ TypeOK' /\ DirsOK' /\ OrderOK'
      /\ AckedNeverLost'
  BY DEF DurableInv, OrderInv, Shapes
<1>1. /\ ppc = "commit" /\ window.recs # <<>> /\ published' = published \o window.recs
      /\ UNCHANGED <<acked, dir, powerDirs, data>>
  BY DEF PubCommit, fileVars
<1> DEFINE n == Len(published)
           w == window.recs
<1>2. published \in Seq(Records) /\ w \in Seq(Records) /\ published' \in Seq(Records)
  BY <1>0 DEF TypeOK
<1>3. /\ Len(published') = n + Len(w) /\ n \in Nat /\ Len(w) \in Nat
      /\ \A k \in 1..n : published'[k] = published[k]
      /\ \A k \in 1..Len(w) : published'[n + k] = w[k]
  BY <1>1, <1>2, JoinRange
<1>4. Len(w) > 0
  BY <1>1, <1>2
<1>5. SubSeq(published', 1, n) = published
  <2> HIDE DEF Records
  <2>1. Len(SubSeq(published', 1, n)) = n /\ SubSeq(published', 1, n) \in Seq(Records)
        /\ \A k \in 1..n : SubSeq(published', 1, n)[k] = published'[k]
    BY <1>2, <1>3
  <2> QED BY <1>2, <1>3, <2>1
<1>6. ASSUME NEW i \in n..(Len(published') - 1), i > 0
      PROVE  published'[i] < published'[i + 1]
  <2>1. i + 1 - n \in 1..Len(w) /\ published'[i + 1] = w[i + 1 - n]
    BY <1>3
  <2>2. CASE i = n
    BY <1>0, <1>1, <1>3, <1>6, <2>1, <2>2 DEF WindowOrderOK
  <2>3. CASE i > n
    <3>1. i - n \in 1..Len(w) /\ published'[i] = w[i - n] /\ i - n < i + 1 - n
      BY <1>3, <2>3
    <3> HIDE DEF n
    <3> QED BY <1>0, <1>1, <2>1, <3>1 DEF WindowOrderOK
  <2> QED BY <1>3, <2>2, <2>3
<1>7. Promise!Stored' = Range(published')
  BY <1>2, StoredRange DEF Promise!Stored, Range
<1>8. ASSUME NEW r \in acked PROVE r \in Promise!Stored' \/ r > Promise!Last(published')
  <2> SUFFICES ASSUME r \notin Range(published') PROVE r > Promise!Last(published')
    BY <1>7
  <2>1. dir' \in powerDirs' /\ SurvivesIn(dir, r)'
    BY <1>0, <1>1 DEF AckedNeverLost, DirsOK
  <2>2. PICK s \in Segments(dir') : \E i \in 1..data'[s].synced :
           data'[s].recs[i] = r /\ Past(cursor', s, i)
    BY <2>1 DEF SurvivesIn, Segments, Past
  <2>3. PICK i \in 1..data'[s].synced : data'[s].recs[i] = r /\ Past(cursor', s, i)
    BY <2>2
  <2>4. /\ data'[s].recs \in Seq(Records) /\ data'[s].synced \in Nat
        /\ Len(data'[s].recs) \in Nat /\ data'[s].synced <= Len(data'[s].recs)
    BY <1>0, <2>1, FileShapeNext DEF DirsOK
  <2>5. i \in 1..Len(data'[s].recs)
    BY <2>4
  <2>6. \A k \in 1..Len(published') : published'[k] < r
    BY <1>0, <2>1, <2>3, <2>5 DEF OrderOK, Past
  <2>7. Len(published') \in 1..Len(published')
    BY <1>3, <1>4
  <2> QED BY <2>6, <2>7, <1>2, RecordsAssumption DEF Promise!Last, Records
<1> QED BY <1>1, <1>3, <1>4, <1>5, <1>6, <1>8 DEF Promise!Publish

\* The log implements EventStore: each record is published at most once, in order,
\* and no window passes over an acknowledged one.
THEOREM ImplementsEventStoreAlways == Spec => ImplementsEventStore
<1>1. Init => Promise!Init
  BY DEF Init, Promise!Init
<1>2. DurableInv /\ OrderInv /\ DurableInv' /\ OrderInv' /\ [Next]_vars => [Promise!Next]_<<acked, published>>
  <2> SUFFICES ASSUME DurableInv, OrderInv, DurableInv', OrderInv', [Next]_vars
               PROVE  Promise!Next \/ UNCHANGED <<acked, published>>
    OBVIOUS
  <2>1. CASE SyncAndAck
    BY <2>1, AckImplements DEF Promise!Next
  <2>2. CASE PubCommit
    BY <2>2, CommitImplements DEF Promise!Next
  <2>3. CASE Start \/ WriteBegin \/ WriteRejected \/ Stop \/ WriteEnd \/ SyncFails \/ SealTimer
    BY <2>3 DEF Start, WriteBegin, WriteRejected, Stop, WriteEnd, SyncFails, SealTimer, observed
  <2>4. CASE SealRename \/ SealDirSync \/ CreateNext \/ CreateSync \/ WriteFails \/ SealFails
    BY <2>4 DEF SealRename, SealDirSync, CreateNext, CreateSync, WriteFails, SealFails, observed
  <2>5. CASE DrainBegin \/ PubList \/ PubDiscover \/ PubValidate \/ PubRead
    BY <2>5 DEF DrainBegin, PubList, PubDiscover, PubValidate, PubRead, observed
  <2>6. CASE PubNothing \/ PubUnlink \/ PubUnlinkSync \/ PubFails
    BY <2>6 DEF PubNothing, PubUnlink, PubUnlinkSync, PubFails, observed
  <2>7. CASE Kill \/ PowerCut
    BY <2>7 DEF Kill, PowerCut, MemoryLost
  <2>8. CASE UNCHANGED vars
    BY <2>8 DEF vars, observed
  <2> QED BY <2>1, <2>2, <2>3, <2>4, <2>5, <2>6, <2>7, <2>8 DEF Next, WriterStep, PublisherStep
<1> QED BY InvAlways, <1>1, <1>2, PTL DEF Spec, ImplementsEventStore, Promise!Spec
=============================================================================
