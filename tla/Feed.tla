-------------------------------- MODULE Feed --------------------------------
(***************************************************************************)
(* The two lists a dashboard pages through: the event feed                 *)
(* (src/src/explore/events.rs, and a person's events in persons.rs) and    *)
(* the person list (explore/persons.rs over PersonStore::list_persons).    *)
(*                                                                         *)
(* The feed walks back over windows of whole days, doubling their length,  *)
(* each read under its own lease: events are published between any two     *)
(* windows and between any two pages.  The filters of a request are fixed  *)
(* while it pages, so the model keeps only the events that pass them.      *)
(***************************************************************************)
EXTENDS Integers, Sequences, FiniteSets, SequencesExt

CONSTANTS
    FeedIds,                \* event uuids, numbers: ORDER BY timestamp, uuid
    DayMicros,              \* microseconds of a day
    Today,                  \* the day of `now`, in days since the first
    FeedDays,               \* a bound: the days events are published for, 0..(FeedDays - 1)
    FeedLimit,              \* the page size
    MaxWindows,             \* MAX_WINDOWS
    PersonIds,              \* persons, numbers: ORDER BY created_at, id
    PersonTimes, PersonLimit

\* The length of the n-th window of a walk that begins with one day.
Doubled[n \in 0..MaxWindows] == IF n = 0 THEN 1 ELSE 2 * Doubled[n - 1]

\* MAX_WINDOWS is 24: the windows of a walk reach back beyond the first day.
ASSUME FeedAssumption ==
    /\ FeedIds \cup PersonIds \cup PersonTimes \subseteq Int
    /\ {DayMicros, FeedLimit, PersonLimit} \subseteq Nat \ {0} /\ {Today, FeedDays, MaxWindows} \subseteq Nat
    /\ Doubled[MaxWindows] >= Today + 4

VARIABLES
    fstored,    \* the stored events: uuid -> microsecond (a partial function)
    reading,    \* the request in progress, or the client between two pages
    people,     \* persons: id -> created_at (a partial function)
    listing     \* the client paging through the person list

listVars == <<fstored, reading, people, listing>>

NoBound == -1
DayOf(ts) == ts \div DayMicros

\* Paging starts at the end of tomorrow.  An event may be stored beyond: capture holds
\* a `timestamp` down to 23 hours ahead, but stores now - `offset` as it is.
Horizon == (Today + 2) * DayMicros

\* ORDER BY the relation R.
Ordered(S, R) ==
    CHOOSE s \in [1..Cardinality(S) -> S] :
        \A i, j \in 1..Cardinality(S) : i < j => <<s[i], s[j]>> \in R

-----------------------------------------------------------------------------
(* Events.                                                                  *)

\* EventSource::files over days [lo, hi): the events its files hold.
FilesOf(lo, hi) == {u \in DOMAIN fstored : DayOf(fstored[u]) \in lo..(hi - 1)}

Newer(u, v) == fstored[u] > fstored[v] \/ (fstored[u] = fstored[v] /\ u > v)

\* One statement: ORDER BY timestamp DESC, uuid DESC LIMIT wanted.
read_window(rows, before, wanted) ==
    LET passing == {u \in rows : before = NoBound \/ fstored[u] < before}
        sorted == Ordered(passing, {r \in passing \X passing : Newer(r[1], r[2])})
    IN SubSeq(sorted, 1, IF Len(sorted) < wanted THEN Len(sorted) ELSE wanted)

\* Windows::new: the day before the cursor ends, or today and tomorrow.
FirstWindow(before) ==
    IF before = NoBound THEN [hi |-> Today + 2, span |-> 2]
    ELSE [hi |-> DayOf(before - 1) + 1, span |-> 1]

\* (CutAtLastRow: the cursor is the last row's timestamp, whatever follows.)
CutAtLastRow(rows) ==
    IF Len(rows) <= FeedLimit THEN [page |-> rows, next |-> NoBound]
    ELSE [page |-> SubSeq(rows, 1, FeedLimit), next |-> fstored[rows[FeedLimit]]]

\* Rows that share their microsecond with the first row of the next page wait for
\* it, unless the whole page is of that microsecond.
cut_page(rows) ==
    IF Len(rows) <= FeedLimit THEN [page |-> rows, next |-> NoBound]
    ELSE LET boundary == fstored[rows[FeedLimit + 1]]
             last == fstored[rows[FeedLimit]]
             tied == {n \in 1..FeedLimit : fstored[rows[n]] = boundary}
             first == CHOOSE n \in tied : \A m \in tied : n <= m
         IN IF last # boundary THEN [page |-> SubSeq(rows, 1, FeedLimit), next |-> last]
            ELSE IF first = 1 THEN [page |-> SubSeq(rows, 1, FeedLimit), next |-> boundary]
            ELSE [page |-> SubSeq(rows, 1, first - 1), next |-> boundary + 1]

\* A client asks for the first page, or for the page after the one it has.
AskFeed ==
    /\ reading.pc # "walk"
    /\ LET first == reading.pc = "end"
           w == FirstWindow(reading.before)
       IN reading' = [pc |-> "walk", before |-> reading.before, hi |-> w.hi, span |-> w.span,
                      issued |-> 0, rows |-> <<>>,
                      shown |-> IF first THEN <<>> ELSE reading.shown,
                      due |-> IF first THEN DOMAIN fstored ELSE reading.due]
    /\ UNCHANGED <<fstored, people, listing>>

\* (OnlyIfEmpty: the walk also ends at a window that has no files.)
OnlyIfEmpty(window, lo) == window = {} \/ FilesOf(0, lo) = {}

\* The walk ends when the source has no older files.
NothingOlder(window, lo) == FilesOf(0, lo) = {}

\* One window, and the end of the request when the page is full or nothing is left.
ReadWindow ==
    /\ reading.pc = "walk"
    /\ LET lo == IF reading.hi > reading.span THEN reading.hi - reading.span ELSE 0
           window == FilesOf(lo, reading.hi)
           rows == reading.rows \o
                     read_window(window, reading.before, FeedLimit + 1 - Len(reading.rows))
           full == window # {} /\ Len(rows) > FeedLimit
           cut == cut_page(rows)
       IN IF full \/ NothingOlder(window, lo) \/ reading.issued + 1 = MaxWindows \/ lo = 0
          THEN reading' = [pc |-> IF cut.next = NoBound THEN "end" ELSE "page",
                           before |-> cut.next, shown |-> reading.shown \o cut.page,
                           due |-> reading.due]
          ELSE reading' = [reading EXCEPT !.rows = rows, !.hi = lo, !.span = 2 * @,
                                          !.issued = @ + 1]
    /\ UNCHANGED <<fstored, people, listing>>

\* The publisher commits an event while somebody reads.
PublishEvent(u, ts) ==
    /\ u \notin DOMAIN fstored
    /\ fstored' = [v \in DOMAIN fstored \cup {u} |-> IF v = u THEN ts ELSE fstored[v]]
    /\ UNCHANGED <<reading, people, listing>>

-----------------------------------------------------------------------------
(* Persons.                                                                 *)

Key(p) == [at |-> people[p], id |-> p]
Before(k, l) == k.at < l.at \/ (k.at = l.at /\ k.id < l.id)

list_persons(cursor) ==
    LET passing == {p \in DOMAIN people : cursor = <<>> \/ Before(Key(p), cursor[1])}
    IN Ordered(passing, {r \in passing \X passing : Before(Key(r[2]), Key(r[1]))})

\* (AfterLookahead: the cursor is the look-ahead row.)
AfterLookahead(rows) == Key(rows[PersonLimit + 1])
NextCursor(rows) == Key(rows[PersonLimit])

\* list: one row more than the page tells whether there is another.
ListPersons ==
    /\ LET rows == list_persons(listing.cursor)
           more == Len(rows) > PersonLimit
           page == IF more THEN SubSeq(rows, 1, PersonLimit) ELSE rows
       IN listing' = [end |-> ~more,
                      cursor |-> IF more THEN <<NextCursor(rows)>> ELSE <<>>,
                      listed |-> (IF listing.end THEN {} ELSE listing.listed) \cup Range(page),
                      due |-> IF listing.end THEN DOMAIN people ELSE listing.due]
    /\ UNCHANGED <<fstored, reading, people>>

\* merge_persons: the loser goes, the winner keeps the earlier created_at.
MergeListed(w, l) ==
    /\ {w, l} \subseteq DOMAIN people /\ w # l
    /\ people' = [p \in DOMAIN people \ {l} |->
                    IF p = w /\ people[l] < people[w] THEN people[l] ELSE people[p]]
    /\ UNCHANGED <<fstored, reading, listing>>

\* (The id of somebody the client is due to see is not taken again.)
NewPerson(p, at) ==
    /\ p \notin DOMAIN people /\ p \notin listing.due
    /\ people' = [q \in DOMAIN people \cup {p} |-> IF q = p THEN at ELSE people[q]]
    /\ UNCHANGED <<fstored, reading, listing>>

-----------------------------------------------------------------------------
FeedListsInit ==
    /\ fstored = <<>> /\ people = <<>>
    /\ reading = [pc |-> "end", before |-> NoBound, shown |-> <<>>, due |-> {}]
    /\ listing = [end |-> TRUE, cursor |-> <<>>, listed |-> {}, due |-> {}]

EventFeedNext ==
    \/ AskFeed \/ ReadWindow
    \/ \E u \in FeedIds, ts \in 0..(FeedDays * DayMicros - 1) : PublishEvent(u, ts)

PersonListNext ==
    \/ ListPersons
    \/ \E w, l \in PersonIds : MergeListed(w, l)
    \/ \E p \in PersonIds, at \in PersonTimes : NewPerson(p, at)

-----------------------------------------------------------------------------
(* Properties.                                                              *)

\* A microsecond that fills a page by itself; cut_page says it drops the rest.
Overfull(ts) == Cardinality({u \in DOMAIN fstored : fstored[u] = ts}) > FeedLimit

\* A client that pages to the end has seen every event stored when it began, up to
\* the end of tomorrow, each once and newest first, whatever is published meanwhile:
\* no window and no page boundary skips one.  (What lies later is never listed.)
FeedShowsEverything ==
    /\ reading.pc = "end" =>
         \A u \in reading.due : fstored[u] < Horizon => u \in Range(reading.shown) \/ Overfull(fstored[u])
    /\ \A i, j \in 1..Len(reading.shown) : i < j => Newer(reading.shown[i], reading.shown[j])

\* What the limits of docs/user/configuration.md promise: no event lies so far ahead
\* that the feed does not show it to a client that pages to the end.
EveryEventShown ==
    reading.pc = "end" => \A u \in reading.due : u \in Range(reading.shown) \/ Overfull(fstored[u])

\* A client that pages through the persons while others merge has seen everyone
\* who was there when it began and still is.
PersonListComplete ==
    listing.end => listing.due \cap DOMAIN people \subseteq listing.listed

=============================================================================
