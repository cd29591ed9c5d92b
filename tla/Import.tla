------------------------------- MODULE Import -------------------------------
(***************************************************************************)
(* hoglet import posthog: src/src/import.rs.  The source is a project that *)
(* no longer changes: its events in (timestamp, uuid) order and its        *)
(* persons in id order.  A row without a uuid, an event name or a          *)
(* distinct_id is malformed.  The importer may be stopped between any two  *)
(* requests and started again with the same checkpoint file; a capture     *)
(* request may be repeated after Hoglet took it; and any answer with       *)
(* status 200 may be one that is not JSON or holds no results.             *)
(***************************************************************************)
EXTENDS Integers, Sequences, FiniteSets

CONSTANTS
    SourceRows,     \* bound: events of the source
    SourcePersons,  \* bound: persons of the source
    PageRows,       \* PAGE_ROWS
    BatchRows,      \* BATCH_EVENTS
    LongGaps        \* may all the rows of a page be malformed?

ASSUME ImpAssumption ==
    /\ {SourceRows, SourcePersons} \subseteq Nat
    /\ {PageRows, BatchRows} \subseteq Nat \ {0}
    /\ LongGaps \in BOOLEAN

VARIABLES
    isource,        \* is each row of the source well formed?
    icheckpoint,    \* the checkpoint file
    iproc,          \* the running importer
    ihoglet,        \* what Hoglet holds: uuids of events, merged persons, flags
    imisread        \* history: the parts whose last answer was read as an empty page

impVars == <<isource, icheckpoint, iproc, ihoglet, imisread>>

NotRunning == [pc |-> "stopped"]
Rows == 1..SourceRows

\* The page after a cursor, and its well-formed rows; cursor 0 is None.
Page(after) == {r \in Rows : r > after /\ r <= after + PageRows}
Batch(page) == {r \in page : isource[r]}

\* What hogql makes of an answer: its rows, or none when it is not JSON or lacks
\* `results` (with_retries gives Null, and Null has no array).
hogql(rows) == {rows, {}}

\* The answer to a query of this part was read as it is, or not.
Answered(which, read) ==
    imisread' = IF read THEN imisread \ {which} ELSE imisread \cup {which}

-----------------------------------------------------------------------------
\* load_checkpoint, and which part of run comes next.
RunImporter ==
    /\ iproc = NotRunning
    /\ iproc' = [pc |-> IF ~icheckpoint.events_done THEN "page"
                        ELSE IF ~icheckpoint.persons_done THEN "persons" ELSE "flags",
                 checkpoint |-> icheckpoint, after_person |-> 0]
    /\ UNCHANGED <<isource, icheckpoint, ihoglet, imisread>>

\* One page of events.  No rows end the events, whatever the reason.
FetchPage ==
    /\ iproc.pc = "page"
    /\ \E page \in hogql(Page(iproc.checkpoint.after)) :
          /\ iproc' = IF page = {} THEN [iproc EXCEPT !.pc = "events_done"]
                      ELSE [pc |-> "capture", checkpoint |-> iproc.checkpoint, after_person |-> 0,
                            rest |-> Batch(page), page |-> page]
          /\ Answered("events", page = Page(iproc.checkpoint.after))
    /\ UNCHANGED <<isource, icheckpoint, ihoglet>>

FirstOf(rows, n) == {r \in rows : Cardinality({q \in rows : q < r}) < n}

\* One /batch/ request.  A repeat after a lost answer finds the uuids there.
capture(answered) ==
    /\ iproc.pc = "capture" /\ iproc.rest # {}
    /\ LET chunk == FirstOf(iproc.rest, BatchRows)
       IN /\ ihoglet' = [ihoglet EXCEPT !.events = @ \cup chunk]
          /\ iproc' = IF answered THEN [iproc EXCEPT !.rest = @ \ chunk] ELSE iproc
    /\ UNCHANGED <<isource, icheckpoint, imisread>>

\* (LastRowOfPage: the cursor is that of the page's last row, and the page counts whole.)
LastRowOfPage(page, checkpoint) ==
    [checkpoint EXCEPT !.after = CHOOSE r \in page : \A q \in page : q <= r,
                       !.events = @ + Cardinality(page)]

\* The cursor of the last row that was sent; None if the page had no such row.
Advance(page, checkpoint) ==
    LET batch == Batch(page)
    IN [checkpoint EXCEPT !.after = IF batch = {} THEN 0 ELSE CHOOSE r \in batch : \A q \in batch : q <= r,
                          !.events = @ + Cardinality(batch)]

\* (SaveBeforeCapture: the checkpoint is written as soon as the page is there.)
SaveBeforeCapture ==
    /\ iproc.pc = "capture"
    /\ icheckpoint' = Advance(iproc.page, iproc.checkpoint)
    /\ iproc' = [pc |-> "page", checkpoint |-> icheckpoint', after_person |-> 0]
    /\ UNCHANGED <<isource, ihoglet, imisread>>

\* After the whole page.
save_checkpoint ==
    /\ iproc.pc = "capture" /\ iproc.rest = {}
    /\ icheckpoint' = Advance(iproc.page, iproc.checkpoint)
    /\ iproc' = [pc |-> IF Cardinality(iproc.page) < PageRows THEN "events_done" ELSE "page",
                 checkpoint |-> icheckpoint', after_person |-> 0]
    /\ UNCHANGED <<isource, ihoglet, imisread>>

\* An empty page or a short one is the last: the checkpoint is written once more.
FinishEvents ==
    /\ iproc.pc = "events_done"
    /\ icheckpoint' = [iproc.checkpoint EXCEPT !.events_done = TRUE]
    /\ iproc' = [iproc EXCEPT !.pc = "persons", !.checkpoint = icheckpoint']
    /\ UNCHANGED <<isource, ihoglet, imisread>>

\* import_persons: a page of persons, each merged and set; persons_done only at the end.
ImportPersonPage ==
    /\ iproc.pc = "persons"
    /\ LET rows == {n \in 1..SourcePersons : n > iproc.after_person /\ n <= iproc.after_person + PageRows}
           done == [iproc.checkpoint EXCEPT !.persons_done = TRUE]
       IN \E page \in hogql(rows) : LET last == Cardinality(page) < PageRows IN
          /\ Answered("persons", page = rows)
          /\ ihoglet' = [ihoglet EXCEPT !.persons = @ \cup page]
          /\ iproc' = IF last THEN [pc |-> "flags", checkpoint |-> done, after_person |-> 0]
                      ELSE [iproc EXCEPT !.after_person = @ + PageRows]
          /\ icheckpoint' = IF last THEN done ELSE icheckpoint
    /\ UNCHANGED isource

\* import_flags: a flag whose key exists answers 409 and is skipped; an answer that
\* cannot be read names no flag and no next page.
ImportFlags ==
    /\ iproc.pc = "flags"
    /\ ihoglet' \in {ihoglet, [ihoglet EXCEPT !.flags = 1]}
    /\ iproc' = NotRunning
    /\ UNCHANGED <<isource, icheckpoint, imisread>>

\* with_retries gave up, or somebody stopped the process.
StopImporter ==
    /\ iproc # NotRunning
    /\ iproc' = NotRunning
    /\ UNCHANGED <<isource, icheckpoint, ihoglet, imisread>>

-----------------------------------------------------------------------------
ImpInit ==
    /\ isource \in [Rows -> BOOLEAN]
    /\ LongGaps \/ \A r \in Rows : \E q \in Rows : r <= q /\ q < r + PageRows /\ isource[q]
    /\ icheckpoint = [after |-> 0, events |-> 0, events_done |-> FALSE, persons_done |-> FALSE]
    /\ iproc = NotRunning
    /\ ihoglet = [events |-> {}, persons |-> {}, flags |-> 0]
    /\ imisread = {}

ImpNext ==
    \/ RunImporter \/ FetchPage \/ save_checkpoint \/ FinishEvents \/ ImportPersonPage \/ ImportFlags \/ StopImporter
    \/ \E answered \in BOOLEAN : capture(answered)

ImpSpec == ImpInit /\ [][ImpNext]_impVars

-----------------------------------------------------------------------------
(* Properties.                                                              *)

WellFormed(upto) == {r \in Rows : r <= upto /\ isource[r]}

\* However often the importer is stopped and run again, what lies behind the
\* checkpoint is in Hoglet and its count is exact (the file is written after the page
\* was taken); and done means all of it, unless the very answer that ended the part
\* was read as an empty page.
NothingSkipped ==
    /\ WellFormed(icheckpoint.after) \subseteq ihoglet.events
    /\ icheckpoint.events = Cardinality(WellFormed(icheckpoint.after))
    /\ icheckpoint.events_done /\ "events" \notin imisread => WellFormed(SourceRows) = ihoglet.events
    /\ icheckpoint.persons_done /\ "persons" \notin imisread => ihoglet.persons = 1..SourcePersons

\* An import that was interrupted, by whatever answer, can be run again and goes on
\* where it stopped (migrate-from-posthog.md, "Interrupted? Run the same command
\* again"): a checkpoint that ends the events has all of them behind it.  import.rs
\* ends them also after an answer it could not read.
InterruptedResumes == icheckpoint.events_done => WellFormed(SourceRows) \subseteq ihoglet.events

\* The checkpoint never goes back: the import of a long history comes to an end
\* (import.rs, "resumable from a checkpoint file").
CheckpointAdvances == [][icheckpoint'.after >= icheckpoint.after]_impVars

=============================================================================
