------------------------------ MODULE Backlog ------------------------------
(***************************************************************************)
(* Freshness and backlog accounting (src/src/sink.rs PipelineStats): the   *)
(* writer and the publisher threads update shared counters around the WAL, *)
(* one atomic operation at a time, and `/status` and the admission check   *)
(* read them in between.  WriteAheadLog models the files; here a batch is  *)
(* one unit of bytes and segments are numbered.                            *)
(***************************************************************************)
EXTENDS Integers, Sequences, FiniteSets

CONSTANTS
    SegmentBatches,  \* the segment target: write seals before it is passed
    MaxUnpublished,  \* MAX_UNPUBLISHED_WAL_BYTES
    MaxBatches       \* bound: batches written

ASSUME BacklogAssumption ==
    {SegmentBatches, MaxUnpublished, MaxBatches} \subseteq Nat \ {0}

VARIABLES
    segmentOf,    \* the WAL: segment of each batch written, in order
    active,       \* number of the active segment
    ackedTo,      \* batches acknowledged (a prefix)
    publishedTo,  \* batches queryable (a prefix)
    sealedBytes, activeOldest, sealedOldest,  \* PipelineStats
    writerAt, publisherAt  \* place of each thread, with what it carries

backlogVars == <<segmentOf, active, ackedTo, publishedTo, sealedBytes,
                 activeOldest, sealedOldest, writerAt, publisherAt>>

Written == Len(segmentOf)
InSegment(s) == {b \in 1 .. Written : segmentOf[b] = s}
ActiveBytes == Cardinality(InSegment(active))
\* Batches in sealed segments: what the publisher may publish.
SealedTo == Written - ActiveBytes
Place(pc) == [at |-> pc, n |-> 0, segment |-> 0]

-----------------------------------------------------------------------------
(* The writer thread (writer_loop). *)

\* The admission check, then wal.write, which first seals a full segment
\* without telling the counters.
Write ==
    /\ writerAt.at \in {"idle", "group"} /\ Written < MaxBatches
    /\ sealedBytes + ActiveBytes + 1 <= MaxUnpublished
    /\ LET s == IF ActiveBytes = SegmentBatches THEN active + 1 ELSE active
       IN  active' = s /\ segmentOf' = Append(segmentOf, s)
    /\ writerAt' = Place("group")
    /\ UNCHANGED <<ackedTo, publishedTo, sealedBytes, activeOldest, sealedOldest, publisherAt>>

\* One fsync, then note_acked for each: the first sets the clock.
note_acked ==
    /\ writerAt.at = "group"
    /\ ackedTo' = Written /\ activeOldest' = TRUE
    /\ writerAt' = Place("idle")
    /\ UNCHANGED <<segmentOf, active, publishedTo, sealedBytes, sealedOldest, publisherAt>>

\* The seal of the interval, or of an erasure.
Seal ==
    /\ writerAt.at = "idle" /\ ActiveBytes > 0
    /\ writerAt' = [at |-> "sealed", n |-> ActiveBytes, segment |-> active]
    /\ active' = active + 1
    /\ UNCHANGED <<segmentOf, ackedTo, publishedTo, sealedBytes, activeOldest, sealedOldest, publisherAt>>

AddSealed ==
    /\ writerAt.at = "sealed"
    /\ sealedBytes' = sealedBytes + writerAt.n
    /\ writerAt' = [writerAt EXCEPT !.at = "counted"]
    /\ UNCHANGED <<segmentOf, active, ackedTo, publishedTo, activeOldest, sealedOldest, publisherAt>>

\* note_sealed: swap the clock out, then push it with the segment.
SwapClock ==
    /\ writerAt.at = "counted"
    /\ activeOldest' = FALSE
    /\ writerAt' = IF activeOldest THEN [writerAt EXCEPT !.at = "swapped"] ELSE Place("idle")
    /\ UNCHANGED <<segmentOf, active, ackedTo, publishedTo, sealedBytes, sealedOldest, publisherAt>>

PushClock ==
    /\ writerAt.at = "swapped"
    /\ sealedOldest' = Append(sealedOldest, writerAt.segment)
    /\ writerAt' = Place("idle")
    /\ UNCHANGED <<segmentOf, active, ackedTo, publishedTo, sealedBytes, activeOldest, publisherAt>>

-----------------------------------------------------------------------------
(* The publisher thread (publish_and_account). *)

\* The checkpoint after a prefix: the segment of the next batch, or the active
\* one when everything sealed is published.
CheckpointSegment(n) == IF n < SealedTo THEN segmentOf[n + 1] ELSE active

\* A budgeted publication may stop anywhere; covered segments are reclaimed.
PublishBatches ==
    /\ publisherAt.at = "idle"
    /\ \E n \in publishedTo .. SealedTo :
         /\ publishedTo' = n
         /\ publisherAt' = [at |-> "published", n |-> 0, segment |-> CheckpointSegment(n)]
    /\ UNCHANGED <<segmentOf, active, ackedTo, sealedBytes, activeOldest, sealedOldest, writerAt>>

\* wal_reader().sealed_bytes() reads the directory, then the store follows.
ReadDisk ==
    /\ publisherAt.at = "published"
    /\ publisherAt' = [publisherAt EXCEPT !.at = "measured",
         !.n = Cardinality({b \in 1 .. SealedTo : segmentOf[b] >= publisherAt.segment})]
    /\ UNCHANGED <<segmentOf, active, ackedTo, publishedTo, sealedBytes, activeOldest, sealedOldest, writerAt>>

StoreSealed ==
    /\ publisherAt.at = "measured"
    /\ sealedBytes' = publisherAt.n
    /\ publisherAt' = [publisherAt EXCEPT !.at = "stored"]
    /\ UNCHANGED <<segmentOf, active, ackedTo, publishedTo, activeOldest, sealedOldest, writerAt>>

\* (PartlyPublished: the checkpoint's own segment is taken for published.)
PartlyPublished(segment, checkpoint) == segment <= checkpoint

\* Everything before the checkpoint's segment is published.
WhollyPublished(segment, checkpoint) == segment < checkpoint

note_published ==
    /\ publisherAt.at = "stored"
    /\ LET gone == {k \in DOMAIN sealedOldest :
                      \A j \in 1 .. k : WhollyPublished(sealedOldest[j], publisherAt.segment)}
       IN  sealedOldest' = SubSeq(sealedOldest, Cardinality(gone) + 1, Len(sealedOldest))
    /\ publisherAt' = Place("idle")
    /\ UNCHANGED <<segmentOf, active, ackedTo, publishedTo, sealedBytes, activeOldest, writerAt>>

-----------------------------------------------------------------------------
BacklogInit ==
    /\ segmentOf = <<>> /\ active = 1 /\ ackedTo = 0 /\ publishedTo = 0
    /\ sealedBytes = 0 /\ activeOldest = FALSE /\ sealedOldest = <<>>
    /\ writerAt = Place("idle") /\ publisherAt = Place("idle")

BacklogNext ==
    \/ Write \/ note_acked \/ Seal \/ AddSealed \/ SwapClock \/ PushClock
    \/ PublishBatches \/ ReadDisk \/ StoreSealed \/ note_published

\* lag_seconds is 0 only when neither clock is set.
LagIsZero == ~activeOldest /\ sealedOldest = <<>>

\* A status that reports no lag is honest: everything acknowledged is queryable,
\* except while note_sealed carries the clock from one place to the other
\* (sink.rs PipelineStats::lag_seconds, note_acked, note_sealed, note_published).
LagHonest == LagIsZero /\ writerAt.at # "swapped" => ackedTo <= publishedTo

\* What the log holds, sealed and active, is within the limit (sink.rs:94,
\* "Sealed + active WAL may not exceed this").  It does not hold: write seals a
\* full segment without telling the counters.
BacklogBounded ==
    Cardinality({b \in DOMAIN segmentOf : segmentOf[b] >= CheckpointSegment(publishedTo)})
        <= MaxUnpublished
=============================================================================
