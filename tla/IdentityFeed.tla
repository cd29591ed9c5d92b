---------------------------- MODULE IdentityFeed ----------------------------
(***************************************************************************)
(* The query engine's mirror of the identity projection: IdentitySync of   *)
(* src/src/query/identity.rs pulls batches of overrides from               *)
(* PersonStore::overrides_since (src/src/persons.rs) into the DuckDB table *)
(* person_overrides.  The reader's statements are not in a transaction:    *)
(* the publisher may commit between any two of them.                       *)
(***************************************************************************)
EXTENDS Identity, FiniteSetsExt

CONSTANT MaxBatch        \* MAX_OVERRIDE_BATCH

ASSUME MaxBatchAssumption == MaxBatch \in Nat \ {0}

VARIABLES
    spc,                 \* where the sync is: "idle", "rows", "rest", "apply"
    mepoch, mseq,        \* IdentitySync.epoch (-1: None) and .seq
    mirror,              \* person_overrides: distinct id -> person, or Nobody
    batch                \* the OverrideBatch being built

feedVars == <<spc, mepoch, mseq, mirror, batch>>
allVars == <<vars, feedVars>>

NoBatch == [epoch |-> 0, top |-> 0, last |-> 0, changes |-> <<>>, more |-> FALSE]
NoOverrides == [d \in Ids |-> Nobody]

FeedInit ==
    /\ Init
    /\ spc = "idle" /\ mepoch = -1 /\ mseq = 0
    /\ mirror = NoOverrides /\ batch = NoBatch

\* The rows a statement returns: each id with its person at that moment.
Rows(ids) == [d \in ids |-> db.owner[d]]

\* (ReadStateBefore: reading up to the sequence number before the newest.)
ReadStateBefore == batch' = [NoBatch EXCEPT !.epoch = db.epoch, !.top = db.seq - 1]

\* First statement: SELECT seq, epoch FROM identity_state.
ReadState == batch' = [NoBatch EXCEPT !.epoch = db.epoch, !.top = db.seq]

SyncBegin ==
    /\ spc = "idle"
    /\ ReadState
    /\ spc' = "rows"
    /\ UNCHANGED <<vars, mepoch, mseq, mirror>>

\* A page of the oldest MaxBatch rows of R, ties in any order.
Pages(R) ==
    {S \in SUBSET R : /\ Cardinality(S) = MaxBatch
                      /\ \A d \in S, e \in R \ S : db.rowSeq[d] <= db.rowSeq[e]}

\* (FinishPageWrong: resuming after the last sequence number of a cut page.)
FinishPageWrong(S) ==
    LET last == Max({db.rowSeq[d] : d \in S}) IN
    /\ batch' = [batch EXCEPT !.changes = Rows(S), !.last = last, !.more = TRUE]
    /\ spc' = "apply"

\* (FinishPageStuck: dropping the last merge even when the page holds no other.)
FinishPageStuck(S) ==
    LET last == Max({db.rowSeq[d] : d \in S})
        complete == {d \in S : db.rowSeq[d] < last}
    IN /\ batch' = [batch EXCEPT !.changes = Rows(complete), !.last = last - 1, !.more = TRUE]
       /\ spc' = "apply"

\* A cut page keeps only whole merges; if it holds part of a single merge, the
\* third statement fetches all of that one.
FinishPage(S) ==
    LET last == Max({db.rowSeq[d] : d \in S})
        complete == {d \in S : db.rowSeq[d] < last}
    IN IF complete # {}
       THEN /\ batch' = [batch EXCEPT !.changes = Rows(complete), !.last = last - 1,
                                      !.more = TRUE]
            /\ spc' = "apply"
       ELSE /\ batch' = [batch EXCEPT !.last = last, !.more = TRUE]
            /\ spc' = "rest"

\* Second statement: rows stamped after mseq, up to the seq read before.
ReadRows ==
    /\ spc = "rows"
    /\ LET R == {d \in Ids : /\ db.owner[d] # Nobody
                             /\ db.rowSeq[d] > mseq /\ db.rowSeq[d] <= batch.top}
       IN IF Cardinality(R) <= MaxBatch
          THEN /\ batch' = [batch EXCEPT !.changes = Rows(R), !.last = Larger(batch.top, mseq)]
               /\ spc' = "apply"
          ELSE \E S \in Pages(R) : FinishPage(S)
    /\ UNCHANGED <<vars, mepoch, mseq, mirror>>

ReadRest ==
    /\ spc = "rest"
    /\ batch' = [batch EXCEPT !.changes =
                     Rows({d \in Ids : db.owner[d] # Nobody /\ db.rowSeq[d] = batch.last})]
    /\ spc' = "apply"
    /\ UNCHANGED <<vars, mepoch, mseq, mirror>>

\* A change to the id itself removes the override, any other replaces it.
Overlay(m, changes) ==
    [d \in Ids |-> IF d \notin DOMAIN changes THEN m[d]
                   ELSE IF changes[d] = d THEN Nobody ELSE changes[d]]

\* IdentitySync::sync with a batch in hand: a new epoch empties the table, and
\* a batch that did not start from zero is fetched again.
SyncApply ==
    /\ spc = "apply"
    /\ LET fresh == mepoch # batch.epoch
           base == IF fresh THEN NoOverrides ELSE mirror
       IN /\ mepoch' = batch.epoch
          /\ IF fresh /\ mseq # 0
             THEN mirror' = NoOverrides /\ mseq' = 0 /\ ReadState /\ spc' = "rows"
             ELSE /\ mirror' = Overlay(base, batch.changes)
                  /\ mseq' = batch.last
                  /\ IF batch.more
                     THEN ReadState /\ spc' = "rows"
                     ELSE spc' = "idle" /\ batch' = NoBatch
    /\ UNCHANGED vars

\* A statement fails (busy, I/O): the query fails, the mirror stays as it is.
SyncFails ==
    /\ spc # "idle"
    /\ spc' = "idle" /\ batch' = NoBatch
    /\ UNCHANGED <<vars, mepoch, mseq, mirror>>

\* Applying a batch of a new epoch fails after the table was emptied.
ApplyFails ==
    /\ spc = "apply" /\ mepoch # batch.epoch
    /\ mirror' = NoOverrides /\ mepoch' = batch.epoch /\ mseq' = 0
    /\ spc' = "idle" /\ batch' = NoBatch
    /\ UNCHANGED vars

SyncStep == SyncBegin \/ ReadRows \/ ReadRest \/ SyncApply

FeedNext ==
    \/ Next /\ UNCHANGED feedVars
    \/ SyncStep
    \/ SyncFails \/ ApplyFails

FeedSpec == FeedInit /\ [][FeedNext]_allVars

\* A sync under way is run by its query to the end.
FairFeedSpec == FeedSpec /\ WF_allVars(ReadRows \/ ReadRest \/ SyncApply)

-----------------------------------------------------------------------------
(* Properties.                                                              *)

\* The mirror's variables have the types of IdentitySync and OverrideBatch.
FeedTypeOK ==
    /\ spc \in {"idle", "rows", "rest", "apply"}
    /\ mepoch \in Nat \cup {-1} /\ mseq \in Nat
    /\ mirror \in [Ids -> Ids \cup {Nobody}]
    /\ batch.epoch \in Nat /\ batch.top \in Nat /\ batch.last \in Nat
    /\ DOMAIN batch.changes \subseteq Ids
    /\ \A d \in DOMAIN batch.changes : batch.changes[d] \in Ids

\* The overrides a query must apply now.
Overrides ==
    [d \in Ids |-> IF db.owner[d] = d THEN Nobody ELSE db.owner[d]]

\* The version (epoch, seq) that names the mirror in the query cache is
\* honest: when it equals the projection's version, the mirror is exactly the
\* projection, through erasures, cut pages, failed syncs and commits between
\* the reader's statements.
MirrorMatchesVersion ==
    mepoch = db.epoch /\ mseq = db.seq => mirror = Overrides

\* A sync does not spin on a page it cannot get past.
SyncTerminates == (spc # "idle") ~> (spc = "idle")
=============================================================================
