----------------------------- MODULE MCProgress -----------------------------
(***************************************************************************)
(* What must eventually happen in the log and in the lake when nothing     *)
(* fails, one of them at a time: both have threads that are fair, and they *)
(* share no variable.                                                      *)
(***************************************************************************)
EXTENDS MCWriteAheadLog

CONSTANTS Events, Part, Who, Readers, MaxDay, RetentionDays, ActiveThreshold,
          BigRows, MaxMergeFiles, MaxMergeRows, MaxGen

VARIABLES disk, sure, reach, content, live, retired, gen, snap, graveyard, hold,
          pc, op, today, stored, faults,
          part                  \* "log" or "lake"

Lk == INSTANCE Lake WITH MaxFaults <- 0

\* Two events of one day, of different ids.
LakePart == [e \in Events |-> <<"p", 1>>]
LakeWho == [e \in Events |-> IF e = "e2" THEN "b" ELSE "a"]

lakeVars == <<disk, sure, reach, content, live, retired, gen, snap, graveyard, hold,
              pc, op, today, stored, faults>>
progressVars == <<vars, lakeVars, part>>

ProgressInit == Init /\ Lk!Init /\ part \in {"log", "lake"}

InLog(A) == part = "log" /\ A /\ UNCHANGED <<lakeVars, part>>
InLake(A) == part = "lake" /\ A /\ UNCHANGED <<vars, part>>

\* The fairness of WriteAheadLog!FairSpec and of Lake!FairSpec.
ProgressSpec ==
    /\ ProgressInit /\ [][InLog(Next) \/ InLake(Lk!Next)]_progressVars
    /\ WF_progressVars(InLog(WriterStep)) /\ WF_progressVars(InLog(PublisherStep))
    /\ WF_progressVars(InLake(Lk!Working)) /\ SF_progressVars(InLake(Lk!Sweep))
    /\ \A r \in Readers : WF_progressVars(InLake(Lk!Reading(r)))

\* A retired file is unlinked once its readers are gone (lake/mod.rs sweep_graveyard).
RetiredEventuallyUnlinked == Lk!RetiredEventuallyUnlinked
=============================================================================
