----------------------------- MODULE MCIdentity -----------------------------
(***************************************************************************)
(* The identity tables alone, with two event times, and together with the  *)
(* query engine's mirror of them, which reads no event time and is checked *)
(* with one.                                                               *)
(***************************************************************************)
EXTENDS IdentityFeed

VARIABLE part        \* "tables" or "feed"

IdentityInit == FeedInit /\ part \in {"tables", "feed"}

IdentityNext ==
    \/ part = "tables" /\ Next /\ UNCHANGED <<feedVars, part>>
    \/ part = "feed" /\ FeedNext /\ UNCHANGED part /\ \A d \in Ids : seen'[d] <= 1

\* A sync under way is run by its query to the end.
IdentitySpec ==
    /\ IdentityInit /\ [][IdentityNext]_<<allVars, part>>
    /\ WF_<<allVars, part>>(part = "feed" /\ UNCHANGED part /\ (ReadRows \/ ReadRest \/ SyncApply))
=============================================================================
