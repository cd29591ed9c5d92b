--------------------------- MODULE FlagContinuity ---------------------------
(***************************************************************************)
(* Experience continuity: resolve_subject of src/src/flags/mod.rs against  *)
(* the merge of src/src/projections.rs.                                    *)
(*                                                                         *)
(* One visitor, new to the project, browses anonymously and logs in; its   *)
(* events are published in order, some time later.  Every /flags request   *)
(* on the way asks for the bucketing id of a flag with                     *)
(* ensure_experience_continuity.                                           *)
(***************************************************************************)
EXTENDS Integers, Sequences

CONSTANTS
    NoPerson,
    AnonymousFirst, \* the SDK captured an older event before it identifies
    EndOfTime       \* bound: timestamps

ASSUME PersonAssumption == NoPerson \notin [key : {"anon", "user"}, created : Nat]

VARIABLES
    client,     \* has the visitor logged in, its clock, and its events on the way
    pstore      \* persons by distinct id: the person's first_seen_key and created_at

continuityVars == <<client, pstore>>

-----------------------------------------------------------------------------
\* The person that ensure_person makes of an id that has none.
ensure_person(id, ts) == IF pstore[id] = NoPerson THEN [key |-> id, created |-> ts] ELSE pstore[id]

\* (WinnerKeepsKey: the user's person is kept as it is.)
WinnerKeepsKey(winner, loser) == winner
\* merge_persons: the older person keeps its flag bucketing key.
merge_persons(winner, loser) == IF loser.created < winner.created THEN loser ELSE winner

\* The anonymous visitor's SDK captures an event.
CaptureAnonymous ==
    /\ ~client.login /\ client.time < EndOfTime
    /\ client' = [client EXCEPT !.time = @ + 1,
                                !.sent = Append(@, [kind |-> "event", ts |-> client.time])]
    /\ UNCHANGED pstore

\* $identify with $anon_distinct_id.
LogIn ==
    /\ ~client.login /\ (AnonymousFirst => client.time > 0)
    /\ client' = [client EXCEPT !.login = TRUE,
                                !.sent = Append(@, [kind |-> "identify", ts |-> client.time])]
    /\ UNCHANGED pstore

\* apply_identity of the next event in WAL order.
PublishEvent ==
    /\ client.sent # <<>>
    /\ LET e == Head(client.sent)
           person == merge_persons(ensure_person("user", e.ts), ensure_person("anon", e.ts))
       IN pstore' = IF e.kind = "event" THEN [pstore EXCEPT !["anon"] = ensure_person("anon", e.ts)]
                    ELSE [id \in {"anon", "user"} |-> person]
    /\ client' = [client EXCEPT !.sent = Tail(@)]

\* (NoHint: $anon_distinct_id is not looked at.)
NoHint(id, hints, failed) == IF pstore[id] # NoPerson /\ ~failed THEN pstore[id].key ELSE id

\* resolve_subject: the continuity id, by what the caller hints at (at most one
\* other id) and whether the person store failed.
resolve_subject(id, hints, failed) ==
    LET anon == CHOOSE h \in hints : TRUE
    IN IF pstore[id] # NoPerson /\ ~failed THEN pstore[id].key
       ELSE IF hints = {} THEN id
       ELSE IF pstore[anon] # NoPerson /\ ~failed THEN pstore[anon].key ELSE anon

\* The bucketing id of the visitor's next /flags request.
BucketingId(failed) ==
    IF client.login THEN resolve_subject("user", {"anon"}, failed) ELSE resolve_subject("anon", {}, failed)

ContinuityInit ==
    /\ client = [login |-> FALSE, time |-> 0, sent |-> <<>>]
    /\ pstore = [id \in {"anon", "user"} |-> NoPerson]

\* The next visitor is somebody else, with other ids.
NextVisitor ==
    /\ client.login /\ client.sent = <<>>
    /\ client' = [login |-> FALSE, time |-> 0, sent |-> <<>>]
    /\ pstore' = [id \in {"anon", "user"} |-> NoPerson]

ContinuityNext == NextVisitor \/ CaptureAnonymous \/ LogIn \/ PublishEvent

ContinuitySpec == ContinuityInit /\ [][ContinuityNext]_continuityVars

-----------------------------------------------------------------------------
\* A value seen while anonymous survives login: the bucketing id of a new user
\* stays the same from the first anonymous request through the login and the
\* publication of the merge (flags/mod.rs, "survives identify merges").
BucketSurvivesLogin == \A failed \in BOOLEAN : BucketingId(failed) = "anon"

=============================================================================
