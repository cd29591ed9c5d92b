----------------------------- MODULE Resources -----------------------------
(***************************************************************************)
(* Saved insights, dashboards, tiles and share links of a project:         *)
(* src/src/control_resources.rs behind routes/resources.rs and guard.rs.   *)
(*                                                                         *)
(* Every store method runs under one mutex in one transaction, so it is    *)
(* one action.  A write request is two steps, authorize and invoke; the    *)
(* public resolver takes the mutex twice, for the token and for the        *)
(* content.  Rows are keyed by (project, id): an import may bring the same *)
(* id into two projects, or bring back one that was deleted; a new uuid is *)
(* any id not in use.  Names, grids and timestamps are left out.           *)
(***************************************************************************)
EXTENDS Integers, Sequences, FiniteSets

CONSTANTS
    Projects, InsightIds, DashboardIds,
    ShareTokens,          \* share tokens; a share's own id stands for both
    Queries,         \* kinds of query_ir: "sql", "trend", "legacy" (kept by import only)
    MaxTiles, ResEnd \* bounds: tiles of a dashboard; the clock

ASSUME ResAssumption == {MaxTiles, ResEnd} \subseteq Nat

VARIABLES
    rdb,        \* insights, dashboards, tiles, shares
    rreq,       \* the write request and the public request in flight
    rnow        \* seconds

resVars == <<rdb, rreq, rnow>>

Forever == ResEnd + 1                    \* expires_at NULL
Expiries == 0..Forever
NoRequest == [pc |-> "idle"]
Supported(q) == q # "legacy"             \* validate_query accepts it

-----------------------------------------------------------------------------
(* Queries over the tables.                                                 *)

ensure_insight(p, i) == \E x \in rdb.insights : x.project = p /\ x.id = i
ensure_dashboard(p, d) == [project |-> p, id |-> d] \in rdb.dashboards
ensure_object(p, kind, o) == IF kind = "insight" THEN ensure_insight(p, o) ELSE ensure_dashboard(p, o)

\* (LoadAnyProject: WHERE id=?2 alone.)
LoadAnyProject(p, i) == {x \in rdb.insights : x.id = i}
load_insight(p, i) == {x \in rdb.insights : x.project = p /\ x.id = i}

\* load_dashboard: the tiles of the dashboard joined with their insights.
load_dashboard(p, d) ==
    UNION {load_insight(p, t.insight) : t \in {u \in rdb.tiles : u.project = p /\ u.dashboard = d}}

\* (ForgetShares: no foreign key from share_links.)
ForgetShares(b, p, i) ==
    [b EXCEPT !.tiles = {t \in @ : ~(t.project = p /\ t.insight = i)}]

\* ON DELETE CASCADE of saved_insights and of dashboards.
CascadeInsight(b, p, i) ==
    [b EXCEPT !.tiles = {t \in @ : ~(t.project = p /\ t.insight = i)},
              !.shares = {s \in @ : ~(s.project = p /\ s.kind = "insight" /\ s.object = i)}]

CascadeDashboard(b, p, d) ==
    [b EXCEPT !.tiles = {t \in @ : ~(t.project = p /\ t.dashboard = d)},
              !.shares = {s \in @ : ~(s.project = p /\ s.kind = "dashboard" /\ s.object = d)}]

-----------------------------------------------------------------------------
(* A write: authenticate and authorize first, one store method later.       *)

\* What control.db answers is an input; the rights may be gone when the method runs.
authorize(p, role, may_write) ==
    /\ rreq.write = NoRequest
    /\ may_write /\ role \in {"owner", "admin"}
    /\ rreq' = [rreq EXCEPT !.write = [pc |-> "authorized", project |-> p]]
    /\ UNCHANGED <<rdb, rnow>>

\* The body is not JSON, the name is empty, the row is missing, the mutex is
\* poisoned, or a constraint fails: an error, and nothing changed.
RefuseWrite ==
    /\ rreq.write # NoRequest
    /\ rreq' = [rreq EXCEPT !.write = NoRequest]
    /\ UNCHANGED <<rdb, rnow>>

Invoke(p, b) ==
    /\ rreq.write # NoRequest /\ rreq.write.project = p
    /\ rdb' = b
    /\ rreq' = [rreq EXCEPT !.write = NoRequest]
    /\ UNCHANGED rnow

Row(p, i, q) == [project |-> p, id |-> i, query |-> q, supported |-> Supported(q)]
WithoutInsight(p, i) == {x \in rdb.insights : ~(x.project = p /\ x.id = i)}

create_insight(p, i, q) ==
    /\ i \notin {x.id : x \in rdb.insights} /\ Supported(q)
    /\ Invoke(p, [rdb EXCEPT !.insights = @ \cup {Row(p, i, q)}])

update_insight(p, i, q) ==
    /\ ensure_insight(p, i) /\ Supported(q)
    /\ Invoke(p, [rdb EXCEPT !.insights = WithoutInsight(p, i) \cup {Row(p, i, q)}])

\* (DeleteByIdAlone: WHERE id=?2.)
DeleteByIdAlone(p, i) ==
    /\ ensure_insight(p, i)
    /\ Invoke(p, [rdb EXCEPT !.insights = {x \in @ : x.id # i},
                             !.tiles = {t \in @ : t.insight # i},
                             !.shares = {s \in @ : ~(s.kind = "insight" /\ s.object = i)}])

delete_insight(p, i) ==
    /\ ensure_insight(p, i)
    /\ Invoke(p, CascadeInsight([rdb EXCEPT !.insights = WithoutInsight(p, i)], p, i))

create_dashboard(p, d) ==
    /\ d \notin {x.id : x \in rdb.dashboards}
    /\ Invoke(p, [rdb EXCEPT !.dashboards = @ \cup {[project |-> p, id |-> d]}])

\* Only the name and updated_at change: no column of the model.
update_dashboard(p, d) == ensure_dashboard(p, d) /\ Invoke(p, rdb)

Tiles(p, d, ids) == {[project |-> p, dashboard |-> d, position |-> n, insight |-> ids[n]] : n \in DOMAIN ids}
WithoutTiles(p, d) == {t \in rdb.tiles : ~(t.project = p /\ t.dashboard = d)}

replace_dashboard_tiles(p, d, ids) ==
    /\ ensure_dashboard(p, d)
    /\ \A n \in DOMAIN ids : ensure_insight(p, ids[n])
    /\ Invoke(p, [rdb EXCEPT !.tiles = WithoutTiles(p, d) \cup Tiles(p, d, ids)])

delete_dashboard(p, d) ==
    /\ ensure_dashboard(p, d)
    /\ Invoke(p, CascadeDashboard([rdb EXCEPT !.dashboards = @ \ {[project |-> p, id |-> d]}], p, d))

Share(p, t, kind, o, exp) == [project |-> p, token |-> t, kind |-> kind, object |-> o, exp |-> exp]

create_share(p, t, kind, o, exp) ==
    /\ t \notin {s.token : s \in rdb.shares} /\ ensure_object(p, kind, o)
    /\ Invoke(p, [rdb EXCEPT !.shares = @ \cup {Share(p, t, kind, o, exp)}])

delete_share(p, s) ==
    /\ s \in rdb.shares /\ s.project = p
    /\ Invoke(p, [rdb EXCEPT !.shares = @ \ {s}])

-----------------------------------------------------------------------------
(* The migration seam: upserts with the ids of another installation.        *)

Import(b) == rdb' = b /\ UNCHANGED <<rreq, rnow>>

import_insight(p, i, q) ==
    Import([rdb EXCEPT !.insights = WithoutInsight(p, i) \cup {Row(p, i, q)}])

import_dashboard(p, d, ids) ==
    /\ \A n \in DOMAIN ids : ensure_insight(p, ids[n])
    /\ Import([rdb EXCEPT !.dashboards = @ \cup {[project |-> p, id |-> d]},
                          !.tiles = WithoutTiles(p, d) \cup Tiles(p, d, ids)])

\* An upsert by (project, share id); token is UNIQUE over all projects.
\* (ImportAnyToken: no such constraint.)
ImportAnyToken(p, t, kind, o, exp) ==
    /\ ensure_object(p, kind, o)
    /\ Import([rdb EXCEPT !.shares = {s \in @ : ~(s.project = p /\ s.token = t)}
                                     \cup {Share(p, t, kind, o, exp)}])

import_share(p, t, kind, o, exp) ==
    /\ ensure_object(p, kind, o)
    /\ \A s \in rdb.shares : s.token = t => s.project = p
    /\ Import([rdb EXCEPT !.shares = {s \in @ : ~(s.project = p /\ s.token = t)}
                                     \cup {Share(p, t, kind, o, exp)}])

update_share_expiry(s, exp) ==
    /\ s \in rdb.shares /\ s.exp # exp
    /\ Import([rdb EXCEPT !.shares = (@ \ {s}) \cup {[s EXCEPT !.exp = exp]}])

-----------------------------------------------------------------------------
(* The public resolver.                                                     *)

authorize_share_token(s) ==
    /\ rreq.public = NoRequest
    /\ s \in rdb.shares /\ s.exp > rnow
    /\ rreq' = [rreq EXCEPT !.public = [pc |-> "resolving", share |-> s]]
    /\ UNCHANGED <<rdb, rnow>>

\* What a reader sees of an insight: SQL text blanked.
\* (RedactTopLevel: the tiles of a dashboard keep theirs.)
RedactTopLevel(kind, x) == [project |-> x.project, id |-> x.id,
                            text |-> x.query = "sql" /\ kind = "dashboard"]
redact_public(kind, x) == [project |-> x.project, id |-> x.id, text |-> FALSE]

\* get_insight or get_dashboard, then redact_public; an object that is gone by
\* now answers not_found.
PublicAnswer(s) ==
    {redact_public(s.kind, x) : x \in IF s.kind = "insight" THEN load_insight(s.project, s.object)
                                      ELSE load_dashboard(s.project, s.object)}

resolve_public_share ==
    /\ rreq.public # NoRequest
    /\ rreq' = [rreq EXCEPT !.public = NoRequest]
    /\ UNCHANGED <<rdb, rnow>>

-----------------------------------------------------------------------------
ResTick == rnow < ResEnd /\ rnow' = rnow + 1 /\ UNCHANGED <<rdb, rreq>>

ResInit ==
    /\ rdb = [insights |-> {}, dashboards |-> {}, tiles |-> {}, shares |-> {}]
    /\ rreq = [write |-> NoRequest, public |-> NoRequest]
    /\ rnow = 0

TileLists == UNION {[1..n -> InsightIds] : n \in 0..MaxTiles}
Objects(kind) == IF kind = "insight" THEN InsightIds ELSE DashboardIds

\* The handlers behind each part of the API.
InsightWrites(p, i) ==
    \/ \E q \in Queries : create_insight(p, i, q) \/ update_insight(p, i, q)
    \/ delete_insight(p, i)

DashboardWrites(p, d) ==
    \/ create_dashboard(p, d) \/ update_dashboard(p, d) \/ delete_dashboard(p, d)
    \/ \E ids \in TileLists : replace_dashboard_tiles(p, d, ids)

ShareWrites(p) ==
    \/ \E s \in rdb.shares : delete_share(p, s)
    \/ \E t \in ShareTokens, kind \in {"insight", "dashboard"}, e \in Expiries :
          \E o \in Objects(kind) : create_share(p, t, kind, o, e)

Imports(p) ==
    \/ \E i \in InsightIds, q \in Queries : import_insight(p, i, q)
    \/ \E d \in DashboardIds, ids \in TileLists : import_dashboard(p, d, ids)
    \/ \E t \in ShareTokens, kind \in {"insight", "dashboard"}, e \in Expiries :
          \E o \in Objects(kind) : import_share(p, t, kind, o, e)

ResNext ==
    \/ ResTick \/ RefuseWrite \/ resolve_public_share
    \/ \E s \in rdb.shares : authorize_share_token(s) \/ (\E e \in Expiries : update_share_expiry(s, e))
    \/ \E p \in Projects :
         \/ \E role \in {"owner", "admin", "member"}, w \in BOOLEAN : authorize(p, role, w)
         \/ \E i \in InsightIds : InsightWrites(p, i)
         \/ \E d \in DashboardIds : DashboardWrites(p, d)
         \/ ShareWrites(p) \/ Imports(p)

ResSpec == ResInit /\ [][ResNext]_resVars

-----------------------------------------------------------------------------
(* Properties.                                                              *)

\* Every tile names an insight and a dashboard of its own project, every share an
\* object of its own, and a token one share, after any deletes and imports (the
\* cascades, ensure_insight, the UNIQUE token).
NothingDangles ==
    /\ \A t \in rdb.tiles : ensure_insight(t.project, t.insight) /\ ensure_dashboard(t.project, t.dashboard)
    /\ \A s \in rdb.shares : ensure_object(s.project, s.kind, s.object)
    /\ \A s, z \in rdb.shares : s.token = z.token => s = z

\* A public answer holds nothing of another project and no SQL text, whatever was
\* deleted, imported or updated between the token check and the load.
PublicAnswerScoped ==
    rreq.public # NoRequest =>
        \A x \in PublicAnswer(rreq.public.share) :
            /\ x.project = rreq.public.share.project /\ ~x.text
            /\ rreq.public.share.kind = "insight" => x.id = rreq.public.share.object

\* Saved insights, dashboards and shares point at rows of their own project and a
\* public share shows nothing else (control_resources.rs, routes/resources.rs).
ResourcesHold == NothingDangles /\ PublicAnswerScoped

\* The rows of a project.
RowsOf(b, p) == <<{x \in b.insights : x.project = p}, {x \in b.dashboards : x.project = p},
                  {x \in b.tiles : x.project = p}, {x \in b.shares : x.project = p}>>

\* A write authorized for one project leaves the rows of every other alone, also
\* where both hold the same ids (project_id in every statement).
WriteStep ==
    rreq.write # NoRequest /\ rreq'.write = NoRequest =>
        \A p \in Projects \ {rreq.write.project} : RowsOf(rdb', p) = RowsOf(rdb, p)
WritesStayInProject == [][WriteStep]_resVars

=============================================================================
