------------------------------ MODULE Control ------------------------------
(***************************************************************************)
(* Accounts, organizations, members, invites, sessions and personal keys:  *)
(* src/src/control.rs and src/src/control_members.rs, with the requests of *)
(* routes/workspace.rs and routes/members.rs and the offline tool of       *)
(* user_admin.rs.                                                          *)
(*                                                                         *)
(* One thread owns control.db and runs one command at a time, each one a   *)
(* transaction; a request is several commands with awaits between them, so *)
(* requests interleave command by command.  A user is its email address;   *)
(* whether a presented password matches is an input.  db.sessions[u] holds *)
(* the sessions of u, oldest first (created_at, then rowid).               *)
(***************************************************************************)
EXTENDS Integers, Sequences, FiniteSets

CONSTANTS
    Users, Orgs, Reqs, None,
    InvitedRoles,    \* bound: the roles people are invited with
    MaxSessions,     \* MAX_SESSIONS_PER_USER
    MaxInvites,      \* MAX_PENDING_INVITES
    MaxMembers,      \* MAX_MEMBERS
    SessionTtl, InviteTtl,
    DrainTimesOut,   \* whether requests may outlive the drain of a shutdown
    MaxTime, MaxMinted, MaxKeys, MaxPw, MaxProjects   \* bounds: clock, invites, keys,
                                                      \* resets, projects of an organization

ASSUME NoneAssumption == None \notin Users \cup Orgs
ASSUME InvitedAssumption == InvitedRoles \subseteq {"owner", "admin", "member"}
ASSUME LimitsAssumption == /\ {MaxSessions, MaxInvites, MaxMembers} \subseteq Nat \ {0}
                           /\ {SessionTtl, InviteTtl, MaxTime, MaxMinted, MaxKeys, MaxPw, MaxProjects} \subseteq Nat

VARIABLES
    db,          \* the committed control.db
    req,         \* the requests in flight
    server,      \* "up"; "drained": the writer lock is free; "down"
    now,         \* seconds
    minted,      \* invite tokens made so far: 1..minted
    ended,       \* observed: how often each token was used, revoked, replaced or purged
    setups       \* observed: first-run setups that succeeded

vars == <<db, req, server, now, minted, ended, setups>>
observed == <<minted, ended, setups>>

Roles == {"owner", "admin", "member"}
Tokens == 1..MaxMinted
Idle == [pc |-> "idle"]

-----------------------------------------------------------------------------
(* Rules and queries.                                                       *)

Member(b, o, u) == b.role[o][u] # "none"
Members(b, o) == {u \in Users : Member(b, o, u)}
Owners(b, o) == {u \in Users : b.role[o][u] = "owner"}
Manager(role) == role \in {"owner", "admin"}

\* (AdminMayAll: the owner rule forgotten.)
AdminMayAll(by, target, new) == Manager(by)

\* may_change: what an actor of this role may do to a member (new "none": remove).
may_change(by, target, new) ==
    \/ by = "owner"
    \/ by = "admin" /\ target # "owner" /\ new # "owner"

\* (AnyOwnerMayGo: the last-owner check forgotten.)
AnyOwnerMayGo(b, o, target) == TRUE
LastOwnerStays(b, o, target) == target = "owner" => Cardinality(Owners(b, o)) > 1

\* The sessions of s that have not expired, in their order.
Live(s) ==
    LET upTo[i \in 0..Len(s)] ==
            IF i = 0 THEN <<>>
            ELSE IF s[i].exp > now THEN Append(upTo[i - 1], s[i]) ELSE upTo[i - 1]
    IN upTo[Len(s)]

\* (OldestSessions: ORDER BY created_at ASC.)
OldestSessions(s) == SubSeq(s, 1, IF Len(s) > MaxSessions THEN MaxSessions ELSE Len(s))
NewestSessions(s) == SubSeq(s, IF Len(s) > MaxSessions THEN Len(s) - MaxSessions + 1 ELSE 1, Len(s))

\* (SessionInMillis: the expiry in the unit of users.created_at.)
SessionInMillis(b, u, pv) ==
    [b EXCEPT !.sessions[u] = Append(@, [exp |-> (now + SessionTtl) * 1000, pv |-> pv])]

\* start_session: purge what expired, insert, keep the newest of this user.
start_session(b, u, pv) ==
    [b EXCEPT !.sessions =
        [v \in Users |->
            IF v = u THEN NewestSessions(Append(Live(b.sessions[u]),
                                                [exp |-> now + SessionTtl, pv |-> pv]))
            ELSE Live(b.sessions[v])]]

Pending(b, o) == {i \in b.invites : i.org = o}
End(invites) == ended' = [t \in Tokens |-> IF \E i \in invites : i.id = t THEN ended[t] + 1 ELSE ended[t]]

-----------------------------------------------------------------------------
(* A request: authenticate, then one command; or look up, hash, command.    *)

Answer(r, b) == db' = b /\ req' = [req EXCEPT ![r] = Idle]
Principal(r) == req[r].p

\* authenticate: the session cookie, else the bearer key.
AuthenticateSession(r, u) ==
    /\ server = "up" /\ req[r] = Idle
    /\ \E i \in 1..Len(db.sessions[u]) : db.sessions[u][i].exp > now
    /\ req' = [req EXCEPT ![r] = [pc |-> "authed", p |-> [user |-> u, session |-> TRUE]]]
    /\ UNCHANGED <<db, server, now, observed>>

\* A cookie whose session has expired: validate_session deletes the row.
AuthenticateExpired(r, u, i) ==
    /\ server = "up" /\ req[r] = Idle
    /\ i \in 1..Len(db.sessions[u]) /\ db.sessions[u][i].exp <= now
    /\ Answer(r, [db EXCEPT !.sessions[u] = SubSeq(@, 1, i - 1) \o SubSeq(@, i + 1, Len(@))])
    /\ UNCHANGED <<server, now, observed>>

AuthenticateKey(r, k) ==
    /\ server = "up" /\ req[r] = Idle /\ k \in db.keys
    /\ req' = [req EXCEPT ![r] = [pc |-> "authed", p |-> [user |-> k.user, session |-> FALSE]]]
    /\ UNCHANGED <<db, server, now, observed>>

\* A handler that authenticated runs its command (a refused one ends in GiveUp).
Command(r, allowed, b) ==
    /\ server # "down" /\ req[r].pc = "authed"
    /\ allowed
    /\ Answer(r, b)
    /\ UNCHANGED <<server, now>>

Logout(r, i) ==
    /\ req[r].pc = "authed" /\ i \in 1..Len(db.sessions[Principal(r).user])
    /\ Command(r, Principal(r).session,
               [db EXCEPT !.sessions[Principal(r).user] = SubSeq(@, 1, i - 1) \o SubSeq(@, i + 1, Len(@))])
    /\ UNCHANGED observed

create_personal_key(r, n) ==
    /\ req[r].pc = "authed" /\ n \notin {k.n : k \in db.keys}
    /\ Command(r, Principal(r).session,
               [db EXCEPT !.keys = @ \cup {[n |-> n, user |-> Principal(r).user]}])
    /\ UNCHANGED observed

RevokePersonalKey(r, k) ==
    /\ req[r].pc = "authed" /\ k \in db.keys
    /\ Command(r, Principal(r).session /\ k.user = Principal(r).user, [db EXCEPT !.keys = @ \ {k}])
    /\ UNCHANGED observed

create_organization(r, o) ==
    /\ req[r].pc = "authed" /\ o \notin db.orgs
    /\ Command(r, Principal(r).session,
               [db EXCEPT !.orgs = @ \cup {o}, !.role[o][Principal(r).user] = "owner"])
    /\ UNCHANGED observed

\* (AnyoneCreates: the role is not read again.)
AnyoneCreates(r, o) ==
    /\ req[r].pc = "authed" /\ o \in db.orgs /\ db.projects[o] < MaxProjects
    /\ Command(r, Principal(r).session, [db EXCEPT !.projects[o] = @ + 1])
    /\ UNCHANGED observed

create_project(r, o) ==
    /\ req[r].pc = "authed" /\ o \in db.orgs /\ db.projects[o] < MaxProjects
    /\ Command(r, Principal(r).session /\ Manager(db.role[o][Principal(r).user]),
               [db EXCEPT !.projects[o] = @ + 1])
    /\ UNCHANGED observed

-----------------------------------------------------------------------------
(* Members.                                                                 *)

update_member_role(r, o, u, new) ==
    /\ req[r].pc = "authed" /\ o \in db.orgs
    /\ LET mine == db.role[o][Principal(r).user]  target == db.role[o][u] IN
       Command(r, /\ Principal(r).session /\ Manager(mine) /\ target # "none"
                  /\ may_change(mine, target, new)
                  /\ target # new => LastOwnerStays(db, o, target),
               [db EXCEPT !.role[o][u] = new])
    /\ UNCHANGED observed

\* Removed by someone else: the sessions go.  No organization left: the keys too.
RemoveMemberRow(b, o, u, leaving) ==
    LET c == [b EXCEPT !.role[o][u] = "none"]
        nowhere == \A x \in Orgs : ~Member(c, x, u)
    IN [c EXCEPT !.sessions[u] = IF ~leaving \/ nowhere THEN <<>> ELSE @,
                 !.keys = {k \in @ : ~(nowhere /\ k.user = u)}]

remove_member(r, o, u) ==
    /\ req[r].pc = "authed" /\ o \in db.orgs
    /\ LET me == Principal(r).user  mine == db.role[o][me]  target == db.role[o][u] IN
       Command(r, /\ Principal(r).session /\ mine # "none" /\ target # "none"
                  /\ me = u \/ may_change(mine, target, "none")
                  /\ LastOwnerStays(db, o, target),
               RemoveMemberRow(db, o, u, me = u))
    /\ UNCHANGED observed

-----------------------------------------------------------------------------
(* Invites.                                                                 *)

Purged(b, o, email) == {i \in Pending(b, o) : i.exp <= now \/ i.email = email}

create_invite(r, o, email, role) ==
    /\ req[r].pc = "authed" /\ o \in db.orgs /\ minted < MaxMinted
    /\ LET me == Principal(r).user
           gone == Purged(db, o, email)
           allowed == /\ Principal(r).session /\ Manager(db.role[o][me])
                      /\ role = "owner" => db.role[o][me] = "owner"
                      /\ ~Member(db, o, email)
                      /\ Cardinality(Pending(db, o) \ gone) < MaxInvites
       IN /\ Command(r, allowed,
                     [db EXCEPT !.invites = (@ \ gone) \cup
                        {[id |-> minted + 1, org |-> o, email |-> email, role |-> role,
                          exp |-> now + InviteTtl]}])
          /\ minted' = minted + 1
          /\ End(gone)
    /\ UNCHANGED setups

revoke_invite(r, i) ==
    /\ req[r].pc = "authed" /\ i \in db.invites
    /\ LET mine == db.role[i.org][Principal(r).user]
           allowed == /\ Principal(r).session /\ Manager(mine)
                      /\ i.role = "owner" => mine = "owner"
       IN /\ Command(r, allowed, [db EXCEPT !.invites = @ \ {i}])
          /\ End({i})
    /\ UNCHANGED <<minted, setups>>

-----------------------------------------------------------------------------
(* Requests that hash a password: look up, hash, run the command.           *)

Start(r, job) ==
    /\ req' = [req EXCEPT ![r] = [pc |-> "hashing", job |-> job]]
    /\ UNCHANGED <<server, now, minted, setups>>

setup_required == db.users = {}

SetupBegins(r, u) ==
    /\ server = "up" /\ req[r] = Idle /\ setup_required
    /\ \E claim \in Orgs \cup {None, "unknown"} :
          Start(r, [kind |-> "setup", user |-> u, claim |-> claim])
    /\ UNCHANGED <<db, ended>>

\* An unknown email hashes too, against a throwaway hash.
LoginBegins(r, u) ==
    /\ server = "up" /\ req[r] = Idle
    /\ Start(r, [kind |-> "login", user |-> u, known |-> u \in db.users, pv |-> db.pw[u]])
    /\ UNCHANGED <<db, ended>>

\* invite_lookup: an expired invite is deleted and answers like an unknown one.
AcceptBegins(r, i) ==
    /\ server = "up" /\ req[r] = Idle /\ i \in db.invites
    /\ IF i.exp > now
       THEN /\ Start(r, [kind |-> "accept", invite |-> i, user |-> i.email,
                         known |-> i.email \in db.users, pv |-> db.pw[i.email]])
            /\ UNCHANGED <<db, ended>>
       ELSE /\ Answer(r, [db EXCEPT !.invites = @ \ {i}])
            /\ End({i})
            /\ UNCHANGED <<server, now, minted, setups>>

\* The command was refused, the password wrong, the email unknown, no hashing
\* slot came free in time, the client left, or the request timed out.
GiveUp(r) ==
    /\ req[r] # Idle
    /\ req' = [req EXCEPT ![r] = Idle]
    /\ UNCHANGED <<db, server, now, observed>>

\* run_hashing answered, the password matches: the last command of the request.
Ready(r, kind) == server # "down" /\ req[r].pc = "hashing" /\ req[r].job.kind = kind

StartSession(r) ==
    /\ Ready(r, "login") /\ req[r].job.known
    /\ Answer(r, start_session(db, req[r].job.user, req[r].job.pv))
    /\ UNCHANGED <<server, now, observed>>

\* (SetupTrustsLookup: only setup_required, asked before hashing, guards setup.)
SetupTrustsLookup(b) == TRUE
NoAccountYet(b) == b.users = {}

\* setup: the first account owns the claimed or a new organization, and every
\* imported one (before there is an account, organizations are imported ones).
Setup(r, fresh) ==
    /\ Ready(r, "setup")
    /\ LET u == req[r].job.user
           claim == req[r].job.claim
           claimed == claim \in Orgs /\ db.projects[claim] > 0
           taken == \E x \in Orgs : db.projects[x] > 0
           o == IF claimed THEN claim ELSE fresh
       IN /\ NoAccountYet(db) /\ (claim # None /\ ~claimed => ~taken)
          /\ ~claimed => fresh \notin db.orgs
          /\ Answer(r,
                [db EXCEPT !.users = @ \cup {u}, !.orgs = @ \cup {o},
                           !.projects[o] = IF claimed THEN @ ELSE @ + 1,
                           !.role = [x \in Orgs |-> [v \in Users |->
                               IF v = u /\ (x = o \/ x \in db.orgs) THEN "owner" ELSE @[x][v]]],
                           !.sessions[u] = Append(@, [exp |-> now + SessionTtl, pv |-> 0])])
          /\ setups' = setups + 1
    /\ UNCHANGED <<server, now, minted, ended>>

\* The invite an accept may still use.  (InviteFromLookup: trust the lookup.)
InviteFromLookup(b, i) == {i}
Usable(b, i) == {x \in b.invites : x.id = i.id /\ x.exp > now}

\* accept_invite; opened: whether the session after the commit could be written.
accept_invite(r, opened) ==
    /\ Ready(r, "accept")
    /\ LET job == req[r].job
           found == Usable(db, job.invite)
           i == CHOOSE x \in found : TRUE
           u == job.user
           used == [db EXCEPT !.invites = @ \ {i}]
           joined == [used EXCEPT !.users = @ \cup {u}, !.role[i.org][u] = i.role]
       IN /\ found # {}
          /\ Cardinality(Members(db, i.org)) < MaxMembers
          /\ job.known \/ u \notin db.users
          /\ IF Member(db, i.org, u)
             THEN Answer(r, used)
             ELSE Answer(r, IF opened THEN start_session(joined, u, job.pv) ELSE joined)
          /\ End({i})
    /\ UNCHANGED <<server, now, minted, setups>>

-----------------------------------------------------------------------------
(* Time, shutdown, restart, and the offline password reset.                 *)

Tick == now < MaxTime /\ now' = now + 1
        /\ UNCHANGED <<db, req, server, observed>>

\* Application::shutdown: the WAL writer (and its lock) ends before the control
\* thread; connections still open when the drain times out keep running.
ReleaseWriterLock ==
    /\ server = "up" /\ server' = "drained"
    /\ DrainTimesOut \/ \A r \in Reqs : req[r] = Idle
    /\ UNCHANGED <<db, req, now, observed>>

\* ProjectAccessRuntime::close, or a kill at any time.
Stop ==
    /\ server # "down" /\ server' = "down"
    /\ req' = [r \in Reqs |-> Idle]
    /\ UNCHANGED <<db, now, observed>>

Restart == server = "down" /\ server' = "up"
           /\ UNCHANGED <<db, req, now, observed>>

\* hoglet user reset-password takes the writer lock, so it needs it free.
\* (ResetKeepsSessions: the password alone is replaced.)
ResetKeepsSessions(b, u) == [b EXCEPT !.pw[u] = @ + 1]
ResetRow(b, u) == [b EXCEPT !.pw[u] = @ + 1, !.sessions[u] = <<>>]

reset_password(u) ==
    /\ server # "up" /\ u \in db.users /\ db.pw[u] < MaxPw
    /\ db' = ResetRow(db, u)
    /\ UNCHANGED <<req, server, now, observed>>

-----------------------------------------------------------------------------
Blank == [users |-> {}, pw |-> [u \in Users |-> 0], orgs |-> {},
          role |-> [o \in Orgs |-> [u \in Users |-> "none"]],
          projects |-> [o \in Orgs |-> 0],
          invites |-> {}, sessions |-> [u \in Users |-> <<>>], keys |-> {}]

\* A new installation, or one whose organizations an older version imported.
Init ==
    /\ \E o \in Orgs :
          db \in {Blank, [Blank EXCEPT !.orgs = {o}, !.projects[o] = 1]}
    /\ req = [r \in Reqs |-> Idle]
    /\ server = "up" /\ now = 0 /\ minted = 0
    /\ ended = [t \in Tokens |-> 0] /\ setups = 0

RequestStep(r) ==
    \/ GiveUp(r) \/ StartSession(r)
    \/ \E o \in Orgs : Setup(r, o)
    \/ \E opened \in BOOLEAN : accept_invite(r, opened)

Handler(r) ==
    \/ \E i \in 1..MaxSessions : Logout(r, i)
    \/ \E n \in 1..MaxKeys : create_personal_key(r, n)
    \/ \E k \in db.keys : RevokePersonalKey(r, k)
    \/ \E o \in Orgs : create_organization(r, o) \/ create_project(r, o)
    \/ \E o \in Orgs, u \in Users, new \in Roles : update_member_role(r, o, u, new)
    \/ \E o \in Orgs, u \in Users : remove_member(r, o, u)
    \/ \E o \in Orgs, u \in Users, role \in InvitedRoles : create_invite(r, o, u, role)
    \/ \E i \in db.invites : revoke_invite(r, i)

Arrive(r) ==
    \/ \E u \in Users : AuthenticateSession(r, u) \/ SetupBegins(r, u) \/ LoginBegins(r, u)
    \/ \E u \in Users, i \in 1..MaxSessions : AuthenticateExpired(r, u, i)
    \/ \E k \in db.keys : AuthenticateKey(r, k)
    \/ \E i \in db.invites : AcceptBegins(r, i)

Next ==
    \/ \E r \in Reqs : Arrive(r) \/ Handler(r) \/ RequestStep(r)
    \/ \E u \in Users : reset_password(u)
    \/ Tick \/ ReleaseWriterLock \/ Stop \/ Restart

Spec == Init /\ [][Next]_vars

-----------------------------------------------------------------------------
(* Properties.                                                              *)

Session == [exp : 0..(MaxTime + SessionTtl), pv : 0..MaxPw]
Invite == [id : Tokens, org : Orgs, email : Users, role : Roles, exp : 0..(MaxTime + InviteTtl)]
Key == [n : 1..MaxKeys, user : Users]
Pcs == {"idle", "authed", "hashing"}

\* Every row has the shape its table declares.
TypeOK ==
    /\ \A i \in db.invites : i \in Invite
    /\ \A u \in Users : \A i \in 1..Len(db.sessions[u]) : db.sessions[u][i] \in Session
    /\ \A o \in Orgs : db.projects[o] \in 0..MaxProjects
    /\ \A r \in Reqs : req[r].pc \in Pcs

\* Once the installation is set up, every organization has an owner, whoever
\* demotes, removes or leaves at the same time (update_member_role, remove_member).
OrgKeepsOwner == db.users # {} => \A o \in db.orgs : Owners(db, o) # {}

\* An invite token ends once: it gives one membership, or it is revoked, replaced
\* or purged and gives none, even to an accept that looked it up before (accept_invite).
InviteSingleUse == \A t \in Tokens : ended[t] <= 1

\* Two setups that both saw no account: one of them succeeds (setup's
\* user_count inside the transaction).
SetupOnce == setups <= 1

\* What is offered once is used once: an invite, by whoever accepts, revokes or
\* replaces it first, and the first-run setup (control_members.rs accept_invite,
\* control.rs setup).
UsedOnce == InviteSingleUse /\ SetupOnce

\* Every session was opened with the account's current password: a reset leaves
\* no older session behind (user_admin::reset_password).
CredentialsCurrent == \A u \in Users : \A i \in 1..Len(db.sessions[u]) : db.sessions[u][i].pv = db.pw[u]

\* The user of the request that ran a command in this step.
Actor == LET r == CHOOSE x \in Reqs : req'[x] # req[x]
         IN IF req[r].pc = "authed" THEN req[r].p.user ELSE req[r].job.user

InviteTaken(o, u, role) ==
    \E i \in db.invites \ db'.invites : i.org = o /\ i.email = u /\ i.role = role

\* Only an owner makes or unmakes an owner: directly, through an owner invite
\* that an owner made, or by leaving; setup and a new organization aside (may_change).
OwnerStep ==
    \A o \in db.orgs :
      /\ \A u \in Users :
            (db'.role[o][u] = "owner") # (db.role[o][u] = "owner") =>
                \/ db.role[o][Actor] = "owner" \/ setups' # setups
                \/ InviteTaken(o, u, "owner")
      /\ \A i \in db'.invites \ db.invites :
            i.role = "owner" => db.role[i.org][Actor] = "owner"
OwnersMadeByOwners == [][OwnerStep]_vars

\* A request authenticated before its user was removed changes nothing in the
\* organization any more (actor_role is read by each command).
ActorStep ==
    \A o \in db.orgs :
      \/ db'.role[o] # db.role[o]
      \/ \E i \in db'.invites \ db.invites : i.org = o
      \/ db'.projects[o] # db.projects[o]
      => Member(db, o, Actor) \/ setups' # setups
         \/ \E role \in Roles : InviteTaken(o, Actor, role)
RemovedActorPowerless == [][ActorStep]_vars

\* A login that succeeds yields a session that is valid and bounded in number,
\* also at the limit and among sessions that expired (start_session).
LoginStep ==
    \A r \in Reqs : StartSession(r) =>
      LET s == db'.sessions[req[r].job.user] IN
      /\ s # <<>> /\ s[Len(s)].exp = now + SessionTtl
      /\ Cardinality({i \in 1..Len(s) : s[i].exp > now}) <= MaxSessions
LoginGivesSession == [][LoginStep]_vars

\* Only owners make owners, an actor who was removed changes nothing, and a login
\* yields a session also at the limit (control_members.rs may_change, control.rs
\* start_session).
MembershipSteps == OwnersMadeByOwners /\ RemovedActorPowerless /\ LoginGivesSession
=============================================================================
